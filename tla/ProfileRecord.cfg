\* A required field that Facebook provides and a free one that it does not.
CONSTANTS
  Fields = {firstName, lastName}
  Required = {firstName}
  Provided = {firstName}
  Values = {v1, v2}
  Blank = Blank
  Facebook = Facebook
  MaxWrites = 2
SPECIFICATION Spec
INVARIANTS
  EditsSurvive
  FormIsCurrent
