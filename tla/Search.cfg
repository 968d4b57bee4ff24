\* A limit of two over up to three documents, so that a match may lie beyond it.
CONSTANTS
  Documents <- MCDocuments
  Texts <- MCTexts
  Blank <- MCBlank
  Matching <- MCMatching
  Limit = 2
  NoLimit = NoLimit
  Slots = {s1, s2}
SPECIFICATION FairSpec
INVARIANTS
  SettledShowsText
PROPERTIES
  ResultsArrive
