\* The call ends, with or without its completion: no deadlock check.
CONSTANTS
  Docs = {d1, d2, d3, d4}
SPECIFICATION FairSpec
INVARIANTS
  OnceWithAll
PROPERTIES
  Answered
CHECK_DEADLOCK FALSE
