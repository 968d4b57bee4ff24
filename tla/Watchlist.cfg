\* Four assets: a removal at the head, in the middle and at the end of a list.
CONSTANTS
  Assets = {a1, a2, a3, a4}
  NoAsset = NoAsset
  NoList = NoList
SPECIFICATION Spec
INVARIANTS
  ListLagsByTaps
  SpinnerMeansUnused
PROPERTIES
  IsWatchSet
