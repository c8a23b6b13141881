SPECIFICATION Spec
CONSTANTS
  ReceivedName = "a"
  Names = {"a", "b"}
  Filters = {f1, f2}
  Covers <- MCCovers
  MaxTopics = 2
SYMMETRY FilterSymmetry
INVARIANTS
  NodeTopicsTypeOK
  UniqueTopics
  PointersAlive
  DestroyedInvalid
  SubscribedWhenOpen
CHECK_DEADLOCK FALSE
