SPECIFICATION Spec
CONSTANTS
  Names = {1, 2}
  Identities = {1, 2}
  MaxGroups = 2
  MaxMetrics = 3
INVARIANTS
  DatabaseTypeOK
  OneEachKey
  SortedUntilCreate
  LookupsAgree
PROPERTIES
  ImplementsStore
