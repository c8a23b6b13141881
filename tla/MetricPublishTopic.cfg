SPECIFICATION Spec
CONSTANTS
  m1 = m1
  m2 = m2
  a = a
  b = b
  w1 = w1
  w2 = w2
  worker = worker
  app = app
  Metrics = {m1, m2}
  Nullable = {}
  Values = {a, b}
  Empty = a
  Starred = Starred
  Writers = {w1}
  Publishers = {worker}
  Worker = worker
  Library = Library
  Nobody = Nobody
  LateFailures = FALSE
  MaxOlder = 0
SYMMETRY Symmetry
INVARIANTS
  NoUpdateLost
  PublishInv
