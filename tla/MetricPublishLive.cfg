SPECIFICATION FairSpec
CONSTANTS
  m1 = m1
  m2 = m2
  a = a
  b = b
  w1 = w1
  w2 = w2
  worker = worker
  app = app
  Metrics = {m1}
  Nullable = {m1}
  Values = {a, b}
  Empty = a
  Starred = Starred
  Writers = {w1}
  Publishers = {worker, app}
  Worker = worker
  Library = Library
  Nobody = Nobody
  LateFailures = TRUE
  MaxOlder = 1
INVARIANTS
  NoUpdateLost
PROPERTIES
  EventuallySent
  Quiesces
