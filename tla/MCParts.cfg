SPECIFICATION Spec
CONSTANTS
  Callers = {"actor", "other"}
  Timeouts = {0, 1, 2}
  Children = {c1, c2}
  MaxRetries = 2
  Within = 2
  MaxFailures = 4
  Pids = {p1, p2}
  IntMax = 4
  MaxRoutees = 3
  MaxIndex = 4
  Actors = {a1, a2}
  Keys = {k1}
  TTL = 3
  MaxDelay = 1
  MaxDepth = 2
  Subscribers = {s1, s2}
  Clients = {x1, x2}
  MaxBatches = 1
  Takers = {t1, t2, t3}
  MaxLength = 3
  Threads = {h1, h2}
  Shards = 2
  Base = 2
  MaxIds = 3
  Names <- ChosenNames
INVARIANTS
  FairShare
  ReplayInOrder
  DuplicateGap
  GoneIsGone
  NoItemSleeps
  ShutdownForgets
PROPERTIES
  CancelStops
  StopNeedsRetries
CHECK_DEADLOCK FALSE
