\* Servers of each kind, a maximum of one connection, and up to two calls of Shutdown.
SPECIFICATION LiveSpec
CONSTANTS
  None = None
  c1 = c1
  c2 = c2
  c3 = c3
  u1 = u1
  u2 = u2
  Conns = {c1, c2, c3}
  Closers = {u1, u2}
  Settings <- EachKind
INVARIANTS TypeOK CountBounded OpenStaysListed StreamedOnce StreamComplete
PROPERTY ShutdownCascades
CHECK_DEADLOCK FALSE
