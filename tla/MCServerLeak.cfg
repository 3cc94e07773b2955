\* A connection accepted during Shutdown is never closed.
SPECIFICATION Spec
CONSTANTS
  None = None
  c1 = c1
  c2 = c2
  c3 = c3
  u1 = u1
  u2 = u2
  Conns = {c1, c2, c3}
  Closers = {u1, u2}
  Settings <- OneShutdown
INVARIANT ShutdownClosesAll
CHECK_DEADLOCK FALSE
