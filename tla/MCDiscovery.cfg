\* Three calls by two goroutines, two servers, both strategies.
SPECIFICATION LiveSpec
CONSTANTS
  None = None
  Callers = {u1, u2}
  Services = {s1, s2}
  Matching = {s1}
  Strategies = {"timeout", "default"}
  MaxCalls = 3
INVARIANTS TypeOK NotTooStale HandedOnce DialsItsAnswer
PROPERTIES  CancelEndsLookups
CHECK_DEADLOCK FALSE
