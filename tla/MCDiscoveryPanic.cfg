\* The error of a call leaves it as a panic.
SPECIFICATION Spec
CONSTANTS
  None = None
  Callers = {u1}
  Services = {s1, s2}
  Matching = {s1}
  Strategies = {"timeout"}
  MaxCalls = 2
INVARIANT ErrorsAreReturned
CHECK_DEADLOCK FALSE
