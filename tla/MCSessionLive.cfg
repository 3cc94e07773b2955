\* Every session ends, and ending cascades to every goroutine; the peer may stop
\* reading, half close, reset or go silent and the application may never receive.
SPECIFICATION LiveSpec
CONSTANTS
  NoProc = NoProc
  Users = {}
  Handshakers = {}
  InMsg = {p1, r1}
  OutMsg = {}
  Registered = {p1, r1}
  Routed = {r1}
  Builders <- BothSettings
  PeerMay = {"up", "stalled", "closed", "reset"}
  MaxIn = 2
PROPERTIES TeardownCascades SessionEnds CloseReturns
CHECK_DEADLOCK FALSE
