\* The order of messages in both directions and the races of all the callers of Close and
\* softClose: one user, channels of size 0 and 1.
SPECIFICATION Spec
CONSTANTS
  NoProc = NoProc
  Users = {u1}
  Handshakers = {u1}
  InMsg = {p1, r1, x1}
  OutMsg = {o1}
  Registered = {p1, r1, o1}
  Routed = {r1}
  Builders <- BothSettings
  PeerMay = {}
  MaxIn = 2
INVARIANTS TypeOK OutboundOrder ClosedOnce CloseIsComplete CloseInv
 
CHECK_DEADLOCK FALSE
