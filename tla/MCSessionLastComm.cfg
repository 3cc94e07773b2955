\* LastComm does not tell the time of the last reception.
SPECIFICATION Spec
CONSTANTS
  NoProc = NoProc
  Users = {}
  Handshakers = {}
  InMsg = {p1}
  OutMsg = {}
  Registered = {p1}
  Routed = {}
  Builders <- Unbuffered
  PeerMay = {}
  MaxIn = 1
PROPERTY ReceptionRefreshes
CHECK_DEADLOCK FALSE
