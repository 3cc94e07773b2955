\* A websocket session with a routed, a plain and a text message, or two with the text first.
SPECIFICATION WsLiveSpec
CONSTANTS
  NoProc = NoProc
  Users = {u1}
  Handshakers = {}
  InMsg = {p1, r1, x1}
  OutMsg = {}
  Registered = {p1, r1}
  Routed = {r1}
  Texts = {x1}
  MaxFailures = 2
  Builders <- WsSettings
  PeerMay = {"closed"}
  MaxIn = 2
INVARIANTS WsTypeOK ReleasedFirst
PROPERTIES  TeardownCascades
ACTION_CONSTRAINT TextFirst
CHECK_DEADLOCK FALSE
