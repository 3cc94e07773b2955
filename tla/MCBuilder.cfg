\* The options of a client and a server, of both kinds, in any order.
SPECIFICATION Spec
CONSTANTS
  Type = {"t1", "t2"}
  Hash <- Distinct
  Flavours = {"tcp", "ws"}
INVARIANTS HandshakeReachesBuilder StrictIsEquality StrictMeansServed
CHECK_DEADLOCK FALSE
