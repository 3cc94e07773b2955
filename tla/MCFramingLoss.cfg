\* Two frames read together: the second is lost and the session lives on.
SPECIFICATION Spec
CONSTANTS
  MaxMsgs = 3
  MaxPayload = 2
  BufSize = 20
  MaxWindow = 2
  Encrypted = {TRUE}
  Smooth = {TRUE}
INVARIANT EveryMessageArrives
CHECK_DEADLOCK FALSE
