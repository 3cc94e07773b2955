\* Every segmentation, timeout and cut write, with and without keys.
SPECIFICATION Spec
CONSTANTS
  MaxMsgs = 3
  MaxPayload = 5
  BufSize = 12
  MaxWindow = 2
  Encrypted = {TRUE, FALSE}
  Smooth = {TRUE, FALSE}
INVARIANTS TypeOK OnlyGenuine  InOrder NoSilentLoss SmoothSurvives
CHECK_DEADLOCK FALSE
