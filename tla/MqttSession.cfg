SPECIFICATION FairSpec
CONSTANTS
  plain = plain
  near = near
  far = far
  once = once
  Callers = {"sample", "app"}
  Msgs = {plain, once, near, far}
  Traffic <- MCTraffic
  MsgId <- MCMsgId
  MsgQos <- MCMsgQos
  OwnQos <- MCOwnQos
  MaxConns = 2
PROPERTIES Delivers Completes
CHECK_DEADLOCK FALSE
