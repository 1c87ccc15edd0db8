\* One sender of one message and one receiver.
SPECIFICATION TasksFairSpec
CONSTANTS
  Senders = {s1}
  Receivers = {r1}
  Closers = {}
  MaxCalls = 1
  MaxItems = 1
  NoMsg = NoMsg
  Nobody = Nobody
  Pools = {2}
  WakerCap = 4
  CountRange = 4
  NoTask = NoTask
PROPERTY ReceiversEnd
CHECK_DEADLOCK FALSE
