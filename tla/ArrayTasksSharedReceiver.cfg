\* A cloned receiver: two tasks on one receiving side.
SPECIFICATION Spec
CONSTANTS
  Cap = 1
  Senders = {s1}
  Receivers = {r1, r2}
  MaxSends = 1
  NoMsg = NoMsg
  WakerCap = 4
  CountRange = 4
  NoTask = NoTask
INVARIANT ReceiversWaitOnlyWhenEmpty
CHECK_DEADLOCK FALSE
