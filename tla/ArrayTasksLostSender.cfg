\* One sender and one receiver are enough to leave a sender asleep.
SPECIFICATION Spec
CONSTANTS
  Cap = 1
  Senders = {s1}
  Receivers = {r1}
  MaxSends = 2
  NoMsg = NoMsg
  WakerCap = 4
  CountRange = 4
  NoTask = NoTask
INVARIANT SendersWaitOnlyWhenFull
CHECK_DEADLOCK FALSE
