\* Two senders and a receiver, on a slot or on a list.
\* Liveness: no symmetry.
SPECIFICATION MCSpec
CONSTANTS
  Cap = 1
  Senders = {s1, s2}
  Receivers = {r1}
  MaxSends = 1
  NoMsg = NoMsg
  WakerCap = 2
  CountRange = 2
  NoTask = NoTask
INVARIANTS
  TypeOK
  NoStrandedReceiver
  OneRegistration
  ParkedSenderKept
PROPERTIES
  AcceptedIsReceived
  ReceiversEnd
\* All tasks may have ended, and a parked sender may wait for ever.
CHECK_DEADLOCK FALSE
