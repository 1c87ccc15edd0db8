\* Two senders and a receiver.  No executor, or one with 2 or 3 workers.
SPECIFICATION MCSpec
CONSTANTS
  Senders = {s1, s2}
  Receivers = {r1}
  Closers = {c}
  MaxCalls = 2
  NoMsg = NoMsg
  Nobody = Nobody
  Pools = {0, 2, 3}
  MaxItems = 1
  AllCalls = 5
  WakerCap = 2
  CountRange = 3
  NoTask = NoTask
INVARIANTS
  TasksTypeOK
  PacketAlive
  UnwrapsSucceed
  ReturnsWhatWasDecided
  NoEntryLeft
  NoReceiverParkedBesideSender
  OneRegistration
PROPERTIES
  ImplementsRendezvous
  EveryCallReturns
  BlockedSendEnds
CHECK_DEADLOCK FALSE
