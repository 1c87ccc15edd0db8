\* Two handles on each side, and a queue of one: pushes fail.
SPECIFICATION ClientsSpec
CONSTANTS
  SenderHandles = {s1, s2}
  ReceiverHandles = {r1, r2}
  FirstSender = s1
  FirstReceiver = r1
  QueueCap = 1
  CountRange = 3
  NoTask = NoTask
  MaxCalls = 1
INVARIANTS
  ClientsTypeOK
  NoUseAfterFree
  ShutWhenSideGone
  RegistrationsConserved
PROPERTY NoLeak
\* Every handle may have been dropped.
CHECK_DEADLOCK FALSE
