\* Two slots: crossings of a lap and steps within one.
SPECIFICATION Spec
CONSTANTS
  Cap = 2
  MarkBit = 4
  Senders = {s1, s2}
  Receivers = {r1, r2}
  MaxSends = 2
  NoMsg = NoMsg
INVARIANTS
  TypeOK
  SlotExclusive
  ReadsWhatWasSent
  DeliveredOnce
  SenderOrder
  DropTakesTheRest
  IInv
PROPERTIES
  ImplementsFifo
SYMMETRY Symmetry
