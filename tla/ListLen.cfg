\* One full block is enough.
SPECIFICATION ObserversSpec
CONSTANTS
  BlockCap = 2
  Senders = {s1}
  Receivers = {r1}
  MaxSends = 2
  NoMsg = NoMsg
  Width = 16
INVARIANTS
  LenExact
