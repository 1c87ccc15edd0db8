\* One slot: the second message waits for the reader of the first.
\* Liveness: no symmetry.
SPECIFICATION ObserversFairSpec
CONSTANTS
  Cap = 1
  MarkBit = 2
  Senders = {s1, s2}
  Receivers = {r1}
  MaxSends = 1
  NoMsg = NoMsg
PROPERTIES
  LenExact
  FullSound
  EveryCallReturns
