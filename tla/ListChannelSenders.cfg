\* Two senders fill two blocks.  Liveness: no symmetry.
SPECIFICATION FairSpec
CONSTANTS
  BlockCap = 2
  Senders = {s1, s2}
  Receivers = {r1}
  MaxSends = 2
  NoMsg = NoMsg
INVARIANTS
  TypeOK
  ReadsWhatWasSent
PROPERTIES
  ImplementsFifo
  EveryCallReturns
