\* Two receivers cross two blocks.
SPECIFICATION Spec
CONSTANTS
  BlockCap = 2
  Senders = {s1}
  Receivers = {r1, r2}
  MaxSends = 4
  NoMsg = NoMsg
INVARIANTS
  NoUseAfterFree
  DropTakesTheRest
  NoBlockLeaks
PROPERTIES
  ImplementsFifo
SYMMETRY Symmetry
