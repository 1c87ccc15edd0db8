--------------------------- MODULE MCArrayChannel ---------------------------
(***************************************************************************)
(* Small instances of ArrayChannel for TLC.                                *)
(***************************************************************************)
EXTENDS ArrayChannelInv, TLC

\* The mark bit of the instance is the one with_capacity computes.
ASSUME MarkBitIsComputed == MarkBit = NextPowerOfTwo(Cap + 1)

\* Threads are told apart only by equality.
Symmetry == Permutations(Senders) \union Permutations(Receivers)
==============================================================================
