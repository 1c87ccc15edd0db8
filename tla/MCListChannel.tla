---------------------------- MODULE MCListChannel ----------------------------
(***************************************************************************)
(* Small instances of ListChannel for TLC.                                 *)
(***************************************************************************)
EXTENDS ListChannel, TLC

\* Threads are told apart only by equality.
Symmetry == Permutations(Senders) \union Permutations(Receivers)
==============================================================================
