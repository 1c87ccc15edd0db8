---------------------------- MODULE ListObservers ----------------------------
(***************************************************************************)
(* len of src/list.rs: three loads of tail and head, taken while senders   *)
(* and receivers move on, and arithmetic on unsigned integers.             *)
(*                                                                         *)
(* One observer is enough: it changes nothing the others see.              *)
(***************************************************************************)
EXTENDS ListChannel, Integers

CONSTANT Width  \* bits of an integer: 64 in the code, enough for the bounds here

VARIABLES
  obs,     \* which of its loads the observer in len has done
  oTail,   \* its copy of tail.index
  oHead,   \* its copy of head.index
  oLength, \* ghost: how many messages were pending when it loaded head.index
  result   \* what its last call returned, with the length to judge it by

observer == <<obs, oTail, oHead, oLength, result>>
allVars  == <<vars, observer>>

Length == Len(log) - taken

ObserversInit ==
  /\ Init
  /\ obs = "idle"
  /\ oTail = 0 /\ oHead = 0 /\ oLength = 0
  /\ result = [value |-> 0, length |-> 0]

Look(from, to) == obs = from /\ obs' = to

Wrapping(x) == x % 2 ^ Width

\* What len makes of two indices: both counted from the start of head's block and
\* moved off a block end; then one less for every block end between them.
LenOf(t, h) ==
  LET base == LapOf(h) * Lap
      atEnd == OffsetOf(h) = BlockCap
      hd == IF atEnd THEN 0 ELSE Position(h) - base
      tl == IF atEnd THEN Wrapping(Position(t) - base - Lap) ELSE Position(t) - base
      te == IF tl = BlockCap THEN tl + 1 ELSE tl
  IN  Wrapping(te - hd - te \div Lap)

LoadTail ==
  /\ Look("idle", "head")
  /\ oTail' = tailIndex
  /\ UNCHANGED <<oHead, oLength, result>>

LoadHead ==
  /\ Look("head", "check")
  /\ oHead' = headIndex
  /\ oLength' = Length
  /\ UNCHANGED <<oTail, result>>

\* len returns if tail did not change, and else starts again.
CheckTail ==
  /\ Look("check", "idle")
  /\ tailIndex = oTail
  /\ result' = [value |-> LenOf(oTail, oHead), length |-> oLength]
  /\ UNCHANGED <<oTail, oHead, oLength>>

TailChanged ==
  /\ Look("check", "head")
  /\ tailIndex # oTail
  /\ oTail' = tailIndex
  /\ UNCHANGED <<oHead, oLength, result>>

Observe == (LoadTail \/ LoadHead \/ CheckTail \/ TailChanged) /\ UNCHANGED vars

ObserversNext == Observe \/ (Next /\ UNCHANGED observer)

ObserversSpec == ObserversInit /\ [][ObserversNext]_allVars
------------------------------------------------------------------------------
(***************************************************************************)
(* Properties.                                                             *)
(***************************************************************************)
\* len is the number of messages that were pending when it loaded head, as its
\* comments say (list.rs:430 "we've got consistent indices to work with", :454
\* "Return the difference minus the number of blocks between tail and head."),
\* also where they "fall onto block ends" (:445).
LenExact == obs = "idle" => result.value = result.length
==============================================================================
