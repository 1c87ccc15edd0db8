--------------------------- MODULE ArrayObservers ---------------------------
(***************************************************************************)
(* The calls of src/array.rs that only look at the ring while senders and  *)
(* receivers move it: len, is_empty and is_full, each a few separate loads *)
(* of head and tail.                                                       *)
(*                                                                         *)
(* One observer is enough: it changes nothing the others see.              *)
(***************************************************************************)
EXTENDS ArrayChannel

VARIABLES
  obs,     \* what the observer is doing, and at which of its loads it is
  oTail,   \* its copy of tail, 0 between two calls
  oHead,   \* its copy of head, likewise
  lengths  \* ghost: how many messages were pending, during the call in progress
           \* (is_empty, is_full) or at its last load of head (len)

observer == <<obs, oTail, oHead, lengths>>
allVars  == <<vars, observer>>

Length == Len(log) - taken

ObserversInit ==
  /\ Init
  /\ obs = "idle"
  /\ oTail = 0 /\ oHead = 0
  /\ lengths = {}

Look(from, to) == obs = from /\ obs' = to

\* The call is over, and its copies with it.
Return(from) ==
  /\ Look(from, "idle")
  /\ oTail' = 0 /\ oHead' = 0
  /\ lengths' = {}

\* Mutant of FullOf: the lap is not compared.
FullOfIndex(t, h) == Index(h) = Index(t)

\* is_full: is the head a lap behind?
FullOf(t, h) == h + OneLap = Unmarked(t)

\* is_empty, as it is written: the tail masked with the mark bit.
EmptyOf(t, h) == (IF Marked(t) THEN MarkBit ELSE 0) = h

------------------------------------------------------------------------------
\* len and is_full load tail first, and then head.
LoadTail ==
  /\ Look("idle", "len_head") \/ Look("idle", "full_head")
  /\ oTail' = tail
  /\ lengths' = {Length}
  /\ UNCHANGED oHead

LoadHead ==
  /\ Look("len_head", "len_check")
  /\ oHead' = head
  /\ lengths' = {Length}
  /\ UNCHANGED oTail

\* Mutant of CheckTail: tail is not loaded a second time.
CheckTailNot == Return("len_check")

\* len returns LenOf(oTail, oHead) if tail did not change, and else starts again.
CheckTail ==
  /\ Return("len_check")
  /\ tail = oTail

TailChanged ==
  /\ Look("len_check", "len_head")
  /\ tail # oTail
  /\ oTail' = tail
  /\ lengths' = {Length}
  /\ UNCHANGED oHead

\* is_full returns FullOf(oTail, head).
IsFull == Return("full_head")

\* is_empty loads head first.
LoadHeadFirst ==
  /\ Look("idle", "empty_tail")
  /\ oHead' = head
  /\ lengths' = {Length}
  /\ UNCHANGED oTail

\* is_empty returns EmptyOf(tail, oHead).
IsEmpty == Return("empty_tail")

Observe ==
  /\ \/ LoadTail \/ LoadHead \/ CheckTail \/ TailChanged
     \/ IsFull \/ LoadHeadFirst \/ IsEmpty
  /\ UNCHANGED vars

\* A step of the ring, noted by an observer that is in a call.
Others ==
  /\ Next
  /\ lengths' = IF obs \in {"idle", "len_check"} THEN lengths ELSE lengths \union {Length'}
  /\ UNCHANGED <<obs, oTail, oHead>>

ObserversNext == Observe \/ Others

ObserversSpec == ObserversInit /\ [][ObserversNext]_allVars

\* With the fairness of the ring; the observer need not do anything.
ObserversFairSpec == ObserversSpec /\ Fairness
------------------------------------------------------------------------------
(***************************************************************************)
(* Properties.                                                             *)
(***************************************************************************)
\* A step in which the observer returns from a call that was at its last load.
Returns(last) == obs = last /\ obs' = "idle"

\* len is exact although it is not atomic: what it returns is the number of
\* messages pending at its last load of head (array.rs:392, "we've got
\* consistent values to work with"), also across laps and with the mark set.
LenExact == [][Returns("len_check") => {LenOf(oTail, oHead)} = lengths]_allVars

\* is_full: TRUE only if the channel was full at some instant of the call, FALSE
\* only if it was not full at some instant of the call, as its comment claims
\* (array.rs:431-432).
FullSound ==
  [][Returns("full_head") =>
       LET during == lengths \union {Length}
       IN  IF FullOf(oTail, head) THEN Cap \in during ELSE \E n \in during : n # Cap]_allVars

\* is_empty, by its comment (array.rs:418-421, "Is the tail equal to the head?"):
\* TRUE only if the channel was empty at some instant of the call.
EmptySound ==
  [][Returns("empty_tail") /\ EmptyOf(tail, oHead) => 0 \in lengths \union {Length}]_allVars
=============================================================================
