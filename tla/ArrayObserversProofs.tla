------------------------ MODULE ArrayObserversProofs ------------------------
(***************************************************************************)
(* Proofs about the calls of src/array.rs that only look at the ring, and  *)
(* about its drop: from the invariant of the ring, and from what the       *)
(* copies of an observer have to do with it.                               *)
(***************************************************************************)
EXTENDS ArrayObservers, ArrayChannelProofs, SequenceTheorems

\* len reports the distance between the positions of head and tail, up to a
\* whole lap, whether tail is marked or not.
LEMMA LenOfPositions ==
  ASSUME NEW t \in Nat, NEW n \in Nat, t <= n, n <= t + Cap,
         NEW x \in {Stamp(n), Stamp(n) + MarkBit}
  PROVE  LenOf(x, Stamp(t)) = n - t
<1> DEFINE qt == t \div Cap
           qn == n \div Cap
<1>1. /\ qt \in Nat /\ SlotOf(t) \in 0 .. Cap - 1 /\ t = qt * Cap + SlotOf(t)
      /\ qn \in Nat /\ SlotOf(n) \in 0 .. Cap - 1 /\ n = qn * Cap + SlotOf(n)
      /\ Stamp(t) = qt * OneLap + SlotOf(t) /\ Stamp(n) = qn * OneLap + SlotOf(n)
      /\ Stamp(t) \in Nat /\ Stamp(n) \in Nat
  BY StampType DEF Slots
<1>2. /\ Cap \in Nat \ {0} /\ MarkBit \in Nat /\ OneLap = 2 * MarkBit /\ OneLap \in Nat \ {0}
      /\ qt * Cap \in Nat /\ qn * Cap \in Nat
  BY <1>1, CapAssumption, MulNat DEF OneLap
<1>3. Index(Stamp(t)) = SlotOf(t)
  BY StampParts
<1>4. Index(x) = SlotOf(n) /\ Unmarked(x) = Stamp(n)
  <2>1. CASE x = Stamp(n)
    BY <2>1, StampParts
  <2>2. CASE x = Stamp(n) + MarkBit
    <3>1. Unmarked(x) = Stamp(n)
      BY <2>2, StampParts
    <3>2. x = (2 * qn + 1) * MarkBit + SlotOf(n)
      BY <1>1, <1>2, <2>2
    <3>3. 2 * qn + 1 \in Nat /\ MarkBit \in Nat \ {0} /\ SlotOf(n) \in 0 .. MarkBit - 1
      BY <1>1, CapAssumption
    <3>4. ((2 * qn + 1) * MarkBit + SlotOf(n)) % MarkBit = SlotOf(n)
      BY <3>3, DivModUnique
    <3>. QED
      BY <3>1, <3>2, <3>4 DEF Index
  <2>. QED
    BY <2>1, <2>2
<1>5. qn = qt \/ qn = qt + 1
  <2>1. qt <= qn
    <3>1. SUFFICES ASSUME qn < qt PROVE FALSE
      BY <1>1
    <3>2. qn * Cap + Cap <= qt * Cap
      BY <1>1, <1>2, <3>1, MulMonotone
    <3>. QED
      BY <1>1, <1>2, <3>2
  <2>2. qn <= qt + 1
    <3>1. SUFFICES ASSUME qt + 1 < qn PROVE FALSE
      BY <1>1
    <3>2. (qt + 1) * Cap + Cap <= qn * Cap /\ (qt + 1) * Cap = qt * Cap + Cap
      BY <1>1, <1>2, <3>1, MulMonotone
    <3>. QED
      BY <1>1, <1>2, <3>2
  <2>. QED
    BY <1>1, <2>1, <2>2
<1>6. CASE qn = qt
  <2>1. n - t = SlotOf(n) - SlotOf(t)
    BY <1>1, <1>2, <1>6
  <2>2. SlotOf(n) = SlotOf(t) => Stamp(n) = Stamp(t)
    BY <1>1, <1>6
  <2>. QED
    BY <1>1, <1>3, <1>4, <2>1, <2>2 DEF LenOf
<1>7. CASE qn = qt + 1
  <2>1. n = qt * Cap + Cap + SlotOf(n)
    BY <1>1, <1>2, <1>7
  <2>2. n - t = Cap + SlotOf(n) - SlotOf(t) /\ SlotOf(n) <= SlotOf(t)
    BY <1>1, <1>2, <2>1
  <2>3. Stamp(n) = qt * OneLap + OneLap + SlotOf(n)
    BY <1>1, <1>2, <1>7
  <2>4. SlotOf(n) = SlotOf(t) => Stamp(n) # Stamp(t)
    <3>1. qt * OneLap \in Nat
      BY <1>1, <1>2, MulNat
    <3>. QED
      BY <1>1, <1>2, <2>3, <3>1
  <2>. QED
    BY <1>1, <1>2, <1>3, <1>4, <2>2, <2>4 DEF LenOf
<1>. QED
  BY <1>5, <1>6, <1>7

\* What a step of the ring does to the number of pending messages.
LEMMA OneAtATime ==
  ASSUME IInv, [Next]_vars
  PROVE  \/ log' = log /\ taken' = taken
         \/ Len(log') = Len(log) + 1 /\ taken' = taken
         \/ log' = log /\ taken' = taken + 1
<1> USE DEF ghosts
<1>1. log \in Seq(Message)
  BY DEF IInv, TypeOK
<1>2. ASSUME NEW p \in Senders, SenderStep(p)
      PROVE  \/ log' = log /\ taken' = taken
             \/ Len(log') = Len(log) + 1 /\ taken' = taken
  <2>1. CASE SendReserve(p)
    <3>1. log' = Append(log, Msg(p, sent'[p])) /\ taken' = taken
      BY <2>1 DEF SendReserve, Reserve
    <3>. QED
      BY <1>1, <3>1
  <2>. QED
    BY <1>2, <2>1 DEF SenderStep, SendStart, SendClosed, SendInspect, SendReload, SendRetry,
                      SendFull, SendNotFull, Write, Publish
<1>3. ASSUME NEW p \in Receivers, ReceiverStep(p)
      PROVE  log' = log /\ (taken' = taken \/ taken' = taken + 1)
  BY <1>3 DEF ReceiverStep, RecvStart, RecvInspect, RecvReload, RecvReserve, RecvRetry,
              RecvEmpty, RecvNotEmpty, Read, Release
<1>4. CASE Shutdown \/ UNCHANGED vars
  BY <1>4 DEF Shutdown, vars
<1>. QED
  BY <1>2, <1>3, <1>4 DEF Next

------------------------------------------------------------------------------
(***************************************************************************)
(* len and is_full: what the copies of the observer have to do with the   *)
(* ring.                                                                   *)
(***************************************************************************)
\* The copy of tail stands at position n, marked or not.
StandsAt(x, n) == x \in {Stamp(n), Stamp(n) + MarkBit}

\* len, after its load of head: it counted up to a position h that tail had
\* reached, and that the first load of tail had not passed.
LenInv ==
  obs = "len_check" =>
    \E n, h, t \in Nat :
      /\ StandsAt(oTail, n) /\ n <= h /\ h <= Len(log)
      /\ oHead = Stamp(t) /\ t <= h /\ h <= t + Cap
      /\ lengths = {h - t}

\* len and is_full, after their load of tail; and if the channel has been full at
\* every instant since, then nothing has moved.
TailInv ==
  obs \in {"len_head", "full_head"} =>
    \E n \in Nat :
      /\ StandsAt(oTail, n) /\ n <= Len(log)
      /\ (\A k \in lengths : k = Cap) => n = taken + Cap

ObserverInv == IInv /\ LenInv /\ TailInv

LEMMA ObserverInit == ObserversInit => ObserverInv
<1> SUFFICES ASSUME ObserversInit PROVE ObserverInv
  OBVIOUS
<1>1. IInv
  BY InitIInv DEF ObserversInit
<1>2. obs = "idle"
  BY DEF ObserversInit
<1>. QED
  BY <1>1, <1>2 DEF ObserverInv, LenInv, TailInv

\* A load of tail, by len for the first time or once more, or by is_full.
LEMMA TailLoaded ==
  ASSUME ObserverInv, UNCHANGED vars, oTail' = tail, lengths' = {Length}, obs' # "len_check"
  PROVE  LenInv' /\ TailInv'
<1>1. /\ Len(log) \in Nat /\ taken \in Nat /\ log' = log /\ taken' = taken
      /\ Cap \in Nat
  BY Numbers DEF ObserverInv, vars
<1>2. StandsAt(oTail', Len(log))
  BY DEF ObserverInv, IInv, Counters, StandsAt
<1>3. (\A k \in lengths' : k = Cap) => Len(log) = taken + Cap
  BY <1>1 DEF Length
<1>4. TailInv'
  BY <1>1, <1>2, <1>3 DEF TailInv, StandsAt, Stamp
<1>. QED
  BY <1>4 DEF LenInv

\* The load of head in len.
LEMMA HeadLoaded ==
  ASSUME ObserverInv, UNCHANGED vars, LoadHead
  PROVE  LenInv' /\ TailInv'
<1>1. /\ Len(log) \in Nat /\ taken \in Nat /\ log' = log /\ taken' = taken
      /\ taken <= Len(log) /\ Len(log) <= taken + Cap
  BY Numbers DEF ObserverInv, vars
<1>2. /\ obs = "len_head" /\ obs' = "len_check" /\ oHead' = head /\ oTail' = oTail
      /\ lengths' = {Len(log) - taken}
  BY DEF LoadHead, Look, Length
<1>3. PICK n \in Nat : StandsAt(oTail, n) /\ n <= Len(log)
  BY <1>2 DEF ObserverInv, TailInv
<1>4. oHead' = Stamp(taken)
  BY <1>2, TailParts DEF ObserverInv
<1>5. StandsAt(oTail, n)'
  BY <1>2, <1>3 DEF StandsAt, Stamp
<1>6. LenInv'
  <2> DEFINE h == Len(log)
  <2>1. /\ StandsAt(oTail, n)' /\ n <= h /\ h <= Len(log')
        /\ oHead' = Stamp(taken) /\ taken <= h /\ h <= taken + Cap
        /\ lengths' = {h - taken}
    BY <1>1, <1>2, <1>3, <1>4, <1>5
  <2>2. h \in Nat /\ taken \in Nat
    BY <1>1
  <2> HIDE DEF h
  <2>. QED
    BY <2>1, <2>2 DEF LenInv, StandsAt, Stamp
<1>. QED
  BY <1>2, <1>6 DEF TailInv

\* The ring moves while an observer is in a call.
LEMMA OthersStep ==
  ASSUME ObserverInv, [Next]_vars, UNCHANGED <<obs, oTail, oHead>>,
         \/ obs \in {"idle", "len_check"} /\ lengths' = lengths
         \/ obs # "len_check" /\ lengths' = lengths \union {Length'}
         \/ UNCHANGED <<vars, lengths>>
  PROVE  LenInv' /\ TailInv'
<1>1. /\ Len(log) \in Nat /\ taken \in Nat /\ Cap \in Nat \ {0}
      /\ Len(log) <= taken + Cap
  BY Numbers DEF ObserverInv
<1>2. IInv'
  BY NextIInv DEF ObserverInv
<1>3. \/ Len(log') = Len(log) /\ taken' = taken
      \/ Len(log') = Len(log) + 1 /\ taken' = taken
      \/ Len(log') = Len(log) /\ taken' = taken + 1
  BY OneAtATime DEF ObserverInv
<1>4. Len(log') \in Nat /\ taken' \in Nat /\ Len(log') <= taken' + Cap
  <2>1. log' \in Seq(Message) /\ taken' \in Nat
    BY <1>2 DEF IInv, TypeOK
  <2>2. taken' <= Len(log') /\ Len(log') - taken' <= Cap
    BY <1>2 DEF IInv, WithinCapacity
  <2>. QED
    BY <1>1, <2>1, <2>2
<1>5. LenInv'
  <2>1. SUFFICES ASSUME obs = "len_check" PROVE LenInv'
    BY DEF LenInv
  <2>2. lengths' = lengths
    BY <2>1
  <2>3. PICK n, h, t \in Nat :
          /\ StandsAt(oTail, n) /\ n <= h /\ h <= Len(log)
          /\ oHead = Stamp(t) /\ t <= h /\ h <= t + Cap
          /\ lengths = {h - t}
    BY <2>1 DEF ObserverInv, LenInv
  <2>4. h <= Len(log')
    BY <1>1, <1>3, <2>3
  <2>5. StandsAt(oTail', n) /\ oHead' = Stamp(t)
    BY <2>3 DEF StandsAt, Stamp
  <2>. QED
    BY <2>2, <2>3, <2>4, <2>5 DEF LenInv, StandsAt, Stamp
<1>6. TailInv'
  <2>1. SUFFICES ASSUME obs \in {"len_head", "full_head"} PROVE TailInv'
    BY DEF TailInv
  <2>2. PICK n \in Nat :
          /\ StandsAt(oTail, n) /\ n <= Len(log)
          /\ (\A k \in lengths : k = Cap) => n = taken + Cap
    BY <2>1 DEF ObserverInv, TailInv
  <2>3. n <= Len(log')
    BY <1>1, <1>3, <2>2
  <2>4. ASSUME \A k \in lengths' : k = Cap PROVE n = taken' + Cap
    <3>1. CASE UNCHANGED <<vars, lengths>>
      BY <2>2, <2>4, <3>1 DEF vars
    <3>2. CASE lengths' = lengths \union {Length'}
      <4>1. n = taken + Cap /\ Length' = Cap
        BY <2>2, <2>4, <3>2
      <4>2. Len(log) = taken + Cap
        BY <1>1, <2>2, <4>1
      <4>3. Len(log') - taken' = Cap
        BY <4>1 DEF Length
      <4>4. taken' = taken
        BY <1>1, <1>3, <1>4, <4>2, <4>3
      <4>. QED
        BY <4>1, <4>4
    <3>. QED
      BY <2>1, <3>1, <3>2
  <2>5. StandsAt(oTail', n)
    BY <2>2 DEF StandsAt
  <2>. QED
    BY <2>3, <2>4, <2>5 DEF TailInv, StandsAt, Stamp
<1>. QED
  BY <1>5, <1>6

LEMMA ObserverNext ==
  ASSUME ObserverInv, [ObserversNext]_allVars
  PROVE  ObserverInv'
<1>1. IInv'
  BY NextIInv DEF ObserverInv, ObserversNext, Observe, Others, allVars
<1>2. CASE Observe
  <2>1. UNCHANGED vars
    BY <1>2 DEF Observe
  <2>2. CASE LoadTail \/ TailChanged
    <3>1. oTail' = tail /\ lengths' = {Length} /\ obs' # "len_check"
      BY <2>2 DEF LoadTail, TailChanged, Look
    <3>. QED
      BY <1>1, <2>1, <3>1, TailLoaded DEF ObserverInv
  <2>3. CASE LoadHead
    BY <1>1, <2>1, <2>3, HeadLoaded DEF ObserverInv
  <2>4. CASE CheckTail \/ IsFull \/ IsEmpty \/ LoadHeadFirst
    <3>1. obs' \in {"idle", "empty_tail"}
      BY <2>4 DEF CheckTail, IsFull, IsEmpty, LoadHeadFirst, Return, Look
    <3>. QED
      BY <1>1, <3>1 DEF ObserverInv, LenInv, TailInv
  <2>. QED
    BY <1>2, <2>2, <2>3, <2>4 DEF Observe
<1>3. CASE Others \/ UNCHANGED allVars
  <2>1. /\ [Next]_vars /\ UNCHANGED <<obs, oTail, oHead>>
        /\ \/ obs \in {"idle", "len_check"} /\ lengths' = lengths
           \/ obs # "len_check" /\ lengths' = lengths \union {Length'}
           \/ UNCHANGED <<vars, lengths>>
    BY <1>3 DEF Others, allVars, observer
  <2>. QED
    BY <1>1, <2>1, OthersStep DEF ObserverInv
<1>. QED
  BY <1>2, <1>3 DEF ObserversNext

LEMMA ObserverInvariance == ObserversSpec => []ObserverInv
<1>1. ObserversInit => ObserverInv
  BY ObserverInit
<1>2. ObserverInv /\ [ObserversNext]_allVars => ObserverInv'
  BY ObserverNext
<1>. QED
  BY <1>1, <1>2, PTL DEF ObserversSpec

------------------------------------------------------------------------------
(***************************************************************************)
(* The answers.                                                            *)
(***************************************************************************)
LEMMA PositionsDiffer ==
  ASSUME NEW x, NEW j \in Nat, NEW k \in Nat, StandsAt(x, j), StandsAt(x, k)
  PROVE  j = k
<1>1. Unmarked(x) = Stamp(j) /\ Unmarked(x) = Stamp(k)
  BY StampParts DEF StandsAt
<1>2. j < k => Stamp(j) < Stamp(k)
  BY StampIncreasing
<1>3. k < j => Stamp(k) < Stamp(j)
  BY StampIncreasing
<1>4. Stamp(j) \in Nat /\ Stamp(k) \in Nat
  BY StampType
<1>. QED
  BY <1>1, <1>2, <1>3, <1>4

\* What len returns, when its second load of tail agrees with the first.
LEMMA LenReturns ==
  ASSUME ObserverInv, [ObserversNext]_allVars, Returns("len_check")
  PROVE  {LenOf(oTail, oHead)} = lengths
<1>1. tail = oTail
  <2>1. CheckTail
    BY DEF Returns, ObserversNext, Observe, Others, LoadTail, LoadHead, CheckTail, TailChanged,
           IsFull, LoadHeadFirst, IsEmpty, Return, Look, allVars, observer
  <2>. QED
    BY <2>1 DEF CheckTail
<1>2. PICK n, h, t \in Nat :
        /\ StandsAt(oTail, n) /\ n <= h /\ h <= Len(log)
        /\ oHead = Stamp(t) /\ t <= h /\ h <= t + Cap
        /\ lengths = {h - t}
  BY DEF ObserverInv, LenInv, Returns
<1>3. Len(log) \in Nat
  BY Numbers DEF ObserverInv
<1>4. StandsAt(tail, Len(log))
  BY DEF ObserverInv, IInv, Counters, StandsAt
<1>5. n = Len(log)
  BY <1>1, <1>2, <1>3, <1>4, PositionsDiffer
<1>6. n = h
  BY <1>2, <1>3, <1>5
<1>7. LenOf(oTail, oHead) = n - t
  BY <1>2, <1>6, LenOfPositions DEF StandsAt
<1>. QED
  BY <1>2, <1>6, <1>7

\* What is_full returns: the copy of tail against the head of this instant.
LEMMA FullReturns ==
  ASSUME ObserverInv, [ObserversNext]_allVars, Returns("full_head")
  PROVE  LET during == lengths \union {Length}
         IN  IF FullOf(oTail, head) THEN Cap \in during ELSE \E n \in during : n # Cap
<1>1. PICK n \in Nat :
        /\ StandsAt(oTail, n) /\ n <= Len(log)
        /\ (\A k \in lengths : k = Cap) => n = taken + Cap
  BY DEF ObserverInv, TailInv, Returns
<1>2. /\ Len(log) \in Nat /\ taken \in Nat /\ Cap \in Nat
      /\ taken <= Len(log) /\ Len(log) <= taken + Cap
  BY Numbers DEF ObserverInv
<1>3. Unmarked(oTail) = Stamp(n) /\ head + OneLap = Stamp(taken + Cap)
  <2>1. Unmarked(oTail) = Stamp(n)
    BY <1>1, StampParts DEF StandsAt
  <2>2. head = Stamp(taken)
    BY TailParts DEF ObserverInv
  <2>. QED
    BY <1>2, <2>1, <2>2, StampLap
<1>4. CASE FullOf(oTail, head)
  <2>1. Stamp(n) = Stamp(taken + Cap) /\ taken + Cap \in Nat
    BY <1>2, <1>3, <1>4 DEF FullOf
  <2>2. StandsAt(Stamp(n), n) /\ StandsAt(Stamp(n), taken + Cap)
    BY <2>1 DEF StandsAt
  <2>3. n = taken + Cap
    BY <2>1, <2>2, PositionsDiffer
  <2>4. Length = Cap
    BY <1>1, <1>2, <2>3 DEF Length
  <2>. QED
    BY <1>4, <2>4
<1>5. CASE ~FullOf(oTail, head)
  <2>1. n # taken + Cap
    BY <1>3, <1>5 DEF FullOf
  <2>2. \E k \in lengths : k # Cap
    BY <1>1, <2>1
  <2>. QED
    BY <1>5, <2>2
<1>. QED
  BY <1>4, <1>5

\* len returns the number of messages that were pending at its last load of head,
\* whatever senders and receivers do between its loads.
THEOREM LenIsExact == ObserversSpec => LenExact
<1>1. ObserverInv /\ [ObserversNext]_allVars
        => [Returns("len_check") => {LenOf(oTail, oHead)} = lengths]_allVars
  BY LenReturns
<1>. QED
  BY <1>1, ObserverInvariance, PTL DEF ObserversSpec, LenExact

\* is_full was right at some instant of the call, in either answer.
THEOREM FullIsSound == ObserversSpec => FullSound
<1>1. ObserverInv /\ [ObserversNext]_allVars
        => [Returns("full_head") =>
              LET during == lengths \union {Length}
              IN  IF FullOf(oTail, head) THEN Cap \in during
                                         ELSE \E n \in during : n # Cap]_allVars
  BY FullReturns
<1>. QED
  BY <1>1, ObserverInvariance, PTL DEF ObserversSpec, FullSound

------------------------------------------------------------------------------
(***************************************************************************)
(* Drop.                                                                   *)
(***************************************************************************)
\* The slots drop goes through are those of the positions taken .. Len(log)-1.
LEMMA DroppedSlotsAre ==
  ASSUME IInv
  PROVE  DroppedSlots = [i \in 1 .. Len(log) - taken |-> SlotOf(taken + i - 1)]
<1>1. /\ taken \in Nat /\ Len(log) \in Nat /\ taken <= Len(log) /\ Len(log) <= taken + Cap
      /\ Cap \in Nat \ {0}
  BY Numbers
<1>2. LenOf(tail, head) = Len(log) - taken
  BY <1>1, TailParts, LenOfPositions DEF IInv, Counters
<1>3. Index(head) = SlotOf(taken)
  BY <1>1, TailParts, StampParts
<1>4. ASSUME NEW j \in 0 .. Cap - 1
      PROVE  SlotOf(taken + j) = IF SlotOf(taken) + j < Cap THEN SlotOf(taken) + j
                                                            ELSE SlotOf(taken) + j - Cap
  <2>1. PICK q \in Nat, r \in 0 .. Cap - 1 : taken = q * Cap + r /\ r = SlotOf(taken)
    BY <1>1, DivMod DEF SlotOf
  <2>2. q * Cap \in Nat /\ (q + 1) * Cap = q * Cap + Cap
    BY <1>1, <2>1, MulNat
  <2>3. CASE r + j < Cap
    <3>1. taken + j = q * Cap + (r + j) /\ r + j \in 0 .. Cap - 1
      BY <1>1, <2>1, <2>2, <2>3
    <3>2. (q * Cap + (r + j)) % Cap = r + j
      BY <1>1, <2>1, <3>1, DivModUnique
    <3>. QED
      BY <2>1, <2>3, <3>1, <3>2 DEF SlotOf
  <2>4. CASE ~(r + j < Cap)
    <3>1. taken + j = (q + 1) * Cap + (r + j - Cap) /\ r + j - Cap \in 0 .. Cap - 1
      BY <1>1, <2>1, <2>2, <2>4
    <3>2. ((q + 1) * Cap + (r + j - Cap)) % Cap = r + j - Cap
      <4>1. q + 1 \in Nat
        OBVIOUS
      <4>. QED
        BY <1>1, <3>1, <4>1, DivModUnique
    <3>. QED
      BY <2>1, <2>4, <3>1, <3>2 DEF SlotOf
  <2>. QED
    BY <2>3, <2>4
<1>5. ASSUME NEW i \in 1 .. Len(log) - taken
      PROVE  (IF Index(head) + (i - 1) < Cap THEN Index(head) + (i - 1)
                                             ELSE Index(head) + (i - 1) - Cap)
               = SlotOf(taken + i - 1)
  <2>1. i - 1 \in 0 .. Cap - 1 /\ taken + (i - 1) = taken + i - 1
    BY <1>1
  <2>. QED
    BY <1>3, <1>4, <2>1
<1>. QED
  BY <1>2, <1>5 DEF DroppedSlots

LEMMA DropTakesTheRestHolds == IInv => DropTakesTheRest
<1> SUFFICES ASSUME IInv, \A p \in Threads : pc[p] = "idle"
             PROVE  [i \in DOMAIN DroppedSlots |-> slotMsg[DroppedSlots[i]]] = Pending
  BY DEF DropTakesTheRest
<1> DEFINE n == Len(log) - taken
<1>1. /\ taken \in Nat /\ Len(log) \in Nat /\ taken <= Len(log) /\ n \in Nat
  BY Numbers
<1>2. \A p \in Threads : ~Writing(p)
  BY DEF Writing
<1>3. ASSUME NEW i \in 1 .. n
      PROVE  slotMsg[SlotOf(taken + i - 1)] = log[taken + i]
  <2>1. taken + i - 1 \in taken .. Len(log) - 1 /\ (taken + i - 1) + 1 = taken + i
    BY <1>1
  <2>. QED
    BY <1>2, <2>1 DEF IInv, FullSlots
<1>4. [i \in DOMAIN DroppedSlots |-> slotMsg[DroppedSlots[i]]] = [i \in 1 .. n |-> log[taken + i]]
  BY <1>3, DroppedSlotsAre
<1>5. Pending = [i \in 1 .. n |-> log[taken + i]]
  <2>1. log \in Seq(Message) /\ \A i \in taken + 1 .. Len(log) : log[i] \in Message
    BY <1>1, Numbers DEF IInv, TypeOK
  <2>2. /\ Pending \in Seq(Message)
        /\ Len(Pending) = IF taken + 1 <= Len(log) THEN Len(log) - (taken + 1) + 1 ELSE 0
        /\ \A i \in 1 .. Len(log) - (taken + 1) + 1 : Pending[i] = log[(taken + 1) + i - 1]
    BY <1>1, <2>1, SubSeqProperties DEF Pending
  <2>3. Len(Pending) = n /\ Len(log) - (taken + 1) + 1 = n
    BY <1>1, <2>2
  <2>4. ASSUME NEW i \in 1 .. n PROVE Pending[i] = log[taken + i]
    <3>1. (taken + 1) + i - 1 = taken + i
      BY <1>1
    <3>. QED
      BY <2>2, <2>3, <3>1
  <2>5. Pending = [i \in 1 .. n |-> Pending[i]]
    BY <2>2, <2>3
  <2>. QED
    BY <2>4, <2>5
<1>. QED
  BY <1>4, <1>5

\* Channel::drop destroys exactly the messages that were sent and not received,
\* in their order, for every capacity and wherever head and tail stand.
THEOREM DropIsExact == Spec => []DropTakesTheRest
  BY DropTakesTheRestHolds, Invariance, PTL
==============================================================================
