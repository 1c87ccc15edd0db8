------------------------- MODULE ArrayChannelProofs -------------------------
(***************************************************************************)
(* The invariant of ArrayChannelInv is inductive, and what follows from it *)
(* for every capacity and every set of threads; and the ring implements    *)
(* BoundedFifo.                                                            *)
(***************************************************************************)
EXTENDS ArrayChannelInv, SequenceTheorems, TLAPS

------------------------------------------------------------------------------
(***************************************************************************)
(* Arithmetic of packed positions: how Stamp(k), the packed number of      *)
(* stream position k, behaves under the masks and steps of array.rs.       *)
(***************************************************************************)
\* Euclidean division: existence and uniqueness of quotient and remainder.
LEMMA DivMod ==
  ASSUME NEW n \in Nat, NEW d \in Nat \ {0}
  PROVE  /\ n \div d \in Nat
         /\ n % d \in 0 .. d - 1
         /\ n = (n \div d) * d + (n % d)
  OBVIOUS

LEMMA DivModUnique ==
  ASSUME NEW d \in Nat \ {0}, NEW q \in Nat, NEW r \in 0 .. d - 1
  PROVE  /\ (q * d + r) \div d = q
         /\ (q * d + r) % d = r
  OBVIOUS

LEMMA MulMonotone ==
  ASSUME NEW a \in Nat, NEW b \in Nat, NEW d \in Nat, a < b
  PROVE  a * d + d <= b * d
  OBVIOUS

LEMMA MulNat == \A a, b \in Nat : a * b \in Nat
  OBVIOUS

\* A packed number l * OneLap + i + m, with i a slot index or one more and m the
\* mark bit or nothing, is taken apart by the masks as the code expects.
LEMMA Unpack ==
  ASSUME NEW l \in Nat, NEW i \in 0 .. Cap
  PROVE  /\ l * OneLap + i \in Nat
         /\ Index(l * OneLap + i) = i
         /\ LapOf(l * OneLap + i) = l * OneLap
         /\ ~Marked(l * OneLap + i)
         /\ Marked(l * OneLap + i + MarkBit)
<1>1. /\ MarkBit \in Nat \ {0} /\ OneLap \in Nat \ {0}
      /\ i \in 0 .. MarkBit - 1 /\ i \in 0 .. OneLap - 1 /\ i + MarkBit \in 0 .. OneLap - 1
  BY CapAssumption DEF OneLap
<1>2. l * OneLap \in Nat
  BY <1>1, MulNat
<1>3. l * OneLap = (2 * l) * MarkBit
  BY <1>1 DEF OneLap
<1>4. (l * OneLap + i) % MarkBit = i
  BY <1>1, <1>3, DivModUnique
<1>5. (l * OneLap + i) % OneLap = i
  BY <1>1, DivModUnique
<1>6. (l * OneLap + (i + MarkBit)) % OneLap = i + MarkBit
  BY <1>1, DivModUnique
<1>7. l * OneLap + i + MarkBit = l * OneLap + (i + MarkBit)
  BY <1>1, <1>2
<1>8. LapOf(l * OneLap + i) = l * OneLap
  <2>1. LapOf(l * OneLap + i) = (l * OneLap + i) - i
    BY <1>5 DEF LapOf
  <2>. QED
    BY <1>2, <2>1
<1>9. ~Marked(l * OneLap + i) /\ Marked(l * OneLap + i + MarkBit)
  BY <1>1, <1>5, <1>6, <1>7 DEF Marked
<1>. QED
  BY <1>1, <1>2, <1>4, <1>8, <1>9 DEF Index

LEMMA UnmarkedType ==
  ASSUME NEW x \in Nat
  PROVE  Unmarked(x) \in Nat
<1>1. MarkBit \in Nat \ {0} /\ OneLap \in Nat \ {0}
  BY CapAssumption DEF OneLap
<1>2. PICK b \in Nat, r \in Nat : x = b + r /\ r = x % OneLap
  <2>1. x \div OneLap \in Nat /\ x % OneLap \in Nat
        /\ x = (x \div OneLap) * OneLap + (x % OneLap)
    BY <1>1, DivMod
  <2>2. (x \div OneLap) * OneLap \in Nat
    BY <2>1, <1>1, MulNat
  <2>. QED
    BY <2>1, <2>2
<1>. QED
  BY <1>1, <1>2 DEF Unmarked, Marked

LEMMA StampType ==
  ASSUME NEW k \in Nat
  PROVE  /\ Stamp(k) \in Nat
         /\ SlotOf(k) \in Slots
         /\ k \div Cap \in Nat
         /\ k = (k \div Cap) * Cap + SlotOf(k)
         /\ Stamp(k) = (k \div Cap) * OneLap + SlotOf(k)
<1>1. Cap \in Nat \ {0} /\ OneLap \in Nat
  BY CapAssumption DEF OneLap
<1>2. /\ k \div Cap \in Nat
      /\ k % Cap \in 0 .. Cap - 1
      /\ k = (k \div Cap) * Cap + (k % Cap)
  BY <1>1, DivMod
<1>3. (k \div Cap) * OneLap \in Nat
  BY <1>1, <1>2, MulNat
<1>. QED
  BY <1>1, <1>2, <1>3 DEF Stamp, SlotOf, Slots

\* What the code reads off a stamp, off the stamp of a full slot (one more) and
\* off a marked tail.
LEMMA StampParts ==
  ASSUME NEW k \in Nat
  PROVE  /\ Index(Stamp(k)) = SlotOf(k)
         /\ Index(Stamp(k) + 1) = SlotOf(k) + 1
         /\ LapOf(Stamp(k)) = (k \div Cap) * OneLap
         /\ ~Marked(Stamp(k))
         /\ Marked(Stamp(k) + MarkBit)
         /\ Unmarked(Stamp(k)) = Stamp(k)
         /\ Unmarked(Stamp(k) + MarkBit) = Stamp(k)
<1>1. /\ k \div Cap \in Nat /\ SlotOf(k) \in 0 .. Cap - 1
      /\ Stamp(k) = (k \div Cap) * OneLap + SlotOf(k)
      /\ Stamp(k) \in Nat
  BY StampType DEF Slots
<1>2. /\ Cap \in Nat /\ MarkBit \in Nat /\ OneLap \in Nat
      /\ SlotOf(k) \in 0 .. Cap /\ SlotOf(k) + 1 \in 0 .. Cap
      /\ (k \div Cap) * OneLap \in Nat
  BY <1>1, CapAssumption, MulNat DEF OneLap
<1>3. /\ Index(Stamp(k)) = SlotOf(k)
      /\ LapOf(Stamp(k)) = (k \div Cap) * OneLap
      /\ ~Marked(Stamp(k))
      /\ Marked(Stamp(k) + MarkBit)
  BY <1>1, <1>2, Unpack
<1>4. Index((k \div Cap) * OneLap + (SlotOf(k) + 1)) = SlotOf(k) + 1
  BY <1>1, <1>2, Unpack
<1>5. Stamp(k) + 1 = (k \div Cap) * OneLap + (SlotOf(k) + 1)
  BY <1>1, <1>2
<1>. QED
  BY <1>1, <1>2, <1>3, <1>4, <1>5 DEF Unmarked

\* The step of start_send and start_recv goes from one position to the next.
LEMMA StampFollowing ==
  ASSUME NEW k \in Nat
  PROVE  Following(Stamp(k)) = Stamp(k + 1)
<1>1. PICK q \in Nat, r \in 0 .. Cap - 1 :
        /\ q = k \div Cap /\ r = SlotOf(k)
        /\ k = q * Cap + r
        /\ Stamp(k) = q * OneLap + r
  BY StampType DEF Slots
<1>2. Cap \in Nat \ {0} /\ OneLap \in Nat /\ q * Cap \in Nat /\ q * OneLap \in Nat
  BY <1>1, CapAssumption, MulNat DEF OneLap
<1>3. Index(Stamp(k)) = r /\ LapOf(Stamp(k)) = q * OneLap
  BY <1>1, StampParts
<1>4. CASE r + 1 < Cap
  <2>1. r + 1 \in 0 .. Cap - 1 /\ k + 1 = q * Cap + (r + 1)
    BY <1>1, <1>2, <1>4
  <2>2. (k + 1) \div Cap = q /\ (k + 1) % Cap = r + 1
    BY <2>1, <1>2, DivModUnique
  <2>3. Stamp(k + 1) = q * OneLap + (r + 1)
    BY <2>2 DEF Stamp
  <2>. QED
    BY <2>3, <1>1, <1>2, <1>3, <1>4 DEF Following
<1>5. CASE ~(r + 1 < Cap)
  <2>1. r + 1 = Cap
    BY <1>1, <1>2, <1>5
  <2>2. (q + 1) * Cap = q * Cap + Cap /\ (q + 1) * OneLap = q * OneLap + OneLap
    BY <1>1, <1>2
  <2>3. k + 1 = (q + 1) * Cap + 0
    BY <2>1, <2>2, <1>1, <1>2
  <2>4. (k + 1) \div Cap = q + 1 /\ (k + 1) % Cap = 0
    <3>1. PICK q1 \in Nat, r1 \in 0 .. Cap - 1 : q1 = q + 1 /\ r1 = 0
      BY <1>2
    <3>2. k + 1 = q1 * Cap + r1
      BY <2>3, <3>1
    <3>3. (k + 1) \div Cap = q1 /\ (k + 1) % Cap = r1
      BY <3>2, <1>2, DivModUnique
    <3>. QED
      BY <3>1, <3>3
  <2>5. Stamp(k + 1) = q * OneLap + OneLap
    BY <2>2, <2>4, <1>1, <1>2 DEF Stamp
  <2>. QED
    BY <2>5, <1>3, <1>5 DEF Following
<1>. QED
  BY <1>4, <1>5

\* One lap of slots is one lap of stamps.
LEMMA StampLap ==
  ASSUME NEW k \in Nat
  PROVE  /\ Stamp(k + Cap) = Stamp(k) + OneLap
         /\ SlotOf(k + Cap) = SlotOf(k)
<1>1. PICK q \in Nat, r \in 0 .. Cap - 1 :
        /\ q = k \div Cap /\ r = SlotOf(k)
        /\ k = q * Cap + r
        /\ Stamp(k) = q * OneLap + r
  BY StampType DEF Slots
<1>2. Cap \in Nat \ {0} /\ OneLap \in Nat /\ q * Cap \in Nat /\ q * OneLap \in Nat
  BY <1>1, CapAssumption, MulNat DEF OneLap
<1>3. (q + 1) * Cap = q * Cap + Cap /\ (q + 1) * OneLap = q * OneLap + OneLap
  BY <1>1, <1>2
<1>4. k + Cap = (q + 1) * Cap + r
  BY <1>1, <1>2, <1>3
<1>5. (k + Cap) \div Cap = q + 1 /\ (k + Cap) % Cap = r
  BY <1>2, <1>4, DivModUnique
<1>6. Stamp(k + Cap) = (q + 1) * OneLap + r /\ SlotOf(k + Cap) = r
  BY <1>5 DEF Stamp, SlotOf
<1>. QED
  BY <1>1, <1>2, <1>3, <1>6

\* Stamps grow with positions.
LEMMA StampIncreasing ==
  ASSUME NEW j \in Nat, NEW k \in Nat, j < k
  PROVE  Stamp(j) < Stamp(k)
<1> DEFINE qj == j \div Cap
           qk == k \div Cap
<1>1. /\ qj \in Nat /\ SlotOf(j) \in 0 .. Cap - 1
      /\ j = qj * Cap + SlotOf(j) /\ Stamp(j) = qj * OneLap + SlotOf(j)
      /\ qk \in Nat /\ SlotOf(k) \in 0 .. Cap - 1
      /\ k = qk * Cap + SlotOf(k) /\ Stamp(k) = qk * OneLap + SlotOf(k)
  BY StampType DEF Slots
<1>2. /\ Cap \in Nat \ {0} /\ OneLap \in Nat /\ Cap < OneLap
      /\ qj * Cap \in Nat /\ qj * OneLap \in Nat /\ qk * Cap \in Nat /\ qk * OneLap \in Nat
  BY <1>1, CapAssumption, MulNat DEF OneLap
<1>3. ~(qk < qj)
  <2>1. SUFFICES ASSUME qk < qj PROVE FALSE
    OBVIOUS
  <2>2. qk * Cap + Cap <= qj * Cap
    BY <1>1, <1>2, <2>1, MulMonotone
  <2>. QED
    BY <1>1, <1>2, <2>2
<1>4. CASE qj = qk
  BY <1>1, <1>2, <1>4
<1>5. CASE qj < qk
  <2>1. qj * OneLap + OneLap <= qk * OneLap
    BY <1>1, <1>2, <1>5, MulMonotone
  <2>. QED
    BY <1>1, <1>2, <2>1
<1>. QED
  BY <1>1, <1>3, <1>4, <1>5

\* Two positions share a slot only if they are whole laps apart, and the stamp
\* of a full slot is never that of the same slot free.
LEMMA SameSlot ==
  ASSUME NEW j \in Nat, NEW k \in Nat, SlotOf(j) = SlotOf(k)
  PROVE  /\ j < k => j + Cap <= k
         /\ Stamp(j) + 1 # Stamp(k)
<1> DEFINE qj == j \div Cap
           qk == k \div Cap
<1>1. /\ qj \in Nat /\ SlotOf(j) \in 0 .. Cap - 1
      /\ j = qj * Cap + SlotOf(j) /\ qk \in Nat
      /\ k = qk * Cap + SlotOf(j)
  BY StampType DEF Slots
<1>2. Cap \in Nat \ {0} /\ qj * Cap \in Nat /\ qk * Cap \in Nat
  BY <1>1, CapAssumption, MulNat
<1>3. ASSUME j < k PROVE j + Cap <= k
  <2>1. qj < qk
    <3>1. SUFFICES ASSUME qk < qj PROVE FALSE
      BY <1>1, <1>2, <1>3
    <3>2. qk * Cap + Cap <= qj * Cap
      BY <1>1, <1>2, <3>1, MulMonotone
    <3>. QED
      BY <1>1, <1>2, <1>3, <3>2
  <2>2. qj * Cap + Cap <= qk * Cap
    BY <1>1, <1>2, <2>1, MulMonotone
  <2>. QED
    BY <1>1, <1>2, <2>2
<1>4. Stamp(j) + 1 # Stamp(k)
  BY <1>1, StampParts
<1>. QED
  BY <1>3, <1>4

\* Positions less than a lap apart, in either order, have slots of their own.
LEMMA SlotsOfALap ==
  ASSUME NEW j \in Nat, NEW k \in Nat, j < k + Cap, k < j + Cap, j # k
  PROVE  SlotOf(j) # SlotOf(k)
  BY SameSlot, CapAssumption

------------------------------------------------------------------------------
(***************************************************************************)
(* What the invariant says of positions.                                   *)
(***************************************************************************)

\* Constants and counters, for the arithmetic steps below.
LEMMA Numbers ==
  ASSUME IInv
  PROVE  /\ Cap \in Nat \ {0} /\ OneLap \in Nat \ {0} /\ MarkBit \in Nat \ {0}
         /\ taken \in Nat /\ Len(log) \in Nat
         /\ taken <= Len(log) /\ Len(log) <= taken + Cap
         /\ \A p \in Threads : at[p] \in Nat
         /\ \A i \in 1 .. Len(log) : log[i] \in Message
  BY CapAssumption DEF IInv, TypeOK, WithinCapacity, OneLap

\* Owned positions lie in the last lap of the log.
LEMMA OwnedWindow ==
  ASSUME IInv, NEW p \in Threads, Owns(p)
  PROVE  at[p] < Len(log) /\ Len(log) <= at[p] + Cap
<1>1. WriterToken(p) /\ ReaderToken(p)
  BY DEF IInv
<1>2. CASE Writing(p)
  BY <1>1, <1>2, Numbers DEF WriterToken
<1>3. CASE Reading(p)
  BY <1>1, <1>3, Numbers DEF ReaderToken
<1>. QED
  BY <1>2, <1>3 DEF Owns

\* Two positions of that lap are in different slots.
LEMMA WindowSlots ==
  ASSUME IInv, NEW j \in Nat, NEW k \in Nat, j # k,
         j < Len(log), Len(log) <= j + Cap, k < Len(log), Len(log) <= k + Cap
  PROVE  SlotOf(j) # SlotOf(k)
  BY Numbers, SlotsOfALap

\* A position not yet reserved is in another slot than an owned one, unless it
\* is exactly one lap ahead of it.
LEMMA AheadSlots ==
  ASSUME IInv, NEW p \in Threads, Owns(p),
         NEW k \in Len(log) .. taken + Cap - 1, k # at[p] + Cap
  PROVE  k \in Nat /\ SlotOf(k) # SlotOf(at[p])
<1>1. /\ k \in Nat /\ at[p] \in Nat /\ at[p] + Cap \in Nat
      /\ Cap \in Nat /\ Len(log) \in Nat /\ taken \in Nat
      /\ taken <= Len(log) /\ Len(log) <= at[p] + Cap /\ at[p] < Len(log)
  BY Numbers, OwnedWindow
<1>2. k < (at[p] + Cap) + Cap
  BY <1>1
<1>3. CASE at[p] + Cap < k + Cap
  <2>1. SlotOf(k) # SlotOf(at[p] + Cap)
    BY <1>1, <1>2, <1>3, SlotsOfALap
  <2>. QED
    BY <2>1, <1>1, StampLap
<1>. QED
  BY <1>1, <1>3

\* Slots of a thread that owns one.
LEMMA OwnedSlot ==
  ASSUME IInv, NEW p \in Threads, Owns(p)
  PROVE  /\ at[p] \in Nat /\ SlotOf(at[p]) \in Slots /\ Stamp(at[p]) \in Nat
         /\ token[p].slot = SlotOf(at[p])
<1>1. at[p] \in Nat
  BY Numbers
<1>2. token[p].slot = SlotOf(at[p])
  <2>1. WriterToken(p) /\ ReaderToken(p)
    BY DEF IInv
  <2>2. \/ token[p] = [slot |-> SlotOf(at[p]), stamp |-> Stamp(at[p]) + 1]
        \/ token[p] = [slot |-> SlotOf(at[p]), stamp |-> Stamp(at[p]) + OneLap]
    BY <2>1 DEF WriterToken, ReaderToken, Owns
  <2>. QED
    BY <2>2
<1>. QED
  BY <1>1, <1>2, StampType
------------------------------------------------------------------------------
(***************************************************************************)
(* Consequences of the invariant.                                          *)
(***************************************************************************)
LEMMA SlotExclusiveHolds == IInv => SlotExclusive
<1> SUFFICES ASSUME IInv, NEW p \in Threads, NEW q \in Threads, p # q, Owns(p), Owns(q)
             PROVE  token[p].slot # token[q].slot
  BY DEF SlotExclusive
<1>1. at[p] # at[q]
  BY DEF IInv, OnePositionEach
<1>. QED
  BY <1>1, OwnedSlot, OwnedWindow, WindowSlots

\* What a receiver holds came from positions already taken.
LEMMA GotPositions ==
  ASSUME IInv, NEW r \in Receivers, NEW i \in 1 .. Len(got[r])
  PROVE  /\ got[r][i].pos \in Nat /\ got[r][i].pos < taken
         /\ got[r][i].pos + 1 \in 1 .. Len(log)
         /\ got[r][i].msg = log[got[r][i].pos + 1]
         /\ got[r][i].msg \in Message
<1>1. got[r] \in Seq([pos : Nat, msg : Message \union {NoMsg}])
  BY DEF IInv, TypeOK
<1>2. got[r][i] \in [pos : Nat, msg : Message \union {NoMsg}]
  BY <1>1, ElementOfSeq
<1>3. got[r][i].pos < taken /\ got[r][i].msg = log[got[r][i].pos + 1]
  BY DEF IInv, GotInOrder
<1>. QED
  BY <1>2, <1>3, Numbers

LEMMA ReadsWhatWasSentHolds == IInv => ReadsWhatWasSent
<1> SUFFICES ASSUME IInv, NEW r \in Receivers, NEW i \in 1 .. Len(got[r])
             PROVE  got[r][i].pos < Len(log) /\ got[r][i].msg = log[got[r][i].pos + 1]
  BY DEF ReadsWhatWasSent
<1>. QED
  BY GotPositions, Numbers

\* Two messages of the log from one sender are in the order of their numbers.
LEMMA LogOrder ==
  ASSUME IInv, NEW i \in 1 .. Len(log), NEW j \in 1 .. Len(log),
         log[i].from = log[j].from
  PROVE  /\ log[i].seq \in Nat /\ log[j].seq \in Nat
         /\ i < j => log[i].seq < log[j].seq
         /\ j < i => log[j].seq < log[i].seq
<1>1. log[i] \in Message /\ log[j] \in Message
  BY Numbers
<1>2. log[i].seq \in Nat /\ log[j].seq \in Nat
  BY <1>1, CapAssumption DEF Message
<1>. QED
  BY <1>2 DEF IInv, LogInOrder

LEMMA DeliveredOnceHolds == IInv => DeliveredOnce
<1> SUFFICES ASSUME IInv, NEW r1 \in Receivers, NEW r2 \in Receivers,
                    NEW i \in 1 .. Len(got[r1]), NEW j \in 1 .. Len(got[r2]),
                    got[r1][i].msg = got[r2][j].msg
             PROVE  r1 = r2 /\ i = j
  BY DEF DeliveredOnce
<1> DEFINE a == got[r1][i].pos
           b == got[r2][j].pos
<1>1. /\ a \in Nat /\ b \in Nat /\ a + 1 \in 1 .. Len(log) /\ b + 1 \in 1 .. Len(log)
      /\ log[a + 1] = log[b + 1]
  BY GotPositions
<1>2. a = b
  <2>1. PICK m \in 1 .. Len(log), n \in 1 .. Len(log) : m = a + 1 /\ n = b + 1
    BY <1>1
  <2>2. log[m] = log[n]
    BY <2>1, <1>1
  <2>3. ~(m < n) /\ ~(n < m)
    BY <2>2, LogOrder
  <2>4. m = n
    BY <2>3, Numbers
  <2>. QED
    BY <2>1, <2>4, <1>1
<1>3. r1 = r2
  BY <1>2 DEF IInv, GotDisjoint
<1>4. ~(i < j) /\ ~(j < i)
  BY <1>1, <1>2, <1>3 DEF IInv, GotInOrder
<1>. QED
  BY <1>3, <1>4

LEMMA SenderOrderHolds == IInv => SenderOrder
<1> SUFFICES ASSUME IInv, NEW r \in Receivers,
                    NEW i \in 1 .. Len(got[r]), NEW j \in 1 .. Len(got[r]),
                    i < j, got[r][i].msg.from = got[r][j].msg.from
             PROVE  got[r][i].msg.seq < got[r][j].msg.seq
  BY DEF SenderOrder
<1> DEFINE a == got[r][i].pos
           b == got[r][j].pos
<1>1. /\ a \in Nat /\ b \in Nat /\ a + 1 \in 1 .. Len(log) /\ b + 1 \in 1 .. Len(log)
      /\ got[r][i].msg = log[a + 1] /\ got[r][j].msg = log[b + 1]
  BY GotPositions
<1>2. a < b
  BY DEF IInv, GotInOrder
<1>3. PICK m \in 1 .. Len(log), n \in 1 .. Len(log) : m = a + 1 /\ n = b + 1
  BY <1>1
<1>4. m < n /\ got[r][i].msg = log[m] /\ got[r][j].msg = log[n]
  BY <1>1, <1>2, <1>3
<1>. QED
  BY <1>4, LogOrder
------------------------------------------------------------------------------
(***************************************************************************)
(* The invariant holds initially.                                          *)
(***************************************************************************)
LEMMA InitialPositions ==
  /\ Stamp(0) = 0
  /\ \A k \in 0 .. Cap - 1 : SlotOf(k) = k /\ Stamp(k) = k
<1>1. Cap \in Nat \ {0} /\ OneLap \in Nat
  BY CapAssumption DEF OneLap
<1>2. ASSUME NEW k \in 0 .. Cap - 1
      PROVE  k \div Cap = 0 /\ k % Cap = k
  <2>1. k = 0 * Cap + k
    BY <1>1
  <2>2. (0 * Cap + k) \div Cap = 0 /\ (0 * Cap + k) % Cap = k
    BY <1>1, DivModUnique
  <2>. QED
    BY <2>1, <2>2
<1>3. ASSUME NEW k \in 0 .. Cap - 1
      PROVE  SlotOf(k) = k /\ Stamp(k) = k
  BY <1>1, <1>2 DEF SlotOf, Stamp
<1>. QED
  BY <1>1, <1>3

LEMMA InitIInv == Init => IInv
<1> SUFFICES ASSUME Init PROVE IInv
  OBVIOUS
<1> USE DEF Init
<1>1. Cap \in Nat \ {0} /\ Len(log) = 0 /\ log = << >> /\ 0 \in Slots
  BY CapAssumption DEF Slots
<1>2. TypeOK
  <2>1. ~Marked(head)
    BY InitialPositions, StampParts
  <2>2. slotStamp \in [Slots -> Nat]
    BY <1>1 DEF Slots
  <2>3. token \in [Threads -> [slot : Slots, stamp : Nat]]
    BY <1>1
  <2>4. sent \in [Senders -> 0 .. MaxSends]
    BY CapAssumption
  <2>5. reply \in [Threads -> [kind : Fifo!ReplyKinds, msg : Message \union {NoMsg}]]
    BY DEF Reply, Fifo!ReplyKinds, Fifo!InProgress
  <2>. QED
    BY <1>1, <2>1, <2>2, <2>3, <2>4, <2>5 DEF TypeOK
<1>3. WithinCapacity /\ Counters
  BY <1>1, InitialPositions DEF WithinCapacity, Counters
<1>4. ASSUME NEW p \in Threads
      PROVE  Role(p) /\ Copy(p) /\ WriterToken(p) /\ ReaderToken(p)
  <2>1. pc[p] = "idle" /\ reply[p].kind = "none"
    BY DEF Reply
  <2>. QED
    BY <2>1 DEF Role, Copy, WriterToken, ReaderToken, Sending, Writing, Reading, Owns,
                SendLabels, RecvLabels, Fifo!InProgress
<1>5. OnePositionEach
  BY DEF OnePositionEach, Owns, Writing, Reading
<1>6. FullSlots /\ LogInOrder
  BY <1>1 DEF FullSlots, LogInOrder
<1>7. FreeSlots
  <2> SUFFICES ASSUME NEW k \in 0 .. Cap - 1
               PROVE  slotStamp[SlotOf(k)] = Stamp(k)
    BY <1>1 DEF FreeSlots
  <2>. QED
    BY InitialPositions DEF Slots
<1>8. GotInOrder /\ GotDisjoint
  <2>1. \A r \in Receivers : Len(got[r]) = 0 /\ r \in Threads
    BY DEF Threads
  <2>2. \A r \in Receivers : pc[r] # "read"
    BY <2>1
  <2>. QED
    BY <2>1, <2>2 DEF GotInOrder, GotDisjoint
<1>. QED
  BY <1>2, <1>3, <1>4, <1>5, <1>6, <1>7, <1>8 DEF IInv
------------------------------------------------------------------------------
(***************************************************************************)
(* Steps.  Most of them only move a thread that owns no slot and changes   *)
(* nothing shared: they disturb what the invariant says of that thread.    *)
(***************************************************************************)
Quiet == UNCHANGED <<shared, token, at, sent, log, taken, got>>

LEMMA LocalStep ==
  ASSUME IInv, Quiet, NEW p \in Threads, ~Owns(p), ~Owns(p)',
         NEW l \in {"idle"} \union SendLabels \union RecvLabels,
         pc' = [pc EXCEPT ![p] = l],
         NEW x \in Nat, seen' = seen \/ seen' = [seen EXCEPT ![p] = x],
         NEW a \in [kind : Fifo!ReplyKinds, msg : Message \union {NoMsg}],
         reply' = reply \/ reply' = [reply EXCEPT ![p] = a],
         Role(p)', Copy(p)'
  PROVE  IInv'
<1> USE DEF Quiet, shared
<1>1. /\ pc \in [Threads -> {"idle"} \union SendLabels \union RecvLabels]
      /\ seen \in [Threads -> Nat]
      /\ reply \in [Threads -> [kind : Fifo!ReplyKinds, msg : Message \union {NoMsg}]]
  BY DEF IInv, TypeOK
<1>2. TypeOK'
  BY <1>1 DEF IInv, TypeOK, Marked, Slots, Threads
<1>3. ASSUME NEW q \in Threads, q # p
      PROVE  pc'[q] = pc[q] /\ seen'[q] = seen[q] /\ reply'[q] = reply[q]
  BY <1>1, <1>3
<1>4. \A q \in Threads : /\ Writing(q)' <=> Writing(q)
                         /\ Reading(q)' <=> Reading(q)
                         /\ Owns(q)' <=> Owns(q)
  <2>1. \A q \in Threads : q # p => pc'[q] = pc[q]
    BY <1>3
  <2>. QED
    BY <2>1 DEF Owns, Writing, Reading
<1>5. WithinCapacity' /\ Counters' /\ LogInOrder'
  BY DEF IInv, WithinCapacity, Counters, LogInOrder, Stamp
<1>6. ASSUME NEW q \in Threads
      PROVE  (Role(q) /\ Copy(q) /\ WriterToken(q) /\ ReaderToken(q))'
  <2>1. Role(q) /\ Copy(q) /\ WriterToken(q) /\ ReaderToken(q)
    BY DEF IInv
  <2>2. Role(q)' /\ Copy(q)'
    <3>1. CASE q = p
      BY <3>1
    <3>2. CASE q # p
      BY <2>1, <3>2, <1>3 DEF Role, Copy, Sending, Writing, Reading, Owns, Unmarked,
                              Marked, Index, Stamp
    <3>. QED
      BY <3>1, <3>2
  <2>3. CASE q # p
    <3>1. pc'[q] = pc[q]
      BY <1>3, <2>3
    <3>. QED
      BY <2>1, <2>2, <3>1 DEF WriterToken, ReaderToken, Writing, Reading, SlotOf, Stamp
  <2>4. CASE q = p
    BY <2>2, <2>4, <1>4 DEF WriterToken, ReaderToken, Owns
  <2>. QED
    BY <2>3, <2>4
<1>7. OnePositionEach'
  BY <1>4 DEF IInv, OnePositionEach
<1>8. FullSlots' /\ FreeSlots'
  BY <1>4 DEF IInv, FullSlots, FreeSlots, SlotOf, Stamp
<1>9. \A r \in Receivers : r \in Threads /\ (pc'[r] = "read" <=> pc[r] = "read")
  <2>1. pc[p] # "read" /\ pc'[p] # "read"
    BY DEF Owns, Reading
  <2>. QED
    BY <1>3, <2>1 DEF Threads
<1>10. GotInOrder'
  BY <1>9 DEF IInv, GotInOrder
<1>11. GotDisjoint'
  BY <1>9 DEF IInv, GotDisjoint
<1>. QED
  BY <1>2, <1>5, <1>6, <1>7, <1>8, <1>10, <1>11 DEF IInv

\* tail, without its mark, is the stamp of the next position to be reserved.
LEMMA TailParts ==
  ASSUME IInv
  PROVE  /\ Stamp(Len(log)) \in Nat /\ Stamp(taken) \in Nat
         /\ Unmarked(tail) = Stamp(Len(log))
         /\ ~Marked(tail) => tail = Stamp(Len(log))
         /\ Marked(tail) => tail = Stamp(Len(log)) + MarkBit
         /\ head = Stamp(taken)
  BY Numbers, StampType, StampParts DEF IInv, Counters

LEMMA RepliesTyped ==
  /\ \A k \in Fifo!ReplyKinds : Reply(k) \in [kind : Fifo!ReplyKinds, msg : Message \union {NoMsg}]
  /\ \A m \in Message : Received(m) \in [kind : Fifo!ReplyKinds, msg : Message \union {NoMsg}]
  BY DEF Reply, Received, Fifo!ReplyKinds, Fifo!InProgress

LEMMA SenderLocalSteps ==
  ASSUME IInv, NEW p \in Senders,
         \/ SendStart(p) \/ SendClosed(p) \/ SendInspect(p) \/ SendReload(p)
         \/ SendRetry(p) \/ SendFull(p) \/ SendNotFull(p)
  PROVE  IInv'
<1> DEFINE Answers == [kind : Fifo!ReplyKinds, msg : Message \union {NoMsg}]
<1>1. /\ p \in Threads
      /\ pc \in [Threads -> {"idle"} \union SendLabels \union RecvLabels]
      /\ seen \in [Threads -> Nat] /\ reply \in [Threads -> Answers]
      /\ tail \in Nat
  BY DEF IInv, TypeOK, Threads
<1>2. /\ Stamp(Len(log)) \in Nat /\ Unmarked(tail) = Stamp(Len(log))
  BY TailParts
<1>3. Role(p) /\ Copy(p)
  BY <1>1 DEF IInv
<1>4. /\ \A k \in {"sending", "late", "closed", "full"} : Reply(k) \in Answers
      /\ Reply("closed").kind = "closed" /\ Reply("full").kind = "full"
  BY RepliesTyped DEF Fifo!ReplyKinds, Fifo!InProgress, Reply
<1> USE DEF Goto, See, Answer, shared, local, ghosts, Quiet, Role, Copy, Sending, Writing, Reading,
            Owns, SendLabels, RecvLabels, Fifo!InProgress
<1>5. CASE SendStart(p)
  <2> DEFINE k == IF Marked(tail) THEN "late" ELSE "sending"
  <2>1. /\ Quiet /\ ~Owns(p) /\ ~Owns(p)' /\ pc' = [pc EXCEPT ![p] = "send_loop"]
        /\ seen' = [seen EXCEPT ![p] = tail] /\ reply' = [reply EXCEPT ![p] = Reply(k)]
        /\ k \in {"sending", "late"} /\ Reply(k) \in Answers
    BY <1>1, <1>4, <1>5 DEF SendStart
  <2>2. Role(p)' /\ Copy(p)'
    BY <1>1, <1>2, <1>5, <2>1 DEF SendStart, Stamp, Unmarked, Marked, OneLap, Reply
  <2>. QED
    BY <2>1, <2>2, <1>1, <1>4, LocalStep DEF SendLabels
<1>6. CASE SendReload(p) \/ SendRetry(p)
  <2>1. /\ Quiet /\ ~Owns(p) /\ ~Owns(p)' /\ pc' = [pc EXCEPT ![p] = "send_loop"]
        /\ seen' = [seen EXCEPT ![p] = tail] /\ reply' = reply
    BY <1>1, <1>6 DEF SendReload, SendRetry
  <2>2. Role(p)' /\ Copy(p)'
    BY <1>1, <1>2, <1>3, <1>6, <2>1 DEF SendReload, SendRetry, Stamp, Unmarked, Marked
  <2>. QED
    BY <2>1, <2>2, <1>1, <1>4, LocalStep
<1>7. CASE SendClosed(p)
  <2>1. /\ Quiet /\ ~Owns(p) /\ ~Owns(p)' /\ pc' = [pc EXCEPT ![p] = "idle"]
        /\ seen' = seen /\ reply' = [reply EXCEPT ![p] = Reply("closed")]
    BY <1>1, <1>7 DEF SendClosed
  <2>2. Role(p)' /\ Copy(p)'
    BY <1>1, <1>4, <2>1
  <2>. QED
    BY <2>1, <2>2, <1>1, <1>4, LocalStep
<1>8. CASE SendFull(p)
  <2>1. /\ Quiet /\ ~Owns(p) /\ ~Owns(p)' /\ pc' = [pc EXCEPT ![p] = "idle"]
        /\ seen' = seen /\ reply' = [reply EXCEPT ![p] = Reply("full")]
    BY <1>1, <1>8 DEF SendFull
  <2>2. Role(p)' /\ Copy(p)'
    BY <1>1, <1>4, <2>1
  <2>. QED
    BY <2>1, <2>2, <1>1, <1>4, LocalStep
<1>9. CASE SendNotFull(p)
  <2>1. /\ Quiet /\ ~Owns(p) /\ ~Owns(p)' /\ pc' = [pc EXCEPT ![p] = "send_reload"]
        /\ seen' = seen /\ reply' = reply
    BY <1>1, <1>9 DEF SendNotFull
  <2>2. Role(p)' /\ Copy(p)'
    BY <1>1, <1>3, <1>9, <2>1 DEF SendNotFull, Stamp, Unmarked, Marked
  <2>. QED
    BY <2>1, <2>2, <1>1, <1>4, LocalStep
<1>10. CASE SendInspect(p)
  <2>1. PICK l \in {"send_cas", "send_full", "send_reload"} :
          /\ pc' = [pc EXCEPT ![p] = l]
          /\ l = "send_cas" => slotStamp[Index(seen[p])] = seen[p]
    BY <1>10 DEF SendInspect
  <2>2. /\ Quiet /\ ~Owns(p) /\ ~Owns(p)' /\ pc[p] = "send_loop" /\ ~Marked(seen[p])
        /\ seen' = seen /\ reply' = reply
    BY <1>1, <1>10, <2>1 DEF SendInspect
  <2>3. Role(p)' /\ Copy(p)'
    BY <1>1, <1>3, <2>1, <2>2 DEF Stamp, Unmarked, Marked, Index
  <2>. QED
    BY <2>1, <2>2, <2>3, <1>1, <1>4, LocalStep
<1>. QED
  BY <1>5, <1>6, <1>7, <1>8, <1>9, <1>10

LEMMA ReceiverLocalSteps ==
  ASSUME IInv, NEW p \in Receivers,
         \/ RecvStart(p) \/ RecvInspect(p) \/ RecvReload(p)
         \/ RecvRetry(p) \/ RecvEmpty(p) \/ RecvNotEmpty(p)
  PROVE  IInv'
<1> DEFINE Answers == [kind : Fifo!ReplyKinds, msg : Message \union {NoMsg}]
<1>1. /\ p \in Threads
      /\ pc \in [Threads -> {"idle"} \union SendLabels \union RecvLabels]
      /\ seen \in [Threads -> Nat] /\ reply \in [Threads -> Answers]
      /\ head \in Nat
  BY DEF IInv, TypeOK, Threads
<1>2. Role(p) /\ Copy(p)
  BY <1>1 DEF IInv
<1>3. /\ Reply("receiving") \in Answers /\ Reply("empty") \in Answers
      /\ Reply("disconnected") \in Answers
      /\ Reply("empty").kind = "empty" /\ Reply("disconnected").kind = "disconnected"
  BY RepliesTyped DEF Fifo!ReplyKinds, Fifo!InProgress, Reply
<1> USE DEF Goto, See, Answer, shared, local, ghosts, Quiet, Role, Copy, Sending, Writing, Reading,
            Owns, SendLabels, RecvLabels, Fifo!InProgress
<1>4. CASE RecvStart(p)
  <2>1. /\ Quiet /\ ~Owns(p) /\ ~Owns(p)' /\ pc' = [pc EXCEPT ![p] = "recv_loop"]
        /\ seen' = [seen EXCEPT ![p] = head] /\ reply' = [reply EXCEPT ![p] = Reply("receiving")]
    BY <1>1, <1>4 DEF RecvStart
  <2>2. Role(p)' /\ Copy(p)'
    BY <1>1, <2>1
  <2>. QED
    BY <2>1, <2>2, <1>1, <1>3, LocalStep
<1>5. CASE RecvReload(p) \/ RecvRetry(p)
  <2>1. /\ Quiet /\ ~Owns(p) /\ ~Owns(p)' /\ pc' = [pc EXCEPT ![p] = "recv_loop"]
        /\ seen' = [seen EXCEPT ![p] = head] /\ reply' = reply
    BY <1>1, <1>5 DEF RecvReload, RecvRetry
  <2>2. Role(p)' /\ Copy(p)'
    BY <1>1, <1>2, <1>5, <2>1 DEF RecvReload, RecvRetry
  <2>. QED
    BY <2>1, <2>2, <1>1, <1>3, LocalStep
<1>6. CASE RecvEmpty(p)
  <2>1. PICK k \in {"empty", "disconnected"} : reply' = [reply EXCEPT ![p] = Reply(k)]
    BY <1>6 DEF RecvEmpty
  <2>2. /\ Quiet /\ ~Owns(p) /\ ~Owns(p)' /\ pc' = [pc EXCEPT ![p] = "idle"] /\ seen' = seen
    BY <1>1, <1>6 DEF RecvEmpty
  <2>3. Role(p)' /\ Copy(p)'
    BY <1>1, <1>3, <2>1, <2>2
  <2>. QED
    BY <2>1, <2>2, <2>3, <1>1, <1>3, LocalStep
<1>7. CASE RecvNotEmpty(p)
  <2>1. /\ Quiet /\ ~Owns(p) /\ ~Owns(p)' /\ pc' = [pc EXCEPT ![p] = "recv_reload"]
        /\ seen' = seen /\ reply' = reply
    BY <1>1, <1>7 DEF RecvNotEmpty
  <2>2. Role(p)' /\ Copy(p)'
    BY <1>1, <1>2, <1>7, <2>1 DEF RecvNotEmpty
  <2>. QED
    BY <2>1, <2>2, <1>1, <1>3, LocalStep
<1>8. CASE RecvInspect(p)
  <2>1. PICK l \in {"recv_cas", "recv_empty", "recv_reload"} :
          /\ pc' = [pc EXCEPT ![p] = l]
          /\ l = "recv_cas" => slotStamp[Index(seen[p])] = seen[p] + 1
    BY <1>8 DEF RecvInspect
  <2>2. /\ Quiet /\ ~Owns(p) /\ ~Owns(p)' /\ pc[p] = "recv_loop"
        /\ seen' = seen /\ reply' = reply
    BY <1>1, <1>8, <2>1 DEF RecvInspect
  <2>3. Role(p)' /\ Copy(p)'
    BY <1>1, <1>2, <2>1, <2>2 DEF Index
  <2>. QED
    BY <2>1, <2>2, <2>3, <1>1, <1>3, LocalStep
<1>. QED
  BY <1>4, <1>5, <1>6, <1>7, <1>8
------------------------------------------------------------------------------
(***************************************************************************)
(* The compare-exchange of tail.  The stamp of the slot was inspected      *)
(* while tail had the value it still has, so the slot is free: it holds no *)
(* message and its last reader is gone.                                    *)
(***************************************************************************)
LEMMA SendReserveFree ==
  ASSUME IInv, NEW p \in Senders, SendReserve(p)
  PROVE  /\ seen[p] = Stamp(Len(log)) /\ tail = Stamp(Len(log))
         /\ slotStamp[SlotOf(Len(log))] = Stamp(Len(log))
         /\ Len(log) < taken + Cap
         /\ \A q \in Threads : Reading(q) => at[q] + Cap # Len(log)
<1>1. p \in Threads /\ Copy(p) /\ pc[p] = "send_cas" /\ tail = seen[p]
  BY DEF IInv, SendReserve, Reserve, Goto, Threads
<1>2. /\ seen[p] = Stamp(Len(log)) /\ tail = Stamp(Len(log))
      /\ slotStamp[SlotOf(Len(log))] = Stamp(Len(log))
  BY <1>1, TailParts, Numbers, StampParts DEF Copy
<1>3. Len(log) # taken + Cap
  <2> SUFFICES ASSUME Len(log) = taken + Cap PROVE FALSE
    OBVIOUS
  <2>1. /\ SlotOf(Len(log)) = SlotOf(taken)
        /\ Stamp(Len(log)) = Stamp(taken) + OneLap
        /\ Stamp(taken) \in Nat /\ OneLap \in Nat \ {0}
        /\ taken \in taken .. Len(log) - 1
    <3>1. taken \in Nat /\ Cap \in Nat \ {0} /\ Len(log) = taken + Cap /\ OneLap \in Nat \ {0}
      BY Numbers
    <3>2. /\ SlotOf(taken + Cap) = SlotOf(taken)
          /\ Stamp(taken + Cap) = Stamp(taken) + OneLap
          /\ Stamp(taken) \in Nat
      BY <3>1, StampLap, StampType
    <3>. QED
      BY <3>1, <3>2
  <2>2. Stamp(taken) + 1 # Stamp(Len(log))
    BY <2>1, Numbers, SameSlot
  <2>3. PICK q \in Threads : Writing(q) /\ at[q] = taken
    BY <1>2, <2>1, <2>2 DEF IInv, FullSlots
  <2>4. WriterToken(q)
    BY DEF IInv
  <2>5. slotStamp[SlotOf(taken)] = Stamp(taken)
    BY <2>3, <2>4 DEF WriterToken
  <2>. QED
    BY <1>2, <2>1, <2>5
<1>4. ASSUME NEW q \in Threads, Reading(q)
      PROVE  at[q] + Cap # Len(log)
  <2> SUFFICES ASSUME at[q] + Cap = Len(log) PROVE FALSE
    OBVIOUS
  <2>1. ReaderToken(q) /\ at[q] \in Nat
    BY Numbers DEF IInv
  <2>2. slotStamp[SlotOf(at[q])] = Stamp(at[q]) + 1
    BY <1>4, <2>1 DEF ReaderToken
  <2>3. SlotOf(at[q]) = SlotOf(Len(log))
    BY <2>1, StampLap
  <2>. QED
    BY <1>2, <2>1, <2>2, <2>3, Numbers, SameSlot
<1>. QED
  BY <1>2, <1>3, <1>4, Numbers

LEMMA SendReserveStep ==
  ASSUME IInv, NEW p \in Senders, SendReserve(p)
  PROVE  IInv'
<1> DEFINE S == Len(log)
           m == Msg(p, sent[p] + 1)
<1>1. /\ p \in Threads /\ pc[p] = "send_cas" /\ ~Owns(p)
      /\ Role(p) /\ sent[p] < MaxSends
  BY DEF IInv, SendReserve, Reserve, Goto, Threads, Role, Sending, SendLabels, Writing, Reading, Owns
<1>2. /\ seen[p] = Stamp(S) /\ tail = Stamp(S) /\ slotStamp[SlotOf(S)] = Stamp(S)
      /\ S < taken + Cap
      /\ \A q \in Threads : Reading(q) => at[q] + Cap # S
  BY SendReserveFree
<1>3. /\ S \in Nat /\ taken \in Nat /\ Cap \in Nat \ {0} /\ taken <= S
      /\ Stamp(S) \in Nat /\ SlotOf(S) \in Slots
      /\ S + 1 \in Nat /\ Stamp(S + 1) \in Nat /\ Stamp(S) < Stamp(S + 1)
      /\ \A q \in Threads : at[q] \in Nat
  <2>1. /\ S \in Nat /\ S + 1 \in Nat /\ S < S + 1 /\ taken \in Nat /\ Cap \in Nat \ {0}
        /\ taken <= S /\ \A q \in Threads : at[q] \in Nat
    BY Numbers
  <2>2. Stamp(S) \in Nat /\ SlotOf(S) \in Slots /\ Stamp(S + 1) \in Nat
    BY <2>1, StampType
  <2>3. Stamp(S) < Stamp(S + 1)
    BY <2>1, StampIncreasing
  <2>. QED
    BY <2>1, <2>2, <2>3
<1>4. /\ pc \in [Threads -> {"idle"} \union SendLabels \union RecvLabels]
      /\ token \in [Threads -> [slot : Slots, stamp : Nat]]
      /\ at \in [Threads -> Nat]
      /\ sent \in [Senders -> 0 .. MaxSends]
      /\ log \in Seq(Message)
      /\ reply \in [Threads -> [kind : Fifo!ReplyKinds, msg : Message \union {NoMsg}]]
  BY DEF IInv, TypeOK
<1>5. m \in Message /\ sent[p] \in Nat /\ sent[p] + 1 \in 1 .. MaxSends
  BY <1>1, <1>4, CapAssumption DEF Msg, Message
<1>6. /\ pc' = [pc EXCEPT ![p] = "write"]
      /\ tail' = Stamp(S + 1)
      /\ token' = [token EXCEPT ![p] = [slot |-> SlotOf(S), stamp |-> Stamp(S) + 1]]
      /\ at' = [at EXCEPT ![p] = S]
      /\ sent' = [sent EXCEPT ![p] = sent[p] + 1]
      /\ log' = Append(log, m)
      /\ reply' = [reply EXCEPT ![p] = Reply("sent")]
      /\ UNCHANGED <<head, slotStamp, slotMsg, seen, taken, got>>
  BY <1>2, <1>3, <1>4, StampParts, StampFollowing DEF SendReserve, Reserve, Goto, Answer
<1>7. /\ Len(log') = S + 1 /\ log'[S + 1] = m
      /\ \A i \in 1 .. S : log'[i] = log[i]
  BY <1>4, <1>5, <1>6
<1>8. /\ pc'[p] = "write" /\ at'[p] = S
      /\ token'[p] = [slot |-> SlotOf(S), stamp |-> Stamp(S) + 1]
      /\ sent'[p] = sent[p] + 1 /\ reply'[p] = Reply("sent")
      /\ Writing(p)' /\ ~Reading(p)' /\ ~Sending(p)'
  BY <1>1, <1>4, <1>6 DEF Writing, Reading, Sending
<1>9. ASSUME NEW q \in Threads, q # p
      PROVE  /\ pc'[q] = pc[q] /\ token'[q] = token[q] /\ at'[q] = at[q]
             /\ sent'[q] = sent[q] /\ reply'[q] = reply[q]
             /\ Writing(q)' <=> Writing(q)
             /\ Reading(q)' <=> Reading(q)
             /\ Owns(q)' <=> Owns(q)
             /\ Sending(q)' <=> Sending(q)
  <2>1. /\ pc'[q] = pc[q] /\ token'[q] = token[q] /\ at'[q] = at[q]
        /\ sent'[q] = sent[q] /\ reply'[q] = reply[q]
    BY <1>4, <1>6, <1>9
  <2>. QED
    BY <2>1 DEF Writing, Reading, Owns, Sending
<1>10. TypeOK'
  <2>1. /\ pc' \in [Threads -> {"idle"} \union SendLabels \union RecvLabels]
        /\ at' \in [Threads -> Nat]
    BY <1>3, <1>4, <1>6 DEF SendLabels
  <2>5. log' \in Seq(Message)
    BY <1>4, <1>5, <1>6
  <2>3. token' \in [Threads -> [slot : Slots, stamp : Nat]]
    <3>1. [slot |-> SlotOf(S), stamp |-> Stamp(S) + 1] \in [slot : Slots, stamp : Nat]
      BY <1>3
    <3>. QED
      BY <1>4, <1>6, <3>1
  <2>4. sent' \in [Senders -> 0 .. MaxSends]
    <3>1. sent[p] + 1 \in 0 .. MaxSends
      BY <1>5, CapAssumption
    <3>. QED
      BY <1>4, <1>6, <3>1
  <2>2. reply' \in [Threads -> [kind : Fifo!ReplyKinds, msg : Message \union {NoMsg}]]
    BY <1>4, <1>6, RepliesTyped DEF Fifo!ReplyKinds
  <2>. QED
    BY <1>3, <1>6, <2>1, <2>2, <2>3, <2>4, <2>5 DEF IInv, TypeOK, Marked
<1>11. WithinCapacity' /\ Counters'
  <2>1. Stamp(S + 1) = Stamp(Len(log))' /\ Stamp(taken) = Stamp(taken)'
    BY <1>6, <1>7 DEF Stamp
  <2>2. head = Stamp(taken)
    BY TailParts
  <2>. QED
    BY <1>2, <1>3, <1>6, <1>7, <2>1, <2>2 DEF WithinCapacity, Counters
<1>12. ASSUME NEW q \in Threads
       PROVE  (Role(q) /\ Copy(q) /\ WriterToken(q) /\ ReaderToken(q))'
  <2>1. Role(q) /\ Copy(q) /\ WriterToken(q) /\ ReaderToken(q) /\ at[q] \in Nat /\ seen[q] \in Nat
    BY <1>3 DEF IInv, TypeOK
  <2>2. CASE q = p
    <3>1. Role(p)' /\ Copy(p)'
      BY <1>1, <1>8 DEF Role, Copy, Owns, SendLabels, RecvLabels, Reply, Fifo!InProgress
    <3>2. WriterToken(p)' /\ ReaderToken(p)'
      <4>1. /\ S \in taken .. (S + 1) - 1
            /\ Stamp(S) = Stamp(at[p])' /\ SlotOf(S) = SlotOf(at[p])'
        BY <1>3, <1>8 DEF Stamp, SlotOf
      <4>2. m = Msg(p, sent[p])'
        BY <1>8 DEF Msg
      <4>. QED
        BY <1>2, <1>6, <1>7, <1>8, <4>1, <4>2 DEF WriterToken, ReaderToken
    <3>. QED
      BY <2>2, <3>1, <3>2
  <2>3. CASE q # p
    <3>1. Role(q)'
      BY <1>6, <1>9, <2>1, <2>3 DEF Role
    <3>2. Copy(q)'
      <4>1. Sending(q) => Unmarked(seen[q]) <= Stamp(S) /\ Unmarked(seen[q]) \in Nat
        BY <2>1, UnmarkedType DEF Copy
      <4>2. Sending(q) => Unmarked(seen[q]) < Stamp(S + 1)
        BY <4>1, <1>3
      <4>3. pc[q] = "send_cas" => Sending(q) /\ Unmarked(seen[q]) = seen[q]
        BY <2>1 DEF Copy, Sending, SendLabels, Writing, Unmarked
      <4>4. pc[q] = "send_cas" => seen[q] # tail'
        BY <4>2, <4>3, <1>3, <1>6
      <4>5. /\ Stamp(S + 1) = Stamp(Len(log))'
            /\ Unmarked(seen[q])' = Unmarked(seen[q])
            /\ Marked(seen[q])' = Marked(seen[q])
            /\ Index(seen[q])' = Index(seen[q])
        BY <1>6, <1>7 DEF Stamp, Unmarked, Marked, Index
      <4>6. Sending(q)' => Unmarked(seen[q]) <= Stamp(S + 1)
        BY <1>3, <1>9, <2>3, <4>1, <4>2
      <4>7. Sending(q) => ~Marked(seen[q])
        BY <1>2, <1>3, <2>1, StampParts DEF Copy
      <4>. QED
        BY <1>6, <1>9, <2>1, <2>3, <4>4, <4>5, <4>6, <4>7 DEF Copy
    <3>3. WriterToken(q)'
      <4>1. SUFFICES ASSUME Writing(q) PROVE WriterToken(q)'
        BY <1>9, <2>3 DEF WriterToken
      <4>2. /\ at[q] \in taken .. S - 1 /\ at[q] \in taken .. (S + 1) - 1
            /\ log'[at[q] + 1] = log[at[q] + 1]
        BY <1>3, <1>7, <2>1, <4>1 DEF WriterToken
      <4>3. /\ Stamp(at[q]) = Stamp(at[q])' /\ SlotOf(at[q]) = SlotOf(at[q])'
            /\ Msg(q, sent[q]) = Msg(q, sent[q])'
        BY <1>9, <2>3 DEF Stamp, SlotOf, Msg
      <4>. QED
        BY <1>6, <1>7, <1>9, <2>1, <2>3, <4>1, <4>2, <4>3 DEF WriterToken
    <3>4. ReaderToken(q)'
      <4>1. SUFFICES ASSUME Reading(q) PROVE ReaderToken(q)'
        BY <1>9, <2>3 DEF ReaderToken
      <4>2. at[q] < S /\ S + 1 <= at[q] + Cap /\ log'[at[q] + 1] = log[at[q] + 1]
        BY <1>2, <1>3, <1>7, <2>1, <4>1 DEF ReaderToken
      <4>. QED
        BY <1>3, <1>6, <1>7, <1>9, <2>1, <2>3, <4>1, <4>2 DEF ReaderToken, SlotOf, Stamp
    <3>. QED
      BY <3>1, <3>2, <3>3, <3>4
  <2>. QED
    BY <2>2, <2>3
<1>13. OnePositionEach'
  <2>1. \A q \in Threads : Owns(q) => at[q] < S
    BY OwnedWindow
  <2>. QED
    BY <1>3, <1>8, <1>9, <2>1 DEF IInv, OnePositionEach
<1>14. FullSlots'
  <2> SUFFICES ASSUME NEW k \in taken .. S,
                      \A q \in Threads : Writing(q)' => at'[q] # k
               PROVE  slotStamp[SlotOf(k)] = Stamp(k) + 1 /\ slotMsg[SlotOf(k)] = log'[k + 1]
    <3>1. taken' .. Len(log)' - 1 = taken .. S
      BY <1>3, <1>6, <1>7
    <3>. QED
      BY <1>6, <3>1 DEF FullSlots, SlotOf, Stamp
  <2>1. k # S
    BY <1>1, <1>8
  <2>2. \A q \in Threads : Writing(q) => at[q] # k
    BY <1>1, <1>9 DEF Owns
  <2>3. k \in taken .. S - 1 /\ log'[k + 1] = log[k + 1]
    BY <1>3, <1>7, <2>1
  <2>. QED
    BY <2>2, <2>3 DEF IInv, FullSlots
<1>15. FreeSlots'
  <2> SUFFICES ASSUME NEW k \in S + 1 .. taken + Cap - 1,
                      \A q \in Threads : Reading(q)' => at'[q] + Cap # k
               PROVE  slotStamp[SlotOf(k)] = Stamp(k)
    BY <1>3, <1>6, <1>7 DEF FreeSlots, SlotOf, Stamp
  <2>1. \A q \in Threads : Reading(q) => at[q] + Cap # k
    BY <1>1, <1>9 DEF Owns
  <2>2. k \in S .. taken + Cap - 1
    BY <1>3
  <2>. QED
    BY <2>1, <2>2 DEF IInv, FreeSlots
<1>16. LogInOrder'
  <2>1. \A i \in 1 .. S : log[i] \in Message /\ log[i].from \in Senders /\ log[i].seq \in Nat
    BY Numbers, CapAssumption DEF Message
  <2>2. \A q \in Senders : sent[q] \in Nat /\ sent'[q] \in Nat /\ sent[q] <= sent'[q]
    BY <1>4, <1>5, <1>6, CapAssumption
  <2>3. \A i \in 1 .. S : log[i].seq <= sent[log[i].from]
    BY DEF IInv, LogInOrder
  <2>4. m.from = p /\ m.seq = sent[p] + 1
    BY DEF Msg
  <2>5. \A i \in 1 .. S + 1 : log'[i].seq <= sent'[log'[i].from]
    <3>1. ASSUME NEW i \in 1 .. S PROVE log'[i].seq <= sent'[log'[i].from]
      BY <1>7, <2>1, <2>2, <2>3
    <3>2. log'[S + 1].seq <= sent'[log'[S + 1].from]
      BY <1>5, <1>7, <1>8, <2>4
    <3>. QED
      BY <1>3, <3>1, <3>2
  <2>6. ASSUME NEW i \in 1 .. S + 1, NEW j \in 1 .. S + 1, i < j, log'[i].from = log'[j].from
        PROVE  log'[i].seq < log'[j].seq
    <3>1. i \in 1 .. S /\ log'[i] = log[i]
      BY <1>3, <1>7, <2>6
    <3>2. CASE j = S + 1
      BY <1>5, <1>7, <2>1, <2>3, <2>4, <2>6, <3>1, <3>2
    <3>3. CASE j # S + 1
      <4>1. j \in 1 .. S /\ log'[j] = log[j]
        BY <1>3, <1>7, <3>3
      <4>. QED
        BY <2>6, <3>1, <4>1 DEF IInv, LogInOrder
    <3>. QED
      BY <3>2, <3>3
  <2>. QED
    BY <1>7, <2>5, <2>6 DEF LogInOrder
<1>17. \A r \in Receivers : r \in Threads /\ (pc'[r] = "read" <=> pc[r] = "read" /\ r # p)
                            /\ (pc[r] = "read" => at'[r] = at[r])
  BY <1>1, <1>8, <1>9 DEF Threads, Owns, Reading
<1>18. GotInOrder' /\ GotDisjoint'
  <2>1. \A r \in Receivers : \A i \in 1 .. Len(got[r]) :
          got[r][i].pos < taken /\ got[r][i].msg = log'[got[r][i].pos + 1]
    BY <1>7, GotPositions
  <2>2. GotInOrder'
    BY <1>6, <1>17, <2>1 DEF IInv, GotInOrder
  <2>3. GotDisjoint'
    BY <1>6, <1>17 DEF IInv, GotDisjoint
  <2>. QED
    BY <2>2, <2>3
<1>. QED
  BY <1>10, <1>11, <1>12, <1>13, <1>14, <1>15, <1>16, <1>18 DEF IInv
------------------------------------------------------------------------------
(***************************************************************************)
(* The compare-exchange of head: the slot holds the message of the         *)
(* position, and its writer is done.                                       *)
(***************************************************************************)
LEMMA RecvReserveFull ==
  ASSUME IInv, NEW p \in Receivers, RecvReserve(p)
  PROVE  /\ seen[p] = Stamp(taken) /\ head = Stamp(taken)
         /\ slotStamp[SlotOf(taken)] = Stamp(taken) + 1
         /\ taken < Len(log)
         /\ \A q \in Threads : Writing(q) => at[q] # taken
<1>1. p \in Threads /\ Copy(p) /\ pc[p] = "recv_cas" /\ head = seen[p]
  BY DEF IInv, RecvReserve, Goto, Threads
<1>2. /\ seen[p] = Stamp(taken) /\ head = Stamp(taken) /\ Stamp(taken) \in Nat
      /\ slotStamp[SlotOf(taken)] = Stamp(taken) + 1
  BY <1>1, TailParts, Numbers, StampParts DEF Copy
<1>3. taken # Len(log)
  <2> SUFFICES ASSUME taken = Len(log) PROVE FALSE
    OBVIOUS
  <2>1. taken \in Len(log) .. taken + Cap - 1
    BY Numbers
  <2>2. PICK q \in Threads : Reading(q) /\ at[q] + Cap = taken
    BY <1>2, <2>1 DEF IInv, FreeSlots
  <2>3. ReaderToken(q) /\ at[q] \in Nat /\ OneLap \in Nat \ {0}
    BY Numbers DEF IInv
  <2>4. /\ SlotOf(taken) = SlotOf(at[q]) /\ Stamp(taken) = Stamp(at[q]) + OneLap
        /\ Stamp(at[q]) \in Nat
    BY <2>2, <2>3, StampLap, StampType
  <2>5. slotStamp[SlotOf(at[q])] = Stamp(at[q]) + 1
    BY <2>2, <2>3 DEF ReaderToken
  <2>. QED
    BY <1>2, <2>3, <2>4, <2>5
<1>4. ASSUME NEW q \in Threads, Writing(q)
      PROVE  at[q] # taken
  <2>1. WriterToken(q)
    BY DEF IInv
  <2>. QED
    BY <1>2, <1>4, <2>1 DEF WriterToken
<1>. QED
  BY <1>2, <1>3, <1>4, Numbers

LEMMA RecvReserveStep ==
  ASSUME IInv, NEW p \in Receivers, RecvReserve(p)
  PROVE  IInv'
<1> DEFINE S == Len(log)
           R == taken
<1>1. /\ p \in Threads /\ pc[p] = "recv_cas" /\ ~Owns(p)
  BY DEF RecvReserve, Goto, Threads, Writing, Reading, Owns
<1>2. /\ seen[p] = Stamp(R) /\ head = Stamp(R) /\ slotStamp[SlotOf(R)] = Stamp(R) + 1
      /\ R < S
      /\ \A q \in Threads : Writing(q) => at[q] # R
  BY RecvReserveFull
<1>3. /\ S \in Nat /\ R \in Nat /\ Cap \in Nat \ {0} /\ S <= R + Cap
      /\ R + 1 \in Nat /\ R + Cap \in Nat /\ R + 1 \in 1 .. S
      /\ \A q \in Threads : at[q] \in Nat
  BY <1>2, Numbers
<1>4. /\ Stamp(R) \in Nat /\ SlotOf(R) \in Slots /\ Stamp(R + 1) \in Nat /\ OneLap \in Nat
  BY <1>3, StampType, Numbers
<1>5. Stamp(R) < Stamp(R + 1)
  BY <1>3, StampIncreasing
<1>6. /\ pc \in [Threads -> {"idle"} \union SendLabels \union RecvLabels]
      /\ token \in [Threads -> [slot : Slots, stamp : Nat]]
      /\ at \in [Threads -> Nat]
      /\ reply \in [Threads -> [kind : Fifo!ReplyKinds, msg : Message \union {NoMsg}]]
  BY DEF IInv, TypeOK
<1>7. /\ pc' = [pc EXCEPT ![p] = "read"]
      /\ head' = Stamp(R + 1)
      /\ token' = [token EXCEPT ![p] = [slot |-> SlotOf(R), stamp |-> Stamp(R) + OneLap]]
      /\ at' = [at EXCEPT ![p] = R]
      /\ taken' = R + 1
      /\ reply' = [reply EXCEPT ![p] = Received(log[R + 1])]
      /\ UNCHANGED <<tail, slotStamp, slotMsg, seen, sent, log, got>>
  BY <1>2, <1>3, StampParts, StampFollowing DEF RecvReserve, Goto, Answer
<1>8. /\ pc'[p] = "read" /\ at'[p] = R
      /\ token'[p] = [slot |-> SlotOf(R), stamp |-> Stamp(R) + OneLap]
      /\ reply'[p] = Received(log[R + 1])
      /\ ~Writing(p)' /\ Reading(p)' /\ ~Sending(p)'
  BY <1>1, <1>6, <1>7 DEF Writing, Reading, Sending, SendLabels
<1>9. ASSUME NEW q \in Threads, q # p
      PROVE  /\ pc'[q] = pc[q] /\ token'[q] = token[q] /\ at'[q] = at[q]
             /\ reply'[q] = reply[q]
             /\ Writing(q)' <=> Writing(q)
             /\ Reading(q)' <=> Reading(q)
             /\ Owns(q)' <=> Owns(q)
             /\ Sending(q)' <=> Sending(q)
  <2>1. /\ pc'[q] = pc[q] /\ token'[q] = token[q] /\ at'[q] = at[q]
        /\ reply'[q] = reply[q]
    BY <1>6, <1>7, <1>9
  <2>. QED
    BY <2>1 DEF Writing, Reading, Owns, Sending
<1>10. slotMsg[SlotOf(R)] = log[R + 1]
  <2>1. R \in taken .. S - 1
    BY <1>2, <1>3
  <2>. QED
    BY <1>2, <2>1 DEF IInv, FullSlots
<1>11. TypeOK'
  <2>1. /\ pc' \in [Threads -> {"idle"} \union SendLabels \union RecvLabels]
        /\ at' \in [Threads -> Nat]
    BY <1>3, <1>6, <1>7 DEF RecvLabels
  <2>2. token' \in [Threads -> [slot : Slots, stamp : Nat]]
    <3>1. [slot |-> SlotOf(R), stamp |-> Stamp(R) + OneLap] \in [slot : Slots, stamp : Nat]
      BY <1>4
    <3>. QED
      BY <1>6, <1>7, <3>1
  <2>3. reply' \in [Threads -> [kind : Fifo!ReplyKinds, msg : Message \union {NoMsg}]]
    <3>1. log[R + 1] \in Message
      BY <1>3, Numbers
    <3>. QED
      BY <1>6, <1>7, <3>1, RepliesTyped
  <2>4. head' \in Nat /\ ~Marked(head)'
    BY <1>3, <1>4, <1>7, StampParts DEF Marked
  <2>. QED
    BY <1>3, <1>7, <2>1, <2>2, <2>3, <2>4 DEF IInv, TypeOK
<1>12. WithinCapacity' /\ Counters'
  <2>1. Stamp(R + 1) = Stamp(taken)' /\ Stamp(S) = Stamp(Len(log))'
    BY <1>7 DEF Stamp
  <2>2. tail \in {Stamp(S), Stamp(S) + MarkBit}
    BY DEF IInv, Counters
  <2>3. taken' <= Len(log)' /\ Len(log)' - taken' <= Cap
    BY <1>2, <1>3, <1>7
  <2>. QED
    BY <1>7, <2>1, <2>2, <2>3 DEF WithinCapacity, Counters
<1>13. ASSUME NEW q \in Threads
       PROVE  (Role(q) /\ Copy(q) /\ WriterToken(q) /\ ReaderToken(q))'
  <2>1. Role(q) /\ Copy(q) /\ WriterToken(q) /\ ReaderToken(q) /\ at[q] \in Nat /\ seen[q] \in Nat
    BY <1>3 DEF IInv, TypeOK
  <2>2. CASE q = p
    <3>1. Role(p)' /\ Copy(p)'
      BY <1>8 DEF Role, Copy, Owns, SendLabels, RecvLabels, Received, Fifo!InProgress
    <3>2. WriterToken(p)' /\ ReaderToken(p)'
      <4>1. /\ R < R + 1 /\ S <= R + Cap
            /\ Stamp(R) = Stamp(at[p])' /\ SlotOf(R) = SlotOf(at[p])'
        BY <1>3, <1>8 DEF Stamp, SlotOf
      <4>. QED
        BY <1>2, <1>7, <1>8, <1>10, <4>1 DEF WriterToken, ReaderToken, OneLap
    <3>. QED
      BY <2>2, <3>1, <3>2
  <2>3. CASE q # p
    <3>1. Role(q)'
      BY <1>7, <1>9, <2>1, <2>3 DEF Role
    <3>2. Copy(q)'
      <4>1. pc[q] \in RecvLabels /\ ~Reading(q) => seen[q] <= Stamp(R) /\ seen[q] < Stamp(R + 1)
        BY <1>2, <1>4, <1>5, <2>1 DEF Copy
      <4>2. pc[q] = "recv_cas" => seen[q] # head'
        BY <4>1, <1>4, <1>7, <2>1 DEF RecvLabels, Reading
      <4>3. /\ Stamp(S) = Stamp(Len(log))'
            /\ Unmarked(seen[q])' = Unmarked(seen[q])
            /\ Marked(seen[q])' = Marked(seen[q])
            /\ Index(seen[q])' = Index(seen[q])
        BY <1>7 DEF Stamp, Unmarked, Marked, Index
      <4>4. pc'[q] \in RecvLabels /\ ~Reading(q)' => seen[q] <= head'
        BY <1>4, <1>7, <1>9, <2>1, <2>3, <4>1
      <4>. QED
        BY <1>7, <1>9, <2>1, <2>3, <4>2, <4>3, <4>4 DEF Copy
    <3>3. WriterToken(q)'
      <4>1. SUFFICES ASSUME Writing(q) PROVE WriterToken(q)'
        BY <1>9, <2>3 DEF WriterToken
      <4>2. at[q] \in R + 1 .. S - 1
        BY <1>2, <1>3, <2>1, <4>1 DEF WriterToken
      <4>3. /\ Stamp(at[q]) = Stamp(at[q])' /\ SlotOf(at[q]) = SlotOf(at[q])'
            /\ Msg(q, sent[q]) = Msg(q, sent[q])'
        BY <1>7, <1>9, <2>3 DEF Stamp, SlotOf, Msg
      <4>. QED
        BY <1>7, <1>9, <2>1, <2>3, <4>1, <4>2, <4>3 DEF WriterToken
    <3>4. ReaderToken(q)'
      <4>1. SUFFICES ASSUME Reading(q) PROVE ReaderToken(q)'
        BY <1>9, <2>3 DEF ReaderToken
      <4>2. at[q] < R + 1
        BY <1>3, <2>1, <4>1 DEF ReaderToken
      <4>3. /\ Stamp(at[q]) = Stamp(at[q])' /\ SlotOf(at[q]) = SlotOf(at[q])'
        BY <1>9, <2>3 DEF Stamp, SlotOf
      <4>. QED
        BY <1>7, <1>9, <2>1, <2>3, <4>1, <4>2, <4>3 DEF ReaderToken, OneLap
    <3>. QED
      BY <3>1, <3>2, <3>3, <3>4
  <2>. QED
    BY <2>2, <2>3
<1>14. \A q \in Threads : Owns(q) => at[q] # R
  <2>1. \A q \in Threads : WriterToken(q) /\ ReaderToken(q)
    BY DEF IInv
  <2>2. \A q \in Threads : Reading(q) => at[q] < R
    BY <2>1 DEF ReaderToken
  <2>. QED
    BY <1>2, <1>3, <2>2 DEF Owns
<1>15. OnePositionEach'
  BY <1>8, <1>9, <1>14 DEF IInv, OnePositionEach
<1>16. FullSlots'
  <2> SUFFICES ASSUME NEW k \in R + 1 .. S - 1,
                      \A q \in Threads : Writing(q)' => at'[q] # k
               PROVE  slotStamp[SlotOf(k)] = Stamp(k) + 1 /\ slotMsg[SlotOf(k)] = log[k + 1]
    BY <1>7 DEF FullSlots, SlotOf, Stamp
  <2>1. \A q \in Threads : Writing(q) => at[q] # k
    BY <1>1, <1>9 DEF Owns
  <2>2. k \in taken .. S - 1
    BY <1>3
  <2>. QED
    BY <2>1, <2>2 DEF IInv, FullSlots
<1>17. FreeSlots'
  <2> SUFFICES ASSUME NEW k \in S .. (R + 1) + Cap - 1,
                      \A q \in Threads : Reading(q)' => at'[q] + Cap # k
               PROVE  slotStamp[SlotOf(k)] = Stamp(k)
    BY <1>7 DEF FreeSlots, SlotOf, Stamp
  <2>1. R + Cap # k
    BY <1>1, <1>8
  <2>2. \A q \in Threads : Reading(q) => at[q] + Cap # k
    BY <1>1, <1>9 DEF Owns
  <2>3. k \in S .. taken + Cap - 1
    BY <1>3, <2>1
  <2>. QED
    BY <2>2, <2>3 DEF IInv, FreeSlots
<1>18. LogInOrder'
  BY <1>7 DEF IInv, LogInOrder
<1>19. \A r \in Receivers : r \in Threads /\ (r # p => (pc'[r] = pc[r] /\ at'[r] = at[r]))
  BY <1>9 DEF Threads
<1>20. GotInOrder' /\ GotDisjoint'
  <2>1. \A r \in Receivers : \A i \in 1 .. Len(got[r]) :
          /\ got[r][i].pos < R /\ got[r][i].pos \in Nat
          /\ got[r][i].msg = log[got[r][i].pos + 1]
    BY GotPositions
  <2>2. \A r \in Receivers : \A i \in 1 .. Len(got[r]) : got[r][i].pos < R + 1 /\ got[r][i].pos # R
    BY <1>3, <2>1
  <2>3. GotInOrder'
    BY <1>7, <1>8, <1>19, <2>1, <2>2 DEF IInv, GotInOrder
  <2>4. GotDisjoint'
    BY <1>7, <1>8, <1>19, <2>2 DEF IInv, GotDisjoint
  <2>. QED
    BY <2>3, <2>4
<1>. QED
  BY <1>11, <1>12, <1>13, <1>15, <1>16, <1>17, <1>18, <1>20 DEF IInv
------------------------------------------------------------------------------
(***************************************************************************)
(* The owner of a slot works on it.  No other slot is touched, and every   *)
(* other position the invariant speaks of is in another slot.              *)
(***************************************************************************)

\* Positions of the last lap, and those ahead, against the slot that p owns.
LEMMA OtherSlots ==
  ASSUME IInv, NEW p \in Threads, Owns(p)
  PROVE  /\ \A q \in Threads : q # p /\ Owns(q) => SlotOf(at[q]) # SlotOf(at[p])
         /\ \A k \in taken .. Len(log) - 1 : k # at[p] => SlotOf(k) # SlotOf(at[p])
         /\ \A k \in Len(log) .. taken + Cap - 1 :
              k # at[p] + Cap => SlotOf(k) # SlotOf(at[p])
<1>1. ASSUME NEW q \in Threads, q # p, Owns(q)
      PROVE  SlotOf(at[q]) # SlotOf(at[p])
  <2>1. at[q] # at[p]
    BY <1>1 DEF IInv, OnePositionEach
  <2>. QED
    BY <1>1, <2>1, OwnedWindow, WindowSlots, Numbers
<1>2. ASSUME NEW k \in taken .. Len(log) - 1, k # at[p]
      PROVE  SlotOf(k) # SlotOf(at[p])
  <2>1. k \in Nat /\ k < Len(log) /\ Len(log) <= k + Cap
    BY Numbers
  <2>. QED
    BY <1>2, <2>1, OwnedWindow, WindowSlots, Numbers
<1>3. ASSUME NEW k \in Len(log) .. taken + Cap - 1, k # at[p] + Cap
      PROVE  SlotOf(k) # SlotOf(at[p])
  BY <1>3, AheadSlots
<1>. QED
  BY <1>1, <1>2, <1>3

LEMMA WriteStep ==
  ASSUME IInv, NEW p \in Senders, Write(p)
  PROVE  IInv'
<1>1. /\ p \in Threads /\ pc[p] = "write" /\ Writing(p) /\ Owns(p) /\ WriterToken(p)
  BY DEF IInv, Write, Goto, Threads, Writing, Owns
<1>2. /\ at[p] \in taken .. Len(log) - 1
      /\ token[p] = [slot |-> SlotOf(at[p]), stamp |-> Stamp(at[p]) + 1]
      /\ log[at[p] + 1] = Msg(p, sent[p])
  BY <1>1 DEF WriterToken
<1>3. token[p].slot = SlotOf(at[p]) /\ SlotOf(at[p]) \in Slots
  BY <1>1, OwnedSlot
<1>4. /\ pc \in [Threads -> {"idle"} \union SendLabels \union RecvLabels]
      /\ slotMsg \in [Slots -> Message \union {NoMsg}]
  BY DEF IInv, TypeOK
<1>5. Msg(p, sent[p]) \in Message
  <2>1. at[p] + 1 \in 1 .. Len(log)
    BY <1>2, Numbers
  <2>. QED
    BY <1>2, <2>1, Numbers
<1>6. /\ pc' = [pc EXCEPT ![p] = "publish"]
      /\ slotMsg' = [slotMsg EXCEPT ![SlotOf(at[p])] = log[at[p] + 1]]
      /\ UNCHANGED <<head, tail, slotStamp, seen, token, at, sent, log, taken, got, reply>>
  BY <1>2, <1>3 DEF Write, Goto, local, ghosts
<1>7. pc'[p] = "publish" /\ slotMsg'[SlotOf(at[p])] = log[at[p] + 1]
  BY <1>1, <1>3, <1>4, <1>6
<1>8. \A q \in Threads : q # p => pc'[q] = pc[q]
  BY <1>4, <1>6
<1>9. \A s \in Slots : s # SlotOf(at[p]) => slotMsg'[s] = slotMsg[s]
  BY <1>4, <1>6
<1>10. \A q \in Threads : /\ Writing(q)' <=> Writing(q)
                          /\ Reading(q)' <=> Reading(q)
                          /\ Owns(q)' <=> Owns(q)
                          /\ Sending(q)' <=> Sending(q)
  BY <1>1, <1>7, <1>8 DEF Writing, Reading, Owns, Sending, SendLabels
<1>11. TypeOK'
  <2>1. pc' \in [Threads -> {"idle"} \union SendLabels \union RecvLabels]
    BY <1>4, <1>6 DEF SendLabels
  <2>2. slotMsg' \in [Slots -> Message \union {NoMsg}]
    BY <1>2, <1>4, <1>5, <1>6
  <2>. QED
    BY <1>6, <2>1, <2>2 DEF IInv, TypeOK, Marked
<1>12. WithinCapacity' /\ Counters' /\ LogInOrder'
  BY <1>6 DEF IInv, WithinCapacity, Counters, LogInOrder, Stamp
<1>13. ASSUME NEW q \in Threads
       PROVE  (Role(q) /\ Copy(q) /\ WriterToken(q) /\ ReaderToken(q))'
  <2>1. Role(q) /\ Copy(q) /\ WriterToken(q) /\ ReaderToken(q)
    BY DEF IInv
  <2>2. /\ Stamp(at[q]) = Stamp(at[q])' /\ SlotOf(at[q]) = SlotOf(at[q])'
        /\ Msg(q, sent[q]) = Msg(q, sent[q])'
        /\ Stamp(Len(log)) = Stamp(Len(log))'
        /\ Unmarked(seen[q])' = Unmarked(seen[q])
        /\ Marked(seen[q])' = Marked(seen[q])
        /\ Index(seen[q])' = Index(seen[q])
    BY <1>6 DEF Stamp, SlotOf, Msg, Unmarked, Marked, Index
  <2>3. CASE q = p
    <3>1. Role(q)' /\ Copy(q)'
      BY <1>1, <1>6, <1>7, <2>1, <2>3
         DEF Role, Copy, SendLabels, RecvLabels, Sending, Writing, Owns
    <3>2. WriterToken(q)' /\ ReaderToken(q)'
      BY <1>1, <1>6, <1>7, <1>10, <2>1, <2>2, <2>3 DEF WriterToken, ReaderToken, Writing, Reading
    <3>. QED
      BY <3>1, <3>2
  <2>4. CASE q # p
    <3>1. Role(q)' /\ Copy(q)'
      BY <1>6, <1>8, <1>10, <2>1, <2>2, <2>4 DEF Role, Copy
    <3>2. Owns(q) => slotMsg'[SlotOf(at[q])] = slotMsg[SlotOf(at[q])]
      BY <1>1, <1>9, <2>4, OtherSlots, OwnedSlot
    <3>3. WriterToken(q)' /\ ReaderToken(q)'
      BY <1>6, <1>8, <1>10, <2>1, <2>2, <2>4, <3>2 DEF WriterToken, ReaderToken, OneLap, Owns
    <3>. QED
      BY <3>1, <3>3
  <2>. QED
    BY <2>3, <2>4
<1>14. OnePositionEach'
  BY <1>6, <1>10 DEF IInv, OnePositionEach
<1>15. FullSlots'
  <2> SUFFICES ASSUME NEW k \in taken .. Len(log) - 1,
                      \A q \in Threads : Writing(q) => at[q] # k
               PROVE  slotStamp[SlotOf(k)] = Stamp(k) + 1 /\ slotMsg'[SlotOf(k)] = log[k + 1]
    BY <1>6, <1>10 DEF FullSlots, SlotOf, Stamp
  <2>1. SlotOf(k) # SlotOf(at[p])
    BY <1>1, OtherSlots
  <2>2. k \in Nat
    BY Numbers
  <2>3. slotMsg'[SlotOf(k)] = slotMsg[SlotOf(k)]
    BY <1>9, <2>1, <2>2, StampType
  <2>. QED
    BY <2>3 DEF IInv, FullSlots
<1>16. FreeSlots'
  BY <1>6, <1>10 DEF IInv, FreeSlots, SlotOf, Stamp
<1>17. \A r \in Receivers : r \in Threads /\ (pc'[r] = "read" <=> pc[r] = "read")
  BY <1>1, <1>7, <1>8 DEF Threads
<1>18. GotInOrder' /\ GotDisjoint'
  BY <1>6, <1>17 DEF IInv, GotInOrder, GotDisjoint
<1>. QED
  BY <1>11, <1>12, <1>13, <1>14, <1>15, <1>16, <1>18 DEF IInv

\* A thread that owns no slot any more.
LEMMA GiveUpSlot ==
  ASSUME IInv, NEW p \in Threads, Owns(p), NEW z \in Nat,
         pc' = [pc EXCEPT ![p] = "idle"],
         slotStamp' = [slotStamp EXCEPT ![SlotOf(at[p])] = z],
         UNCHANGED <<head, tail, slotMsg, seen, token, at, sent, log, taken, got, reply>>,
         SlotOf(Len(log)) = SlotOf(at[p]) => slotStamp[SlotOf(at[p])] # Stamp(Len(log)),
         SlotOf(taken) = SlotOf(at[p]) => slotStamp[SlotOf(at[p])] # Stamp(taken) + 1,
         at[p] \in taken .. Len(log) - 1 =>
           z = Stamp(at[p]) + 1 /\ slotMsg[SlotOf(at[p])] = log[at[p] + 1],
         at[p] + Cap \in Len(log) .. taken + Cap - 1 => z = Stamp(at[p] + Cap)
  PROVE  IInv'
<1>1. /\ SlotOf(at[p]) \in Slots /\ at[p] \in Nat
      /\ pc \in [Threads -> {"idle"} \union SendLabels \union RecvLabels]
      /\ slotStamp \in [Slots -> Nat]
  BY OwnedSlot DEF IInv, TypeOK
<1>2. pc'[p] = "idle" /\ ~Owns(p)' /\ ~Writing(p)' /\ ~Reading(p)' /\ ~Sending(p)'
  BY <1>1 DEF Owns, Writing, Reading, Sending, SendLabels
<1>3. ASSUME NEW q \in Threads, q # p
      PROVE  /\ pc'[q] = pc[q]
             /\ Writing(q)' <=> Writing(q)
             /\ Reading(q)' <=> Reading(q)
             /\ Owns(q)' <=> Owns(q)
             /\ Sending(q)' <=> Sending(q)
  <2>1. pc'[q] = pc[q]
    BY <1>1, <1>3
  <2>. QED
    BY <2>1 DEF Writing, Reading, Owns, Sending
<1>4. /\ slotStamp'[SlotOf(at[p])] = z
      /\ \A s \in Slots : s # SlotOf(at[p]) => slotStamp'[s] = slotStamp[s]
  BY <1>1
<1>5. TypeOK'
  BY <1>1 DEF IInv, TypeOK, Marked
<1>6. WithinCapacity' /\ Counters' /\ LogInOrder'
  BY DEF IInv, WithinCapacity, Counters, LogInOrder, Stamp
<1>7. ASSUME NEW q \in Threads
      PROVE  (Role(q) /\ Copy(q) /\ WriterToken(q) /\ ReaderToken(q))'
  <2>1. Role(q) /\ Copy(q) /\ WriterToken(q) /\ ReaderToken(q)
    BY DEF IInv
  <2>2. /\ Stamp(at[q]) = Stamp(at[q])' /\ SlotOf(at[q]) = SlotOf(at[q])'
        /\ Msg(q, sent[q]) = Msg(q, sent[q])'
        /\ Stamp(Len(log)) = Stamp(Len(log))'
        /\ Unmarked(seen[q])' = Unmarked(seen[q])
        /\ Marked(seen[q])' = Marked(seen[q])
        /\ Index(seen[q])' = Index(seen[q])
    BY DEF Stamp, SlotOf, Msg, Unmarked, Marked, Index
  <2>3. CASE q = p
    BY <1>2, <2>1, <2>3
       DEF Role, Copy, WriterToken, ReaderToken, SendLabels, RecvLabels, Owns
  <2>4. CASE q # p
    <3>1. Role(q)'
      BY <1>3, <2>1, <2>4 DEF Role
    <3>2. pc[q] = "send_cas" /\ seen[q] = tail =>
            slotStamp'[Index(seen[q])] = seen[q]
      <4> SUFFICES ASSUME pc[q] = "send_cas", seen[q] = tail
                   PROVE  slotStamp'[Index(seen[q])] = seen[q]
        OBVIOUS
      <4>1. ~Marked(tail) /\ slotStamp[Index(tail)] = tail
        BY <2>1 DEF Copy
      <4>2. tail = Stamp(Len(log)) /\ Index(tail) = SlotOf(Len(log)) /\ SlotOf(Len(log)) \in Slots
        BY <4>1, TailParts, StampParts, StampType, Numbers
      <4>3. SlotOf(Len(log)) # SlotOf(at[p])
        BY <4>1, <4>2
      <4>. QED
        BY <1>4, <4>1, <4>2, <4>3
    <3>3. pc[q] = "recv_cas" /\ seen[q] = head =>
            slotStamp'[Index(seen[q])] = seen[q] + 1
      <4> SUFFICES ASSUME pc[q] = "recv_cas", seen[q] = head
                   PROVE  slotStamp'[Index(seen[q])] = seen[q] + 1
        OBVIOUS
      <4>1. slotStamp[Index(head)] = head + 1
        BY <2>1 DEF Copy
      <4>2. head = Stamp(taken) /\ Index(head) = SlotOf(taken) /\ SlotOf(taken) \in Slots
        BY TailParts, StampParts, StampType, Numbers
      <4>3. SlotOf(taken) # SlotOf(at[p])
        BY <4>1, <4>2
      <4>. QED
        BY <1>4, <4>1, <4>2, <4>3
    <3>4. Copy(q)'
      BY <1>3, <2>1, <2>2, <2>4, <3>2, <3>3 DEF Copy
    <3>5. Owns(q) => slotStamp'[SlotOf(at[q])] = slotStamp[SlotOf(at[q])]
      BY <1>4, <2>4, OtherSlots, OwnedSlot
    <3>6. WriterToken(q)' /\ ReaderToken(q)'
      BY <1>3, <2>1, <2>2, <2>4, <3>5 DEF WriterToken, ReaderToken, OneLap, Owns
    <3>. QED
      BY <3>1, <3>4, <3>6
  <2>. QED
    BY <2>3, <2>4
<1>8. OnePositionEach'
  BY <1>2, <1>3 DEF IInv, OnePositionEach
<1>9. FullSlots'
  <2> SUFFICES ASSUME NEW k \in taken .. Len(log) - 1,
                      \A q \in Threads : Writing(q)' => at[q] # k
               PROVE  slotStamp'[SlotOf(k)] = Stamp(k) + 1 /\ slotMsg[SlotOf(k)] = log[k + 1]
    BY DEF FullSlots, SlotOf, Stamp
  <2>1. CASE k = at[p]
    BY <1>4, <2>1
  <2>2. CASE k # at[p]
    <3>1. k \in Nat /\ SlotOf(k) # SlotOf(at[p])
      BY <2>2, OtherSlots, Numbers
    <3>2. slotStamp'[SlotOf(k)] = slotStamp[SlotOf(k)]
      BY <1>4, <3>1, StampType
    <3>3. \A q \in Threads : Writing(q) => at[q] # k
      BY <1>3, <2>2
    <3>. QED
      BY <3>2, <3>3 DEF IInv, FullSlots
  <2>. QED
    BY <2>1, <2>2
<1>10. FreeSlots'
  <2> SUFFICES ASSUME NEW k \in Len(log) .. taken + Cap - 1,
                      \A q \in Threads : Reading(q)' => at[q] + Cap # k
               PROVE  slotStamp'[SlotOf(k)] = Stamp(k)
    BY DEF FreeSlots, SlotOf, Stamp
  <2>1. CASE k = at[p] + Cap
    <3>1. SlotOf(k) = SlotOf(at[p])
      BY <1>1, <2>1, StampLap
    <3>. QED
      BY <1>4, <2>1, <3>1
  <2>2. CASE k # at[p] + Cap
    <3>1. k \in Nat /\ SlotOf(k) # SlotOf(at[p])
      BY <2>2, OtherSlots, Numbers
    <3>2. slotStamp'[SlotOf(k)] = slotStamp[SlotOf(k)]
      BY <1>4, <3>1, StampType
    <3>3. \A q \in Threads : Reading(q) => at[q] + Cap # k
      BY <1>3, <2>2
    <3>. QED
      BY <3>2, <3>3 DEF IInv, FreeSlots
  <2>. QED
    BY <2>1, <2>2
<1>11. \A r \in Receivers : r \in Threads /\ (pc'[r] = "read" => pc[r] = "read")
  BY <1>2, <1>3 DEF Threads
<1>12. GotInOrder' /\ GotDisjoint'
  BY <1>11 DEF IInv, GotInOrder, GotDisjoint
<1>. QED
  BY <1>5, <1>6, <1>7, <1>8, <1>9, <1>10, <1>12 DEF IInv

LEMMA PublishStep ==
  ASSUME IInv, NEW p \in Senders, Publish(p)
  PROVE  IInv'
<1>1. /\ p \in Threads /\ Writing(p) /\ Owns(p) /\ pc[p] = "publish" /\ WriterToken(p)
  BY DEF IInv, Publish, Goto, Threads, Writing, Owns
<1>2. /\ at[p] \in taken .. Len(log) - 1 /\ at[p] \in Nat /\ Stamp(at[p]) + 1 \in Nat
      /\ token[p] = [slot |-> SlotOf(at[p]), stamp |-> Stamp(at[p]) + 1]
      /\ slotStamp[SlotOf(at[p])] = Stamp(at[p])
      /\ slotMsg[SlotOf(at[p])] = log[at[p] + 1]
  BY <1>1, OwnedSlot DEF WriterToken
<1>3. /\ pc' = [pc EXCEPT ![p] = "idle"]
      /\ slotStamp' = [slotStamp EXCEPT ![SlotOf(at[p])] = Stamp(at[p]) + 1]
      /\ UNCHANGED <<head, tail, slotMsg, seen, token, at, sent, log, taken, got, reply>>
  BY <1>2 DEF Publish, Goto, local, ghosts
<1>4. Stamp(at[p]) # Stamp(Len(log))
  <2>1. Stamp(at[p]) < Stamp(Len(log)) /\ Stamp(at[p]) \in Nat /\ Stamp(Len(log)) \in Nat
    <3>1. Len(log) \in Nat /\ at[p] < Len(log)
      BY <1>2, Numbers
    <3>. QED
      BY <1>2, <3>1, StampIncreasing, StampType
  <2>. QED
    BY <2>1
<1>5. SlotOf(taken) = SlotOf(at[p]) => Stamp(at[p]) # Stamp(taken) + 1
  BY <1>2, Numbers, SameSlot
<1>6. at[p] + Cap \notin Len(log) .. taken + Cap - 1 \/ Stamp(at[p]) + 1 = Stamp(at[p] + Cap)
  BY <1>2, Numbers
<1>. QED
  BY <1>1, <1>2, <1>3, <1>4, <1>5, <1>6, GiveUpSlot

LEMMA ReleaseStep ==
  ASSUME IInv, NEW p \in Receivers, Release(p)
  PROVE  IInv'
<1>1. /\ p \in Threads /\ Reading(p) /\ Owns(p) /\ ReaderToken(p)
  BY DEF IInv, Release, Goto, Threads, Reading, Owns
<1>2. /\ at[p] < taken /\ at[p] \in Nat /\ taken \in Nat /\ Stamp(at[p]) \in Nat
      /\ token[p] = [slot |-> SlotOf(at[p]), stamp |-> Stamp(at[p]) + OneLap]
      /\ slotStamp[SlotOf(at[p])] = Stamp(at[p]) + 1
  BY <1>1, OwnedSlot, Numbers DEF ReaderToken
<1>3. /\ Stamp(at[p]) + OneLap \in Nat
      /\ Stamp(at[p] + Cap) = Stamp(at[p]) + OneLap
  BY <1>2, Numbers, StampLap
<1>4. /\ pc' = [pc EXCEPT ![p] = "idle"]
      /\ slotStamp' = [slotStamp EXCEPT ![SlotOf(at[p])] = Stamp(at[p]) + OneLap]
      /\ UNCHANGED <<head, tail, slotMsg, seen, token, at, sent, log, taken, got, reply>>
  BY <1>2 DEF Release, Goto, local, ghosts
<1>5. SlotOf(Len(log)) = SlotOf(at[p]) => Stamp(at[p]) + 1 # Stamp(Len(log))
  BY <1>2, Numbers, SameSlot
<1>6. Stamp(at[p]) + 1 # Stamp(taken) + 1
  <2>1. Stamp(at[p]) < Stamp(taken) /\ Stamp(taken) \in Nat
    BY <1>2, StampIncreasing, StampType
  <2>. QED
    BY <1>2, <2>1
<1>7. at[p] \notin taken .. Len(log) - 1
  BY <1>2, Numbers
<1>. QED
  BY <1>1, <1>2, <1>3, <1>4, <1>5, <1>6, <1>7, GiveUpSlot

LEMMA ReadStep ==
  ASSUME IInv, NEW p \in Receivers, Read(p)
  PROVE  IInv'
<1> DEFINE Entry == [pos : Nat, msg : Message \union {NoMsg}]
           e == [pos |-> at[p], msg |-> slotMsg[token[p].slot]]
           n == Len(got[p])
<1>1. /\ p \in Threads /\ pc[p] = "read" /\ Reading(p) /\ Owns(p) /\ ReaderToken(p)
  BY DEF IInv, Read, Goto, Threads, Reading, Owns
<1>2. /\ at[p] < taken /\ at[p] \in Nat
      /\ token[p].slot = SlotOf(at[p])
      /\ slotMsg[SlotOf(at[p])] = log[at[p] + 1]
  BY <1>1, OwnedSlot, Numbers DEF ReaderToken
<1>3. e \in Entry /\ e.pos = at[p] /\ e.msg = log[at[p] + 1]
  <2>1. at[p] + 1 \in 1 .. Len(log)
    BY <1>2, Numbers
  <2>. QED
    BY <1>2, <2>1, Numbers
<1>4. /\ pc \in [Threads -> {"idle"} \union SendLabels \union RecvLabels]
      /\ got \in [Receivers -> Seq(Entry)]
  BY DEF IInv, TypeOK
<1>5. /\ pc' = [pc EXCEPT ![p] = "release"]
      /\ got' = [got EXCEPT ![p] = Append(got[p], e)]
      /\ UNCHANGED <<head, tail, slotStamp, slotMsg, seen, token, at, sent, log, taken, reply>>
  BY DEF Read, Goto, shared, local
<1> HIDE DEF e
<1>6. /\ got[p] \in Seq(Entry) /\ got'[p] = Append(got[p], e)
      /\ \A r \in Receivers : r # p => got'[r] = got[r]
  BY <1>4, <1>5
<1>7. /\ n \in Nat /\ Len(got'[p]) = n + 1 /\ got'[p][n + 1] = e
      /\ \A i \in 1 .. n : got'[p][i] = got[p][i]
  BY <1>3, <1>6
<1>8. pc'[p] = "release" /\ \A q \in Threads : q # p => pc'[q] = pc[q]
  BY <1>1, <1>4, <1>5
<1>9. \A q \in Threads : /\ Writing(q)' <=> Writing(q)
                         /\ Reading(q)' <=> Reading(q)
                         /\ Owns(q)' <=> Owns(q)
                         /\ Sending(q)' <=> Sending(q)
  BY <1>1, <1>8 DEF Writing, Reading, Owns, Sending, SendLabels
<1>10. TypeOK'
  <2>1. pc' \in [Threads -> {"idle"} \union SendLabels \union RecvLabels]
    BY <1>4, <1>5 DEF RecvLabels
  <2>2. got' \in [Receivers -> Seq(Entry)]
    <3>1. Append(got[p], e) \in Seq(Entry)
      BY <1>3, <1>6
    <3>. QED
      BY <1>4, <1>5, <3>1
  <2>. QED
    BY <1>5, <2>1, <2>2 DEF IInv, TypeOK, Marked
<1>11. WithinCapacity' /\ Counters' /\ LogInOrder'
  BY <1>5 DEF IInv, WithinCapacity, Counters, LogInOrder, Stamp
<1>12. ASSUME NEW q \in Threads
       PROVE  (Role(q) /\ Copy(q) /\ WriterToken(q) /\ ReaderToken(q))'
  <2>1. Role(q) /\ Copy(q) /\ WriterToken(q) /\ ReaderToken(q)
    BY DEF IInv
  <2>2. /\ Stamp(at[q]) = Stamp(at[q])' /\ SlotOf(at[q]) = SlotOf(at[q])'
        /\ Msg(q, sent[q]) = Msg(q, sent[q])'
        /\ Stamp(Len(log)) = Stamp(Len(log))'
        /\ Unmarked(seen[q])' = Unmarked(seen[q])
        /\ Marked(seen[q])' = Marked(seen[q])
        /\ Index(seen[q])' = Index(seen[q])
    BY <1>5 DEF Stamp, SlotOf, Msg, Unmarked, Marked, Index
  <2>3. CASE q = p
    <3>1. Role(q)' /\ Copy(q)'
      BY <1>1, <1>5, <1>8, <1>9, <2>1, <2>3
         DEF Role, Copy, SendLabels, RecvLabels, Sending, Owns
    <3>2. WriterToken(q)' /\ ReaderToken(q)'
      BY <1>1, <1>5, <1>8, <1>9, <2>1, <2>2, <2>3
         DEF WriterToken, ReaderToken, Writing, Reading, OneLap
    <3>. QED
      BY <3>1, <3>2
  <2>4. CASE q # p
    BY <1>5, <1>8, <1>9, <2>1, <2>2, <2>4 DEF Role, Copy, WriterToken, ReaderToken, OneLap
  <2>. QED
    BY <2>3, <2>4
<1>13. OnePositionEach' /\ FullSlots' /\ FreeSlots'
  BY <1>5, <1>9 DEF IInv, OnePositionEach, FullSlots, FreeSlots, SlotOf, Stamp
<1>14. \A r \in Receivers : r \in Threads /\ (pc'[r] = "read" <=> pc[r] = "read" /\ r # p)
  BY <1>1, <1>8 DEF Threads
<1>15. ASSUME NEW r \in Receivers, NEW i \in 1 .. Len(got'[r])
       PROVE  \/ /\ i \in 1 .. Len(got[r]) /\ got'[r][i] = got[r][i]
                 /\ got[r][i].pos \in Nat /\ got[r][i].pos < taken
                 /\ got[r][i].msg = log[got[r][i].pos + 1]
              \/ r = p /\ i = n + 1 /\ got'[r][i] = e
  <2>1. CASE i \in 1 .. Len(got[r])
    <3>1. got'[r][i] = got[r][i]
      BY <1>6, <1>7, <2>1
    <3>. QED
      BY <2>1, <3>1, GotPositions
  <2>2. CASE i \notin 1 .. Len(got[r])
    BY <1>6, <1>7, <2>2
  <2>. QED
    BY <2>1, <2>2
<1>16. \A i \in 1 .. n : got[p][i].pos < at[p]
  BY <1>1 DEF IInv, GotInOrder
<1>17. GotInOrder'
  <2>1. ASSUME NEW r \in Receivers, NEW i \in 1 .. Len(got'[r])
        PROVE  got'[r][i].pos < taken /\ got'[r][i].msg = log[got'[r][i].pos + 1]
    BY <1>2, <1>3, <1>15
  <2>2. ASSUME NEW r \in Receivers, NEW i \in 1 .. Len(got'[r]), NEW j \in 1 .. Len(got'[r]), i < j
        PROVE  got'[r][i].pos < got'[r][j].pos
    <3>1. CASE r # p
      BY <1>6, <2>2, <3>1 DEF IInv, GotInOrder
    <3>2. CASE r = p /\ j = n + 1
      BY <1>3, <1>7, <1>16, <2>2, <3>2
    <3>3. CASE r = p /\ j # n + 1
      <4>1. j \in 1 .. n /\ i \in 1 .. n
        BY <1>7, <2>2, <3>3
      <4>. QED
        BY <1>7, <2>2, <3>3, <4>1 DEF IInv, GotInOrder
    <3>. QED
      BY <3>1, <3>2, <3>3
  <2>3. ASSUME NEW r \in Receivers, pc'[r] = "read"
        PROVE  \A i \in 1 .. Len(got'[r]) : got'[r][i].pos < at[r]
    <3>1. r # p /\ pc[r] = "read" /\ got'[r] = got[r]
      BY <1>6, <1>14, <2>3
    <3>. QED
      BY <3>1 DEF IInv, GotInOrder
  <2>4. ASSUME NEW r \in Receivers
        PROVE  /\ \A i \in 1 .. Len(got'[r]) :
                    got'[r][i].pos < taken' /\ got'[r][i].msg = log'[got'[r][i].pos + 1]
               /\ \A i, j \in 1 .. Len(got'[r]) : i < j => got'[r][i].pos < got'[r][j].pos
               /\ pc'[r] = "read" => \A i \in 1 .. Len(got'[r]) : got'[r][i].pos < at'[r]
    BY <1>5, <2>1, <2>2, <2>3
  <2>. QED
    BY <2>4 DEF GotInOrder
<1>18. GotDisjoint'
  <2>1. \A r \in Receivers : r # p => \A i \in 1 .. Len(got[r]) : got[r][i].pos # at[p]
    BY <1>1 DEF IInv, GotDisjoint
  <2>2. ASSUME NEW r1 \in Receivers, NEW r2 \in Receivers, r1 # r2,
               NEW i \in 1 .. Len(got'[r1]), NEW j \in 1 .. Len(got'[r2])
        PROVE  got'[r1][i].pos # got'[r2][j].pos
    <3>1. CASE r1 = p /\ i = n + 1
      BY <1>3, <1>6, <1>7, <2>1, <2>2, <3>1
    <3>2. CASE r2 = p /\ j = n + 1
      BY <1>3, <1>6, <1>7, <2>1, <2>2, <3>2
    <3>3. CASE ~(r1 = p /\ i = n + 1) /\ ~(r2 = p /\ j = n + 1)
      <4>1. /\ i \in 1 .. Len(got[r1]) /\ got'[r1][i] = got[r1][i]
            /\ j \in 1 .. Len(got[r2]) /\ got'[r2][j] = got[r2][j]
        BY <1>15, <3>3
      <4>. QED
        BY <2>2, <4>1 DEF IInv, GotDisjoint
    <3>. QED
      BY <3>1, <3>2, <3>3
  <2>3. ASSUME NEW r1 \in Receivers, NEW r2 \in Receivers, r1 # r2,
               NEW i \in 1 .. Len(got'[r1]), pc'[r2] = "read"
        PROVE  got'[r1][i].pos # at[r2]
    <3>1. r2 # p /\ pc[r2] = "read" /\ Owns(r2) /\ r2 \in Threads
      BY <1>14, <2>3 DEF Owns, Reading
    <3>2. CASE r1 = p /\ i = n + 1
      <4>1. at[p] # at[r2]
        BY <1>1, <3>1 DEF IInv, OnePositionEach
      <4>. QED
        BY <1>3, <1>7, <3>2, <4>1
    <3>3. CASE ~(r1 = p /\ i = n + 1)
      <4>1. i \in 1 .. Len(got[r1]) /\ got'[r1][i] = got[r1][i]
        BY <1>15, <3>3
      <4>. QED
        BY <2>3, <3>1, <4>1 DEF IInv, GotDisjoint
    <3>. QED
      BY <3>2, <3>3
  <2>. QED
    BY <1>5, <2>2, <2>3 DEF GotDisjoint
<1>. QED
  BY <1>10, <1>11, <1>12, <1>13, <1>17, <1>18 DEF IInv

LEMMA StutterStep ==
  ASSUME IInv, UNCHANGED vars
  PROVE  IInv'
<1> USE DEF vars
<1>1. (TypeOK /\ WithinCapacity /\ Counters /\ LogInOrder)'
  BY DEF IInv, TypeOK, WithinCapacity, Counters, LogInOrder, Stamp, Marked
<1>2. ASSUME NEW q \in Threads
      PROVE  (Role(q) /\ Copy(q) /\ WriterToken(q) /\ ReaderToken(q))'
  <2>1. Role(q) /\ Copy(q) /\ WriterToken(q) /\ ReaderToken(q)
    BY DEF IInv
  <2>2. (Role(q) /\ WriterToken(q) /\ ReaderToken(q))'
    BY <2>1 DEF Role, WriterToken, ReaderToken, Stamp, SlotOf, Msg, Owns, Writing, Reading,
                Sending, OneLap
  <2>3. Copy(q)'
    BY <2>1 DEF Copy, Sending, Writing, Reading, Stamp, Unmarked, Marked, Index
  <2>. QED
    BY <2>2, <2>3
<1>3. (OnePositionEach /\ FullSlots /\ FreeSlots /\ GotInOrder /\ GotDisjoint)'
  BY DEF IInv, OnePositionEach, FullSlots, FreeSlots, GotInOrder, GotDisjoint, Stamp, SlotOf,
         Owns, Writing, Reading
<1>. QED
  BY <1>1, <1>2, <1>3 DEF IInv

\* shutdown marks tail: a compare-exchange prepared before it cannot succeed.
LEMMA ShutdownStep ==
  ASSUME IInv, Shutdown
  PROVE  IInv'
<1> USE DEF Shutdown, local, ghosts
<1>1. CASE Marked(tail)
  <2>1. UNCHANGED vars
    BY <1>1 DEF vars
  <2>. QED
    BY <2>1, StutterStep
<1>2. CASE ~Marked(tail)
  <2>1. /\ tail' = Stamp(Len(log)) + MarkBit /\ tail' \in Nat
        /\ Marked(Stamp(Len(log)) + MarkBit)
    BY <1>2, TailParts, StampParts, Numbers
  <2>2. TypeOK' /\ WithinCapacity' /\ Counters' /\ LogInOrder'
    BY <2>1 DEF IInv, TypeOK, WithinCapacity, Counters, LogInOrder, Stamp, Marked
  <2>3. ASSUME NEW q \in Threads
        PROVE  (Role(q) /\ Copy(q) /\ WriterToken(q) /\ ReaderToken(q))'
    <3>1. Role(q) /\ Copy(q) /\ WriterToken(q) /\ ReaderToken(q)
      BY DEF IInv
    <3>2. (Role(q) /\ WriterToken(q) /\ ReaderToken(q))'
      BY <3>1 DEF Role, WriterToken, ReaderToken, Stamp, SlotOf, Msg, Owns, Writing, Reading,
                  Sending, OneLap
    <3>3. /\ Stamp(Len(log))' = Stamp(Len(log))
          /\ Unmarked(seen[q])' = Unmarked(seen[q])
          /\ Marked(seen[q])' = Marked(seen[q])
          /\ Index(seen[q])' = Index(seen[q])
      BY DEF Stamp, Unmarked, Marked, Index
    <3>4. pc[q] = "send_cas" => seen[q] # tail'
      BY <2>1, <3>1 DEF Copy
    <3>5. Copy(q)'
      BY <3>1, <3>3, <3>4 DEF Copy, Sending, Writing, Reading
    <3>. QED
      BY <3>2, <3>5
  <2>4. (OnePositionEach /\ FullSlots /\ FreeSlots /\ GotInOrder /\ GotDisjoint)'
    BY DEF IInv, OnePositionEach, FullSlots, FreeSlots, GotInOrder, GotDisjoint, Stamp, SlotOf,
           Owns, Writing, Reading
  <2>. QED
    BY <2>2, <2>3, <2>4 DEF IInv
<1>. QED
  BY <1>1, <1>2

------------------------------------------------------------------------------
(***************************************************************************)
(* The theorems.                                                           *)
(***************************************************************************)
LEMMA NextIInv ==
  ASSUME IInv, [Next]_vars
  PROVE  IInv'
<1>1. ASSUME NEW p \in Senders, SenderStep(p)
      PROVE  IInv'
  BY <1>1, SenderLocalSteps, SendReserveStep, WriteStep, PublishStep DEF SenderStep
<1>2. ASSUME NEW p \in Receivers, ReceiverStep(p)
      PROVE  IInv'
  BY <1>2, ReceiverLocalSteps, RecvReserveStep, ReadStep, ReleaseStep DEF ReceiverStep
<1>. QED
  BY <1>1, <1>2, ShutdownStep, StutterStep DEF Next

\* The invariant of ArrayChannelInv holds in every reachable state of array.rs's
\* ring, for every capacity and every set of threads.
THEOREM Invariance == Spec => []IInv
<1>1. Init => IInv
  BY InitIInv
<1>2. IInv /\ [Next]_vars => IInv'
  BY NextIInv
<1>. QED
  BY <1>1, <1>2, PTL DEF Spec

\* Type correctness of the ring: stamps and positions are packed numbers, head
\* is never marked, tokens name real slots.
THEOREM TypeCorrect == Spec => []TypeOK
<1>1. IInv => TypeOK
  BY DEF IInv
<1>. QED
  BY <1>1, Invariance, PTL

\* No two threads are ever inside the same slot (write and read of array.rs
\* access the cell without a lock).
THEOREM MutualExclusion == Spec => []SlotExclusive
  BY SlotExclusiveHolds, Invariance, PTL

\* The channel never holds more than cap messages (start_send).
THEOREM CapacityRespected == Spec => []WithinCapacity
<1>1. IInv => WithinCapacity
  BY DEF IInv
<1>. QED
  BY <1>1, Invariance, PTL

\* read returns what the write of the same position put into the slot.
THEOREM ReadsAreWrites == Spec => []ReadsWhatWasSent
  BY ReadsWhatWasSentHolds, Invariance, PTL

\* Each message goes to one receiver, once (start_recv).
THEOREM AtMostOnce == Spec => []DeliveredOnce
  BY DeliveredOnceHolds, Invariance, PTL

\* Each receiver gets the messages of one sender in the order they were sent.
THEOREM OrderPreserved == Spec => []SenderOrder
  BY SenderOrderHolds, Invariance, PTL

------------------------------------------------------------------------------
(***************************************************************************)
(* ArrayChannel implements BoundedFifo: a call to start_send or start_recv *)
(* takes effect at one instant between its start and its return.  That     *)
(* instant is the compare-exchange of a call that moves a message; for a   *)
(* call that fails it is the load that finds the channel full, empty or    *)
(* disconnected.                                                           *)
(***************************************************************************)
\* The part of a log after position t grows at the end and shrinks at the front.
Suffix(s, t) == SubSeq(s, t + 1, Len(s))

LEMMA SuffixElements ==
  ASSUME NEW s \in Seq(Message), NEW t \in 0 .. Len(s)
  PROVE  /\ Suffix(s, t) \in Seq(Message)
         /\ Len(Suffix(s, t)) = Len(s) - t
         /\ \A i \in 1 .. Len(s) - t : Suffix(s, t)[i] = s[t + i]
<1>1. Len(s) \in Nat /\ t \in Nat /\ t + 1 \in Int /\ Len(s) \in Int
  OBVIOUS
<1>2. \A i \in (t + 1) .. Len(s) : s[i] \in Message
  BY <1>1
<1>3. /\ Suffix(s, t) \in Seq(Message)
      /\ Len(Suffix(s, t)) = IF t + 1 <= Len(s) THEN Len(s) - (t + 1) + 1 ELSE 0
      /\ \A i \in 1 .. Len(s) - (t + 1) + 1 : Suffix(s, t)[i] = s[(t + 1) + i - 1]
  BY <1>1, <1>2, SubSeqProperties DEF Suffix
<1>4. Len(Suffix(s, t)) = Len(s) - t
  BY <1>1, <1>3
<1>5. ASSUME NEW i \in 1 .. Len(s) - t
      PROVE  Suffix(s, t)[i] = s[t + i]
  <2>1. i \in 1 .. Len(s) - (t + 1) + 1 /\ (t + 1) + i - 1 = t + i
    BY <1>1
  <2>. QED
    BY <1>3, <2>1
<1>. QED
  BY <1>3, <1>4, <1>5

LEMMA SuffixAppend ==
  ASSUME NEW s \in Seq(Message), NEW t \in 0 .. Len(s), NEW m \in Message
  PROVE  Suffix(Append(s, m), t) = Append(Suffix(s, t), m)
<1> DEFINE a == Append(s, m)
           x == Suffix(a, t)
           y == Append(Suffix(s, t), m)
           n == Len(s) - t
<1>1. /\ a \in Seq(Message) /\ Len(a) = Len(s) + 1 /\ a[Len(s) + 1] = m
      /\ \A i \in 1 .. Len(s) : a[i] = s[i]
  BY AppendProperties
<1>2. Len(s) \in Nat /\ t \in Nat /\ t \in 0 .. Len(a) /\ n \in Nat /\ Len(a) - t = n + 1
  BY <1>1
<1>3. x \in Seq(Message) /\ Len(x) = n + 1 /\ \A i \in 1 .. n + 1 : x[i] = a[t + i]
  <2>1. /\ x \in Seq(Message) /\ Len(x) = Len(a) - t
        /\ \A i \in 1 .. Len(a) - t : x[i] = a[t + i]
    BY <1>1, <1>2, SuffixElements
  <2>. QED
    BY <1>2, <2>1
<1>4. /\ y \in Seq(Message) /\ Len(y) = n + 1 /\ y[n + 1] = m
      /\ \A i \in 1 .. n : y[i] = s[t + i]
  <2>1. /\ Suffix(s, t) \in Seq(Message) /\ Len(Suffix(s, t)) = n
        /\ \A i \in 1 .. n : Suffix(s, t)[i] = s[t + i]
    BY SuffixElements
  <2>. QED
    BY <2>1, AppendProperties
<1> HIDE DEF a, x, y
<1>5. \A i \in 1 .. n + 1 : x[i] = y[i]
  <2>1. \A i \in 1 .. n : x[i] = y[i]
    BY <1>1, <1>2, <1>3, <1>4
  <2>2. x[n + 1] = y[n + 1]
    BY <1>1, <1>2, <1>3, <1>4
  <2>. QED
    BY <1>2, <2>1, <2>2
<1>6. x = y
  BY <1>3, <1>4, <1>5, SeqEqual
<1>. QED
  BY <1>6 DEF a, x, y

LEMMA SuffixTail ==
  ASSUME NEW s \in Seq(Message), NEW t \in 0 .. Len(s) - 1
  PROVE  /\ Suffix(s, t) # << >>
         /\ Head(Suffix(s, t)) = s[t + 1]
         /\ Suffix(s, t + 1) = Tail(Suffix(s, t))
<1> DEFINE x == Suffix(s, t + 1)
           z == Suffix(s, t)
           y == Tail(z)
           n == Len(s) - (t + 1)
<1>1. /\ Len(s) \in Nat /\ t \in Nat /\ t \in 0 .. Len(s) /\ t + 1 \in 0 .. Len(s)
      /\ n \in Nat /\ Len(s) - t = n + 1
  OBVIOUS
<1>2. z \in Seq(Message) /\ Len(z) = n + 1 /\ \A i \in 1 .. n + 1 : z[i] = s[t + i]
  <2>1. /\ z \in Seq(Message) /\ Len(z) = Len(s) - t
        /\ \A i \in 1 .. Len(s) - t : z[i] = s[t + i]
    BY <1>1, SuffixElements
  <2>. QED
    BY <1>1, <2>1
<1>3. x \in Seq(Message) /\ Len(x) = n /\ \A i \in 1 .. n : x[i] = s[(t + 1) + i]
  BY <1>1, SuffixElements
<1> HIDE DEF x, z, n
<1>4. z # << >> /\ Head(z) = z[1]
  BY <1>1, <1>2
<1>5. y \in Seq(Message) /\ Len(y) = n /\ \A i \in 1 .. n : y[i] = z[i + 1]
  BY <1>1, <1>2, <1>4, HeadTailProperties
<1>6. z[1] = s[t + 1]
  BY <1>1, <1>2
<1> HIDE DEF y
<1>7. \A i \in 1 .. n : x[i] = y[i]
  <2> SUFFICES ASSUME NEW i \in 1 .. n PROVE x[i] = y[i]
    OBVIOUS
  <2>1. i \in Nat /\ i + 1 \in 1 .. n + 1 /\ t + (i + 1) = (t + 1) + i
    BY <1>1
  <2>2. z[i + 1] = s[t + (i + 1)]
    BY <1>2, <2>1
  <2>. QED
    BY <1>3, <1>5, <2>1, <2>2
<1>8. x = y
  BY <1>3, <1>5, <1>7, SeqEqual
<1>. QED
  BY <1>4, <1>6, <1>8 DEF x, y, z

LEMMA PendingIs ==
  ASSUME IInv
  PROVE  /\ Pending = Suffix(log, taken) /\ Len(Pending) = Len(log) - taken
         /\ log \in Seq(Message) /\ taken \in 0 .. Len(log) /\ Len(log) \in Nat
<1>1. log \in Seq(Message)
  BY DEF IInv, TypeOK
<1>2. taken \in 0 .. Len(log) /\ Len(log) \in Nat
  BY Numbers
<1>. QED
  BY <1>1, <1>2, SuffixElements DEF Pending, Suffix

------------------------------------------------------------------------------
(***************************************************************************)
(* The steps, one lemma per kind of thread.                                *)
(***************************************************************************)
\* A step that changes nothing a caller can see.
LEMMA InvisibleStep ==
  ASSUME UNCHANGED <<tail, sent, log, taken, reply>>
  PROVE  UNCHANGED Fifo!fifoVars
BY DEF Fifo!fifoVars, Pending, Marked, OneLap

LEMMA SenderImplements ==
  ASSUME IInv, NEW p \in Senders, SenderStep(p)
  PROVE  [Fifo!FifoNext]_(Fifo!fifoVars)
<1>1. p \in Threads /\ Role(p) /\ Copy(p) /\ seen[p] \in Nat
  BY DEF IInv, TypeOK, Threads
<1>2. /\ Pending = Suffix(log, taken) /\ Len(Pending) = Len(log) - taken
      /\ log \in Seq(Message) /\ taken \in 0 .. Len(log) /\ Len(log) \in Nat
      /\ Len(log) <= taken + Cap /\ Cap \in Nat
      /\ reply \in [Threads -> [kind : Fifo!ReplyKinds, msg : Message \union {NoMsg}]]
      /\ sent \in [Senders -> 0 .. MaxSends]
  BY PendingIs, Numbers DEF IInv, TypeOK
<1> USE DEF Goto, See, Answer, Fifo!Answer, shared, local, ghosts
<1>3. CASE SendStart(p)
  <2>1. reply[p].kind \notin Fifo!InProgress
    BY <1>1, <1>3 DEF SendStart, Role
  <2>2. Fifo!CallSend(p)
    BY <1>3, <2>1 DEF SendStart, Fifo!CallSend, Reply, Fifo!Reply, Pending, Marked, OneLap
  <2>. QED
    BY <2>2 DEF Fifo!FifoNext
<1>4. CASE SendClosed(p)
  <2>1. Sending(p) /\ Marked(tail)
    BY <1>1, <1>4 DEF SendClosed, Copy, Sending, SendLabels, Writing
  <2>2. Fifo!Pending(p, "sending") \/ Fifo!Pending(p, "late")
    BY <1>1, <2>1 DEF Role, Fifo!Pending, Reply, Fifo!Reply
  <2>3. Fifo!RefuseClosed(p)
    BY <1>4, <2>1, <2>2 DEF SendClosed, Fifo!RefuseClosed, Reply, Fifo!Reply, Pending, Marked, OneLap
  <2>. QED
    BY <2>3 DEF Fifo!FifoNext
<1>5. CASE SendFull(p)
  <2>1. Sending(p) /\ pc[p] = "send_full" /\ head + OneLap = seen[p]
    BY <1>5 DEF SendFull, Sending, SendLabels, Writing
  <2>2. seen[p] <= Stamp(Len(log)) /\ seen[p] = Stamp(taken + Cap)
    BY <1>1, <1>2, <2>1, TailParts, StampLap DEF Copy, Unmarked
  <2>3. ~(Len(log) < taken + Cap)
    <3> SUFFICES ASSUME Len(log) < taken + Cap PROVE FALSE
      OBVIOUS
    <3>1. taken + Cap \in Nat
      BY <1>2
    <3>2. Stamp(Len(log)) < Stamp(taken + Cap) /\ Stamp(Len(log)) \in Nat /\ Stamp(taken + Cap) \in Nat
      BY <1>2, <3>1, StampIncreasing, StampType
    <3>. QED
      BY <2>2, <3>2
  <2>4. Len(Pending) = Cap
    <3>1. Len(log) = taken + Cap
      BY <2>3, Numbers
    <3>. QED
      BY <1>2, <3>1
  <2>5. Fifo!Pending(p, "sending")
    BY <1>1, <2>1 DEF Role, Fifo!Pending, Reply, Fifo!Reply
  <2>6. Fifo!RefuseFull(p)
    BY <1>5, <2>4, <2>5 DEF SendFull, Fifo!RefuseFull, Reply, Fifo!Reply, Pending, Marked, OneLap
  <2>. QED
    BY <2>6 DEF Fifo!FifoNext
<1>6. CASE SendReserve(p)
  <2> DEFINE m == Msg(p, sent[p] + 1)
  <2>1. /\ tail = Stamp(Len(log)) /\ Len(log) < taken + Cap
    BY <1>6, SendReserveFree
  <2>2. ~Marked(tail) /\ Len(Pending) < Cap
    BY <1>2, <2>1, StampParts
  <2>3. Sending(p) /\ pc[p] = "send_cas"
    BY <1>6 DEF SendReserve, Reserve, Sending, SendLabels, Writing
  <2>4. Fifo!Pending(p, "sending") /\ sent[p] < MaxSends
    BY <1>1, <2>3 DEF Role, Fifo!Pending, Reply, Fifo!Reply
  <2>5. /\ sent' = [sent EXCEPT ![p] = @ + 1] /\ sent'[p] = sent[p] + 1
        /\ log' = Append(log, m) /\ taken' = taken
        /\ reply' = [reply EXCEPT ![p] = Reply("sent")]
        /\ tail' = Stamp(Len(log) + 1)
    BY <1>2, <1>6, <2>1, StampFollowing DEF SendReserve, Reserve
  <2>6. Marked(tail)' = Marked(tail)
    <3>1. ~Marked(Stamp(Len(log) + 1))
      BY <1>2, StampParts
    <3>. QED
      BY <2>2, <2>5, <3>1 DEF Marked, OneLap
  <2>7. m \in Message
    BY <1>2, <2>4, CapAssumption DEF Msg, Message
  <2>8. Pending' = Append(Pending, m)
    <3>1. Pending' = Suffix(log', taken)
      BY <2>5 DEF Pending, Suffix
    <3>2. Suffix(Append(log, m), taken) = Append(Suffix(log, taken), m)
      BY <1>2, <2>7, SuffixAppend
    <3>. QED
      BY <1>2, <2>5, <3>1, <3>2
  <2>9. Fifo!Accept(p)
    BY <2>2, <2>4, <2>5, <2>6, <2>8 DEF Fifo!Accept, Reply, Fifo!Reply, Msg, Fifo!Msg
  <2>. QED
    BY <2>9 DEF Fifo!FifoNext
<1>7. CASE SendInspect(p) \/ SendReload(p) \/ SendRetry(p) \/ SendNotFull(p) \/ Write(p) \/ Publish(p)
  <2>1. UNCHANGED <<tail, sent, log, taken, reply>>
    BY <1>7 DEF SendInspect, SendReload, SendRetry, SendNotFull, Write, Publish
  <2>. QED
    BY <2>1, InvisibleStep
<1>. QED
  BY <1>3, <1>4, <1>5, <1>6, <1>7 DEF SenderStep

LEMMA ReceiverImplements ==
  ASSUME IInv, NEW p \in Receivers, ReceiverStep(p)
  PROVE  [Fifo!FifoNext]_(Fifo!fifoVars)
<1>1. p \in Threads /\ Role(p) /\ Copy(p) /\ seen[p] \in Nat
  BY DEF IInv, TypeOK, Threads
<1>2. /\ Pending = Suffix(log, taken) /\ Len(Pending) = Len(log) - taken
      /\ log \in Seq(Message) /\ taken \in 0 .. Len(log) /\ Len(log) \in Nat
      /\ reply \in [Threads -> [kind : Fifo!ReplyKinds, msg : Message \union {NoMsg}]]
  BY PendingIs DEF IInv, TypeOK
<1> USE DEF Goto, See, Answer, Fifo!Answer, shared, local, ghosts
<1>3. CASE RecvStart(p)
  <2>1. reply[p].kind \notin Fifo!InProgress
    BY <1>1, <1>3 DEF RecvStart, Role
  <2>2. Fifo!CallRecv(p)
    BY <1>3, <2>1 DEF RecvStart, Fifo!CallRecv, Reply, Fifo!Reply, Pending, Marked, OneLap
  <2>. QED
    BY <2>2 DEF Fifo!FifoNext
<1>4. CASE RecvEmpty(p)
  <2>1. pc[p] = "recv_empty" /\ Unmarked(tail) = seen[p]
    BY <1>4 DEF RecvEmpty
  <2>2. Stamp(Len(log)) <= Stamp(taken)
    BY <1>1, <2>1, TailParts DEF Copy, RecvLabels, Reading
  <2>3. ~(taken < Len(log))
    <3> SUFFICES ASSUME taken < Len(log) PROVE FALSE
      OBVIOUS
    <3>1. taken \in Nat
      BY <1>2
    <3>2. Stamp(taken) < Stamp(Len(log)) /\ Stamp(taken) \in Nat /\ Stamp(Len(log)) \in Nat
      BY <1>2, <3>1, StampIncreasing, StampType
    <3>. QED
      BY <2>2, <3>2
  <2>4. Len(Pending) = 0
    BY <1>2, <2>3
  <2>5. Pending = << >>
    <3>1. Pending \in Seq(Message)
      BY <1>2, SuffixElements
    <3>. QED
      BY <2>4, <3>1, EmptySeq
  <2>6. Fifo!Pending(p, "receiving")
    BY <1>1, <2>1 DEF Role, RecvLabels, Reading, Fifo!Pending, Reply, Fifo!Reply
  <2>7. UNCHANGED <<Pending, Marked(tail), sent>>
    BY <1>4 DEF RecvEmpty, Pending, Marked, OneLap
  <2>8. CASE Marked(tail)
    BY <1>4, <2>5, <2>6, <2>7, <2>8
       DEF RecvEmpty, Fifo!ReportDisconnected, Reply, Fifo!Reply, Fifo!FifoNext
  <2>9. CASE ~Marked(tail)
    BY <1>4, <2>5, <2>6, <2>7, <2>9
       DEF RecvEmpty, Fifo!ReportEmpty, Reply, Fifo!Reply, Fifo!FifoNext
  <2>. QED
    BY <2>8, <2>9
<1>5. CASE RecvReserve(p)
  <2>1. taken < Len(log)
    BY <1>5, RecvReserveFull
  <2>2. /\ log' = log /\ taken' = taken + 1 /\ tail' = tail /\ sent' = sent
        /\ reply' = [reply EXCEPT ![p] = Received(log[taken + 1])] /\ pc[p] = "recv_cas"
    BY <1>5 DEF RecvReserve
  <2>3. taken \in 0 .. Len(log) - 1
    BY <1>2, <2>1
  <2>4. /\ Pending # << >> /\ Head(Pending) = log[taken + 1]
        /\ Suffix(log, taken + 1) = Tail(Pending)
    BY <1>2, <2>3, SuffixTail
  <2>5. Pending' = Tail(Pending)
    BY <2>2, <2>4 DEF Pending, Suffix
  <2>6. Fifo!Pending(p, "receiving")
    BY <1>1, <2>2 DEF Role, RecvLabels, Reading, Fifo!Pending, Reply, Fifo!Reply
  <2>7. Marked(tail)' = Marked(tail)
    BY <2>2 DEF Marked, OneLap
  <2>8. Fifo!Deliver(p)
    BY <2>2, <2>4, <2>5, <2>6, <2>7 DEF Fifo!Deliver, Received, Fifo!Received
  <2>. QED
    BY <2>8 DEF Fifo!FifoNext
<1>6. CASE RecvInspect(p) \/ RecvReload(p) \/ RecvRetry(p) \/ RecvNotEmpty(p) \/ Read(p) \/ Release(p)
  <2>1. UNCHANGED <<tail, sent, log, taken, reply>>
    BY <1>6 DEF RecvInspect, RecvReload, RecvRetry, RecvNotEmpty, Read, Release
  <2>. QED
    BY <2>1, InvisibleStep
<1>. QED
  BY <1>3, <1>4, <1>5, <1>6 DEF ReceiverStep

LEMMA ShutdownImplements ==
  ASSUME IInv, Shutdown
  PROVE  [Fifo!FifoNext]_(Fifo!fifoVars)
<1>1. Marked(tail)'
  <2>1. CASE Marked(tail)
    BY <2>1 DEF Shutdown, Marked, OneLap
  <2>2. CASE ~Marked(tail)
    <3>1. tail' = Stamp(Len(log)) + MarkBit /\ Marked(Stamp(Len(log)) + MarkBit)
      BY <2>2, TailParts, StampParts, Numbers DEF Shutdown
    <3>. QED
      BY <3>1 DEF Marked, OneLap
  <2>. QED
    BY <2>1, <2>2
<1>2. Fifo!Close
  BY <1>1 DEF Shutdown, Fifo!Close, Pending, local, ghosts
<1>. QED
  BY <1>2 DEF Fifo!FifoNext

LEMMA InitImplements == Init => Fifo!FifoInit
<1> SUFFICES ASSUME Init PROVE Fifo!FifoInit
  OBVIOUS
<1>1. IInv
  BY InitIInv
<1>2. Pending = << >>
  <2>1. Len(Pending) = 0 /\ Pending \in Seq(Message)
    <3>1. Len(log) = 0 /\ taken = 0
      BY DEF Init
    <3>2. /\ Pending = Suffix(log, taken) /\ log \in Seq(Message) /\ taken \in 0 .. Len(log)
          /\ Len(Pending) = Len(log) - taken
      BY <1>1, PendingIs
    <3>3. Pending \in Seq(Message)
      BY <3>2, SuffixElements
    <3>. QED
      BY <3>1, <3>2, <3>3
  <2>. QED
    BY <2>1, EmptySeq
<1>3. ~Marked(tail)
  BY <1>1, InitialPositions, StampParts DEF Init
<1>. QED
  BY <1>2, <1>3 DEF Init, Fifo!FifoInit, Reply, Fifo!Reply, Fifo!Threads, Threads

\* array.rs's ring is a FIFO queue of at most cap messages that can be closed:
\* every run of ArrayChannel is, through the mapping of Fifo, a run of
\* BoundedFifo, for every capacity and every set of threads.
THEOREM Refinement == Spec => ImplementsFifo
<1>1. Init => Fifo!FifoInit
  BY InitImplements
<1>2. IInv /\ [Next]_vars => [Fifo!FifoNext]_(Fifo!fifoVars)
  <2> SUFFICES ASSUME IInv, [Next]_vars PROVE [Fifo!FifoNext]_(Fifo!fifoVars)
    OBVIOUS
  <2>1. CASE UNCHANGED vars
    BY <2>1, InvisibleStep DEF vars
  <2>2. CASE Next
    BY <2>2, SenderImplements, ReceiverImplements, ShutdownImplements DEF Next
  <2>. QED
    BY <2>1, <2>2
<1>. QED
  BY <1>1, <1>2, Invariance, PTL DEF Spec, ImplementsFifo, Fifo!FifoSpec
==============================================================================
