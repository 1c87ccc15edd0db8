-------------------------- MODULE ListChannelProofs --------------------------
(***************************************************************************)
(* The invariant of ListChannelInv is inductive, and what follows from it  *)
(* for every block size, every set of threads and every number of messages;*)
(* and the list implements BoundedFifo.                                    *)
(***************************************************************************)
EXTENDS ListChannelInv, FiniteSetTheorems, SequenceTheorems, WellFoundedInduction, TLAPS

------------------------------------------------------------------------------
(***************************************************************************)
(* Arithmetic of packed indices and of message numbers.                    *)
(***************************************************************************)
\* Euclidean division: existence and uniqueness of quotient and remainder.
LEMMA DivMod ==
  ASSUME NEW n \in Nat, NEW d \in Nat \ {0}
  PROVE  /\ n \div d \in Nat
         /\ n % d \in 0 .. d - 1
         /\ n = (n \div d) * d + (n % d)
  OBVIOUS

LEMMA DivModUnique ==
  ASSUME NEW d \in Nat \ {0}, NEW q \in Nat, NEW r \in 0 .. d - 1
  PROVE  /\ (q * d + r) \div d = q
         /\ (q * d + r) % d = r
  OBVIOUS

LEMMA MulMonotone ==
  ASSUME NEW a \in Nat, NEW b \in Nat, NEW d \in Nat, a < b
  PROVE  a * d + d <= b * d
  OBVIOUS

LEMMA MulNat == \A a, b \in Nat : a * b \in Nat
  OBVIOUS

\* An index is a position and the mark bit.
LEMMA Packed ==
  ASSUME NEW x \in Nat
  PROVE  /\ Position(x) \in Nat
         /\ Marked(x) => x = 2 * Position(x) + 1
         /\ ~Marked(x) => x = 2 * Position(x)
  BY DEF Position, Marked

LEMMA PackedUnique ==
  ASSUME NEW n \in Nat
  PROVE  /\ Position(2 * n) = n /\ ~Marked(2 * n)
         /\ Position(2 * n + 1) = n /\ Marked(2 * n + 1)
  BY DEF Position, Marked

\* A position is a lap and an offset.
LEMMA Parts ==
  ASSUME NEW x \in Nat
  PROVE  /\ LapOf(x) \in Nat
         /\ OffsetOf(x) \in 0 .. BlockCap
         /\ Position(x) = LapOf(x) * Lap + OffsetOf(x)
<1>1. Lap \in Nat \ {0} /\ BlockCap \in Nat /\ Lap - 1 = BlockCap
  BY ListAssumption DEF Lap
<1>2. Position(x) \in Nat
  BY Packed
<1>. QED
  BY <1>1, <1>2, DivMod DEF LapOf, OffsetOf

\* One position further on: within a block, or from its end to the next block.
LEMMA IndexNext ==
  ASSUME NEW x \in Nat
  PROVE  /\ x + One \in Nat
         /\ Position(x + One) = Position(x) + 1
         /\ Marked(x + One) <=> Marked(x)
         /\ OffsetOf(x) # BlockCap => /\ LapOf(x + One) = LapOf(x)
                                      /\ OffsetOf(x + One) = OffsetOf(x) + 1
         /\ OffsetOf(x) = BlockCap => /\ LapOf(x + One) = LapOf(x) + 1
                                      /\ OffsetOf(x + One) = 0
<1>1. /\ x + One \in Nat
      /\ Position(x + One) = Position(x) + 1
      /\ Marked(x + One) <=> Marked(x)
  BY DEF One, Position, Marked
<1>2. /\ Lap \in Nat \ {0} /\ BlockCap \in Nat /\ Lap = BlockCap + 1
      /\ LapOf(x) \in Nat /\ OffsetOf(x) \in 0 .. BlockCap
      /\ Position(x) = LapOf(x) * Lap + OffsetOf(x)
  BY ListAssumption, Parts DEF Lap
<1>3. LapOf(x) * Lap \in Nat /\ (LapOf(x) + 1) * Lap = LapOf(x) * Lap + Lap
  BY <1>2
<1>4. CASE OffsetOf(x) # BlockCap
  <2>1. OffsetOf(x) + 1 \in 0 .. Lap - 1
    BY <1>2, <1>4
  <2>2. Position(x + One) = LapOf(x) * Lap + (OffsetOf(x) + 1)
    BY <1>1, <1>2, <1>3
  <2>3. /\ (LapOf(x) * Lap + (OffsetOf(x) + 1)) \div Lap = LapOf(x)
        /\ (LapOf(x) * Lap + (OffsetOf(x) + 1)) % Lap = OffsetOf(x) + 1
    BY <1>2, <2>1, DivModUnique
  <2>. QED
    BY <1>1, <1>4, <2>2, <2>3 DEF LapOf, OffsetOf
<1>5. CASE OffsetOf(x) = BlockCap
  <2>1. PICK q \in Nat, r \in 0 .. Lap - 1 : q = LapOf(x) + 1 /\ r = 0
    BY <1>2
  <2>2. Position(x + One) = q * Lap + r
    BY <1>1, <1>2, <1>3, <1>5, <2>1
  <2>3. (q * Lap + r) \div Lap = q /\ (q * Lap + r) % Lap = r
    BY <1>2, DivModUnique
  <2>4. LapOf(x + One) = q /\ OffsetOf(x + One) = r
    BY <2>2, <2>3 DEF LapOf, OffsetOf
  <2>. QED
    BY <1>1, <1>5, <2>1, <2>4
<1>. QED
  BY <1>4, <1>5

\* Setting or clearing the mark does not move an index.
LEMMA IndexMark ==
  ASSUME NEW x \in Nat
  PROVE  /\ Mark(x) \in Nat /\ Unmark(x) \in Nat
         /\ Marked(Mark(x)) /\ ~Marked(Unmark(x))
         /\ x <= Mark(x) /\ Unmark(x) <= x /\ x <= Unmark(x) + 1
         /\ Position(Mark(x)) = Position(x) /\ Position(Unmark(x)) = Position(x)
         /\ LapOf(Mark(x)) = LapOf(x) /\ LapOf(Unmark(x)) = LapOf(x)
         /\ OffsetOf(Mark(x)) = OffsetOf(x) /\ OffsetOf(Unmark(x)) = OffsetOf(x)
<1>1. /\ Mark(x) \in Nat /\ Unmark(x) \in Nat
      /\ Marked(Mark(x)) /\ ~Marked(Unmark(x))
      /\ x <= Mark(x) /\ Unmark(x) <= x /\ x <= Unmark(x) + 1
      /\ Position(Mark(x)) = Position(x) /\ Position(Unmark(x)) = Position(x)
  <2>1. PICK n \in Nat : n = Position(x)
    BY Packed
  <2>2. CASE Marked(x)
    <3>1. x = 2 * n + 1
      BY <2>1, <2>2, Packed
    <3>2. Mark(x) = x /\ Unmark(x) = 2 * n
      BY <2>2, <2>1, <3>1 DEF Mark, Unmark
    <3>. QED
      BY <2>1, <2>2, <3>1, <3>2, PackedUnique
  <2>3. CASE ~Marked(x)
    <3>1. x = 2 * n
      BY <2>1, <2>3, Packed
    <3>2. Mark(x) = 2 * n + 1 /\ Unmark(x) = x
      BY <2>3, <2>1, <3>1 DEF Mark, Unmark
    <3>. QED
      BY <2>1, <2>3, <3>1, <3>2, PackedUnique
  <2>. QED
    BY <2>2, <2>3
<1>. QED
  BY <1>1 DEF LapOf, OffsetOf

\* Indices are ordered by position, then by the mark; positions by lap, then by
\* offset.
LEMMA IndexOrder ==
  ASSUME NEW x \in Nat, NEW y \in Nat
  PROVE  /\ x <= y => Position(x) <= Position(y)
         /\ Position(x) < Position(y) => x < y
         /\ Position(x) = Position(y) /\ (Marked(x) <=> Marked(y)) => x = y
         /\ Position(x) < Position(y) <=>
              LapOf(x) < LapOf(y) \/ (LapOf(x) = LapOf(y) /\ OffsetOf(x) < OffsetOf(y))
         /\ Position(x) = Position(y) <=> LapOf(x) = LapOf(y) /\ OffsetOf(x) = OffsetOf(y)
<1>1. /\ x <= y => Position(x) <= Position(y)
      /\ Position(x) < Position(y) => x < y
      /\ Position(x) = Position(y) /\ (Marked(x) <=> Marked(y)) => x = y
  BY Packed
<1> DEFINE a == LapOf(x)
           b == LapOf(y)
           i == OffsetOf(x)
           j == OffsetOf(y)
<1>2. /\ Lap \in Nat \ {0} /\ Lap = BlockCap + 1 /\ BlockCap \in Nat
      /\ a \in Nat /\ i \in 0 .. BlockCap /\ Position(x) = a * Lap + i
      /\ b \in Nat /\ j \in 0 .. BlockCap /\ Position(y) = b * Lap + j
  BY ListAssumption, Parts DEF Lap
<1>3. a * Lap \in Nat /\ b * Lap \in Nat
  BY <1>2, MulNat
<1>4. CASE a < b
  <2>1. a * Lap + Lap <= b * Lap
    BY <1>2, <1>4, MulMonotone
  <2>. QED
    BY <1>1, <1>2, <1>3, <1>4, <2>1
<1>5. CASE b < a
  <2>1. b * Lap + Lap <= a * Lap
    BY <1>2, <1>5, MulMonotone
  <2>. QED
    BY <1>1, <1>2, <1>3, <1>5, <2>1
<1>6. CASE a = b
  BY <1>1, <1>2, <1>3, <1>6
<1>. QED
  BY <1>2, <1>4, <1>5, <1>6

LEMMA ZeroIndex == LapOf(0) = 0 /\ OffsetOf(0) = 0 /\ ~Marked(0) /\ Position(0) = 0
<1>1. Position(0) = 0 /\ ~Marked(0)
  BY DEF Position, Marked
<1>2. Lap \in Nat \ {0}
  BY ListAssumption DEF Lap
<1>3. PICK q \in Nat, r \in 0 .. Lap - 1 : q = 0 /\ r = 0
  BY <1>2
<1>4. q * Lap + r = 0
  BY <1>2, <1>3
<1>5. (q * Lap + r) \div Lap = q /\ (q * Lap + r) % Lap = r
  BY <1>2, DivModUnique
<1>. QED
  BY <1>1, <1>3, <1>4, <1>5 DEF LapOf, OffsetOf

\* Message numbers follow the slots of a block, and then go on in the next.
LEMMA NumNext ==
  ASSUME NEW b \in Nat \ {0}, NEW i \in 0 .. BlockCap
  PROVE  /\ Num(b, i) \in Nat
         /\ Num(b, i + 1) = Num(b, i) + 1
         /\ Num(b + 1, 0) = Num(b, BlockCap)
<1>1. BlockCap \in Nat /\ b - 1 \in Nat
  BY ListAssumption
<1>2. (b - 1) * BlockCap \in Nat /\ ((b + 1) - 1) * BlockCap = (b - 1) * BlockCap + BlockCap
  BY <1>1
<1>. QED
  BY <1>1, <1>2 DEF Num

\* They are ordered by block, then by slot.
LEMMA NumOrder ==
  ASSUME NEW b \in Nat \ {0}, NEW i \in Offsets,
         NEW c \in Nat \ {0}, NEW j \in 0 .. BlockCap
  PROVE  Num(b, i) < Num(c, j) <=> b < c \/ (b = c /\ i < j)
<1>1. BlockCap \in Nat /\ b - 1 \in Nat /\ c - 1 \in Nat /\ i \in 0 .. BlockCap - 1
  BY ListAssumption DEF Offsets
<1>2. (b - 1) * BlockCap \in Nat /\ (c - 1) * BlockCap \in Nat
  BY <1>1, MulNat
<1>3. CASE b < c
  <2>1. (b - 1) * BlockCap + BlockCap <= (c - 1) * BlockCap
    BY <1>1, <1>3, MulMonotone
  <2>. QED
    BY <1>1, <1>2, <1>3, <2>1 DEF Num
<1>4. CASE c < b
  <2>1. (c - 1) * BlockCap + BlockCap <= (b - 1) * BlockCap
    BY <1>1, <1>4, MulMonotone
  <2>. QED
    BY <1>1, <1>2, <1>4, <2>1 DEF Num
<1>5. CASE b = c
  BY <1>1, <1>2, <1>5 DEF Num
<1>. QED
  BY <1>3, <1>4, <1>5

LEMMA NumUnique ==
  ASSUME NEW b \in Nat \ {0}, NEW i \in Offsets,
         NEW c \in Nat \ {0}, NEW j \in Offsets, Num(b, i) = Num(c, j)
  PROVE  b = c /\ i = j
<1>1. i \in 0 .. BlockCap /\ j \in 0 .. BlockCap /\ i \in Nat /\ j \in Nat
  BY ListAssumption DEF Offsets
<1>2. Num(b, i) \in Nat /\ Num(c, j) \in Nat
  BY <1>1, NumNext
<1>3. ~(Num(b, i) < Num(c, j)) /\ ~(Num(c, j) < Num(b, i))
  BY <1>2
<1>4. ~(b < c \/ (b = c /\ i < j)) /\ ~(c < b \/ (c = b /\ j < i))
  BY <1>1, <1>3, NumOrder
<1>. QED
  BY <1>1, <1>4

\* There are blocks enough for all messages.
LEMMA AllSendsNat == AllSends \in Nat
<1>1. Cardinality(Senders) \in Nat
  BY ListAssumption, FS_CardinalityType
<1>. QED
  BY <1>1, ListAssumption, MulNat DEF AllSends

LEMMA BlocksEnough ==
  ASSUME NEW b \in Nat \ {0}, Num(b, 0) <= AllSends
  PROVE  b \in Blocks
<1> DEFINE q == AllSends \div BlockCap
           r == AllSends % BlockCap
<1>1. BlockCap \in Nat \ {0} /\ AllSends \in Nat /\ b - 1 \in Nat
  BY ListAssumption, AllSendsNat
<1>2. q \in Nat /\ r \in 0 .. BlockCap - 1 /\ AllSends = q * BlockCap + r
  BY <1>1, DivMod
<1>3. q * BlockCap \in Nat /\ (b - 1) * BlockCap \in Nat
  BY <1>1, <1>2, MulNat
<1>4. ~(q < b - 1)
  <2>1. SUFFICES ASSUME q < b - 1 PROVE FALSE
    OBVIOUS
  <2>2. q * BlockCap + BlockCap <= (b - 1) * BlockCap
    BY <1>1, <1>2, <2>1, MulMonotone
  <2>. QED
    BY <1>1, <1>2, <1>3, <2>2 DEF Num
<1>5. b <= q + 1
  BY <1>1, <1>2, <1>4
<1>. QED
  BY <1>1, <1>2, <1>5 DEF Blocks

LEMMA BlocksNat ==
  /\ \A b \in Blocks : b \in Nat \ {0}
  /\ \A i \in Offsets : i \in Nat /\ i \in 0 .. BlockCap /\ i < BlockCap
  /\ BlockCap \in Nat \ {0}
  /\ BlockCap - 1 \in Offsets /\ 0 \in Offsets
<1>1. BlockCap \in Nat \ {0} /\ AllSends \in Nat
  BY ListAssumption, AllSendsNat
<1>2. (AllSends \div BlockCap) + 1 \in Nat
  BY <1>1, DivMod
<1>. QED
  BY <1>1, <1>2 DEF Blocks, Offsets

LEMMA BlocksUpTo == \E n \in Nat : Blocks = 1 .. n
<1>1. BlockCap \in Nat \ {0} /\ AllSends \in Nat
  BY ListAssumption, AllSendsNat
<1>2. (AllSends \div BlockCap) + 1 \in Nat
  BY <1>1, DivMod
<1>. QED
  BY <1>2 DEF Blocks

\* A log of distinct messages is no longer than there are messages.
LEMMA LogBounded ==
  ASSUME NEW l \in Seq(Message),
         \A i, j \in 1 .. Len(l) : l[i] = l[j] => i = j
  PROVE  Len(l) \in Nat /\ Len(l) <= AllSends
<1> DEFINE S == 1 .. Len(l)
           T == Senders \X (1 .. MaxSends)
           f == [i \in S |-> <<l[i].from, l[i].seq>>]
<1>1. Len(l) \in Nat
  OBVIOUS
<1>2. IsFiniteSet(S) /\ Cardinality(S) = Len(l)
  <2>1. /\ IsFiniteSet(1 .. Len(l))
        /\ Cardinality(1 .. Len(l)) = IF 1 > Len(l) THEN 0 ELSE Len(l) - 1 + 1
    BY <1>1, FS_Interval
  <2>. QED
    BY <2>1, <1>1
<1>3. IsFiniteSet(T) /\ Cardinality(T) = AllSends
  <2>1. IsFiniteSet(1 .. MaxSends) /\ Cardinality(1 .. MaxSends) = MaxSends
    BY ListAssumption, FS_Interval
  <2>2. IsFiniteSet(Senders)
    BY ListAssumption
  <2>. QED
    BY <2>1, <2>2, FS_Product DEF AllSends
<1>4. \A i \in S : l[i] \in Message /\ l[i] = [from |-> l[i].from, seq |-> l[i].seq]
  <2> SUFFICES ASSUME NEW i \in S
               PROVE  l[i] \in Message /\ l[i] = [from |-> l[i].from, seq |-> l[i].seq]
    OBVIOUS
  <2>1. l[i] \in Message
    BY ElementOfSeq
  <2>. QED
    BY <2>1 DEF Message
<1>5. f \in [S -> T]
  BY <1>4 DEF Message
<1>6. \A i, j \in S : f[i] = f[j] => i = j
  <2> SUFFICES ASSUME NEW i \in S, NEW j \in S, f[i] = f[j] PROVE i = j
    OBVIOUS
  <2>1. l[i].from = l[j].from /\ l[i].seq = l[j].seq
    OBVIOUS
  <2>2. l[i] = l[j]
    BY <1>4, <2>1
  <2>. QED
    BY <2>2
<1> HIDE DEF S, T, f
<1>7. f \in Injection(S, T)
  BY <1>5, <1>6 DEF Injection, IsInjective
<1>8. Cardinality(S) <= Cardinality(T)
  BY <1>3, <1>7, FS_Injection
<1>. QED
  BY <1>1, <1>2, <1>3, <1>8

------------------------------------------------------------------------------
(***************************************************************************)
(* What the invariant says of positions and of blocks.                     *)
(***************************************************************************)
LEMMA Numbers ==
  ASSUME IInv
  PROVE  /\ TailLap \in Nat /\ TailOffset \in 0 .. BlockCap /\ TailOffset \in Nat
         /\ HeadLap \in Nat /\ HeadOffset \in 0 .. BlockCap /\ HeadOffset \in Nat
         /\ headIndex \in Nat /\ tailIndex \in Nat
         /\ Len(log) \in Nat /\ Len(log) <= AllSends
         /\ taken \in Nat /\ taken <= Len(log)
         /\ BlockCap \in Nat \ {0} /\ BlockCap - 1 \in Offsets
         /\ TailLap + 1 \in Nat \ {0} /\ HeadLap + 1 \in Nat \ {0}
<1>1. /\ headIndex \in Nat /\ tailIndex \in Nat /\ taken <= Len(log) /\ taken \in Nat
      /\ log \in Seq(Message) /\ \A i, j \in 1 .. Len(log) : log[i] = log[j] => i = j
  BY DEF IInv, TypeOK, GhostTypes, LogDistinct
<1>2. Len(log) \in Nat /\ Len(log) <= AllSends
  BY <1>1, LogBounded
<1>3. TailLap \in Nat /\ TailOffset \in 0 .. BlockCap /\ HeadLap \in Nat /\ HeadOffset \in 0 .. BlockCap
  BY <1>1, Parts DEF TailLap, TailOffset, HeadLap, HeadOffset
<1>. QED
  BY <1>1, <1>2, <1>3, BlocksNat

\* The block tail stands in exists, and so does the next one when tail stands at
\* its end.
LEMMA TailBlocks ==
  ASSUME IInv
  PROVE  /\ TailLap + 1 \in Blocks
         /\ TailOffset = BlockCap => TailLap + 2 \in Blocks
<1>1. Len(log) = Num(TailLap + 1, TailOffset)
  BY DEF IInv, TailPlace
<1>2. Num(TailLap + 1, 0) <= Num(TailLap + 1, TailOffset)
  <2>1. (TailLap + 1 - 1) * BlockCap \in Nat
    BY Numbers, MulNat
  <2>. QED
    BY <2>1, Numbers DEF Num
<1>3. Num(TailLap + 1, 0) \in Nat /\ Num((TailLap + 1) + 1, 0) = Num(TailLap + 1, BlockCap)
  <2>1. PICK b \in Nat \ {0} : b = TailLap + 1
    BY Numbers
  <2>2. 0 \in 0 .. BlockCap
    BY BlocksNat
  <2>3. Num(b, 0) \in Nat /\ Num(b + 1, 0) = Num(b, BlockCap)
    BY <2>2, NumNext
  <2>. QED
    BY <2>1, <2>3
<1>4. TailLap + 1 \in Blocks
  BY <1>1, <1>2, <1>3, Numbers, AllSendsNat, BlocksEnough
<1>5. ASSUME TailOffset = BlockCap
      PROVE  TailLap + 2 \in Blocks
  <2>1. (TailLap + 1) + 1 \in Nat \ {0} /\ (TailLap + 1) + 1 = TailLap + 2
    BY Numbers
  <2>2. Num((TailLap + 1) + 1, 0) <= AllSends
    BY <1>1, <1>3, <1>5, Numbers
  <2>3. (TailLap + 1) + 1 \in Blocks
    BY <2>1, <2>2, BlocksEnough
  <2>. QED
    BY <2>1, <2>3
<1>. QED
  BY <1>4, <1>5

\* head is not ahead of tail.
LEMMA HeadBehindTail ==
  ASSUME IInv
  PROVE  HeadLap < TailLap \/ (HeadLap = TailLap /\ HeadOffset <= TailOffset)
<1>1. Position(headIndex) <= Position(tailIndex)
  BY DEF IInv, HeadPlace
<1>2. Position(headIndex) \in Nat /\ Position(tailIndex) \in Nat
  BY Numbers, Packed
<1>3. \/ Position(headIndex) < Position(tailIndex)
      \/ Position(headIndex) = Position(tailIndex)
  BY <1>1, <1>2
<1>. QED
  BY <1>3, Numbers, IndexOrder DEF HeadLap, TailLap, HeadOffset, TailOffset

\* One thread at a time moves tail on, and one moves head on.
LEMMA OneMover ==
  ASSUME IInv, NEW p \in Threads, NEW q \in Threads,
         (MovesTail(p) /\ MovesTail(q)) \/ (MovesHead(p) /\ MovesHead(q))
  PROVE  p = q
<1>1. WriterToken(p) /\ WriterToken(q) /\ ReaderToken(p) /\ ReaderToken(q) /\ OneSlotEach
  BY DEF IInv
<1>2. CASE MovesTail(p) /\ MovesTail(q)
  BY <1>1, <1>2 DEF WriterToken, Writing, MovesTail, OneSlotEach
<1>3. CASE MovesHead(p) /\ MovesHead(q)
  BY <1>1, <1>3 DEF ReaderToken, Reading, MovesHead, OneSlotEach
<1>. QED
  BY <1>2, <1>3

------------------------------------------------------------------------------
(***************************************************************************)
(* The invariant holds initially.                                          *)
(***************************************************************************)
LEMMA InitIInv == Init => IInv
<1> SUFFICES ASSUME Init PROVE IInv
  OBVIOUS
<1>1. /\ BlockCap \in Nat \ {0} /\ BlockCap - 1 \in Offsets /\ 0 \in 0 .. BlockCap
      /\ 1 \in Nat \ {0} /\ Len(log) = 0 /\ log = << >> /\ taken = 0
      /\ headIndex = 0 /\ tailIndex = 0 /\ headBlock = 0 /\ tailBlock = 0
  BY BlocksNat DEF Init
<1>2. LapOf(0) = 0 /\ OffsetOf(0) = 0 /\ ~Marked(0) /\ Position(0) = 0
  BY ZeroIndex
<1>3. Num(1, 0) = 0
  BY <1>1 DEF Num
<1>4. TailLap = 0 /\ TailOffset = 0 /\ HeadLap = 0 /\ HeadOffset = 0
  BY <1>1, <1>2 DEF TailLap, TailOffset, HeadLap, HeadOffset
<1>5. \A p \in Threads : /\ pc[p] = "idle" /\ reply[p] = Reply("none")
                         /\ index[p] = 0 /\ at[p] = 0
  BY DEF Init
<1>6. TypeOK
  <2>1. reply \in [Threads -> [kind : Fifo!ReplyKinds, msg : Message \union {NoMsg}]]
    BY DEF Init, Reply, Fifo!ReplyKinds, Fifo!InProgress
  <2>2. sent \in [Senders -> 0 .. MaxSends]
    BY ListAssumption DEF Init
  <2>3. \A p \in Threads : ~Uses(p)
    BY <1>5 DEF Uses
  <2>. QED
    BY <1>1, <2>1, <2>2, <2>3 DEF Init, TypeOK, SendLabels, RecvLabels
<1>7. GhostTypes
  BY DEF Init, GhostTypes
<1>8. TailPlace /\ HeadPlace /\ FirstBlockOnce
  <2>1. 0 + 1 = 1 /\ 0 # BlockCap
    BY <1>1
  <2>. QED
    BY <1>1, <1>2, <1>3, <1>4, <1>5, <2>1 DEF TailPlace, HeadPlace, FirstBlockOnce
<1>9. Links
  <2>1. \A b \in Blocks : next[b] = 0 /\ ~(b <= 0)
    BY BlocksNat DEF Init
  <2>. QED
    BY <2>1, <1>4 DEF Links
<1>10. ASSUME NEW p \in Threads
       PROVE  Role(p) /\ SendCopy(p) /\ RecvCopy(p) /\ WriterToken(p) /\ ReaderToken(p)
  <2>1. pc[p] = "idle" /\ reply[p].kind = "none"
    BY <1>5 DEF Reply
  <2>. QED
    BY <2>1 DEF Role, SendCopy, RecvCopy, WriterToken, ReaderToken, Sending, Receiving,
                Writing, Reading, SendLabels, RecvLabels, Fifo!InProgress
<1>11. OneSlotEach
  BY <1>5 DEF OneSlotEach, Writing, Reading
<1>12. \A b \in Blocks : \A i \in Offsets : State(b, i) = {} /\ Num(b, i) \in Nat
  <2>1. \A b \in Blocks : \A i \in Offsets : State(b, i) = {}
    BY DEF Init, State
  <2>. QED
    BY <2>1, BlocksNat, NumNext
<1>13. Slots
  BY <1>1, <1>12 DEF Slots
<1>14. Destruction
  <2>1. \A b \in Blocks : ~Begun(b)
    BY <1>1, <1>12 DEF Begun
  <2>2. \A p \in Threads : \A b \in Blocks : ~Destroys(p, b)
    BY <1>5 DEF Destroys, Destroying
  <2>3. freed = {}
    BY DEF Init
  <2>. QED
    BY <1>12, <2>1, <2>2, <2>3 DEF Destruction, DestructionOf, LeftAt
<1>15. LogDistinct /\ ReadsWhatWasSent
  <2>1. \A r \in Receivers : Len(got[r]) = 0
    BY DEF Init
  <2>. QED
    BY <1>1, <2>1 DEF LogDistinct, ReadsWhatWasSent
<1>. QED
  BY <1>6, <1>7, <1>8, <1>9, <1>10, <1>11, <1>13, <1>14, <1>15 DEF IInv

------------------------------------------------------------------------------
(***************************************************************************)
(* What a step leaves alone.                                               *)
(***************************************************************************)
\* Nobody begins or ends to move tail or head, or to install or link a block.
LEMMA PositionsSame ==
  ASSUME IInv, UNCHANGED <<positions, next, log, taken>>,
         \A q \in Threads : /\ MovesTail(q)' <=> MovesTail(q)
                            /\ MovesHead(q)' <=> MovesHead(q)
                            /\ pc'[q] = "first_head" <=> pc[q] = "first_head"
                            /\ pc'[q] = "link" <=> pc[q] = "link"
                            /\ pc[q] \in {"first_head", "link"} => block'[q] = block[q]
  PROVE  (TailPlace /\ HeadPlace /\ FirstBlockOnce /\ Links)'
<1>1. /\ TailLap' = TailLap /\ TailOffset' = TailOffset /\ HeadLap' = HeadLap /\ HeadOffset' = HeadOffset
      /\ headIndex' = headIndex /\ tailIndex' = tailIndex /\ headBlock' = headBlock
      /\ tailBlock' = tailBlock /\ next' = next /\ log' = log /\ taken' = taken
  BY DEF positions, TailLap, TailOffset, HeadLap, HeadOffset
<1>2. TailPlace /\ HeadPlace /\ FirstBlockOnce /\ Links
  BY DEF IInv
<1>3. TailPlace'
  BY <1>1, <1>2 DEF TailPlace
<1>4. HeadPlace'
  BY <1>1, <1>2 DEF HeadPlace
<1>5. FirstBlockOnce'
  BY <1>1, <1>2 DEF FirstBlockOnce
<1>6. Links'
  BY <1>1, <1>2 DEF Links
<1>. QED
  BY <1>3, <1>4, <1>5, <1>6

\* Nobody gets a slot to read, gives one back or begins to destroy a block.
LEMMA DestructionSame ==
  ASSUME IInv, UNCHANGED <<slotState, freed, taken>>,
         \A q \in Threads :
           /\ Reading(q)' <=> Reading(q)
           /\ Destroying(q)' <=> Destroying(q)
           /\ pc'[q] = "destroy_bit" <=> pc[q] = "destroy_bit"
           /\ Reading(q) \/ Destroying(q) => block'[q] = block[q] /\ offset'[q] = offset[q]
  PROVE  Destruction'
<1>1. Destruction
  BY DEF IInv
<1>2. \A b, i : State(b, i)' = State(b, i)
  BY DEF State
<1>3. \A q \in Threads : \A b, i :
        /\ ReadsSlot(q, b, i)' <=> ReadsSlot(q, b, i)
        /\ Destroys(q, b)' <=> Destroys(q, b)
  BY DEF ReadsSlot, Destroys
<1>4. \A b, d : /\ Begun(b)' <=> Begun(b)
                /\ LeftAt(b, d)' <=> LeftAt(b, d)
                /\ UpTo(b, d)' <=> UpTo(b, d)
  BY <1>2, <1>3 DEF Begun, LeftAt, UpTo
<1>5. \A q \in Threads : \A b : Destroys(q, b) => offset'[q] = offset[q]
  BY DEF Destroys
<1>. QED
  BY <1>1, <1>2, <1>3, <1>4, <1>5 DEF Destruction, DestructionOf

\* Nobody gets a slot, gives one back or begins to destroy a block.
LEMMA SlotsSame ==
  ASSUME IInv, UNCHANGED <<slotState, freed, log, taken>>,
         \/ slotMsg' = slotMsg
         \/ \A b \in Blocks : \A i \in Offsets : "WRITE" \in State(b, i) => slotMsg'[b][i] = slotMsg[b][i],
         \A q \in Threads :
           /\ Writing(q)' <=> Writing(q)
           /\ Reading(q)' <=> Reading(q)
           /\ Destroying(q)' <=> Destroying(q)
           /\ pc'[q] = "destroy_bit" <=> pc[q] = "destroy_bit"
           /\ Writing(q) \/ Reading(q) \/ Destroying(q) => block'[q] = block[q] /\ offset'[q] = offset[q]
  PROVE  (OneSlotEach /\ Slots /\ Destruction)'
<1>1. OneSlotEach /\ Slots /\ Destruction
  BY DEF IInv
<1>2. \A b, i : State(b, i)' = State(b, i)
  BY DEF State
<1>3. \A q \in Threads : \A b, i :
        /\ WritesSlot(q, b, i)' <=> WritesSlot(q, b, i)
        /\ ReadsSlot(q, b, i)' <=> ReadsSlot(q, b, i)
        /\ Destroys(q, b)' <=> Destroys(q, b)
  BY DEF WritesSlot, ReadsSlot, Destroys
<1>4. OneSlotEach'
  BY <1>1 DEF OneSlotEach
<1>5. Slots'
  BY <1>1, <1>2, <1>3 DEF Slots
<1>6. Destruction'
  BY DestructionSame
<1>. QED
  BY <1>4, <1>5, <1>6

\* q does not move.
ThreadSame(q) ==
  /\ pc'[q] = pc[q] /\ index'[q] = index[q] /\ newIndex'[q] = newIndex[q]
  /\ block'[q] = block[q] /\ offset'[q] = offset[q] /\ nextBlock'[q] = nextBlock[q]
  /\ at'[q] = at[q] /\ reply'[q] = reply[q]

\* A thread that does not move keeps what the invariant says of it as long as
\* the positions stay, and nobody writes into its slot.
LEMMA ThreadKept ==
  ASSUME IInv, NEW q \in Threads, ThreadSame(q), UNCHANGED <<positions, next, log, taken, sent>>,
         \A b \in Blocks : \A i \in Offsets :
           /\ WritesSlot(q, b, i) => /\ "WRITE" \in State(b, i)' => "WRITE" \in State(b, i)
                                     /\ slotMsg'[b][i] = slotMsg[b][i]
           /\ ReadsSlot(q, b, i) => /\ "READ" \in State(b, i)' => "READ" \in State(b, i)
                                    /\ "WRITE" \in State(b, i) => "WRITE" \in State(b, i)'
  PROVE  (Role(q) /\ SendCopy(q) /\ RecvCopy(q) /\ WriterToken(q) /\ ReaderToken(q))'
<1>1. Role(q) /\ SendCopy(q) /\ RecvCopy(q) /\ WriterToken(q) /\ ReaderToken(q)
  BY DEF IInv
<1>2. /\ TailLap' = TailLap /\ TailOffset' = TailOffset /\ HeadLap' = HeadLap /\ HeadOffset' = HeadOffset
      /\ headIndex' = headIndex /\ tailIndex' = tailIndex /\ headBlock' = headBlock
      /\ tailBlock' = tailBlock /\ next' = next /\ log' = log /\ taken' = taken /\ sent' = sent
  BY DEF positions, TailLap, TailOffset, HeadLap, HeadOffset
<1>3. /\ Writing(q)' <=> Writing(q)
      /\ Reading(q)' <=> Reading(q)
      /\ Sending(q)' <=> Sending(q)
      /\ Receiving(q)' <=> Receiving(q)
      /\ MovesTail(q)' <=> MovesTail(q)
      /\ MovesHead(q)' <=> MovesHead(q)
  BY DEF ThreadSame, Writing, Reading, Sending, Receiving, MovesTail, MovesHead
<1>4. Role(q)' /\ SendCopy(q)' /\ RecvCopy(q)'
  BY <1>1, <1>2, <1>3 DEF ThreadSame, Role, SendCopy, RecvCopy
<1>5. WriterToken(q)'
  <2> SUFFICES ASSUME Writing(q) PROVE WriterToken(q)'
    BY <1>3 DEF WriterToken
  <2>1. block[q] \in Blocks /\ offset[q] \in Offsets /\ WritesSlot(q, block[q], offset[q])
    BY <1>1 DEF WriterToken, WritesSlot
  <2>2. /\ "WRITE" \in State(block[q], offset[q])' => "WRITE" \in State(block[q], offset[q])
        /\ slotMsg'[block[q]][offset[q]] = slotMsg[block[q]][offset[q]]
    <3>1. PICK b \in Blocks, i \in Offsets : b = block[q] /\ i = offset[q]
      BY <2>1
    <3>2. /\ "WRITE" \in State(b, i)' => "WRITE" \in State(b, i)
          /\ slotMsg'[b][i] = slotMsg[b][i]
      BY <2>1, <3>1
    <3>. QED
      BY <3>1, <3>2 DEF ThreadSame, State
  <2>. QED
    BY <1>1, <1>2, <1>3, <2>1, <2>2 DEF WriterToken, ThreadSame, State
<1>6. ReaderToken(q)'
  <2> SUFFICES ASSUME Reading(q) PROVE ReaderToken(q)'
    BY <1>3 DEF ReaderToken
  <2>1. block[q] \in Blocks /\ offset[q] \in Offsets /\ ReadsSlot(q, block[q], offset[q])
    BY <1>1 DEF ReaderToken, ReadsSlot
  <2>2. /\ "READ" \in State(block[q], offset[q])' => "READ" \in State(block[q], offset[q])
        /\ "WRITE" \in State(block[q], offset[q]) => "WRITE" \in State(block[q], offset[q])'
    <3>1. PICK b \in Blocks, i \in Offsets : b = block[q] /\ i = offset[q]
      BY <2>1
    <3>2. /\ "READ" \in State(b, i)' => "READ" \in State(b, i)
          /\ "WRITE" \in State(b, i) => "WRITE" \in State(b, i)'
      BY <2>1, <3>1
    <3>. QED
      BY <3>1, <3>2 DEF ThreadSame, State
  <2>. QED
    BY <1>1, <1>2, <1>3, <2>1, <2>2 DEF WriterToken, ReaderToken, ThreadSame, State
<1>. QED
  BY <1>4, <1>5, <1>6

\* Labels at which a thread has something the others count on.
Involved(p) == Writing(p) \/ Reading(p) \/ Destroying(p) \/ pc[p] = "first_head"

LocalTypes ==
  /\ pc \in [Threads -> {"idle"} \union SendLabels \union RecvLabels]
  /\ index \in [Threads -> Nat] /\ newIndex \in [Threads -> Nat]
  /\ block \in [Threads -> {0} \union Blocks]
  /\ offset \in [Threads -> 0 .. BlockCap]
  /\ reply \in [Threads -> [kind : Fifo!ReplyKinds, msg : Message \union {NoMsg}]]

LEMMA LocalTypesHold == IInv => LocalTypes
  BY DEF IInv, TypeOK, LocalTypes

\* A step of a thread that nobody counts on, before or after, and that changes
\* nothing shared disturbs only what the invariant says of that thread.
LEMMA LocalStep ==
  ASSUME IInv, NEW p \in Threads, ~Involved(p), ~Involved(p)',
         UNCHANGED <<positions, blocks, nextBlock, sent, log, taken, got, at>>,
         LocalTypes', \A q \in Threads : q # p => ThreadSame(q),
         Role(p)', SendCopy(p)', RecvCopy(p)'
  PROVE  IInv'
<1>1. \A q \in Threads : q # p =>
        /\ pc'[q] = pc[q] /\ block'[q] = block[q] /\ offset'[q] = offset[q]
  BY DEF ThreadSame
<1>2. \A q \in Threads :
        /\ Writing(q)' <=> Writing(q)
        /\ Reading(q)' <=> Reading(q)
        /\ Destroying(q)' <=> Destroying(q)
        /\ MovesTail(q)' <=> MovesTail(q)
        /\ MovesHead(q)' <=> MovesHead(q)
        /\ pc'[q] = "first_head" <=> pc[q] = "first_head"
        /\ pc'[q] = "link" <=> pc[q] = "link"
        /\ pc'[q] = "destroy_bit" <=> pc[q] = "destroy_bit"
        /\ pc'[q] = "peek" <=> pc[q] = "peek"
        /\ Uses(q)' <=> Uses(q)
  <2> SUFFICES ASSUME NEW q \in Threads, q = p
               PROVE  /\ Writing(q)' <=> Writing(q)
                      /\ Reading(q)' <=> Reading(q)
                      /\ Destroying(q)' <=> Destroying(q)
                      /\ MovesTail(q)' <=> MovesTail(q)
                      /\ MovesHead(q)' <=> MovesHead(q)
                      /\ pc'[q] = "first_head" <=> pc[q] = "first_head"
                      /\ pc'[q] = "link" <=> pc[q] = "link"
                      /\ pc'[q] = "destroy_bit" <=> pc[q] = "destroy_bit"
                      /\ pc'[q] = "peek" <=> pc[q] = "peek"
                      /\ Uses(q)' <=> Uses(q)
    BY <1>1 DEF Writing, Reading, Destroying, MovesTail, MovesHead, Uses
  <2>. QED
    BY DEF Involved, Writing, Reading, Destroying, MovesTail, MovesHead, Uses
<1>3. \A q \in Threads :
        Involved(q) => block'[q] = block[q] /\ offset'[q] = offset[q]
  BY <1>1
<1>4. UNCHANGED <<headIndex, headBlock, tailIndex, tailBlock, next, slotState, slotMsg, freed>>
  BY DEF positions, blocks
<1>5. TypeOK'
  <2>1. TypeOK
    BY DEF IInv
  <2>2. ASSUME NEW q \in Threads, Uses(q)'
        PROVE  offset'[q] \in Offsets /\ block'[q] \in Blocks
    <3>1. Uses(q) /\ Involved(q)
      BY <1>2, <2>2 DEF Involved, Uses, Writing, Reading, Destroying
    <3>. QED
      BY <1>3, <2>1, <3>1 DEF TypeOK
  <2>. QED
    BY <1>4, <2>1, <2>2 DEF TypeOK, LocalTypes
<1>6. GhostTypes' /\ LogDistinct' /\ ReadsWhatWasSent'
  BY DEF IInv, GhostTypes, LogDistinct, ReadsWhatWasSent
<1>7. (TailPlace /\ HeadPlace /\ FirstBlockOnce /\ Links)'
  <2>1. \A q \in Threads : pc[q] \in {"first_head", "link"} => block'[q] = block[q]
    BY <1>3 DEF Involved, Writing
  <2>2. UNCHANGED <<positions, next, log, taken>>
    BY <1>4
  <2>. QED
    BY <1>2, <2>1, <2>2, PositionsSame
<1>8. (OneSlotEach /\ Slots /\ Destruction)'
  <2>1. \A q \in Threads : Writing(q) \/ Reading(q) \/ Destroying(q) =>
                             block'[q] = block[q] /\ offset'[q] = offset[q]
    BY <1>3 DEF Involved
  <2>2. UNCHANGED <<slotState, slotMsg, freed, log, taken>>
    BY <1>4
  <2>. QED
    BY <1>2, <2>1, <2>2, SlotsSame
<1>9. ASSUME NEW q \in Threads
      PROVE  (Role(q) /\ SendCopy(q) /\ RecvCopy(q) /\ WriterToken(q) /\ ReaderToken(q))'
  <2>1. CASE q = p
    BY <2>1, <1>2 DEF WriterToken, ReaderToken, Involved
  <2>2. CASE q # p
    <3>1. \A b \in Blocks : \A i \in Offsets : State(b, i)' = State(b, i) /\ slotMsg'[b][i] = slotMsg[b][i]
      BY <1>4 DEF State
    <3>2. UNCHANGED <<positions, next, log, taken, sent>> /\ ThreadSame(q)
      BY <1>4, <2>2
    <3>. QED
      BY <3>1, <3>2, ThreadKept
  <2>. QED
    BY <2>1, <2>2
<1>. QED
  BY <1>5, <1>6, <1>7, <1>8, <1>9 DEF IInv

\* The replies of the ghost reply.
LEMMA RepliesTyped ==
  /\ \A k \in Fifo!ReplyKinds : Reply(k) \in [kind : Fifo!ReplyKinds, msg : Message \union {NoMsg}]
  /\ \A m \in Message : Received(m) \in [kind : Fifo!ReplyKinds, msg : Message \union {NoMsg}]
  BY DEF Reply, Received, Fifo!ReplyKinds
------------------------------------------------------------------------------
(***************************************************************************)
(* Sending, before a slot is reserved.                                     *)
(***************************************************************************)
LEMMA SendStartIInv ==
  ASSUME IInv, NEW p \in Senders, SendStart(p)
  PROVE  IInv'
<1> USE DEF SendStart, Goto, Keep, Answer
<1>1. p \in Threads /\ LocalTypes /\ tailIndex \in Nat
  BY LocalTypesHold, Numbers DEF Threads
<1>2. UNCHANGED <<positions, blocks, nextBlock, sent, log, taken, got, at>>
  OBVIOUS
<1>3. \A q \in Threads : q # p => ThreadSame(q)
  BY <1>1 DEF ThreadSame, LocalTypes
<1>4. pc'[p] = "send_block" /\ index'[p] = tailIndex
      /\ reply'[p] = Reply(IF Marked(tailIndex) THEN "late" ELSE "sending")
  BY <1>1 DEF LocalTypes
<1>5. LocalTypes'
  <2>1. Reply(IF Marked(tailIndex) THEN "late" ELSE "sending")
          \in [kind : Fifo!ReplyKinds, msg : Message \union {NoMsg}]
    BY RepliesTyped DEF Fifo!ReplyKinds, Fifo!InProgress
  <2>. QED
    BY <1>1, <2>1 DEF LocalTypes, SendLabels
<1>6. ~Involved(p) /\ ~Involved(p)'
  BY <1>4 DEF Involved, Writing, Reading, Destroying
<1>7. Role(p)' /\ SendCopy(p)' /\ RecvCopy(p)'
  BY <1>1, <1>2, <1>4 DEF Role, SendCopy, RecvCopy, Sending, Receiving, SendLabels, RecvLabels, positions
<1>. QED
  BY <1>1, <1>2, <1>3, <1>5, <1>6, <1>7, LocalStep

\* The load of tail.index, again.
LEMMA SendLoadIInv ==
  ASSUME IInv, NEW p \in Senders, SendReload(p) \/ SendRetry(p)
  PROVE  IInv'
<1> USE DEF SendReload, SendRetry, Goto, Keep
<1>1. p \in Threads /\ LocalTypes /\ tailIndex \in Nat
  BY LocalTypesHold, Numbers DEF Threads
<1>2. UNCHANGED <<positions, blocks, nextBlock, sent, log, taken, got, at>> /\ reply' = reply
  BY DEF ghosts
<1>3. \A q \in Threads : q # p => ThreadSame(q)
  BY <1>1, <1>2 DEF ThreadSame, LocalTypes
<1>4. pc'[p] = "send_block" /\ index'[p] = tailIndex /\ pc[p] \in {"send_index", "send_cas"}
  BY <1>1 DEF LocalTypes
<1>5. LocalTypes'
  BY <1>1, <1>2 DEF LocalTypes, SendLabels
<1>6. ~Involved(p) /\ ~Involved(p)'
  BY <1>4 DEF Involved, Writing, Reading, Destroying
<1>7. Role(p)' /\ SendCopy(p)' /\ RecvCopy(p)'
  <2>1. Role(p)
    BY <1>1 DEF IInv
  <2>2. Sending(p) /\ reply[p] = Reply("sending")
    BY <1>4, <2>1 DEF Sending, Role
  <2>. QED
    BY <1>1, <1>2, <1>4, <2>1, <2>2
       DEF Role, SendCopy, RecvCopy, Sending, Receiving, SendLabels, RecvLabels, positions
<1>. QED
  BY <1>1, <1>2, <1>3, <1>5, <1>6, <1>7, LocalStep

LEMMA SendBlockIInv ==
  ASSUME IInv, NEW p \in Senders, SendBlock(p)
  PROVE  IInv'
<1>1. p \in Threads /\ LocalTypes /\ tailIndex \in Nat /\ tailBlock \in {0} \union Blocks
      /\ pc[p] = "send_block" /\ index[p] \in Nat
  BY LocalTypesHold, Numbers DEF Threads, SendBlock, Goto, LocalTypes, IInv, TypeOK
<1>2. UNCHANGED <<positions, blocks, index, newIndex, nextBlock, sent, log, taken, got, at>>
  BY DEF SendBlock, ghosts
<1>3. OffsetOf(index[p]) \in 0 .. BlockCap
  BY <1>1, Parts
<1>4. block'[p] = tailBlock /\ offset'[p] = OffsetOf(index[p])
  BY <1>1 DEF SendBlock, Keep, LocalTypes
<1>5. Role(p) /\ SendCopy(p)
  BY <1>1 DEF IInv
<1>6. CASE Marked(index[p])
  <2> USE DEF SendBlock, Goto, Keep, Answer
  <2>1. \A q \in Threads : q # p => ThreadSame(q)
    BY <1>1, <1>2, <1>6 DEF ThreadSame, LocalTypes
  <2>2. pc'[p] = "idle" /\ reply'[p] = Reply("closed")
    BY <1>1, <1>6 DEF LocalTypes
  <2>3. LocalTypes'
    <3>1. Reply("closed") \in [kind : Fifo!ReplyKinds, msg : Message \union {NoMsg}]
      BY RepliesTyped DEF Fifo!ReplyKinds
    <3>. QED
      BY <1>1, <1>2, <1>3, <1>6, <3>1 DEF LocalTypes, SendLabels
  <2>4. ~Involved(p) /\ ~Involved(p)'
    BY <1>1, <2>2 DEF Involved, Writing, Reading, Destroying
  <2>5. Role(p)' /\ SendCopy(p)' /\ RecvCopy(p)'
    BY <2>2 DEF Role, SendCopy, RecvCopy, Sending, Receiving, SendLabels, RecvLabels, Reply,
                Fifo!InProgress
  <2>. QED
    BY <1>1, <1>2, <2>1, <2>3, <2>4, <2>5, LocalStep
<1>7. CASE ~Marked(index[p])
  <2> DEFINE l == CASE OffsetOf(index[p]) = BlockCap -> "send_index"
                    [] OffsetOf(index[p]) # BlockCap /\ tailBlock = 0 -> "first_block"
                    [] OTHER -> "send_cas"
  <2>1. pc' = [pc EXCEPT ![p] = l] /\ reply' = reply
    BY <1>7 DEF SendBlock, Goto
  <2>2. /\ l \in {"send_index", "first_block", "send_cas"}
        /\ l # "send_index" => OffsetOf(index[p]) # BlockCap
        /\ l = "send_cas" => tailBlock # 0
    OBVIOUS
  <2> HIDE DEF l
  <2>3. pc'[p] = l /\ reply'[p] = reply[p]
    BY <1>1, <2>1 DEF LocalTypes
  <2>4. \A q \in Threads : q # p => ThreadSame(q)
    BY <1>1, <1>2, <2>1 DEF ThreadSame, LocalTypes, SendBlock, Keep
  <2>5. LocalTypes'
    BY <1>1, <1>2, <1>3, <2>1, <2>2 DEF LocalTypes, SendLabels, SendBlock, Keep
  <2>6. ~Involved(p) /\ ~Involved(p)'
    BY <1>1, <2>2, <2>3 DEF Involved, Writing, Reading, Destroying
  <2>7. Role(p)'
    BY <1>1, <1>2, <1>5, <1>7, <2>2, <2>3 DEF Role, Sending, Receiving, SendLabels, RecvLabels
  <2>8. SendCopy(p)' /\ RecvCopy(p)'
    BY <1>1, <1>2, <1>4, <1>5, <1>7, <2>2, <2>3 DEF SendCopy, RecvCopy, Sending, Receiving, positions
  <2>. QED
    BY <1>1, <1>2, <2>4, <2>5, <2>6, <2>7, <2>8, LocalStep
<1>. QED
  BY <1>6, <1>7

------------------------------------------------------------------------------
(***************************************************************************)
(* Receiving, before a slot is reserved.                                   *)
(***************************************************************************)
LEMMA RecvStartIInv ==
  ASSUME IInv, NEW p \in Receivers, RecvStart(p)
  PROVE  IInv'
<1> USE DEF RecvStart, Goto, Keep, Answer
<1>1. p \in Threads /\ LocalTypes /\ headIndex \in Nat
  BY LocalTypesHold, Numbers DEF Threads
<1>2. UNCHANGED <<positions, blocks, nextBlock, sent, log, taken, got, at>>
  OBVIOUS
<1>3. \A q \in Threads : q # p => ThreadSame(q)
  BY <1>1 DEF ThreadSame, LocalTypes
<1>4. pc'[p] = "recv_block" /\ index'[p] = headIndex /\ reply'[p] = Reply("receiving") /\ pc[p] = "idle"
  BY <1>1 DEF LocalTypes
<1>5. LocalTypes'
  <2>1. Reply("receiving") \in [kind : Fifo!ReplyKinds, msg : Message \union {NoMsg}]
    BY RepliesTyped DEF Fifo!ReplyKinds, Fifo!InProgress
  <2>. QED
    BY <1>1, <2>1 DEF LocalTypes, RecvLabels
<1>6. ~Involved(p) /\ ~Involved(p)'
  BY <1>4 DEF Involved, Writing, Reading, Destroying
<1>7. Role(p)' /\ SendCopy(p)' /\ RecvCopy(p)'
  BY <1>1, <1>2, <1>4 DEF Role, SendCopy, RecvCopy, Sending, Receiving, SendLabels, RecvLabels, positions
<1>. QED
  BY <1>1, <1>2, <1>3, <1>5, <1>6, <1>7, LocalStep

\* The load of head.index, again.
LEMMA RecvLoadIInv ==
  ASSUME IInv, NEW p \in Receivers, RecvReload(p) \/ RecvRetry(p)
  PROVE  IInv'
<1> USE DEF RecvReload, RecvRetry, Goto, Keep
<1>1. p \in Threads /\ LocalTypes /\ headIndex \in Nat
  BY LocalTypesHold, Numbers DEF Threads
<1>2. UNCHANGED <<positions, blocks, nextBlock, sent, log, taken, got, at>> /\ reply' = reply
  BY DEF ghosts
<1>3. \A q \in Threads : q # p => ThreadSame(q)
  BY <1>1, <1>2 DEF ThreadSame, LocalTypes
<1>4. pc'[p] = "recv_block" /\ index'[p] = headIndex /\ pc[p] \in {"recv_index", "recv_cas"}
  BY <1>1 DEF LocalTypes
<1>5. LocalTypes'
  BY <1>1, <1>2 DEF LocalTypes, RecvLabels
<1>6. ~Involved(p) /\ ~Involved(p)'
  BY <1>4 DEF Involved, Writing, Reading, Destroying
<1>7. Role(p)' /\ SendCopy(p)' /\ RecvCopy(p)'
  <2>1. Role(p)
    BY <1>1 DEF IInv
  <2>2. Receiving(p) /\ reply[p] = Reply("receiving")
    BY <1>4, <2>1 DEF Receiving, Role
  <2>. QED
    BY <1>1, <1>2, <1>4, <2>1, <2>2
       DEF Role, SendCopy, RecvCopy, Sending, Receiving, SendLabels, RecvLabels, positions
<1>. QED
  BY <1>1, <1>2, <1>3, <1>5, <1>6, <1>7, LocalStep

LEMMA RecvBlockIInv ==
  ASSUME IInv, NEW p \in Receivers, RecvBlock(p)
  PROVE  IInv'
<1>1. p \in Threads /\ LocalTypes /\ headIndex \in Nat /\ headBlock \in {0} \union Blocks
      /\ pc[p] = "recv_block" /\ index[p] \in Nat /\ tailIndex \in Nat
  BY LocalTypesHold, Numbers DEF Threads, RecvBlock, Goto, LocalTypes, IInv, TypeOK
<1>2. UNCHANGED <<positions, blocks, index, nextBlock, sent, log, taken, got, at>> /\ reply' = reply
  BY DEF RecvBlock, ghosts
<1>3. /\ OffsetOf(index[p]) \in 0 .. BlockCap /\ index[p] + One \in Nat
      /\ Marked(index[p] + One) <=> Marked(index[p])
  BY <1>1, Parts, IndexNext
<1>4. block'[p] = headBlock /\ offset'[p] = OffsetOf(index[p]) /\ newIndex'[p] = index[p] + One
  BY <1>1 DEF RecvBlock, Keep, LocalTypes
<1>5. Role(p) /\ RecvCopy(p) /\ index[p] <= headIndex /\ HeadPlace
  BY <1>1 DEF IInv, RecvCopy, Receiving
<1> DEFINE l == CASE OffsetOf(index[p]) = BlockCap -> "recv_index"
                  [] OffsetOf(index[p]) # BlockCap /\ ~Marked(index[p]) -> "recv_tail"
                  [] OffsetOf(index[p]) # BlockCap /\ Marked(index[p]) ->
                       IF headBlock = 0 THEN "recv_index" ELSE "recv_cas"
<1>6. pc' = [pc EXCEPT ![p] = l]
  BY DEF RecvBlock, Goto
<1>7. /\ l \in {"recv_index", "recv_tail", "recv_cas"}
      /\ l # "recv_index" => OffsetOf(index[p]) # BlockCap
      /\ l = "recv_tail" => ~Marked(index[p])
      /\ l = "recv_cas" => headBlock # 0 /\ Marked(index[p])
  OBVIOUS
<1> HIDE DEF l
<1>8. pc'[p] = l /\ reply'[p] = reply[p] /\ index'[p] = index[p]
  BY <1>1, <1>2, <1>6 DEF LocalTypes
<1>9. \A q \in Threads : q # p => ThreadSame(q)
  BY <1>1, <1>2, <1>6 DEF ThreadSame, LocalTypes, RecvBlock, Keep
<1>10. LocalTypes'
  BY <1>1, <1>2, <1>3, <1>6, <1>7 DEF LocalTypes, RecvLabels, RecvBlock, Keep
<1>11. ~Involved(p) /\ ~Involved(p)'
  BY <1>1, <1>7, <1>8 DEF Involved, Writing, Reading, Destroying
<1>12. Role(p)'
  BY <1>1, <1>2, <1>5, <1>7, <1>8 DEF Role, Sending, Receiving, SendLabels, RecvLabels
<1>13. SendCopy(p)'
  BY <1>7, <1>8 DEF SendCopy, Sending
<1>14. RecvCopy(p)'
  <2>1. ASSUME l = "recv_cas", index[p] = headIndex
        PROVE  Position(headIndex) < Position(tailIndex) /\ HeadLap < TailLap
    <3>1. HeadLap < TailLap
      BY <1>5, <1>7, <2>1 DEF HeadPlace, HeadOffset
    <3>. QED
      BY <1>1, <3>1, IndexOrder DEF HeadLap, TailLap
  <2>. QED
    BY <1>1, <1>2, <1>4, <1>5, <1>7, <1>8, <2>1
       DEF RecvCopy, Receiving, positions, HeadLap, TailLap
<1>. QED
  BY <1>1, <1>2, <1>9, <1>10, <1>11, <1>12, <1>13, <1>14, LocalStep

LEMMA RecvTailIInv ==
  ASSUME IInv, NEW p \in Receivers, RecvTail(p)
  PROVE  IInv'
<1>1. p \in Threads /\ LocalTypes /\ headIndex \in Nat /\ headBlock \in {0} \union Blocks
      /\ pc[p] = "recv_tail" /\ index[p] \in Nat /\ tailIndex \in Nat
  BY LocalTypesHold, Numbers DEF Threads, RecvTail, Goto, LocalTypes, IInv, TypeOK
<1>2. UNCHANGED <<positions, blocks, index, block, offset, nextBlock, sent, log, taken, got, at>>
  BY DEF RecvTail, ghosts, local
<1>3. Role(p) /\ RecvCopy(p) /\ index[p] <= headIndex /\ HeadPlace /\ reply[p] = Reply("receiving")
  BY <1>1 DEF IInv, RecvCopy, Receiving, Role
<1>4. CASE Position(index[p]) = Position(tailIndex)
  <2> USE DEF RecvTail, Goto, Answer, local
  <2> DEFINE k == IF Marked(tailIndex) THEN "disconnected" ELSE "empty"
  <2>1. \A q \in Threads : q # p => ThreadSame(q)
    BY <1>1, <1>2, <1>4 DEF ThreadSame, LocalTypes
  <2>2. pc'[p] = "idle" /\ reply'[p] = Reply(k)
    BY <1>1, <1>4 DEF LocalTypes
  <2>3. k \in {"disconnected", "empty"}
    OBVIOUS
  <2>4. LocalTypes'
    <3>1. Reply(k) \in [kind : Fifo!ReplyKinds, msg : Message \union {NoMsg}]
      BY RepliesTyped DEF Fifo!ReplyKinds
    <3>2. /\ pc' = [pc EXCEPT ![p] = "idle"] /\ reply' = [reply EXCEPT ![p] = Reply(k)]
          /\ newIndex' = newIndex
      BY <1>1, <1>4
    <3> HIDE DEF k
    <3>. QED
      BY <1>1, <1>2, <3>1, <3>2 DEF LocalTypes, RecvLabels
  <2>5. ~Involved(p) /\ ~Involved(p)'
    BY <1>1, <2>2 DEF Involved, Writing, Reading, Destroying
  <2>6. Role(p)' /\ SendCopy(p)' /\ RecvCopy(p)'
    BY <2>2, <2>3 DEF Role, SendCopy, RecvCopy, Sending, Receiving, SendLabels, RecvLabels, Reply,
                Fifo!InProgress
  <2>. QED
    BY <1>1, <1>2, <2>1, <2>4, <2>5, <2>6, LocalStep
<1>5. CASE Position(index[p]) # Position(tailIndex)
  <2> DEFINE l == IF block[p] = 0 THEN "recv_index" ELSE "recv_cas"
             n == IF LapOf(index[p]) # LapOf(tailIndex) THEN Mark(newIndex[p]) ELSE newIndex[p]
  <2>1. pc' = [pc EXCEPT ![p] = l] /\ reply' = reply
    BY <1>5 DEF RecvTail, Goto, ghosts
  <2>2. l \in {"recv_index", "recv_cas"} /\ (l = "recv_cas" => block[p] # 0)
    OBVIOUS
  <2>3. newIndex' = [newIndex EXCEPT ![p] = n]
    BY <1>1, <1>5 DEF RecvTail, Keep, LocalTypes
  <2>4. /\ ~Marked(index[p]) /\ newIndex[p] = index[p] + One /\ index[p] + One \in Nat
        /\ ~Marked(index[p] + One)
    BY <1>1, <1>3, IndexNext DEF RecvCopy
  <2>5. /\ n \in Nat /\ n \in {index[p] + One, Mark(index[p] + One)}
        /\ Marked(n) => LapOf(index[p]) # LapOf(tailIndex)
    BY <2>4, IndexMark
  <2> HIDE DEF l, n
  <2>6. pc'[p] = l /\ newIndex'[p] = n /\ reply'[p] = reply[p]
    BY <1>1, <2>1, <2>3 DEF LocalTypes
  <2>7. \A q \in Threads : q # p => ThreadSame(q)
    BY <1>1, <1>2, <2>1, <2>3 DEF ThreadSame, LocalTypes
  <2>8. LocalTypes'
    BY <1>1, <1>2, <2>1, <2>2, <2>3, <2>5 DEF LocalTypes, RecvLabels
  <2>9. ~Involved(p) /\ ~Involved(p)'
    BY <1>1, <2>2, <2>6 DEF Involved, Writing, Reading, Destroying
  <2>10. Role(p)' /\ SendCopy(p)'
    BY <1>3, <2>2, <2>6 DEF Role, Sending, Receiving, SendLabels, RecvLabels, SendCopy
  <2>11. RecvCopy(p)'
    <3>1. ASSUME index[p] = headIndex
          PROVE  /\ Position(headIndex) < Position(tailIndex)
                 /\ Marked(n) => HeadLap < TailLap
      <4>1. Position(headIndex) < Position(tailIndex)
        <5>1. Position(headIndex) \in Nat /\ Position(tailIndex) \in Nat
          BY <1>1, Packed
        <5>. QED
          BY <1>3, <1>5, <3>1, <5>1 DEF HeadPlace
      <4>2. HeadLap < TailLap \/ HeadLap = TailLap
        BY HeadBehindTail
      <4>. QED
        BY <2>5, <3>1, <4>1, <4>2 DEF HeadLap, TailLap
    <3>. QED
      BY <1>1, <1>2, <1>3, <2>2, <2>5, <2>6, <3>1
         DEF RecvCopy, Receiving, positions, HeadLap, TailLap
  <2>. QED
    BY <1>1, <1>2, <2>7, <2>8, <2>9, <2>10, <2>11, LocalStep
<1>. QED
  BY <1>4, <1>5

------------------------------------------------------------------------------
(***************************************************************************)
(* What a thread keeps when another one takes a step.                      *)
(***************************************************************************)
LEMMA RoleKept ==
  ASSUME IInv, NEW q \in Threads, ThreadSame(q), q \in Senders => sent'[q] = sent[q]
  PROVE  Role(q)'
<1>1. Role(q)
  BY DEF IInv
<1>2. /\ Sending(q)' <=> Sending(q)
      /\ Receiving(q)' <=> Receiving(q)
  BY DEF ThreadSame, Sending, Receiving
<1>3. Sending(q) => q \in Senders
  BY <1>1 DEF Role, Sending, SendLabels
<1>. QED
  BY <1>1, <1>2, <1>3 DEF Role, ThreadSame

\* tail.index grows; while it stays, tail.block does, unless tail is where no
\* copy that counts can be.
LEMMA SendCopyKept ==
  ASSUME IInv, NEW q \in Threads, ThreadSame(q),
         tailIndex' \in Nat, tailIndex <= tailIndex', Marked(tailIndex) => Marked(tailIndex'),
         \/ tailIndex < tailIndex'
         \/ tailIndex' = tailIndex /\ tailBlock' = tailBlock
         \/ tailIndex' = tailIndex /\ tailBlock = 0
         \/ tailIndex' = tailIndex /\ TailOffset = BlockCap
  PROVE  SendCopy(q)'
<1>1. SendCopy(q) /\ index[q] \in Nat /\ tailIndex \in Nat
  BY LocalTypesHold, Numbers DEF IInv, LocalTypes
<1>2. Sending(q)' <=> Sending(q)
  BY DEF ThreadSame, Sending
<1>3. pc[q] \in {"first_head", "send_cas"} => Sending(q)
  BY DEF Sending
<1>. QED
  BY <1>1, <1>2, <1>3 DEF SendCopy, ThreadSame, TailOffset

LEMMA RecvCopyKept ==
  ASSUME IInv, NEW q \in Threads, ThreadSame(q),
         headIndex' \in Nat, tailIndex' \in Nat, headIndex <= headIndex', tailIndex <= tailIndex',
         \/ headIndex < headIndex'
         \/ headIndex' = headIndex /\ headBlock' = headBlock
         \/ headIndex' = headIndex /\ headBlock = 0
         \/ headIndex' = headIndex /\ HeadOffset = BlockCap
  PROVE  RecvCopy(q)'
<1>1. RecvCopy(q) /\ index[q] \in Nat /\ tailIndex \in Nat /\ headIndex \in Nat
  BY LocalTypesHold, Numbers DEF IInv, LocalTypes
<1>2. Receiving(q)' <=> Receiving(q)
  BY DEF ThreadSame, Receiving
<1>3. pc[q] \in {"recv_tail", "recv_cas"} => Receiving(q)
  BY DEF Receiving
<1>4. /\ Position(tailIndex) \in Nat /\ Position(tailIndex') \in Nat /\ Position(headIndex) \in Nat
      /\ Position(tailIndex) <= Position(tailIndex')
  BY <1>1, Packed, IndexOrder
<1>5. LapOf(tailIndex) \in Nat /\ LapOf(tailIndex') \in Nat /\ LapOf(tailIndex) <= LapOf(tailIndex')
  <2>1. LapOf(tailIndex) \in Nat /\ LapOf(tailIndex') \in Nat
    BY <1>1, Parts
  <2>2. Position(tailIndex) < Position(tailIndex') \/ Position(tailIndex) = Position(tailIndex')
    BY <1>4
  <2>3. LapOf(tailIndex) < LapOf(tailIndex') \/ LapOf(tailIndex) = LapOf(tailIndex')
    BY <1>1, <2>2, IndexOrder
  <2>. QED
    BY <2>1, <2>3
<1>6. LapOf(headIndex) \in Nat
  BY <1>1, Parts
<1>7. CASE headIndex < headIndex'
  BY <1>1, <1>2, <1>3, <1>7 DEF RecvCopy, ThreadSame
<1>8. CASE headIndex' = headIndex
  BY <1>1, <1>2, <1>3, <1>4, <1>5, <1>6, <1>8
     DEF RecvCopy, ThreadSame, HeadLap, TailLap, HeadOffset
<1>. QED
  BY <1>7, <1>8

LEMMA WriterTokenKept ==
  ASSUME IInv, NEW q \in Threads, ThreadSame(q), q \in Senders => sent'[q] = sent[q],
         Len(log) \in Nat, Len(log') \in Nat, Len(log) <= Len(log'),
         \A k \in 1 .. Len(log) : log'[k] = log[k],
         tailIndex' \in Nat, tailIndex <= tailIndex',
         MovesTail(q) => tailIndex' = tailIndex /\ tailBlock' = tailBlock,
         pc[q] = "link" => next'[block[q]] = next[block[q]],
         \A b \in Blocks : \A i \in Offsets : WritesSlot(q, b, i) =>
           /\ "WRITE" \in State(b, i)' => "WRITE" \in State(b, i)
           /\ slotMsg'[b][i] = slotMsg[b][i]
  PROVE  WriterToken(q)'
<1> SUFFICES ASSUME Writing(q) PROVE WriterToken(q)'
  BY DEF WriterToken, Writing, ThreadSame
<1>1. WriterToken(q) /\ q \in Senders
  BY DEF IInv, Role, Writing, SendLabels
<1>2. block[q] \in Blocks /\ offset[q] \in Offsets /\ WritesSlot(q, block[q], offset[q])
  BY <1>1 DEF WriterToken, WritesSlot
<1>3. /\ "WRITE" \notin slotState'[block[q]][offset[q]]
      /\ slotMsg'[block[q]][offset[q]] = slotMsg[block[q]][offset[q]]
  <2>1. PICK b \in Blocks, i \in Offsets : b = block[q] /\ i = offset[q]
    BY <1>2
  <2>2. /\ "WRITE" \in State(b, i)' => "WRITE" \in State(b, i)
        /\ slotMsg'[b][i] = slotMsg[b][i]
    BY <1>2, <2>1
  <2>. QED
    BY <1>1, <2>1, <2>2 DEF State, WriterToken
<1>4. log'[at[q] + 1] = log[at[q] + 1] /\ at[q] < Len(log')
  <2>1. at[q] \in Nat /\ at[q] < Len(log)
    BY <1>1 DEF WriterToken, IInv, GhostTypes
  <2>. QED
    BY <2>1
<1>5. TailLap \in Nat /\ TailLap' \in Nat /\ TailLap <= TailLap'
  <2>1. tailIndex \in Nat
    BY Numbers
  <2>2. Position(tailIndex) \in Nat /\ Position(tailIndex') \in Nat
        /\ Position(tailIndex) <= Position(tailIndex')
    BY <2>1, Packed, IndexOrder
  <2>3. Position(tailIndex) < Position(tailIndex') \/ Position(tailIndex) = Position(tailIndex')
    BY <2>2
  <2>4. LapOf(tailIndex) \in Nat /\ LapOf(tailIndex') \in Nat
    BY <2>1, Parts
  <2>5. LapOf(tailIndex) < LapOf(tailIndex') \/ LapOf(tailIndex) = LapOf(tailIndex')
    BY <2>1, <2>3, IndexOrder
  <2>. QED
    BY <2>4, <2>5 DEF TailLap
<1>6. block[q] \in Nat
  BY <1>2, BlocksNat
<1>. QED
  BY <1>1, <1>2, <1>3, <1>4, <1>5, <1>6
     DEF WriterToken, ThreadSame, State, Writing, MovesTail, TailLap, TailOffset

LEMMA ReaderTokenKept ==
  ASSUME IInv, NEW q \in Threads, ThreadSame(q),
         taken \in Nat, taken' \in Nat, taken <= taken',
         tailIndex' \in Nat, tailIndex <= tailIndex',
         MovesHead(q) => headIndex' = headIndex /\ headBlock' = headBlock,
         \A b \in Blocks : next[b] # 0 => next'[b] # 0,
         \A b \in Blocks : \A i \in Offsets : ReadsSlot(q, b, i) =>
           /\ "READ" \in State(b, i)' => "READ" \in State(b, i)
           /\ "WRITE" \in State(b, i) => "WRITE" \in State(b, i)'
  PROVE  ReaderToken(q)'
<1> SUFFICES ASSUME Reading(q) PROVE ReaderToken(q)'
  BY DEF ReaderToken, Reading, ThreadSame
<1>1. ReaderToken(q)
  BY DEF IInv
<1>2. block[q] \in Blocks /\ offset[q] \in Offsets /\ ReadsSlot(q, block[q], offset[q])
  BY <1>1 DEF ReaderToken, ReadsSlot
<1>3. /\ "READ" \notin slotState'[block[q]][offset[q]]
      /\ "WRITE" \in State(block[q], offset[q]) => "WRITE" \in slotState'[block[q]][offset[q]]
  <2>1. PICK b \in Blocks, i \in Offsets : b = block[q] /\ i = offset[q]
    BY <1>2
  <2>2. /\ "READ" \in State(b, i)' => "READ" \in State(b, i)
        /\ "WRITE" \in State(b, i) => "WRITE" \in State(b, i)'
    BY <1>2, <2>1
  <2>. QED
    BY <1>1, <2>1, <2>2 DEF State, ReaderToken
<1>4. at[q] \in Nat /\ at[q] < taken'
  BY <1>1 DEF ReaderToken, IInv, GhostTypes
<1>5. TailLap \in Nat /\ TailLap' \in Nat /\ TailLap <= TailLap' /\ HeadLap \in Nat
  <2>1. tailIndex \in Nat /\ HeadLap \in Nat
    BY Numbers
  <2>2. Position(tailIndex) \in Nat /\ Position(tailIndex') \in Nat
        /\ Position(tailIndex) <= Position(tailIndex')
    BY <2>1, Packed, IndexOrder
  <2>3. Position(tailIndex) < Position(tailIndex') \/ Position(tailIndex) = Position(tailIndex')
    BY <2>2
  <2>4. LapOf(tailIndex) \in Nat /\ LapOf(tailIndex') \in Nat
    BY <2>1, Parts
  <2>5. LapOf(tailIndex) < LapOf(tailIndex') \/ LapOf(tailIndex) = LapOf(tailIndex')
    BY <2>1, <2>3, IndexOrder
  <2>. QED
    BY <2>1, <2>4, <2>5 DEF TailLap
<1>6. next[block[q]] # 0 => next'[block[q]] # 0
  BY <1>2
<1>7. CASE MovesHead(q)
  <2>1. HeadLap' = HeadLap /\ HeadOffset' = HeadOffset /\ headIndex' = headIndex /\ headBlock' = headBlock
    BY <1>7 DEF HeadLap, HeadOffset
  <2>2. MovesHead(q)'
    BY <1>7 DEF MovesHead, ThreadSame
  <2>. QED
    BY <1>1, <1>2, <1>3, <1>4, <1>5, <1>6, <1>7, <2>1, <2>2
       DEF ReaderToken, ThreadSame, State, Reading
<1>8. CASE ~MovesHead(q)
  <2>1. ~MovesHead(q)'
    BY <1>8 DEF MovesHead, ThreadSame
  <2>. QED
    BY <1>1, <1>2, <1>3, <1>4, <1>8, <2>1 DEF ReaderToken, ThreadSame, State, Reading
<1>. QED
  BY <1>7, <1>8

------------------------------------------------------------------------------
(***************************************************************************)
(* The first block.                                                        *)
(***************************************************************************)
LEMMA FirstBlockIInv ==
  ASSUME IInv, NEW p \in Senders, FirstBlock(p)
  PROVE  IInv'
<1>1. p \in Threads /\ LocalTypes /\ tailIndex \in Nat /\ headIndex \in Nat /\ pc[p] = "first_block"
  BY LocalTypesHold, Numbers DEF Threads, FirstBlock, Goto
<1>2. /\ UNCHANGED <<headIndex, headBlock, tailIndex, next, slotState, slotMsg, freed>>
      /\ UNCHANGED <<index, newIndex, offset, nextBlock, sent, log, taken, got, at, reply>>
  BY DEF FirstBlock, blocks, ghosts
<1>3. Role(p) /\ SendCopy(p) /\ FirstBlockOnce /\ TailPlace
  BY <1>1 DEF IInv
<1>4. CASE tailBlock # 0
  <2>1. UNCHANGED <<positions, blocks, block>> /\ pc' = [pc EXCEPT ![p] = "send_index"]
    BY <1>2, <1>4 DEF FirstBlock, Goto, positions, blocks
  <2>2. \A q \in Threads : q # p => ThreadSame(q)
    BY <1>1, <1>2, <2>1 DEF ThreadSame, LocalTypes
  <2>3. pc'[p] = "send_index"
    BY <1>1, <2>1 DEF LocalTypes
  <2>4. LocalTypes'
    BY <1>1, <1>2, <2>1 DEF LocalTypes, SendLabels
  <2>5. ~Involved(p) /\ ~Involved(p)'
    BY <1>1, <2>3 DEF Involved, Writing, Reading, Destroying
  <2>6. Role(p)' /\ SendCopy(p)' /\ RecvCopy(p)'
    BY <1>1, <1>2, <1>3, <2>3 DEF Role, SendCopy, RecvCopy, Sending, Receiving, SendLabels, RecvLabels
  <2>. QED
    BY <1>1, <1>2, <2>1, <2>2, <2>4, <2>5, <2>6, LocalStep
<1>5. CASE tailBlock = 0
  <2>1. /\ tailBlock' = 1 /\ block' = [block EXCEPT ![p] = 1]
        /\ pc' = [pc EXCEPT ![p] = "first_head"]
    BY <1>5, <1>1 DEF FirstBlock, Goto, Keep, LocalTypes
  <2>2. \A q \in Threads : q # p => ThreadSame(q)
    BY <1>1, <1>2, <2>1 DEF ThreadSame, LocalTypes
  <2>3. pc'[p] = "first_head" /\ block'[p] = 1
    BY <1>1, <2>1 DEF LocalTypes
  <2>4. TailLap' = TailLap /\ TailOffset' = TailOffset /\ HeadLap' = HeadLap /\ HeadOffset' = HeadOffset
    BY <1>2 DEF TailLap, TailOffset, HeadLap, HeadOffset
  <2>5. headBlock = 0 /\ headIndex = 0 /\ \A q \in Threads : pc[q] # "first_head"
    BY <1>3, <1>5 DEF FirstBlockOnce
  <2>6. \A q \in Threads : ~MovesTail(q)
    <3> SUFFICES ASSUME NEW q \in Threads, MovesTail(q) PROVE FALSE
      OBVIOUS
    <3>1. WriterToken(q) /\ Writing(q)
      BY DEF IInv, MovesTail, Writing
    <3>2. block[q] \in Nat \ {0} /\ tailBlock \in {block[q], block[q] + 1}
      BY <3>1, BlocksNat DEF WriterToken
    <3>. QED
      BY <1>5, <3>2
  <2>7. TailLap = 0 /\ TailOffset = 0
    BY <1>3, <1>5, <2>6, Numbers DEF TailPlace
  <2>8. 1 \in Blocks
    BY <2>7, TailBlocks
  <2>9. LocalTypes'
    BY <1>1, <1>2, <2>1, <2>8 DEF LocalTypes, SendLabels
  <2>10. \A q \in Threads :
          /\ Writing(q)' <=> Writing(q)
          /\ Reading(q)' <=> Reading(q)
          /\ Destroying(q)' <=> Destroying(q)
          /\ MovesTail(q)' <=> MovesTail(q)
          /\ MovesHead(q)' <=> MovesHead(q)
          /\ pc'[q] = "link" <=> pc[q] = "link"
          /\ pc'[q] = "destroy_bit" <=> pc[q] = "destroy_bit"
          /\ Uses(q)' <=> Uses(q)
    BY <1>1, <2>2, <2>3 DEF ThreadSame, Writing, Reading, Destroying, MovesTail, MovesHead, Uses
  <2>11. \A q \in Threads : Writing(q) \/ Reading(q) \/ Destroying(q) \/ Uses(q) =>
                              q # p /\ block'[q] = block[q] /\ offset'[q] = offset[q]
    BY <1>1, <2>2 DEF Writing, Reading, Destroying, Uses, ThreadSame
  <2>12. TypeOK'
    <3>1. TypeOK
      BY DEF IInv
    <3>2. \A q \in Threads : Uses(q)' => offset'[q] \in Offsets /\ block'[q] \in Blocks
      BY <3>1, <2>10, <2>11 DEF TypeOK
    <3>. QED
      BY <1>2, <2>1, <2>8, <2>9, <3>1, <3>2 DEF TypeOK, LocalTypes
  <2>13. GhostTypes' /\ LogDistinct' /\ ReadsWhatWasSent'
    BY <1>2 DEF IInv, GhostTypes, LogDistinct, ReadsWhatWasSent
  <2>14. TailPlace'
    BY <1>2, <1>3, <2>1, <2>4, <2>6, <2>7, <2>10, Numbers DEF TailPlace
  <2>15. HeadPlace'
    BY <1>2, <2>4, <2>10 DEF IInv, HeadPlace
  <2>16. FirstBlockOnce'
    <3>1. \A q \in Threads : pc'[q] = "first_head" <=> q = p
      BY <2>2, <2>3, <2>5 DEF ThreadSame
    <3>. QED
      BY <1>1, <1>2, <2>1, <2>3, <2>5, <3>1 DEF FirstBlockOnce
  <2>17. Links'
    <3>1. \A q \in Threads : pc[q] = "link" => block'[q] = block[q]
      BY <2>11 DEF Writing
    <3>. QED
      BY <1>2, <2>4, <2>10, <3>1 DEF IInv, Links
  <2>18. (OneSlotEach /\ Slots /\ Destruction)'
    BY <1>2, <2>10, <2>11, SlotsSame
  <2>19. ASSUME NEW q \in Threads
         PROVE  (Role(q) /\ SendCopy(q) /\ RecvCopy(q) /\ WriterToken(q) /\ ReaderToken(q))'
    <3>1. CASE q = p
      <4>1. Role(p)'
        BY <1>1, <1>2, <1>3, <2>3 DEF Role, Sending, Receiving, SendLabels, RecvLabels
      <4>2. SendCopy(p)'
        BY <1>1, <1>2, <1>3, <2>1, <2>3 DEF SendCopy, Sending
      <4>3. RecvCopy(p)' /\ WriterToken(p)' /\ ReaderToken(p)'
        BY <2>3 DEF RecvCopy, Receiving, WriterToken, Writing, ReaderToken, Reading
      <4>. QED
        BY <3>1, <4>1, <4>2, <4>3
    <3>2. CASE q # p
      <4>1. \A b \in Blocks : \A i \in Offsets :
              State(b, i)' = State(b, i) /\ slotMsg'[b][i] = slotMsg[b][i]
        BY <1>2 DEF State
      <4>2. ThreadSame(q)
        BY <2>2, <3>2
      <4>3. Role(q)'
        BY <1>2, <4>2, RoleKept
      <4>4. SendCopy(q)'
        BY <1>1, <1>2, <1>5, <4>2, SendCopyKept
      <4>5. RecvCopy(q)'
        BY <1>1, <1>2, <4>2, RecvCopyKept
      <4>6. WriterToken(q)'
        BY <1>1, <1>2, <2>6, <4>1, <4>2, Numbers, WriterTokenKept
      <4>7. ReaderToken(q)'
        BY <1>1, <1>2, <4>1, <4>2, Numbers, ReaderTokenKept
      <4>. QED
        BY <4>3, <4>4, <4>5, <4>6, <4>7
    <3>. QED
      BY <3>1, <3>2
  <2>. QED
    BY <2>12, <2>13, <2>14, <2>15, <2>16, <2>17, <2>18, <2>19 DEF IInv
<1>. QED
  BY <1>4, <1>5

LEMMA FirstHeadIInv ==
  ASSUME IInv, NEW p \in Senders, FirstHead(p)
  PROVE  IInv'
<1>1. p \in Threads /\ LocalTypes /\ tailIndex \in Nat /\ headIndex \in Nat /\ pc[p] = "first_head"
  BY LocalTypesHold, Numbers DEF Threads, FirstHead, Goto
<1>2. /\ UNCHANGED <<headIndex, tailBlock, tailIndex, next, slotState, slotMsg, freed>>
      /\ UNCHANGED <<index, newIndex, block, offset, nextBlock, sent, log, taken, got, at, reply>>
      /\ pc' = [pc EXCEPT ![p] = "send_cas"]
      /\ headBlock' = block[p]
  BY DEF FirstHead, blocks, ghosts, local, Goto
<1>3. Role(p) /\ SendCopy(p) /\ FirstBlockOnce /\ HeadPlace
  BY <1>1 DEF IInv
<1>4. headBlock = 0 /\ headIndex = 0 /\ tailBlock # 0 /\ block[p] = 1
  BY <1>1, <1>3 DEF FirstBlockOnce
<1>5. \A q \in Threads : q # p => ThreadSame(q)
  BY <1>1, <1>2 DEF ThreadSame, LocalTypes
<1>6. pc'[p] = "send_cas"
  BY <1>1, <1>2 DEF LocalTypes
<1>7. TailLap' = TailLap /\ TailOffset' = TailOffset /\ HeadLap' = HeadLap /\ HeadOffset' = HeadOffset
  BY <1>2 DEF TailLap, TailOffset, HeadLap, HeadOffset
<1>8. \A q \in Threads : ~MovesHead(q)
  <2> SUFFICES ASSUME NEW q \in Threads, MovesHead(q) PROVE FALSE
    OBVIOUS
  <2>1. ReaderToken(q) /\ Reading(q)
    BY DEF IInv, MovesHead, Reading
  <2>2. block[q] \in Nat \ {0} /\ headBlock \in {block[q], block[q] + 1}
    BY <2>1, BlocksNat DEF ReaderToken
  <2>. QED
    BY <1>4, <2>2
<1>9. HeadLap = 0 /\ 1 \in {0} \union Blocks
  <2>1. block[p] \in {0} \union Blocks
    BY <1>1 DEF LocalTypes
  <2>. QED
    BY <1>4, <2>1, ZeroIndex DEF HeadLap
<1>10. \A q \in Threads :
        /\ Writing(q)' <=> Writing(q)
        /\ Reading(q)' <=> Reading(q)
        /\ Destroying(q)' <=> Destroying(q)
        /\ MovesTail(q)' <=> MovesTail(q)
        /\ MovesHead(q)' <=> MovesHead(q)
        /\ pc'[q] = "link" <=> pc[q] = "link"
        /\ pc'[q] = "destroy_bit" <=> pc[q] = "destroy_bit"
        /\ Uses(q)' <=> Uses(q)
  BY <1>1, <1>5, <1>6 DEF ThreadSame, Writing, Reading, Destroying, MovesTail, MovesHead, Uses
<1>11. LocalTypes'
  BY <1>1, <1>2 DEF LocalTypes, SendLabels
<1>12. TypeOK'
  BY <1>2, <1>4, <1>9, <1>10, <1>11 DEF IInv, TypeOK, LocalTypes
<1>13. GhostTypes' /\ LogDistinct' /\ ReadsWhatWasSent'
  BY <1>2 DEF IInv, GhostTypes, LogDistinct, ReadsWhatWasSent
<1>14. TailPlace'
  BY <1>2, <1>7, <1>10 DEF IInv, TailPlace
<1>15. HeadPlace'
  BY <1>2, <1>3, <1>4, <1>7, <1>8, <1>9, <1>10 DEF HeadPlace
<1>16. FirstBlockOnce'
  <2>1. \A q \in Threads : pc'[q] # "first_head"
    <3> SUFFICES ASSUME NEW q \in Threads, pc'[q] = "first_head" PROVE FALSE
      OBVIOUS
    <3>1. q # p /\ pc[q] = "first_head"
      BY <1>5, <1>6 DEF ThreadSame
    <3>. QED
      BY <1>1, <1>3, <3>1 DEF FirstBlockOnce
  <2>. QED
    BY <1>2, <1>4, <2>1 DEF FirstBlockOnce
<1>17. Links'
  BY <1>2, <1>7, <1>10 DEF IInv, Links
<1>18. (OneSlotEach /\ Slots /\ Destruction)'
  BY <1>2, <1>10, SlotsSame
<1>19. ASSUME NEW q \in Threads
       PROVE  (Role(q) /\ SendCopy(q) /\ RecvCopy(q) /\ WriterToken(q) /\ ReaderToken(q))'
  <2>1. CASE q = p
    <3>1. Role(p)'
      BY <1>1, <1>2, <1>3, <1>6 DEF Role, Sending, Receiving, SendLabels, RecvLabels
    <3>2. SendCopy(p)'
      BY <1>1, <1>2, <1>3, <1>6 DEF SendCopy, Sending
    <3>3. RecvCopy(p)' /\ WriterToken(p)' /\ ReaderToken(p)'
      BY <1>6 DEF RecvCopy, Receiving, WriterToken, Writing, ReaderToken, Reading
    <3>. QED
      BY <2>1, <3>1, <3>2, <3>3
  <2>2. CASE q # p
    <3>1. \A b \in Blocks : \A i \in Offsets :
            State(b, i)' = State(b, i) /\ slotMsg'[b][i] = slotMsg[b][i]
      BY <1>2 DEF State
    <3>2. ThreadSame(q)
      BY <1>5, <2>2
    <3>3. Role(q)'
      BY <1>2, <3>2, RoleKept
    <3>4. SendCopy(q)'
      BY <1>1, <1>2, <3>2, SendCopyKept
    <3>5. RecvCopy(q)'
      BY <1>1, <1>2, <1>4, <3>2, RecvCopyKept
    <3>6. WriterToken(q)'
      BY <1>1, <1>2, <3>1, <3>2, Numbers, WriterTokenKept
    <3>7. ReaderToken(q)'
      BY <1>1, <1>2, <1>8, <3>1, <3>2, Numbers, ReaderTokenKept
    <3>. QED
      BY <3>3, <3>4, <3>5, <3>6, <3>7
  <2>. QED
    BY <2>1, <2>2
<1>. QED
  BY <1>12, <1>13, <1>14, <1>15, <1>16, <1>17, <1>18, <1>19 DEF IInv

------------------------------------------------------------------------------
(***************************************************************************)
(* The compare-exchange on tail.index.                                     *)
(***************************************************************************)
LEMMA SendReserveIInv ==
  ASSUME IInv, NEW p \in Senders, SendReserve(p)
  PROVE  IInv'
<1> DEFINE m == Msg(p, sent[p] + 1)
           l == IF offset[p] + 1 = BlockCap THEN "install" ELSE "write"
<1>1. p \in Threads /\ LocalTypes /\ tailIndex \in Nat /\ headIndex \in Nat /\ pc[p] = "send_cas"
  BY LocalTypesHold, Numbers DEF Threads, SendReserve, Goto
<1>2. /\ sent \in [Senders -> 0 .. MaxSends] /\ at \in [Threads -> Nat]
      /\ MaxSends \in Nat
  BY ListAssumption DEF IInv, TypeOK, GhostTypes
<1>3. /\ UNCHANGED <<headIndex, headBlock, tailBlock, next, slotState, slotMsg, freed>>
      /\ UNCHANGED <<index, newIndex, block, offset, nextBlock, taken, got>>
      /\ pc' = [pc EXCEPT ![p] = l] /\ tailIndex = index[p] /\ tailIndex' = tailIndex + One
      /\ sent' = [sent EXCEPT ![p] = sent[p] + 1] /\ log' = Append(log, m)
      /\ at' = [at EXCEPT ![p] = Len(log)] /\ reply' = [reply EXCEPT ![p] = Reply("sent")]
  BY <1>1, <1>2 DEF SendReserve, blocks, local, Goto, Answer, Keep
<1>4. Role(p) /\ SendCopy(p) /\ TailPlace /\ FirstBlockOnce /\ Slots
  BY <1>1 DEF IInv
<1>5. /\ ~Marked(tailIndex) /\ offset[p] = TailOffset /\ TailOffset # BlockCap
      /\ block[p] # 0 /\ block[p] = tailBlock /\ sent[p] < MaxSends
  BY <1>1, <1>3, <1>4 DEF SendCopy, Role, Sending, TailOffset
<1>6. \A q \in Threads : ~MovesTail(q)
  <2> SUFFICES ASSUME NEW q \in Threads, MovesTail(q) PROVE FALSE
    OBVIOUS
  <2>1. WriterToken(q) /\ Writing(q)
    BY DEF IInv, MovesTail, Writing
  <2>. QED
    BY <1>5, <2>1 DEF WriterToken
<1>7. /\ block[p] = TailLap + 1 /\ block[p] \in Blocks /\ offset[p] \in Offsets
      /\ offset[p] \in 0 .. BlockCap /\ block[p] \in Nat \ {0}
      /\ Len(log) = Num(block[p], offset[p])
  <2>1. block[p] = TailLap + 1
    BY <1>4, <1>5, <1>6 DEF TailPlace
  <2>2. offset[p] \in Offsets
    BY <1>5, Numbers DEF Offsets
  <2>. QED
    BY <2>1, <2>2, <1>4, <1>5, TailBlocks, BlocksNat DEF TailPlace
<1>8. /\ tailIndex' \in Nat /\ tailIndex < tailIndex' /\ tailIndex <= tailIndex'
      /\ ~Marked(tailIndex')
      /\ TailLap' = TailLap /\ TailOffset' = TailOffset + 1
      /\ Position(tailIndex') = Position(tailIndex) + 1
      /\ HeadLap' = HeadLap /\ HeadOffset' = HeadOffset
  <2>1. tailIndex < tailIndex + One /\ tailIndex <= tailIndex + One
    BY <1>1 DEF One
  <2>. QED
    BY <2>1, <1>1, <1>3, <1>5, IndexNext DEF TailLap, TailOffset, HeadLap, HeadOffset
<1>9. m \in Message /\ m.from = p /\ m.seq = sent[p] + 1
  BY <1>2, <1>5 DEF m, Msg, Message
<1>10. /\ log \in Seq(Message) /\ log' \in Seq(Message) /\ Len(log) \in Nat /\ Len(log') = Len(log) + 1
       /\ Len(log') \in Nat /\ Len(log) <= Len(log')
       /\ taken \in Nat /\ taken' \in Nat /\ taken <= taken'
       /\ \A k \in 1 .. Len(log) : log'[k] = log[k]
       /\ log'[Len(log) + 1] = m
  BY <1>3, <1>9, Numbers DEF IInv, GhostTypes
<1> HIDE DEF m
<1>11. l \in {"install", "write"} /\ pc'[p] = l /\ at'[p] = Len(log) /\ sent'[p] = sent[p] + 1
       /\ reply'[p] = Reply("sent")
  BY <1>1, <1>2, <1>3 DEF LocalTypes
<1>12. \A q \in Threads : q # p => ThreadSame(q) /\ (q \in Senders => sent'[q] = sent[q])
  BY <1>1, <1>2, <1>3 DEF ThreadSame, LocalTypes
<1>13. \A q \in Threads :
        /\ Writing(q)' <=> Writing(q) \/ q = p
        /\ Reading(q)' <=> Reading(q)
        /\ Destroying(q)' <=> Destroying(q)
        /\ MovesHead(q)' <=> MovesHead(q)
        /\ pc'[q] = "link" <=> pc[q] = "link"
        /\ pc'[q] = "destroy_bit" <=> pc[q] = "destroy_bit"
        /\ pc'[q] = "first_head" <=> pc[q] = "first_head"
        /\ Uses(q)' => Uses(q) \/ q = p
  BY <1>1, <1>11, <1>12 DEF ThreadSame, Writing, Reading, Destroying, MovesHead, Uses
<1>14. MovesTail(p)' <=> l = "install"
  BY <1>11 DEF MovesTail
<1>15. "WRITE" \notin State(block[p], offset[p])
  BY <1>4, <1>7, <1>10 DEF Slots
<1>16. l = "install" <=> TailOffset + 1 = BlockCap
  BY <1>5
<1> HIDE DEF l
<1>17. LocalTypes'
  <2>1. Reply("sent") \in [kind : Fifo!ReplyKinds, msg : Message \union {NoMsg}]
    BY RepliesTyped DEF Fifo!ReplyKinds
  <2>. QED
    BY <1>1, <1>3, <1>11, <2>1 DEF LocalTypes, SendLabels
<1>18. TypeOK'
  <2>1. TypeOK
    BY DEF IInv
  <2>2. \A q \in Threads : Uses(q)' => offset'[q] \in Offsets /\ block'[q] \in Blocks
    BY <1>3, <1>7, <1>13, <2>1 DEF TypeOK
  <2>3. sent' \in [Senders -> 0 .. MaxSends]
    BY <1>2, <1>3, <1>5
  <2>4. taken' <= Len(log')
    BY <1>3, <1>10, Numbers
  <2>. QED
    BY <1>3, <1>8, <1>17, <2>1, <2>2, <2>3, <2>4 DEF TypeOK, LocalTypes
<1>19. GhostTypes'
  BY <1>2, <1>3, <1>10 DEF IInv, GhostTypes
<1>20. TailPlace'
  <2>1. Num(block[p], offset[p] + 1) = Num(block[p], offset[p]) + 1
    BY <1>7, NumNext
  <2>2. Len(log') = Num(TailLap' + 1, TailOffset')
    BY <1>5, <1>7, <1>8, <1>10, <2>1
  <2>3. tailBlock' = TailLap' + 1
    BY <1>3, <1>5, <1>7, <1>8
  <2>4. (\A q \in Threads : ~MovesTail(q)') => TailOffset' # BlockCap
    BY <1>1, <1>8, <1>14, <1>16
  <2>. QED
    BY <2>2, <2>3, <2>4 DEF TailPlace
<1>21. HeadPlace'
  <2>1. Position(headIndex) \in Nat /\ Position(tailIndex) \in Nat
    BY <1>1, Packed
  <2>. QED
    BY <1>3, <1>8, <1>13, <2>1 DEF IInv, HeadPlace
<1>22. FirstBlockOnce'
  BY <1>3, <1>4, <1>13 DEF FirstBlockOnce
<1>23. Links'
  BY <1>3, <1>8, <1>13 DEF IInv, Links
<1>24. OneSlotEach'
  <2>1. ASSUME NEW q \in Threads, Writing(q)
        PROVE  block[q] # block[p] \/ offset[q] # offset[p]
    <3>1. WriterToken(q)
      BY DEF IInv
    <3>2. at[q] = Num(block[q], offset[q]) /\ at[q] < Len(log)
      BY <2>1, <3>1 DEF WriterToken
    <3>. QED
      BY <1>7, <1>10, <3>2
  <2>. QED
    BY <1>3, <1>13, <2>1 DEF IInv, OneSlotEach
<1>25. Slots'
  <2> SUFFICES ASSUME NEW b \in Blocks, NEW i \in Offsets
               PROVE  /\ "WRITE" \in State(b, i)' =>
                           Num(b, i) < Len(log') /\ slotMsg'[b][i] = log'[Num(b, i) + 1]
                      /\ "WRITE" \notin State(b, i)' /\ Num(b, i) < Len(log') =>
                           \E q \in Threads : WritesSlot(q, b, i)'
                      /\ "READ" \in State(b, i)' => Num(b, i) < taken' /\ "WRITE" \in State(b, i)'
                      /\ "READ" \notin State(b, i)' /\ Num(b, i) < taken' /\ i # BlockCap - 1 =>
                           \E q \in Threads : ReadsSlot(q, b, i)'
    BY DEF Slots
  <2>1. State(b, i)' = State(b, i) /\ slotMsg'[b][i] = slotMsg[b][i] /\ taken' = taken
    BY <1>3 DEF State
  <2>2. Num(b, i) \in Nat /\ b \in Nat \ {0}
    BY BlocksNat, NumNext
  <2>3. \A q \in Threads : /\ WritesSlot(q, b, i) => WritesSlot(q, b, i)'
                           /\ ReadsSlot(q, b, i)' <=> ReadsSlot(q, b, i)
    BY <1>3, <1>13 DEF WritesSlot, ReadsSlot
  <2>4. /\ "WRITE" \in State(b, i) => Num(b, i) < Len(log) /\ slotMsg[b][i] = log[Num(b, i) + 1]
        /\ "WRITE" \notin State(b, i) /\ Num(b, i) < Len(log) =>
             \E q \in Threads : WritesSlot(q, b, i)
        /\ "READ" \in State(b, i) => Num(b, i) < taken /\ "WRITE" \in State(b, i)
        /\ "READ" \notin State(b, i) /\ Num(b, i) < taken /\ i # BlockCap - 1 =>
             \E q \in Threads : ReadsSlot(q, b, i)
    BY <1>4 DEF Slots
  <2>5. Num(b, i) < Len(log) => log'[Num(b, i) + 1] = log[Num(b, i) + 1]
    BY <1>10, <2>2
  <2>6. ASSUME Num(b, i) = Len(log)
        PROVE  WritesSlot(p, b, i)'
    <3>1. b = block[p] /\ i = offset[p]
      BY <1>7, <2>2, <2>6, NumUnique
    <3>. QED
      BY <1>1, <1>3, <1>13, <3>1 DEF WritesSlot
  <2>7. Num(b, i) < Len(log') => Num(b, i) < Len(log) \/ Num(b, i) = Len(log)
    BY <1>10, <2>2
  <2>8. Num(b, i) < Len(log) => Num(b, i) < Len(log')
    BY <1>10, <2>2
  <2>. QED
    BY <1>1, <2>1, <2>3, <2>4, <2>5, <2>6, <2>7, <2>8
<1>26. Destruction'
  BY <1>3, <1>13, DestructionSame
<1>27. LogDistinct'
  <2>1. \A i \in 1 .. Len(log) : log[i] \in Message /\ log[i].seq <= sent[log[i].from] /\ log[i].seq \in Nat
                                  /\ sent[log[i].from] \in Nat
    <3> SUFFICES ASSUME NEW i \in 1 .. Len(log)
                 PROVE  log[i] \in Message /\ log[i].seq <= sent[log[i].from] /\ log[i].seq \in Nat
                                  /\ sent[log[i].from] \in Nat
      OBVIOUS
    <3>1. log[i] \in Message
      BY <1>10, ElementOfSeq
    <3>. QED
      BY <1>2, <3>1 DEF IInv, LogDistinct, Message
  <2>2. \A i \in 1 .. Len(log) : log[i] # m
    BY <1>2, <1>9, <2>1
  <2>3. \A s \in Senders : sent[s] <= sent'[s] /\ sent[s] \in Nat /\ sent'[s] \in Nat
    BY <1>2, <1>3
  <2>4. ASSUME NEW i \in 1 .. Len(log')
        PROVE  log'[i].seq <= sent'[log'[i].from]
    <3>1. CASE i = Len(log) + 1
      BY <1>2, <1>9, <1>10, <1>11, <3>1
    <3>2. CASE i # Len(log) + 1
      <4>1. i \in 1 .. Len(log)
        BY <1>10, <3>2
      <4>2. log'[i] = log[i] /\ log[i].from \in Senders
        BY <1>10, <2>1, <4>1 DEF Message
      <4>. QED
        BY <2>1, <2>3, <4>1, <4>2
    <3>. QED
      BY <3>1, <3>2
  <2>5. ASSUME NEW i \in 1 .. Len(log'), NEW j \in 1 .. Len(log'), log'[i] = log'[j]
        PROVE  i = j
    <3>1. \A k \in 1 .. Len(log') : k \in 1 .. Len(log) \/ k = Len(log) + 1
      BY <1>10
    <3>2. \A k, n \in 1 .. Len(log) : log[k] = log[n] => k = n
      BY DEF IInv, LogDistinct
    <3>. QED
      BY <1>10, <2>2, <2>5, <3>1, <3>2
  <2>. QED
    BY <2>4, <2>5 DEF LogDistinct
<1>28. ReadsWhatWasSent'
  <2> SUFFICES ASSUME NEW r \in Receivers, NEW i \in 1 .. Len(got[r])
               PROVE  got[r][i].pos < Len(log') /\ got[r][i].msg = log'[got[r][i].pos + 1]
    BY <1>3 DEF ReadsWhatWasSent
  <2>1. got[r][i].pos < Len(log) /\ got[r][i].msg = log[got[r][i].pos + 1]
    BY DEF IInv, ReadsWhatWasSent
  <2>2. got[r][i].pos \in Nat
    <3>1. got[r] \in Seq([pos : Nat, msg : Message \union {NoMsg}])
      BY DEF IInv, GhostTypes
    <3>2. got[r][i] \in [pos : Nat, msg : Message \union {NoMsg}]
      BY <3>1, ElementOfSeq
    <3>. QED
      BY <3>2
  <2>. QED
    BY <1>10, <2>1, <2>2
<1>29. ASSUME NEW q \in Threads
       PROVE  (Role(q) /\ SendCopy(q) /\ RecvCopy(q) /\ WriterToken(q) /\ ReaderToken(q))'
  <2>1. CASE q = p
    <3>1. Role(p)'
      BY <1>1, <1>11 DEF Role, Sending, Receiving, SendLabels, RecvLabels, Reply, Fifo!InProgress
    <3>2. SendCopy(p)' /\ RecvCopy(p)' /\ ReaderToken(p)'
      BY <1>11 DEF SendCopy, Sending, RecvCopy, Receiving, ReaderToken, Reading
    <3>3. WriterToken(p)'
      <4>1. "WRITE" \notin slotState'[block'[p]][offset'[p]]
        BY <1>3, <1>15 DEF State
      <4>2. /\ block'[p] \in Blocks /\ offset'[p] \in Offsets
            /\ at'[p] = Num(block'[p], offset'[p]) /\ at'[p] < Len(log')
            /\ log'[at'[p] + 1] = Msg(p, sent'[p])
        BY <1>3, <1>7, <1>10, <1>11 DEF m
      <4>3. l = "install" => /\ TailOffset' = BlockCap
                             /\ block'[p] = TailLap' + 1 /\ offset'[p] = BlockCap - 1
                             /\ tailBlock' = block'[p]
        BY <1>3, <1>5, <1>7, <1>8, <1>16, Numbers
      <4>. QED
        BY <1>11, <1>14, <4>1, <4>2, <4>3 DEF WriterToken, State
    <3>. QED
      BY <2>1, <3>1, <3>2, <3>3
  <2>2. CASE q # p
    <3>1. \A b \in Blocks : \A i \in Offsets :
            State(b, i)' = State(b, i) /\ slotMsg'[b][i] = slotMsg[b][i]
      BY <1>3 DEF State
    <3>2. ThreadSame(q) /\ (q \in Senders => sent'[q] = sent[q])
      BY <1>12, <2>2
    <3>3. Role(q)'
      BY <3>2, RoleKept
    <3>4. SendCopy(q)'
      BY <1>5, <1>8, <3>2, SendCopyKept
    <3>5. RecvCopy(q)'
      BY <1>1, <1>3, <1>8, <3>2, RecvCopyKept
    <3>6. WriterToken(q)'
      BY <1>1, <1>3, <1>6, <1>8, <1>10, <3>1, <3>2, WriterTokenKept
    <3>7. ReaderToken(q)'
      BY <1>1, <1>3, <1>8, <1>10, <3>1, <3>2, ReaderTokenKept
    <3>. QED
      BY <3>3, <3>4, <3>5, <3>6, <3>7
  <2>. QED
    BY <2>1, <2>2
<1>. QED
  BY <1>18, <1>19, <1>20, <1>21, <1>22, <1>23, <1>24, <1>25, <1>26, <1>27, <1>28, <1>29 DEF IInv

------------------------------------------------------------------------------
(***************************************************************************)
(* The next block.                                                         *)
(***************************************************************************)
\* What a sender that moves tail on sees.
LEMMA Mover ==
  ASSUME IInv, NEW p \in Threads, MovesTail(p)
  PROVE  /\ Writing(p) /\ p \in Senders
         /\ TailOffset = BlockCap /\ block[p] = TailLap + 1 /\ offset[p] = BlockCap - 1
         /\ tailBlock = IF pc[p] = "install" THEN block[p] ELSE block[p] + 1
         /\ block[p] \in Blocks /\ offset[p] \in Offsets /\ block[p] + 1 \in Blocks
         /\ block[p] \in Nat \ {0} /\ tailBlock # 0
         /\ \A q \in Threads : q # p => ~MovesTail(q)
<1>1. WriterToken(p) /\ Writing(p) /\ p \in Senders
  BY DEF IInv, MovesTail, Writing, Role, SendLabels
<1>2. /\ TailOffset = BlockCap /\ block[p] = TailLap + 1 /\ offset[p] = BlockCap - 1
      /\ tailBlock = IF pc[p] = "install" THEN block[p] ELSE block[p] + 1
      /\ block[p] \in Blocks /\ offset[p] \in Offsets
  BY <1>1 DEF WriterToken
<1>3. block[p] \in Nat \ {0} /\ block[p] + 1 = TailLap + 2
  BY <1>2, BlocksNat, Numbers
<1>4. tailBlock # 0
  BY <1>2, <1>3
<1>. QED
  BY <1>1, <1>2, <1>3, <1>4, TailBlocks, OneMover

LEMMA InstallIInv ==
  ASSUME IInv, NEW p \in Senders, Install(p)
  PROVE  IInv'
<1>1. p \in Threads /\ LocalTypes /\ tailIndex \in Nat /\ headIndex \in Nat /\ pc[p] = "install"
  BY LocalTypesHold, Numbers DEF Threads, Install, Goto
<1>2. /\ UNCHANGED <<headIndex, headBlock, tailIndex, next, slotState, slotMsg, freed>>
      /\ UNCHANGED <<index, newIndex, block, offset, nextBlock, sent, log, taken, got, at, reply>>
      /\ pc' = [pc EXCEPT ![p] = "advance"]
      /\ tailBlock' = block[p] + 1
  BY DEF Install, blocks, ghosts, local, Goto
<1>3. /\ Writing(p) /\ TailOffset = BlockCap
      /\ block[p] + 1 \in Blocks /\ block[p] + 1 # 0 /\ tailBlock # 0
      /\ \A q \in Threads : q # p => ~MovesTail(q)
  <2>1. MovesTail(p)
    BY <1>1 DEF MovesTail
  <2>2. block[p] + 1 \in Blocks
    BY <1>1, <2>1, Mover
  <2>3. block[p] + 1 # 0
    BY <2>2, BlocksNat
  <2>. QED
    BY <1>1, <2>1, <2>2, <2>3, Mover
<1>4. \A q \in Threads : q # p => ThreadSame(q)
  BY <1>1, <1>2 DEF ThreadSame, LocalTypes
<1>5. pc'[p] = "advance"
  BY <1>1, <1>2 DEF LocalTypes
<1>6. TailLap' = TailLap /\ TailOffset' = TailOffset /\ HeadLap' = HeadLap /\ HeadOffset' = HeadOffset
  BY <1>2 DEF TailLap, TailOffset, HeadLap, HeadOffset
<1>7. \A q \in Threads :
        /\ Writing(q)' <=> Writing(q)
        /\ Reading(q)' <=> Reading(q)
        /\ Destroying(q)' <=> Destroying(q)
        /\ MovesTail(q)' <=> MovesTail(q)
        /\ MovesHead(q)' <=> MovesHead(q)
        /\ pc'[q] = "link" <=> pc[q] = "link"
        /\ pc'[q] = "first_head" <=> pc[q] = "first_head"
        /\ pc'[q] = "destroy_bit" <=> pc[q] = "destroy_bit"
        /\ Uses(q)' <=> Uses(q)
  BY <1>1, <1>4, <1>5 DEF ThreadSame, Writing, Reading, Destroying, MovesTail, MovesHead, Uses
<1>8. MovesTail(p) /\ MovesTail(p)'
  BY <1>1, <1>5 DEF MovesTail
<1>9. LocalTypes'
  BY <1>1, <1>2 DEF LocalTypes, SendLabels
<1>10. TypeOK'
  BY <1>2, <1>3, <1>7, <1>9 DEF IInv, TypeOK, LocalTypes
<1>11. GhostTypes' /\ LogDistinct' /\ ReadsWhatWasSent'
  BY <1>2 DEF IInv, GhostTypes, LogDistinct, ReadsWhatWasSent
<1>12. TailPlace'
  BY <1>1, <1>2, <1>6, <1>8 DEF IInv, TailPlace
<1>13. HeadPlace'
  BY <1>2, <1>6, <1>7 DEF IInv, HeadPlace
<1>14. FirstBlockOnce'
  <2>1. FirstBlockOnce
    BY DEF IInv
  <2>. QED
    BY <1>2, <1>3, <1>7, <2>1 DEF FirstBlockOnce
<1>15. Links'
  BY <1>2, <1>6, <1>7 DEF IInv, Links
<1>16. (OneSlotEach /\ Slots /\ Destruction)'
  BY <1>2, <1>7, SlotsSame
<1>17. ASSUME NEW q \in Threads
       PROVE  (Role(q) /\ SendCopy(q) /\ RecvCopy(q) /\ WriterToken(q) /\ ReaderToken(q))'
  <2>1. CASE q = p
    <3>1. Role(p)'
      BY <1>1, <1>2, <1>5 DEF IInv, Role, Sending, Receiving, SendLabels, RecvLabels
    <3>2. SendCopy(p)' /\ RecvCopy(p)' /\ ReaderToken(p)'
      BY <1>5 DEF SendCopy, Sending, RecvCopy, Receiving, ReaderToken, Reading
    <3>3. WriterToken(p)'
      <4>1. WriterToken(p)
        BY <1>1 DEF IInv
      <4>. QED
        BY <1>1, <1>2, <1>3, <1>5, <1>6, <1>8, <4>1 DEF WriterToken, State
    <3>. QED
      BY <2>1, <3>1, <3>2, <3>3
  <2>2. CASE q # p
    <3>1. \A b \in Blocks : \A i \in Offsets :
            State(b, i)' = State(b, i) /\ slotMsg'[b][i] = slotMsg[b][i]
      BY <1>2 DEF State
    <3>2. ThreadSame(q)
      BY <1>4, <2>2
    <3>3. Role(q)'
      BY <1>2, <3>2, RoleKept
    <3>4. SendCopy(q)'
      BY <1>1, <1>2, <1>3, <3>2, SendCopyKept
    <3>5. RecvCopy(q)'
      BY <1>1, <1>2, <3>2, RecvCopyKept
    <3>6. WriterToken(q)'
      BY <1>1, <1>2, <1>3, <2>2, <3>1, <3>2, Numbers, WriterTokenKept
    <3>7. ReaderToken(q)'
      BY <1>1, <1>2, <3>1, <3>2, Numbers, ReaderTokenKept
    <3>. QED
      BY <3>3, <3>4, <3>5, <3>6, <3>7
  <2>. QED
    BY <2>1, <2>2
<1>. QED
  BY <1>10, <1>11, <1>12, <1>13, <1>14, <1>15, <1>16, <1>17 DEF IInv

LEMMA AdvanceIInv ==
  ASSUME IInv, NEW p \in Senders, Advance(p)
  PROVE  IInv'
<1>1. p \in Threads /\ LocalTypes /\ tailIndex \in Nat /\ headIndex \in Nat /\ pc[p] = "advance"
  BY LocalTypesHold, Numbers DEF Threads, Advance, Goto
<1>2. /\ UNCHANGED <<headIndex, headBlock, tailBlock, next, slotState, slotMsg, freed>>
      /\ UNCHANGED <<index, newIndex, block, offset, nextBlock, sent, log, taken, got, at, reply>>
      /\ pc' = [pc EXCEPT ![p] = "link"]
      /\ tailIndex' = tailIndex + One
  BY DEF Advance, blocks, ghosts, local, Goto
<1>3. /\ Writing(p) /\ TailOffset = BlockCap /\ tailBlock = block[p] + 1
      /\ block[p] = TailLap + 1 /\ offset[p] = BlockCap - 1
      /\ block[p] \in Blocks /\ block[p] \in Nat \ {0}
      /\ \A q \in Threads : q # p => ~MovesTail(q)
  <2>1. MovesTail(p)
    BY <1>1 DEF MovesTail
  <2>. QED
    BY <1>1, <2>1, Mover
<1>4. \A q \in Threads : q # p => ThreadSame(q)
  BY <1>1, <1>2 DEF ThreadSame, LocalTypes
<1>5. pc'[p] = "link"
  BY <1>1, <1>2 DEF LocalTypes
<1>6. /\ tailIndex' \in Nat /\ tailIndex < tailIndex' /\ tailIndex <= tailIndex'
      /\ Marked(tailIndex') <=> Marked(tailIndex)
      /\ TailLap' = TailLap + 1 /\ TailOffset' = 0
      /\ Position(tailIndex') = Position(tailIndex) + 1
      /\ HeadLap' = HeadLap /\ HeadOffset' = HeadOffset
  <2>1. tailIndex < tailIndex + One /\ tailIndex <= tailIndex + One
    BY <1>1 DEF One
  <2>. QED
    BY <2>1, <1>1, <1>2, <1>3, IndexNext DEF TailLap, TailOffset, HeadLap, HeadOffset
<1>7. \A q \in Threads :
        /\ Writing(q)' <=> Writing(q)
        /\ Reading(q)' <=> Reading(q)
        /\ Destroying(q)' <=> Destroying(q)
        /\ ~MovesTail(q)'
        /\ MovesHead(q)' <=> MovesHead(q)
        /\ pc'[q] = "link" <=> pc[q] = "link" \/ q = p
        /\ pc'[q] = "first_head" <=> pc[q] = "first_head"
        /\ pc'[q] = "destroy_bit" <=> pc[q] = "destroy_bit"
        /\ Uses(q)' => Uses(q) \/ q = p
  BY <1>1, <1>3, <1>4, <1>5 DEF ThreadSame, Writing, Reading, Destroying, MovesTail, MovesHead, Uses
<1>8. WriterToken(p)
  BY <1>1 DEF IInv
<1>9. LocalTypes'
  BY <1>1, <1>2 DEF LocalTypes, SendLabels
<1>10. TypeOK'
  <2>1. TypeOK /\ block[p] \in Blocks /\ offset[p] \in Offsets
    BY <1>3, <1>8 DEF IInv, WriterToken
  <2>2. \A q \in Threads : Uses(q)' => offset'[q] \in Offsets /\ block'[q] \in Blocks
    BY <1>2, <1>7, <2>1 DEF TypeOK
  <2>. QED
    BY <1>2, <1>6, <1>9, <2>1, <2>2 DEF TypeOK, LocalTypes
<1>11. GhostTypes' /\ LogDistinct' /\ ReadsWhatWasSent'
  BY <1>2 DEF IInv, GhostTypes, LogDistinct, ReadsWhatWasSent
<1>12. TailPlace'
  <2>1. Len(log) = Num(block[p], BlockCap)
    BY <1>3 DEF IInv, TailPlace
  <2>2. BlockCap \in 0 .. BlockCap
    BY BlocksNat
  <2>3. Num(block[p] + 1, 0) = Num(block[p], BlockCap)
    BY <1>3, <2>2, NumNext
  <2>4. TailLap' + 1 = block[p] + 1 /\ 0 # BlockCap
    BY <1>3, <1>6, BlocksNat
  <2>. QED
    BY <1>2, <1>3, <1>6, <2>1, <2>3, <2>4 DEF TailPlace
<1>13. HeadPlace'
  <2>1. Position(headIndex) \in Nat /\ Position(tailIndex) \in Nat /\ HeadPlace
    BY <1>1, Packed DEF IInv
  <2>2. Position(headIndex) <= Position(tailIndex) + 1
    BY <2>1 DEF HeadPlace
  <2>3. HeadLap < TailLap => HeadLap < TailLap + 1
    BY Numbers
  <2>. QED
    BY <1>2, <1>6, <1>7, <2>1, <2>2, <2>3 DEF HeadPlace
<1>14. FirstBlockOnce'
  BY <1>2, <1>7 DEF IInv, FirstBlockOnce
<1>15. Links'
  <2>1. Links
    BY DEF IInv
  <2> SUFFICES ASSUME NEW b \in Blocks
               PROVE  /\ next[b] \in {0, b + 1}
                      /\ next[b] # 0 => b <= TailLap + 1
                      /\ next[b] = 0 /\ b <= TailLap + 1 => \E q \in Threads : pc'[q] = "link" /\ block[q] = b
                      /\ b <= HeadLap => next[b] # 0
    BY <1>2, <1>6 DEF Links
  <2>2. b \in Nat
    BY BlocksNat
  <2>3. ASSUME next[b] = 0, b <= TailLap + 1
        PROVE  \E q \in Threads : pc'[q] = "link" /\ block[q] = b
    <3>1. CASE b = TailLap + 1
      BY <1>1, <1>3, <1>5, <3>1
    <3>2. CASE b # TailLap + 1
      <4>1. b <= TailLap
        BY <2>2, <2>3, <3>2, Numbers
      <4>2. PICK q \in Threads : pc[q] = "link" /\ block[q] = b
        BY <2>1, <2>3, <4>1 DEF Links
      <4>. QED
        BY <1>7, <4>2
    <3>. QED
      BY <3>1, <3>2
  <2>4. next[b] # 0 => b <= TailLap + 1
    BY <2>1, <2>2, Numbers DEF Links
  <2>. QED
    BY <2>1, <2>3, <2>4 DEF Links
<1>16. (OneSlotEach /\ Slots /\ Destruction)'
  BY <1>2, <1>7, SlotsSame
<1>17. ASSUME NEW q \in Threads
       PROVE  (Role(q) /\ SendCopy(q) /\ RecvCopy(q) /\ WriterToken(q) /\ ReaderToken(q))'
  <2>1. CASE q = p
    <3>1. Role(p)'
      BY <1>1, <1>2, <1>5 DEF IInv, Role, Sending, Receiving, SendLabels, RecvLabels
    <3>2. SendCopy(p)' /\ RecvCopy(p)' /\ ReaderToken(p)'
      BY <1>5 DEF SendCopy, Sending, RecvCopy, Receiving, ReaderToken, Reading
    <3>3. WriterToken(p)'
      <4>1. next[block[p]] = 0 /\ block[p] <= TailLap'
        <5>1. ~(block[p] <= TailLap) /\ block[p] <= TailLap'
          BY <1>3, <1>6, Numbers
        <5>. QED
          BY <1>3, <5>1 DEF IInv, Links
      <4>. QED
        BY <1>1, <1>2, <1>3, <1>5, <1>7, <1>8, <4>1 DEF WriterToken, State
    <3>. QED
      BY <2>1, <3>1, <3>2, <3>3
  <2>2. CASE q # p
    <3>1. \A b \in Blocks : \A i \in Offsets :
            State(b, i)' = State(b, i) /\ slotMsg'[b][i] = slotMsg[b][i]
      BY <1>2 DEF State
    <3>2. ThreadSame(q)
      BY <1>4, <2>2
    <3>3. Role(q)'
      BY <1>2, <3>2, RoleKept
    <3>4. SendCopy(q)'
      BY <1>1, <1>2, <1>6, <3>2, SendCopyKept
    <3>5. RecvCopy(q)'
      BY <1>1, <1>2, <1>6, <3>2, RecvCopyKept
    <3>6. WriterToken(q)'
      BY <1>1, <1>2, <1>3, <1>6, <2>2, <3>1, <3>2, Numbers, WriterTokenKept
    <3>7. ReaderToken(q)'
      BY <1>1, <1>2, <1>6, <3>1, <3>2, Numbers, ReaderTokenKept
    <3>. QED
      BY <3>3, <3>4, <3>5, <3>6, <3>7
  <2>. QED
    BY <2>1, <2>2
<1>. QED
  BY <1>10, <1>11, <1>12, <1>13, <1>14, <1>15, <1>16, <1>17 DEF IInv

LEMMA LinkIInv ==
  ASSUME IInv, NEW p \in Senders, Link(p)
  PROVE  IInv'
<1>1. p \in Threads /\ LocalTypes /\ tailIndex \in Nat /\ headIndex \in Nat /\ pc[p] = "link"
  BY LocalTypesHold, Numbers DEF Threads, Link, Goto
<1>2. WriterToken(p) /\ Writing(p) /\ Links
  BY <1>1 DEF IInv, Writing
<1>3. /\ block[p] \in Blocks /\ offset[p] \in Offsets /\ block[p] <= TailLap
      /\ offset[p] = BlockCap - 1 /\ block[p] \in Nat \ {0}
  BY <1>1, <1>2, BlocksNat DEF WriterToken
<1>4. /\ UNCHANGED <<headIndex, headBlock, tailIndex, tailBlock, slotState, slotMsg, freed>>
      /\ UNCHANGED <<index, newIndex, block, offset, nextBlock, sent, log, taken, got, at, reply>>
      /\ pc' = [pc EXCEPT ![p] = "write"]
      /\ next' = [next EXCEPT ![block[p]] = block[p] + 1]
  BY DEF Link, positions, ghosts, local, Goto
<1>5. \A q \in Threads : q # p => ThreadSame(q)
  BY <1>1, <1>4 DEF ThreadSame, LocalTypes
<1>6. pc'[p] = "write"
  BY <1>1, <1>4 DEF LocalTypes
<1>7. TailLap' = TailLap /\ TailOffset' = TailOffset /\ HeadLap' = HeadLap /\ HeadOffset' = HeadOffset
  BY <1>4 DEF TailLap, TailOffset, HeadLap, HeadOffset
<1>8. /\ next'[block[p]] = block[p] + 1 /\ block[p] + 1 # 0
      /\ \A b \in Blocks : b # block[p] => next'[b] = next[b]
  BY <1>3, <1>4 DEF IInv, TypeOK
<1>9. \A q \in Threads :
        /\ Writing(q)' <=> Writing(q)
        /\ Reading(q)' <=> Reading(q)
        /\ Destroying(q)' <=> Destroying(q)
        /\ MovesTail(q)' <=> MovesTail(q)
        /\ MovesHead(q)' <=> MovesHead(q)
        /\ pc'[q] = "link" <=> pc[q] = "link" /\ q # p
        /\ pc'[q] = "first_head" <=> pc[q] = "first_head"
        /\ pc'[q] = "destroy_bit" <=> pc[q] = "destroy_bit"
        /\ Uses(q)' <=> Uses(q)
  BY <1>1, <1>5, <1>6 DEF ThreadSame, Writing, Reading, Destroying, MovesTail, MovesHead, Uses
<1>10. \A q \in Threads : q # p /\ pc[q] = "link" => block[q] # block[p]
  <2> SUFFICES ASSUME NEW q \in Threads, q # p, pc[q] = "link" PROVE block[q] # block[p]
    OBVIOUS
  <2>1. WriterToken(q) /\ Writing(q)
    BY DEF IInv, Writing
  <2>2. offset[q] = BlockCap - 1
    BY <2>1 DEF WriterToken
  <2>. QED
    BY <1>1, <1>2, <1>3, <2>1, <2>2 DEF IInv, OneSlotEach
<1>11. LocalTypes'
  BY <1>1, <1>4 DEF LocalTypes, SendLabels
<1>12. TypeOK'
  <2>1. TypeOK
    BY DEF IInv
  <2>2. block[p] + 1 \in Blocks
    <3>1. TailLap + 1 \in Blocks /\ block[p] + 1 <= TailLap + 1
      BY <1>3, TailBlocks, Numbers
    <3>2. PICK n \in Nat : Blocks = 1 .. n
      BY BlocksUpTo
    <3>3. PICK b \in Nat : b = block[p]
      BY <1>3
    <3>4. b + 1 \in 1 .. n
      BY <3>1, <3>2, <3>3, Numbers
    <3>. QED
      BY <3>2, <3>3, <3>4
  <2>3. next' \in [Blocks -> {0} \union Blocks]
    BY <1>4, <2>1, <2>2 DEF TypeOK
  <2>. QED
    BY <1>4, <1>9, <1>11, <2>1, <2>3 DEF TypeOK, LocalTypes
<1>13. GhostTypes' /\ LogDistinct' /\ ReadsWhatWasSent'
  BY <1>4 DEF IInv, GhostTypes, LogDistinct, ReadsWhatWasSent
<1>14. TailPlace' /\ HeadPlace' /\ FirstBlockOnce'
  BY <1>4, <1>7, <1>9 DEF IInv, TailPlace, HeadPlace, FirstBlockOnce
<1>15. Links'
  <2> SUFFICES ASSUME NEW b \in Blocks
               PROVE  /\ next'[b] \in {0, b + 1}
                      /\ next'[b] # 0 => b <= TailLap
                      /\ next'[b] = 0 /\ b <= TailLap => \E q \in Threads : pc'[q] = "link" /\ block[q] = b
                      /\ b <= HeadLap => next'[b] # 0
    BY <1>4, <1>7 DEF Links
  <2>1. CASE b = block[p]
    BY <1>3, <1>8, <2>1
  <2>2. CASE b # block[p]
    BY <1>2, <1>8, <1>9, <2>2 DEF Links
  <2>. QED
    BY <2>1, <2>2
<1>16. (OneSlotEach /\ Slots /\ Destruction)'
  BY <1>4, <1>9, SlotsSame
<1>17. ASSUME NEW q \in Threads
       PROVE  (Role(q) /\ SendCopy(q) /\ RecvCopy(q) /\ WriterToken(q) /\ ReaderToken(q))'
  <2>1. CASE q = p
    <3>1. Role(p)'
      BY <1>1, <1>4, <1>6 DEF IInv, Role, Sending, Receiving, SendLabels, RecvLabels
    <3>2. SendCopy(p)' /\ RecvCopy(p)' /\ ReaderToken(p)'
      BY <1>6 DEF SendCopy, Sending, RecvCopy, Receiving, ReaderToken, Reading
    <3>3. WriterToken(p)'
      BY <1>1, <1>2, <1>4, <1>6 DEF WriterToken, State, MovesTail
    <3>. QED
      BY <2>1, <3>1, <3>2, <3>3
  <2>2. CASE q # p
    <3>1. \A b \in Blocks : \A i \in Offsets :
            State(b, i)' = State(b, i) /\ slotMsg'[b][i] = slotMsg[b][i]
      BY <1>4 DEF State
    <3>2. ThreadSame(q)
      BY <1>5, <2>2
    <3>3. Role(q)'
      BY <1>4, <3>2, RoleKept
    <3>4. SendCopy(q)'
      BY <1>1, <1>4, <3>2, SendCopyKept
    <3>5. RecvCopy(q)'
      BY <1>1, <1>4, <3>2, RecvCopyKept
    <3>6. pc[q] = "link" => next'[block[q]] = next[block[q]]
      <4>1. pc[q] = "link" => block[q] \in Blocks
        BY DEF IInv, WriterToken, Writing
      <4>. QED
        BY <1>8, <1>10, <2>2, <4>1
    <3>7. WriterToken(q)'
      BY <1>1, <1>4, <3>1, <3>2, <3>6, Numbers, WriterTokenKept
    <3>8. \A b \in Blocks : next[b] # 0 => next'[b] # 0
      BY <1>8
    <3>9. ReaderToken(q)'
      BY <1>1, <1>4, <3>1, <3>2, <3>8, Numbers, ReaderTokenKept
    <3>. QED
      BY <3>3, <3>4, <3>5, <3>7, <3>9
  <2>. QED
    BY <2>1, <2>2
<1>. QED
  BY <1>12, <1>13, <1>14, <1>15, <1>16, <1>17 DEF IInv

------------------------------------------------------------------------------
(***************************************************************************)
(* Steps that leave the positions alone: into a slot, out of it, and the   *)
(* destruction of blocks.                                                  *)
(***************************************************************************)
LEMMA PlaceStep ==
  ASSUME IInv, NEW p \in Threads, UNCHANGED <<positions, next, sent, log, taken>>,
         \A q \in Threads : q # p => ThreadSame(q),
         pc[p] \notin {"first_head", "link"}, pc'[p] \notin {"first_head", "link"},
         ~MovesTail(p), ~MovesTail(p)', MovesHead(p)' <=> MovesHead(p),
         Writing(p)' => Writing(p), Reading(p)' => Reading(p),
         Writing(p)' \/ Reading(p)' => block'[p] = block[p] /\ offset'[p] = offset[p],
         \A q \in Threads : q # p =>
           \A b \in Blocks : \A i \in Offsets :
             /\ WritesSlot(q, b, i) => /\ "WRITE" \in State(b, i)' => "WRITE" \in State(b, i)
                                       /\ slotMsg'[b][i] = slotMsg[b][i]
             /\ ReadsSlot(q, b, i) => /\ "READ" \in State(b, i)' => "READ" \in State(b, i)
                                      /\ "WRITE" \in State(b, i) => "WRITE" \in State(b, i)',
         TypeOK', GhostTypes', ReadsWhatWasSent', (Slots /\ Destruction)',
         (Role(p) /\ SendCopy(p) /\ RecvCopy(p) /\ WriterToken(p) /\ ReaderToken(p))'
  PROVE  IInv'
<1>1. LogDistinct'
  BY DEF IInv, LogDistinct
<1>2. OneSlotEach'
  <2>1. \A q \in Threads :
          /\ Writing(q)' => Writing(q)
          /\ Reading(q)' => Reading(q)
          /\ Writing(q)' \/ Reading(q)' => block'[q] = block[q] /\ offset'[q] = offset[q]
    BY DEF ThreadSame, Writing, Reading
  <2>. QED
    BY <2>1 DEF IInv, OneSlotEach
<1>3. (TailPlace /\ HeadPlace /\ FirstBlockOnce /\ Links)'
  <2>1. \A q \in Threads : /\ MovesTail(q)' <=> MovesTail(q)
                           /\ MovesHead(q)' <=> MovesHead(q)
                           /\ pc'[q] = "first_head" <=> pc[q] = "first_head"
                           /\ pc'[q] = "link" <=> pc[q] = "link"
                           /\ pc[q] \in {"first_head", "link"} => block'[q] = block[q]
    <3> SUFFICES ASSUME NEW q \in Threads
                 PROVE /\ MovesTail(q)' <=> MovesTail(q)
                       /\ MovesHead(q)' <=> MovesHead(q)
                       /\ pc'[q] = "first_head" <=> pc[q] = "first_head"
                       /\ pc'[q] = "link" <=> pc[q] = "link"
                       /\ pc[q] \in {"first_head", "link"} => block'[q] = block[q]
      OBVIOUS
    <3>1. CASE q = p
      BY <3>1
    <3>2. CASE q # p
      BY <3>2 DEF ThreadSame, MovesTail, MovesHead
    <3>. QED
      BY <3>1, <3>2
  <2>. QED
    BY <2>1, PositionsSame
<1>4. ASSUME NEW q \in Threads
      PROVE  (Role(q) /\ SendCopy(q) /\ RecvCopy(q) /\ WriterToken(q) /\ ReaderToken(q))'
  <2>1. CASE q = p
    BY <2>1
  <2>2. CASE q # p
    BY <2>2, ThreadKept
  <2>. QED
    BY <2>1, <2>2
<1>. QED
  BY <1>1, <1>2, <1>3, <1>4 DEF IInv

\* A bit is set in the slot at hand, and in no other.
LEMMA AddBitState ==
  ASSUME IInv, NEW p \in Threads, block[p] \in Blocks, offset[p] \in Offsets,
         NEW bit \in {"WRITE", "READ", "DESTROY"}, AddBit(p, bit)
  PROVE  /\ slotState' \in [Blocks -> [Offsets -> SUBSET {"WRITE", "READ", "DESTROY"}]]
         /\ slotState'[block[p]][offset[p]] = State(block[p], offset[p]) \union {bit}
         /\ \A b \in Blocks : \A i \in Offsets :
              /\ b # block[p] \/ i # offset[p] => State(b, i)' = State(b, i)
              /\ State(b, i) \subseteq State(b, i)'
              /\ State(b, i)' \subseteq State(b, i) \union {bit}
<1>1. slotState \in [Blocks -> [Offsets -> SUBSET {"WRITE", "READ", "DESTROY"}]]
  BY DEF IInv, TypeOK
<1>2. slotState' = [slotState EXCEPT ![block[p]] = [slotState[block[p]] EXCEPT ![offset[p]] =
                      slotState[block[p]][offset[p]] \union {bit}]]
  BY <1>1 DEF AddBit
<1> DEFINE s == [slotState[block[p]] EXCEPT ![offset[p]] = slotState[block[p]][offset[p]] \union {bit}]
<1>3. slotState[block[p]] \in [Offsets -> SUBSET {"WRITE", "READ", "DESTROY"}]
  BY <1>1
<1>4. s \in [Offsets -> SUBSET {"WRITE", "READ", "DESTROY"}]
  BY <1>3
<1>5. /\ s[offset[p]] = slotState[block[p]][offset[p]] \union {bit}
      /\ \A i \in Offsets : i # offset[p] => s[i] = slotState[block[p]][i]
  BY <1>3
<1>6. slotState' = [slotState EXCEPT ![block[p]] = s]
  BY <1>2
<1> HIDE DEF s
<1>7. slotState' \in [Blocks -> [Offsets -> SUBSET {"WRITE", "READ", "DESTROY"}]]
  BY <1>1, <1>4, <1>6
<1>8. /\ slotState'[block[p]] = s
      /\ \A b \in Blocks : b # block[p] => slotState'[b] = slotState[b]
  BY <1>1, <1>6
<1>9. slotState'[block[p]][offset[p]] = State(block[p], offset[p]) \union {bit}
  BY <1>5, <1>8 DEF State
<1>10. ASSUME NEW b \in Blocks, NEW i \in Offsets
       PROVE  /\ b # block[p] \/ i # offset[p] => State(b, i)' = State(b, i)
              /\ State(b, i) \subseteq State(b, i)'
              /\ State(b, i)' \subseteq State(b, i) \union {bit}
  <2>1. b # block[p] \/ i # offset[p] => State(b, i)' = State(b, i)
    BY <1>5, <1>8 DEF State
  <2>2. b = block[p] /\ i = offset[p] => State(b, i)' = State(b, i) \union {bit}
    BY <1>9 DEF State
  <2>. QED
    BY <2>1, <2>2
<1>. QED
  BY <1>7, <1>9, <1>10

------------------------------------------------------------------------------
(***************************************************************************)
(* write.                                                                  *)
(***************************************************************************)
LEMMA WriteIInv ==
  ASSUME IInv, NEW p \in Senders, Write(p)
  PROVE  IInv'
<1>1. p \in Threads /\ LocalTypes /\ pc[p] = "write"
  BY LocalTypesHold DEF Threads, Write, Goto
<1>2. /\ UNCHANGED <<positions, headIndex, headBlock, tailIndex, tailBlock, next, slotState, freed>>
      /\ UNCHANGED <<index, newIndex, block, offset, nextBlock, sent, log, taken, got, at, reply>>
      /\ pc' = [pc EXCEPT ![p] = "publish"]
      /\ slotMsg' = [slotMsg EXCEPT ![block[p]][offset[p]] = Msg(p, sent[p])]
  BY DEF Write, positions, ghosts, local, Goto
<1>3. WriterToken(p) /\ Role(p) /\ Writing(p)
  BY <1>1 DEF IInv, Writing
<1>4. /\ block[p] \in Blocks /\ offset[p] \in Offsets /\ log[at[p] + 1] = Msg(p, sent[p])
      /\ "WRITE" \notin State(block[p], offset[p]) /\ at[p] < Len(log)
  BY <1>3 DEF WriterToken
<1>5. Msg(p, sent[p]) \in Message
  <2>1. log \in Seq(Message) /\ at[p] \in Nat /\ Len(log) \in Nat
    BY <1>1, Numbers DEF IInv, GhostTypes
  <2>2. at[p] + 1 \in 1 .. Len(log)
    BY <1>4, <2>1
  <2>. QED
    BY <1>4, <2>1, <2>2, ElementOfSeq
<1> DEFINE m == Msg(p, sent[p])
<1>6. slotMsg \in [Blocks -> [Offsets -> Message \union {NoMsg}]]
  BY DEF IInv, TypeOK
<1>7. /\ slotMsg' \in [Blocks -> [Offsets -> Message \union {NoMsg}]]
      /\ slotMsg'[block[p]][offset[p]] = m
      /\ \A b \in Blocks : \A i \in Offsets :
           b # block[p] \/ i # offset[p] => slotMsg'[b][i] = slotMsg[b][i]
  <2>1. m \in Message
    BY <1>5
  <2> DEFINE s == [slotMsg[block[p]] EXCEPT ![offset[p]] = m]
  <2>2. slotMsg' = [slotMsg EXCEPT ![block[p]] = s]
    BY <1>2, <1>6
  <2> HIDE DEF m
  <2>3. s \in [Offsets -> Message \union {NoMsg}]
    BY <1>4, <1>6, <2>1
  <2>4. s[offset[p]] = m /\ \A i \in Offsets : i # offset[p] => s[i] = slotMsg[block[p]][i]
    BY <1>4, <1>6
  <2> HIDE DEF s
  <2>5. /\ slotMsg'[block[p]] = s
        /\ \A b \in Blocks : b # block[p] => slotMsg'[b] = slotMsg[b]
        /\ slotMsg' \in [Blocks -> [Offsets -> Message \union {NoMsg}]]
    BY <1>4, <1>6, <2>2, <2>3
  <2>. QED
    BY <2>4, <2>5
<1>8. \A q \in Threads : q # p => ThreadSame(q)
  BY <1>1, <1>2 DEF ThreadSame, LocalTypes
<1>9. pc'[p] = "publish"
  BY <1>1, <1>2 DEF LocalTypes
<1>10. \A q \in Threads :
        /\ Writing(q)' <=> Writing(q)
        /\ Reading(q)' <=> Reading(q)
        /\ Destroying(q)' <=> Destroying(q)
        /\ pc'[q] = "destroy_bit" <=> pc[q] = "destroy_bit"
        /\ Uses(q)' <=> Uses(q)
  BY <1>1, <1>8, <1>9 DEF ThreadSame, Writing, Reading, Destroying, Uses
<1>11. LocalTypes'
  BY <1>1, <1>2 DEF LocalTypes, SendLabels
<1>12. TypeOK'
  BY <1>2, <1>7, <1>10, <1>11 DEF IInv, TypeOK, LocalTypes
<1>13. GhostTypes' /\ ReadsWhatWasSent'
  BY <1>2 DEF IInv, GhostTypes, ReadsWhatWasSent
<1>14. (Slots /\ Destruction)'
  <2>1. \A b \in Blocks : \A i \in Offsets : "WRITE" \in State(b, i) => slotMsg'[b][i] = slotMsg[b][i]
    BY <1>4, <1>7
  <2>. QED
    BY <1>2, <1>10, <2>1, SlotsSame
<1>15. \A q \in Threads : q # p => \A b \in Blocks : \A i \in Offsets :
         WritesSlot(q, b, i) => slotMsg'[b][i] = slotMsg[b][i]
  BY <1>1, <1>3, <1>7 DEF IInv, OneSlotEach, WritesSlot
<1>16. \A b, i : State(b, i)' = State(b, i)
  BY <1>2 DEF State
<1>17. Role(p)' /\ SendCopy(p)' /\ RecvCopy(p)' /\ ReaderToken(p)'
  BY <1>1, <1>2, <1>3, <1>9 DEF Role, Sending, Receiving, SendLabels, RecvLabels, SendCopy, RecvCopy,
                                 ReaderToken, Reading
<1>18. WriterToken(p)'
  <2>1. slotMsg'[block'[p]][offset'[p]] = log'[at'[p] + 1]
    BY <1>2, <1>4, <1>7
  <2>. QED
    BY <1>1, <1>2, <1>3, <1>9, <1>10, <2>1 DEF WriterToken, State, MovesTail
<1>19. /\ ~MovesTail(p) /\ ~MovesTail(p)' /\ ~MovesHead(p) /\ ~MovesHead(p)'
       /\ ~Reading(p)'
  BY <1>1, <1>9 DEF MovesTail, MovesHead, Reading
<1>. QED
  BY <1>1, <1>2, <1>3, <1>8, <1>9, <1>12, <1>13, <1>14, <1>15, <1>16, <1>17, <1>18, <1>19, PlaceStep

LEMMA PublishIInv ==
  ASSUME IInv, NEW p \in Senders, Publish(p)
  PROVE  IInv'
<1>1. p \in Threads /\ LocalTypes /\ pc[p] = "publish"
  BY LocalTypesHold DEF Threads, Publish, Goto
<1>2. /\ UNCHANGED <<positions, headIndex, headBlock, tailIndex, tailBlock, next, slotMsg, freed>>
      /\ UNCHANGED <<index, newIndex, block, offset, nextBlock, sent, log, taken, got, at, reply>>
      /\ pc' = [pc EXCEPT ![p] = "idle"]
  BY DEF Publish, positions, ghosts, local, Goto
<1>3. WriterToken(p) /\ Role(p) /\ Writing(p) /\ Slots /\ Destruction
  BY <1>1 DEF IInv, Writing
<1>4. /\ block[p] \in Blocks /\ offset[p] \in Offsets
      /\ at[p] = Num(block[p], offset[p]) /\ at[p] < Len(log)
      /\ slotMsg[block[p]][offset[p]] = log[at[p] + 1]
  BY <1>1, <1>3 DEF WriterToken
<1>5. /\ slotState' \in [Blocks -> [Offsets -> SUBSET {"WRITE", "READ", "DESTROY"}]]
      /\ slotState'[block[p]][offset[p]] = State(block[p], offset[p]) \union {"WRITE"}
      /\ \A b \in Blocks : \A i \in Offsets :
           /\ b # block[p] \/ i # offset[p] => State(b, i)' = State(b, i)
           /\ State(b, i) \subseteq State(b, i)'
           /\ State(b, i)' \subseteq State(b, i) \union {"WRITE"}
  BY <1>1, <1>4, AddBitState DEF Publish
<1>6. \A b \in Blocks : \A i \in Offsets :
        /\ "READ" \in State(b, i)' <=> "READ" \in State(b, i)
        /\ "DESTROY" \in State(b, i)' <=> "DESTROY" \in State(b, i)
        /\ "WRITE" \in State(b, i) => "WRITE" \in State(b, i)'
        /\ "WRITE" \in State(b, i)' => "WRITE" \in State(b, i) \/ (b = block[p] /\ i = offset[p])
  BY <1>5
<1>7. \A q \in Threads : q # p => ThreadSame(q)
  BY <1>1, <1>2 DEF ThreadSame, LocalTypes
<1>8. pc'[p] = "idle"
  BY <1>1, <1>2 DEF LocalTypes
<1>9. \A q \in Threads :
        /\ Writing(q)' <=> Writing(q) /\ q # p
        /\ Reading(q)' <=> Reading(q)
        /\ Destroying(q)' <=> Destroying(q)
        /\ pc'[q] = "destroy_bit" <=> pc[q] = "destroy_bit"
        /\ Uses(q)' => Uses(q)
  BY <1>1, <1>7, <1>8 DEF ThreadSame, Writing, Reading, Destroying, Uses
<1>10. LocalTypes'
  BY <1>1, <1>2 DEF LocalTypes
<1>11. TypeOK'
  BY <1>2, <1>5, <1>9, <1>10 DEF IInv, TypeOK, LocalTypes
<1>12. GhostTypes' /\ ReadsWhatWasSent'
  BY <1>2 DEF IInv, GhostTypes, ReadsWhatWasSent
<1>13. \A q \in Threads : \A b, i :
         /\ WritesSlot(q, b, i)' <=> WritesSlot(q, b, i) /\ q # p
         /\ ReadsSlot(q, b, i)' <=> ReadsSlot(q, b, i)
         /\ Destroys(q, b)' <=> Destroys(q, b)
  BY <1>2, <1>9 DEF WritesSlot, ReadsSlot, Destroys
<1>14. Slots'
  <2> SUFFICES ASSUME NEW b \in Blocks, NEW i \in Offsets
               PROVE  /\ "WRITE" \in State(b, i)' => Num(b, i) < Len(log) /\ slotMsg[b][i] = log[Num(b, i) + 1]
                      /\ "WRITE" \notin State(b, i)' /\ Num(b, i) < Len(log) =>
                           \E q \in Threads : WritesSlot(q, b, i)'
                      /\ "READ" \in State(b, i)' => Num(b, i) < taken /\ "WRITE" \in State(b, i)'
                      /\ "READ" \notin State(b, i)' /\ Num(b, i) < taken /\ i # BlockCap - 1 =>
                           \E q \in Threads : ReadsSlot(q, b, i)'
    BY <1>2 DEF Slots
  <2>1. ASSUME "WRITE" \notin State(b, i)', Num(b, i) < Len(log)
        PROVE  \E q \in Threads : WritesSlot(q, b, i)'
    <3>1. PICK q \in Threads : WritesSlot(q, b, i)
      BY <1>3, <1>6, <2>1 DEF Slots
    <3>2. b # block[p] \/ i # offset[p]
      BY <1>5, <2>1 DEF State
    <3>3. q # p
      BY <3>1, <3>2 DEF WritesSlot
    <3>. QED
      BY <1>13, <3>1, <3>3
  <2>. QED
    BY <1>3, <1>4, <1>6, <1>13, <2>1 DEF Slots
<1>15. Destruction'
  <2>1. \A b \in Blocks : \A d \in Offsets : LeftAt(b, d)' <=> LeftAt(b, d)
    BY <1>6 DEF LeftAt
  <2>2. \A b \in Blocks : \A d : UpTo(b, d)' <=> UpTo(b, d)
    BY <1>6 DEF UpTo
  <2>3. \A b \in Blocks : Begun(b)' <=> Begun(b)
    BY <1>2, <1>13 DEF Begun
  <2>4. \A b \in Blocks : "WRITE" \in State(b, BlockCap - 1) => "WRITE" \in State(b, BlockCap - 1)'
    BY <1>6, BlocksNat
  <2> SUFFICES ASSUME NEW b \in Blocks PROVE DestructionOf(b)'
    BY DEF Destruction
  <2>5. DestructionOf(b)
    BY <1>3 DEF Destruction
  <2>. QED
    BY <1>2, <1>6, <1>9, <1>13, <2>1, <2>2, <2>3, <2>4, <2>5 DEF DestructionOf
<1>16. Role(p)' /\ SendCopy(p)' /\ RecvCopy(p)' /\ ReaderToken(p)' /\ WriterToken(p)'
  <2>1. reply[p].kind \notin Fifo!InProgress
    BY <1>1, <1>3 DEF Role, Sending, Receiving
  <2>. QED
    BY <1>2, <1>8, <2>1 DEF Role, Sending, Receiving, SendLabels, RecvLabels, SendCopy, RecvCopy,
                       ReaderToken, Reading, WriterToken, Writing
<1>17. /\ ~MovesTail(p) /\ ~MovesTail(p)' /\ ~MovesHead(p) /\ ~MovesHead(p)'
       /\ ~Reading(p)' /\ ~Writing(p)'
  BY <1>1, <1>8 DEF MovesTail, MovesHead, Reading, Writing
<1>18. \A q \in Threads : q # p => \A b \in Blocks : \A i \in Offsets :
         WritesSlot(q, b, i) => b # block[p] \/ i # offset[p]
  BY <1>1, <1>3 DEF IInv, OneSlotEach, WritesSlot
<1>19. \A q \in Threads : q # p =>
           \A b \in Blocks : \A i \in Offsets :
             /\ WritesSlot(q, b, i) => /\ "WRITE" \in State(b, i)' => "WRITE" \in State(b, i)
                                       /\ slotMsg'[b][i] = slotMsg[b][i]
             /\ ReadsSlot(q, b, i) => /\ "READ" \in State(b, i)' => "READ" \in State(b, i)
                                      /\ "WRITE" \in State(b, i) => "WRITE" \in State(b, i)'
  BY <1>2, <1>6, <1>18
<1>. QED
  BY <1>1, <1>2, <1>7, <1>8, <1>11, <1>12, <1>14, <1>15, <1>16, <1>17, <1>19, PlaceStep

LEMMA ShutdownIInv ==
  ASSUME IInv, Shutdown
  PROVE  IInv'
<1>1. LocalTypes /\ tailIndex \in Nat /\ headIndex \in Nat
  BY LocalTypesHold, Numbers
<1>2. /\ UNCHANGED <<headIndex, headBlock, tailBlock, next, slotState, slotMsg, freed, pc>>
      /\ UNCHANGED <<index, newIndex, block, offset, nextBlock, sent, log, taken, got, at, reply>>
      /\ tailIndex' = Mark(tailIndex)
  BY DEF Shutdown, blocks, ghosts, local
<1>3. /\ tailIndex' \in Nat /\ tailIndex <= tailIndex' /\ Marked(tailIndex')
      /\ TailLap' = TailLap /\ TailOffset' = TailOffset
      /\ Position(tailIndex') = Position(tailIndex)
      /\ HeadLap' = HeadLap /\ HeadOffset' = HeadOffset
  BY <1>1, <1>2, IndexMark DEF TailLap, TailOffset, HeadLap, HeadOffset
<1>4. \A q \in Threads : ThreadSame(q)
  BY <1>2 DEF ThreadSame
<1>5. \A q \in Threads :
        /\ Writing(q)' <=> Writing(q)
        /\ Reading(q)' <=> Reading(q)
        /\ Destroying(q)' <=> Destroying(q)
        /\ MovesTail(q)' <=> MovesTail(q)
        /\ MovesHead(q)' <=> MovesHead(q)
        /\ Uses(q)' <=> Uses(q)
  BY <1>2 DEF Writing, Reading, Destroying, MovesTail, MovesHead, Uses
<1>6. TypeOK'
  BY <1>2, <1>3, <1>5 DEF IInv, TypeOK
<1>7. GhostTypes' /\ LogDistinct' /\ ReadsWhatWasSent'
  BY <1>2 DEF IInv, GhostTypes, LogDistinct, ReadsWhatWasSent
<1>8. TailPlace' /\ HeadPlace'
  BY <1>2, <1>3, <1>5 DEF IInv, TailPlace, HeadPlace
<1>9. FirstBlockOnce' /\ Links'
  BY <1>2, <1>3 DEF IInv, FirstBlockOnce, Links
<1>10. (OneSlotEach /\ Slots /\ Destruction)'
  BY <1>2, <1>5, SlotsSame
<1>11. ASSUME NEW q \in Threads
       PROVE  (Role(q) /\ SendCopy(q) /\ RecvCopy(q) /\ WriterToken(q) /\ ReaderToken(q))'
  <2>1. Role(q)'
    BY <1>2, <1>4, RoleKept
  <2>2. SendCopy(q)'
    <3>1. tailIndex < tailIndex' \/ tailIndex' = tailIndex
      BY <1>1, <1>3
    <3>. QED
      BY <1>2, <1>3, <1>4, <3>1, SendCopyKept
  <2>3. RecvCopy(q)'
    BY <1>1, <1>2, <1>3, <1>4, RecvCopyKept
  <2>4. WriterToken(q)'
    BY <1>2, <1>3, <1>5 DEF IInv, WriterToken, State
  <2>5. ReaderToken(q)'
    BY <1>2, <1>3, <1>5 DEF IInv, ReaderToken, State
  <2>. QED
    BY <2>1, <2>2, <2>3, <2>4, <2>5
<1>. QED
  BY <1>6, <1>7, <1>8, <1>9, <1>10, <1>11 DEF IInv

------------------------------------------------------------------------------
(***************************************************************************)
(* The compare-exchange on head.index.                                     *)
(***************************************************************************)
LEMMA RecvReserveIInv ==
  ASSUME IInv, NEW p \in Receivers, RecvReserve(p)
  PROVE  IInv'
<1> DEFINE m == log[taken + 1]
           l == IF offset[p] + 1 = BlockCap THEN "wait_next" ELSE "wait_write"
<1>1. p \in Threads /\ LocalTypes /\ tailIndex \in Nat /\ headIndex \in Nat /\ pc[p] = "recv_cas"
      /\ at \in [Threads -> Nat]
  BY LocalTypesHold, Numbers DEF Threads, RecvReserve, Goto, IInv, GhostTypes
<1>2. /\ UNCHANGED <<headBlock, tailIndex, tailBlock, next, slotState, slotMsg, freed>>
      /\ UNCHANGED <<index, newIndex, block, offset, nextBlock, sent, log, got>>
      /\ pc' = [pc EXCEPT ![p] = l] /\ headIndex = index[p] /\ headIndex' = newIndex[p]
      /\ taken' = taken + 1
      /\ at' = [at EXCEPT ![p] = taken] /\ reply' = [reply EXCEPT ![p] = Received(m)]
  BY <1>1 DEF RecvReserve, blocks, local, Goto, Answer, Keep
<1>3. RecvCopy(p) /\ HeadPlace /\ TailPlace /\ FirstBlockOnce /\ Slots /\ Links
  BY <1>1 DEF IInv
<1>4. /\ offset[p] = HeadOffset /\ HeadOffset # BlockCap
      /\ block[p] # 0 /\ block[p] = headBlock
      /\ newIndex[p] \in {headIndex + One, Mark(headIndex + One)}
      /\ Position(headIndex) < Position(tailIndex)
      /\ Marked(newIndex[p]) => HeadLap < TailLap
  BY <1>1, <1>2, <1>3 DEF RecvCopy, HeadOffset
<1>5. \A q \in Threads : ~MovesHead(q)
  <2> SUFFICES ASSUME NEW q \in Threads, MovesHead(q) PROVE FALSE
    OBVIOUS
  <2>1. ReaderToken(q) /\ Reading(q)
    BY DEF IInv, MovesHead, Reading
  <2>. QED
    BY <1>4, <2>1 DEF ReaderToken
<1>6. /\ block[p] = HeadLap + 1 /\ block[p] \in Blocks /\ offset[p] \in Offsets
      /\ offset[p] \in 0 .. BlockCap /\ block[p] \in Nat \ {0}
      /\ taken = Num(block[p], offset[p])
  <2>1. block[p] = HeadLap + 1
    BY <1>3, <1>4, <1>5 DEF HeadPlace
  <2>2. offset[p] \in Offsets
    BY <1>4, Numbers DEF Offsets
  <2>3. block[p] \in Blocks
    BY <1>1, <1>4 DEF LocalTypes
  <2>. QED
    BY <2>1, <2>2, <2>3, <1>3, <1>4, BlocksNat DEF HeadPlace
<1>7. /\ headIndex' \in Nat /\ headIndex < headIndex' /\ headIndex <= headIndex'
      /\ HeadLap' = HeadLap /\ HeadOffset' = HeadOffset + 1
      /\ Position(headIndex') = Position(headIndex) + 1
      /\ TailLap' = TailLap /\ TailOffset' = TailOffset
      /\ Marked(headIndex') => HeadLap < TailLap
  <2>1. /\ headIndex + One \in Nat
        /\ Position(headIndex + One) = Position(headIndex) + 1
        /\ LapOf(headIndex + One) = HeadLap /\ OffsetOf(headIndex + One) = HeadOffset + 1
    BY <1>1, <1>4, IndexNext DEF HeadLap, HeadOffset
  <2>2. /\ headIndex' \in Nat /\ Position(headIndex') = Position(headIndex) + 1
        /\ LapOf(headIndex') = HeadLap /\ OffsetOf(headIndex') = HeadOffset + 1
    BY <1>2, <1>4, <2>1, IndexMark
  <2>3. headIndex < headIndex' /\ headIndex <= headIndex'
    <3>1. Position(headIndex) \in Nat
      BY <1>1, Packed
    <3>2. Position(headIndex) < Position(headIndex')
      BY <2>2, <3>1
    <3>3. headIndex < headIndex'
      BY <1>1, <2>2, <3>2, IndexOrder
    <3>. QED
      BY <1>1, <2>2, <3>3
  <2>. QED
    BY <1>2, <1>4, <2>2, <2>3 DEF TailLap, TailOffset, HeadLap, HeadOffset
<1>8. /\ taken \in Nat /\ taken' \in Nat /\ taken < Len(log) /\ taken <= taken' /\ taken' <= Len(log)
      /\ Len(log) \in Nat
  <2>1. HeadLap < TailLap \/ (HeadLap = TailLap /\ HeadOffset < TailOffset)
    BY <1>1, <1>4, IndexOrder DEF HeadLap, TailLap, HeadOffset, TailOffset
  <2>2. PICK b \in Nat \ {0}, c \in Nat \ {0} : b = HeadLap + 1 /\ c = TailLap + 1
    BY Numbers
  <2>3. b < c \/ (b = c /\ offset[p] < TailOffset)
    BY <1>4, <2>1, <2>2, Numbers
  <2>4. Num(b, offset[p]) < Num(c, TailOffset)
    BY <1>6, <2>3, NumOrder, Numbers
  <2>5. taken < Len(log)
    BY <1>3, <1>6, <2>2, <2>4 DEF TailPlace
  <2>. QED
    BY <1>2, <2>5, Numbers
<1>9. m \in Message
  <2>1. log \in Seq(Message) /\ taken + 1 \in 1 .. Len(log)
    BY <1>8 DEF IInv, GhostTypes
  <2>. QED
    BY <2>1, ElementOfSeq
<1>10. /\ l \in {"wait_next", "wait_write"} /\ pc'[p] = l /\ at'[p] = taken
       /\ reply'[p] = Received(m)
  BY <1>1, <1>2 DEF LocalTypes
<1>11. l = "wait_next" <=> HeadOffset + 1 = BlockCap
  BY <1>4
<1>12. LocalTypes'
  <2>1. Received(m) \in [kind : Fifo!ReplyKinds, msg : Message \union {NoMsg}]
    BY <1>9, RepliesTyped
  <2> HIDE DEF l, m
  <2>. QED
    BY <1>1, <1>2, <1>10, <2>1 DEF LocalTypes, RecvLabels
<1> HIDE DEF m, l
<1>13. \A q \in Threads : q # p => ThreadSame(q)
  BY <1>1, <1>2 DEF ThreadSame, LocalTypes
<1>14. \A q \in Threads :
        /\ Writing(q)' <=> Writing(q)
        /\ Reading(q)' <=> Reading(q) \/ q = p
        /\ Destroying(q)' <=> Destroying(q)
        /\ MovesTail(q)' <=> MovesTail(q)
        /\ pc'[q] = "link" <=> pc[q] = "link"
        /\ pc'[q] = "destroy_bit" <=> pc[q] = "destroy_bit"
        /\ pc'[q] = "first_head" <=> pc[q] = "first_head"
        /\ Uses(q)' => Uses(q) \/ q = p
  BY <1>1, <1>10, <1>13 DEF ThreadSame, Writing, Reading, Destroying, MovesTail, Uses
<1>15. (MovesHead(p)' <=> l = "wait_next") /\ ~Reading(p) /\ ~Destroying(p)
  BY <1>1, <1>10 DEF MovesHead, Reading, Destroying
<1>16. "READ" \notin State(block[p], offset[p])
  BY <1>3, <1>6, <1>8 DEF Slots
<1>17. TypeOK'
  <2>1. TypeOK
    BY DEF IInv
  <2>2. \A q \in Threads : Uses(q)' => offset'[q] \in Offsets /\ block'[q] \in Blocks
    BY <1>2, <1>6, <1>14, <2>1 DEF TypeOK
  <2>. QED
    BY <1>2, <1>7, <1>8, <1>12, <2>1, <2>2 DEF TypeOK, LocalTypes
<1>18. GhostTypes' /\ LogDistinct' /\ ReadsWhatWasSent'
  <2>1. at' \in [Threads -> Nat]
    BY <1>1, <1>2, <1>8
  <2>. QED
    BY <1>2, <1>8, <2>1 DEF IInv, GhostTypes, LogDistinct, ReadsWhatWasSent
<1>19. TailPlace'
  BY <1>2, <1>7, <1>14 DEF IInv, TailPlace
<1>20. HeadPlace'
  <2>1. Num(block[p], offset[p] + 1) = Num(block[p], offset[p]) + 1
    BY <1>6, NumNext
  <2>2. taken' = Num(HeadLap' + 1, HeadOffset')
    BY <1>2, <1>4, <1>6, <1>7, <2>1
  <2>3. Position(headIndex') <= Position(tailIndex')
    <3>1. Position(headIndex) \in Nat /\ Position(tailIndex) \in Nat
      BY <1>1, Packed
    <3>. QED
      BY <1>2, <1>4, <1>7, <3>1
  <2>4. (\A q \in Threads : ~MovesHead(q)') => HeadOffset' # BlockCap
    BY <1>1, <1>7, <1>11, <1>15
  <2>. QED
    BY <1>2, <1>4, <1>6, <1>7, <2>2, <2>3, <2>4 DEF HeadPlace
<1>21. FirstBlockOnce'
  BY <1>2, <1>3, <1>4, <1>14 DEF FirstBlockOnce
<1>22. Links'
  BY <1>2, <1>3, <1>7, <1>14 DEF Links
<1>23. \A q \in Threads : Reading(q) => block[q] # block[p] \/ offset[q] # offset[p]
  <2> SUFFICES ASSUME NEW q \in Threads, Reading(q)
               PROVE  block[q] # block[p] \/ offset[q] # offset[p]
    OBVIOUS
  <2>1. ReaderToken(q)
    BY DEF IInv
  <2>2. at[q] = Num(block[q], offset[q]) /\ at[q] < taken
    BY <2>1 DEF ReaderToken
  <2>. QED
    BY <1>6, <1>8, <2>2
<1>24. OneSlotEach'
  BY <1>2, <1>14, <1>23 DEF IInv, OneSlotEach
<1>25. \A q \in Threads : \A b, i : /\ WritesSlot(q, b, i)' <=> WritesSlot(q, b, i)
                                    /\ ReadsSlot(q, b, i)' <=>
                                         ReadsSlot(q, b, i) \/ (q = p /\ b = block[p] /\ i = offset[p])
                                    /\ Destroys(q, b)' <=> Destroys(q, b)
  BY <1>2, <1>14, <1>15 DEF WritesSlot, ReadsSlot, Destroys
<1>26. \A b \in Blocks : \A i \in Offsets :
         /\ Num(b, i) \in Nat
         /\ Num(b, i) = taken => b = block[p] /\ i = offset[p]
  <2> SUFFICES ASSUME NEW b \in Blocks, NEW i \in Offsets
               PROVE  /\ Num(b, i) \in Nat
                      /\ Num(b, i) = taken => b = block[p] /\ i = offset[p]
    OBVIOUS
  <2>1. b \in Nat \ {0} /\ i \in 0 .. BlockCap
    BY BlocksNat
  <2>. QED
    BY <1>6, <2>1, NumNext, NumUnique
<1>27. Slots'
  <2> SUFFICES ASSUME NEW b \in Blocks, NEW i \in Offsets
               PROVE  /\ "WRITE" \in State(b, i) =>
                           Num(b, i) < Len(log) /\ slotMsg[b][i] = log[Num(b, i) + 1]
                      /\ "WRITE" \notin State(b, i) /\ Num(b, i) < Len(log) =>
                           \E q \in Threads : WritesSlot(q, b, i)'
                      /\ "READ" \in State(b, i) => Num(b, i) < taken' /\ "WRITE" \in State(b, i)
                      /\ "READ" \notin State(b, i) /\ Num(b, i) < taken' /\ i # BlockCap - 1 =>
                           \E q \in Threads : ReadsSlot(q, b, i)'
    BY <1>2 DEF Slots, State
  <2>1. Num(b, i) < taken => Num(b, i) < taken'
    BY <1>2, <1>8, <1>26
  <2>2. Num(b, i) < taken' => Num(b, i) < taken \/ Num(b, i) = taken
    BY <1>2, <1>8, <1>26
  <2>. QED
    BY <1>1, <1>3, <1>25, <1>26, <2>1, <2>2 DEF Slots
<1>28. Destruction'
  <2>1. \A b, i : State(b, i)' = State(b, i)
    BY <1>2 DEF State
  <2>2. ASSUME NEW b \in Blocks
        PROVE  Begun(b)' <=> Begun(b)
    <3>1. BlockCap - 1 \in Offsets
      BY BlocksNat
    <3>2. CASE Num(b, BlockCap - 1) = taken
      <4>1. ReadsSlot(p, b, BlockCap - 1)'
        BY <1>1, <1>25, <1>26, <3>1, <3>2
      <4>. QED
        BY <1>1, <1>8, <3>2, <4>1 DEF Begun
    <3>3. CASE Num(b, BlockCap - 1) # taken
      <4>1. Num(b, BlockCap - 1) < taken' <=> Num(b, BlockCap - 1) < taken
        BY <1>2, <1>8, <1>26, <3>1, <3>3
      <4>2. b # block[p] \/ BlockCap - 1 # offset[p]
        BY <1>6, <3>3
      <4>3. \A q \in Threads : ReadsSlot(q, b, BlockCap - 1)' <=> ReadsSlot(q, b, BlockCap - 1)
        BY <1>25, <4>2
      <4>. QED
        BY <4>1, <4>3 DEF Begun
    <3>. QED
      BY <3>2, <3>3
  <2>3. \A b, d : (LeftAt(b, d)' <=> LeftAt(b, d)) /\ (UpTo(b, d)' <=> UpTo(b, d))
    BY <2>1 DEF LeftAt, UpTo
  <2> SUFFICES ASSUME NEW b \in Blocks PROVE DestructionOf(b)'
    BY DEF Destruction
  <2>4. DestructionOf(b)
    BY DEF IInv, Destruction
  <2>. QED
    BY <1>2, <1>14, <1>25, <2>1, <2>2, <2>3, <2>4 DEF DestructionOf
<1>29. ASSUME NEW q \in Threads
       PROVE  (Role(q) /\ SendCopy(q) /\ RecvCopy(q) /\ WriterToken(q) /\ ReaderToken(q))'
  <2>1. CASE q = p
    <3>1. Role(p)'
      BY <1>1, <1>10 DEF Role, Sending, Receiving, SendLabels, RecvLabels, Received, Fifo!InProgress
    <3>2. SendCopy(p)' /\ RecvCopy(p)' /\ WriterToken(p)'
      BY <1>10 DEF SendCopy, Sending, RecvCopy, Receiving, WriterToken, Writing
    <3>3. ReaderToken(p)'
      <4>1. "READ" \notin slotState'[block'[p]][offset'[p]]
        BY <1>2, <1>16 DEF State
      <4>2. /\ block'[p] \in Blocks /\ offset'[p] \in Offsets
            /\ at'[p] = Num(block'[p], offset'[p]) /\ at'[p] < taken'
        BY <1>2, <1>6, <1>8, <1>10
      <4>3. l = "wait_next" => /\ HeadOffset' = BlockCap
                               /\ block'[p] = HeadLap' + 1 /\ offset'[p] = BlockCap - 1
                               /\ headBlock' = block'[p]
                               /\ newIndex'[p] = headIndex'
        BY <1>2, <1>4, <1>6, <1>7, <1>11, Numbers
      <4>. QED
        BY <1>10, <1>15, <4>1, <4>2, <4>3 DEF ReaderToken, State
    <3>. QED
      BY <2>1, <3>1, <3>2, <3>3
  <2>2. CASE q # p
    <3>1. \A b \in Blocks : \A i \in Offsets :
            State(b, i)' = State(b, i) /\ slotMsg'[b][i] = slotMsg[b][i]
      BY <1>2 DEF State
    <3>2. ThreadSame(q)
      BY <1>13, <2>2
    <3>3. Role(q)'
      BY <1>2, <3>2, RoleKept
    <3>4. SendCopy(q)'
      BY <1>1, <1>2, <3>2, SendCopyKept
    <3>5. RecvCopy(q)'
      BY <1>1, <1>2, <1>7, <3>2, RecvCopyKept
    <3>6. WriterToken(q)'
      BY <1>1, <1>2, <3>1, <3>2, Numbers, WriterTokenKept
    <3>7. ReaderToken(q)'
      BY <1>1, <1>2, <1>5, <1>8, <3>1, <3>2, ReaderTokenKept
    <3>. QED
      BY <3>3, <3>4, <3>5, <3>6, <3>7
  <2>. QED
    BY <2>1, <2>2
<1>. QED
  BY <1>17, <1>18, <1>19, <1>20, <1>21, <1>22, <1>24, <1>27, <1>28, <1>29 DEF IInv

------------------------------------------------------------------------------
(***************************************************************************)
(* The move of head to the next block.                                     *)
(***************************************************************************)
\* What a receiver that moves head on sees.
LEMMA HeadMover ==
  ASSUME IInv, NEW p \in Threads, MovesHead(p)
  PROVE  /\ Reading(p) /\ p \in Receivers
         /\ HeadOffset = BlockCap /\ block[p] = HeadLap + 1 /\ offset[p] = BlockCap - 1
         /\ headBlock = IF pc[p] = "move_index" THEN block[p] + 1 ELSE block[p]
         /\ pc[p] # "wait_next" => nextBlock[p] = block[p] + 1 /\ next[block[p]] # 0
         /\ pc[p] \in {"wait_next", "peek"} => newIndex[p] = headIndex
         /\ pc[p] \in {"move_block", "move_index"} =>
              /\ Position(newIndex[p]) = Position(headIndex) + 1
              /\ Marked(newIndex[p]) => HeadLap + 1 < TailLap
         /\ block[p] \in Blocks /\ offset[p] \in Offsets
         /\ block[p] \in Nat \ {0} /\ headBlock # 0
         /\ \A q \in Threads : q # p => ~MovesHead(q)
<1>1. ReaderToken(p) /\ Reading(p) /\ p \in Receivers
  BY DEF IInv, MovesHead, Reading, Role, RecvLabels
<1>2. block[p] \in Blocks /\ offset[p] \in Offsets /\ block[p] \in Nat \ {0}
  BY <1>1, BlocksNat DEF ReaderToken
<1>3. headBlock \in {block[p], block[p] + 1}
  BY <1>1 DEF ReaderToken
<1>4. headBlock # 0
  BY <1>2, <1>3
<1>. QED
  BY <1>1, <1>2, <1>4, OneMover DEF ReaderToken

\* A step of a reader that keeps its slot, and changes nothing shared.
LEMMA HoldStep ==
  ASSUME IInv, NEW p \in Threads,
         UNCHANGED <<positions, blocks, index, block, offset, sent, log, taken, at, reply>>,
         newIndex' \in [Threads -> Nat], nextBlock' \in [Threads -> {0} \union Blocks],
         pc' \in [Threads -> {"idle"} \union SendLabels \union RecvLabels],
         \A q \in Threads : q # p => ThreadSame(q),
         Reading(p), Reading(p)', Uses(p)' \/ pc'[p] \in {"peek", "move_block", "move_index"},
         MovesHead(p)' <=> MovesHead(p), GhostTypes', ReadsWhatWasSent',
         ReaderToken(p)'
  PROVE  IInv'
<1>1. UNCHANGED <<headIndex, headBlock, tailIndex, tailBlock, next, slotState, slotMsg, freed>>
  BY DEF positions, blocks
<1>2. ReaderToken(p) /\ Role(p)
  BY DEF IInv
<1>3. block[p] \in Blocks /\ offset[p] \in Offsets
  BY <1>2 DEF ReaderToken
<1>4. pc[p] \in {"wait_next", "peek", "move_block", "move_index", "wait_write", "read", "read_bit"}
      /\ pc'[p] \in {"wait_next", "peek", "move_block", "move_index", "wait_write", "read", "read_bit"}
  BY DEF Reading
<1>5. TypeOK'
  <2>1. TypeOK
    BY DEF IInv
  <2>2. \A q \in Threads : Uses(q)' => offset'[q] \in Offsets /\ block'[q] \in Blocks
    <3> SUFFICES ASSUME NEW q \in Threads, Uses(q)'
                 PROVE  offset'[q] \in Offsets /\ block'[q] \in Blocks
      OBVIOUS
    <3>1. CASE q = p
      BY <1>3, <3>1
    <3>2. CASE q # p
      BY <2>1, <3>2 DEF TypeOK, ThreadSame, Uses
    <3>. QED
      BY <3>1, <3>2
  <2>. QED
    BY <1>1, <2>1, <2>2 DEF TypeOK
<1>6. \A q \in Threads :
        /\ Writing(q)' <=> Writing(q)
        /\ Reading(q)' <=> Reading(q)
        /\ Destroying(q)' <=> Destroying(q)
        /\ pc'[q] = "destroy_bit" <=> pc[q] = "destroy_bit"
  <2> SUFFICES ASSUME NEW q \in Threads
               PROVE /\ Writing(q)' <=> Writing(q)
                     /\ Reading(q)' <=> Reading(q)
                     /\ Destroying(q)' <=> Destroying(q)
                     /\ pc'[q] = "destroy_bit" <=> pc[q] = "destroy_bit"
    OBVIOUS
  <2>1. CASE q = p
    BY <1>4, <2>1 DEF Writing, Reading, Destroying
  <2>2. CASE q # p
    BY <2>2 DEF ThreadSame, Writing, Reading, Destroying
  <2>. QED
    BY <2>1, <2>2
<1>7. (Slots /\ Destruction)'
  BY <1>1, <1>6, SlotsSame
<1>8. Role(p)' /\ SendCopy(p)' /\ RecvCopy(p)' /\ WriterToken(p)'
  BY <1>1, <1>2, <1>4 DEF Role, Sending, Receiving, SendLabels, RecvLabels, SendCopy, RecvCopy,
                     WriterToken, Writing
<1>9. \A b, i : State(b, i)' = State(b, i)
  BY <1>1 DEF State
<1>10. /\ pc[p] \notin {"first_head", "link"} /\ pc'[p] \notin {"first_head", "link"}
       /\ ~MovesTail(p) /\ ~MovesTail(p)' /\ ~Writing(p)'
  BY <1>4 DEF MovesTail, Writing
<1>. QED
  BY <1>1, <1>5, <1>7, <1>8, <1>9, <1>10, PlaceStep

LEMMA WaitNextIInv ==
  ASSUME IInv, NEW p \in Receivers, WaitNext(p)
  PROVE  IInv'
<1>1. p \in Threads /\ LocalTypes /\ pc[p] = "wait_next" /\ nextBlock \in [Threads -> {0} \union Blocks]
      /\ next \in [Blocks -> {0} \union Blocks]
  BY LocalTypesHold DEF Threads, WaitNext, Goto, IInv, TypeOK
<1>2. /\ UNCHANGED <<positions, blocks, index, newIndex, block, offset, sent, log, taken, got, at, reply>>
      /\ UNCHANGED <<headIndex, headBlock, tailIndex, next, slotState>>
      /\ pc' = [pc EXCEPT ![p] = "peek"] /\ next[block[p]] # 0
      /\ nextBlock' = [nextBlock EXCEPT ![p] = next[block[p]]]
  BY DEF WaitNext, ghosts, positions, blocks, Goto, Keep
<1>3. MovesHead(p) /\ Reading(p) /\ ReaderToken(p) /\ Links
  BY <1>1 DEF MovesHead, Reading, IInv
<1>4. block[p] \in Blocks
  BY <1>3 DEF ReaderToken
<1>5. next[block[p]] = block[p] + 1 /\ next[block[p]] \in Blocks
  BY <1>1, <1>2, <1>3, <1>4 DEF Links
<1>6. pc'[p] = "peek" /\ nextBlock'[p] = block[p] + 1
  BY <1>1, <1>2, <1>5 DEF LocalTypes
<1>7. pc' \in [Threads -> {"idle"} \union SendLabels \union RecvLabels]
      /\ nextBlock' \in [Threads -> {0} \union Blocks]
  BY <1>1, <1>2, <1>5 DEF LocalTypes, RecvLabels
<1>8. \A q \in Threads : q # p => ThreadSame(q)
  BY <1>1, <1>2 DEF ThreadSame, LocalTypes
<1>9. Reading(p)' /\ MovesHead(p)'
  BY <1>6 DEF Reading, MovesHead
<1>10. GhostTypes' /\ ReadsWhatWasSent'
  BY <1>2 DEF IInv, GhostTypes, ReadsWhatWasSent
<1>11. ReaderToken(p)'
  BY <1>1, <1>2, <1>3, <1>6 DEF ReaderToken, State, HeadLap, HeadOffset, TailLap
<1>. QED
  BY <1>1, <1>2, <1>3, <1>6, <1>7, <1>8, <1>9, <1>10, <1>11, HoldStep DEF LocalTypes

LEMMA PeekIInv ==
  ASSUME IInv, NEW p \in Receivers, Peek(p)
  PROVE  IInv'
<1> DEFINE i == Unmark(newIndex[p]) + One
           n == IF next[nextBlock[p]] # 0 THEN Mark(i) ELSE i
<1>1. p \in Threads /\ LocalTypes /\ pc[p] = "peek" /\ nextBlock \in [Threads -> {0} \union Blocks]
      /\ next \in [Blocks -> {0} \union Blocks] /\ headIndex \in Nat
  BY LocalTypesHold, Numbers DEF Threads, Peek, Goto, IInv, TypeOK
<1>2. /\ UNCHANGED <<positions, blocks, index, nextBlock, block, offset, sent, log, taken, got, at, reply>>
      /\ UNCHANGED <<headIndex, headBlock, tailIndex, next, slotState>>
      /\ pc' = [pc EXCEPT ![p] = "move_block"]
      /\ newIndex' = [newIndex EXCEPT ![p] = n]
  BY DEF Peek, ghosts, positions, blocks, Goto, Keep
<1>3. MovesHead(p) /\ Reading(p) /\ ReaderToken(p) /\ Links
  BY <1>1 DEF MovesHead, Reading, IInv
<1>4. /\ newIndex[p] = headIndex /\ nextBlock[p] = block[p] + 1 /\ block[p] = HeadLap + 1
      /\ block[p] \in Nat \ {0}
  BY <1>1, <1>3, HeadMover
<1>5. nextBlock[p] \in Blocks
  <2>1. nextBlock[p] # 0
    BY <1>4
  <2>. QED
    BY <1>1, <2>1
<1>6. i \in Nat /\ Position(i) = Position(headIndex) + 1 /\ ~Marked(i)
  BY <1>1, <1>4, IndexMark, IndexNext
<1>7. /\ n \in Nat /\ Position(n) = Position(headIndex) + 1
      /\ Marked(n) => next[nextBlock[p]] # 0
  BY <1>6, IndexMark
<1>8. Marked(n) => HeadLap + 1 < TailLap
  <2>1. ASSUME next[nextBlock[p]] # 0
        PROVE  nextBlock[p] <= TailLap
    BY <1>3, <1>5, <2>1 DEF Links
  <2>2. nextBlock[p] = HeadLap + 2
    BY <1>4, Numbers
  <2>. QED
    BY <1>7, <2>1, <2>2, Numbers
<1> HIDE DEF n
<1>9. pc'[p] = "move_block" /\ newIndex'[p] = n
  BY <1>1, <1>2 DEF LocalTypes
<1>10. pc' \in [Threads -> {"idle"} \union SendLabels \union RecvLabels]
       /\ newIndex' \in [Threads -> Nat]
  BY <1>1, <1>2, <1>7 DEF LocalTypes, RecvLabels
<1>11. \A q \in Threads : q # p => ThreadSame(q)
  BY <1>1, <1>2 DEF ThreadSame, LocalTypes
<1>12. Reading(p)' /\ MovesHead(p)'
  BY <1>9 DEF Reading, MovesHead
<1>13. GhostTypes' /\ ReadsWhatWasSent'
  BY <1>2 DEF IInv, GhostTypes, ReadsWhatWasSent
<1>14. ReaderToken(p)'
  BY <1>1, <1>2, <1>3, <1>7, <1>8, <1>9 DEF ReaderToken, State, HeadLap, HeadOffset, TailLap
<1>. QED
  BY <1>1, <1>2, <1>3, <1>9, <1>10, <1>11, <1>12, <1>13, <1>14, HoldStep

LEMMA WaitWriteIInv ==
  ASSUME IInv, NEW p \in Receivers, WaitWrite(p)
  PROVE  IInv'
<1>1. p \in Threads /\ LocalTypes /\ pc[p] = "wait_write" /\ nextBlock \in [Threads -> {0} \union Blocks]
  BY LocalTypesHold DEF Threads, WaitWrite, Goto, IInv, TypeOK
<1>2. /\ UNCHANGED <<positions, blocks, index, newIndex, nextBlock, block, offset>>
      /\ UNCHANGED <<sent, log, taken, got, at, reply, slotState>>
      /\ pc' = [pc EXCEPT ![p] = "read"]
      /\ "WRITE" \in slotState[block[p]][offset[p]]
  BY DEF WaitWrite, ghosts, positions, blocks, local, Goto
<1>3. Reading(p) /\ ReaderToken(p) /\ ~MovesHead(p)
  BY <1>1 DEF MovesHead, Reading, IInv
<1>4. pc'[p] = "read"
  BY <1>1, <1>2 DEF LocalTypes
<1>5. pc' \in [Threads -> {"idle"} \union SendLabels \union RecvLabels]
  BY <1>1, <1>2 DEF LocalTypes, RecvLabels
<1>6. \A q \in Threads : q # p => ThreadSame(q)
  BY <1>1, <1>2 DEF ThreadSame, LocalTypes
<1>7. Reading(p)' /\ ~MovesHead(p)' /\ Uses(p)'
  BY <1>4 DEF Reading, MovesHead, Uses
<1>8. GhostTypes' /\ ReadsWhatWasSent'
  BY <1>2 DEF IInv, GhostTypes, ReadsWhatWasSent
<1>9. ReaderToken(p)'
  BY <1>1, <1>2, <1>3, <1>4, <1>7 DEF ReaderToken, State
<1>. QED
  BY <1>1, <1>2, <1>3, <1>5, <1>6, <1>7, <1>8, <1>9, HoldStep DEF LocalTypes

------------------------------------------------------------------------------
(***************************************************************************)
(* Moving head to the next block.                                          *)
(***************************************************************************)
LEMMA MoveBlockIInv ==
  ASSUME IInv, NEW p \in Receivers, MoveBlock(p)
  PROVE  IInv'
<1>1. /\ p \in Threads /\ LocalTypes /\ tailIndex \in Nat /\ headIndex \in Nat /\ pc[p] = "move_block"
      /\ nextBlock \in [Threads -> {0} \union Blocks]
  BY LocalTypesHold, Numbers DEF Threads, MoveBlock, Goto, IInv, TypeOK
<1>2. /\ UNCHANGED <<headIndex, tailIndex, tailBlock, next, slotState, slotMsg, freed>>
      /\ UNCHANGED <<index, newIndex, block, offset, nextBlock, sent, log, taken, got, at, reply>>
      /\ pc' = [pc EXCEPT ![p] = "move_index"]
      /\ headBlock' = nextBlock[p]
  BY DEF MoveBlock, blocks, ghosts, local, Goto
<1>3. /\ Reading(p) /\ HeadOffset = BlockCap /\ headBlock # 0
      /\ nextBlock[p] = block[p] + 1 /\ block[p] \in Nat \ {0}
      /\ \A q \in Threads : q # p => ~MovesHead(q)
  <2>1. MovesHead(p)
    BY <1>1 DEF MovesHead
  <2>. QED
    BY <1>1, <2>1, HeadMover
<1>4. headBlock' = block[p] + 1 /\ headBlock' # 0 /\ headBlock' \in {0} \union Blocks
  BY <1>1, <1>2, <1>3
<1>5. \A q \in Threads : q # p => ThreadSame(q)
  BY <1>1, <1>2 DEF ThreadSame, LocalTypes
<1>6. pc'[p] = "move_index"
  BY <1>1, <1>2 DEF LocalTypes
<1>7. TailLap' = TailLap /\ TailOffset' = TailOffset /\ HeadLap' = HeadLap /\ HeadOffset' = HeadOffset
  BY <1>2 DEF TailLap, TailOffset, HeadLap, HeadOffset
<1>8. \A q \in Threads :
        /\ Writing(q)' <=> Writing(q)
        /\ Reading(q)' <=> Reading(q)
        /\ Destroying(q)' <=> Destroying(q)
        /\ MovesTail(q)' <=> MovesTail(q)
        /\ MovesHead(q)' <=> MovesHead(q)
        /\ pc'[q] = "link" <=> pc[q] = "link"
        /\ pc'[q] = "first_head" <=> pc[q] = "first_head"
        /\ pc'[q] = "destroy_bit" <=> pc[q] = "destroy_bit"
        /\ Uses(q)' <=> Uses(q)
  BY <1>1, <1>5, <1>6 DEF ThreadSame, Writing, Reading, Destroying, MovesTail, MovesHead, Uses
<1>9. MovesHead(p) /\ MovesHead(p)'
  BY <1>1, <1>6 DEF MovesHead
<1>10. LocalTypes'
  BY <1>1, <1>2 DEF LocalTypes, RecvLabels
<1>11. TypeOK'
  BY <1>2, <1>4, <1>8, <1>10 DEF IInv, TypeOK, LocalTypes
<1>12. GhostTypes' /\ LogDistinct' /\ ReadsWhatWasSent'
  BY <1>2 DEF IInv, GhostTypes, LogDistinct, ReadsWhatWasSent
<1>13. TailPlace'
  BY <1>2, <1>7, <1>8 DEF IInv, TailPlace
<1>14. HeadPlace'
  BY <1>1, <1>2, <1>7, <1>9 DEF IInv, HeadPlace
<1>15. FirstBlockOnce'
  <2>1. FirstBlockOnce
    BY DEF IInv
  <2>. QED
    BY <1>2, <1>3, <1>4, <1>8, <2>1 DEF FirstBlockOnce
<1>16. Links'
  BY <1>2, <1>7, <1>8 DEF IInv, Links
<1>17. (OneSlotEach /\ Slots /\ Destruction)'
  BY <1>2, <1>8, SlotsSame
<1>18. ASSUME NEW q \in Threads
       PROVE  (Role(q) /\ SendCopy(q) /\ RecvCopy(q) /\ WriterToken(q) /\ ReaderToken(q))'
  <2>1. CASE q = p
    <3>1. Role(p)'
      BY <1>1, <1>2, <1>6 DEF IInv, Role, Sending, Receiving, SendLabels, RecvLabels
    <3>2. SendCopy(p)' /\ RecvCopy(p)' /\ WriterToken(p)'
      BY <1>6 DEF SendCopy, Sending, RecvCopy, Receiving, WriterToken, Writing
    <3>3. ReaderToken(p)'
      <4>1. ReaderToken(p)
        BY <1>1 DEF IInv
      <4>. QED
        BY <1>1, <1>2, <1>3, <1>4, <1>6, <1>7, <1>9, <4>1 DEF ReaderToken, State
    <3>. QED
      BY <2>1, <3>1, <3>2, <3>3
  <2>2. CASE q # p
    <3>1. \A b \in Blocks : \A i \in Offsets :
            State(b, i)' = State(b, i) /\ slotMsg'[b][i] = slotMsg[b][i]
      BY <1>2 DEF State
    <3>2. ThreadSame(q)
      BY <1>5, <2>2
    <3>3. Role(q)'
      BY <1>2, <3>2, RoleKept
    <3>4. SendCopy(q)'
      BY <1>1, <1>2, <3>2, SendCopyKept
    <3>5. RecvCopy(q)'
      BY <1>1, <1>2, <1>3, <3>2, RecvCopyKept
    <3>6. WriterToken(q)'
      BY <1>1, <1>2, <3>1, <3>2, Numbers, WriterTokenKept
    <3>7. ReaderToken(q)'
      BY <1>1, <1>2, <1>3, <2>2, <3>1, <3>2, Numbers, ReaderTokenKept
    <3>. QED
      BY <3>3, <3>4, <3>5, <3>6, <3>7
  <2>. QED
    BY <2>1, <2>2
<1>. QED
  BY <1>11, <1>12, <1>13, <1>14, <1>15, <1>16, <1>17, <1>18 DEF IInv

LEMMA MoveIndexIInv ==
  ASSUME IInv, NEW p \in Receivers, MoveIndex(p)
  PROVE  IInv'
<1>1. /\ p \in Threads /\ LocalTypes /\ tailIndex \in Nat /\ headIndex \in Nat /\ pc[p] = "move_index"
  BY LocalTypesHold, Numbers DEF Threads, MoveIndex, Goto
<1>2. /\ UNCHANGED <<headBlock, tailIndex, tailBlock, next, slotState, slotMsg, freed>>
      /\ UNCHANGED <<index, newIndex, block, offset, nextBlock, sent, log, taken, got, at, reply>>
      /\ pc' = [pc EXCEPT ![p] = "wait_write"]
      /\ headIndex' = newIndex[p]
  BY DEF MoveIndex, blocks, ghosts, local, Goto
<1>3. /\ Reading(p) /\ HeadOffset = BlockCap /\ headBlock # 0
      /\ block[p] = HeadLap + 1 /\ headBlock = block[p] + 1 /\ offset[p] = BlockCap - 1
      /\ next[block[p]] # 0 /\ block[p] \in Nat \ {0}
      /\ block[p] \in Blocks /\ offset[p] \in Offsets
      /\ Position(newIndex[p]) = Position(headIndex) + 1
      /\ Marked(newIndex[p]) => HeadLap + 1 < TailLap
      /\ \A q \in Threads : q # p => ~MovesHead(q)
  <2>1. MovesHead(p)
    BY <1>1 DEF MovesHead
  <2>. QED
    BY <1>1, <2>1, HeadMover
<1>4. \A q \in Threads : q # p => ThreadSame(q)
  BY <1>1, <1>2 DEF ThreadSame, LocalTypes
<1>5. pc'[p] = "wait_write"
  BY <1>1, <1>2 DEF LocalTypes
<1>6. /\ headIndex' \in Nat /\ headIndex < headIndex' /\ headIndex <= headIndex'
      /\ HeadLap' = HeadLap + 1 /\ HeadOffset' = 0
      /\ Position(headIndex') = Position(headIndex) + 1
      /\ TailLap' = TailLap /\ TailOffset' = TailOffset
  <2>1. /\ headIndex + One \in Nat
        /\ Position(headIndex + One) = Position(headIndex) + 1
        /\ LapOf(headIndex + One) = HeadLap + 1 /\ OffsetOf(headIndex + One) = 0
    BY <1>1, <1>3, IndexNext DEF HeadLap, HeadOffset
  <2>2. headIndex' \in Nat /\ Position(headIndex') = Position(headIndex + One)
    BY <1>1, <1>2, <1>3, <2>1 DEF LocalTypes
  <2>3. LapOf(headIndex') = HeadLap + 1 /\ OffsetOf(headIndex') = 0
    BY <2>1, <2>2, IndexOrder
  <2>4. headIndex < headIndex' /\ headIndex <= headIndex'
    <3>1. Position(headIndex) \in Nat
      BY <1>1, Packed
    <3>2. Position(headIndex) < Position(headIndex')
      BY <2>1, <2>2, <3>1
    <3>3. headIndex < headIndex'
      BY <1>1, <2>2, <3>2, IndexOrder
    <3>. QED
      BY <1>1, <2>2, <3>3
  <2>. QED
    BY <1>2, <2>1, <2>2, <2>3, <2>4 DEF TailLap, TailOffset, HeadLap, HeadOffset
<1>7. HeadLap + 1 <= TailLap
  BY <1>3 DEF IInv, Links
<1>8. \A q \in Threads :
        /\ Writing(q)' <=> Writing(q)
        /\ Reading(q)' <=> Reading(q)
        /\ Destroying(q)' <=> Destroying(q)
        /\ MovesTail(q)' <=> MovesTail(q)
        /\ ~MovesHead(q)'
        /\ pc'[q] = "link" <=> pc[q] = "link"
        /\ pc'[q] = "first_head" <=> pc[q] = "first_head"
        /\ pc'[q] = "destroy_bit" <=> pc[q] = "destroy_bit"
        /\ Uses(q)' => Uses(q) \/ q = p
  BY <1>1, <1>3, <1>4, <1>5 DEF ThreadSame, Writing, Reading, Destroying, MovesTail, MovesHead, Uses
<1>9. LocalTypes'
  BY <1>1, <1>2 DEF LocalTypes, RecvLabels
<1>10. TypeOK'
  <2>1. TypeOK
    BY DEF IInv
  <2>2. \A q \in Threads : Uses(q)' => offset'[q] \in Offsets /\ block'[q] \in Blocks
    BY <1>2, <1>3, <1>8, <2>1 DEF TypeOK
  <2>. QED
    BY <1>2, <1>6, <1>9, <2>1, <2>2 DEF TypeOK, LocalTypes
<1>11. GhostTypes' /\ LogDistinct' /\ ReadsWhatWasSent'
  BY <1>2 DEF IInv, GhostTypes, LogDistinct, ReadsWhatWasSent
<1>12. TailPlace'
  BY <1>2, <1>6, <1>8 DEF IInv, TailPlace
<1>13. HeadPlace'
  <2>1. taken = Num(block[p], BlockCap)
    BY <1>3 DEF IInv, HeadPlace
  <2>2. BlockCap \in 0 .. BlockCap
    BY BlocksNat
  <2>3. Num(block[p] + 1, 0) = Num(block[p], BlockCap)
    BY <1>3, <2>2, NumNext
  <2>4. HeadLap' + 1 = block[p] + 1 /\ 0 # BlockCap
    BY <1>3, <1>6, BlocksNat
  <2>5. Position(headIndex') <= Position(tailIndex')
    <3>1. LapOf(headIndex') < LapOf(tailIndex') \/
            (LapOf(headIndex') = LapOf(tailIndex') /\ OffsetOf(headIndex') <= OffsetOf(tailIndex'))
      BY <1>6, <1>7, Numbers DEF HeadLap, TailLap, HeadOffset, TailOffset
    <3>2. tailIndex' \in Nat /\ OffsetOf(tailIndex') \in Nat /\ OffsetOf(headIndex') \in Nat
      BY <1>1, <1>2, <1>6, Parts, BlocksNat
    <3>3. Position(headIndex') \in Nat /\ Position(tailIndex') \in Nat
      BY <1>6, <3>2, Packed
    <3>4. \/ LapOf(headIndex') < LapOf(tailIndex')
          \/ LapOf(headIndex') = LapOf(tailIndex') /\ OffsetOf(headIndex') < OffsetOf(tailIndex')
          \/ LapOf(headIndex') = LapOf(tailIndex') /\ OffsetOf(headIndex') = OffsetOf(tailIndex')
      BY <3>1, <3>2
    <3>5. Position(headIndex') < Position(tailIndex') \/ Position(headIndex') = Position(tailIndex')
      BY <1>6, <3>2, <3>4, IndexOrder
    <3>. QED
      BY <3>3, <3>5
  <2>6. Marked(headIndex') => HeadLap' < TailLap'
    BY <1>2, <1>3, <1>6
  <2>. QED
    BY <1>2, <1>3, <1>6, <1>8, <2>1, <2>3, <2>4, <2>5, <2>6 DEF HeadPlace
<1>14. FirstBlockOnce'
  BY <1>2, <1>3, <1>8 DEF IInv, FirstBlockOnce
<1>15. Links'
  <2>1. Links
    BY DEF IInv
  <2>2. \A b \in Blocks : b <= HeadLap + 1 => b <= HeadLap \/ b = block[p]
    BY <1>3, Numbers, BlocksNat
  <2>. QED
    BY <1>2, <1>3, <1>6, <1>8, <2>1, <2>2 DEF Links
<1>16. (OneSlotEach /\ Slots /\ Destruction)'
  BY <1>2, <1>8, SlotsSame
<1>17. ASSUME NEW q \in Threads
       PROVE  (Role(q) /\ SendCopy(q) /\ RecvCopy(q) /\ WriterToken(q) /\ ReaderToken(q))'
  <2>1. CASE q = p
    <3>1. Role(p)'
      BY <1>1, <1>2, <1>5 DEF IInv, Role, Sending, Receiving, SendLabels, RecvLabels
    <3>2. SendCopy(p)' /\ RecvCopy(p)' /\ WriterToken(p)'
      BY <1>5 DEF SendCopy, Sending, RecvCopy, Receiving, WriterToken, Writing
    <3>3. ReaderToken(p)'
      <4>1. ReaderToken(p)
        BY <1>1 DEF IInv
      <4>2. ~MovesHead(p)'
        BY <1>1, <1>8
      <4>. QED
        BY <1>1, <1>2, <1>3, <1>5, <4>1, <4>2 DEF ReaderToken, State
    <3>. QED
      BY <2>1, <3>1, <3>2, <3>3
  <2>2. CASE q # p
    <3>1. \A b \in Blocks : \A i \in Offsets :
            State(b, i)' = State(b, i) /\ slotMsg'[b][i] = slotMsg[b][i]
      BY <1>2 DEF State
    <3>2. ThreadSame(q)
      BY <1>4, <2>2
    <3>3. Role(q)'
      BY <1>2, <3>2, RoleKept
    <3>4. SendCopy(q)'
      BY <1>1, <1>2, <3>2, SendCopyKept
    <3>5. RecvCopy(q)'
      BY <1>1, <1>2, <1>6, <3>2, RecvCopyKept
    <3>6. WriterToken(q)'
      BY <1>1, <1>2, <3>1, <3>2, Numbers, WriterTokenKept
    <3>7. ReaderToken(q)'
      BY <1>1, <1>2, <1>3, <2>2, <3>1, <3>2, Numbers, ReaderTokenKept
    <3>. QED
      BY <3>3, <3>4, <3>5, <3>6, <3>7
  <2>. QED
    BY <2>1, <2>2
<1>. QED
  BY <1>10, <1>11, <1>12, <1>13, <1>14, <1>15, <1>16, <1>17 DEF IInv

------------------------------------------------------------------------------
(***************************************************************************)
(* read, and the destruction of blocks.                                    *)
(***************************************************************************)
\* What happens in one block disturbs the destruction of no other.
LEMMA DestructionElsewhere ==
  ASSUME IInv, NEW c \in Blocks, UNCHANGED taken,
         \A b \in Blocks : b # c =>
           /\ \A i \in Offsets : State(b, i)' = State(b, i)
           /\ b \in freed' <=> b \in freed
           /\ \A q \in Threads :
                /\ \A i \in Offsets : ReadsSlot(q, b, i)' <=> ReadsSlot(q, b, i)
                /\ Destroys(q, b)' <=> Destroys(q, b)
                /\ Destroys(q, b) => /\ offset'[q] = offset[q]
                                     /\ pc'[q] = "destroy_bit" <=> pc[q] = "destroy_bit",
         DestructionOf(c)'
  PROVE  Destruction'
<1> SUFFICES ASSUME NEW b \in Blocks, b # c PROVE DestructionOf(b)'
  BY DEF Destruction
<1>1. DestructionOf(b)
  BY DEF IInv, Destruction
<1>2. BlockCap - 1 \in Offsets
  BY BlocksNat
<1>3. \A i \in Offsets : State(b, i)' = State(b, i)
  OBVIOUS
<1>4. Begun(b)' <=> Begun(b)
  BY <1>2 DEF Begun
<1>5. \A d : UpTo(b, d)' <=> UpTo(b, d)
  BY <1>3 DEF UpTo
<1>6. \A d \in Offsets : LeftAt(b, d)' <=> LeftAt(b, d)
  BY <1>3 DEF LeftAt
<1>7. "WRITE" \in State(b, BlockCap - 1)' <=> "WRITE" \in State(b, BlockCap - 1)
  BY <1>2, <1>3
<1>8. \A q \in Threads : Destroys(q, b)' =>
         /\ Destroys(q, b) /\ offset'[q] = offset[q] /\ offset[q] \in Offsets
         /\ State(b, offset[q])' = State(b, offset[q])
         /\ pc'[q] = "destroy_bit" <=> pc[q] = "destroy_bit"
  <2> SUFFICES ASSUME NEW q \in Threads, Destroys(q, b)'
               PROVE  /\ Destroys(q, b) /\ offset'[q] = offset[q] /\ offset[q] \in Offsets
                      /\ State(b, offset[q])' = State(b, offset[q])
                      /\ pc'[q] = "destroy_bit" <=> pc[q] = "destroy_bit"
    OBVIOUS
  <2>1. Destroys(q, b) /\ offset'[q] = offset[q] /\ (pc'[q] = "destroy_bit" <=> pc[q] = "destroy_bit")
    OBVIOUS
  <2>2. offset[q] \in Offsets
    BY <1>1, <2>1 DEF DestructionOf
  <2>3. slotState'[b][offset[q]] = slotState[b][offset[q]]
    BY <1>3, <2>2 DEF State
  <2>. QED
    BY <2>1, <2>2, <2>3 DEF State
<1>9. \A q \in Threads : Destroys(q, b)' <=> Destroys(q, b)
  OBVIOUS
<1>10. ASSUME NEW q \in Threads, Destroys(q, b)'
       PROVE  /\ Begun(b)' /\ b \notin freed'
              /\ offset'[q] \in Offsets /\ UpTo(b, offset[q])'
              /\ "DESTROY" \notin slotState'[b][offset'[q]]
              /\ pc'[q] = "destroy_bit" => offset'[q] # BlockCap - 1
  <2>1. /\ Destroys(q, b) /\ offset'[q] = offset[q] /\ offset[q] \in Offsets
        /\ State(b, offset[q])' = State(b, offset[q])
        /\ pc'[q] = "destroy_bit" <=> pc[q] = "destroy_bit"
    BY <1>8, <1>10
  <2>2. /\ Begun(b) /\ b \notin freed /\ UpTo(b, offset[q])
        /\ "DESTROY" \notin State(b, offset[q])
        /\ pc[q] = "destroy_bit" => offset[q] # BlockCap - 1
    BY <1>1, <2>1 DEF DestructionOf
  <2>3. slotState'[b][offset'[q]] = slotState[b][offset[q]]
    BY <1>3, <2>1 DEF State
  <2>4. UpTo(b, offset[q])'
    BY <1>3, <2>1, <2>2 DEF UpTo
  <2>. QED
    BY <1>4, <2>1, <2>2, <2>3, <2>4 DEF State
<1>. QED
  BY <1>1, <1>3, <1>4, <1>5, <1>6, <1>7, <1>9, <1>10 DEF DestructionOf, State, UpTo

------------------------------------------------------------------------------
(***************************************************************************)
(* Taking the message out, and the READ bit.                               *)
(***************************************************************************)
\* The message taken out of a slot is the one that was put in at this position.
LEMMA ReadGhosts ==
  ASSUME IInv, NEW p \in Receivers, Read(p)
  PROVE  GhostTypes' /\ ReadsWhatWasSent'
<1> DEFINE e == [pos |-> at[p], msg |-> slotMsg[block[p]][offset[p]]]
           E == [pos : Nat, msg : Message \union {NoMsg}]
<1>1. p \in Threads /\ pc[p] = "read" /\ log \in Seq(Message)
      /\ got \in [Receivers -> Seq(E)] /\ at \in [Threads -> Nat]
  BY DEF Threads, Read, Goto, IInv, GhostTypes
<1>2. UNCHANGED <<log, taken, at>> /\ got' = [got EXCEPT ![p] = Append(got[p], e)]
  BY <1>1 DEF Read
<1>3. ReaderToken(p) /\ Reading(p) /\ Slots
  BY <1>1 DEF IInv, Reading
<1>4. /\ block[p] \in Blocks /\ offset[p] \in Offsets /\ at[p] = Num(block[p], offset[p])
      /\ "WRITE" \in State(block[p], offset[p])
  BY <1>1, <1>3 DEF ReaderToken
<1>5. at[p] < Len(log) /\ slotMsg[block[p]][offset[p]] = log[at[p] + 1]
  BY <1>3, <1>4 DEF Slots
<1>6. at[p] \in Nat /\ slotMsg[block[p]][offset[p]] \in Message \union {NoMsg}
  BY <1>1, <1>4 DEF IInv, TypeOK
<1>7. e \in E /\ e.pos < Len(log) /\ e.msg = log[e.pos + 1]
  BY <1>5, <1>6
<1> HIDE DEF e
<1>8. GhostTypes'
  <2>1. got' \in [Receivers -> Seq(E)]
    <3>1. got[p] \in Seq(E)
      BY <1>1
    <3> HIDE DEF E
    <3>2. Append(got[p], e) \in Seq(E)
      BY <1>7, <3>1
    <3>. QED
      BY <1>1, <1>2, <3>2
  <2>. QED
    BY <1>2, <2>1 DEF IInv, GhostTypes
<1>9. ReadsWhatWasSent'
  <2> SUFFICES ASSUME NEW r \in Receivers, NEW i \in 1 .. Len(got'[r])
               PROVE  got'[r][i].pos < Len(log) /\ got'[r][i].msg = log[got'[r][i].pos + 1]
    BY <1>2 DEF ReadsWhatWasSent
  <2>1. \A j \in 1 .. Len(got[r]) : got[r][j].pos < Len(log) /\ got[r][j].msg = log[got[r][j].pos + 1]
    BY DEF IInv, ReadsWhatWasSent
  <2>2. CASE r # p
    <3>1. got'[r] = got[r]
      BY <1>1, <1>2, <2>2
    <3>. QED
      BY <2>1, <3>1
  <2>3. CASE r = p
    <3>1. got'[r] = Append(got[r], e) /\ got[r] \in Seq(E)
      BY <1>1, <1>2, <2>3
    <3>2. \/ i \in 1 .. Len(got[r]) /\ got'[r][i] = got[r][i]
          \/ i = Len(got[r]) + 1 /\ got'[r][i] = e
      <4>1. Len(got[r]) \in Nat /\ Len(got'[r]) = Len(got[r]) + 1
        BY <3>1, <1>7
      <4>. QED
        BY <3>1, <4>1, <1>7
    <3>. QED
      BY <1>7, <2>1, <3>2
  <2>. QED
    BY <2>2, <2>3
<1>. QED
  BY <1>8, <1>9

LEMMA ReadIInv ==
  ASSUME IInv, NEW p \in Receivers, Read(p)
  PROVE  IInv'
<1>1. p \in Threads /\ LocalTypes /\ pc[p] = "read" /\ nextBlock \in [Threads -> {0} \union Blocks]
  BY LocalTypesHold DEF Threads, Read, Goto, IInv, TypeOK
<1>2. /\ UNCHANGED <<positions, blocks, index, newIndex, block, nextBlock>>
      /\ UNCHANGED <<headIndex, headBlock, tailIndex, tailBlock, next, slotState, slotMsg, freed>>
      /\ UNCHANGED <<sent, log, taken, at, reply>>
  BY DEF Read, positions, blocks
<1>3. ReaderToken(p) /\ Reading(p) /\ Role(p) /\ Slots /\ Destruction
  BY <1>1 DEF IInv, Reading
<1>4. /\ block[p] \in Blocks /\ offset[p] \in Offsets /\ at[p] = Num(block[p], offset[p])
      /\ at[p] < taken
      /\ "WRITE" \in State(block[p], offset[p]) /\ "READ" \notin State(block[p], offset[p])
  BY <1>1, <1>3 DEF ReaderToken
<1>5. GhostTypes' /\ ReadsWhatWasSent'
  BY ReadGhosts
<1>6. CASE offset[p] + 1 # BlockCap
  <2>1. pc' = [pc EXCEPT ![p] = "read_bit"] /\ offset' = offset
    BY <1>6 DEF Read, Goto
  <2>2. pc'[p] = "read_bit"
    BY <1>1, <2>1 DEF LocalTypes
  <2>3. pc' \in [Threads -> {"idle"} \union SendLabels \union RecvLabels]
    BY <1>1, <2>1 DEF LocalTypes, RecvLabels
  <2>4. \A q \in Threads : q # p => ThreadSame(q)
    BY <1>1, <1>2, <2>1 DEF ThreadSame, LocalTypes
  <2>5. Reading(p)' /\ ~MovesHead(p)' /\ ~MovesHead(p) /\ Uses(p)'
    BY <1>1, <2>2 DEF Reading, MovesHead, Uses
  <2>6. ReaderToken(p)'
    <3>1. offset[p] # BlockCap - 1
      BY <1>6, BlocksNat
    <3>. QED
      BY <1>1, <1>2, <1>3, <1>4, <2>1, <2>2, <2>5, <3>1 DEF ReaderToken, State
  <2>. QED
    BY <1>1, <1>2, <1>3, <1>5, <2>1, <2>3, <2>4, <2>5, <2>6, HoldStep DEF LocalTypes
<1>7. CASE offset[p] + 1 = BlockCap
  <2>1. pc' = [pc EXCEPT ![p] = "destroy"] /\ offset' = [offset EXCEPT ![p] = 0]
    BY <1>7 DEF Read, Goto, Keep
  <2>2. pc'[p] = "destroy" /\ offset'[p] = 0
    BY <1>1, <2>1 DEF LocalTypes
  <2>3. offset[p] = BlockCap - 1 /\ 0 \in Offsets
    BY <1>4, <1>7, BlocksNat
  <2>4. \A q \in Threads : q # p => ThreadSame(q)
    BY <1>1, <1>2, <2>1 DEF ThreadSame, LocalTypes
  <2>5. LocalTypes'
    BY <1>1, <1>2, <2>1, BlocksNat DEF LocalTypes, RecvLabels
  <2>6. \A q \in Threads :
          /\ Writing(q)' <=> Writing(q)
          /\ Reading(q)' <=> Reading(q) /\ q # p
          /\ Destroying(q)' <=> Destroying(q) \/ q = p
          /\ pc'[q] = "destroy_bit" <=> pc[q] = "destroy_bit"
          /\ Uses(q)' => Uses(q) \/ q = p
    BY <1>1, <2>2, <2>4 DEF ThreadSame, Writing, Reading, Destroying, Uses
  <2>7. ~Writing(p) /\ ~Destroying(p) /\ ~MovesTail(p) /\ ~MovesHead(p)
        /\ ~MovesTail(p)' /\ ~MovesHead(p)'
    BY <1>1, <2>2 DEF Writing, Destroying, MovesTail, MovesHead
  <2>8. \A q \in Threads : q # p => block'[q] = block[q] /\ offset'[q] = offset[q]
    BY <2>4 DEF ThreadSame
  <2>9. TypeOK'
    <3>1. TypeOK
      BY DEF IInv
    <3>2. \A q \in Threads : Uses(q)' => offset'[q] \in Offsets /\ block'[q] \in Blocks
      BY <1>2, <1>4, <2>2, <2>3, <2>6, <2>8, <3>1 DEF TypeOK
    <3>. QED
      BY <1>2, <2>5, <3>1, <3>2 DEF TypeOK, LocalTypes
  <2>10. \A q \in Threads : \A b, i :
          /\ WritesSlot(q, b, i)' <=> WritesSlot(q, b, i)
          /\ ReadsSlot(q, b, i)' <=> ReadsSlot(q, b, i) /\ q # p
          /\ Destroys(q, b)' <=> Destroys(q, b) \/ (q = p /\ b = block[p])
    BY <1>2, <2>6, <2>7, <2>8 DEF WritesSlot, ReadsSlot, Destroys
  <2>11. \A b, i : State(b, i)' = State(b, i)
    BY <1>2 DEF State
  <2>12. Slots'
    <3> SUFFICES ASSUME NEW b \in Blocks, NEW i \in Offsets,
                        "READ" \notin State(b, i), Num(b, i) < taken, i # BlockCap - 1
                 PROVE  \E q \in Threads : ReadsSlot(q, b, i)'
      BY <1>2, <1>3, <2>10, <2>11 DEF Slots
    <3>1. PICK q \in Threads : ReadsSlot(q, b, i)
      BY <1>3 DEF Slots
    <3>2. q # p
      BY <2>3, <3>1 DEF ReadsSlot
    <3>. QED
      BY <2>10, <3>1, <3>2
  <2>13. DestructionOf(block[p])'
    <3>1. PICK b \in Blocks : b = block[p]
      BY <1>4
    <3>2. ReadsSlot(p, b, BlockCap - 1)
      BY <1>3, <2>3, <3>1 DEF ReadsSlot
    <3>3. ~Begun(b)
      BY <1>1, <3>2 DEF Begun
    <3>4. DestructionOf(b)
      BY <1>3 DEF Destruction
    <3>5. /\ \A q \in Threads : ~Destroys(q, b)
          /\ \A d \in Offsets : "DESTROY" \notin State(b, d)
          /\ b \notin freed
      BY <3>3, <3>4 DEF DestructionOf
    <3>6. \A q \in Threads : Destroys(q, b)' <=> q = p
      BY <2>10, <3>1, <3>5
    <3>7. Begun(b)'
      <4>1. Num(b, BlockCap - 1) < taken'
        BY <1>2, <1>4, <2>3, <3>1
      <4>2. \A q \in Threads : q # p => ~ReadsSlot(q, b, BlockCap - 1)
        BY <1>1, <1>3, <2>3, <3>1 DEF IInv, OneSlotEach, ReadsSlot
      <4>. QED
        BY <2>10, <4>1, <4>2 DEF Begun
    <3>8. \A i \in Offsets : ~(i < 0)
      BY BlocksNat
    <3>9. UpTo(b, offset[p])'
      BY <2>2, <2>11, <3>5, <3>8 DEF UpTo
    <3>10. "WRITE" \in State(b, BlockCap - 1)
      BY <1>4, <2>3, <3>1
    <3>11. DestructionOf(b)'
      BY <1>1, <1>2, <2>2, <2>3, <2>11, <3>5, <3>6, <3>7, <3>9, <3>10
         DEF DestructionOf, LeftAt, State, UpTo
    <3>. QED
      BY <1>2, <3>1, <3>11
  <2>14. Destruction'
    <3>1. \A q \in Threads : \A b : Destroys(q, b) => q # p
      BY <2>7 DEF Destroys
    <3>2. \A b \in Blocks : b # block[p] =>
           /\ \A i \in Offsets : State(b, i)' = State(b, i)
           /\ b \in freed' <=> b \in freed
           /\ \A q \in Threads :
                /\ \A i \in Offsets : ReadsSlot(q, b, i)' <=> ReadsSlot(q, b, i)
                /\ Destroys(q, b)' <=> Destroys(q, b)
                /\ Destroys(q, b) => /\ offset'[q] = offset[q]
                                     /\ pc'[q] = "destroy_bit" <=> pc[q] = "destroy_bit"
      BY <1>2, <2>6, <2>8, <2>10, <2>11, <3>1 DEF ReadsSlot
    <3>3. PICK c \in Blocks : c = block[p]
      BY <1>4
    <3>4. DestructionOf(c)'
      BY <1>2, <2>13, <3>3
    <3>. QED
      BY <1>2, <3>2, <3>3, <3>4, DestructionElsewhere
  <2>15. (Role(p) /\ SendCopy(p) /\ RecvCopy(p) /\ WriterToken(p) /\ ReaderToken(p))'
    <3>1. reply[p].kind \notin Fifo!InProgress /\ p \in Receivers
      BY <1>1, <1>3 DEF Role, Sending, Receiving
    <3>. QED
      BY <1>2, <2>2, <3>1 DEF Role, Sending, Receiving, SendLabels, RecvLabels, SendCopy, RecvCopy,
                       ReaderToken, Reading, WriterToken, Writing
  <2>16. ~Writing(p)' /\ ~Reading(p)'
    BY <2>2 DEF Writing, Reading
  <2>. QED
    BY <1>1, <1>2, <1>5, <2>2, <2>4, <2>7, <2>9, <2>11, <2>12, <2>14, <2>15, <2>16, PlaceStep
<1>. QED
  BY <1>6, <1>7

\* The destruction of a block that has begun is, from here on, between the
\* reader of a slot before the last and the thread that goes over the slots.
LEMMA ReadBitIInv ==
  ASSUME IInv, NEW p \in Receivers, ReadBit(p)
  PROVE  IInv'
<1> DEFINE last == "DESTROY" \in slotState[block[p]][offset[p]]
           l == IF last THEN "destroy" ELSE "idle"
           o == IF last THEN offset[p] + 1 ELSE offset[p]
<1>1. p \in Threads /\ LocalTypes /\ pc[p] = "read_bit" /\ offset \in [Threads -> 0 .. BlockCap]
  BY LocalTypesHold DEF Threads, ReadBit, Goto, IInv, TypeOK
<1>2. /\ UNCHANGED <<positions, headIndex, headBlock, tailIndex, tailBlock, next, slotMsg, freed>>
      /\ UNCHANGED <<index, newIndex, block, nextBlock, sent, log, taken, got, at, reply>>
      /\ AddBit(p, "READ")
  BY DEF ReadBit, positions, ghosts
<1>3. pc' = [pc EXCEPT ![p] = l] /\ offset' = [offset EXCEPT ![p] = o]
  <2>1. CASE last
    BY <2>1 DEF ReadBit, Goto, Keep
  <2>2. CASE ~last
    <3>1. offset' = offset /\ offset = [offset EXCEPT ![p] = offset[p]]
      BY <1>1, <2>2 DEF ReadBit
    <3>. QED
      BY <2>2, <3>1 DEF ReadBit, Goto
  <2>. QED
    BY <2>1, <2>2
<1>4. ReaderToken(p) /\ Reading(p) /\ Role(p) /\ Slots /\ Destruction
  BY <1>1 DEF IInv, Reading
<1>5. /\ block[p] \in Blocks /\ offset[p] \in Offsets /\ at[p] = Num(block[p], offset[p])
      /\ at[p] < taken /\ offset[p] # BlockCap - 1
      /\ "WRITE" \in State(block[p], offset[p]) /\ "READ" \notin State(block[p], offset[p])
  BY <1>1, <1>4 DEF ReaderToken
<1>6. /\ o \in Offsets /\ (last => o = offset[p] + 1) /\ (~last => o = offset[p])
      /\ (l = "destroy" <=> last) /\ l \in {"destroy", "idle"}
  BY <1>5, BlocksNat DEF Offsets
<1>7. /\ slotState' \in [Blocks -> [Offsets -> SUBSET {"WRITE", "READ", "DESTROY"}]]
      /\ slotState'[block[p]][offset[p]] = State(block[p], offset[p]) \union {"READ"}
      /\ \A b \in Blocks : \A i \in Offsets :
           /\ b # block[p] \/ i # offset[p] => State(b, i)' = State(b, i)
           /\ State(b, i) \subseteq State(b, i)'
           /\ State(b, i)' \subseteq State(b, i) \union {"READ"}
  BY <1>1, <1>2, <1>5, AddBitState
<1>8. \A b \in Blocks : \A i \in Offsets :
        /\ "WRITE" \in State(b, i)' <=> "WRITE" \in State(b, i)
        /\ "DESTROY" \in State(b, i)' <=> "DESTROY" \in State(b, i)
        /\ "READ" \in State(b, i) => "READ" \in State(b, i)'
        /\ "READ" \in State(b, i)' => "READ" \in State(b, i) \/ (b = block[p] /\ i = offset[p])
  BY <1>7
<1>9. last <=> "DESTROY" \in State(block[p], offset[p])
  BY DEF State
<1> HIDE DEF last, l, o
<1>10. pc'[p] = l /\ offset'[p] = o
  BY <1>1, <1>3 DEF LocalTypes
<1>11. \A q \in Threads : q # p => ThreadSame(q)
  BY <1>1, <1>2, <1>3 DEF ThreadSame, LocalTypes
<1>12. LocalTypes'
  BY <1>1, <1>2, <1>3, <1>6, BlocksNat DEF LocalTypes, RecvLabels
<1>13. \A q \in Threads :
        /\ Writing(q)' <=> Writing(q)
        /\ Reading(q)' <=> Reading(q) /\ q # p
        /\ Destroying(q)' <=> Destroying(q) \/ (q = p /\ last)
        /\ pc'[q] = "destroy_bit" <=> pc[q] = "destroy_bit"
        /\ Uses(q)' => Uses(q) \/ q = p
  BY <1>1, <1>6, <1>10, <1>11 DEF ThreadSame, Writing, Reading, Destroying, Uses
<1>14. /\ ~Writing(p) /\ ~Destroying(p) /\ ~MovesTail(p) /\ ~MovesHead(p)
       /\ ~MovesTail(p)' /\ ~MovesHead(p)' /\ ~Writing(p)' /\ ~Reading(p)'
  BY <1>1, <1>6, <1>10 DEF Writing, Reading, Destroying, MovesTail, MovesHead
<1>15. \A q \in Threads : q # p => block'[q] = block[q] /\ offset'[q] = offset[q]
  BY <1>11 DEF ThreadSame
<1>16. TypeOK'
  <2>1. TypeOK
    BY DEF IInv
  <2>2. \A q \in Threads : Uses(q)' => offset'[q] \in Offsets /\ block'[q] \in Blocks
    BY <1>2, <1>5, <1>6, <1>10, <1>13, <1>15, <2>1 DEF TypeOK
  <2>. QED
    BY <1>2, <1>7, <1>12, <2>1, <2>2 DEF TypeOK, LocalTypes
<1>17. GhostTypes' /\ ReadsWhatWasSent'
  BY <1>2 DEF IInv, GhostTypes, ReadsWhatWasSent
<1>18. \A q \in Threads : \A b, i :
         /\ WritesSlot(q, b, i)' <=> WritesSlot(q, b, i)
         /\ ReadsSlot(q, b, i)' <=> ReadsSlot(q, b, i) /\ q # p
         /\ Destroys(q, b)' <=> Destroys(q, b) \/ (q = p /\ b = block[p] /\ last)
  BY <1>2, <1>13, <1>14, <1>15 DEF WritesSlot, ReadsSlot, Destroys
<1>19. Slots'
  <2> SUFFICES ASSUME NEW b \in Blocks, NEW i \in Offsets
               PROVE  /\ "WRITE" \in State(b, i) =>
                           Num(b, i) < Len(log) /\ slotMsg[b][i] = log[Num(b, i) + 1]
                      /\ "WRITE" \notin State(b, i) /\ Num(b, i) < Len(log) =>
                           \E q \in Threads : WritesSlot(q, b, i)
                      /\ "READ" \in State(b, i)' => Num(b, i) < taken /\ "WRITE" \in State(b, i)
                      /\ "READ" \notin State(b, i)' /\ Num(b, i) < taken /\ i # BlockCap - 1 =>
                           \E q \in Threads : ReadsSlot(q, b, i)'
    BY <1>2, <1>8, <1>18 DEF Slots
  <2>1. ASSUME "READ" \notin State(b, i)', Num(b, i) < taken, i # BlockCap - 1
        PROVE  \E q \in Threads : ReadsSlot(q, b, i)'
    <3>1. PICK q \in Threads : ReadsSlot(q, b, i)
      BY <1>4, <1>8, <2>1 DEF Slots
    <3>2. b # block[p] \/ i # offset[p]
      BY <1>7, <2>1 DEF State
    <3>3. q # p
      BY <3>1, <3>2 DEF ReadsSlot
    <3>. QED
      BY <1>18, <3>1, <3>3
  <2>. QED
    BY <1>4, <1>5, <1>8, <2>1 DEF Slots
<1>20. DestructionOf(block[p])'
  <2>1. PICK b \in Blocks, d0 \in Offsets : b = block[p] /\ d0 = offset[p]
    BY <1>5
  <2>2. DestructionOf(b) /\ d0 # BlockCap - 1 /\ BlockCap - 1 \in Offsets
    BY <1>4, <1>5, <2>1, BlocksNat DEF Destruction
  <2>3. Begun(b)' <=> Begun(b)
    <3>1. ~ReadsSlot(p, b, BlockCap - 1)
      BY <2>1, <2>2 DEF ReadsSlot
    <3>. QED
      BY <1>2, <1>18, <3>1 DEF Begun
  <2>4. \A d : UpTo(b, d) => UpTo(b, d)'
    BY <1>8 DEF UpTo
  <2>5. \A d \in Offsets : LeftAt(b, d)' <=> LeftAt(b, d) /\ d # d0
    BY <1>7, <1>8, <2>1 DEF LeftAt, State
  <2>6. /\ \A d \in Offsets : "DESTROY" \in State(b, d)' <=> "DESTROY" \in State(b, d)
        /\ "WRITE" \in State(b, BlockCap - 1)' <=> "WRITE" \in State(b, BlockCap - 1)
        /\ \A i \in Offsets : "READ" \in State(b, i) => "READ" \in State(b, i)'
    BY <1>8, <2>2
  <2>7. CASE last
    <3>1. LeftAt(b, d0)
      BY <1>5, <1>9, <2>1, <2>7 DEF LeftAt
    <3>2. b \notin freed /\ UpTo(b, d0) /\ (\A q \in Threads : ~Destroys(q, b)) /\ Begun(b)
      BY <2>2, <3>1 DEF DestructionOf, LeftAt
    <3>3. \A q \in Threads : Destroys(q, b)' <=> q = p
      BY <1>18, <2>1, <2>7, <3>2
    <3>4. offset'[p] = d0 + 1 /\ offset'[p] \in Offsets
      BY <1>6, <1>10, <2>1, <2>7
    <3>5. \A i \in Offsets : /\ i < d0 + 1 => i < d0 \/ i = d0
                             /\ i > d0 + 1 => i > d0
                             /\ i = d0 + 1 => i > d0
                             /\ i # d0 => i < d0 \/ i > d0
      BY BlocksNat
    <3>6. \A i \in Offsets : i < d0 + 1 => "READ" \in State(b, i)'
      BY <1>7, <2>1, <2>6, <3>2, <3>5 DEF UpTo, State
    <3>7. \A i \in Offsets : i > d0 + 1 \/ i = d0 + 1 => "DESTROY" \notin State(b, i)'
      BY <2>6, <3>2, <3>5 DEF UpTo
    <3>8. UpTo(b, offset[p])' /\ "DESTROY" \notin slotState'[b][offset'[p]]
      BY <3>4, <3>6, <3>7 DEF UpTo, State
    <3>9. \A d \in Offsets : ~LeftAt(b, d)'
      <4> SUFFICES ASSUME NEW d \in Offsets, LeftAt(b, d), d # d0 PROVE FALSE
        BY <2>5
      <4>. QED
        BY <3>2, <3>5 DEF LeftAt, UpTo
    <3>10. pc'[p] = "destroy" /\ p \in Threads
      BY <1>1, <1>6, <1>10, <2>7
    <3>11. DestructionOf(b)'
      BY <1>2, <2>2, <2>3, <2>6, <3>2, <3>3, <3>4, <3>8, <3>9, <3>10 DEF DestructionOf, State, UpTo
    <3>. QED
      BY <1>2, <2>1, <3>11
  <2>8. CASE ~last
    <3>1. ~LeftAt(b, d0)
      BY <1>9, <2>1, <2>8 DEF LeftAt
    <3>2. \A q \in Threads : Destroys(q, b)' <=> Destroys(q, b)
      BY <1>18, <2>8
    <3>3. \A q \in Threads : Destroys(q, b) => /\ q # p /\ offset'[q] = offset[q]
                                               /\ (pc'[q] = "destroy_bit" <=> pc[q] = "destroy_bit")
      BY <1>13, <1>14, <1>15 DEF Destroys
    <3>4. \A d \in Offsets : LeftAt(b, d)' <=> LeftAt(b, d)
      BY <2>5, <3>1
    <3>5. ASSUME NEW q \in Threads, Destroys(q, b)
          PROVE  /\ Begun(b)' /\ b \notin freed'
                 /\ offset'[q] \in Offsets /\ UpTo(b, offset[q])'
                 /\ "DESTROY" \notin slotState'[b][offset'[q]]
                 /\ pc'[q] = "destroy_bit" => offset'[q] # BlockCap - 1
      <4>1. /\ Begun(b) /\ b \notin freed /\ UpTo(b, offset[q]) /\ offset[q] \in Offsets
            /\ "DESTROY" \notin State(b, offset[q])
            /\ pc[q] = "destroy_bit" => offset[q] # BlockCap - 1
        BY <2>2, <3>5 DEF DestructionOf
      <4>2. PICK d \in Offsets : d = offset[q] /\ d = offset'[q]
        BY <3>3, <3>5, <4>1
      <4>3. UpTo(b, d)' /\ "DESTROY" \notin State(b, d)'
        BY <2>4, <2>6, <4>1, <4>2
      <4>. QED
        BY <1>2, <2>3, <3>3, <3>5, <4>1, <4>2, <4>3 DEF State, UpTo
    <3>6. DestructionOf(b)'
      BY <1>2, <2>2, <2>3, <2>4, <2>6, <3>2, <3>4, <3>5 DEF DestructionOf, State, UpTo
    <3>. QED
      BY <1>2, <2>1, <3>6
  <2>. QED
    BY <2>7, <2>8
<1>21. Destruction'
  <2>1. \A q \in Threads : \A b : Destroys(q, b) => q # p
    BY <1>14 DEF Destroys
  <2>2. \A b \in Blocks : b # block[p] =>
           /\ \A i \in Offsets : State(b, i)' = State(b, i)
           /\ b \in freed' <=> b \in freed
           /\ \A q \in Threads :
                /\ \A i \in Offsets : ReadsSlot(q, b, i)' <=> ReadsSlot(q, b, i)
                /\ Destroys(q, b)' <=> Destroys(q, b)
                /\ Destroys(q, b) => /\ offset'[q] = offset[q]
                                     /\ pc'[q] = "destroy_bit" <=> pc[q] = "destroy_bit"
    BY <1>2, <1>7, <1>13, <1>15, <1>18, <2>1 DEF ReadsSlot
  <2>3. PICK c \in Blocks : c = block[p]
    BY <1>5
  <2>4. DestructionOf(c)'
    BY <1>2, <1>20, <2>3
  <2>. QED
    BY <1>2, <2>2, <2>3, <2>4, DestructionElsewhere
<1>22. (Role(p) /\ SendCopy(p) /\ RecvCopy(p) /\ WriterToken(p) /\ ReaderToken(p))'
  <2>1. reply[p].kind \notin Fifo!InProgress /\ p \in Receivers
    BY <1>1, <1>4 DEF Role, Sending, Receiving
  <2>. QED
    BY <1>2, <1>6, <1>10, <2>1 DEF Role, Sending, Receiving, SendLabels, RecvLabels, SendCopy, RecvCopy,
                       ReaderToken, Reading, WriterToken, Writing
<1>23. \A q \in Threads : q # p => \A b \in Blocks : \A i \in Offsets :
         ReadsSlot(q, b, i) => b # block[p] \/ i # offset[p]
  BY <1>1, <1>4 DEF IInv, OneSlotEach, ReadsSlot
<1>24. \A q \in Threads : q # p =>
           \A b \in Blocks : \A i \in Offsets :
             /\ WritesSlot(q, b, i) => /\ "WRITE" \in State(b, i)' => "WRITE" \in State(b, i)
                                       /\ slotMsg'[b][i] = slotMsg[b][i]
             /\ ReadsSlot(q, b, i) => /\ "READ" \in State(b, i)' => "READ" \in State(b, i)
                                      /\ "WRITE" \in State(b, i) => "WRITE" \in State(b, i)'
  BY <1>2, <1>8, <1>23
<1>25. pc[p] \notin {"first_head", "link"} /\ pc'[p] \notin {"first_head", "link"}
  BY <1>1, <1>6, <1>10
<1>. QED
  BY <1>1, <1>2, <1>11, <1>14, <1>16, <1>17, <1>19, <1>21, <1>22, <1>24, <1>25, PlaceStep

------------------------------------------------------------------------------
(***************************************************************************)
(* Block::destroy.                                                         *)
(***************************************************************************)
\* What a thread inside Block::destroy sees of its block.
LEMMA Destroyer ==
  ASSUME IInv, NEW p \in Receivers, Destroying(p)
  PROVE  /\ p \in Threads /\ block[p] \in Blocks /\ offset[p] \in Offsets
         /\ Destroys(p, block[p]) /\ DestructionOf(block[p])
         /\ \A q \in Threads : Destroys(q, block[p]) => q = p
         /\ Begun(block[p]) /\ block[p] \notin freed
         /\ \A i \in Offsets : i < offset[p] => "READ" \in State(block[p], i)
         /\ \A i \in Offsets : i > offset[p] \/ i = offset[p] => "DESTROY" \notin State(block[p], i)
         /\ pc[p] = "destroy_bit" => offset[p] # BlockCap - 1
         /\ reply[p].kind \notin Fifo!InProgress
<1>1. p \in Threads /\ Uses(p) /\ ~Sending(p) /\ ~Receiving(p)
  BY DEF Threads, Destroying, Uses, Sending, Receiving
<1>2. block[p] \in Blocks /\ offset[p] \in Offsets /\ reply[p].kind \notin Fifo!InProgress
  BY <1>1 DEF IInv, TypeOK, Role
<1>3. Destroys(p, block[p]) /\ DestructionOf(block[p])
  BY <1>2 DEF Destroys, IInv, Destruction
<1>. QED
  BY <1>1, <1>2, <1>3 DEF DestructionOf, UpTo

\* A step inside Block::destroy that leaves READ and WRITE, and the block, as
\* they are.
LEMMA DestroyStep ==
  ASSUME IInv, NEW p \in Receivers, Destroying(p),
         UNCHANGED <<positions, next, slotMsg, index, newIndex, block, nextBlock>>,
         UNCHANGED <<sent, log, taken, got, at, reply>>,
         slotState' \in [Blocks -> [Offsets -> SUBSET {"WRITE", "READ", "DESTROY"}]],
         \A b \in Blocks : \A i \in Offsets :
           /\ "WRITE" \in State(b, i)' <=> "WRITE" \in State(b, i)
           /\ "READ" \in State(b, i)' <=> "READ" \in State(b, i)
           /\ b # block[p] => State(b, i)' = State(b, i),
         freed' \subseteq Blocks, \A b \in Blocks : b # block[p] => (b \in freed' <=> b \in freed),
         NEW l \in {"destroy", "destroy_bit", "idle"}, pc' = [pc EXCEPT ![p] = l],
         NEW o \in Offsets, offset' = [offset EXCEPT ![p] = o],
         DestructionOf(block[p])'
  PROVE  IInv'
<1>1. p \in Threads /\ LocalTypes /\ pc[p] \in {"destroy", "destroy_bit"}
  BY LocalTypesHold DEF Threads, Destroying
<1>2. block[p] \in Blocks /\ reply[p].kind \notin Fifo!InProgress
  BY Destroyer
<1>3. pc'[p] = l /\ offset'[p] = o
  BY <1>1 DEF LocalTypes
<1>4. \A q \in Threads : q # p => ThreadSame(q)
  BY <1>1 DEF ThreadSame, LocalTypes
<1>5. LocalTypes'
  BY <1>1, BlocksNat DEF LocalTypes, RecvLabels
<1>6. \A q \in Threads :
        /\ Writing(q)' <=> Writing(q)
        /\ Reading(q)' <=> Reading(q)
        /\ q # p => /\ Destroying(q)' <=> Destroying(q)
                    /\ pc'[q] = "destroy_bit" <=> pc[q] = "destroy_bit"
        /\ Uses(q)' => Uses(q)
  BY <1>1, <1>3, <1>4 DEF ThreadSame, Writing, Reading, Destroying, Uses
<1>7. /\ ~Writing(p) /\ ~Reading(p) /\ ~MovesTail(p) /\ ~MovesHead(p)
      /\ ~MovesTail(p)' /\ ~MovesHead(p)' /\ ~Writing(p)' /\ ~Reading(p)'
      /\ pc[p] \notin {"first_head", "link"} /\ pc'[p] \notin {"first_head", "link"}
  BY <1>1, <1>3 DEF Writing, Reading, MovesTail, MovesHead
<1>8. \A q \in Threads : q # p => block'[q] = block[q] /\ offset'[q] = offset[q]
  BY <1>4 DEF ThreadSame
<1>9. UNCHANGED <<headIndex, headBlock, tailIndex, tailBlock>>
  BY DEF positions
<1>10. TypeOK'
  <2>1. TypeOK
    BY DEF IInv
  <2>2. \A q \in Threads : Uses(q)' => offset'[q] \in Offsets /\ block'[q] \in Blocks
    BY <1>2, <1>3, <1>6, <1>8, <2>1 DEF TypeOK
  <2>. QED
    BY <1>5, <1>9, <2>1, <2>2 DEF TypeOK, LocalTypes
<1>11. GhostTypes' /\ ReadsWhatWasSent'
  BY DEF IInv, GhostTypes, ReadsWhatWasSent
<1>12. \A q \in Threads : \A b, i :
         /\ WritesSlot(q, b, i)' <=> WritesSlot(q, b, i)
         /\ ReadsSlot(q, b, i)' <=> ReadsSlot(q, b, i)
         /\ b # block[p] => (Destroys(q, b)' <=> Destroys(q, b))
  BY <1>6, <1>7, <1>8 DEF WritesSlot, ReadsSlot, Destroys
<1>13. Slots'
  BY <1>12 DEF IInv, Slots
<1>14. Destruction'
  <2>1. \A q \in Threads : \A b : b # block[p] /\ Destroys(q, b) => q # p
    BY DEF Destroys
  <2>2. \A b \in Blocks : b # block[p] =>
           /\ \A i \in Offsets : State(b, i)' = State(b, i)
           /\ b \in freed' <=> b \in freed
           /\ \A q \in Threads :
                /\ \A i \in Offsets : ReadsSlot(q, b, i)' <=> ReadsSlot(q, b, i)
                /\ Destroys(q, b)' <=> Destroys(q, b)
                /\ Destroys(q, b) => /\ offset'[q] = offset[q]
                                     /\ pc'[q] = "destroy_bit" <=> pc[q] = "destroy_bit"
    BY <1>6, <1>8, <1>12, <2>1
  <2>3. PICK c \in Blocks : c = block[p]
    BY <1>2
  <2>4. DestructionOf(c)'
    BY <2>3
  <2>. QED
    BY <2>2, <2>3, <2>4, DestructionElsewhere
<1>15. (Role(p) /\ SendCopy(p) /\ RecvCopy(p) /\ WriterToken(p) /\ ReaderToken(p))'
  BY <1>2, <1>3 DEF Role, Sending, Receiving, SendLabels, RecvLabels, SendCopy, RecvCopy,
                       ReaderToken, Reading, WriterToken, Writing
<1>. QED
  BY <1>1, <1>4, <1>7, <1>10, <1>11, <1>13, <1>14, <1>15, PlaceStep

\* Offsets, around the one in hand.
LEMMA OffsetSteps ==
  ASSUME NEW d \in Offsets
  PROVE  /\ d # BlockCap - 1 => d + 1 \in Offsets
         /\ \A i \in Offsets : /\ i < d + 1 => i < d \/ i = d
                               /\ i > d + 1 => i > d
                               /\ i = d + 1 => i > d
                               /\ i # d => i < d \/ i > d
                               /\ i < d => i < d + 1
                               /\ ~(i < d /\ i > d) /\ (i < d \/ i > d => i # d)
         /\ d < BlockCap - 1 <=> d # BlockCap - 1
         /\ d >= BlockCap - 1 <=> d = BlockCap - 1
         /\ \A i \in Offsets : i # BlockCap - 1 => i < BlockCap - 1
  BY ListAssumption DEF Offsets

LEMMA DestroyLookIInv ==
  ASSUME IInv, NEW p \in Receivers, DestroyLook(p)
  PROVE  IInv'
<1> DEFINE read == "READ" \in slotState[block[p]][offset[p]]
           l == IF read THEN "destroy" ELSE "destroy_bit"
           o == IF read THEN offset[p] + 1 ELSE offset[p]
<1>1. pc[p] = "destroy" /\ Destroying(p) /\ LocalTypes /\ p \in Threads
  BY LocalTypesHold DEF DestroyLook, Destroying, Threads
<1>2. /\ UNCHANGED <<positions, next, slotState, slotMsg, freed, index, newIndex, block, nextBlock>>
      /\ UNCHANGED <<sent, log, taken, got, at, reply>>
      /\ offset[p] < BlockCap - 1
  BY DEF DestroyLook, blocks, ghosts
<1>3. pc' = [pc EXCEPT ![p] = l] /\ offset' = [offset EXCEPT ![p] = o]
  <2>1. CASE read
    BY <2>1 DEF DestroyLook, Goto, Keep
  <2>2. CASE ~read
    <3>1. offset' = offset /\ offset = [offset EXCEPT ![p] = offset[p]]
      BY <1>1, <2>2 DEF DestroyLook, LocalTypes
    <3>. QED
      BY <2>2, <3>1 DEF DestroyLook, Goto
  <2>. QED
    BY <2>1, <2>2
<1>4. PICK b \in Blocks, d \in Offsets : b = block[p] /\ d = offset[p]
  BY <1>1, Destroyer
<1>5. /\ DestructionOf(b) /\ Begun(b) /\ b \notin freed
      /\ \A q \in Threads : Destroys(q, b) <=> q = p
      /\ \A i \in Offsets : i < d => "READ" \in State(b, i)
      /\ \A i \in Offsets : i > d \/ i = d => "DESTROY" \notin State(b, i)
  BY <1>1, <1>4, Destroyer
<1>6. /\ o \in Offsets /\ l \in {"destroy", "destroy_bit"}
      /\ read => o = d + 1 /\ l = "destroy"
      /\ ~read => o = d /\ o # BlockCap - 1
      /\ read <=> "READ" \in State(b, d)
  BY <1>2, <1>4, OffsetSteps DEF State
<1> HIDE DEF read, l, o
<1>7. pc'[p] = l /\ offset'[p] = o
  BY <1>1, <1>3 DEF LocalTypes
<1>8. \A q \in Threads : q # p => pc'[q] = pc[q] /\ offset'[q] = offset[q]
  BY <1>1, <1>3 DEF LocalTypes
<1>9. \A b1, i : State(b1, i)' = State(b1, i)
  BY <1>2 DEF State
<1>10. \A q \in Threads : Destroys(q, b)' <=> q = p
  BY <1>2, <1>4, <1>5, <1>6, <1>7, <1>8 DEF Destroys, Destroying
<1>11. \A i \in Offsets : ReadsSlot(p, b, i)' <=> ReadsSlot(p, b, i)
  BY <1>1, <1>6, <1>7 DEF ReadsSlot, Reading
<1>12. Begun(b)'
  <2>1. \A q \in Threads : ReadsSlot(q, b, BlockCap - 1)' <=> ReadsSlot(q, b, BlockCap - 1)
    <3>1. \A q \in Threads : q # p => (Reading(q)' <=> Reading(q))
      BY <1>8 DEF Reading
    <3>. QED
      BY <1>2, <1>8, <1>11, <3>1, BlocksNat DEF ReadsSlot
  <2>. QED
    BY <1>2, <1>5, <2>1 DEF Begun
<1>13. /\ \A i \in Offsets : i < o => "READ" \in State(b, i)
       /\ \A i \in Offsets : i > o \/ i = o => "DESTROY" \notin State(b, i)
  BY <1>5, <1>6, OffsetSteps
<1>14. UpTo(b, offset[p])' /\ "DESTROY" \notin slotState'[b][offset'[p]]
  BY <1>2, <1>6, <1>7, <1>9, <1>13 DEF UpTo, State
<1>15. \A i \in Offsets : LeftAt(b, i)' <=> LeftAt(b, i)
  BY <1>9 DEF LeftAt
<1>16. \A i \in Offsets : ~LeftAt(b, i)
  BY <1>1, <1>5 DEF DestructionOf
<1>17. DestructionOf(b)'
  BY <1>1, <1>2, <1>5, <1>6, <1>7, <1>9, <1>10, <1>12, <1>14, <1>15, <1>16
     DEF DestructionOf, State, UpTo
<1>18. DestructionOf(block[p])'
  BY <1>2, <1>4, <1>17
<1>19. /\ slotState' \in [Blocks -> [Offsets -> SUBSET {"WRITE", "READ", "DESTROY"}]]
       /\ freed' \subseteq Blocks
  BY <1>2 DEF IInv, TypeOK
<1>. QED
  BY <1>1, <1>2, <1>3, <1>6, <1>9, <1>18, <1>19, DestroyStep

LEMMA DestroyBitIInv ==
  ASSUME IInv, NEW p \in Receivers, DestroyBit(p)
  PROVE  IInv'
<1> DEFINE read == "READ" \in slotState[block[p]][offset[p]]
           l == IF read THEN "destroy" ELSE "idle"
           o == IF read THEN offset[p] + 1 ELSE offset[p]
<1>1. pc[p] = "destroy_bit" /\ Destroying(p) /\ LocalTypes /\ p \in Threads
  BY LocalTypesHold DEF DestroyBit, Destroying, Threads, Goto
<1>2. /\ UNCHANGED <<positions, next, slotMsg, freed, index, newIndex, block, nextBlock>>
      /\ UNCHANGED <<sent, log, taken, got, at, reply>>
      /\ AddBit(p, "DESTROY")
  BY DEF DestroyBit, ghosts
<1>3. pc' = [pc EXCEPT ![p] = l] /\ offset' = [offset EXCEPT ![p] = o]
  <2>1. CASE read
    BY <2>1 DEF DestroyBit, Goto, Keep
  <2>2. CASE ~read
    <3>1. offset' = offset /\ offset = [offset EXCEPT ![p] = offset[p]]
      BY <1>1, <2>2 DEF DestroyBit, LocalTypes
    <3>. QED
      BY <2>2, <3>1 DEF DestroyBit, Goto
  <2>. QED
    BY <2>1, <2>2
<1>4. PICK b \in Blocks, d \in Offsets : b = block[p] /\ d = offset[p]
  BY <1>1, Destroyer
<1>5. /\ DestructionOf(b) /\ Begun(b) /\ b \notin freed /\ d # BlockCap - 1
      /\ \A q \in Threads : Destroys(q, b) <=> q = p
      /\ \A i \in Offsets : i < d => "READ" \in State(b, i)
      /\ \A i \in Offsets : i > d \/ i = d => "DESTROY" \notin State(b, i)
  BY <1>1, <1>4, Destroyer
<1>6. /\ o \in Offsets /\ l \in {"destroy", "idle"} /\ (l = "destroy" <=> read)
      /\ read => o = d + 1
      /\ ~read => o = d
      /\ read <=> "READ" \in State(b, d)
  BY <1>4, <1>5, OffsetSteps DEF State
<1> HIDE DEF read, l, o
<1>7. pc'[p] = l /\ offset'[p] = o
  BY <1>1, <1>3 DEF LocalTypes
<1>8. \A q \in Threads : q # p => pc'[q] = pc[q] /\ offset'[q] = offset[q]
  BY <1>1, <1>3 DEF LocalTypes
<1>9. /\ slotState' \in [Blocks -> [Offsets -> SUBSET {"WRITE", "READ", "DESTROY"}]]
      /\ slotState'[b][d] = State(b, d) \union {"DESTROY"}
      /\ \A b1 \in Blocks : \A i \in Offsets :
           /\ b1 # b \/ i # d => State(b1, i)' = State(b1, i)
           /\ State(b1, i) \subseteq State(b1, i)'
           /\ State(b1, i)' \subseteq State(b1, i) \union {"DESTROY"}
  BY <1>1, <1>2, <1>4, AddBitState
<1>10. \A b1 \in Blocks : \A i \in Offsets :
         /\ "WRITE" \in State(b1, i)' <=> "WRITE" \in State(b1, i)
         /\ "READ" \in State(b1, i)' <=> "READ" \in State(b1, i)
         /\ "DESTROY" \in State(b1, i)' <=> "DESTROY" \in State(b1, i) \/ (b1 = b /\ i = d)
  <2>1. "DESTROY" \in slotState'[b][d]
    BY <1>9
  <2>. QED
    BY <1>9, <2>1 DEF State
<1>11. /\ \A b1 \in Blocks : \A i \in Offsets :
            /\ "WRITE" \in State(b1, i)' <=> "WRITE" \in State(b1, i)
            /\ "READ" \in State(b1, i)' <=> "READ" \in State(b1, i)
            /\ b1 # block[p] => State(b1, i)' = State(b1, i)
       /\ freed' \subseteq Blocks /\ \A b1 \in Blocks : b1 # block[p] => (b1 \in freed' <=> b1 \in freed)
  BY <1>2, <1>4, <1>9, <1>10 DEF IInv, TypeOK
<1>12. \A q \in Threads : Destroys(q, b)' <=> q = p /\ read
  BY <1>2, <1>4, <1>5, <1>6, <1>7, <1>8 DEF Destroys, Destroying
<1>13. Begun(b)'
  <2>1. \A q \in Threads : ReadsSlot(q, b, BlockCap - 1)' <=> ReadsSlot(q, b, BlockCap - 1)
    <3>1. \A q \in Threads : q # p => (Reading(q)' <=> Reading(q))
      BY <1>8 DEF Reading
    <3>2. ~Reading(p)' /\ ~Reading(p)
      BY <1>1, <1>6, <1>7 DEF Reading
    <3>. QED
      BY <1>2, <1>8, <3>1, <3>2 DEF ReadsSlot
  <2>. QED
    BY <1>2, <1>5, <2>1 DEF Begun
<1>14. \A i \in Offsets : ~LeftAt(b, i)
  BY <1>1, <1>5 DEF DestructionOf
<1>15. \A i \in Offsets : LeftAt(b, i)' <=> i = d /\ ~read
  BY <1>6, <1>10, <1>14 DEF LeftAt
<1>16. BlockCap - 1 \in Offsets
  BY BlocksNat
<1>17. /\ Begun(b)' => "WRITE" \in State(b, BlockCap - 1)'
       /\ \A i \in Offsets : "DESTROY" \in State(b, i)' => i # BlockCap - 1
  BY <1>5, <1>10, <1>16 DEF DestructionOf
<1>18. CASE read
  <2>1. /\ \A i \in Offsets : i < o => "READ" \in State(b, i)
        /\ \A i \in Offsets : i > o \/ i = o => "DESTROY" \notin State(b, i) /\ i # d
    BY <1>5, <1>6, <1>18, OffsetSteps
  <2>2. /\ \A i \in Offsets : i < o => "READ" \in State(b, i)'
        /\ \A i \in Offsets : i > o \/ i = o => "DESTROY" \notin State(b, i)'
    BY <1>10, <2>1
  <2>3. UpTo(b, offset[p])' /\ "DESTROY" \notin slotState'[b][offset'[p]]
    BY <1>6, <1>7, <2>2 DEF UpTo, State
  <2>4. DestructionOf(b)'
    BY <1>1, <1>2, <1>5, <1>6, <1>7, <1>12, <1>13, <1>15, <1>17, <1>18, <2>3
       DEF DestructionOf, State, UpTo
  <2>5. DestructionOf(block[p])'
    BY <1>2, <1>4, <2>4
  <2>. QED
    BY <1>1, <1>2, <1>3, <1>6, <1>9, <1>11, <2>5, DestroyStep
<1>19. CASE ~read
  <2>1. /\ \A i \in Offsets : i < d => "READ" \in State(b, i)'
        /\ \A i \in Offsets : i > d => "DESTROY" \notin State(b, i)'
    BY <1>5, <1>10, OffsetSteps
  <2>2. UpTo(b, d)'
    BY <2>1 DEF UpTo
  <2>3. DestructionOf(b)'
    BY <1>2, <1>5, <1>12, <1>13, <1>15, <1>17, <1>19, <2>2 DEF DestructionOf
  <2>4. DestructionOf(block[p])'
    BY <1>2, <1>4, <2>3
  <2>. QED
    BY <1>1, <1>2, <1>3, <1>6, <1>9, <1>11, <2>4, DestroyStep
<1>. QED
  BY <1>18, <1>19

LEMMA FreeIInv ==
  ASSUME IInv, NEW p \in Receivers, Free(p)
  PROVE  IInv'
<1>1. pc[p] = "destroy" /\ Destroying(p) /\ LocalTypes /\ p \in Threads
  BY LocalTypesHold DEF Free, Destroying, Threads, Goto
<1>2. /\ UNCHANGED <<positions, next, slotState, slotMsg, index, newIndex, block, offset, nextBlock>>
      /\ UNCHANGED <<sent, log, taken, got, at, reply>>
      /\ offset[p] >= BlockCap - 1
      /\ pc' = [pc EXCEPT ![p] = "idle"]
      /\ freed' = freed \union {block[p]}
  BY DEF Free, local, ghosts, Goto
<1>3. PICK b \in Blocks, d \in Offsets : b = block[p] /\ d = offset[p]
  BY <1>1, Destroyer
<1>4. /\ DestructionOf(b) /\ Begun(b)
      /\ \A q \in Threads : Destroys(q, b) <=> q = p
      /\ \A i \in Offsets : i < d => "READ" \in State(b, i)
  BY <1>1, <1>3, Destroyer
<1>5. d = BlockCap - 1 /\ offset' = [offset EXCEPT ![p] = d]
  BY <1>1, <1>2, <1>3, OffsetSteps DEF LocalTypes
<1>6. pc'[p] = "idle" /\ \A q \in Threads : q # p => pc'[q] = pc[q]
  BY <1>1, <1>2 DEF LocalTypes
<1>7. \A b1, i : State(b1, i)' = State(b1, i)
  BY <1>2 DEF State
<1>8. \A q \in Threads : ~Destroys(q, b)'
  BY <1>2, <1>4, <1>6 DEF Destroys, Destroying
<1>9. Begun(b)'
  <2>1. \A q \in Threads : ReadsSlot(q, b, BlockCap - 1)' <=> ReadsSlot(q, b, BlockCap - 1)
    <3>1. \A q \in Threads : Reading(q)' <=> Reading(q)
      BY <1>1, <1>6 DEF Reading
    <3>. QED
      BY <1>2, <3>1 DEF ReadsSlot
  <2>. QED
    BY <1>2, <1>4, <2>1 DEF Begun
<1>10. \A i \in Offsets : ~LeftAt(b, i)
  BY <1>1, <1>4 DEF DestructionOf
<1>11. \A i \in Offsets : LeftAt(b, i)' <=> LeftAt(b, i)
  BY <1>7 DEF LeftAt
<1>12. \A i \in Offsets : i # BlockCap - 1 => "READ" \in State(b, i)
  BY <1>4, <1>5, OffsetSteps
<1>13. DestructionOf(b)'
  BY <1>2, <1>3, <1>4, <1>7, <1>8, <1>9, <1>10, <1>11, <1>12 DEF DestructionOf, State
<1>14. DestructionOf(block[p])'
  BY <1>2, <1>3, <1>13
<1>15. /\ slotState' \in [Blocks -> [Offsets -> SUBSET {"WRITE", "READ", "DESTROY"}]]
       /\ freed' \subseteq Blocks /\ \A b1 \in Blocks : b1 # block[p] => (b1 \in freed' <=> b1 \in freed)
  BY <1>2, <1>3 DEF IInv, TypeOK
<1>. QED
  BY <1>1, <1>2, <1>5, <1>7, <1>14, <1>15, DestroyStep

------------------------------------------------------------------------------
(***************************************************************************)
(* The invariant holds in every reachable state.                           *)
(***************************************************************************)
LEMMA NextIInv == IInv /\ [Next]_vars => IInv'
<1> SUFFICES ASSUME IInv, [Next]_vars PROVE IInv'
  OBVIOUS
<1>1. ASSUME NEW p \in Senders, SendStart(p) \/ SendReserve(p) \/ SenderContinues(p)
      PROVE  IInv'
  BY <1>1, SendStartIInv, SendReserveIInv, SendLoadIInv, SendBlockIInv, FirstBlockIInv, FirstHeadIInv,
     InstallIInv, AdvanceIInv, LinkIInv, WriteIInv, PublishIInv DEF SenderContinues
<1>2. ASSUME NEW p \in Receivers, RecvStart(p) \/ RecvReserve(p) \/ ReceiverContinues(p)
      PROVE  IInv'
  <2>1. CASE RecvStart(p) \/ RecvReserve(p)
    BY <2>1, RecvStartIInv, RecvReserveIInv
  <2>2. CASE RecvReload(p) \/ RecvBlock(p) \/ RecvTail(p) \/ RecvRetry(p)
    BY <2>2, RecvLoadIInv, RecvBlockIInv, RecvTailIInv
  <2>3. CASE WaitNext(p) \/ Peek(p) \/ MoveBlock(p) \/ MoveIndex(p)
    BY <2>3, WaitNextIInv, PeekIInv, MoveBlockIInv, MoveIndexIInv
  <2>4. CASE WaitWrite(p) \/ Read(p) \/ ReadBit(p)
    BY <2>4, WaitWriteIInv, ReadIInv, ReadBitIInv
  <2>5. CASE DestroyLook(p) \/ DestroyBit(p) \/ Free(p)
    BY <2>5, DestroyLookIInv, DestroyBitIInv, FreeIInv
  <2>. QED
    BY <1>2, <2>1, <2>2, <2>3, <2>4, <2>5 DEF ReceiverContinues
<1>3. CASE Shutdown
  BY <1>3, ShutdownIInv
<1>4. CASE UNCHANGED vars
  <2>1. /\ UNCHANGED <<headIndex, headBlock, tailIndex, tailBlock, next, slotState, slotMsg, freed, pc>>
        /\ UNCHANGED <<index, newIndex, block, offset, nextBlock, sent, log, taken, got, at, reply>>
        /\ UNCHANGED positions
    BY <1>4 DEF vars, positions, blocks, local, ghosts
  <2>2. TypeOK' /\ GhostTypes' /\ LogDistinct' /\ ReadsWhatWasSent'
    BY <2>1 DEF IInv, TypeOK, Uses, GhostTypes, LogDistinct, ReadsWhatWasSent
  <2>3. \A q \in Threads :
          /\ Writing(q)' <=> Writing(q)
          /\ Reading(q)' <=> Reading(q)
          /\ Destroying(q)' <=> Destroying(q)
          /\ MovesTail(q)' <=> MovesTail(q)
          /\ MovesHead(q)' <=> MovesHead(q)
    BY <2>1 DEF Writing, Reading, Destroying, MovesTail, MovesHead
  <2>4. (TailPlace /\ HeadPlace /\ FirstBlockOnce /\ Links)'
    BY <2>1, <2>3, PositionsSame
  <2>5. (OneSlotEach /\ Slots /\ Destruction)'
    BY <2>1, <2>3, SlotsSame
  <2>6. ASSUME NEW q \in Threads
        PROVE  (Role(q) /\ SendCopy(q) /\ RecvCopy(q) /\ WriterToken(q) /\ ReaderToken(q))'
    <3>1. ThreadSame(q) /\ \A b, i : State(b, i)' = State(b, i)
      BY <2>1 DEF ThreadSame, State
    <3>. QED
      BY <2>1, <3>1, ThreadKept
  <2>. QED
    BY <2>2, <2>4, <2>5, <2>6 DEF IInv
<1>. QED
  BY <1>1, <1>2, <1>3, <1>4 DEF Next

\* What ListChannelInv says of positions, tokens, slots and duties holds in every
\* reachable state of list.rs, for every block size and any number of threads.
THEOREM Invariance == Spec => []IInv
  BY InitIInv, NextIInv, PTL DEF Spec

------------------------------------------------------------------------------
(***************************************************************************)
(* Type correctness, and what is read.                                     *)
(***************************************************************************)
\* Shape of the state; and a thread that has reserved something has a real slot,
\* never the index between two blocks, never the null block.
THEOREM TypeCorrect == Spec => []TypeOK
<1>1. IInv => TypeOK
  BY DEF IInv
<1>. QED
  BY <1>1, Invariance, PTL

\* What a receiver takes out of a slot is the message put in by the send that
\* reserved the same position, also across the end of a block.
THEOREM ReadsWhatWasSentAlways == Spec => []ReadsWhatWasSent
<1>1. IInv => ReadsWhatWasSent
  BY DEF IInv
<1>. QED
  BY <1>1, Invariance, PTL

------------------------------------------------------------------------------
(***************************************************************************)
(* The memory of the blocks.                                               *)
(***************************************************************************)
\* A block is deallocated when each of its messages has been taken out, and
\* nobody is still busy with one of its slots.
LEMMA FreedIsOver ==
  ASSUME IInv, NEW b \in freed
  PROVE  /\ b \in Blocks /\ Begun(b)
         /\ \A p \in Threads : (Writing(p) \/ Reading(p) \/ Destroying(p)) => block[p] # b
<1>1. b \in Blocks /\ Slots
  BY DEF IInv, TypeOK
<1>2. DestructionOf(b)
  BY <1>1 DEF IInv, Destruction
<1>3. Begun(b) /\ \A i \in Offsets : i # BlockCap - 1 => "READ" \in State(b, i)
  BY <1>2 DEF DestructionOf
<1>4. ASSUME NEW p \in Threads, Writing(p), block[p] = b
      PROVE  FALSE
  <2>1. WriterToken(p)
    BY DEF IInv
  <2>2. offset[p] \in Offsets /\ "WRITE" \notin State(b, offset[p])
    BY <1>4, <2>1 DEF WriterToken
  <2>3. CASE offset[p] = BlockCap - 1
    BY <1>2, <1>3, <2>2, <2>3 DEF DestructionOf
  <2>4. CASE offset[p] # BlockCap - 1
    BY <1>1, <1>3, <2>2, <2>4 DEF Slots
  <2>. QED
    BY <2>3, <2>4
<1>5. ASSUME NEW p \in Threads, Reading(p), block[p] = b
      PROVE  FALSE
  <2>1. ReaderToken(p)
    BY DEF IInv
  <2>2. offset[p] \in Offsets /\ "READ" \notin State(b, offset[p])
    BY <1>5, <2>1 DEF ReaderToken
  <2>3. offset[p] = BlockCap - 1
    BY <1>3, <2>2
  <2>4. ReadsSlot(p, b, BlockCap - 1)
    BY <1>5, <2>3 DEF ReadsSlot
  <2>. QED
    BY <1>3, <2>4 DEF Begun
<1>6. ASSUME NEW p \in Threads, Destroying(p), block[p] = b
      PROVE  FALSE
  BY <1>2, <1>6 DEF DestructionOf, Destroys
<1>. QED
  BY <1>1, <1>3, <1>4, <1>5, <1>6

\* A block is deallocated only when no thread will go through a pointer to it any
\* more: neither a sender that has still to link it or to write into it, nor a
\* reader, nor a second thread in Block::destroy, nor a receiver that looks ahead
\* at the block after its own.
THEOREM NoUseAfterFreeAlways == Spec => []NoUseAfterFree
<1>1. IInv => NoUseAfterFree
  <2> SUFFICES ASSUME IInv, NEW p \in Threads
               PROVE  /\ Uses(p) => block[p] \notin freed
                      /\ pc[p] = "peek" => nextBlock[p] \notin freed
    BY DEF NoUseAfterFree
  <2>1. Uses(p) => Writing(p) \/ Reading(p) \/ Destroying(p)
    BY DEF Uses, Writing, Reading, Destroying
  <2>2. ASSUME pc[p] = "peek", nextBlock[p] \in freed
        PROVE  FALSE
    <3>1. MovesHead(p)
      BY <2>2 DEF MovesHead
    <3>2. HeadOffset = BlockCap /\ block[p] = HeadLap + 1 /\ nextBlock[p] = block[p] + 1
          /\ block[p] \in Nat \ {0}
      BY <2>2, <3>1, HeadMover
    <3>3. Num(block[p] + 1, BlockCap - 1) < taken
      BY <2>2, <3>2, FreedIsOver DEF Begun
    <3>4. taken = Num(block[p], BlockCap)
      BY <3>2 DEF IInv, HeadPlace
    <3>5. PICK b \in Nat \ {0} : b = block[p] + 1
      BY <3>2
    <3>6. BlockCap - 1 \in 0 .. BlockCap /\ BlockCap \in 0 .. BlockCap /\ BlockCap \in Nat \ {0}
          /\ 0 \in 0 .. BlockCap
      BY BlocksNat
    <3>7. Num(block[p] + 1, 0) = Num(block[p], BlockCap) /\ Num(b, BlockCap - 1) \in Nat /\ Num(b, 0) \in Nat
      BY <3>2, <3>6, NumNext
    <3>8. Num(b, 0) <= Num(b, BlockCap - 1)
      <4>1. (b - 1) * BlockCap \in Nat
        BY <3>5, <3>6, MulNat
      <4>. QED
        BY <3>6, <4>1 DEF Num
    <3>. QED
      BY <3>3, <3>4, <3>5, <3>7, <3>8
  <2>. QED
    BY <2>1, <2>2, FreedIsOver
<1>. QED
  BY <1>1, Invariance, PTL

------------------------------------------------------------------------------
(***************************************************************************)
(* Channel::drop.                                                          *)
(***************************************************************************)
\* A position is that of a slot of a block, or the end of a block.
BlockOf(i) == (i \div Lap) + 1
SlotOf(i)  == i % Lap

LEMMA PositionParts ==
  ASSUME NEW i \in Nat
  PROVE  /\ i \div Lap \in Nat /\ BlockOf(i) \in Nat \ {0} /\ SlotOf(i) \in 0 .. BlockCap
         /\ i = (i \div Lap) * Lap + SlotOf(i)
<1>1. Lap \in Nat \ {0} /\ BlockCap \in Nat /\ Lap - 1 = BlockCap
  BY ListAssumption DEF Lap
<1>. QED
  BY <1>1, DivMod DEF BlockOf, SlotOf

LEMMA PositionNext ==
  ASSUME NEW i \in Nat
  PROVE  /\ SlotOf(i) # BlockCap => BlockOf(i + 1) = BlockOf(i) /\ SlotOf(i + 1) = SlotOf(i) + 1
         /\ SlotOf(i) = BlockCap => BlockOf(i + 1) = BlockOf(i) + 1 /\ SlotOf(i + 1) = 0
         /\ Num(BlockOf(i + 1), SlotOf(i + 1)) =
              IF SlotOf(i) = BlockCap THEN Num(BlockOf(i), SlotOf(i)) ELSE Num(BlockOf(i), SlotOf(i)) + 1
<1>1. PICK x \in Nat : x = 2 * i
  OBVIOUS
<1>2. Position(x) = i /\ Position(x + One) = i + 1
  BY <1>1, PackedUnique, IndexNext
<1>3. /\ SlotOf(i) = OffsetOf(x) /\ BlockOf(i) = LapOf(x) + 1
      /\ SlotOf(i + 1) = OffsetOf(x + One) /\ BlockOf(i + 1) = LapOf(x + One) + 1
  BY <1>2 DEF SlotOf, BlockOf, OffsetOf, LapOf
<1>4. LapOf(x) \in Nat /\ BlockOf(i) \in Nat \ {0} /\ SlotOf(i) \in 0 .. BlockCap
  BY PositionParts, Parts
<1>5. /\ SlotOf(i) # BlockCap => BlockOf(i + 1) = BlockOf(i) /\ SlotOf(i + 1) = SlotOf(i) + 1
      /\ SlotOf(i) = BlockCap => BlockOf(i + 1) = BlockOf(i) + 1 /\ SlotOf(i + 1) = 0
  BY <1>3, <1>4, IndexNext
<1>. QED
  BY <1>4, <1>5, NumNext

\* A set of natural numbers has a least element.
LEMMA LeastNat ==
  ASSUME NEW T, T \subseteq Nat, T # {}
  PROVE  \E x \in T : \A y \in T : ~(y < x)
<1>1. \E x \in T : \A y \in T : ~(<<y, x>> \in OpToRel(<, Nat))
  BY WFMin, NatLessThanWellFounded
<1>. QED
  BY <1>1 DEF OpToRel

\* With no call in progress: nobody is between two blocks, each block tail has
\* left is linked, each slot that was reserved is written, and what was begun to be
\* destroyed is freed.
LEMMA AtRest ==
  ASSUME IInv, AllIdle
  PROVE  /\ TailOffset \in Offsets /\ HeadOffset \in Offsets
         /\ tailBlock = TailLap + 1 \/ (tailBlock = 0 /\ TailLap = 0 /\ TailOffset = 0)
         /\ headBlock = 0 <=> tailBlock = 0
         /\ headBlock # 0 => headBlock = HeadLap + 1
         /\ headBlock = 0 => headIndex = 0
         /\ \A b \in Blocks : b <= TailLap => next[b] = b + 1
         /\ \A b \in Blocks : \A i \in Offsets : Num(b, i) < Len(log) =>
              slotMsg[b][i] = log[Num(b, i) + 1]
<1>. USE DEF AllIdle
<1>1. \A p \in Threads : ~MovesTail(p) /\ ~MovesHead(p) /\ ~Writing(p) /\ pc[p] # "link" /\ pc[p] # "first_head"
  BY DEF MovesTail, MovesHead, Writing
<1>2. TailPlace /\ HeadPlace /\ FirstBlockOnce /\ Links /\ Slots /\ next \in [Blocks -> {0} \union Blocks]
      /\ headBlock \in {0} \union Blocks
  BY DEF IInv, TypeOK
<1>3. TailOffset # BlockCap /\ HeadOffset # BlockCap
  BY <1>1, <1>2 DEF TailPlace, HeadPlace
<1>4. TailOffset \in Offsets /\ HeadOffset \in Offsets
  BY <1>3, Numbers DEF Offsets
<1>5. tailBlock = TailLap + 1 \/ (tailBlock = 0 /\ TailLap = 0 /\ TailOffset = 0)
  BY <1>1, <1>2 DEF TailPlace
<1>6. headBlock \in {0, HeadLap + 1}
  BY <1>1, <1>2 DEF HeadPlace
<1>7. (headBlock = 0 <=> tailBlock = 0) /\ (headBlock = 0 => headIndex = 0)
  BY <1>1, <1>2 DEF FirstBlockOnce
<1>8. \A b \in Blocks : b <= TailLap => next[b] = b + 1
  BY <1>1, <1>2 DEF Links
<1>9. ASSUME NEW b \in Blocks, NEW i \in Offsets, Num(b, i) < Len(log)
      PROVE  slotMsg[b][i] = log[Num(b, i) + 1]
  <2>1. "WRITE" \in State(b, i)
    BY <1>1, <1>2, <1>9 DEF Slots, WritesSlot
  <2>. QED
    BY <1>2, <2>1 DEF Slots
<1>. QED
  BY <1>4, <1>5, <1>6, <1>7, <1>8, <1>9

\* The blocks head has left are the ones that were deallocated.
LEMMA FreedAtRest ==
  ASSUME IInv, AllIdle
  PROVE  freed = 1 .. HeadLap
<1>. USE DEF AllIdle
<1>1. freed \subseteq Blocks /\ Slots /\ Destruction /\ taken = Num(HeadLap + 1, HeadOffset)
  BY DEF IInv, TypeOK, HeadPlace
<1>2. \A p \in Threads : ~Reading(p) /\ ~Destroying(p)
  BY DEF Reading, Destroying
<1>3. \A b \in Blocks : Begun(b) <=> b <= HeadLap
  <2> SUFFICES ASSUME NEW b \in Blocks
               PROVE  Begun(b) <=> b <= HeadLap
    OBVIOUS
  <2>1. Begun(b) <=> Num(b, BlockCap - 1) < taken
    BY <1>2 DEF Begun, ReadsSlot
  <2>2. b \in Nat \ {0} /\ BlockCap - 1 \in Offsets /\ HeadOffset \in Offsets
        /\ HeadOffset \in 0 .. BlockCap /\ HeadLap + 1 \in Nat \ {0}
    BY BlocksNat, Numbers, AtRest
  <2>3. Num(b, BlockCap - 1) < Num(HeadLap + 1, HeadOffset) <=>
          b < HeadLap + 1 \/ (b = HeadLap + 1 /\ BlockCap - 1 < HeadOffset)
    BY <2>2, NumOrder
  <2>4. ~(BlockCap - 1 < HeadOffset)
    BY <2>2, Numbers DEF Offsets
  <2>. QED
    BY <1>1, <2>1, <2>2, <2>3, <2>4, Numbers
<1>4. \A b \in Blocks : Begun(b) <=> b \in freed
  <2> SUFFICES ASSUME NEW b \in Blocks
               PROVE  Begun(b) <=> b \in freed
    OBVIOUS
  <2>1. DestructionOf(b)
    BY <1>1 DEF Destruction
  <2>2. ASSUME Begun(b), NEW d \in Offsets, LeftAt(b, d)
        PROVE  FALSE
    <3>1. "READ" \notin State(b, d) /\ d # BlockCap - 1
      BY <2>1, <2>2 DEF DestructionOf, LeftAt
    <3>2. Num(b, d) < taken
      <4>1. b \in Nat \ {0} /\ d \in Nat /\ d < BlockCap /\ BlockCap \in Nat \ {0} /\ (b - 1) * BlockCap \in Nat
        BY BlocksNat, MulNat
      <4>2. Num(b, BlockCap - 1) < taken
        BY <2>2 DEF Begun
      <4>. QED
        BY <3>1, <4>1, <4>2, Numbers DEF Num
    <3>3. \E p \in Threads : ReadsSlot(p, b, d)
      BY <1>1, <3>1, <3>2 DEF Slots
    <3>. QED
      BY <1>2, <3>3 DEF ReadsSlot
  <2>. QED
    BY <1>2, <2>1, <2>2 DEF DestructionOf, Destroys
<1>5. \A b \in 1 .. HeadLap : b \in Blocks
  <2>1. PICK n \in Nat : Blocks = 1 .. n
    BY BlocksUpTo
  <2>2. HeadLap <= TailLap
    BY HeadBehindTail, Numbers
  <2>3. TailLap + 1 \in Blocks
    BY TailBlocks
  <2>. QED
    BY <2>1, <2>2, <2>3, Numbers
<1>6. \A b \in Blocks : b \in 1 .. HeadLap <=> b <= HeadLap
  BY BlocksNat, Numbers
<1>. QED
  BY <1>1, <1>3, <1>4, <1>5, <1>6

\* The positions that drop goes over lie between head and tail, in blocks that
\* exist; a slot among them is that of a message not yet received.
LEMMA Between ==
  ASSUME IInv, NEW i \in DropPositions
  PROVE  /\ Position(headIndex) \in Nat /\ Position(tailIndex) \in Nat /\ i \in Nat
         /\ Position(headIndex) \in DropPositions
         /\ Position(headIndex) <= i /\ i <= Position(tailIndex)
         /\ BlockOf(i) \in Nat /\ HeadLap + 1 <= BlockOf(i) /\ BlockOf(i) <= TailLap + 1
         /\ BlockOf(i) \in Blocks
         /\ BlockOf(Position(headIndex)) = HeadLap + 1 /\ SlotOf(Position(headIndex)) = HeadOffset
         /\ BlockOf(Position(tailIndex)) = TailLap + 1 /\ SlotOf(Position(tailIndex)) = TailOffset
         /\ i < Position(tailIndex) =>
              BlockOf(i) < TailLap + 1 \/ (BlockOf(i) = TailLap + 1 /\ SlotOf(i) < TailOffset)
<1>1. Position(headIndex) \in Nat /\ Position(tailIndex) \in Nat
      /\ Position(headIndex) <= Position(tailIndex) /\ headIndex \in Nat /\ tailIndex \in Nat
  BY Numbers, Packed DEF IInv, HeadPlace
<1>2. /\ i \in Nat /\ Position(headIndex) <= i /\ i <= Position(tailIndex)
      /\ Position(headIndex) \in DropPositions
  BY <1>1 DEF DropPositions
<1>3. PICK x \in Nat : x = 2 * i
  BY <1>2
<1>4. Position(x) = i
  BY <1>2, <1>3, PackedUnique
<1>5. SlotOf(i) = OffsetOf(x) /\ BlockOf(i) = LapOf(x) + 1 /\ LapOf(x) \in Nat
      /\ OffsetOf(x) \in 0 .. BlockCap
  BY <1>4, Parts DEF SlotOf, BlockOf, OffsetOf, LapOf
<1>6. /\ BlockOf(Position(headIndex)) = HeadLap + 1 /\ SlotOf(Position(headIndex)) = HeadOffset
      /\ BlockOf(Position(tailIndex)) = TailLap + 1 /\ SlotOf(Position(tailIndex)) = TailOffset
  BY DEF SlotOf, BlockOf, OffsetOf, LapOf, HeadLap, TailLap, HeadOffset, TailOffset
<1>7. HeadLap <= LapOf(x)
  <2>1. Position(headIndex) < Position(x) \/ Position(headIndex) = Position(x)
    BY <1>1, <1>2, <1>4
  <2>2. HeadLap < LapOf(x) \/ HeadLap = LapOf(x)
    BY <1>1, <2>1, IndexOrder DEF HeadLap
  <2>. QED
    BY <1>5, <2>2, Numbers
<1>8. ASSUME Position(x) < Position(tailIndex)
      PROVE  LapOf(x) < TailLap \/ (LapOf(x) = TailLap /\ OffsetOf(x) < TailOffset)
  BY <1>1, <1>8, IndexOrder DEF TailLap, TailOffset
<1>9. LapOf(x) <= TailLap
  <2>1. Position(x) < Position(tailIndex) \/ Position(x) = Position(tailIndex)
    BY <1>1, <1>2, <1>4
  <2>2. LapOf(x) < TailLap \/ LapOf(x) = TailLap
    BY <1>1, <1>8, <2>1, IndexOrder DEF TailLap
  <2>. QED
    BY <1>5, <2>2, Numbers
<1>10. BlockOf(i) \in Blocks
  <2>1. PICK n \in Nat : Blocks = 1 .. n
    BY BlocksUpTo
  <2>. QED
    BY <1>5, <1>9, <2>1, TailBlocks, Numbers
<1>11. i < Position(tailIndex) =>
         BlockOf(i) < TailLap + 1 \/ (BlockOf(i) = TailLap + 1 /\ SlotOf(i) < TailOffset)
  BY <1>4, <1>5, <1>8, Numbers
<1>12. BlockOf(i) \in Nat /\ HeadLap + 1 <= BlockOf(i) /\ BlockOf(i) <= TailLap + 1
  BY <1>5, <1>7, <1>9, Numbers
<1>. QED
  BY <1>1, <1>2, <1>6, <1>10, <1>11, <1>12

\* What the recursion of drop says of its blocks.
BlockStep(f) ==
  [i \in DropPositions |->
     IF i = Position(headIndex) THEN headBlock
     ELSE IF (i - 1) % Lap = BlockCap THEN next[f[i - 1]]
     ELSE f[i - 1]]

LEMMA DropBlockStep ==
  ASSUME NEW f, f = BlockStep(f)
  PROVE  DropBlock = BlockStep(DropBlock)
<1>1. DropBlock = CHOOSE g : g = BlockStep(g)
  BY DEF DropBlock, BlockStep
<1>. QED
  BY <1>1

\* drop goes through the links, and so from each block to the one after it.
LEMMA DropBlockIs ==
  ASSUME IInv, AllIdle, headBlock # 0
  PROVE  \A i \in DropPositions : DropBlock[i] = BlockOf(i)
<1> DEFINE H == Position(headIndex)
           F == [i \in DropPositions |-> BlockOf(i)]
<1>0. H \in Nat /\ Position(tailIndex) \in Nat
  BY Numbers, Packed
<1>1. ASSUME NEW i \in DropPositions, i # H
      PROVE  /\ i - 1 \in DropPositions /\ i - 1 < i
             /\ BlockOf(i) = IF SlotOf(i - 1) = BlockCap THEN next[BlockOf(i - 1)] ELSE BlockOf(i - 1)
  <2>1. i \in Nat /\ i - 1 \in Nat /\ i - 1 \in DropPositions /\ (i - 1) + 1 = i
    BY <1>0, <1>1 DEF DropPositions
  <2>2. /\ SlotOf(i - 1) # BlockCap => BlockOf((i - 1) + 1) = BlockOf(i - 1)
        /\ SlotOf(i - 1) = BlockCap => BlockOf((i - 1) + 1) = BlockOf(i - 1) + 1
    BY <2>1, PositionNext
  <2>3. /\ BlockOf(i - 1) \in Blocks /\ BlockOf(i - 1) \in Nat /\ BlockOf(i) <= TailLap + 1
    BY <2>1, Between
  <2>4. ASSUME SlotOf(i - 1) = BlockCap
        PROVE  next[BlockOf(i - 1)] = BlockOf(i - 1) + 1
    <3>1. BlockOf(i - 1) <= TailLap
      BY <2>1, <2>2, <2>3, <2>4, Numbers
    <3>. QED
      BY <2>3, <3>1, AtRest
  <2>. QED
    BY <2>1, <2>2, <2>4
<1>2. F = BlockStep(F)
  <2> SUFFICES ASSUME NEW i \in DropPositions
               PROVE  F[i] = BlockStep(F)[i]
    BY DEF BlockStep
  <2>1. CASE i = H
    <3>1. F[i] = HeadLap + 1
      BY <2>1, Between
    <3>. QED
      BY <2>1, <3>1, AtRest DEF BlockStep
  <2>2. CASE i # H
    <3>1. F[i] = IF SlotOf(i - 1) = BlockCap THEN next[F[i - 1]] ELSE F[i - 1]
      BY <1>1, <2>2
    <3>. QED
      BY <2>2, <3>1 DEF BlockStep, SlotOf
  <2>. QED
    BY <2>1, <2>2
<1>3. DropBlock = BlockStep(DropBlock)
  <2>. HIDE DEF F
  <2>. QED
    BY <1>2, DropBlockStep
<1>4. ASSUME NEW i \in DropPositions
      PROVE  DropBlock[i] = IF i = H THEN headBlock
                            ELSE IF SlotOf(i - 1) = BlockCap THEN next[DropBlock[i - 1]]
                            ELSE DropBlock[i - 1]
  BY <1>3, <1>4 DEF BlockStep, SlotOf
<1>5. \A i \in DropPositions : DropBlock[i] = BlockOf(i)
  <2> DEFINE D == {i \in DropPositions : DropBlock[i] # BlockOf(i)}
  <2>1. SUFFICES ASSUME D # {} PROVE FALSE
    OBVIOUS
  <2>2. D \subseteq Nat
    BY <1>0 DEF DropPositions
  <2>3. PICK x \in D : \A y \in D : ~(y < x)
    <3>. HIDE DEF D
    <3>. QED
      BY <2>1, <2>2, LeastNat
  <2>4. x \in DropPositions /\ DropBlock[x] # BlockOf(x)
    BY <2>3
  <2>5. x # H
    <3>1. BlockOf(H) = HeadLap + 1
      BY <2>4, Between
    <3>. QED
      BY <1>4, <2>4, <3>1, AtRest
  <2>6. x - 1 \in DropPositions /\ x - 1 < x
        /\ BlockOf(x) = IF SlotOf(x - 1) = BlockCap THEN next[BlockOf(x - 1)] ELSE BlockOf(x - 1)
    BY <1>1, <2>4, <2>5
  <2>7. DropBlock[x - 1] = BlockOf(x - 1)
    BY <2>3, <2>6
  <2>. QED
    BY <1>4, <2>4, <2>5, <2>6, <2>7
<1>. QED
  BY <1>5

\* Before the first block there is nothing to drop.
LEMMA NothingYet ==
  ASSUME IInv, AllIdle, headBlock = 0
  PROVE  /\ Position(headIndex) = 0 /\ Position(tailIndex) = 0
         /\ HeadLap = 0 /\ tailBlock = 0 /\ DropPositions = {0}
<1>1. headIndex = 0 /\ tailBlock = 0
  BY AtRest
<1>2. TailLap = 0 /\ TailOffset = 0
  BY <1>1, AtRest, Numbers
<1>3. tailIndex \in Nat /\ Lap \in Nat \ {0}
  BY Numbers, ListAssumption DEF Lap
<1>4. Position(tailIndex) = LapOf(tailIndex) * Lap + OffsetOf(tailIndex)
  BY <1>3, Parts
<1>5. Position(tailIndex) = 0
  BY <1>2, <1>3, <1>4 DEF TailLap, TailOffset
<1>6. Position(headIndex) = 0 /\ HeadLap = 0
  BY <1>1, ZeroIndex DEF HeadLap
<1>. QED
  BY <1>1, <1>5, <1>6 DEF DropPositions

\* No block leaks and none is freed twice: those the readers have deallocated and
\* those Channel::drop deallocates are together all that were ever installed, and
\* they have none in common.
THEOREM NoBlockLeaksEver == Spec => []NoBlockLeaks
<1>1. IInv => NoBlockLeaks
  <2> SUFFICES ASSUME IInv, AllIdle
               PROVE  /\ freed \union DroppedBlocks = 1 .. tailBlock
                      /\ freed \intersect DroppedBlocks = {}
    BY DEF NoBlockLeaks
  <2>1. freed = 1 .. HeadLap
    BY FreedAtRest
  <2>2. CASE headBlock = 0
    <3>1. DropPositions = {0} /\ Position(headIndex) = 0 /\ HeadLap = 0 /\ tailBlock = 0
      BY <2>2, NothingYet
    <3>2. PICK f : f = BlockStep([i \in DropPositions |-> 0])
      OBVIOUS
    <3>3. f = BlockStep(f) /\ f[0] = 0
      BY <2>2, <3>1, <3>2 DEF BlockStep
    <3>4. DropBlock = BlockStep(DropBlock)
      BY <3>3, DropBlockStep
    <3>5. DropBlock[0] = 0
      BY <2>2, <3>1, <3>4 DEF BlockStep
    <3>6. DroppedBlocks = {}
      BY <3>1, <3>5 DEF DroppedBlocks
    <3>. QED
      BY <2>1, <3>1, <3>6
  <2>3. CASE headBlock # 0
    <3>1. \A i \in DropPositions : DropBlock[i] = BlockOf(i)
      BY <2>3, DropBlockIs
    <3>2. HeadLap \in Nat /\ TailLap \in Nat /\ tailBlock = TailLap + 1 /\ HeadLap <= TailLap
      BY <2>3, AtRest, Numbers, HeadBehindTail
    <3>3. DroppedBlocks \subseteq (HeadLap + 1) .. (TailLap + 1)
      BY <3>1, <3>2, Between DEF DroppedBlocks
    <3>4. ASSUME NEW b \in (HeadLap + 1) .. (TailLap + 1)
          PROVE  b \in DroppedBlocks
      <4>1. \E i \in DropPositions : BlockOf(i) = b
        <5>1. CASE b = HeadLap + 1
          <6>1. Position(headIndex) \in Nat /\ Position(headIndex) \in DropPositions
            BY Numbers, Packed DEF DropPositions, IInv, HeadPlace
          <6>. QED
            BY <5>1, <6>1, Between
        <5>2. CASE b # HeadLap + 1
          <6>1. b \in Nat /\ b - 1 \in Nat /\ HeadLap < b - 1 /\ b - 1 <= TailLap
            BY <3>2, <5>2
          <6>2. Lap \in Nat \ {0} /\ 0 \in 0 .. Lap - 1
            BY ListAssumption DEF Lap
          <6>3. PICK q \in Nat : q = b - 1
            BY <6>1
          <6>4. PICK r \in 0 .. Lap - 1 : r = 0
            BY <6>2
          <6>5. PICK i \in Nat : i = q * Lap + r
            BY <6>2, MulNat
          <6>6. i \div Lap = q /\ i % Lap = r
            BY <6>2, <6>5, DivModUnique
          <6>7. PICK x \in Nat : x = 2 * i
            OBVIOUS
          <6>8. Position(x) = i /\ LapOf(x) = q /\ OffsetOf(x) = 0
            BY <6>4, <6>6, <6>7, PackedUnique DEF LapOf, OffsetOf
          <6>9. Position(headIndex) < Position(x)
            BY <6>1, <6>3, <6>8, Numbers, IndexOrder DEF HeadLap
          <6>10. ~(Position(tailIndex) < Position(x))
            <7>1. ~(TailLap < q) /\ ~(TailOffset < 0)
              BY <3>2, <6>1, <6>3, Numbers
            <7>. QED
              BY <6>8, <7>1, Numbers, IndexOrder DEF TailLap, TailOffset
          <6>11. i \in DropPositions
            <7>1. Position(headIndex) \in Nat /\ Position(tailIndex) \in Nat
              BY Numbers, Packed
            <7>. QED
              BY <6>8, <6>9, <6>10, <7>1 DEF DropPositions
          <6>. QED
            BY <6>1, <6>3, <6>6, <6>11 DEF BlockOf
        <5>. QED
          BY <5>1, <5>2
      <4>2. b # 0
        BY <3>2
      <4>. QED
        BY <3>1, <4>1, <4>2 DEF DroppedBlocks
    <3>5. DroppedBlocks = (HeadLap + 1) .. (TailLap + 1)
      BY <3>3, <3>4
    <3>. QED
      BY <2>1, <3>2, <3>5
  <2>. QED
    BY <2>2, <2>3
<1>. QED
  BY <1>1, Invariance, PTL

------------------------------------------------------------------------------
(***************************************************************************)
(* What drop destroys.                                                     *)
(***************************************************************************)
\* What the recursion of drop says of the messages.
FromStep(f) ==
  [i \in DropPositions |->
     IF i = Position(tailIndex) THEN << >>
     ELSE IF DropsSlot(i) THEN <<slotMsg[DropBlock[i]][i % Lap]>> \o f[i + 1]
     ELSE f[i + 1]]

LEMMA DroppedStep ==
  ASSUME NEW f, f = FromStep(f)
  PROVE  \E g : g = FromStep(g) /\ DroppedMessages = g[Position(headIndex)]
<1>1. DroppedMessages = (CHOOSE g : g = FromStep(g))[Position(headIndex)]
  BY DEF DroppedMessages, FromStep
<1>. QED
  BY <1>1

\* The messages from a position on are a suffix of the log.
Rest(i) == SubSeq(log, Num(BlockOf(i), SlotOf(i)) + 1, Len(log))

LEMMA RestStep ==
  ASSUME IInv, AllIdle, NEW i \in DropPositions
  PROVE  /\ i = Position(tailIndex) => Rest(i) = << >>
         /\ i # Position(tailIndex) =>
              /\ i + 1 \in DropPositions
              /\ Rest(i) = IF DropsSlot(i) THEN <<slotMsg[DropBlock[i]][i % Lap]>> \o Rest(i + 1)
                           ELSE Rest(i + 1)
<1>. DEFINE n == Num(BlockOf(i), SlotOf(i))
            b == BlockOf(i)
            s == SlotOf(i)
<1>1. /\ i \in Nat /\ b \in Nat \ {0} /\ s \in 0 .. BlockCap /\ n \in Nat
      /\ Position(tailIndex) \in Nat /\ b \in Blocks /\ b <= TailLap + 1
      /\ Position(headIndex) <= i /\ i <= Position(tailIndex) /\ Position(headIndex) \in Nat
  BY Between, PositionParts, NumNext
<1>2. /\ Len(log) = Num(TailLap + 1, TailOffset) /\ Len(log) \in Nat /\ log \in Seq(Message)
      /\ BlockOf(Position(tailIndex)) = TailLap + 1 /\ SlotOf(Position(tailIndex)) = TailOffset
  BY Between, Numbers DEF IInv, TailPlace, GhostTypes
<1>3. ASSUME i = Position(tailIndex)
      PROVE  Rest(i) = << >>
  <2>1. n = Len(log)
    BY <1>2, <1>3
  <2>. HIDE DEF n
  <2>2. n + 1 \in Int /\ Len(log) \in Int /\ Len(log) < n + 1
    BY <1>1, <1>2, <2>1
  <2>3. SubSeq(log, n + 1, Len(log)) = << >>
    BY <2>2, SubSeqEmpty
  <2>. QED
    BY <2>3 DEF Rest, n
<1>4. ASSUME i # Position(tailIndex)
      PROVE  /\ i + 1 \in DropPositions
             /\ Rest(i) = IF DropsSlot(i) THEN <<slotMsg[DropBlock[i]][i % Lap]>> \o Rest(i + 1)
                          ELSE Rest(i + 1)
  <2>1. i + 1 \in DropPositions /\ i < Position(tailIndex)
    BY <1>1, <1>4 DEF DropPositions
  <2>2. Num(BlockOf(i + 1), SlotOf(i + 1)) = IF s = BlockCap THEN n ELSE n + 1
    BY <1>1, PositionNext
  <2>3. DropsSlot(i) <=> s # BlockCap
    BY <1>1, BlocksNat DEF DropsSlot, SlotOf
  <2>4. CASE s = BlockCap
    BY <2>1, <2>2, <2>3, <2>4 DEF Rest
  <2>5. CASE s # BlockCap
    <3>1. s \in Offsets /\ TailOffset \in 0 .. BlockCap /\ TailLap + 1 \in Nat \ {0}
      <4>1. s \in Offsets
        BY <1>1, <2>5, BlocksNat DEF Offsets
      <4>. QED
        BY <4>1, Numbers
    <3>2. b < TailLap + 1 \/ (b = TailLap + 1 /\ s < TailOffset)
      BY <2>1, Between
    <3>3. n < Num(TailLap + 1, TailOffset)
      BY <1>1, <3>1, <3>2, NumOrder
    <3>4. n < Len(log)
      BY <1>2, <3>3
    <3>5. slotMsg[b][s] = log[n + 1]
      BY <1>1, <3>1, <3>4, AtRest
    <3>6. headBlock # 0
      BY <1>1, <2>1, NothingYet
    <3>7. DropBlock[i] = b
      BY <3>6, DropBlockIs
    <3>8. SubSeq(log, n + 1, Len(log)) = <<log[n + 1]>> \o SubSeq(log, (n + 1) + 1, Len(log))
      <4>. HIDE DEF n
      <4>1. n + 1 \in 1 .. Len(log) /\ Len(log) \in (n + 1) .. Len(log)
        BY <1>1, <1>2, <3>4
      <4>. QED
        BY <1>2, <4>1, SubSeqRecursiveFirst
    <3>9. Rest(i) = <<slotMsg[DropBlock[i]][s]>> \o Rest(i + 1)
      BY <2>2, <2>5, <3>5, <3>7, <3>8 DEF Rest
    <3>. QED
      BY <2>1, <2>3, <2>5, <3>9 DEF SlotOf
  <2>. QED
    BY <2>4, <2>5
<1>. QED
  BY <1>3, <1>4

\* When no call is in progress Channel::drop destroys every message that was sent
\* and not received, and no other, in the order they were sent.
THEOREM DropTakesTheRestAlways == Spec => []DropTakesTheRest
<1>1. IInv => DropTakesTheRest
  <2> SUFFICES ASSUME IInv, AllIdle
               PROVE  DroppedMessages = Pending
    BY DEF DropTakesTheRest
  <2> DEFINE H == Position(headIndex)
             T == Position(tailIndex)
             G == [i \in DropPositions |-> Rest(i)]
  <2>0. H \in Nat /\ T \in Nat /\ H \in DropPositions
    BY Numbers, Packed DEF DropPositions, IInv, HeadPlace
  <2>1. G = FromStep(G)
    <3> SUFFICES ASSUME NEW i \in DropPositions
                 PROVE  G[i] = FromStep(G)[i]
      BY DEF FromStep
    <3>1. CASE i = T
      BY <3>1, RestStep DEF FromStep
    <3>2. CASE i # T
      <4>1. /\ i + 1 \in DropPositions
            /\ Rest(i) = IF DropsSlot(i) THEN <<slotMsg[DropBlock[i]][i % Lap]>> \o Rest(i + 1)
                         ELSE Rest(i + 1)
        BY <3>2, RestStep
      <4>. QED
        BY <3>2, <4>1 DEF FromStep
    <3>. QED
      BY <3>1, <3>2
  <2>2. PICK g : g = FromStep(g) /\ DroppedMessages = g[H]
    <3>. HIDE DEF G
    <3>. QED
      BY <2>1, DroppedStep
  <2>3. ASSUME NEW i \in DropPositions
        PROVE  g[i] = IF i = T THEN << >>
                      ELSE IF DropsSlot(i) THEN <<slotMsg[DropBlock[i]][i % Lap]>> \o g[i + 1]
                      ELSE g[i + 1]
    BY <2>2, <2>3 DEF FromStep
  <2>4. \A i \in DropPositions : g[i] = Rest(i)
    <3> DEFINE D == {k \in Nat : k <= T /\ T - k \in DropPositions /\ g[T - k] # Rest(T - k)}
    <3>1. SUFFICES ASSUME NEW j \in DropPositions, g[j] # Rest(j) PROVE FALSE
      OBVIOUS
    <3>2. j \in Nat /\ j <= T /\ T - j \in Nat /\ T - j <= T /\ T - (T - j) = j
      BY <2>0 DEF DropPositions
    <3>3. D # {} /\ D \subseteq Nat
      BY <3>1, <3>2
    <3>4. PICK k \in D : \A y \in D : ~(y < k)
      <4>. HIDE DEF D
      <4>. QED
        BY <3>3, LeastNat
    <3>5. PICK i \in DropPositions : i = T - k
      BY <3>4
    <3>6. g[i] # Rest(i) /\ k \in Nat
      BY <3>4, <3>5
    <3>7. i # T
      <4>1. ASSUME i = T PROVE FALSE
        BY <2>3, <3>6, <4>1, RestStep
      <4>. QED
        BY <4>1
    <3>8. i + 1 \in DropPositions
      BY <3>7, RestStep
    <3>9. g[i + 1] = Rest(i + 1)
      <4>1. k - 1 \in Nat /\ k - 1 < k /\ k - 1 <= T /\ T - (k - 1) = i + 1
        BY <2>0, <3>5, <3>6, <3>7 DEF DropPositions
      <4>2. ~(k - 1 \in D)
        BY <3>4, <4>1
      <4>. QED
        BY <3>8, <4>1, <4>2
    <3>10. Rest(i) = IF DropsSlot(i) THEN <<slotMsg[DropBlock[i]][i % Lap]>> \o Rest(i + 1)
                     ELSE Rest(i + 1)
      BY <3>7, RestStep
    <3>11. g[i] = IF DropsSlot(i) THEN <<slotMsg[DropBlock[i]][i % Lap]>> \o g[i + 1] ELSE g[i + 1]
      BY <2>3, <3>7
    <3>. QED
      BY <3>6, <3>9, <3>10, <3>11
  <2>5. Rest(H) = Pending
    <3>1. BlockOf(H) = HeadLap + 1 /\ SlotOf(H) = HeadOffset
      BY <2>0, Between
    <3>2. taken = Num(HeadLap + 1, HeadOffset)
      BY DEF IInv, HeadPlace
    <3>. QED
      BY <3>1, <3>2 DEF Rest, Pending
  <2>. QED
    BY <2>0, <2>2, <2>4, <2>5
<1>. QED
  BY <1>1, Invariance, PTL

------------------------------------------------------------------------------
(***************************************************************************)
(* ListChannel implements BoundedFifo.  A send or a receive takes effect   *)
(* at its compare-exchange, which leaves several steps to do at the end of *)
(* a block; a refusal at the load of tail.index that decides it.           *)
(***************************************************************************)
\* The part of a log after position t grows at the end and shrinks at the front.
Suffix(s, t) == SubSeq(s, t + 1, Len(s))

LEMMA SuffixElements ==
  ASSUME NEW s \in Seq(Message), NEW t \in 0 .. Len(s)
  PROVE  /\ Suffix(s, t) \in Seq(Message)
         /\ Len(Suffix(s, t)) = Len(s) - t
         /\ \A i \in 1 .. Len(s) - t : Suffix(s, t)[i] = s[t + i]
<1>1. Len(s) \in Nat /\ t \in Nat /\ t + 1 \in Int /\ Len(s) \in Int
  OBVIOUS
<1>2. \A i \in (t + 1) .. Len(s) : s[i] \in Message
  BY <1>1
<1>3. /\ Suffix(s, t) \in Seq(Message)
      /\ Len(Suffix(s, t)) = IF t + 1 <= Len(s) THEN Len(s) - (t + 1) + 1 ELSE 0
      /\ \A i \in 1 .. Len(s) - (t + 1) + 1 : Suffix(s, t)[i] = s[(t + 1) + i - 1]
  BY <1>1, <1>2, SubSeqProperties DEF Suffix
<1>4. Len(Suffix(s, t)) = Len(s) - t
  BY <1>1, <1>3
<1>5. ASSUME NEW i \in 1 .. Len(s) - t
      PROVE  Suffix(s, t)[i] = s[t + i]
  <2>1. i \in 1 .. Len(s) - (t + 1) + 1 /\ (t + 1) + i - 1 = t + i
    BY <1>1
  <2>. QED
    BY <1>3, <2>1
<1>. QED
  BY <1>3, <1>4, <1>5

LEMMA SuffixAppend ==
  ASSUME NEW s \in Seq(Message), NEW t \in 0 .. Len(s), NEW m \in Message
  PROVE  Suffix(Append(s, m), t) = Append(Suffix(s, t), m)
<1> DEFINE a == Append(s, m)
           x == Suffix(a, t)
           y == Append(Suffix(s, t), m)
           n == Len(s) - t
<1>1. /\ a \in Seq(Message) /\ Len(a) = Len(s) + 1 /\ a[Len(s) + 1] = m
      /\ \A i \in 1 .. Len(s) : a[i] = s[i]
  BY AppendProperties
<1>2. Len(s) \in Nat /\ t \in Nat /\ t \in 0 .. Len(a) /\ n \in Nat /\ Len(a) - t = n + 1
  BY <1>1
<1>3. x \in Seq(Message) /\ Len(x) = n + 1 /\ \A i \in 1 .. n + 1 : x[i] = a[t + i]
  <2>1. /\ x \in Seq(Message) /\ Len(x) = Len(a) - t
        /\ \A i \in 1 .. Len(a) - t : x[i] = a[t + i]
    BY <1>1, <1>2, SuffixElements
  <2>. QED
    BY <1>2, <2>1
<1>4. /\ y \in Seq(Message) /\ Len(y) = n + 1 /\ y[n + 1] = m
      /\ \A i \in 1 .. n : y[i] = s[t + i]
  <2>1. /\ Suffix(s, t) \in Seq(Message) /\ Len(Suffix(s, t)) = n
        /\ \A i \in 1 .. n : Suffix(s, t)[i] = s[t + i]
    BY SuffixElements
  <2>. QED
    BY <2>1, AppendProperties
<1> HIDE DEF a, x, y
<1>5. \A i \in 1 .. n + 1 : x[i] = y[i]
  <2>1. \A i \in 1 .. n : x[i] = y[i]
    BY <1>1, <1>2, <1>3, <1>4
  <2>2. x[n + 1] = y[n + 1]
    BY <1>1, <1>2, <1>3, <1>4
  <2>. QED
    BY <1>2, <2>1, <2>2
<1>6. x = y
  BY <1>3, <1>4, <1>5, SeqEqual
<1>. QED
  BY <1>6 DEF a, x, y

LEMMA SuffixTail ==
  ASSUME NEW s \in Seq(Message), NEW t \in 0 .. Len(s) - 1
  PROVE  /\ Suffix(s, t) # << >>
         /\ Head(Suffix(s, t)) = s[t + 1]
         /\ Suffix(s, t + 1) = Tail(Suffix(s, t))
<1> DEFINE x == Suffix(s, t + 1)
           z == Suffix(s, t)
           y == Tail(z)
           n == Len(s) - (t + 1)
<1>1. /\ Len(s) \in Nat /\ t \in Nat /\ t \in 0 .. Len(s) /\ t + 1 \in 0 .. Len(s)
      /\ n \in Nat /\ Len(s) - t = n + 1
  OBVIOUS
<1>2. z \in Seq(Message) /\ Len(z) = n + 1 /\ \A i \in 1 .. n + 1 : z[i] = s[t + i]
  <2>1. /\ z \in Seq(Message) /\ Len(z) = Len(s) - t
        /\ \A i \in 1 .. Len(s) - t : z[i] = s[t + i]
    BY <1>1, SuffixElements
  <2>. QED
    BY <1>1, <2>1
<1>3. x \in Seq(Message) /\ Len(x) = n /\ \A i \in 1 .. n : x[i] = s[(t + 1) + i]
  BY <1>1, SuffixElements
<1> HIDE DEF x, z, n
<1>4. z # << >> /\ Head(z) = z[1]
  BY <1>1, <1>2
<1>5. y \in Seq(Message) /\ Len(y) = n /\ \A i \in 1 .. n : y[i] = z[i + 1]
  BY <1>1, <1>2, <1>4, HeadTailProperties
<1>6. z[1] = s[t + 1]
  BY <1>1, <1>2
<1> HIDE DEF y
<1>7. \A i \in 1 .. n : x[i] = y[i]
  <2> SUFFICES ASSUME NEW i \in 1 .. n PROVE x[i] = y[i]
    OBVIOUS
  <2>1. i \in Nat /\ i + 1 \in 1 .. n + 1 /\ t + (i + 1) = (t + 1) + i
    BY <1>1
  <2>2. z[i + 1] = s[t + (i + 1)]
    BY <1>2, <2>1
  <2>. QED
    BY <1>3, <1>5, <2>1, <2>2
<1>8. x = y
  BY <1>3, <1>5, <1>7, SeqEqual
<1>. QED
  BY <1>4, <1>6, <1>8 DEF x, y, z

LEMMA PendingIs ==
  ASSUME IInv
  PROVE  /\ Pending = Suffix(log, taken) /\ Len(Pending) = Len(log) - taken
         /\ Pending \in Seq(Message)
         /\ log \in Seq(Message) /\ taken \in 0 .. Len(log) /\ Len(log) \in Nat
<1>1. log \in Seq(Message)
  BY DEF IInv, GhostTypes
<1>2. taken \in 0 .. Len(log) /\ Len(log) \in Nat
  BY Numbers
<1>. QED
  BY <1>1, <1>2, SuffixElements DEF Pending, Suffix

------------------------------------------------------------------------------
(***************************************************************************)
(* The steps, one lemma per kind of thread.                                *)
(***************************************************************************)
\* A step that changes nothing a caller can see.
LEMMA InvisibleStep ==
  ASSUME Marked(tailIndex') <=> Marked(tailIndex), UNCHANGED <<sent, log, taken, reply>>
  PROVE  UNCHANGED Fifo!fifoVars
<1>1. Marked(tailIndex)' = Marked(tailIndex)
  BY DEF Marked
<1>. QED
  BY <1>1 DEF Fifo!fifoVars, Pending

\* head stands where tail does: there is nothing to receive.
LEMMA NothingPending ==
  ASSUME IInv, Position(headIndex) = Position(tailIndex)
  PROVE  Pending = << >>
<1>1. HeadLap = TailLap /\ HeadOffset = TailOffset
  BY Numbers, IndexOrder DEF HeadLap, TailLap, HeadOffset, TailOffset
<1>2. taken = Len(log)
  BY <1>1 DEF IInv, HeadPlace, TailPlace
<1>3. Len(Pending) = 0 /\ Pending \in Seq(Message)
  BY <1>2, PendingIs
<1>. QED
  BY <1>3, EmptySeq

\* head stands before tail, and at a slot: there is something.
LEMMA SomethingPending ==
  ASSUME IInv, Position(headIndex) < Position(tailIndex), HeadOffset # BlockCap
  PROVE  taken < Len(log)
<1>1. HeadLap < TailLap \/ (HeadLap = TailLap /\ HeadOffset < TailOffset)
  BY Numbers, IndexOrder DEF HeadLap, TailLap, HeadOffset, TailOffset
<1>2. PICK b \in Nat \ {0} : b = HeadLap + 1
  BY Numbers
<1>3. PICK c \in Nat \ {0} : c = TailLap + 1
  BY Numbers
<1>4. b < c \/ (b = c /\ HeadOffset < TailOffset)
  BY <1>1, <1>2, <1>3, Numbers
<1>5. HeadOffset \in Offsets /\ TailOffset \in 0 .. BlockCap
  BY Numbers DEF Offsets
<1>6. Num(b, HeadOffset) < Num(c, TailOffset)
  BY <1>4, <1>5, NumOrder
<1>. QED
  BY <1>2, <1>3, <1>6 DEF IInv, HeadPlace, TailPlace

LEMMA SenderImplements ==
  ASSUME IInv, NEW p \in Senders, SendStart(p) \/ SendReserve(p) \/ SenderContinues(p)
  PROVE  [Fifo!FifoNext]_(Fifo!fifoVars)
<1>1. p \in Threads /\ Role(p) /\ SendCopy(p) /\ tailIndex \in Nat
  BY Numbers DEF IInv, Threads
<1>2. /\ Pending = Suffix(log, taken) /\ Len(Pending) = Len(log) - taken
      /\ log \in Seq(Message) /\ taken \in 0 .. Len(log) /\ Len(log) \in Nat
      /\ Len(log) <= AllSends /\ AllSends \in Nat
      /\ sent \in [Senders -> 0 .. MaxSends] /\ MaxSends \in Nat
  BY PendingIs, Numbers, AllSendsNat, ListAssumption DEF IInv, TypeOK
<1>3. CASE SendStart(p)
  <2>1. reply[p].kind \notin Fifo!InProgress
    BY <1>1, <1>3 DEF SendStart, Goto, Role, Sending, Receiving
  <2>2. UNCHANGED <<Pending, Marked(tailIndex), sent>>
    BY <1>3 DEF SendStart, positions, Pending
  <2>3. Fifo!CallSend(p)
    BY <1>3, <2>1, <2>2 DEF SendStart, Fifo!CallSend, Answer, Fifo!Answer, Reply, Fifo!Reply
  <2>. QED
    BY <2>3 DEF Fifo!FifoNext
<1>4. CASE SendReserve(p)
  <2> DEFINE m == Msg(p, sent[p] + 1)
  <2>1. /\ pc[p] = "send_cas" /\ tailIndex = index[p] /\ tailIndex' = tailIndex + One
        /\ sent' = [sent EXCEPT ![p] = @ + 1] /\ log' = Append(log, m) /\ taken' = taken
        /\ reply' = [reply EXCEPT ![p] = Reply("sent")]
    BY <1>2, <1>4 DEF SendReserve, Goto, Answer
  <2>2. ~Marked(tailIndex) /\ sent[p] < MaxSends /\ reply[p] = Reply("sending")
    BY <1>1, <2>1 DEF SendCopy, Role, Sending
  <2>3. Marked(tailIndex)' = Marked(tailIndex)
    <3>1. Marked(tailIndex + One) <=> Marked(tailIndex)
      BY <1>1, IndexNext
    <3>. QED
      BY <2>1, <3>1 DEF Marked
  <2>4. m \in Message
    BY <1>2, <2>2 DEF Msg, Message
  <2>5. Pending' = Append(Pending, m)
    <3>1. Pending' = Suffix(log', taken)
      BY <2>1 DEF Pending, Suffix
    <3>2. Suffix(Append(log, m), taken) = Append(Suffix(log, taken), m)
      BY <1>2, <2>4, SuffixAppend
    <3>. QED
      BY <1>2, <2>1, <3>1, <3>2
  <2>6. Len(Pending) < AllSends + 1
    BY <1>2
  <2>7. Fifo!Accept(p)
    BY <2>1, <2>2, <2>3, <2>5, <2>6
       DEF Fifo!Accept, Fifo!Pending, Fifo!Answer, Reply, Fifo!Reply, Msg, Fifo!Msg
  <2>. QED
    BY <2>7 DEF Fifo!FifoNext
<1>5. CASE SendBlock(p) /\ Marked(index[p])
  <2>1. /\ pc[p] = "send_block" /\ reply' = [reply EXCEPT ![p] = Reply("closed")]
        /\ UNCHANGED <<Pending, Marked(tailIndex), sent>>
    BY <1>5 DEF SendBlock, Goto, Answer, positions, Pending
  <2>2. Marked(tailIndex) /\ (reply[p] = Reply("sending") \/ reply[p] = Reply("late"))
    BY <1>1, <1>5, <2>1 DEF SendCopy, Role, Sending
  <2>3. Fifo!RefuseClosed(p)
    BY <2>1, <2>2 DEF Fifo!RefuseClosed, Fifo!Pending, Fifo!Answer, Reply, Fifo!Reply
  <2>. QED
    BY <2>3 DEF Fifo!FifoNext
<1>6. CASE SendBlock(p) /\ ~Marked(index[p])
  <2>1. UNCHANGED <<tailIndex, sent, log, taken, reply>>
    BY <1>6 DEF SendBlock, positions
  <2>. QED
    BY <2>1, InvisibleStep
<1>7. CASE Advance(p)
  <2>1. tailIndex' = tailIndex + One /\ UNCHANGED <<sent, log, taken, reply>>
    BY <1>7 DEF Advance, ghosts
  <2>. QED
    BY <1>1, <2>1, IndexNext, InvisibleStep
<1>8. CASE \/ SendReload(p) \/ FirstBlock(p) \/ FirstHead(p) \/ SendRetry(p)
           \/ Install(p) \/ Link(p) \/ Write(p) \/ Publish(p)
  <2>1. UNCHANGED <<tailIndex, sent, log, taken, reply>>
    BY <1>8 DEF SendReload, FirstBlock, FirstHead, SendRetry, Install, Link, Write, Publish,
       positions, ghosts
  <2>. QED
    BY <2>1, InvisibleStep
<1>. QED
  BY <1>3, <1>4, <1>5, <1>6, <1>7, <1>8 DEF SenderContinues

LEMMA ReceiverImplements ==
  ASSUME IInv, NEW p \in Receivers, RecvStart(p) \/ RecvReserve(p) \/ ReceiverContinues(p)
  PROVE  [Fifo!FifoNext]_(Fifo!fifoVars)
<1>1. p \in Threads /\ Role(p) /\ RecvCopy(p) /\ HeadPlace
      /\ index[p] \in Nat /\ headIndex \in Nat /\ tailIndex \in Nat
  BY Numbers DEF IInv, TypeOK, Threads
<1>2. /\ Pending = Suffix(log, taken) /\ Len(Pending) = Len(log) - taken
      /\ log \in Seq(Message) /\ taken \in 0 .. Len(log) /\ Len(log) \in Nat
  BY PendingIs
<1>3. CASE RecvStart(p)
  <2>1. reply[p].kind \notin Fifo!InProgress
    BY <1>1, <1>3 DEF RecvStart, Goto, Role, Sending, Receiving
  <2>2. UNCHANGED <<Pending, Marked(tailIndex), sent>>
    BY <1>3 DEF RecvStart, positions, Pending
  <2>3. Fifo!CallRecv(p)
    BY <1>3, <2>1, <2>2 DEF RecvStart, Fifo!CallRecv, Answer, Fifo!Answer, Reply, Fifo!Reply
  <2>. QED
    BY <2>3 DEF Fifo!FifoNext
<1>4. CASE RecvReserve(p)
  <2>1. /\ pc[p] = "recv_cas" /\ headIndex = index[p] /\ taken' = taken + 1
        /\ UNCHANGED <<log, tailIndex, sent>>
        /\ reply' = [reply EXCEPT ![p] = Received(log[taken + 1])]
    BY <1>4 DEF RecvReserve, Goto, Answer
  <2>2. Position(headIndex) < Position(tailIndex) /\ HeadOffset # BlockCap
    BY <1>1, <2>1 DEF RecvCopy, HeadOffset
  <2>3. taken \in 0 .. Len(log) - 1
    BY <1>2, <2>2, SomethingPending
  <2>4. /\ Pending # << >> /\ Head(Pending) = log[taken + 1]
        /\ Suffix(log, taken + 1) = Tail(Pending)
    BY <1>2, <2>3, SuffixTail
  <2>5. Pending' = Tail(Pending)
    BY <2>1, <2>4 DEF Pending, Suffix
  <2>6. reply[p] = Reply("receiving")
    BY <1>1, <2>1 DEF Role, Receiving
  <2>7. Marked(tailIndex)' = Marked(tailIndex)
    BY <2>1
  <2>8. Fifo!Deliver(p)
    BY <2>1, <2>4, <2>5, <2>6, <2>7
       DEF Fifo!Deliver, Fifo!Pending, Fifo!Answer, Reply, Fifo!Reply, Received, Fifo!Received
  <2>. QED
    BY <2>8 DEF Fifo!FifoNext
<1>5. CASE RecvTail(p) /\ Position(index[p]) = Position(tailIndex)
  <2>1. pc[p] = "recv_tail" /\ UNCHANGED <<Pending, Marked(tailIndex), sent>>
        /\ reply' = [reply EXCEPT ![p] = Reply(IF Marked(tailIndex) THEN "disconnected" ELSE "empty")]
    BY <1>5 DEF RecvTail, Goto, Answer, positions, Pending
  <2>2. index[p] <= headIndex /\ reply[p] = Reply("receiving")
    BY <1>1, <2>1 DEF RecvCopy, Role, Receiving
  <2>3. Position(index[p]) <= Position(headIndex) /\ Position(headIndex) <= Position(tailIndex)
    BY <1>1, <2>2, IndexOrder DEF HeadPlace
  <2>4. Position(headIndex) \in Nat /\ Position(tailIndex) \in Nat
    BY <1>1, Packed
  <2>5. Pending = << >>
    BY <1>5, <2>3, <2>4, NothingPending
  <2>6. CASE Marked(tailIndex)
    BY <2>1, <2>2, <2>5, <2>6
       DEF Fifo!ReportDisconnected, Fifo!Pending, Fifo!Answer, Reply, Fifo!Reply, Fifo!FifoNext
  <2>7. CASE ~Marked(tailIndex)
    BY <2>1, <2>2, <2>5, <2>7
       DEF Fifo!ReportEmpty, Fifo!Pending, Fifo!Answer, Reply, Fifo!Reply, Fifo!FifoNext
  <2>. QED
    BY <2>6, <2>7
<1>6. CASE \/ RecvTail(p) /\ Position(index[p]) # Position(tailIndex)
           \/ RecvReload(p) \/ RecvBlock(p) \/ RecvRetry(p)
           \/ WaitNext(p) \/ Peek(p) \/ MoveBlock(p) \/ MoveIndex(p)
  <2>1. UNCHANGED <<tailIndex, sent, log, taken, reply>>
    BY <1>6 DEF RecvTail, RecvReload, RecvBlock, RecvRetry, WaitNext, Peek, MoveBlock, MoveIndex,
       positions, ghosts
  <2>. QED
    BY <2>1, InvisibleStep
<1>7. CASE WaitWrite(p) \/ Read(p) \/ ReadBit(p) \/ DestroyLook(p) \/ DestroyBit(p) \/ Free(p)
  <2>1. UNCHANGED <<tailIndex, sent, log, taken, reply>>
    BY <1>7 DEF WaitWrite, Read, ReadBit, DestroyLook, DestroyBit, Free, positions, ghosts
  <2>. QED
    BY <2>1, InvisibleStep
<1>. QED
  BY <1>3, <1>4, <1>5, <1>6, <1>7 DEF ReceiverContinues

LEMMA ShutdownImplements ==
  ASSUME IInv, Shutdown
  PROVE  [Fifo!FifoNext]_(Fifo!fifoVars)
<1>1. Marked(tailIndex)' /\ UNCHANGED <<Pending, sent, reply>>
  BY Numbers, IndexMark DEF Shutdown, ghosts, Pending
<1>2. Marked(tailIndex)' = TRUE
  BY <1>1 DEF Marked
<1>3. Fifo!Close
  BY <1>1, <1>2 DEF Fifo!Close
<1>. QED
  BY <1>3 DEF Fifo!FifoNext

LEMMA InitImplements == Init => Fifo!FifoInit
<1> SUFFICES ASSUME Init PROVE Fifo!FifoInit
  OBVIOUS
<1>1. headIndex = 0 /\ tailIndex = 0
  BY DEF Init
<1>2. Pending = << >>
  BY <1>1, InitIInv, NothingPending
<1>3. Marked(tailIndex) = FALSE
  BY <1>1, ZeroIndex DEF Marked
<1>. QED
  BY <1>2, <1>3 DEF Init, Fifo!FifoInit, Reply, Fifo!Reply, Fifo!Threads, Threads

\* list.rs's list of blocks is a FIFO queue that is never full and can be closed:
\* every run of ListChannel is, through the mapping of Fifo, a run of BoundedFifo.
\* That is what lets ListTasks put BoundedFifo in its place.
THEOREM Refinement == Spec => ImplementsFifo
<1>1. IInv /\ [Next]_vars => [Fifo!FifoNext]_(Fifo!fifoVars)
  <2> SUFFICES ASSUME IInv, [Next]_vars PROVE [Fifo!FifoNext]_(Fifo!fifoVars)
    OBVIOUS
  <2>1. CASE UNCHANGED vars
    BY <2>1, InvisibleStep DEF vars, positions, ghosts
  <2>2. CASE Next
    BY <2>2, SenderImplements, ReceiverImplements, ShutdownImplements DEF Next
  <2>. QED
    BY <2>1, <2>2
<1>. QED
  BY <1>1, InitImplements, Invariance, PTL DEF Spec, ImplementsFifo, Fifo!FifoSpec
=============================================================================
