------------------------- MODULE WakerClientsProofs -------------------------
(***************************************************************************)
(* Proofs about the handles of src/counter.rs and a waker of               *)
(* src/atomic_serial_waker.rs put together, for any finite number of       *)
(* handles, any capacity of the queue and any number of calls: what the    *)
(* counter guarantees on its own also holds while the threads are inside   *)
(* the waker, and the waker neither loses nor repeats a registration.      *)
(***************************************************************************)
EXTENDS WakerClients, FiniteSetTheorems, TLAPS

------------------------------------------------------------------------------
(***************************************************************************)
(* Proofs about src/counter.rs, for any finite number of handles: nobody   *)
(* touches the allocation after it was freed, and the channel is shut down *)
(* when, and only when, a side has lost its last handle.                   *)
(***************************************************************************)
\* A handle that took the count of its side to zero and has not swapped destroy.
Leaving(h) == state[h] \in {"disconnect", "swap"}

\* A side whose last handle has swapped destroy.
Done(s) == count[s] = 0 /\ \A h \in OfSide(s) : ~Leaving(h)

\* One handle of a side is the last.
LastOfSide ==
  /\ \A h \in Handles : Leaving(h) => count[Side(h)] = 0
  /\ \A h, g \in Handles : Leaving(h) /\ Leaving(g) /\ Side(h) = Side(g) => h = g

\* destroy is set by the first side that is done; the second one frees, once.
SecondFrees ==
  /\ destroy <=> \E s \in Sides : Done(s)
  /\ (freed \/ \E h \in Handles : state[h] = "free") => \A s \in Sides : Done(s)
  /\ \A h \in Handles : state[h] = "free" =>
       ~freed /\ \A g \in Handles : state[g] = "free" => g = h

\* shutdown comes before the swap.
ShutFirst ==
  /\ \A h \in Handles : state[h] \in {"swap", "free"} => shut
  /\ destroy => shut
  /\ shut => \E s \in Sides : count[s] = 0

CounterInv == TypeOK /\ LastOfSide /\ SecondFrees /\ ShutFirst

------------------------------------------------------------------------------
(***************************************************************************)
(* The counter.                                                            *)
(***************************************************************************)
LEMMA SideType == \A h \in Handles : Side(h) \in Sides /\ h \in OfSide(Side(h))
  BY DEF Side, Sides, OfSide

LEMMA Counting ==
  ASSUME TypeOK, NEW s \in Sides
  PROVE  /\ IsFiniteSet({h \in OfSide(s) : Counted(h)})
         /\ count[s] = Cardinality({h \in OfSide(s) : Counted(h)})
         /\ count[s] \in Nat
<1>1. IsFiniteSet(Handles)
  BY HandlesAssumption, FS_Union DEF Handles
<1>2. {h \in OfSide(s) : Counted(h)} \in SUBSET Handles
  BY DEF OfSide
<1>. QED
  BY <1>1, <1>2, FS_Subset DEF TypeOK

\* A handle that holds a reference is counted.
LEMMA CountedIsCounted ==
  ASSUME TypeOK, NEW h \in Handles, Counted(h)
  PROVE  count[Side(h)] \in Nat \ {0}
<1> DEFINE C == {g \in OfSide(Side(h)) : Counted(g)}
<1>1. h \in C /\ Side(h) \in Sides
  BY SideType
<1>2. /\ IsFiniteSet(C) /\ count[Side(h)] = Cardinality(C)
      /\ count[Side(h)] \in Nat
  BY <1>1, Counting
<1>. QED
  BY <1>1, <1>2, FS_EmptySet

\* One handle of a side changes its state, and the count follows.
LEMMA TypePreserved ==
  ASSUME TypeOK, NEW h \in Handles,
         state' \in [Handles -> States], count' \in [Sides -> Int],
         destroy' \in BOOLEAN, shut' \in BOOLEAN, freed' \in BOOLEAN,
         \A g \in Handles : g # h => (Counted(g)' <=> Counted(g)),
         \A s \in Sides : s # Side(h) => count'[s] = count[s],
         \/ ~Counted(h) /\ Counted(h)' /\ count'[Side(h)] = count[Side(h)] + 1
         \/ Counted(h) /\ ~Counted(h)' /\ count'[Side(h)] = count[Side(h)] - 1
         \/ (Counted(h) <=> Counted(h)') /\ count'[Side(h)] = count[Side(h)]
  PROVE  TypeOK'
<1>1. Side(h) \in Sides /\ h \in OfSide(Side(h))
  BY SideType
<1>2. ASSUME NEW s \in Sides
      PROVE  count'[s] \in Nat /\ count'[s] = Cardinality({g \in OfSide(s) : Counted(g)'})
  <2> DEFINE C == {g \in OfSide(s) : Counted(g)}
             D == {g \in OfSide(s) : Counted(g)'}
  <2>1. IsFiniteSet(C) /\ count[s] = Cardinality(C) /\ count[s] \in Nat
    BY Counting
  <2>2. \A g \in OfSide(s) : g \in Handles /\ Side(g) = s
    BY DEF OfSide
  <2>3. CASE s # Side(h)
    <3>1. D = C
      BY <2>2, <2>3
    <3>. QED
      BY <2>1, <2>3, <3>1
  <2>4. CASE s = Side(h) /\ ~Counted(h) /\ Counted(h)' /\ count'[s] = count[s] + 1
    <3>1. D = C \cup {h} /\ h \notin C
      BY <1>1, <2>2, <2>4
    <3>2. Cardinality(D) = Cardinality(C) + 1
      BY <2>1, <3>1, FS_AddElement
    <3>. QED
      BY <2>1, <2>4, <3>2
  <2>5. CASE s = Side(h) /\ Counted(h) /\ ~Counted(h)' /\ count'[s] = count[s] - 1
    <3>1. D = C \ {h} /\ h \in C
      BY <1>1, <2>2, <2>5
    <3>2. Cardinality(D) = Cardinality(C) - 1 /\ IsFiniteSet(D)
      <4> HIDE DEF C, D
      <4>. QED
        BY <2>1, <3>1, FS_RemoveElement
    <3>3. Cardinality(D) \in Nat
      BY <3>2, FS_CardinalityType
    <3>. QED
      BY <2>1, <2>5, <3>2, <3>3
  <2>6. CASE s = Side(h) /\ (Counted(h) <=> Counted(h)') /\ count'[s] = count[s]
    <3>1. D = C
      BY <2>2, <2>6
    <3>. QED
      BY <2>1, <2>6, <3>1
  <2>. QED
    BY <2>3, <2>4, <2>5, <2>6
<1>3. count' \in [Sides -> Nat]
  BY <1>2
<1>. QED
  BY <1>2, <1>3 DEF TypeOK

LEMMA CounterInit == Init => CounterInv
<1> SUFFICES ASSUME Init PROVE CounterInv
  OBVIOUS
<1> USE DEF Init
<1>1. /\ FirstSender \in Handles /\ FirstReceiver \in Handles
      /\ Side(FirstSender) = "senders" /\ Side(FirstReceiver) = "receivers"
  BY HandlesAssumption DEF Handles, Side
<1>2. \A h \in Handles : Counted(h) <=> h \in {FirstSender, FirstReceiver}
  BY <1>1 DEF Counted
<1>3. /\ {h \in OfSide("senders") : Counted(h)} = {FirstSender}
      /\ {h \in OfSide("receivers") : Counted(h)} = {FirstReceiver}
  BY <1>1, <1>2 DEF OfSide
<1>4. \A s \in Sides : count[s] = 1 /\ Cardinality({h \in OfSide(s) : Counted(h)}) = 1
  BY <1>3, FS_Singleton DEF Sides
<1>5. TypeOK
  BY <1>4 DEF TypeOK, States
<1>6. \A h \in Handles : state[h] \in {"live", "unborn"}
  OBVIOUS
<1>. QED
  BY <1>4, <1>5, <1>6 DEF CounterInv, LastOfSide, SecondFrees, ShutFirst, Leaving, Done

------------------------------------------------------------------------------
(***************************************************************************)
(* One lemma per action.                                                   *)
(***************************************************************************)
LEMMA AcquireStep ==
  ASSUME CounterInv, NEW h \in Handles, NEW g \in Handles, Acquire(h, g)
  PROVE  CounterInv'
<1>1. TypeOK /\ count \in [Sides -> Nat] /\ state \in [Handles -> States]
  BY DEF CounterInv, TypeOK
<1>2. /\ state[h] = "live" /\ state[g] = "unborn" /\ Side(g) = Side(h)
      /\ state' = [state EXCEPT ![g] = "live"]
      /\ count' = [count EXCEPT ![Side(g)] = @ + 1]
      /\ UNCHANGED <<destroy, shut, freed>>
  BY DEF Acquire, Become
<1>3. TypeOK'
  <2>1. destroy' \in BOOLEAN /\ shut' \in BOOLEAN /\ freed' \in BOOLEAN
    BY <1>1, <1>2 DEF TypeOK
  <2>2. state' \in [Handles -> States] /\ count' \in [Sides -> Int]
    BY <1>1, <1>2, SideType DEF States
  <2>3. \A x \in Handles : x # g => (Counted(x)' <=> Counted(x))
    BY <1>1, <1>2 DEF Counted
  <2>4. \A r \in Sides : r # Side(g) => count'[r] = count[r]
    BY <1>1, <1>2
  <2>5. ~Counted(g) /\ Counted(g)' /\ count'[Side(g)] = count[Side(g)] + 1
    BY <1>1, <1>2, SideType DEF Counted
  <2>. QED
    BY <1>1, <2>1, <2>2, <2>3, <2>4, <2>5, TypePreserved
<1>4. count[Side(h)] # 0
  BY <1>1, <1>2, CountedIsCounted DEF Counted
<1>5. \A s \in Sides : count'[s] = 0 <=> count[s] = 0
  BY <1>1, <1>2, <1>4, SideType
<1>6. \A x \in Handles : Leaving(x)' <=> Leaving(x)
  BY <1>1, <1>2 DEF Leaving
<1>7. \A x \in Handles, l \in {"swap", "free"} : state'[x] = l <=> state[x] = l
  BY <1>1, <1>2
<1>8. LastOfSide'
  BY <1>5, <1>6, SideType DEF CounterInv, LastOfSide
<1>9. \A s \in Sides : Done(s)' <=> Done(s)
  BY <1>5, <1>6 DEF Done, OfSide
<1>. QED
  BY <1>2, <1>3, <1>5, <1>7, <1>8, <1>9 DEF CounterInv, SecondFrees, ShutFirst

LEMMA ForgetStep ==
  ASSUME CounterInv, NEW h \in Handles, Forget(h)
  PROVE  CounterInv'
<1>1. TypeOK /\ count \in [Sides -> Nat] /\ state \in [Handles -> States]
  BY DEF CounterInv, TypeOK
<1>2. /\ state[h] = "live" /\ state' = [state EXCEPT ![h] = "forgotten"]
      /\ UNCHANGED <<count, destroy, shut, freed>>
  BY DEF Forget, Become
<1>4. TypeOK'
  <2>1. destroy' \in BOOLEAN /\ shut' \in BOOLEAN /\ freed' \in BOOLEAN
    BY <1>1, <1>2 DEF TypeOK
  <2>2. state' \in [Handles -> States] /\ count' \in [Sides -> Int]
    BY <1>1, <1>2, SideType DEF States
  <2>3. \A x \in Handles : x # h => (Counted(x)' <=> Counted(x))
    BY <1>1, <1>2 DEF Counted
  <2>4. \A r \in Sides : r # Side(h) => count'[r] = count[r]
    BY <1>1, <1>2
  <2>5. Counted(h) /\ Counted(h)' /\ count'[Side(h)] = count[Side(h)]
    BY <1>1, <1>2, SideType DEF Counted
  <2>. QED
    BY <1>1, <2>1, <2>2, <2>3, <2>4, <2>5, TypePreserved
<1>5. \A x \in Handles : Leaving(x)' <=> Leaving(x)
  BY <1>1, <1>2 DEF Leaving
<1>6. \A x \in Handles, l \in {"swap", "free"} : state'[x] = l <=> state[x] = l
  BY <1>1, <1>2
<1>7. LastOfSide'
  BY <1>2, <1>5 DEF CounterInv, LastOfSide
<1>8. \A s \in Sides : Done(s)' <=> Done(s)
  BY <1>2, <1>5 DEF Done, OfSide
<1>. QED
  BY <1>2, <1>4, <1>6, <1>7, <1>8 DEF CounterInv, SecondFrees, ShutFirst

\* The count of a side that still has a reference goes down: no handle of that
\* side is leaving yet, and the side is not done.
LEMMA ReleaseStep ==
  ASSUME CounterInv, NEW h \in Handles, Release(h)
  PROVE  CounterInv'
<1> DEFINE s == Side(h)
           to == IF count[s] = 1 THEN "disconnect" ELSE "dropped"
<1>1. TypeOK /\ count \in [Sides -> Nat] /\ state \in [Handles -> States] /\ s \in Sides
  BY SideType DEF CounterInv, TypeOK
<1>2. /\ state[h] = "live" /\ state' = [state EXCEPT ![h] = to]
      /\ count' = [count EXCEPT ![s] = @ - 1]
      /\ UNCHANGED <<destroy, shut, freed>>
  BY DEF Release, Become
<1>3. count[s] \in Nat \ {0}
  BY <1>1, <1>2, CountedIsCounted DEF Counted
<1>5. TypeOK'
  <2>1. destroy' \in BOOLEAN /\ shut' \in BOOLEAN /\ freed' \in BOOLEAN
    BY <1>1, <1>2 DEF TypeOK
  <2>2. state' \in [Handles -> States] /\ count' \in [Sides -> Int]
    BY <1>1, <1>2, SideType DEF States
  <2>3. \A x \in Handles : x # h => (Counted(x)' <=> Counted(x))
    BY <1>1, <1>2 DEF Counted
  <2>4. \A r \in Sides : r # Side(h) => count'[r] = count[r]
    BY <1>1, <1>2
  <2>5. Counted(h) /\ ~Counted(h)' /\ count'[Side(h)] = count[Side(h)] - 1
    BY <1>1, <1>2, SideType DEF Counted
  <2>. QED
    BY <1>1, <2>1, <2>2, <2>3, <2>4, <2>5, TypePreserved
<1>6. \A x \in Handles : x # h => (Leaving(x)' <=> Leaving(x))
  BY <1>1, <1>2 DEF Leaving
<1>7. \A x \in Handles : Side(x) = s => ~Leaving(x)
  BY <1>3 DEF CounterInv, LastOfSide
<1>8. Leaving(h)' <=> count'[s] = 0
  BY <1>1, <1>2, <1>3 DEF Leaving
<1>9. \A r \in Sides : r # s => count'[r] = count[r]
  BY <1>1, <1>2
<1>10. LastOfSide'
  <2>1. ASSUME NEW x \in Handles, Leaving(x)' PROVE count'[Side(x)] = 0
    <3>1. CASE x = h
      BY <1>8, <2>1, <3>1
    <3>2. CASE x # h
      <4>1. Leaving(x) /\ Side(x) # s /\ Side(x) \in Sides
        BY <1>6, <1>7, <2>1, <3>2, SideType
      <4>. QED
        BY <1>9, <4>1 DEF CounterInv, LastOfSide
    <3>. QED
      BY <3>1, <3>2
  <2>2. ASSUME NEW x \in Handles, NEW y \in Handles, Leaving(x)', Leaving(y)', Side(x) = Side(y)
        PROVE  x = y
    <3>1. (x = h \/ Leaving(x)) /\ (y = h \/ Leaving(y))
      BY <1>6, <2>2
    <3>. QED
      BY <1>7, <2>2, <3>1 DEF CounterInv, LastOfSide
  <2>. QED
    BY <2>1, <2>2 DEF LastOfSide
<1>11. \A r \in Sides : Done(r)' <=> Done(r)
  <2>1. ~Done(s) /\ ~Done(s)'
    BY <1>3, <1>8, SideType DEF Done, OfSide
  <2>2. ASSUME NEW r \in Sides, r # s PROVE Done(r)' <=> Done(r)
    <3>1. \A x \in OfSide(r) : x \in Handles /\ x # h
      BY <2>2 DEF OfSide
    <3>. QED
      BY <1>6, <1>9, <2>2, <3>1 DEF Done
  <2>. QED
    BY <2>1, <2>2
<1>12. SecondFrees'
  <2>1. \A x \in Handles : state'[x] = "free" <=> state[x] = "free"
    BY <1>1, <1>2
  <2>. QED
    BY <1>2, <1>11, <2>1 DEF CounterInv, SecondFrees
<1>13. ShutFirst'
  <2>1. \A x \in Handles : state'[x] \in {"swap", "free"} => state[x] \in {"swap", "free"}
    BY <1>1, <1>2
  <2>2. \A r \in Sides : count[r] = 0 => count'[r] = 0
    BY <1>3, <1>9
  <2>. QED
    BY <1>2, <2>1, <2>2 DEF CounterInv, ShutFirst
<1>. QED
  BY <1>5, <1>10, <1>12, <1>13 DEF CounterInv

\* The three steps of a drop that come after the count do not change it.
LEMMA FinishType ==
  ASSUME TypeOK, NEW h \in Handles, NEW to \in {"swap", "free", "dropped"},
         ~Counted(h), state' = [state EXCEPT ![h] = to], UNCHANGED count,
         destroy' \in BOOLEAN, shut' \in BOOLEAN, freed' \in BOOLEAN
  PROVE  TypeOK'
<1>1. count \in [Sides -> Nat] /\ state \in [Handles -> States]
  BY DEF TypeOK
<1>2. state' \in [Handles -> States] /\ count' \in [Sides -> Int]
  BY <1>1 DEF States
<1>3. \A x \in Handles : x # h => (Counted(x)' <=> Counted(x))
  BY <1>1 DEF Counted
<1>4. ~Counted(h)' /\ count'[Side(h)] = count[Side(h)]
  BY <1>1 DEF Counted
<1>. QED
  BY <1>2, <1>3, <1>4, TypePreserved

LEMMA DisconnectStep ==
  ASSUME CounterInv, NEW h \in Handles, Disconnect(h)
  PROVE  CounterInv'
<1>1. TypeOK /\ count \in [Sides -> Nat] /\ state \in [Handles -> States]
  BY DEF CounterInv, TypeOK
<1>2. /\ state[h] = "disconnect" /\ state' = [state EXCEPT ![h] = "swap"]
      /\ shut' = TRUE
      /\ UNCHANGED <<count, destroy, freed>>
  BY DEF Disconnect, Become
<1>3. TypeOK'
  <2>1. destroy' \in BOOLEAN /\ shut' \in BOOLEAN /\ freed' \in BOOLEAN /\ ~Counted(h)
    BY <1>1, <1>2 DEF TypeOK, Counted
  <2>. QED
    BY <1>1, <1>2, <2>1, FinishType
<1>4. \A x \in Handles : Leaving(x)' <=> Leaving(x)
  BY <1>1, <1>2 DEF Leaving
<1>5. \A x \in Handles : state'[x] = "free" <=> state[x] = "free"
  BY <1>1, <1>2
<1>6. LastOfSide'
  BY <1>2, <1>4 DEF CounterInv, LastOfSide
<1>7. \A s \in Sides : Done(s)' <=> Done(s)
  BY <1>2, <1>4 DEF Done, OfSide
<1>8. count[Side(h)] = 0 /\ Side(h) \in Sides
  BY <1>2, SideType DEF CounterInv, LastOfSide, Leaving
<1>. QED
  BY <1>2, <1>3, <1>5, <1>6, <1>7, <1>8 DEF CounterInv, SecondFrees, ShutFirst

\* Before the swap the side of h is not done, and after it it is: h was the only
\* one of its side on its way out.  So destroy tells about the other side.
LEMMA SwapStep ==
  ASSUME CounterInv, NEW h \in Handles, Swap(h)
  PROVE  CounterInv'
<1> DEFINE s == Side(h)
           to == IF destroy THEN "free" ELSE "dropped"
<1>1. /\ TypeOK /\ count \in [Sides -> Nat] /\ state \in [Handles -> States]
      /\ s \in Sides /\ h \in OfSide(s)
  BY SideType DEF CounterInv, TypeOK
<1>2. /\ state[h] = "swap" /\ state' = [state EXCEPT ![h] = to]
      /\ destroy' = TRUE
      /\ UNCHANGED <<count, shut, freed>>
  BY DEF Swap, Become
<1>3. TypeOK'
  <2>1. destroy' \in BOOLEAN /\ shut' \in BOOLEAN /\ freed' \in BOOLEAN /\ ~Counted(h)
    BY <1>1, <1>2 DEF TypeOK, Counted
  <2>. QED
    BY <1>1, <1>2, <2>1, FinishType
<1>4. /\ Leaving(h) /\ ~Leaving(h)'
      /\ \A x \in Handles : x # h => (Leaving(x)' <=> Leaving(x))
  BY <1>1, <1>2 DEF Leaving
<1>5. LastOfSide'
  BY <1>2, <1>4 DEF CounterInv, LastOfSide
<1>6. ~Done(s) /\ Done(s)'
  <2>1. count'[s] = 0
    BY <1>2, <1>4 DEF CounterInv, LastOfSide
  <2>2. \A x \in OfSide(s) : x \in Handles /\ Side(x) = s
    BY DEF OfSide
  <2>3. \A x \in OfSide(s) : ~Leaving(x)'
    BY <1>4, <2>2 DEF CounterInv, LastOfSide
  <2>. QED
    BY <1>1, <1>4, <2>1, <2>3 DEF Done, OfSide
<1>7. \A r \in Sides : r # s => (Done(r)' <=> Done(r))
  <2>1. ASSUME NEW r \in Sides, r # s
        PROVE  \A x \in OfSide(r) : Leaving(x)' <=> Leaving(x)
    BY <1>4, <2>1 DEF OfSide
  <2>. QED
    BY <1>2, <2>1 DEF Done, OfSide
<1>8. ~freed /\ \A x \in Handles : state[x] # "free"
  BY <1>1, <1>6 DEF CounterInv, SecondFrees
<1>9. \A x \in Handles : state'[x] = "free" <=> x = h /\ destroy
  BY <1>1, <1>2, <1>8
<1>10. destroy => \A r \in Sides : Done(r)'
  <2>1. destroy => \E r \in Sides : Done(r) /\ r # s
    BY <1>6 DEF CounterInv, SecondFrees
  <2>2. \A r, q \in Sides : r # s /\ q # s => r = q
    BY <1>1 DEF Sides
  <2>. QED
    BY <1>6, <1>7, <2>1, <2>2
<1>11. SecondFrees'
  BY <1>1, <1>2, <1>6, <1>8, <1>9, <1>10 DEF SecondFrees
<1>12. ShutFirst'
  <2>1. shut
    BY <1>2 DEF CounterInv, ShutFirst
  <2>. QED
    BY <1>2, <2>1 DEF CounterInv, ShutFirst
<1>. QED
  BY <1>3, <1>5, <1>11, <1>12 DEF CounterInv

LEMMA FreeStep ==
  ASSUME CounterInv, NEW h \in Handles, Free(h)
  PROVE  CounterInv'
<1>1. TypeOK /\ count \in [Sides -> Nat] /\ state \in [Handles -> States]
  BY DEF CounterInv, TypeOK
<1>2. /\ state[h] = "free" /\ state' = [state EXCEPT ![h] = "dropped"]
      /\ freed' = TRUE
      /\ UNCHANGED <<count, destroy, shut>>
  BY DEF Free, Become
<1>3. TypeOK'
  <2>1. destroy' \in BOOLEAN /\ shut' \in BOOLEAN /\ freed' \in BOOLEAN /\ ~Counted(h)
    BY <1>1, <1>2 DEF TypeOK, Counted
  <2>. QED
    BY <1>1, <1>2, <2>1, FinishType
<1>4. \A x \in Handles : Leaving(x)' <=> Leaving(x)
  BY <1>1, <1>2 DEF Leaving
<1>5. LastOfSide'
  BY <1>2, <1>4 DEF CounterInv, LastOfSide
<1>6. \A s \in Sides : Done(s)' <=> Done(s)
  BY <1>2, <1>4 DEF Done, OfSide
<1>7. \A x \in Handles : state'[x] # "free"
  BY <1>1, <1>2 DEF CounterInv, SecondFrees
<1>8. \A x \in Handles : state'[x] = "swap" => state[x] = "swap"
  BY <1>1, <1>2
<1>. QED
  BY <1>2, <1>3, <1>5, <1>6, <1>7, <1>8 DEF CounterInv, SecondFrees, ShutFirst

LEMMA CounterStutter ==
  ASSUME CounterInv, UNCHANGED vars
  PROVE  CounterInv'
BY DEF vars, CounterInv, TypeOK, LastOfSide, SecondFrees, ShutFirst, Counted, Leaving, Done

LEMMA CounterNext == CounterInv /\ [Next]_vars => CounterInv'
<1> SUFFICES ASSUME CounterInv, [Next]_vars PROVE CounterInv'
  OBVIOUS
<1>1. CASE UNCHANGED vars
  BY <1>1, CounterStutter
<1>2. ASSUME NEW h \in Handles, NEW g \in Handles, Acquire(h, g) PROVE CounterInv'
  BY <1>2, AcquireStep
<1>3. ASSUME NEW h \in Handles, Forget(h) PROVE CounterInv'
  BY <1>3, ForgetStep
<1>4. ASSUME NEW h \in Handles, Release(h) PROVE CounterInv'
  BY <1>4, ReleaseStep
<1>5. ASSUME NEW h \in Handles, Finish(h) PROVE CounterInv'
  BY <1>5, DisconnectStep, SwapStep, FreeStep DEF Finish
<1>. QED
  BY <1>1, <1>2, <1>3, <1>4, <1>5 DEF Next

LEMMA CounterInvariance == Spec => []CounterInv
BY CounterInit, CounterNext, PTL DEF Spec

------------------------------------------------------------------------------
(***************************************************************************)
(* What the counts guarantee.                                              *)
(***************************************************************************)
\* src/counter.rs: each count is the number of handles that were not dropped.
THEOREM CountsAreExact == Spec => []TypeOK
<1>1. CounterInv => TypeOK
  BY DEF CounterInv
<1>. QED
  BY <1>1, CounterInvariance, PTL

\* When the allocation is freed both sides are done: nobody holds a reference,
\* and nobody is on its way out.
LEMMA NobodyIsLeft == CounterInv => NoUseAfterFree
<1> SUFFICES ASSUME CounterInv, freed, NEW h \in Handles PROVE ~Touching(h)
  BY DEF NoUseAfterFree
<1>1. Done(Side(h)) /\ h \in OfSide(Side(h)) /\ state[h] # "free"
  BY SideType DEF CounterInv, SecondFrees
<1>2. state[h] # "live"
  BY <1>1, CountedIsCounted DEF CounterInv, Done, Counted
<1>. QED
  BY <1>1, <1>2 DEF Touching, Done, Leaving

\* release of src/counter.rs: whatever the order in which handles of both sides
\* are cloned and dropped, none touches the allocation after it was freed.
THEOREM NobodyUsesFreed == Spec => []NoUseAfterFree
BY NobodyIsLeft, CounterInvariance, PTL

\* disconnect of src/counter.rs runs after a side has lost its last handle and
\* before the allocation goes.
THEOREM ShutIsJustified == Spec => []ShutWhenSideGone
<1>1. CounterInv => ShutWhenSideGone
  BY DEF CounterInv, ShutWhenSideGone, ShutFirst, SecondFrees, Sides
<1>. QED
  BY <1>1, CounterInvariance, PTL

------------------------------------------------------------------------------
(***************************************************************************)
(* The composition does what the counter does.                             *)
(***************************************************************************)
LEMMA ClientsStepIsCounterStep == [ClientsNext]_clientVars => [Next]_vars
<1> SUFFICES ASSUME [ClientsNext]_clientVars PROVE [Next]_vars
  OBVIOUS
<1>1. CASE UNCHANGED clientVars
  BY <1>1 DEF clientVars
<1>2. ASSUME NEW h \in Handles, NEW op \in {"register", "wake"}, Invoke(h, op)
      PROVE  UNCHANGED vars
  BY <1>2 DEF Invoke
<1>3. ASSUME NEW h \in Handles, Handle(h) PROVE Next
  BY <1>3 DEF Handle, Next
<1>4. ASSUME NEW h \in Handles, ClientFinish(h) PROVE [Next]_vars
  <2>1. CASE BeginDisconnect(h)
    BY <2>1 DEF BeginDisconnect, Next, Finish
  <2>2. CASE EndDisconnect(h)
    BY <2>2 DEF EndDisconnect, Next, Finish
  <2>3. CASE Proceed(h)
    BY <2>3 DEF Proceed
  <2>. QED
    BY <1>4, <2>1, <2>2, <2>3 DEF ClientFinish
<1>. QED
  BY <1>1, <1>2, <1>3, <1>4 DEF ClientsNext

\* A channel that runs wake_all while it shuts down still counts, disconnects
\* and frees as src/counter.rs does by itself.
THEOREM ClientsImplementCounter == ClientsSpec => Spec
<1>1. ClientsInit => Init
  BY DEF ClientsInit
<1>. QED
  BY <1>1, ClientsStepIsCounterStep, PTL DEF ClientsSpec, Spec

\* No thread touches the allocation after it was freed, whatever it was doing
\* with the waker inside.
THEOREM ClientsNeverUseFreed == ClientsSpec => []NoUseAfterFree
BY ClientsImplementCounter, NobodyUsesFreed, PTL

------------------------------------------------------------------------------
(***************************************************************************)
(* The shape of the waker.                                                 *)
(***************************************************************************)
\* A thread is inside the waker only while it may touch the allocation.
InsideIsTouching == \A h \in Handles : InWaker(h) => Touching(h)

WakerInv == W!WakerTypeOK /\ InsideIsTouching

LEMMA WakerFacts ==
  ASSUME W!WakerTypeOK
  PROVE  /\ queue \in Seq(Handles) /\ Len(queue) <= QueueCap
         /\ waiting \in Nat /\ fromMe \in 0 .. CountRange - 1
         /\ wpc \in [Handles -> W!Labels]
         /\ held \in [Handles -> Handles \union {NoTask}]
         /\ \A p \in Handles : W!Holding(p) <=> held[p] # NoTask
         /\ QueueCap \in Nat \ {0} /\ CountRange \in Nat \ {0} /\ NoTask \notin Handles
BY ClientsAssumption DEF W!WakerTypeOK, W!WakerAssumption

\* One thread moves on, with or without a task in its hands.
LEMMA WakerTypePreserved ==
  ASSUME W!WakerTypeOK, NEW p \in Handles, NEW l \in W!Labels,
         NEW t \in Handles \union {NoTask},
         queue' \in Seq(Handles), Len(queue') <= QueueCap,
         waiting' \in Nat, fromMe' \in 0 .. CountRange - 1,
         wpc' = [wpc EXCEPT ![p] = l], held' = [held EXCEPT ![p] = t],
         l \in {"count", "notify", "count_all", "notify_all", "positive_update", "push_back"}
           <=> t # NoTask
  PROVE  W!WakerTypeOK'
<1>1. /\ wpc \in [Handles -> W!Labels]
      /\ held \in [Handles -> Handles \union {NoTask}]
      /\ \A q \in Handles : W!Holding(q) <=> held[q] # NoTask
  BY WakerFacts
<1>2. \A q \in Handles : W!Holding(q)' <=> held'[q] # NoTask
  <2>1. \A q \in Handles : q # p => wpc'[q] = wpc[q] /\ held'[q] = held[q]
    BY <1>1
  <2>2. wpc'[p] = l /\ held'[p] = t
    BY <1>1
  <2>. QED
    BY <1>1, <2>1, <2>2 DEF W!Holding, W!Notifying
<1>3. wpc' \in [Handles -> W!Labels] /\ held' \in [Handles -> Handles \union {NoTask}]
  BY <1>1
<1>. QED
  BY <1>2, <1>3 DEF W!WakerTypeOK

\* The same with held as it was.
LEMMA WakerTypeMoved ==
  ASSUME W!WakerTypeOK, NEW p \in Handles, NEW l \in W!Labels,
         waiting' \in Nat, fromMe' \in 0 .. CountRange - 1,
         wpc' = [wpc EXCEPT ![p] = l], UNCHANGED <<queue, held>>,
         l \in {"count", "notify", "count_all", "notify_all", "positive_update", "push_back"}
           <=> W!Holding(p)
  PROVE  W!WakerTypeOK'
<1>1. /\ held \in [Handles -> Handles \union {NoTask}]
      /\ queue \in Seq(Handles) /\ Len(queue) <= QueueCap
      /\ W!Holding(p) <=> held[p] # NoTask
  BY WakerFacts
<1>2. held' = [held EXCEPT ![p] = held[p]] /\ held[p] \in Handles \union {NoTask}
  BY <1>1
<1>. QED
  BY <1>1, <1>2, WakerTypePreserved

LEMMA CallType ==
  ASSUME W!WakerTypeOK, NEW p \in Handles, NEW op \in W!Calls, W!Call(p, op)
  PROVE  W!WakerTypeOK'
<1>1. waiting \in Nat /\ fromMe \in 0 .. CountRange - 1
  BY WakerFacts
<1>2. /\ wpc[p] = "idle" /\ wpc' = [wpc EXCEPT ![p] = op]
      /\ UNCHANGED <<queue, held, waiting, fromMe>>
  BY DEF W!Call, W!At, W!Goto
<1>3. op \in W!Labels /\ op \in {"register", "wake", "wake_all"}
  BY DEF W!Labels, W!Calls
<1>4. ~W!Holding(p)
  BY <1>2 DEF W!Holding, W!Notifying
<1>. QED
  BY <1>1, <1>2, <1>3, <1>4, WakerTypeMoved

LEMMA QueueFacts ==
  ASSUME W!WakerTypeOK
  PROVE  /\ queue # << >> => /\ Head(queue) \in Handles
                             /\ Tail(queue) \in Seq(Handles)
                             /\ Len(Tail(queue)) = Len(queue) - 1
                             /\ Len(Tail(queue)) <= QueueCap
         /\ \A t \in Handles : /\ Append(queue, t) \in Seq(Handles)
                               /\ Len(Append(queue, t)) = Len(queue) + 1
         /\ Len(queue) \in Nat
BY WakerFacts

\* A step inside the waker keeps its shape: a thread holds a task exactly at the
\* labels where the code has popped one and not yet disposed of it.
LEMMA StepType ==
  ASSUME W!WakerTypeOK, NEW p \in Handles, W!Step(p)
  PROVE  W!WakerTypeOK'
<1>1. /\ queue \in Seq(Handles) /\ Len(queue) <= QueueCap
      /\ waiting \in Nat /\ fromMe \in 0 .. CountRange - 1
      /\ wpc \in [Handles -> W!Labels]
      /\ held \in [Handles -> Handles \union {NoTask}]
      /\ W!Holding(p) <=> held[p] # NoTask
      /\ QueueCap \in Nat \ {0} /\ CountRange \in Nat \ {0} /\ NoTask \notin Handles
  BY WakerFacts
<1> USE DEF W!At, W!Goto, W!Hold, W!Labels, W!Calls, W!Holding, W!Notifying
<1>2. CASE W!Register(p)
  <2>1. CASE Len(queue) < QueueCap /\ queue' = Append(queue, p) /\ W!Hold(p, NoTask) /\ W!Goto(p, "wk")
    <3>1. queue' \in Seq(Handles) /\ Len(queue') <= QueueCap
      BY <1>1, <2>1, QueueFacts
    <3>. QED
      BY <1>1, <1>2, <2>1, <3>1, WakerTypePreserved DEF W!Register
  <2>2. CASE W!Hold(p, p) /\ W!Goto(p, "count") /\ UNCHANGED queue
    BY <1>1, <1>2, <2>2, WakerTypePreserved DEF W!Register
  <2>. QED
    BY <1>2, <2>1, <2>2 DEF W!Register, W!Push
<1>3. CASE W!PushBack(p)
  <2>1. CASE Len(queue) < QueueCap /\ queue' = Append(queue, held[p]) /\ W!Hold(p, NoTask) /\ W!Goto(p, "idle")
    <3>1. held[p] \in Handles
      BY <1>1, <1>3 DEF W!PushBack
    <3>2. queue' \in Seq(Handles) /\ Len(queue') <= QueueCap
      BY <1>1, <2>1, <3>1, QueueFacts
    <3>. QED
      BY <1>1, <1>3, <2>1, <3>2, WakerTypePreserved DEF W!PushBack
  <2>2. CASE W!Hold(p, held[p]) /\ W!Goto(p, "count") /\ UNCHANGED queue
    BY <1>1, <1>3, <2>2, WakerTypePreserved DEF W!PushBack
  <2>. QED
    BY <1>3, <2>1, <2>2 DEF W!PushBack, W!Push
<1>4. ASSUME NEW l \in {"positive_update", "count", "count_all"}, NEW e \in {"idle", "wait"},
             ~W!Holding(p), W!Pop(p, l, e), UNCHANGED <<waiting, fromMe>>
      PROVE  W!WakerTypeOK'
  <2>1. CASE queue # << >> /\ queue' = Tail(queue) /\ W!Hold(p, Head(queue)) /\ W!Goto(p, l)
    <3>1. queue' \in Seq(Handles) /\ Len(queue') <= QueueCap /\ Head(queue) \in Handles
      BY <2>1, QueueFacts
    <3>. QED
      BY <1>1, <1>4, <2>1, <3>1, WakerTypePreserved
  <2>2. CASE W!Goto(p, e) /\ UNCHANGED <<queue, held>>
    BY <1>1, <1>4, <2>2, WakerTypeMoved
  <2>. QED
    BY <1>4, <2>1, <2>2 DEF W!Pop
<1>5. CASE W!WkPop(p) \/ W!Wake(p) \/ W!WakeAll(p)
  BY <1>4, <1>5 DEF W!WkPop, W!Wake, W!WakeAll
<1>6. CASE W!PositiveUpdate(p)
  BY <1>1, <1>6, WakerTypeMoved DEF W!PositiveUpdate
<1>7. CASE W!Wait(p)
  <2>1. waiting' \in Nat /\ fromMe' \in 0 .. CountRange - 1
    BY <1>1, <1>7 DEF W!Wait
  <2>2. wpc' = [wpc EXCEPT ![p] = "idle"] /\ ~W!Holding(p) /\ UNCHANGED <<queue, held>>
    BY <1>7 DEF W!Wait
  <2>. QED
    BY <2>1, <2>2, WakerTypeMoved
<1>8. CASE W!Count(p)
  <2>1. fromMe' \in 0 .. CountRange - 1
    BY <1>1, <1>8 DEF W!Count
  <2>2. PICK l \in {"notify", "notify_all"} : W!Goto(p, l)
    BY <1>8 DEF W!Count
  <2>3. W!Holding(p) /\ UNCHANGED <<queue, held, waiting>>
    BY <1>8 DEF W!Count
  <2>. QED
    BY <1>1, <2>1, <2>2, <2>3, WakerTypeMoved
<1>9. CASE W!Notify(p)
  BY <1>1, <1>9, WakerTypePreserved DEF W!Notify
<1>. QED
  BY <1>2, <1>3, <1>5, <1>6, <1>7, <1>8, <1>9 DEF W!Step

LEMMA ClientsTypeInit == ClientsInit => WakerInv
<1> SUFFICES ASSUME ClientsInit PROVE WakerInv
  OBVIOUS
<1>1. QueueCap \in Nat \ {0} /\ CountRange \in Nat \ {0} /\ NoTask \notin Handles
  BY ClientsAssumption DEF W!WakerAssumption
<1>2. W!WakerTypeOK
  BY <1>1 DEF ClientsInit, W!WakerInit, W!WakerTypeOK, W!Labels, W!Calls, W!Holding, W!Notifying
<1>. QED
  BY <1>2 DEF WakerInv, InsideIsTouching, InWaker, ClientsInit, W!WakerInit

LEMMA ClientsTypeNext == TypeOK /\ WakerInv /\ [ClientsNext]_clientVars => WakerInv'
<1> SUFFICES ASSUME TypeOK, WakerInv, [ClientsNext]_clientVars PROVE WakerInv'
  OBVIOUS
<1>1. /\ W!WakerTypeOK /\ wpc \in [Handles -> W!Labels]
      /\ state \in [Handles -> States]
      /\ \A h \in Handles : wpc[h] # "idle" => Touching(h)
  BY WakerFacts DEF WakerInv, TypeOK, InsideIsTouching, InWaker
<1>2. CASE UNCHANGED clientVars
  BY <1>1, <1>2 DEF clientVars, waker, vars, WakerInv, InsideIsTouching, InWaker, Touching,
       W!WakerTypeOK, W!Holding, W!Notifying
<1>3. ASSUME NEW h \in Handles, NEW op \in {"register", "wake"}, Invoke(h, op) PROVE WakerInv'
  <2>1. W!WakerTypeOK'
    BY <1>1, <1>3, CallType DEF Invoke, W!Calls
  <2>2. Touching(h)
    BY <1>3 DEF Invoke, Touching
  <2>3. InsideIsTouching'
    BY <1>1, <1>3, <2>2 DEF Invoke, vars, W!Call, W!Goto, InsideIsTouching, InWaker, Touching
  <2>. QED
    BY <2>1, <2>3 DEF WakerInv
<1>4. ASSUME NEW h \in Handles, UNCHANGED waker, ~InWaker(h),
             \/ \E g \in Handles : Acquire(h, g)
             \/ Forget(h) \/ Release(h) \/ Swap(h) \/ Free(h)
      PROVE  WakerInv'
  <2>1. W!WakerTypeOK'
    BY <1>1, <1>4 DEF waker, W!WakerTypeOK, W!Holding, W!Notifying
  <2>2. CASE \E g \in Handles : Acquire(h, g)
    <3>1. \A x \in Handles : state[x] # state'[x] => state'[x] = "live"
      BY <1>1, <2>2 DEF Acquire, Become
    <3>. QED
      BY <1>1, <1>4, <2>1, <3>1 DEF waker, WakerInv, InsideIsTouching, InWaker, Touching
  <2>3. CASE Forget(h) \/ Release(h) \/ Swap(h) \/ Free(h)
    <3>1. \A x \in Handles : x # h => state'[x] = state[x]
      BY <1>1, <2>3 DEF Forget, Release, Swap, Free, Become
    <3>. QED
      BY <1>1, <1>4, <2>1, <3>1 DEF waker, WakerInv, InsideIsTouching, InWaker, Touching
  <2>. QED
    BY <1>4, <2>1, <2>2, <2>3 DEF WakerInv
<1>5. ASSUME NEW h \in Handles, BeginDisconnect(h) PROVE WakerInv'
  <2>1. W!Call(h, "wake_all") \/ UNCHANGED waker
    BY <1>5 DEF BeginDisconnect
  <2>2. W!WakerTypeOK'
    <3>1. CASE W!Call(h, "wake_all")
      BY <1>1, <3>1, CallType DEF W!Calls
    <3>2. CASE UNCHANGED waker
      BY <1>1, <3>2 DEF waker, W!WakerTypeOK, W!Holding, W!Notifying
    <3>. QED
      BY <2>1, <3>1, <3>2
  <2>3. InsideIsTouching'
    <3>1. \A g \in Handles : wpc'[g] = wpc[g] \/ g = h
      BY <1>1, <2>1 DEF W!Call, W!Goto, waker
    <3>2. state' = [state EXCEPT ![h] = "swap"]
      BY <1>5 DEF BeginDisconnect, Disconnect, Become
    <3>. QED
      BY <1>1, <3>1, <3>2 DEF InsideIsTouching, InWaker, Touching
  <2>. QED
    BY <2>2, <2>3 DEF WakerInv
<1>6. ASSUME NEW h \in Handles, Proceed(h) PROVE WakerInv'
  <2>1. W!WakerTypeOK'
    BY <1>1, <1>6, StepType DEF Proceed
  <2>2. /\ wpc[h] # "idle" /\ UNCHANGED state
        /\ \A g \in Handles : g # h => wpc'[g] = wpc[g]
    BY <1>1, <1>6 DEF Proceed, vars, W!Step, W!Register, W!WkPop, W!PositiveUpdate, W!PushBack, W!Wake,
         W!Wait, W!WakeAll, W!Count, W!Notify, W!Push, W!Pop, W!At, W!Goto
  <2>3. InsideIsTouching'
    BY <1>1, <2>2 DEF InsideIsTouching, InWaker, Touching
  <2>. QED
    BY <2>1, <2>3 DEF WakerInv
<1>. QED
  BY <1>2, <1>3, <1>4, <1>5, <1>6 DEF ClientsNext, ClientFinish, Handle, EndDisconnect

LEMMA WakerInvariance == ClientsSpec => []WakerInv
<1>1. ClientsSpec => []TypeOK
  BY ClientsImplementCounter, CountsAreExact, PTL
<1>. QED
  BY <1>1, ClientsTypeInit, ClientsTypeNext, PTL DEF ClientsSpec

\* The counts stay exact, the waker keeps its shape, and a thread is inside the
\* waker only while its handle entitles it to touch the allocation.
THEOREM ClientsKeepTheirShape == ClientsSpec => []ClientsTypeOK
<1>1. TypeOK /\ WakerInv => ClientsTypeOK
  BY DEF WakerInv, InsideIsTouching, ClientsTypeOK
<1>2. ClientsSpec => []TypeOK
  BY ClientsImplementCounter, CountsAreExact, PTL
<1>. QED
  BY <1>1, <1>2, WakerInvariance, PTL

------------------------------------------------------------------------------
(***************************************************************************)
(* Registrations are conserved: counting where the tasks are.              *)
(***************************************************************************)
One(b)    == IF b THEN 1 ELSE 0
Places(t) == {i \in 1 .. Len(queue) : queue[i] = t}
Hands(t)  == {p \in Handles : held[p] = t}

LEMMA PlacesFinite ==
  ASSUME queue \in Seq(Handles), NEW t
  PROVE  IsFiniteSet(Places(t)) /\ Cardinality(Places(t)) \in Nat
<1>1. IsFiniteSet(1 .. Len(queue))
  BY FS_Interval
<1>2. Places(t) \in SUBSET (1 .. Len(queue))
  BY DEF Places
<1>3. IsFiniteSet(Places(t))
  BY <1>1, <1>2, FS_Subset
<1>. QED
  BY <1>3, FS_CardinalityType

LEMMA HandsFinite ==
  ASSUME NEW t
  PROVE  IsFiniteSet(Hands(t)) /\ Cardinality(Hands(t)) \in Nat
<1>1. IsFiniteSet(Handles)
  BY HandlesAssumption, FS_Union DEF Handles
<1>2. Hands(t) \in SUBSET Handles
  BY DEF Hands
<1>3. IsFiniteSet(Hands(t))
  BY <1>1, <1>2, FS_Subset
<1>. QED
  BY <1>3, FS_CardinalityType

\* A task pushed has one more place in the queue.
LEMMA AfterPush ==
  ASSUME queue \in Seq(Handles), NEW x \in Handles, queue' = Append(queue, x), NEW t
  PROVE  Cardinality(Places(t)') = Cardinality(Places(t)) + One(x = t)
<1> DEFINE n == Len(queue) + 1
<1>1. /\ Len(queue) \in Nat /\ Len(queue') = n /\ queue'[n] = x
      /\ \A i \in 1 .. Len(queue) : queue'[i] = queue[i]
  OBVIOUS
<1>2. n \notin Places(t)
  BY <1>1 DEF Places
<1>3. CASE x = t
  <2>1. Places(t)' = Places(t) \cup {n}
    BY <1>1, <1>3 DEF Places
  <2>. QED
    BY <1>2, <1>3, <2>1, PlacesFinite, FS_AddElement DEF One
<1>4. CASE x # t
  <2>1. Places(t)' = Places(t)
    BY <1>1, <1>4 DEF Places
  <2>. QED
    BY <1>4, <2>1, PlacesFinite DEF One
<1>. QED
  BY <1>3, <1>4

\* A task popped has one place less; the others move up.
LEMMA AfterPop ==
  ASSUME queue \in Seq(Handles), queue # << >>, queue' = Tail(queue), NEW t
  PROVE  Cardinality(Places(t)') = Cardinality(Places(t)) - One(Head(queue) = t)
<1> DEFINE R == Places(t) \ {1}
           T == Places(t)'
<1>1. /\ Len(queue) \in Nat \ {0} /\ Len(queue') = Len(queue) - 1
      /\ \A i \in 1 .. Len(queue) - 1 : queue'[i] = queue[i + 1]
      /\ Head(queue) = queue[1]
  OBVIOUS
<1>2. IsFiniteSet(R) /\ Cardinality(R) = Cardinality(Places(t)) - One(Head(queue) = t)
  <2>1. 1 \in Places(t) <=> Head(queue) = t
    BY <1>1 DEF Places
  <2>2. CASE Head(queue) = t
    <3> DEFINE C == Places(t)
    <3>1. IsFiniteSet(C) /\ Cardinality(C) \in Nat /\ 1 \in C
      BY <2>1, <2>2, PlacesFinite
    <3>2. R = C \ {1}
      OBVIOUS
    <3>3. IsFiniteSet(C \ {1}) /\ Cardinality(C \ {1}) = Cardinality(C) - 1
      <4> HIDE DEF C
      <4>. QED
        BY <3>1, FS_RemoveElement
    <3>. QED
      BY <2>2, <3>2, <3>3 DEF One
  <2>3. CASE Head(queue) # t
    <3>1. R = Places(t)
      BY <2>1, <2>3
    <3>2. One(Head(queue) = t) = 0
      BY <2>3 DEF One
    <3> HIDE DEF R
    <3>. QED
      BY <3>1, <3>2, PlacesFinite
  <2>. QED
    BY <2>2, <2>3
<1>3. Cardinality(T) = Cardinality(R)
  <2> DEFINE f == [i \in R |-> i - 1]
  <2>1. \A i \in R : i \in Int /\ i \in 2 .. Len(queue) /\ queue[i] = t
    BY <1>1 DEF Places
  <2>2. \A j \in T : j \in 1 .. Len(queue) - 1 /\ queue[j + 1] = t
    BY <1>1 DEF Places
  <2>3. \A i \in R : f[i] \in T
    <3>1. ASSUME NEW i \in R PROVE i - 1 \in T
      <4>1. i - 1 \in 1 .. Len(queue) - 1 /\ (i - 1) + 1 = i
        BY <1>1, <2>1
      <4>2. queue'[i - 1] = t
        BY <1>1, <2>1, <4>1
      <4>. QED
        BY <1>1, <4>1, <4>2 DEF Places
    <3>. QED
      BY <3>1
  <2>4. \A i, j \in R : f[i] = f[j] => i = j
    BY <2>1
  <2>5. \A j \in T : j + 1 \in R /\ f[j + 1] = j
    <3>1. ASSUME NEW j \in T PROVE j + 1 \in R /\ (j + 1) - 1 = j
      <4>1. j \in 1 .. Len(queue) - 1 /\ queue[j + 1] = t
        BY <2>2
      <4>. QED
        BY <1>1, <4>1 DEF Places
    <3>. QED
      BY <3>1
  <2>6. f \in Bijection(R, T)
    <3>1. f \in [R -> T]
      BY <2>3
    <3>2. f \in Injection(R, T)
      BY <2>4, <3>1 DEF Injection, IsInjective
    <3>3. f \in Surjection(R, T)
      BY <2>5, <3>1 DEF Surjection
    <3>. QED
      BY <3>2, <3>3 DEF Bijection
  <2>7. ExistsBijection(R, T)
    BY <2>6 DEF ExistsBijection
  <2> HIDE DEF R, T
  <2>. QED
    BY <1>2, <2>7, FS_Bijection
<1>. QED
  BY <1>2, <1>3

\* What thread p has in its hands changes, and nobody else's.
LEMMA AfterHold ==
  ASSUME NEW p \in Handles, NEW t, NEW x,
         \A q \in Handles : q # p => held'[q] = held[q], held'[p] = x
  PROVE  Cardinality(Hands(t)') = Cardinality(Hands(t)) - One(held[p] = t) + One(x = t)
<1> DEFINE R == Hands(t) \ {p}
<1>1. IsFiniteSet(Hands(t)) /\ Cardinality(Hands(t)) \in Nat
  BY HandsFinite
<1>2. IsFiniteSet(R) /\ Cardinality(R) = Cardinality(Hands(t)) - One(held[p] = t)
  <2>1. p \in Hands(t) <=> held[p] = t
    BY DEF Hands
  <2>2. CASE held[p] = t
    <3> DEFINE C == Hands(t)
    <3>1. IsFiniteSet(C) /\ Cardinality(C) \in Nat /\ p \in C
      BY <1>1, <2>1, <2>2
    <3>2. R = C \ {p}
      OBVIOUS
    <3>3. IsFiniteSet(C \ {p}) /\ Cardinality(C \ {p}) = Cardinality(C) - 1
      <4> HIDE DEF C
      <4>. QED
        BY <3>1, FS_RemoveElement
    <3>. QED
      BY <2>2, <3>2, <3>3 DEF One
  <2>3. CASE held[p] # t
    <3>1. R = Hands(t)
      BY <2>1, <2>3
    <3>2. One(held[p] = t) = 0
      BY <2>3 DEF One
    <3> HIDE DEF R
    <3>. QED
      BY <1>1, <3>1, <3>2
  <2>. QED
    BY <2>2, <2>3
<1>3. Cardinality(Hands(t)') = Cardinality(R) + One(x = t)
  <2>1. CASE x = t
    <3>1. Hands(t)' = R \cup {p} /\ p \notin R
      BY <2>1 DEF Hands
    <3> HIDE DEF R
    <3>. QED
      BY <1>2, <2>1, <3>1, FS_AddElement DEF One
  <2>2. CASE x # t
    <3>1. Hands(t)' = R
      BY <2>2 DEF Hands
    <3>2. Cardinality(R) \in Nat
      BY <1>2, FS_CardinalityType
    <3>. QED
      BY <2>2, <3>1, <3>2 DEF One
  <2>. QED
    BY <2>1, <2>2
<1>. QED
  BY <1>2, <1>3

\* What a step inside the waker does to the queue and to the hands of thread p,
\* and whether it registers or notifies.
Pushes(p, t) == queue' = Append(queue, t) /\ held' = [held EXCEPT ![p] = NoTask]
Takes(p, t)  == queue' = queue /\ held' = [held EXCEPT ![p] = t]
Pops(p)      == queue # << >> /\ queue' = Tail(queue) /\ held' = [held EXCEPT ![p] = Head(queue)]

Effect(p) ==
  LET registers == W!At(p, "register")
      notifies  == W!Notifying(p) /\ held'[p] = NoTask
  IN  \/ registers /\ ~notifies /\ held[p] = NoTask /\ (Pushes(p, p) \/ Takes(p, p))
      \/ ~registers /\ ~notifies /\ held[p] # NoTask /\ Pushes(p, held[p])
      \/ ~registers /\ ~notifies /\ held[p] = NoTask /\ Pops(p)
      \/ ~registers /\ notifies /\ held[p] # NoTask /\ Takes(p, NoTask)
      \/ ~registers /\ ~notifies /\ queue' = queue /\ held' = held

LEMMA StepEffect ==
  ASSUME W!WakerTypeOK, NEW p \in Handles, W!Step(p)
  PROVE  Effect(p)
<1>1. /\ held \in [Handles -> Handles \union {NoTask}]
      /\ W!Holding(p) <=> held[p] # NoTask
  BY WakerFacts
<1> USE DEF W!At, W!Goto, W!Hold, W!Holding, W!Notifying, Pushes, Takes, Pops
<1>2. CASE W!Register(p)
  BY <1>1, <1>2 DEF W!Register, W!Push, Effect
<1>3. CASE W!PushBack(p)
  <2>1. held[p] # NoTask /\ wpc[p] = "push_back"
    BY <1>1, <1>3 DEF W!PushBack
  <2>2. Pushes(p, held[p]) \/ (queue' = queue /\ held' = held)
    BY <1>1, <1>3 DEF W!PushBack, W!Push
  <2>. QED
    BY <2>1, <2>2 DEF Effect
<1>4. CASE W!WkPop(p) \/ W!Wake(p) \/ W!WakeAll(p)
  BY <1>1, <1>4 DEF W!WkPop, W!Wake, W!WakeAll, W!Pop, Effect
<1>5. CASE W!PositiveUpdate(p) \/ W!Wait(p) \/ W!Count(p)
  BY <1>1, <1>5 DEF W!PositiveUpdate, W!Wait, W!Count, Effect
<1>6. CASE W!Notify(p)
  BY <1>1, <1>6 DEF W!Notify, Effect
<1>. QED
  BY <1>2, <1>3, <1>4, <1>5, <1>6 DEF W!Step

Counters == asked \in [Handles -> Nat] /\ told \in [Handles -> Nat]

Balanced(t) == asked[t] = told[t] + Cardinality(Places(t)) + Cardinality(Hands(t))

\* Each step moves a registration from one place to the next, and the books of
\* every task t stay balanced.
LEMMA BalanceStep ==
  ASSUME W!WakerTypeOK, Counters, NEW p \in Handles, Proceed(p), NEW t \in Handles, Balanced(t)
  PROVE  Balanced(t)'
<1>1. /\ queue \in Seq(Handles) /\ NoTask \notin Handles
      /\ held \in [Handles -> Handles \union {NoTask}]
  BY WakerFacts
<1>2. /\ asked[t] \in Nat /\ told[t] \in Nat
      /\ Cardinality(Places(t)) \in Nat /\ Cardinality(Hands(t)) \in Nat
  BY <1>1, PlacesFinite, HandsFinite DEF Counters
<1>3. Effect(p)
  BY StepEffect DEF Proceed
<1> DEFINE registers == W!At(p, "register")
           notifies  == W!Notifying(p) /\ held'[p] = NoTask
<1>4. asked'[t] = asked[t] + One(registers /\ p = t)
  BY DEF Proceed, Counters, One
<1>5. told'[t] = told[t] + One(notifies /\ held[p] = t)
  BY <1>2 DEF Proceed, Counters, One
<1> DEFINE mine == One(p = t)
           its  == One(held[p] = t)
<1>6. ASSUME NEW x, x \in Handles \union {NoTask}, held' = [held EXCEPT ![p] = x]
      PROVE  /\ x = t => Cardinality(Hands(t)') = Cardinality(Hands(t)) - its + 1
             /\ x # t => Cardinality(Hands(t)') = Cardinality(Hands(t)) - its
  <2>1. held'[p] = x /\ \A q \in Handles : q # p => held'[q] = held[q]
    BY <1>1, <1>6
  <2>2. Cardinality(Hands(t)') = Cardinality(Hands(t)) - One(held[p] = t) + One(x = t)
    BY <2>1, AfterHold
  <2>3. its \in Int
    BY DEF One
  <2>4. (x = t => One(x = t) = 1) /\ (x # t => One(x = t) = 0)
    BY DEF One
  <2> HIDE DEF its
  <2>. QED
    BY <1>2, <2>2, <2>3, <2>4 DEF its
<1>7. /\ queue' = queue => Cardinality(Places(t)') = Cardinality(Places(t))
      /\ held' = held => Cardinality(Hands(t)') = Cardinality(Hands(t))
  BY DEF Places, Hands
<1>8. ASSUME NEW a \in Int, NEW b \in Int, NEW c \in Int, NEW d \in Int,
             asked'[t] = asked[t] + a, told'[t] = told[t] + b,
             Cardinality(Places(t)') = Cardinality(Places(t)) + c,
             Cardinality(Hands(t)') = Cardinality(Hands(t)) + d,
             a = b + c + d
      PROVE  Balanced(t)'
  BY <1>2, <1>8 DEF Balanced
<1>9. /\ NoTask # t
      /\ ~registers => asked'[t] = asked[t] + 0
      /\ ~notifies => told'[t] = told[t] + 0
  BY <1>1, <1>4, <1>5 DEF One
<1>10. mine \in Int /\ its \in Int /\ -its \in Int /\ held[p] \in Handles \union {NoTask}
  BY <1>1 DEF One
<1>11. held[p] = NoTask => its = 0
  BY <1>9 DEF One
<1>12. CASE registers /\ ~notifies /\ held[p] = NoTask /\ (Pushes(p, p) \/ Takes(p, p))
  <2>1. asked'[t] = asked[t] + mine
    BY <1>4, <1>12 DEF One
  <2>2. CASE Pushes(p, p)
    <3>1. Cardinality(Places(t)') = Cardinality(Places(t)) + mine
      BY <1>1, <2>2, AfterPush DEF Pushes
    <3>2. Cardinality(Hands(t)') = Cardinality(Hands(t)) + 0
      <4>1. held' = [held EXCEPT ![p] = NoTask]
        BY <2>2 DEF Pushes
      <4>2. its = 0
        BY <1>11, <1>12
      <4>3. Cardinality(Hands(t)') = Cardinality(Hands(t)) - its
        BY <1>6, <1>9, <4>1
      <4> HIDE DEF its
      <4>. QED
        BY <1>2, <4>2, <4>3
    <3> HIDE DEF mine
    <3>. QED
      BY <1>8, <1>9, <1>10, <1>12, <2>1, <3>1, <3>2
  <2>3. CASE Takes(p, p)
    <3>1. Cardinality(Places(t)') = Cardinality(Places(t)) + 0
      BY <1>2, <1>7, <2>3 DEF Takes
    <3>2. Cardinality(Hands(t)') = Cardinality(Hands(t)) + mine
      <4>1. held' = [held EXCEPT ![p] = p]
        BY <2>3 DEF Takes
      <4>2. (p = t => mine = 1) /\ (p # t => mine = 0)
        BY DEF One
      <4>3. its = 0
        BY <1>11, <1>12
      <4>4. \/ p = t /\ Cardinality(Hands(t)') = Cardinality(Hands(t)) - its + 1
            \/ p # t /\ Cardinality(Hands(t)') = Cardinality(Hands(t)) - its
        BY <1>6, <4>1
      <4> HIDE DEF mine, its
      <4>. QED
        BY <1>2, <4>2, <4>3, <4>4
    <3> HIDE DEF mine
    <3>. QED
      BY <1>2, <1>9, <1>10, <1>12, <2>1, <3>1, <3>2 DEF Balanced
  <2>. QED
    BY <1>12, <2>2, <2>3
<1>13. CASE ~registers /\ ~notifies /\ held[p] # NoTask /\ Pushes(p, held[p])
  <2>1. Cardinality(Places(t)') = Cardinality(Places(t)) + its
    BY <1>1, <1>10, <1>13, AfterPush DEF Pushes
  <2>2. Cardinality(Hands(t)') = Cardinality(Hands(t)) + -its
    <3>1. held' = [held EXCEPT ![p] = NoTask]
      BY <1>13 DEF Pushes
    <3> HIDE DEF its
    <3>. QED
      BY <1>2, <1>6, <1>9, <1>10, <3>1
  <2> HIDE DEF its
  <2>. QED
    BY <1>8, <1>9, <1>10, <1>13, <2>1, <2>2
<1>14. CASE ~registers /\ ~notifies /\ held[p] = NoTask /\ Pops(p)
  <2> DEFINE out == One(Head(queue) = t)
  <2>1. Cardinality(Places(t)') = Cardinality(Places(t)) + -out
    BY <1>1, <1>2, <1>14, AfterPop DEF Pops, One
  <2>2. Cardinality(Hands(t)') = Cardinality(Hands(t)) + out
    <3>1. Head(queue) \in Handles
      BY <1>1, <1>14 DEF Pops
    <3>. QED
      <4>1. held' = [held EXCEPT ![p] = Head(queue)]
        BY <1>14 DEF Pops
      <4>2. (Head(queue) = t => out = 1) /\ (Head(queue) # t => out = 0)
        BY DEF One
      <4>3. its = 0
        BY <1>11, <1>14
      <4>4. \/ Head(queue) = t /\ Cardinality(Hands(t)') = Cardinality(Hands(t)) - its + 1
            \/ Head(queue) # t /\ Cardinality(Hands(t)') = Cardinality(Hands(t)) - its
        BY <1>6, <3>1, <4>1
      <4> HIDE DEF out, its
      <4>. QED
        BY <1>2, <4>2, <4>3, <4>4
  <2>3. out \in Int /\ -out \in Int
    BY DEF One
  <2> HIDE DEF out
  <2>. QED
    BY <1>8, <1>9, <1>14, <2>1, <2>2, <2>3
<1>15. CASE ~registers /\ notifies /\ held[p] # NoTask /\ Takes(p, NoTask)
  <2>1. told'[t] = told[t] + its
    BY <1>5, <1>15 DEF One
  <2>2. Cardinality(Places(t)') = Cardinality(Places(t)) + 0
    BY <1>2, <1>7, <1>15 DEF Takes
  <2>3. Cardinality(Hands(t)') = Cardinality(Hands(t)) + -its
    <3>1. held' = [held EXCEPT ![p] = NoTask]
      BY <1>15 DEF Takes
    <3> HIDE DEF its
    <3>. QED
      BY <1>2, <1>6, <1>9, <1>10, <3>1
  <2> HIDE DEF its
  <2>. QED
    BY <1>8, <1>9, <1>10, <1>15, <2>1, <2>2, <2>3
<1>16. CASE ~registers /\ ~notifies /\ queue' = queue /\ held' = held
  <2>1. Cardinality(Places(t)') = Cardinality(Places(t)) + 0
    BY <1>2, <1>7, <1>16
  <2>2. Cardinality(Hands(t)') = Cardinality(Hands(t)) + 0
    BY <1>2, <1>7, <1>16
  <2>. QED
    BY <1>8, <1>9, <1>16, <2>1, <2>2
<1>. QED
  BY <1>3, <1>12, <1>13, <1>14, <1>15, <1>16 DEF Effect

BooksInv == Counters /\ \A t \in Handles : Balanced(t)

LEMMA BooksInit == ClientsInit => BooksInv
<1> SUFFICES ASSUME ClientsInit, NEW t \in Handles PROVE Counters /\ Balanced(t)
  BY DEF BooksInv, ClientsInit, Counters
<1>1. NoTask \notin Handles
  BY ClientsAssumption DEF W!WakerAssumption
<1>2. Places(t) = {} /\ Hands(t) = {}
  BY <1>1 DEF ClientsInit, W!WakerInit, Places, Hands
<1>. QED
  BY <1>2, FS_EmptySet DEF ClientsInit, Counters, Balanced

LEMMA BooksNext == WakerInv /\ BooksInv /\ [ClientsNext]_clientVars => BooksInv'
<1> SUFFICES ASSUME WakerInv, BooksInv, [ClientsNext]_clientVars PROVE BooksInv'
  OBVIOUS
<1>1. CASE UNCHANGED <<queue, held, asked, told>>
  BY <1>1 DEF BooksInv, Counters, Balanced, Places, Hands
<1>2. ASSUME NEW h \in Handles, Proceed(h) PROVE BooksInv'
  <2>1. Counters'
    <3>1. W!Notifying(h) => held[h] \in Handles
      BY WakerFacts DEF WakerInv, W!Holding
    <3>. QED
      BY <1>2, <3>1 DEF Proceed, BooksInv, Counters
  <2>2. \A t \in Handles : Balanced(t)'
    BY <1>2, BalanceStep DEF BooksInv, WakerInv
  <2>. QED
    BY <2>1, <2>2 DEF BooksInv
<1>3. ASSUME NEW h \in Handles, NEW op \in {"register", "wake"}, Invoke(h, op) PROVE BooksInv'
  BY <1>1, <1>3 DEF Invoke, W!Call
<1>4. ASSUME NEW h \in Handles, Handle(h) \/ BeginDisconnect(h) \/ EndDisconnect(h) PROVE BooksInv'
  BY <1>1, <1>4 DEF Handle, BeginDisconnect, EndDisconnect, W!Call, waker
<1>5. CASE UNCHANGED clientVars
  BY <1>1, <1>5 DEF clientVars, waker
<1>. QED
  BY <1>2, <1>3, <1>4, <1>5 DEF ClientsNext, ClientFinish

\* register, wake and wake_all of src/atomic_serial_waker.rs: with any number of
\* threads and any capacity, a registration is answered once, and until then it
\* is in the queue or in the hands of one thread.
THEOREM RegistrationsAreConserved == ClientsSpec => []RegistrationsConserved
<1>1. BooksInv => RegistrationsConserved
  BY DEF BooksInv, Balanced, Places, Hands, RegistrationsConserved, Occurrences
<1>. QED
  BY <1>1, WakerInvariance, BooksInit, BooksNext, PTL DEF ClientsSpec
==============================================================================
