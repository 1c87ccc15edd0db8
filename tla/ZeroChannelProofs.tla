------------------------- MODULE ZeroChannelProofs -------------------------
(***************************************************************************)
(* Proofs about the channel without capacity of src/zero.rs, for any       *)
(* threads, any number of calls and shutdown at any time: the inductive    *)
(* invariant, what follows from it, and that the channel implements        *)
(* Rendezvous.                                                             *)
(***************************************************************************)
EXTENDS ZeroChannel, SequenceTheorems, TLAPS

------------------------------------------------------------------------------
(***************************************************************************)
(* The inductive invariant.                                                *)
(***************************************************************************)
Distinct(s) == \A i, j \in 1 .. Len(s) : s[i] = s[j] => i = j
In(x, s)    == \E i \in 1 .. Len(s) : s[i] = x

\* p's entry is in the list of its side.
Listed(p) == In(p, entries[Side(p)])

\* p has put a packet on its stack, and nobody has selected its operation.
Pending(p)  == HasPacket(p) /\ select[p] # "operation"
Selectee(p) == HasPacket(p) /\ select[p] = "operation"

\* Lists hold entries of their side, each once.
ListsInv ==
  \A s \in Sides : Distinct(entries[s]) /\ \A i \in 1 .. Len(entries[s]) : Side(entries[s][i]) = s

\* Where a thread may be, by what its select cell says.
CellInv ==
  \A p \in Threads :
    /\ pc[p] = "wait_ready" => select[p] = "operation"
    /\ pc[p] \in {"lock_leave", "leave", "unlock_left", "take_back"} => select[p] = "disconnected"
    /\ HasPacket(p) /\ select[p] = "disconnected" => disconnected

\* A thread has an entry until it is selected, or takes it out itself.
EntryInv ==
  \A p \in Threads : Listed(p) <=> Pending(p) /\ pc[p] \notin {"unlock_left", "take_back"}

\* Until it is selected its packet holds what it put there.
PacketInv ==
  \A p \in Threads : Pending(p) =>
    /\ msg[p] = Item(p) /\ ~ready[p]
    /\ reply[p] = IF disconnected THEN Refused(p, "disconnected") ELSE Reply("waiting")

\* A thread that was selected finds in its packet what was decided.
SelecteeInv ==
  \A p \in Threads : Selectee(p) =>
    /\ reply[p].kind # "waiting"
    /\ p \in Senders => reply[p] = Reply("sent")
    /\ p \in Receivers /\ ready[p] => reply[p] = Received(msg[p]) /\ msg[p] # NoMsg

\* Nothing is open about a call that is over, or that has not met anybody.
SettledInv ==
  \A p \in Threads :
    /\ ~HasPacket(p) => reply[p].kind # "waiting"
    /\ \/ pc[p] \in {"idle", "unlock", "ready", "shut", "disconnect"}
       \/ pc[p] = "lock" /\ op[p] = "shut"
       => result[p] = reply[p]

\* Thread p uses the packet of q, which waits until p is done.
Serves(p, q) ==
  /\ pc[q] \in {"unlock_waiting", "wait", "wait_ready"}
  /\ select[q] = "operation" /\ ~ready[q]
  /\ p \in Senders <=> q \in Receivers
  /\ p \in Senders =>
       /\ reply[p] = Reply("sent") /\ reply[q] = Received(Item(p))
       /\ pc[p] = "ready" => msg[q] = Item(p)
  /\ p \in Receivers =>
       /\ reply[p] = Received(Item(q))
       /\ pc[p] # "ready" => msg[q] = Item(q)

PartnerInv ==
  /\ \A p \in Threads : UsesPacket(p) => Serves(p, partner[p])
  /\ \A p, q \in Threads : UsesPacket(p) /\ UsesPacket(q) /\ partner[p] = partner[q] => p = q

\* Under the lock, shutdown tells everybody who waits.
ShutInv ==
  /\ \A p \in Everyone : pc[p] = "disconnect" => disconnected
  /\ disconnected /\ (\A p \in Everyone : pc[p] # "disconnect") =>
       \A p \in Threads : HasPacket(p) => select[p] # "waiting"

ZeroInv ==
  /\ TypeOK /\ ListsInv /\ CellInv /\ EntryInv /\ PacketInv
  /\ SelecteeInv /\ SettledInv /\ PartnerInv /\ ShutInv

------------------------------------------------------------------------------
(***************************************************************************)
(* Types, and the steps by what they change.                               *)
(***************************************************************************)
LEMMA SideFacts ==
  /\ \A p \in Threads : /\ p \in Everyone
                        /\ Side(p) \in Sides /\ Opposite(p) \in Sides /\ Side(p) # Opposite(p)
                        /\ p \in Senders <=> p \notin Receivers
                        /\ Side(p) = "senders" <=> p \in Senders
                        /\ Opposite(p) = "senders" <=> p \in Receivers
  /\ \A p \in Receivers : p \in Threads
  /\ \A p \in Senders : p \in Threads
  /\ Nobody \notin Everyone
BY ZeroAssumption DEF Side, Opposite, Sides, Threads, Everyone

LEMMA ItemFacts ==
  ASSUME TypeOK, NEW p \in Threads
  PROVE  /\ Item(p) \in Message \union {NoMsg}
         /\ p \in Senders => Item(p) # NoMsg
         /\ p \in Receivers => Item(p) = NoMsg
BY ZeroAssumption, SideFacts DEF TypeOK, Item, Msg, Message, Threads

LEMMA AppendFacts ==
  ASSUME NEW T, NEW s \in Seq(T), NEW x \in T
  PROVE  /\ Append(s, x) \in Seq(T)
         /\ \A y : In(y, Append(s, x)) <=> In(y, s) \/ y = x
         /\ Distinct(s) /\ ~In(x, s) => Distinct(Append(s, x))
<1>1. /\ Len(Append(s, x)) = Len(s) + 1 /\ Len(s) \in Nat
      /\ \A i \in 1 .. Len(s) : Append(s, x)[i] = s[i]
      /\ Append(s, x)[Len(s) + 1] = x
  OBVIOUS
<1>2. \A y : In(y, Append(s, x)) <=> In(y, s) \/ y = x
  BY <1>1 DEF In
<1>3. Distinct(s) /\ ~In(x, s) => Distinct(Append(s, x))
  BY <1>1 DEF In, Distinct
<1>. QED
  BY <1>2, <1>3

LEMMA WithoutFacts ==
  ASSUME NEW T, NEW s \in Seq(T), NEW i \in 1 .. Len(s)
  PROVE  /\ Without(s, i) \in Seq(T)
         /\ Distinct(s) => /\ Distinct(Without(s, i))
                           /\ \A y : In(y, Without(s, i)) <=> In(y, s) /\ y # s[i]
<1> DEFINE w == Without(s, i)
<1>1. /\ w \in Seq(T) /\ Len(w) = Len(s) - 1 /\ Len(s) \in Nat
      /\ \A j \in 1 .. Len(w) : w[j] = IF j < i THEN s[j] ELSE s[j + 1]
  <2> DEFINE a == SubSeq(s, 1, i - 1)
             b == SubSeq(s, i + 1, Len(s))
  <2>1. Len(s) \in Nat /\ i \in 1 .. Len(s)
    OBVIOUS
  <2>2. a \in Seq(T) /\ Len(a) = i - 1 /\ \A j \in 1 .. i - 1 : a[j] = s[j]
    <3>1. \A j \in 1 .. i - 1 : s[j] \in T
      OBVIOUS
    <3>. QED
      BY <2>1, <3>1, SubSeqProperties
  <2>3. b \in Seq(T) /\ Len(b) = Len(s) - i /\ \A j \in 1 .. Len(s) - i : b[j] = s[i + j]
    <3>1. \A j \in i + 1 .. Len(s) : s[j] \in T
      OBVIOUS
    <3>. QED
      BY <2>1, <3>1, SubSeqProperties
  <2>4. w = a \o b
    BY DEF Without
  <2> HIDE DEF a, b, w
  <2>5. w \in Seq(T) /\ Len(w) = Len(s) - 1
    BY <2>1, <2>2, <2>3, <2>4
  <2>6. ASSUME NEW j \in 1 .. Len(w) PROVE w[j] = IF j < i THEN s[j] ELSE s[j + 1]
    <3>1. w[j] = IF j <= Len(a) THEN a[j] ELSE b[j - Len(a)]
      BY <2>2, <2>3, <2>4, <2>5, ConcatProperties
    <3>2. CASE j < i
      BY <2>1, <2>2, <2>5, <3>1, <3>2
    <3>3. CASE j >= i
      <4>1. j - Len(a) \in 1 .. Len(s) - i /\ i + (j - Len(a)) = j + 1
        BY <2>1, <2>2, <2>5, <3>3
      <4>2. b[j - Len(a)] = s[j + 1]
        BY <2>3, <4>1
      <4>. QED
        BY <2>1, <2>2, <2>5, <3>1, <3>3, <4>1, <4>2
    <3>. QED
      BY <2>1, <2>5, <3>2, <3>3
  <2>. QED
    BY <2>1, <2>5, <2>6
<1> HIDE DEF w
<1>2. ASSUME Distinct(s) PROVE Distinct(w)
  BY <1>1, <1>2 DEF Distinct
<1>3. ASSUME Distinct(s), NEW y PROVE In(y, w) <=> In(y, s) /\ y # s[i]
  <2>1. ASSUME NEW j \in 1 .. Len(w), w[j] = y PROVE In(y, s) /\ y # s[i]
    BY <1>1, <1>3, <2>1 DEF Distinct, In
  <2>2. ASSUME NEW j \in 1 .. Len(s), s[j] = y, y # s[i] PROVE In(y, w)
    <3>1. CASE j < i
      BY <1>1, <2>2, <3>1 DEF In
    <3>2. CASE j > i
      <4>1. j - 1 \in 1 .. Len(w) /\ w[j - 1] = y
        BY <1>1, <2>2, <3>2
      <4>. QED
        BY <4>1 DEF In
    <3>. QED
      BY <2>2, <3>1, <3>2
  <2>. QED
    BY <2>1, <2>2 DEF In
<1>. QED
  BY <1>1, <1>2, <1>3 DEF w

------------------------------------------------------------------------------
(***************************************************************************)
(* The invariant at the start, and in calls that begin or wait.            *)
(***************************************************************************)
LEMMA ZeroInit == Init => ZeroInv
<1> SUFFICES ASSUME Init PROVE ZeroInv
  OBVIOUS
<1> USE DEF Init
<1>1. \A p \in Threads : /\ p \in Everyone /\ pc[p] = "idle" /\ op[p] = "try"
                         /\ result[p] = reply[p] /\ reply[p] = Reply("none")
                         /\ ~HasPacket(p) /\ ~UsesPacket(p)
  BY SideFacts DEF HasPacket, UsesPacket
<1>2. \A p \in Everyone : ~Holds(p) /\ lock # p /\ pc[p] = "idle"
  BY SideFacts DEF Holds
<1>3. \A s \in Sides : entries[s] = << >> /\ entries[s] \in Seq(Threads)
  OBVIOUS
<1>4. TypeOK
  BY <1>1, <1>2, <1>3 DEF TypeOK, Labels, Reply, Meeting!ReplyKinds, Meeting!InProgress
<1>5. ListsInv
  BY <1>3 DEF ListsInv, Distinct
<1>6. EntryInv
  BY <1>1, <1>3, SideFacts DEF EntryInv, Listed, In, Pending
<1>7. CellInv /\ PacketInv /\ SelecteeInv /\ PartnerInv /\ ShutInv
  BY <1>1, <1>2 DEF CellInv, PacketInv, SelecteeInv, PartnerInv, ShutInv, Pending, Selectee
<1>8. SettledInv
  BY <1>1 DEF SettledInv, Reply
<1>. QED
  BY <1>4, <1>5, <1>6, <1>7, <1>8 DEF ZeroInv

LEMMA ZeroTypes ==
  ASSUME TypeOK
  PROVE  /\ disconnected \in BOOLEAN
         /\ entries \in [Sides -> Seq(Threads)]
         /\ select \in [Threads -> {"waiting", "operation", "disconnected"}]
         /\ msg \in [Threads -> Message \union {NoMsg}]
         /\ ready \in [Threads -> BOOLEAN]
         /\ pc \in [Everyone -> Labels]
         /\ op \in [Everyone -> {"try", "block", "shut"}]
         /\ item \in [Everyone -> Nat]
         /\ partner \in [Threads -> Threads]
         /\ result \in [Threads -> [kind : Meeting!ReplyKinds, msg : Message \union {NoMsg}]]
         /\ reply \in [Threads -> [kind : Meeting!ReplyKinds, msg : Message \union {NoMsg}]]
         /\ \A p \in Everyone : Holds(p) <=> lock = p
         /\ lock \in Everyone \union {Nobody}
BY DEF TypeOK

\* One thread moves to another label; the lock is its own, or is left alone.
LEMMA LockKept ==
  ASSUME TypeOK, NEW p \in Everyone, NEW l \in Labels,
         pc' = [pc EXCEPT ![p] = l], UNCHANGED lock,
         Holds(p)' <=> Holds(p)
  PROVE  /\ \A q \in Everyone : Holds(q)' <=> lock' = q
         /\ lock' \in Everyone \union {Nobody}
         /\ pc' \in [Everyone -> Labels]
<1>1. \A q \in Everyone : q # p => pc'[q] = pc[q]
  BY ZeroTypes
<1>2. \A q \in Everyone : Holds(q)' <=> Holds(q)
  BY <1>1 DEF Holds
<1>. QED
  BY <1>2, ZeroTypes

ReplyTypes == [kind : Meeting!ReplyKinds, msg : Message \union {NoMsg}]

LEMMA ReplyFacts ==
  ASSUME TypeOK, NEW p \in Threads
  PROVE  /\ \A k \in Meeting!ReplyKinds : Reply(k) \in ReplyTypes /\ Refused(p, k) \in ReplyTypes
         /\ \A m \in Message \union {NoMsg} : Received(m) \in ReplyTypes
         /\ \A k \in {"none", "try", "block", "waiting", "sent", "received", "nobody", "disconnected"} :
              k \in Meeting!ReplyKinds
<1>1. \A k \in {"none", "try", "block", "waiting", "sent", "received", "nobody", "disconnected"} :
              k \in Meeting!ReplyKinds
  BY DEF Meeting!ReplyKinds, Meeting!InProgress
<1>. QED
  BY <1>1, ItemFacts DEF ReplyTypes, Reply, Refused, Received

LEMMA BeginStep ==
  ASSUME ZeroInv, NEW p \in Everyone, NEW k \in {"try", "block", "shut"}, NEW n \in Nat,
         Begin(p, k, n), k # "shut" => p \in Threads
  PROVE  ZeroInv'
<1>1. TypeOK
  BY DEF ZeroInv
<1>2. /\ pc[p] = "idle" /\ pc'[p] = "lock" /\ \A q \in Everyone : q # p => pc'[q] = pc[q]
      /\ op'[p] = k /\ \A q \in Everyone : q # p => op'[q] = op[q]
      /\ \A q \in Everyone : q # p => item'[q] = item[q]
      /\ pc' = [pc EXCEPT ![p] = "lock"]
      /\ UNCHANGED <<lock, disconnected, data, partner>>
  BY <1>1, ZeroTypes DEF Begin, Goto
<1>3. /\ \A q \in Threads : q # p => result'[q] = result[q] /\ reply'[q] = reply[q]
      /\ k = "shut" => reply' = reply /\ result' = result
      /\ k # "shut" => reply'[p] = Reply(k)
  BY <1>1, ZeroTypes DEF Begin, Answer, Return
<1>4. TypeOK'
  <2>1. result' \in [Threads -> ReplyTypes] /\ reply' \in [Threads -> ReplyTypes]
    <3>1. CASE k = "shut"
      BY <1>1, <1>3, <3>1, ZeroTypes DEF ReplyTypes
    <3>2. CASE k # "shut"
      <4>1. p \in Threads /\ Reply("none") \in ReplyTypes /\ Reply(k) \in ReplyTypes
        BY <1>1, <3>2, ReplyFacts
      <4>2. /\ result \in [Threads -> ReplyTypes] /\ reply \in [Threads -> ReplyTypes]
            /\ result' = [result EXCEPT ![p] = Reply("none")]
            /\ reply' = [reply EXCEPT ![p] = Reply(k)]
        BY <1>1, <3>2, ZeroTypes DEF ReplyTypes, Begin, Return, Answer
      <4>. QED
        BY <4>1, <4>2
    <3>. QED
      BY <3>1, <3>2
  <2>2. op' \in [Everyone -> {"try", "block", "shut"}] /\ item' \in [Everyone -> Nat]
    BY <1>1, ZeroTypes DEF Begin
  <2>3. "lock" \in Labels /\ (Holds(p)' <=> Holds(p))
    BY <1>2 DEF Labels, Holds
  <2>4. /\ \A q \in Everyone : Holds(q)' <=> lock' = q
        /\ lock' \in Everyone \union {Nobody} /\ pc' \in [Everyone -> Labels]
    BY <1>1, <1>2, <2>3, LockKept
  <2>. QED
    BY <1>1, <1>2, <2>1, <2>2, <2>4 DEF TypeOK, data, ReplyTypes
<1>5. \A q \in Threads : /\ HasPacket(q)' <=> HasPacket(q)
                         /\ UsesPacket(q)' <=> UsesPacket(q)
                         /\ HasPacket(q) \/ UsesPacket(q) => q # p
  BY <1>2, SideFacts DEF HasPacket, UsesPacket
<1>6. \A q \in Threads : /\ Pending(q)' <=> Pending(q)
                         /\ Selectee(q)' <=> Selectee(q)
                         /\ q # p => Item(q)' = Item(q)
  BY <1>2, <1>5, SideFacts DEF Pending, Selectee, data, Item
<1>7. ListsInv' /\ CellInv'
  BY <1>2, <1>5, SideFacts DEF ZeroInv, ListsInv, CellInv, data, Side, Distinct
<1>8. EntryInv'
  BY <1>2, <1>6, SideFacts DEF ZeroInv, EntryInv, data, Listed, Side, In, Pending, HasPacket
<1>9. PacketInv'
  BY <1>2, <1>3, <1>5, <1>6 DEF ZeroInv, PacketInv, data, Pending, Refused
<1>10. SelecteeInv'
  BY <1>2, <1>3, <1>5, <1>6 DEF ZeroInv, SelecteeInv, data, Selectee
<1>11. SettledInv'
  BY <1>2, <1>3, <1>5, SideFacts DEF ZeroInv, SettledInv, Reply
<1>12. PartnerInv'
  <2>1. ASSUME NEW q \in Threads, UsesPacket(q)' PROVE Serves(q, partner[q])'
    BY <1>1, <1>2, <1>3, <1>5, <1>6, <2>1, ZeroTypes, SideFacts DEF ZeroInv, PartnerInv, Serves, data
  <2>. QED
    BY <1>2, <1>5, <2>1 DEF ZeroInv, PartnerInv
<1>13. ShutInv'
  BY <1>2, <1>5, SideFacts DEF ZeroInv, ShutInv, data
<1>. QED
  BY <1>4, <1>7, <1>8, <1>9, <1>10, <1>11, <1>12, <1>13 DEF ZeroInv

\* One thread moves on, and takes or gives back the lock; nothing else changes.
LEMMA MoveOn ==
  ASSUME ZeroInv, NEW p \in Everyone, NEW l \in Labels,
         pc' = [pc EXCEPT ![p] = l],
         UNCHANGED <<disconnected, data, op, item, partner, result, reply>>,
         \A q \in Everyone : Holds(q)' <=> lock' = q, lock' \in Everyone \union {Nobody},
         HasPacket(p)' <=> HasPacket(p), UsesPacket(p)' <=> UsesPacket(p),
         p \in Threads =>
           /\ l \in {"wait_ready"} => select[p] = "operation"
           /\ l \in {"lock_leave", "leave", "unlock_left", "take_back"} => select[p] = "disconnected"
           /\ l = "wait" => pc[p] = "unlock_waiting"
           /\ l \in {"unlock_left", "take_back"} <=> pc[p] \in {"unlock_left", "take_back"}
           /\ l = "ready" <=> pc[p] = "ready"
           /\ \/ l \in {"idle", "unlock", "ready", "shut", "disconnect"}
              \/ l = "lock" /\ op[p] = "shut"
              => result[p] = reply[p],
         pc[p] # "disconnect", l # "disconnect"
  PROVE  ZeroInv'
<1>1. TypeOK
  BY DEF ZeroInv
<1>2. /\ pc'[p] = l /\ \A q \in Everyone : q # p => pc'[q] = pc[q]
      /\ pc' \in [Everyone -> Labels]
  BY <1>1, ZeroTypes
<1>3. TypeOK'
  BY <1>1, <1>2 DEF TypeOK, data
<1>4. \A q \in Threads : /\ HasPacket(q)' <=> HasPacket(q)
                         /\ UsesPacket(q)' <=> UsesPacket(q)
                         /\ Item(q)' = Item(q)
  <2>1. ASSUME NEW q \in Threads
        PROVE  (HasPacket(q)' <=> HasPacket(q)) /\ (UsesPacket(q)' <=> UsesPacket(q))
    BY <1>2, SideFacts DEF HasPacket, UsesPacket
  <2>. QED
    BY <2>1 DEF Item
<1>5. \A q \in Threads : (Pending(q)' <=> Pending(q)) /\ (Selectee(q)' <=> Selectee(q))
  BY <1>4 DEF Pending, Selectee, data
<1>6. ListsInv'
  BY DEF ZeroInv, ListsInv, data, Side, Distinct
<1>7. CellInv'
  BY <1>2, <1>4, SideFacts DEF ZeroInv, CellInv, data
<1>8. EntryInv'
  BY <1>2, <1>5, SideFacts DEF ZeroInv, EntryInv, data, Listed, Side, In
<1>9. PacketInv' /\ SelecteeInv'
  BY <1>4, <1>5 DEF ZeroInv, PacketInv, SelecteeInv, data, Refused
<1>10. SettledInv'
  BY <1>2, <1>4, SideFacts DEF ZeroInv, SettledInv
<1>11. PartnerInv'
  <2>1. ASSUME NEW q \in Threads, UsesPacket(q)' PROVE Serves(q, partner[q])'
    <3>1. UsesPacket(q) /\ Serves(q, partner[q]) /\ partner[q] \in Threads
      BY <1>1, <1>4, <2>1, ZeroTypes DEF ZeroInv, PartnerInv
    <3>2. pc'[partner[q]] \in {"unlock_waiting", "wait", "wait_ready"}
      <4>1. pc[partner[q]] \in {"unlock_waiting", "wait", "wait_ready"} /\ select[partner[q]] = "operation"
        BY <3>1 DEF Serves
      <4>2. HasPacket(partner[q])'
        BY <1>4, <3>1, <4>1 DEF HasPacket
      <4>. QED
        BY <1>2, <3>1, <4>1, <4>2, SideFacts DEF HasPacket
    <3>3. pc'[q] = "ready" <=> pc[q] = "ready"
      BY <1>2, SideFacts
    <3>. QED
      BY <1>4, <3>1, <3>2, <3>3 DEF Serves, data
  <2>. QED
    BY <1>4, <2>1 DEF ZeroInv, PartnerInv
<1>12. ShutInv'
  BY <1>2, <1>4, SideFacts DEF ZeroInv, ShutInv, data
<1>. QED
  BY <1>3, <1>6, <1>7, <1>8, <1>9, <1>10, <1>11, <1>12 DEF ZeroInv

LEMMA LockStep ==
  ASSUME ZeroInv, NEW p \in Everyone, Lock(p)
  PROVE  ZeroInv'
<1>1. /\ TypeOK /\ pc \in [Everyone -> Labels] /\ p # Nobody
      /\ \A q \in Everyone : ~Holds(q)
  BY ZeroTypes, SideFacts DEF ZeroInv, Lock
<1>2. PICK l \in {"shut", "meet", "leave"} :
        /\ pc' = [pc EXCEPT ![p] = l]
        /\ \/ pc[p] = "lock" /\ l = IF op[p] = "shut" THEN "shut" ELSE "meet"
           \/ pc[p] = "lock_leave" /\ l = "leave"
  BY DEF Lock, Goto
<1>3. lock' = p /\ UNCHANGED <<disconnected, data, op, item, partner, result, reply>>
  BY DEF Lock
<1>4. l \in Labels
  BY DEF Labels
<1>5. \A q \in Everyone : Holds(q)' <=> lock' = q
  BY <1>1, <1>2, <1>3 DEF Holds
<1>6. (HasPacket(p)' <=> HasPacket(p)) /\ (UsesPacket(p)' <=> UsesPacket(p))
  BY <1>1, <1>2 DEF HasPacket, UsesPacket
<1>7. p \in Threads =>
        /\ l \in {"lock_leave", "leave", "unlock_left", "take_back"} => select[p] = "disconnected"
        /\ l = "shut" => result[p] = reply[p]
  BY <1>2 DEF ZeroInv, CellInv, SettledInv
<1>. QED
  BY <1>2, <1>3, <1>4, <1>5, <1>6, <1>7, MoveOn

LEMMA SelectedStep ==
  ASSUME ZeroInv, NEW p \in Threads, Selected(p)
  PROVE  ZeroInv'
<1>1. /\ TypeOK /\ pc \in [Everyone -> Labels] /\ p \in Everyone
      /\ select[p] \in {"operation", "disconnected"}
  BY ZeroTypes, SideFacts DEF ZeroInv, Selected
<1>2. PICK l \in {"wait_ready", "lock_leave"} :
        /\ pc' = [pc EXCEPT ![p] = l] /\ pc[p] = "wait"
        /\ l = "wait_ready" => select[p] = "operation"
        /\ l = "lock_leave" => select[p] = "disconnected"
  BY <1>1 DEF Selected, Goto
<1>3. UNCHANGED <<lock, disconnected, data, op, item, partner, result, reply>>
  BY DEF Selected
<1>4. l \in Labels
  BY DEF Labels
<1>5. /\ HasPacket(p)' <=> HasPacket(p)
      /\ UsesPacket(p)' <=> UsesPacket(p)
      /\ Holds(p)' <=> Holds(p)
  BY <1>1, <1>2 DEF HasPacket, UsesPacket, Holds
<1>6. (\A q \in Everyone : Holds(q)' <=> lock' = q) /\ lock' \in Everyone \union {Nobody}
  BY <1>1, <1>2, <1>3, <1>4, <1>5, LockKept
<1>. QED
  BY <1>1, <1>2, <1>3, <1>4, <1>5, <1>6, MoveOn

LEMMA UnlockStep ==
  ASSUME ZeroInv, NEW p \in Everyone, Unlock(p)
  PROVE  ZeroInv'
<1>1. TypeOK /\ pc \in [Everyone -> Labels] /\ (\A q \in Everyone : Holds(q) <=> lock = q)
  BY ZeroTypes DEF ZeroInv
<1>2. PICK l \in {"transfer", "wait", "take_back", "idle"} :
        /\ pc' = [pc EXCEPT ![p] = l]
        /\ \/ pc[p] = "unlock_met" /\ l = "transfer"
           \/ pc[p] = "unlock_waiting" /\ l = "wait"
           \/ pc[p] = "unlock_left" /\ l = "take_back"
           \/ pc[p] = "unlock" /\ l = "idle"
  BY DEF Unlock, Goto
<1>3. lock' = Nobody /\ UNCHANGED <<disconnected, data, op, item, partner, result, reply>>
  BY DEF Unlock
<1>4. l \in Labels
  BY DEF Labels
<1>5. lock = p
  BY <1>1, <1>2 DEF Holds
<1>6. \A q \in Everyone : Holds(q)' <=> lock' = q
  BY <1>1, <1>2, <1>3, <1>5, SideFacts DEF Holds
<1>7. (HasPacket(p)' <=> HasPacket(p)) /\ (UsesPacket(p)' <=> UsesPacket(p))
  BY <1>1, <1>2 DEF HasPacket, UsesPacket
<1>8. p \in Threads =>
        /\ l = "take_back" => select[p] = "disconnected"
        /\ l = "idle" => result[p] = reply[p]
  BY <1>2 DEF ZeroInv, CellInv, SettledInv
<1>. QED
  BY <1>2, <1>3, <1>4, <1>6, <1>7, <1>8, MoveOn

\* The call of a thread that nobody knows of yet is over.
LEMMA TurnedAwayStep ==
  ASSUME ZeroInv, NEW p \in Threads, GiveUp(p) \/ TooLate(p)
  PROVE  ZeroInv'
<1>1. TypeOK /\ p \in Everyone
  BY SideFacts DEF ZeroInv
<1>2. PICK k \in {"nobody", "disconnected"} :
        reply' = [reply EXCEPT ![p] = Refused(p, k)] /\ result' = [result EXCEPT ![p] = Refused(p, k)]
  BY DEF GiveUp, TooLate, Answer, Return
<1>3. /\ pc[p] = "meet" /\ pc' = [pc EXCEPT ![p] = "unlock"]
      /\ UNCHANGED <<lock, disconnected, data, op, item, partner>>
  BY DEF GiveUp, TooLate, Goto
<1>4. /\ pc'[p] = "unlock" /\ \A q \in Everyone : q # p => pc'[q] = pc[q]
      /\ reply'[p] = Refused(p, k) /\ result'[p] = Refused(p, k)
      /\ \A q \in Threads : q # p => reply'[q] = reply[q] /\ result'[q] = result[q]
  BY <1>1, <1>2, <1>3, ZeroTypes
<1>5. TypeOK'
  <2>1. Refused(p, k) \in ReplyTypes
    BY <1>1, ReplyFacts
  <2>2. result' \in [Threads -> ReplyTypes] /\ reply' \in [Threads -> ReplyTypes]
    BY <1>1, <1>2, <2>1, ZeroTypes DEF ReplyTypes
  <2>3. "unlock" \in Labels /\ (Holds(p)' <=> Holds(p))
    BY <1>3, <1>4 DEF Labels, Holds
  <2>4. /\ \A q \in Everyone : Holds(q)' <=> lock' = q
        /\ lock' \in Everyone \union {Nobody} /\ pc' \in [Everyone -> Labels]
    BY <1>1, <1>3, <2>3, LockKept
  <2>. QED
    BY <1>1, <1>3, <2>2, <2>4 DEF TypeOK, data, ReplyTypes
<1>6. \A q \in Threads : /\ HasPacket(q)' <=> HasPacket(q)
                         /\ UsesPacket(q)' <=> UsesPacket(q)
                         /\ HasPacket(q) \/ UsesPacket(q) => q # p
  BY <1>3, <1>4, SideFacts DEF HasPacket, UsesPacket
<1>7. \A q \in Threads : /\ Pending(q)' <=> Pending(q)
                         /\ Selectee(q)' <=> Selectee(q)
                         /\ Item(q)' = Item(q)
  BY <1>3, <1>6 DEF Pending, Selectee, data, Item
<1>8. ListsInv' /\ CellInv'
  BY <1>3, <1>4, <1>6, SideFacts DEF ZeroInv, ListsInv, CellInv, data, Side, Distinct
<1>9. EntryInv'
  BY <1>3, <1>4, <1>7, SideFacts DEF ZeroInv, EntryInv, data, Listed, Side, In, Pending, HasPacket
<1>10. PacketInv' /\ SelecteeInv'
  BY <1>3, <1>4, <1>6, <1>7 DEF ZeroInv, PacketInv, SelecteeInv, data, Pending, Selectee, Refused
<1>11. SettledInv'
  BY <1>3, <1>4, <1>6, SideFacts DEF ZeroInv, SettledInv, Refused
<1>12. PartnerInv'
  <2>1. ASSUME NEW q \in Threads, UsesPacket(q)' PROVE Serves(q, partner[q])'
    BY <1>1, <1>3, <1>4, <1>6, <1>7, <2>1, ZeroTypes, SideFacts DEF ZeroInv, PartnerInv, Serves, data
  <2>. QED
    BY <1>3, <1>6, <2>1 DEF ZeroInv, PartnerInv
<1>13. ShutInv'
  BY <1>3, <1>4, <1>6, SideFacts DEF ZeroInv, ShutInv, data
<1>. QED
  BY <1>5, <1>8, <1>9, <1>10, <1>11, <1>12, <1>13 DEF ZeroInv

\* A thread returns and its packet goes: nobody uses it any more.
LEMMA ReturnStep ==
  ASSUME ZeroInv, NEW p \in Threads, WaitReady(p) \/ TakeBack(p)
  PROVE  ZeroInv'
<1>1. TypeOK /\ p \in Everyone
  BY SideFacts DEF ZeroInv
<1>2. /\ HasPacket(p) /\ ~Holds(p) /\ pc' = [pc EXCEPT ![p] = "idle"] /\ ~Listed(p)
      /\ pc[p] \in {"wait_ready", "take_back"} /\ (ready[p] \/ select[p] # "operation")
      /\ UNCHANGED <<lock, disconnected, data, op, item, partner, reply>>
  BY DEF WaitReady, TakeBack, Goto, HasPacket, Holds, ZeroInv, EntryInv, CellInv, Pending
<1>3. result' = [result EXCEPT ![p] = reply[p]]
  <2>1. CASE WaitReady(p)
    <3>1. Selectee(p) /\ ready[p]
      BY <2>1 DEF WaitReady, Goto, ZeroInv, CellInv, Selectee, HasPacket
    <3>2. reply[p] = IF p \in Senders THEN Reply("sent") ELSE Received(msg[p])
      BY <3>1, SideFacts DEF ZeroInv, SelecteeInv
    <3>. QED
      BY <2>1, <3>2 DEF WaitReady, Return
  <2>2. CASE TakeBack(p)
    <3>1. Pending(p) /\ disconnected
      BY <2>2 DEF TakeBack, Goto, ZeroInv, CellInv, Pending, HasPacket
    <3>2. reply[p] = [kind |-> "disconnected", msg |-> msg[p]]
      BY <3>1 DEF ZeroInv, PacketInv, Refused
    <3>. QED
      BY <2>2, <3>2 DEF TakeBack, Return
  <2>. QED
    BY <2>1, <2>2
<1>4. /\ pc'[p] = "idle" /\ \A q \in Everyone : q # p => pc'[q] = pc[q]
      /\ result'[p] = reply[p] /\ \A q \in Threads : q # p => result'[q] = result[q]
  BY <1>1, <1>2, <1>3, ZeroTypes
<1>5. TypeOK'
  <2>1. result' \in [Threads -> ReplyTypes]
    BY <1>1, <1>3, ZeroTypes DEF ReplyTypes
  <2>2. "idle" \in Labels /\ (Holds(p)' <=> Holds(p))
    BY <1>2, <1>4 DEF Labels, Holds
  <2>3. /\ \A q \in Everyone : Holds(q)' <=> lock' = q
        /\ lock' \in Everyone \union {Nobody} /\ pc' \in [Everyone -> Labels]
    BY <1>1, <1>2, <2>2, LockKept
  <2>. QED
    BY <1>1, <1>2, <2>1, <2>3 DEF TypeOK, data, ReplyTypes
<1>6. \A q \in Threads : /\ HasPacket(q)' <=> HasPacket(q) /\ q # p
                         /\ UsesPacket(q)' <=> UsesPacket(q)
                         /\ UsesPacket(q) => q # p /\ partner[q] # p
  <2>1. ~UsesPacket(p) /\ ~HasPacket(p)'
    BY <1>2, <1>4 DEF UsesPacket, HasPacket
  <2>2. \A q \in Threads : UsesPacket(q) => partner[q] # p
    BY <1>2 DEF ZeroInv, PartnerInv, Serves
  <2>. QED
    BY <1>4, <2>1, <2>2, SideFacts DEF HasPacket, UsesPacket
<1>7. \A q \in Threads : /\ Pending(q)' <=> Pending(q) /\ q # p
                         /\ Selectee(q)' <=> Selectee(q) /\ q # p
                         /\ Item(q)' = Item(q)
  BY <1>2, <1>6 DEF Pending, Selectee, data, Item
<1>8. ListsInv' /\ CellInv'
  BY <1>2, <1>4, <1>6, SideFacts DEF ZeroInv, ListsInv, CellInv, data, Side, Distinct
<1>9. EntryInv'
  <2>1. \A q \in Threads : Listed(q)' <=> Listed(q)
    BY <1>2 DEF data, Listed, Side, In
  <2>. QED
    BY <1>2, <1>4, <1>7, <2>1, SideFacts DEF ZeroInv, EntryInv
<1>10. PacketInv' /\ SelecteeInv'
  BY <1>2, <1>7 DEF ZeroInv, PacketInv, SelecteeInv, data, Refused
<1>11. SettledInv'
  <2>1. reply[p].kind # "waiting"
    <3>1. CASE Selectee(p)
      BY <3>1 DEF ZeroInv, SelecteeInv
    <3>2. CASE ~Selectee(p)
      <4>1. Pending(p) /\ select[p] = "disconnected"
        BY <1>2, <3>2 DEF ZeroInv, CellInv, Pending, Selectee
      <4>2. disconnected
        BY <1>2, <4>1 DEF ZeroInv, CellInv
      <4>. QED
        <5>1. reply[p] = Refused(p, "disconnected")
          BY <4>1, <4>2 DEF ZeroInv, PacketInv
        <5>. QED
          BY <5>1 DEF Refused
    <3>. QED
      BY <3>1, <3>2
  <2>. QED
    BY <1>2, <1>4, <1>6, <2>1, SideFacts DEF ZeroInv, SettledInv
<1>12. PartnerInv'
  <2>1. ASSUME NEW q \in Threads, UsesPacket(q)' PROVE Serves(q, partner[q])'
    BY <1>1, <1>2, <1>4, <1>6, <1>7, <2>1, ZeroTypes, SideFacts DEF ZeroInv, PartnerInv, Serves, data
  <2>. QED
    BY <1>2, <1>6, <2>1 DEF ZeroInv, PartnerInv
<1>13. ShutInv'
  BY <1>2, <1>4, <1>6, SideFacts DEF ZeroInv, ShutInv, data
<1>. QED
  BY <1>5, <1>8, <1>9, <1>10, <1>11, <1>12, <1>13 DEF ZeroInv

\* The packet of the partner is filled or emptied, and nobody else looks at it.
LEMMA TransferStep ==
  ASSUME ZeroInv, NEW p \in Threads, Transfer(p)
  PROVE  ZeroInv'
<1> DEFINE q == partner[p]
<1>1. TypeOK /\ p \in Everyone /\ q \in Threads
  BY SideFacts, ZeroTypes DEF ZeroInv
<1>2. /\ pc[p] = "transfer" /\ pc' = [pc EXCEPT ![p] = "ready"]
      /\ UNCHANGED <<lock, disconnected, entries, select, ready, op, item, partner, reply>>
      /\ msg' = [msg EXCEPT ![q] = IF p \in Senders THEN Item(p) ELSE NoMsg]
      /\ result' = [result EXCEPT ![p] = IF p \in Senders THEN Reply("sent") ELSE Received(msg[q])]
  BY DEF Transfer, Goto, Return
<1>3. UsesPacket(p) /\ Serves(p, q)
  BY <1>1, <1>2 DEF UsesPacket, ZeroInv, PartnerInv
<1>4. /\ pc'[p] = "ready" /\ \A x \in Everyone : x # p => pc'[x] = pc[x]
      /\ p \in Senders => msg'[q] = Item(p)
      /\ \A x \in Threads : x # q => msg'[x] = msg[x]
      /\ \A x \in Threads : x # p => result'[x] = result[x]
  BY <1>1, <1>2, ZeroTypes
<1>5. result'[p] = reply[p]
  <2>1. CASE p \in Senders
    BY <1>1, <1>2, <1>3, <2>1, ZeroTypes DEF Serves
  <2>2. CASE p \notin Senders
    <3>1. reply[p] = Received(Item(q)) /\ msg[q] = Item(q)
      BY <1>2, <1>3, <2>2, SideFacts DEF Serves
    <3>. QED
      BY <1>1, <1>2, <2>2, <3>1, ZeroTypes
  <2>. QED
    BY <2>1, <2>2
<1>6. TypeOK'
  <2>1. result' \in [Threads -> ReplyTypes]
    <3>1. result' = [result EXCEPT ![p] = result'[p]]
      BY <1>1, <1>2, ZeroTypes
    <3>. QED
      BY <1>1, <1>5, <3>1, ZeroTypes DEF ReplyTypes
  <2>2. msg' \in [Threads -> Message \union {NoMsg}]
    BY <1>1, <1>2, ZeroTypes, ItemFacts
  <2>3. "ready" \in Labels /\ (Holds(p)' <=> Holds(p))
    BY <1>2, <1>4 DEF Labels, Holds
  <2>4. /\ \A x \in Everyone : Holds(x)' <=> lock' = x
        /\ lock' \in Everyone \union {Nobody} /\ pc' \in [Everyone -> Labels]
    BY <1>1, <1>2, <2>3, LockKept
  <2>. QED
    BY <1>1, <1>2, <2>1, <2>2, <2>4 DEF TypeOK, ReplyTypes
<1>7. \A x \in Threads : /\ HasPacket(x)' <=> HasPacket(x)
                         /\ UsesPacket(x)' <=> UsesPacket(x)
                         /\ HasPacket(x) => x # p
                         /\ UsesPacket(x) /\ x # p => partner[x] # q
  <2>1. \A x \in Threads : UsesPacket(x) /\ x # p => partner[x] # q
    BY <1>3 DEF ZeroInv, PartnerInv
  <2>. QED
    BY <1>2, <1>4, <2>1, SideFacts DEF HasPacket, UsesPacket
<1>8. \A x \in Threads : /\ Pending(x)' <=> Pending(x)
                         /\ Pending(x) => x # q
                         /\ Selectee(x)' <=> Selectee(x)
                         /\ Item(x)' = Item(x)
  BY <1>2, <1>3, <1>7 DEF Pending, Selectee, Item, Serves
<1>9. ListsInv' /\ CellInv'
  BY <1>2, <1>4, <1>7, SideFacts DEF ZeroInv, ListsInv, CellInv, Side, Distinct
<1>10. EntryInv'
  <2>1. \A x \in Threads : Listed(x)' <=> Listed(x)
    BY <1>2 DEF Listed, Side, In
  <2>. QED
    BY <1>2, <1>4, <1>8, <2>1, SideFacts DEF ZeroInv, EntryInv, Pending, HasPacket
<1>11. PacketInv'
  BY <1>2, <1>4, <1>8 DEF ZeroInv, PacketInv, Refused
<1>12. SelecteeInv'
  BY <1>2, <1>3, <1>4, <1>8 DEF ZeroInv, SelecteeInv, Serves
<1>13. SettledInv'
  BY <1>2, <1>4, <1>5, <1>7, SideFacts DEF ZeroInv, SettledInv
<1>14. PartnerInv'
  <2>1. ASSUME NEW x \in Threads, UsesPacket(x)', x # p PROVE Serves(x, partner[x])'
    <3>1. /\ UsesPacket(x) /\ Serves(x, partner[x]) /\ partner[x] \in Threads
          /\ partner[x] # q
      BY <1>1, <1>7, <2>1, ZeroTypes DEF ZeroInv, PartnerInv
    <3>2. HasPacket(partner[x])
      BY <3>1 DEF Serves, HasPacket
    <3>3. pc'[partner[x]] = pc[partner[x]] /\ pc'[x] = pc[x]
      BY <1>4, <1>7, <2>1, <3>1, <3>2, SideFacts
    <3>. QED
      BY <1>2, <1>4, <1>8, <2>1, <3>1, <3>3 DEF Serves
  <2>2. Serves(p, q)'
    <3>1. pc'[q] = pc[q]
      BY <1>1, <1>3, <1>4, <1>7, SideFacts DEF Serves, HasPacket
    <3>. QED
      BY <1>1, <1>2, <1>3, <1>4, <1>8, <3>1 DEF Serves
  <2>3. \A x \in Threads : UsesPacket(x)' => Serves(x, partner[x])'
    BY <1>2, <2>1, <2>2
  <2>. QED
    BY <1>2, <1>7, <2>3 DEF ZeroInv, PartnerInv
<1>15. ShutInv'
  BY <1>2, <1>4, <1>7, SideFacts DEF ZeroInv, ShutInv
<1>. QED
  BY <1>6, <1>9, <1>10, <1>11, <1>12, <1>13, <1>14, <1>15 DEF ZeroInv

\* The partner is told that the packet is done with.
LEMMA ReadyStep ==
  ASSUME ZeroInv, NEW p \in Threads, Ready(p)
  PROVE  ZeroInv'
<1> DEFINE q == partner[p]
<1>1. TypeOK /\ p \in Everyone /\ q \in Threads
  BY SideFacts, ZeroTypes DEF ZeroInv
<1>2. /\ pc[p] = "ready" /\ pc' = [pc EXCEPT ![p] = "idle"]
      /\ UNCHANGED <<lock, disconnected, entries, select, msg, op, item, partner, result, reply>>
      /\ ready' = [ready EXCEPT ![q] = TRUE]
  BY DEF Ready, Goto
<1>3. UsesPacket(p) /\ Serves(p, q)
  BY <1>1, <1>2 DEF UsesPacket, ZeroInv, PartnerInv
<1>4. /\ pc'[p] = "idle" /\ \A x \in Everyone : x # p => pc'[x] = pc[x]
      /\ \A x \in Threads : x # q => ready'[x] = ready[x]
  BY <1>1, <1>2, ZeroTypes
<1>5. TypeOK'
  <2>1. ready' \in [Threads -> BOOLEAN]
    BY <1>1, <1>2, ZeroTypes
  <2>2. "idle" \in Labels /\ (Holds(p)' <=> Holds(p))
    BY <1>2, <1>4 DEF Labels, Holds
  <2>3. /\ \A x \in Everyone : Holds(x)' <=> lock' = x
        /\ lock' \in Everyone \union {Nobody} /\ pc' \in [Everyone -> Labels]
    BY <1>1, <1>2, <2>2, LockKept
  <2>. QED
    BY <1>1, <1>2, <2>1, <2>3 DEF TypeOK
<1>6. \A x \in Threads : /\ HasPacket(x)' <=> HasPacket(x)
                         /\ UsesPacket(x)' <=> UsesPacket(x) /\ x # p
                         /\ HasPacket(x) => x # p
                         /\ UsesPacket(x) /\ x # p => partner[x] # q
  <2>1. \A x \in Threads : UsesPacket(x) /\ x # p => partner[x] # q
    BY <1>3 DEF ZeroInv, PartnerInv
  <2>. QED
    BY <1>2, <1>4, <2>1, SideFacts DEF HasPacket, UsesPacket
<1>7. \A x \in Threads : /\ Pending(x)' <=> Pending(x)
                         /\ Pending(x) => x # q
                         /\ Selectee(x)' <=> Selectee(x)
                         /\ Item(x)' = Item(x)
  BY <1>2, <1>3, <1>6 DEF Pending, Selectee, Item, Serves
<1>8. ListsInv' /\ CellInv'
  BY <1>2, <1>4, <1>6, SideFacts DEF ZeroInv, ListsInv, CellInv, Side, Distinct
<1>9. EntryInv'
  <2>1. \A x \in Threads : Listed(x)' <=> Listed(x)
    BY <1>2 DEF Listed, Side, In
  <2>. QED
    BY <1>2, <1>4, <1>7, <2>1, SideFacts DEF ZeroInv, EntryInv, Pending, HasPacket
<1>10. PacketInv'
  BY <1>2, <1>4, <1>7 DEF ZeroInv, PacketInv, Refused
<1>11. SelecteeInv'
  <2>1. q \in Receivers => reply[q] = Received(msg[q]) /\ msg[q] # NoMsg
    BY <1>1, <1>2, <1>3, ItemFacts DEF Serves
  <2>. QED
    BY <1>2, <1>4, <1>7, <2>1 DEF ZeroInv, SelecteeInv
<1>12. SettledInv'
  BY <1>2, <1>4, <1>6, SideFacts DEF ZeroInv, SettledInv
<1>13. PartnerInv'
  <2>1. ASSUME NEW x \in Threads, UsesPacket(x)' PROVE Serves(x, partner[x])'
    <3>1. /\ x # p /\ UsesPacket(x) /\ Serves(x, partner[x]) /\ partner[x] \in Threads
          /\ partner[x] # q
      BY <1>1, <1>6, <2>1, ZeroTypes DEF ZeroInv, PartnerInv
    <3>2. HasPacket(partner[x])
      BY <3>1 DEF Serves, HasPacket
    <3>3. pc'[partner[x]] = pc[partner[x]] /\ pc'[x] = pc[x]
      BY <1>4, <1>6, <3>1, <3>2, SideFacts
    <3>. QED
      BY <1>2, <1>4, <1>7, <3>1, <3>3 DEF Serves
  <2>. QED
    BY <1>2, <1>6, <2>1 DEF ZeroInv, PartnerInv
<1>14. ShutInv'
  BY <1>2, <1>4, <1>6, SideFacts DEF ZeroInv, ShutInv
<1>. QED
  BY <1>5, <1>8, <1>9, <1>10, <1>11, <1>12, <1>13, <1>14 DEF ZeroInv

\* An entry is taken out of one list: the others stay as they are.
LEMMA ListsAfterRemoval ==
  ASSUME ZeroInv, NEW s \in Sides, NEW i \in 1 .. Len(entries[s]),
         entries' = [entries EXCEPT ![s] = Without(@, i)]
  PROVE  /\ entries' \in [Sides -> Seq(Threads)]
         /\ ListsInv'
         /\ \A x \in Threads : Listed(x)' <=> Listed(x) /\ x # entries[s][i]
<1>1. TypeOK /\ entries[s] \in Seq(Threads) /\ entries \in [Sides -> Seq(Threads)]
  BY ZeroTypes DEF ZeroInv
<1>2. /\ entries'[s] = Without(entries[s], i)
      /\ \A r \in Sides : r # s => entries'[r] = entries[r]
  BY <1>1
<1>3. Distinct(entries[s]) /\ \A r \in Sides : \A j \in 1 .. Len(entries[r]) : Side(entries[r][j]) = r
  BY DEF ZeroInv, ListsInv
<1>4. /\ entries'[s] \in Seq(Threads) /\ Distinct(entries'[s])
      /\ \A y : In(y, entries'[s]) <=> In(y, entries[s]) /\ y # entries[s][i]
  BY <1>1, <1>2, <1>3, WithoutFacts
<1>5. entries' \in [Sides -> Seq(Threads)]
  BY <1>1, <1>4
<1>6. \A j \in 1 .. Len(entries'[s]) : Side(entries'[s][j]) = s
  <2>1. ASSUME NEW j \in 1 .. Len(entries'[s]) PROVE Side(entries'[s][j]) = s
    <3>1. In(entries'[s][j], entries[s])
      BY <1>4 DEF In
    <3>. QED
      BY <1>3, <3>1 DEF In
  <2>. QED
    BY <2>1
<1>7. ListsInv'
  BY <1>2, <1>4, <1>6 DEF ZeroInv, ListsInv, Side, Distinct
<1>8. ASSUME NEW x \in Threads PROVE Listed(x)' <=> Listed(x) /\ x # entries[s][i]
  <2>1. Side(x)' = Side(x) /\ Side(x) \in Sides /\ Side(entries[s][i]) = s
    BY <1>3, SideFacts DEF Side
  <2>2. Listed(x)' <=> In(x, entries'[Side(x)])
    BY <2>1 DEF Listed, In
  <2>3. CASE Side(x) = s
    BY <1>4, <2>2, <2>3 DEF Listed
  <2>4. CASE Side(x) # s
    BY <1>2, <2>1, <2>2, <2>4 DEF Listed
  <2>. QED
    BY <2>3, <2>4
<1>. QED
  BY <1>5, <1>7, <1>8

\* A thread that was told that the channel is disconnected takes out its entry.
LEMMA LeaveStep ==
  ASSUME ZeroInv, NEW p \in Threads, Leave(p)
  PROVE  ZeroInv'
<1>1. TypeOK /\ p \in Everyone /\ Side(p) \in Sides
  BY SideFacts DEF ZeroInv
<1>2. PICK i \in 1 .. Len(entries[Side(p)]) :
        /\ entries[Side(p)][i] = p
        /\ entries' = [entries EXCEPT ![Side(p)] = Without(@, i)]
  BY DEF Leave
<1>3. /\ pc[p] = "leave" /\ pc' = [pc EXCEPT ![p] = "unlock_left"]
      /\ UNCHANGED <<lock, disconnected, select, msg, ready, op, item, partner, result, reply>>
  BY DEF Leave, Goto
<1>4. /\ entries' \in [Sides -> Seq(Threads)]
      /\ ListsInv'
      /\ \A x \in Threads : Listed(x)' <=> Listed(x) /\ x # p
  <2> HIDE DEF ZeroInv
  <2>. QED
    BY <1>1, <1>2, ListsAfterRemoval
<1>5. pc'[p] = "unlock_left" /\ \A x \in Everyone : x # p => pc'[x] = pc[x]
  BY <1>1, <1>3, ZeroTypes
<1>6. TypeOK'
  <2>1. "unlock_left" \in Labels /\ (Holds(p)' <=> Holds(p))
    BY <1>3, <1>5 DEF Labels, Holds
  <2>2. /\ \A x \in Everyone : Holds(x)' <=> lock' = x
        /\ lock' \in Everyone \union {Nobody} /\ pc' \in [Everyone -> Labels]
    BY <1>1, <1>3, <2>1, LockKept
  <2>. QED
    BY <1>1, <1>3, <1>4, <2>2 DEF TypeOK
<1>7. \A x \in Threads : /\ HasPacket(x)' <=> HasPacket(x)
                         /\ UsesPacket(x)' <=> UsesPacket(x)
                         /\ UsesPacket(x) => x # p
  BY <1>3, <1>5, SideFacts DEF HasPacket, UsesPacket
<1>8. \A x \in Threads : /\ Pending(x)' <=> Pending(x)
                         /\ Selectee(x)' <=> Selectee(x)
                         /\ Item(x)' = Item(x)
  BY <1>3, <1>7 DEF Pending, Selectee, Item
<1>9. CellInv'
  BY <1>3, <1>5, <1>7, SideFacts DEF ZeroInv, CellInv
<1>10. EntryInv'
  BY <1>4, <1>5, <1>8, SideFacts DEF ZeroInv, EntryInv
<1>11. PacketInv' /\ SelecteeInv'
  BY <1>3, <1>8 DEF ZeroInv, PacketInv, SelecteeInv, Refused
<1>12. SettledInv'
  BY <1>3, <1>5, <1>7, SideFacts DEF ZeroInv, SettledInv
<1>13. PartnerInv'
  <2>1. ASSUME NEW x \in Threads, UsesPacket(x)' PROVE Serves(x, partner[x])'
    <3>1. x # p /\ UsesPacket(x) /\ Serves(x, partner[x]) /\ partner[x] \in Threads
      BY <1>1, <1>7, <2>1, ZeroTypes DEF ZeroInv, PartnerInv
    <3>2. partner[x] # p
      BY <1>3, <3>1 DEF Serves
    <3>3. pc'[partner[x]] = pc[partner[x]] /\ pc'[x] = pc[x]
      BY <1>5, <3>1, <3>2, SideFacts
    <3>. QED
      BY <1>3, <1>8, <3>1, <3>3 DEF Serves
  <2>. QED
    BY <1>3, <1>7, <2>1 DEF ZeroInv, PartnerInv
<1>14. ShutInv'
  BY <1>3, <1>5, <1>7, SideFacts DEF ZeroInv, ShutInv
<1>. QED
  BY <1>4, <1>6, <1>9, <1>10, <1>11, <1>12, <1>13, <1>14 DEF ZeroInv

\* A thread that found nobody puts a packet on its stack and an entry in its list.
LEMMA WaitStep ==
  ASSUME ZeroInv, NEW p \in Threads, Wait(p)
  PROVE  ZeroInv'
<1>1. TypeOK /\ p \in Everyone /\ Side(p) \in Sides
  BY SideFacts DEF ZeroInv
<1>2. /\ pc[p] = "meet" /\ pc' = [pc EXCEPT ![p] = "unlock_waiting"] /\ ~disconnected
      /\ select' = [select EXCEPT ![p] = "waiting"]
      /\ msg' = [msg EXCEPT ![p] = Item(p)]
      /\ ready' = [ready EXCEPT ![p] = FALSE]
      /\ entries' = [entries EXCEPT ![Side(p)] = Append(@, p)]
      /\ reply' = [reply EXCEPT ![p] = Reply("waiting")]
      /\ UNCHANGED <<lock, disconnected, op, item, partner, result>>
  BY DEF Wait, Goto, Answer
<1>3. /\ pc'[p] = "unlock_waiting" /\ \A x \in Everyone : x # p => pc'[x] = pc[x]
      /\ select'[p] = "waiting" /\ msg'[p] = Item(p) /\ ~ready'[p] /\ reply'[p] = Reply("waiting")
      /\ \A x \in Threads : x # p => /\ select'[x] = select[x] /\ msg'[x] = msg[x]
                                     /\ ready'[x] = ready[x] /\ reply'[x] = reply[x]
  BY <1>1, <1>2, ZeroTypes
<1>4. /\ entries[Side(p)] \in Seq(Threads) /\ entries'[Side(p)] = Append(entries[Side(p)], p)
      /\ \A r \in Sides : r # Side(p) => entries'[r] = entries[r]
  BY <1>1, <1>2, ZeroTypes
<1>5. ~HasPacket(p) /\ ~UsesPacket(p) /\ ~Listed(p)
  BY <1>2 DEF HasPacket, UsesPacket, ZeroInv, EntryInv, Pending
<1>6. /\ entries'[Side(p)] \in Seq(Threads) /\ Distinct(entries'[Side(p)])
      /\ \A y : In(y, entries'[Side(p)]) <=> In(y, entries[Side(p)]) \/ y = p
  <2>1. Distinct(entries[Side(p)]) /\ ~In(p, entries[Side(p)])
    BY <1>1, <1>5 DEF ZeroInv, ListsInv, Listed
  <2>. QED
    BY <1>4, <2>1, AppendFacts
<1>7. ListsInv'
  <2>1. ASSUME NEW j \in 1 .. Len(entries'[Side(p)]) PROVE Side(entries'[Side(p)][j]) = Side(p)
    <3>1. In(entries'[Side(p)][j], entries[Side(p)]) \/ entries'[Side(p)][j] = p
      BY <1>6 DEF In
    <3>. QED
      BY <1>1, <3>1 DEF In, ZeroInv, ListsInv
  <2>. QED
    BY <1>4, <1>6, <2>1 DEF ZeroInv, ListsInv, Side, Distinct
<1>8. \A x \in Threads : Listed(x)' <=> Listed(x) \/ x = p
  <2>1. ASSUME NEW x \in Threads PROVE Listed(x)' <=> Listed(x) \/ x = p
    <3>1. Side(x)' = Side(x) /\ Side(x) \in Sides
      BY SideFacts DEF Side
    <3>2. Listed(x)' <=> In(x, entries'[Side(x)])
      BY <3>1 DEF Listed, In
    <3>3. CASE Side(x) = Side(p)
      BY <1>6, <3>2, <3>3 DEF Listed
    <3>4. CASE Side(x) # Side(p)
      BY <1>4, <3>1, <3>2, <3>4 DEF Listed
    <3>. QED
      BY <3>3, <3>4
  <2>. QED
    BY <2>1
<1>9. TypeOK'
  <2>1. Reply("waiting") \in ReplyTypes
    BY <1>1, ReplyFacts
  <2>2. reply' \in [Threads -> ReplyTypes]
    BY <1>1, <1>2, <2>1, ZeroTypes DEF ReplyTypes
  <2>3. "unlock_waiting" \in Labels /\ (Holds(p)' <=> Holds(p))
    BY <1>2, <1>3 DEF Labels, Holds
  <2>4. /\ \A x \in Everyone : Holds(x)' <=> lock' = x
        /\ lock' \in Everyone \union {Nobody} /\ pc' \in [Everyone -> Labels]
    BY <1>1, <1>2, <2>3, LockKept
  <2>5. entries' \in [Sides -> Seq(Threads)] /\ ready' \in [Threads -> BOOLEAN]
    BY <1>1, <1>2, <1>4, <1>6, ZeroTypes
  <2>6. select' \in [Threads -> {"waiting", "operation", "disconnected"}]
    BY <1>1, <1>2, ZeroTypes
  <2>7. msg' \in [Threads -> Message \union {NoMsg}]
    BY <1>1, <1>2, ZeroTypes, ItemFacts
  <2>. QED
    BY <1>1, <1>2, <2>2, <2>4, <2>5, <2>6, <2>7 DEF TypeOK, ReplyTypes
<1>10. \A x \in Threads : /\ HasPacket(x)' <=> HasPacket(x) \/ x = p
                          /\ UsesPacket(x)' <=> UsesPacket(x)
                          /\ UsesPacket(x) => x # p
  BY <1>2, <1>3, SideFacts DEF HasPacket, UsesPacket
<1>11. \A x \in Threads : /\ Pending(x)' <=> Pending(x) \/ x = p
                          /\ Selectee(x)' <=> Selectee(x) /\ x # p
                          /\ Item(x)' = Item(x)
  BY <1>2, <1>3, <1>5, <1>10 DEF Pending, Selectee, Item
<1>12. CellInv'
  BY <1>2, <1>3, <1>10, SideFacts DEF ZeroInv, CellInv
<1>13. EntryInv'
  BY <1>3, <1>8, <1>11, SideFacts DEF ZeroInv, EntryInv
<1>14. PacketInv' /\ SelecteeInv'
  <2>1. PacketInv'
    BY <1>2, <1>3, <1>11 DEF ZeroInv, PacketInv, Refused
  <2>2. SelecteeInv'
    BY <1>2, <1>3, <1>11 DEF ZeroInv, SelecteeInv
  <2>. QED
    BY <2>1, <2>2
<1>15. SettledInv'
  BY <1>2, <1>3, <1>10, SideFacts DEF ZeroInv, SettledInv
<1>16. PartnerInv'
  <2>1. ASSUME NEW x \in Threads, UsesPacket(x)' PROVE Serves(x, partner[x])'
    <3>1. x # p /\ UsesPacket(x) /\ Serves(x, partner[x]) /\ partner[x] \in Threads
      BY <1>1, <1>10, <2>1, ZeroTypes DEF ZeroInv, PartnerInv
    <3>2. partner[x] # p
      BY <1>2, <3>1 DEF Serves
    <3>3. pc'[partner[x]] = pc[partner[x]] /\ pc'[x] = pc[x]
      BY <1>3, <3>1, <3>2, SideFacts
    <3>. QED
      BY <1>2, <1>3, <1>11, <3>1, <3>2, <3>3 DEF Serves
  <2>. QED
    BY <1>2, <1>10, <2>1 DEF ZeroInv, PartnerInv
<1>17. ShutInv'
  BY <1>2, <1>3, <1>10, SideFacts DEF ZeroInv, ShutInv
<1>. QED
  BY <1>7, <1>9, <1>12, <1>13, <1>14, <1>15, <1>16, <1>17 DEF ZeroInv

\* Whoever holds the lock at meet finds nobody shutting down, so an entry that
\* still waits belongs to a channel that is not disconnected.
LEMMA MeetStep ==
  ASSUME ZeroInv, NEW p \in Threads, Meet(p)
  PROVE  ZeroInv'
<1>1. TypeOK /\ p \in Everyone /\ Opposite(p) \in Sides /\ Opposite(p) # Side(p)
  BY SideFacts DEF ZeroInv
<1>2. PICK i \in 1 .. Len(entries[Opposite(p)]) :
        LET q == entries[Opposite(p)][i]
            s == IF p \in Senders THEN p ELSE q
            r == IF p \in Senders THEN q ELSE p
        IN  /\ select[q] = "waiting"
            /\ select' = [select EXCEPT ![q] = "operation"]
            /\ entries' = [entries EXCEPT ![Opposite(p)] = Without(@, i)]
            /\ partner' = [partner EXCEPT ![p] = q]
            /\ reply' = [reply EXCEPT ![s] = Reply("sent"), ![r] = Received(Item(s))]
  BY DEF Meet, FirstWaiting
<1> DEFINE q == entries[Opposite(p)][i]
           s == IF p \in Senders THEN p ELSE q
           r == IF p \in Senders THEN q ELSE p
<1>3. /\ pc[p] = "meet" /\ pc' = [pc EXCEPT ![p] = "unlock_met"]
      /\ UNCHANGED <<lock, disconnected, msg, ready, op, item, result>>
  BY DEF Meet, Goto
<1>4. /\ q \in Threads /\ q # p /\ Side(q) = Opposite(p) /\ Listed(q)
      /\ p \in Senders <=> q \in Receivers
  <2>1. entries[Opposite(p)] \in Seq(Threads)
    BY <1>1, ZeroTypes
  <2>2. q \in Threads /\ Side(q) = Opposite(p)
    BY <1>1, <2>1 DEF ZeroInv, ListsInv
  <2>3. Listed(q)
    BY <2>2 DEF Listed, In
  <2>. QED
    BY <1>1, <2>2, <2>3, SideFacts
<1>5. /\ entries' \in [Sides -> Seq(Threads)]
      /\ ListsInv'
      /\ \A x \in Threads : Listed(x)' <=> Listed(x) /\ x # q
  <2> HIDE DEF ZeroInv
  <2>. QED
    BY <1>1, <1>2, ListsAfterRemoval
<1>6. /\ pc'[p] = "unlock_met" /\ \A x \in Everyone : x # p => pc'[x] = pc[x]
      /\ select'[q] = "operation" /\ \A x \in Threads : x # q => select'[x] = select[x]
      /\ partner'[p] = q /\ \A x \in Threads : x # p => partner'[x] = partner[x]
  BY <1>1, <1>2, <1>3, <1>4, ZeroTypes
<1>7. /\ p \in Senders => reply'[p] = Reply("sent") /\ reply'[q] = Received(Item(p))
      /\ p \in Receivers => reply'[p] = Received(Item(q)) /\ reply'[q] = Reply("sent")
      /\ \A x \in Threads : x # p /\ x # q => reply'[x] = reply[x]
  <2>1. s \in Threads /\ r \in Threads /\ s # r /\ reply' = [reply EXCEPT ![s] = Reply("sent"), ![r] = Received(Item(s))]
    BY <1>2, <1>4
  <2>2. /\ reply'[s] = Reply("sent") /\ reply'[r] = Received(Item(s))
        /\ \A x \in Threads : x # s /\ x # r => reply'[x] = reply[x]
    BY <1>1, <2>1, ZeroTypes
  <2>. QED
    BY <2>2, SideFacts
<1>8. /\ HasPacket(q) /\ Pending(q) /\ pc[q] \in {"unlock_waiting", "wait"}
      /\ msg[q] = Item(q) /\ ~ready[q]
  <2>1. Pending(q)
    BY <1>4 DEF ZeroInv, EntryInv
  <2>2. pc[q] \in {"unlock_waiting", "wait"}
    BY <1>2, <1>4, <2>1 DEF ZeroInv, EntryInv, CellInv, Pending, HasPacket
  <2>. QED
    BY <1>4, <2>1, <2>2 DEF ZeroInv, PacketInv, Pending
<1>9. TypeOK'
  <2>1. reply' \in [Threads -> ReplyTypes]
    <3>1. /\ Reply("sent") \in ReplyTypes /\ Received(Item(s)) \in ReplyTypes
      BY <1>1, <1>4, ReplyFacts, ItemFacts
    <3>2. reply \in [Threads -> ReplyTypes]
      BY <1>1, ZeroTypes DEF ReplyTypes
    <3>. QED
      BY <1>2, <1>4, <3>1, <3>2
  <2>2. "unlock_met" \in Labels /\ (Holds(p)' <=> Holds(p))
    BY <1>3, <1>6 DEF Labels, Holds
  <2>3. /\ \A x \in Everyone : Holds(x)' <=> lock' = x
        /\ lock' \in Everyone \union {Nobody} /\ pc' \in [Everyone -> Labels]
    BY <1>1, <1>3, <2>2, LockKept
  <2>4. select' \in [Threads -> {"waiting", "operation", "disconnected"}]
    BY <1>1, <1>2, ZeroTypes
  <2>5. partner' \in [Threads -> Threads]
    BY <1>1, <1>2, <1>4, ZeroTypes
  <2>. QED
    BY <1>1, <1>3, <1>5, <2>1, <2>3, <2>4, <2>5 DEF TypeOK, ReplyTypes
<1>10. \A x \in Threads : /\ HasPacket(x)' <=> HasPacket(x)
                          /\ HasPacket(x) => x # p
                          /\ UsesPacket(x)' <=> UsesPacket(x) \/ x = p
                          /\ UsesPacket(x) => x # p
  BY <1>3, <1>6, SideFacts DEF HasPacket, UsesPacket
<1>11. \A x \in Threads : /\ Pending(x)' <=> Pending(x) /\ x # q
                          /\ Selectee(x)' <=> Selectee(x) \/ x = q
                          /\ Selectee(x) => x # q
                          /\ Item(x)' = Item(x)
  BY <1>2, <1>3, <1>4, <1>6, <1>8, <1>10 DEF Pending, Selectee, Item
<1>12. CellInv'
  BY <1>3, <1>6, <1>8, <1>10, SideFacts DEF ZeroInv, CellInv
<1>13. EntryInv'
  BY <1>5, <1>6, <1>8, <1>11, SideFacts DEF ZeroInv, EntryInv, Pending, HasPacket
<1>14. PacketInv'
  <2>1. \A x \in Threads : Pending(x)' => reply'[x] = reply[x] /\ Pending(x)
    BY <1>7, <1>10, <1>11 DEF Pending
  <2>. QED
    BY <1>3, <1>11, <2>1 DEF ZeroInv, PacketInv, Refused
<1>15. SelecteeInv'
  <2>1. \A x \in Threads : Selectee(x) => reply'[x] = reply[x]
    BY <1>7, <1>10, <1>11 DEF Selectee
  <2>2. reply'[q].kind # "waiting" /\ (q \in Senders => reply'[q] = Reply("sent"))
    BY <1>4, <1>7, SideFacts DEF Reply, Received
  <2>. QED
    BY <1>3, <1>8, <1>11, <2>1, <2>2 DEF ZeroInv, SelecteeInv
<1>16. SettledInv'
  <2>1. \A x \in Threads : x # p /\ x # q => reply'[x] = reply[x] /\ result'[x] = result[x]
    BY <1>3, <1>7
  <2>2. reply'[p].kind # "waiting"
    BY <1>7, SideFacts DEF Reply, Received
  <2>3. pc'[q] = pc[q] /\ \A x \in Threads : x = q => HasPacket(x)'
    BY <1>4, <1>6, <1>8, <1>10, SideFacts
  <2>. QED
    BY <1>3, <1>6, <1>8, <1>10, <2>1, <2>2, <2>3, SideFacts DEF ZeroInv, SettledInv
<1>17. PartnerInv'
  <2>1. ASSUME NEW x \in Threads, UsesPacket(x)', x # p
        PROVE  Serves(x, partner[x])' /\ partner'[x] # q
    <3>1. UsesPacket(x) /\ Serves(x, partner[x]) /\ partner[x] \in Threads /\ partner'[x] = partner[x]
      BY <1>1, <1>6, <1>10, <2>1, ZeroTypes DEF ZeroInv, PartnerInv
    <3>2. partner[x] # q /\ partner[x] # p /\ HasPacket(partner[x])
      BY <1>2, <1>3, <3>1 DEF Serves, HasPacket
    <3>3. x # q
      BY <1>8, <3>1 DEF HasPacket, UsesPacket
    <3>4. pc'[partner[x]] = pc[partner[x]] /\ pc'[x] = pc[x]
      BY <1>6, <2>1, <3>1, <3>2, SideFacts
    <3>5. reply'[x] = reply[x] /\ reply'[partner[x]] = reply[partner[x]]
      BY <1>7, <2>1, <3>1, <3>2, <3>3
    <3>. QED
      BY <1>3, <1>6, <1>11, <3>1, <3>2, <3>4, <3>5 DEF Serves
  <2>2. Serves(p, partner[p])'
    <3>1. pc'[q] = pc[q]
      BY <1>4, <1>6, SideFacts
    <3>. QED
      BY <1>3, <1>4, <1>6, <1>7, <1>8, <1>11, <3>1 DEF Serves
  <2>3. \A x \in Threads : UsesPacket(x)' => Serves(x, partner[x])'
    BY <2>1, <2>2
  <2>4. \A x, y \in Threads : UsesPacket(x)' /\ UsesPacket(y)' /\ partner'[x] = partner'[y] => x = y
    BY <1>6, <1>10, <2>1 DEF ZeroInv, PartnerInv
  <2>. QED
    BY <2>3, <2>4 DEF PartnerInv
<1>18. ShutInv'
  BY <1>3, <1>6, <1>10, SideFacts DEF ZeroInv, ShutInv
<1>. QED
  BY <1>5, <1>9, <1>12, <1>13, <1>14, <1>15, <1>16, <1>17, <1>18 DEF ZeroInv

\* shutdown sets the flag: that decides all the calls that wait.
LEMMA ShutStep ==
  ASSUME ZeroInv, NEW p \in Everyone, Shut(p)
  PROVE  ZeroInv'
<1>1. TypeOK
  BY DEF ZeroInv
<1> DEFINE l == IF disconnected THEN "unlock" ELSE "disconnect"
<1>2. /\ pc[p] = "shut" /\ pc' = [pc EXCEPT ![p] = l] /\ disconnected' = TRUE
      /\ reply' = [x \in Threads |->
                     IF reply[x].kind = "waiting" THEN Refused(x, "disconnected") ELSE reply[x]]
      /\ UNCHANGED <<lock, data, op, item, partner, result>>
  BY DEF Shut, Goto
<1>3. pc'[p] = l /\ \A x \in Everyone : x # p => pc'[x] = pc[x]
  BY <1>1, <1>2, ZeroTypes
<1>4. \A x \in Threads : reply[x].kind # "waiting" => reply'[x] = reply[x]
  BY <1>2
<1>5. \A x \in Threads : /\ HasPacket(x)' <=> HasPacket(x)
                         /\ HasPacket(x) => x # p
                         /\ UsesPacket(x)' <=> UsesPacket(x)
                         /\ UsesPacket(x) => x # p
  BY <1>2, <1>3, SideFacts DEF HasPacket, UsesPacket
<1>6. \A x \in Threads : /\ Pending(x)' <=> Pending(x)
                         /\ Selectee(x)' <=> Selectee(x)
                         /\ Item(x)' = Item(x)
  BY <1>2, <1>5 DEF Pending, Selectee, data, Item
<1>7. \A x \in Threads : ~Pending(x) => reply'[x] = reply[x]
  BY <1>4 DEF ZeroInv, SelecteeInv, SettledInv, Pending, Selectee
<1>8. TypeOK'
  <2>1. reply' \in [Threads -> ReplyTypes]
    <3>1. ASSUME NEW x \in Threads PROVE Refused(x, "disconnected") \in ReplyTypes
      BY <1>1, ReplyFacts
    <3>2. reply \in [Threads -> ReplyTypes]
      BY <1>1, ZeroTypes DEF ReplyTypes
    <3>. QED
      BY <1>2, <3>1, <3>2
  <2>2. l \in Labels /\ (Holds(p)' <=> Holds(p))
    BY <1>2, <1>3 DEF Labels, Holds
  <2>3. /\ \A x \in Everyone : Holds(x)' <=> lock' = x
        /\ lock' \in Everyone \union {Nobody} /\ pc' \in [Everyone -> Labels]
    <3> HIDE DEF l
    <3>. QED
      BY <1>1, <1>2, <2>2, LockKept
  <2>. QED
    BY <1>1, <1>2, <2>1, <2>3 DEF TypeOK, data, ReplyTypes
<1>9. ListsInv' /\ CellInv'
  BY <1>2, <1>3, <1>5, SideFacts DEF ZeroInv, ListsInv, CellInv, data, Side, Distinct
<1>10. EntryInv'
  <2>1. \A x \in Threads : Listed(x)' <=> Listed(x)
    BY <1>2 DEF data, Listed, Side, In
  <2>. QED
    BY <1>2, <1>3, <1>6, <2>1, SideFacts DEF ZeroInv, EntryInv, Pending, HasPacket
<1>11. PacketInv'
  <2>1. ASSUME NEW x \in Threads, Pending(x) PROVE reply'[x] = Refused(x, "disconnected")
    BY <1>2, <2>1 DEF ZeroInv, PacketInv, Reply, Refused
  <2>. QED
    BY <1>2, <1>6, <2>1 DEF ZeroInv, PacketInv, data, Refused
<1>12. SelecteeInv'
  <2>1. \A x \in Threads : Selectee(x) => reply'[x] = reply[x]
    BY <1>7 DEF Pending, Selectee
  <2>. QED
    BY <1>2, <1>6, <2>1 DEF ZeroInv, SelecteeInv, data
<1>13. SettledInv'
  BY <1>2, <1>3, <1>5, <1>7, SideFacts DEF ZeroInv, SettledInv, Pending, HasPacket
<1>14. PartnerInv'
  <2>1. ASSUME NEW x \in Threads, UsesPacket(x)' PROVE Serves(x, partner[x])'
    <3>1. UsesPacket(x) /\ Serves(x, partner[x]) /\ partner[x] \in Threads
      BY <1>1, <1>5, <2>1, ZeroTypes DEF ZeroInv, PartnerInv
    <3>2. ~Pending(x) /\ ~Pending(partner[x]) /\ HasPacket(partner[x])
      BY <3>1 DEF Pending, Serves, UsesPacket, HasPacket
    <3>3. pc'[partner[x]] = pc[partner[x]] /\ pc'[x] = pc[x]
      BY <1>3, <1>5, <3>1, <3>2, SideFacts
    <3>. QED
      BY <1>2, <1>6, <1>7, <3>1, <3>2, <3>3 DEF Serves, data
  <2>. QED
    BY <1>2, <1>5, <2>1 DEF ZeroInv, PartnerInv
<1>15. ShutInv'
  <2>1. \/ l = "disconnect"
        \/ \E c \in Everyone : pc'[c] = "disconnect"
        \/ \A x \in Threads : HasPacket(x)' => select'[x] # "waiting"
    <3>1. CASE disconnected
      <4>1. \/ \E c \in Everyone : pc[c] = "disconnect" /\ c # p
            \/ \A x \in Threads : HasPacket(x) => select[x] # "waiting"
        BY <1>2, <3>1 DEF ZeroInv, ShutInv
      <4>. QED
        BY <1>2, <1>3, <1>5, <4>1 DEF data
    <3>2. CASE ~disconnected
      BY <3>2
    <3>. QED
      BY <3>1, <3>2
  <2>. QED
    BY <1>2, <1>3, <2>1 DEF ShutInv
<1>. QED
  BY <1>8, <1>9, <1>10, <1>11, <1>12, <1>13, <1>14, <1>15 DEF ZeroInv

\* The select cell of one that waits is set to disconnected; its entry stays.
LEMMA DisconnectStep ==
  ASSUME ZeroInv, NEW p \in Everyone, Disconnect(p)
  PROVE  ZeroInv'
<1>1. TypeOK /\ pc[p] = "disconnect" /\ disconnected
  BY DEF ZeroInv, ShutInv, Disconnect
<1>a. PICK s \in Sides : \E i \in 1 .. Len(entries[s]) :
        /\ select[entries[s][i]] = "waiting"
        /\ select' = [select EXCEPT ![entries[s][i]] = "disconnected"]
  BY DEF Disconnect, FirstWaiting
<1>2. PICK i \in 1 .. Len(entries[s]) :
        /\ select[entries[s][i]] = "waiting"
        /\ select' = [select EXCEPT ![entries[s][i]] = "disconnected"]
  BY <1>a
<1>3. UNCHANGED <<lock, disconnected, entries, msg, ready, pc, op, item, partner, result, reply>>
  BY DEF Disconnect
<1>4. PICK q \in Threads : q = entries[s][i]
  <2>1. entries[s] \in Seq(Threads)
    BY <1>1, ZeroTypes
  <2>. QED
    BY <2>1
<1>5. /\ select[q] = "waiting" /\ select'[q] = "disconnected"
      /\ \A x \in Threads : x # q => select'[x] = select[x]
      /\ select' \in [Threads -> {"waiting", "operation", "disconnected"}]
  BY <1>1, <1>2, <1>4, ZeroTypes
<1>6. Pending(q) /\ pc[q] \in {"unlock_waiting", "wait"}
  <2>1. Listed(q)
    BY <1>4 DEF Listed, In, ZeroInv, ListsInv
  <2>. QED
    BY <1>5, <2>1 DEF ZeroInv, EntryInv, CellInv, Pending, HasPacket
<1>7. TypeOK'
  BY <1>1, <1>3, <1>5 DEF TypeOK, Holds
<1>8. \A x \in Threads : /\ HasPacket(x)' <=> HasPacket(x)
                         /\ UsesPacket(x)' <=> UsesPacket(x)
                         /\ Pending(x)' <=> Pending(x)
                         /\ Selectee(x)' <=> Selectee(x)
                         /\ Item(x)' = Item(x)
                         /\ Listed(x)' <=> Listed(x)
  <2>1. ASSUME NEW x \in Threads
        PROVE  /\ HasPacket(x)' <=> HasPacket(x)
               /\ UsesPacket(x)' <=> UsesPacket(x)
               /\ Item(x)' = Item(x)
               /\ Listed(x)' <=> Listed(x)
    BY <1>3 DEF HasPacket, UsesPacket, Item, Listed, Side, In
  <2>2. \A x \in Threads : select'[x] = "operation" <=> select[x] = "operation"
    BY <1>5
  <2>. QED
    BY <2>1, <2>2 DEF Pending, Selectee
<1>9. ListsInv'
  BY <1>3 DEF ZeroInv, ListsInv, Side, Distinct
<1>10. CellInv'
  BY <1>1, <1>3, <1>5, <1>6, <1>8 DEF ZeroInv, CellInv
<1>11. EntryInv' /\ PacketInv' /\ SelecteeInv' /\ SettledInv'
  BY <1>3, <1>8 DEF ZeroInv, EntryInv, PacketInv, SelecteeInv, SettledInv, Refused
<1>12. PartnerInv'
  BY <1>1, <1>3, <1>5, <1>8, ZeroTypes DEF ZeroInv, PartnerInv, Serves
<1>13. ShutInv'
  BY <1>1, <1>3 DEF ZeroInv, ShutInv
<1>. QED
  BY <1>7, <1>9, <1>10, <1>11, <1>12, <1>13 DEF ZeroInv

\* shutdown has told everybody: each packet is in a list or not waiting.
LEMMA DisconnectedStep ==
  ASSUME ZeroInv, NEW p \in Everyone, Disconnected(p)
  PROVE  ZeroInv'
<1>1. TypeOK
  BY DEF ZeroInv
<1>2. /\ pc[p] = "disconnect" /\ pc' = [pc EXCEPT ![p] = "unlock"]
      /\ UNCHANGED <<lock, disconnected, data, op, item, partner, result, reply>>
      /\ \A s \in Sides : \A i \in 1 .. Len(entries[s]) : select[entries[s][i]] # "waiting"
  BY DEF Disconnected, Goto, NoneWaiting
<1>3. pc'[p] = "unlock" /\ \A x \in Everyone : x # p => pc'[x] = pc[x]
  BY <1>1, <1>2, ZeroTypes
<1>4. \A x \in Threads : HasPacket(x) => select[x] # "waiting"
  <2>1. ASSUME NEW x \in Threads, HasPacket(x), select[x] = "waiting" PROVE FALSE
    <3>1. Pending(x) /\ pc[x] \notin {"unlock_left", "take_back"}
      BY <2>1 DEF Pending, ZeroInv, CellInv
    <3>2. Listed(x)
      BY <3>1 DEF ZeroInv, EntryInv
    <3>. QED
      BY <1>2, <2>1, <3>2, SideFacts DEF Listed, In
  <2>. QED
    BY <2>1
<1>5. TypeOK'
  <2>1. "unlock" \in Labels /\ (Holds(p)' <=> Holds(p))
    BY <1>2, <1>3 DEF Labels, Holds
  <2>2. /\ \A x \in Everyone : Holds(x)' <=> lock' = x
        /\ lock' \in Everyone \union {Nobody} /\ pc' \in [Everyone -> Labels]
    BY <1>1, <1>2, <2>1, LockKept
  <2>. QED
    BY <1>1, <1>2, <2>2 DEF TypeOK, data
<1>6. \A x \in Threads : /\ HasPacket(x)' <=> HasPacket(x)
                         /\ HasPacket(x) => x # p
                         /\ UsesPacket(x)' <=> UsesPacket(x)
                         /\ UsesPacket(x) => x # p
  BY <1>2, <1>3, SideFacts DEF HasPacket, UsesPacket
<1>7. \A x \in Threads : /\ Pending(x)' <=> Pending(x)
                         /\ Selectee(x)' <=> Selectee(x)
                         /\ Item(x)' = Item(x)
  BY <1>2, <1>6 DEF Pending, Selectee, data, Item
<1>8. ListsInv' /\ CellInv'
  BY <1>2, <1>3, <1>6, SideFacts DEF ZeroInv, ListsInv, CellInv, data, Side, Distinct
<1>9. EntryInv'
  <2>1. \A x \in Threads : Listed(x)' <=> Listed(x)
    BY <1>2 DEF data, Listed, Side, In
  <2>. QED
    BY <1>2, <1>3, <1>7, <2>1, SideFacts DEF ZeroInv, EntryInv, Pending, HasPacket
<1>10. PacketInv' /\ SelecteeInv'
  BY <1>2, <1>7 DEF ZeroInv, PacketInv, SelecteeInv, data, Refused
<1>11. SettledInv'
  BY <1>2, <1>3, <1>6, SideFacts DEF ZeroInv, SettledInv
<1>12. PartnerInv'
  <2>1. ASSUME NEW x \in Threads, UsesPacket(x)' PROVE Serves(x, partner[x])'
    <3>1. UsesPacket(x) /\ Serves(x, partner[x]) /\ partner[x] \in Threads
      BY <1>1, <1>6, <2>1, ZeroTypes DEF ZeroInv, PartnerInv
    <3>2. HasPacket(partner[x])
      BY <3>1 DEF Serves, HasPacket
    <3>3. pc'[partner[x]] = pc[partner[x]] /\ pc'[x] = pc[x]
      BY <1>3, <1>6, <3>1, <3>2, SideFacts
    <3>. QED
      BY <1>2, <1>7, <3>1, <3>3 DEF Serves, data
  <2>. QED
    BY <1>2, <1>6, <2>1 DEF ZeroInv, PartnerInv
<1>13. ShutInv'
  BY <1>2, <1>3, <1>4, <1>6 DEF ZeroInv, ShutInv, data
<1>. QED
  BY <1>5, <1>8, <1>9, <1>10, <1>11, <1>12, <1>13 DEF ZeroInv

------------------------------------------------------------------------------
(***************************************************************************)
(* The invariant holds in every reachable state.                           *)
(***************************************************************************)
LEMMA ZeroStutter ==
  ASSUME ZeroInv, UNCHANGED vars
  PROVE  ZeroInv'
<1>1. TypeOK'
  BY DEF ZeroInv, TypeOK, vars, data, Holds
<1>2. \A p \in Threads : /\ HasPacket(p)' <=> HasPacket(p)
                         /\ UsesPacket(p)' <=> UsesPacket(p)
                         /\ Pending(p)' <=> Pending(p)
                         /\ Selectee(p)' <=> Selectee(p)
                         /\ Item(p)' = Item(p)
                         /\ Listed(p)' <=> Listed(p)
  BY DEF vars, data, HasPacket, UsesPacket, Pending, Selectee, Item, Listed, Side, In
<1>3. ListsInv' /\ CellInv' /\ EntryInv' /\ ShutInv'
  BY <1>2 DEF ZeroInv, vars, data, ListsInv, Side, Distinct, CellInv, EntryInv, ShutInv
<1>4. PacketInv' /\ SelecteeInv' /\ SettledInv'
  BY <1>2 DEF ZeroInv, vars, data, PacketInv, SelecteeInv, SettledInv, Refused
<1>5. PartnerInv'
  BY <1>2, ZeroTypes DEF ZeroInv, vars, data, PartnerInv, Serves
<1>. QED
  BY <1>1, <1>3, <1>4, <1>5 DEF ZeroInv

LEMMA ContinueStep ==
  ASSUME ZeroInv, NEW p \in Everyone, Continue(p)
  PROVE  ZeroInv'
BY LockStep, UnlockStep, MeetStep, TurnedAwayStep, WaitStep, TransferStep, ReadyStep, SelectedStep,
   ReturnStep, LeaveStep, ShutStep, DisconnectStep, DisconnectedStep DEF Continue

LEMMA ZeroNext == ZeroInv /\ [Next]_vars => ZeroInv'
<1> SUFFICES ASSUME ZeroInv, [Next]_vars PROVE ZeroInv'
  OBVIOUS
<1>1. CASE UNCHANGED vars
  BY <1>1, ZeroStutter
<1>2. ASSUME NEW p \in Threads, Call(p, "try") \/ Call(p, "block") PROVE ZeroInv'
  <2>1. p \in Everyone /\ item[p] + 1 \in Nat
    BY SideFacts, ZeroTypes DEF ZeroInv
  <2>. QED
    BY <1>2, <2>1, BeginStep DEF Call
<1>3. ASSUME NEW p \in Closers, Call(p, "shut") PROVE ZeroInv'
  <2>1. p \in Everyone /\ item[p] + 1 \in Nat
    BY ZeroTypes DEF ZeroInv, Everyone
  <2>. QED
    BY <1>3, <2>1, BeginStep DEF Call
<1>4. ASSUME NEW p \in Everyone, Continue(p) PROVE ZeroInv'
  BY <1>4, ContinueStep
<1>. QED
  BY <1>1, <1>2, <1>3, <1>4 DEF Next

LEMMA ZeroInvariance == Spec => []ZeroInv
BY ZeroInit, ZeroNext, PTL DEF Spec

LEMMA PartnersAlive == ZeroInv => PacketAlive
<1> SUFFICES ASSUME ZeroInv, NEW p \in Threads, NEW q \in Threads, UsesPacket(p)
             PROVE  /\ HasPacket(partner[p]) /\ ~UsesPacket(partner[p])
                    /\ p # q /\ UsesPacket(q) => partner[p] # partner[q]
  BY DEF PacketAlive
<1>1. Serves(p, partner[p])
  BY DEF ZeroInv, PartnerInv
<1>2. HasPacket(partner[p]) /\ ~UsesPacket(partner[p])
  BY <1>1 DEF Serves, HasPacket, UsesPacket
<1>. QED
  BY <1>2 DEF ZeroInv, PartnerInv

LEMMA NoneIsMissing == ZeroInv => UnwrapsSucceed
<1> SUFFICES ASSUME ZeroInv, NEW p \in Threads
             PROVE  /\ pc[p] = "leave" => \E i \in 1 .. Len(entries[Side(p)]) : entries[Side(p)][i] = p
                    /\ pc[p] = "transfer" /\ p \in Receivers => msg[partner[p]] # NoMsg
                    /\ pc[p] = "wait_ready" /\ ready[p] /\ p \in Receivers => msg[p] # NoMsg
                    /\ pc[p] = "take_back" /\ p \in Senders => msg[p] # NoMsg
  BY DEF UnwrapsSucceed
<1>1. ASSUME pc[p] = "leave" PROVE Listed(p)
  BY <1>1 DEF ZeroInv, CellInv, EntryInv, Pending, HasPacket
<1>2. ASSUME pc[p] = "transfer", p \in Receivers PROVE msg[partner[p]] # NoMsg
  <2>1. Serves(p, partner[p]) /\ partner[p] \in Threads
    BY <1>2, ZeroTypes DEF ZeroInv, PartnerInv, UsesPacket
  <2>2. partner[p] \in Senders /\ msg[partner[p]] = Item(partner[p])
    BY <1>2, <2>1, SideFacts DEF Serves
  <2>. QED
    BY <2>1, <2>2, ItemFacts DEF ZeroInv
<1>3. ASSUME pc[p] = "wait_ready", ready[p], p \in Receivers PROVE msg[p] # NoMsg
  BY <1>3 DEF ZeroInv, CellInv, SelecteeInv, Selectee, HasPacket
<1>4. ASSUME pc[p] = "take_back", p \in Senders PROVE msg[p] # NoMsg
  <2>1. msg[p] = Item(p)
    BY <1>4 DEF ZeroInv, CellInv, PacketInv, Pending, HasPacket
  <2>. QED
    BY <1>4, <2>1, ItemFacts DEF ZeroInv
<1>. QED
  BY <1>1, <1>2, <1>3, <1>4 DEF Listed, In

LEMMA DecidedIsReturned == ZeroInv => ReturnsWhatWasDecided
BY DEF ZeroInv, SettledInv, ReturnsWhatWasDecided

LEMMA ListsAreEmptied == ZeroInv => NoEntryLeft
<1> SUFFICES ASSUME ZeroInv, \A p \in Everyone : pc[p] = "idle", NEW s \in Sides
             PROVE  entries[s] = << >>
  BY DEF NoEntryLeft
<1>1. entries[s] \in Seq(Threads)
  BY ZeroTypes DEF ZeroInv
<1>2. \A p \in Threads : ~Listed(p)
  BY SideFacts DEF ZeroInv, EntryInv, Pending, HasPacket
<1>3. ASSUME NEW i \in 1 .. Len(entries[s]) PROVE FALSE
  <2>1. entries[s][i] \in Threads /\ Side(entries[s][i]) = s
    BY <1>1 DEF ZeroInv, ListsInv
  <2>. QED
    BY <1>2, <2>1 DEF Listed, In
<1>. QED
  BY <1>1, <1>3

\* src/utils.rs and src/zero.rs: at most one thread is in the critical section.
THEOREM LockExcludes == Spec => []TypeOK
<1>1. ZeroInv => TypeOK
  BY DEF ZeroInv
<1>. QED
  BY <1>1, ZeroInvariance, PTL

\* write and read of src/zero.rs go through a raw pointer to a packet on another
\* thread's stack: that thread is still in its call, and nobody else does.
THEOREM PacketsOutliveTheirUse == Spec => []PacketAlive
BY PartnersAlive, ZeroInvariance, PTL

\* None of the unwraps of src/zero.rs panics.
THEOREM NoUnwrapPanics == Spec => []UnwrapsSucceed
BY NoneIsMissing, ZeroInvariance, PTL

\* A message goes to the receiver that was selected for it, or back to its
\* sender; no call returns anything but what was decided under the lock.
THEOREM NothingIsMixedUp == Spec => []ReturnsWhatWasDecided
BY DecidedIsReturned, ZeroInvariance, PTL

\* The assertion in the drop of Waker in src/waker.rs holds.
THEOREM EntriesAreTakenOut == Spec => []NoEntryLeft
BY ListsAreEmptied, ZeroInvariance, PTL

------------------------------------------------------------------------------
(***************************************************************************)
(* Proof that the channel without capacity of src/zero.rs implements       *)
(* Rendezvous: a spinlock, two lists, select cells and packets on other    *)
(* threads' stacks behave as if each call were decided in one step.        *)
(***************************************************************************)
\* The call of a thread is undecided until it is under the lock.
UndecidedInv ==
  \A p \in Threads :
    /\ op[p] \in {"try", "block"}
    /\ pc[p] \notin {"shut", "disconnect"}
    /\ IF pc[p] \in {"lock", "meet"}
         THEN reply[p] = Reply(op[p])
         ELSE reply[p].kind \notin {"try", "block"}

\* While the channel is open, only one side waits.
OneSideWaits ==
  ~disconnected => \E s \in Sides : entries[s] = << >>

RefinementInv == ZeroInv /\ UndecidedInv /\ OneSideWaits

waitingNow == IF disconnected THEN << >> ELSE entries["senders"] \o entries["receivers"]
itemNow    == [p \in Threads |-> item[p]]

------------------------------------------------------------------------------
(***************************************************************************)
(* What the lists say while the channel is open.                           *)
(***************************************************************************)
LEMMA EntriesWait ==
  ASSUME ZeroInv, ~disconnected, NEW s \in Sides, NEW i \in 1 .. Len(entries[s])
  PROVE  select[entries[s][i]] = "waiting" /\ entries[s][i] \in Threads /\ Side(entries[s][i]) = s
<1>1. entries[s] \in Seq(Threads)
  BY ZeroTypes DEF ZeroInv
<1>2. entries[s][i] \in Threads /\ Side(entries[s][i]) = s
  BY <1>1 DEF ZeroInv, ListsInv
<1>3. Listed(entries[s][i])
  BY <1>2 DEF Listed, In
<1>4. Pending(entries[s][i]) /\ select[entries[s][i]] \in {"waiting", "operation", "disconnected"}
  BY <1>2, <1>3, ZeroTypes DEF ZeroInv, EntryInv
<1>. QED
  BY <1>2, <1>4 DEF ZeroInv, CellInv, Pending

\* Nobody to meet: the list of the other side is empty.
LEMMA AloneIsEmpty ==
  ASSUME ZeroInv, ~disconnected, NEW p \in Threads
  PROVE  Alone(p) <=> entries[Opposite(p)] = << >>
<1>1. Opposite(p) \in Sides /\ entries[Opposite(p)] \in Seq(Threads)
  BY SideFacts, ZeroTypes DEF ZeroInv
<1>2. ASSUME entries[Opposite(p)] # << >> PROVE ~Alone(p)
  <2>1. 1 \in 1 .. Len(entries[Opposite(p)])
    BY <1>1, <1>2
  <2>. QED
    BY <1>1, <2>1, EntriesWait DEF Alone, NoneWaiting
<1>3. ASSUME entries[Opposite(p)] = << >> PROVE Alone(p)
  BY <1>3 DEF Alone, NoneWaiting
<1>. QED
  BY <1>2, <1>3

LEMMA WaitingIsSide ==
  ASSUME ZeroInv, ~disconnected, NEW p \in Threads
  PROVE  /\ entries[Opposite(p)] = << >> => waitingNow = entries[Side(p)]
         /\ entries[Side(p)] = << >> => waitingNow = entries[Opposite(p)]
<1>1. entries["senders"] \in Seq(Threads) /\ entries["receivers"] \in Seq(Threads)
  BY ZeroTypes DEF ZeroInv, Sides
<1>2. \A t \in Seq(Threads) : t \o << >> = t /\ << >> \o t = t
  BY ConcatEmptySeq
<1>. QED
  BY <1>1, <1>2, SideFacts DEF waitingNow, Side, Opposite

LEMMA MeetsTheFirst ==
  ASSUME RefinementInv, NEW p \in Threads, Meet(p)
  PROVE  /\ ~disconnected /\ pc[p] = "meet"
         /\ entries[Opposite(p)] # << >> /\ entries[Side(p)] = << >>
         /\ entries' = [entries EXCEPT ![Opposite(p)] = Tail(@)]
         /\ Head(entries[Opposite(p)]) \in Threads
         /\ LET q == Head(entries[Opposite(p)])
                s == IF p \in Senders THEN p ELSE q
                r == IF p \in Senders THEN q ELSE p
            IN  reply' = [reply EXCEPT ![s] = Reply("sent"), ![r] = Received(Item(s))]
<1>1. /\ ZeroInv /\ Opposite(p) \in Sides /\ Side(p) \in Sides /\ Opposite(p) # Side(p)
      /\ entries[Opposite(p)] \in Seq(Threads) /\ entries \in [Sides -> Seq(Threads)]
  BY SideFacts, ZeroTypes DEF RefinementInv, ZeroInv
<1>2. PICK i \in 1 .. Len(entries[Opposite(p)]) :
        LET q == entries[Opposite(p)][i]
            s == IF p \in Senders THEN p ELSE q
            r == IF p \in Senders THEN q ELSE p
        IN  /\ FirstWaiting(Opposite(p), i)
            /\ entries' = [entries EXCEPT ![Opposite(p)] = Without(@, i)]
            /\ reply' = [reply EXCEPT ![s] = Reply("sent"), ![r] = Received(Item(s))]
  BY DEF Meet
<1>3. pc[p] = "meet"
  BY DEF Meet, Goto
<1>4. ~disconnected
  <2>1. \A c \in Everyone : pc[c] # "disconnect"
    BY <1>1, <1>3, SideFacts, ZeroTypes DEF ZeroInv, Holds
  <2>2. Listed(entries[Opposite(p)][i]) /\ entries[Opposite(p)][i] \in Threads
    BY <1>1 DEF ZeroInv, ListsInv, Listed, In
  <2>. QED
    BY <1>1, <1>2, <2>1, <2>2 DEF ZeroInv, EntryInv, ShutInv, Pending, FirstWaiting
<1>5. i = 1 /\ entries[Opposite(p)] # << >>
  <2>1. i > 1 => select[entries[Opposite(p)][1]] # "waiting"
    BY <1>2 DEF FirstWaiting
  <2>2. 1 \in 1 .. Len(entries[Opposite(p)])
    BY <1>1
  <2>. QED
    BY <1>1, <1>4, <2>1, <2>2, EntriesWait
<1>6. entries[Side(p)] = << >>
  BY <1>1, <1>4, <1>5 DEF RefinementInv, OneSideWaits, Sides
<1>7. Without(entries[Opposite(p)], 1) = Tail(entries[Opposite(p)])
  <2> DEFINE e == entries[Opposite(p)]
  <2>1. Tail(e) = SubSeq(e, 2, Len(e)) /\ SubSeq(e, 1, 0) = << >> /\ Tail(e) \in Seq(Threads)
    BY <1>1, <1>5, TailIsSubSeq, SubSeqEmpty
  <2>2. SubSeq(e, 1, 0) \o SubSeq(e, 2, Len(e)) = Tail(e)
    BY <2>1, ConcatEmptySeq
  <2>. QED
    BY <2>2 DEF Without
<1>8. Head(entries[Opposite(p)]) = entries[Opposite(p)][1] /\ Head(entries[Opposite(p)]) \in Threads
  BY <1>1, <1>5
<1>. QED
  BY <1>1, <1>2, <1>3, <1>4, <1>5, <1>6, <1>7, <1>8

------------------------------------------------------------------------------
(***************************************************************************)
(* The added parts of the invariant.                                       *)
(***************************************************************************)
LEMMA RefinementInit == Init => RefinementInv
BY ZeroInit, SideFacts DEF RefinementInv, UndecidedInv, OneSideWaits, Init, Reply, Sides

\* A call whose reply stays as it is has not moved into or out of its first steps.
LEMMA UndecidedKept ==
  ASSUME ZeroInv, UndecidedInv, NEW p \in Everyone, NEW l \in Labels,
         pc' = [pc EXCEPT ![p] = l], UNCHANGED <<op, reply>>,
         p \in Threads => /\ l \notin {"shut", "disconnect"}
                          /\ l \in {"lock", "meet"} <=> pc[p] \in {"lock", "meet"}
  PROVE  UndecidedInv'
<1>1. pc'[p] = l /\ \A x \in Everyone : x # p => pc'[x] = pc[x]
  BY ZeroTypes DEF ZeroInv
<1>. QED
  BY <1>1, SideFacts DEF UndecidedInv

LEMMA UndecidedContinue ==
  ASSUME RefinementInv, NEW p \in Everyone, Continue(p)
  PROVE  UndecidedInv'
<1>1. /\ ZeroInv /\ TypeOK /\ UndecidedInv
      /\ pc \in [Everyone -> Labels]
      /\ reply \in [Threads -> [kind : Meeting!ReplyKinds, msg : Message \union {NoMsg}]]
  BY ZeroTypes DEF RefinementInv, ZeroInv
<1> USE DEF Goto, Labels
<1>2. CASE Lock(p)
  BY <1>1, <1>2, UndecidedKept DEF Lock, UndecidedInv
<1>3. CASE Unlock(p)
  BY <1>1, <1>3, UndecidedKept DEF Unlock
<1>4. ASSUME p \in Threads, Transfer(p) \/ Ready(p) \/ WaitReady(p) \/ Leave(p) \/ TakeBack(p)
      PROVE  UndecidedInv'
  BY <1>1, <1>4, UndecidedKept DEF Transfer, Ready, WaitReady, Leave, TakeBack
<1>5. ASSUME p \in Threads, Selected(p) PROVE UndecidedInv'
  BY <1>1, <1>5, UndecidedKept DEF Selected
<1>6. ASSUME p \in Threads, GiveUp(p) \/ TooLate(p) \/ Wait(p) PROVE UndecidedInv'
  <2>1. PICK l \in {"unlock", "unlock_waiting"}, r \in {Refused(p, "nobody"), Refused(p, "disconnected"), Reply("waiting")} :
          pc' = [pc EXCEPT ![p] = l] /\ reply' = [reply EXCEPT ![p] = r]
    BY <1>6 DEF GiveUp, TooLate, Wait, Answer
  <2>2. UNCHANGED op /\ r.kind \notin {"try", "block"}
    BY <1>6 DEF GiveUp, TooLate, Wait, Refused, Reply
  <2>. QED
    BY <1>1, <1>6, <2>1, <2>2, SideFacts DEF UndecidedInv
<1>7. ASSUME p \in Threads, Meet(p) PROVE UndecidedInv'
  <2> DEFINE q == Head(entries[Opposite(p)])
             s == IF p \in Senders THEN p ELSE q
             r == IF p \in Senders THEN q ELSE p
  <2>1. /\ q \in Threads
        /\ reply' = [reply EXCEPT ![s] = Reply("sent"), ![r] = Received(Item(s))]
        /\ ~disconnected /\ entries[Opposite(p)] # << >>
    BY <1>7, MeetsTheFirst
  <2>2. pc' = [pc EXCEPT ![p] = "unlock_met"] /\ pc[p] = "meet" /\ UNCHANGED op
    BY <1>7 DEF Meet
  <2>3. pc[q] \notin {"lock", "meet"}
    <3>1. entries[Opposite(p)] \in Seq(Threads) /\ Opposite(p) \in Sides
      BY <1>1, <1>7, ZeroTypes, SideFacts
    <3>2. 1 \in 1 .. Len(entries[Opposite(p)]) /\ q = entries[Opposite(p)][1]
      BY <2>1, <3>1
    <3>3. Side(q) = Opposite(p) /\ Listed(q)
      BY <1>1, <3>1, <3>2 DEF ZeroInv, ListsInv, Listed, In
    <3>. QED
      BY <1>1, <2>1, <3>3 DEF ZeroInv, EntryInv, Pending, HasPacket
  <2>4. \A x \in Threads : reply'[x].kind \in {"sent", "received"} \/ (x # s /\ x # r /\ reply'[x] = reply[x])
    BY <1>1, <1>7, <2>1 DEF Reply, Received
  <2>5. \A x \in Threads : x # s /\ x # r => x # p
    OBVIOUS
  <2>6. \A x \in Threads : /\ x # p => pc'[x] = pc[x]
                           /\ pc'[x] \in {"lock", "meet"} => x # p /\ x # q
    BY <1>1, <1>7, <2>2, <2>3, SideFacts
  <2>7. pc'[p] = "unlock_met"
    BY <1>1, <2>2
  <2>8. \A x \in Threads : pc'[x] \in {"lock", "meet"} => reply'[x] = reply[x]
    BY <1>1, <1>7, <2>1, <2>6
  <2> HIDE DEF q, s, r
  <2>. QED
    BY <1>1, <2>2, <2>4, <2>5, <2>6, <2>7, <2>8 DEF UndecidedInv
<1>8. CASE Shut(p)
  <2>1. p \notin Threads /\ pc[p] = "shut"
    BY <1>1, <1>8 DEF Shut, UndecidedInv
  <2>2. \A x \in Threads : pc'[x] = pc[x] /\ x \in Everyone
    BY <1>1, <1>8, <2>1, SideFacts DEF Shut
  <2>3. \A x \in Threads : reply'[x] = IF reply[x].kind = "waiting" THEN Refused(x, "disconnected") ELSE reply[x]
    BY <1>8 DEF Shut
  <2>4. ASSUME NEW x \in Threads
        PROVE  reply'[x].kind \in {"try", "block"} <=> reply[x].kind \in {"try", "block"}
    <3>1. Refused(x, "disconnected").kind = "disconnected"
      BY DEF Refused
    <3>2. CASE reply[x].kind = "waiting"
      BY <2>3, <3>1, <3>2
    <3>3. CASE reply[x].kind # "waiting"
      BY <2>3, <3>3
    <3>. QED
      BY <3>2, <3>3
  <2>5. \A x \in Threads : pc[x] \in {"lock", "meet"} => reply'[x] = reply[x]
    BY <1>1, <2>3 DEF UndecidedInv, Reply
  <2>6. UNCHANGED op
    BY <1>8 DEF Shut
  <2>. QED
    BY <1>1, <2>2, <2>4, <2>5, <2>6 DEF UndecidedInv
<1>9. CASE Disconnect(p)
  BY <1>1, <1>9 DEF Disconnect, UndecidedInv
<1>10. CASE Disconnected(p)
  BY <1>1, <1>10, UndecidedKept DEF Disconnected
<1>. QED
  BY <1>2, <1>3, <1>4, <1>5, <1>6, <1>7, <1>8, <1>9, <1>10 DEF Continue

LEMMA OneSideContinue ==
  ASSUME RefinementInv, NEW p \in Everyone, Continue(p)
  PROVE  OneSideWaits'
<1>1. ZeroInv /\ TypeOK /\ OneSideWaits /\ entries \in [Sides -> Seq(Threads)]
  BY ZeroTypes DEF RefinementInv, ZeroInv
<1>2. CASE UNCHANGED entries /\ (disconnected => disconnected')
  BY <1>1, <1>2 DEF OneSideWaits
<1>3. ASSUME p \in Threads, Meet(p) PROVE OneSideWaits'
  <2>1. entries[Side(p)] = << >> /\ entries'[Side(p)] = entries[Side(p)] /\ Side(p) \in Sides
    BY <1>1, <1>3, MeetsTheFirst, SideFacts
  <2>. QED
    BY <2>1 DEF OneSideWaits
<1>4. ASSUME p \in Threads, Wait(p) PROVE OneSideWaits'
  <2>1. entries[Opposite(p)] = << >>
    BY <1>1, <1>4, AloneIsEmpty DEF Wait
  <2>2. entries'[Opposite(p)] = << >> /\ Opposite(p) \in Sides
    BY <1>1, <1>4, <2>1, SideFacts DEF Wait
  <2>. QED
    BY <2>2 DEF OneSideWaits
<1>5. ASSUME p \in Threads, Leave(p) PROVE OneSideWaits'
  BY <1>1, <1>5 DEF Leave, Goto, ZeroInv, CellInv, HasPacket, OneSideWaits
<1>. QED
  BY <1>2, <1>3, <1>4, <1>5 DEF Continue, Lock, Unlock, GiveUp, TooLate, Transfer, Ready, Selected,
     WaitReady, TakeBack, Shut, Disconnect, Disconnected, data

LEMMA CallKeeps ==
  ASSUME RefinementInv, NEW p \in Everyone, NEW k \in {"try", "block", "shut"}, Call(p, k),
         p \in Threads <=> k # "shut"
  PROVE  UndecidedInv' /\ OneSideWaits'
<1>1. /\ ZeroInv /\ UndecidedInv
      /\ pc \in [Everyone -> Labels] /\ op \in [Everyone -> {"try", "block", "shut"}]
      /\ reply \in [Threads -> [kind : Meeting!ReplyKinds, msg : Message \union {NoMsg}]]
  BY ZeroTypes DEF RefinementInv, ZeroInv
<1>2. /\ pc' = [pc EXCEPT ![p] = "lock"] /\ op' = [op EXCEPT ![p] = k]
      /\ k = "shut" => reply' = reply
      /\ k # "shut" => reply' = [reply EXCEPT ![p] = Reply(k)]
      /\ UNCHANGED <<disconnected, entries>>
  BY DEF Call, Begin, Goto, Answer, data
<1>3. UndecidedInv'
  BY <1>1, <1>2, SideFacts DEF UndecidedInv
<1>4. OneSideWaits'
  BY <1>2 DEF RefinementInv, OneSideWaits
<1>. QED
  BY <1>3, <1>4

LEMMA RefinementNext == RefinementInv /\ [Next]_vars => RefinementInv'
<1> SUFFICES ASSUME RefinementInv, [Next]_vars PROVE RefinementInv'
  OBVIOUS
<1>1. ZeroInv'
  BY ZeroNext DEF RefinementInv
<1>2. CASE UNCHANGED vars
  BY <1>1, <1>2 DEF RefinementInv, vars, data, UndecidedInv, OneSideWaits
<1>3. ASSUME NEW p \in Threads, Call(p, "try") \/ Call(p, "block") PROVE RefinementInv'
  BY <1>1, <1>3, CallKeeps, SideFacts DEF RefinementInv
<1>4. ASSUME NEW p \in Closers, Call(p, "shut") PROVE RefinementInv'
  <2>1. p \in Everyone /\ p \notin Threads
    BY ZeroAssumption DEF Everyone
  <2>. QED
    BY <1>1, <1>4, <2>1, CallKeeps DEF RefinementInv
<1>5. ASSUME NEW p \in Everyone, Continue(p) PROVE RefinementInv'
  BY <1>1, <1>5, UndecidedContinue, OneSideContinue DEF RefinementInv
<1>. QED
  BY <1>2, <1>3, <1>4, <1>5 DEF Next

LEMMA RefinementInvariance == Spec => []RefinementInv
BY RefinementInit, RefinementNext, PTL DEF Spec

------------------------------------------------------------------------------
(***************************************************************************)
(* Every step is a step of Rendezvous, or changes nothing of it.           *)
(***************************************************************************)
LEMMA MeetingDefs ==
  /\ Meeting!Threads = Threads
  /\ Meeting!rendezvousVars = <<waitingNow, disconnected, itemNow, reply>>
  /\ \A k : Meeting!Reply(k) = Reply(k)
  /\ \A m : Meeting!Received(m) = Received(m)
  /\ \A p \in Threads : Meeting!Item(p) = Item(p) /\ \A k : Meeting!Refused(p, k) = Refused(p, k)
BY DEF Meeting!Threads, Threads, Meeting!rendezvousVars, waitingNow, itemNow, Meeting!Reply, Reply,
       Meeting!Received, Received, Meeting!Item, Item, Meeting!Msg, Msg, Meeting!Refused, Refused

LEMMA InitMeets == Init => Meeting!RendezvousInit
<1> SUFFICES ASSUME Init PROVE Meeting!RendezvousInit
  OBVIOUS
<1>1. waitingNow = << >>
  BY DEF Init, waitingNow, Sides
<1>2. itemNow = [p \in Threads |-> 0]
  BY SideFacts DEF Init, itemNow
<1>. QED
  BY <1>1, <1>2, MeetingDefs DEF Init, Meeting!RendezvousInit, waitingNow, itemNow

\* A thread that looks for somebody to meet is still open to any outcome.
LEMMA StillUndecided ==
  ASSUME RefinementInv, NEW p \in Threads, pc[p] = "meet"
  PROVE  reply[p] = Reply(op[p]) /\ op[p] \in {"try", "block"} /\ Meeting!Undecided(p)
BY MeetingDefs DEF RefinementInv, UndecidedInv, Meeting!Undecided, Meeting!Pending

\* Whoever is alone under the lock sees nobody of the other side in front.
LEMMA AloneMeets ==
  ASSUME RefinementInv, ~disconnected, NEW p \in Threads, Alone(p)
  PROVE  /\ entries[Opposite(p)] = << >> /\ waitingNow = entries[Side(p)]
         /\ Meeting!Alone(p)
<1>1. /\ entries[Opposite(p)] = << >> /\ waitingNow = entries[Side(p)]
      /\ entries[Side(p)] \in Seq(Threads) /\ Side(p) \in Sides
  BY AloneIsEmpty, WaitingIsSide, SideFacts, ZeroTypes DEF RefinementInv, ZeroInv
<1>2. CASE waitingNow = << >>
  BY <1>1, <1>2 DEF Meeting!Alone, waitingNow
<1>3. CASE waitingNow # << >>
  <2>1. /\ Head(waitingNow) = entries[Side(p)][1] /\ 1 \in 1 .. Len(entries[Side(p)])
        /\ Head(waitingNow) \in Threads
    BY <1>1, <1>3
  <2>2. Side(Head(waitingNow)) = Side(p)
    BY <1>1, <2>1, EntriesWait DEF RefinementInv
  <2>3. Meeting!OneSide(p, Head(waitingNow))
    BY <2>1, <2>2, SideFacts DEF Meeting!OneSide
  <2>. QED
    BY <1>1, <2>3 DEF Meeting!Alone, waitingNow
<1>. QED
  BY <1>1, <1>2, <1>3

LEMMA MeetMeets ==
  ASSUME RefinementInv, NEW p \in Threads, Meet(p)
  PROVE  \E q \in Threads : Meeting!Meet(p, q)
<1> DEFINE q == Head(entries[Opposite(p)])
           s == IF p \in Senders THEN p ELSE q
           r == IF p \in Senders THEN q ELSE p
<1>1. /\ ~disconnected /\ pc[p] = "meet"
      /\ entries[Opposite(p)] # << >> /\ entries[Side(p)] = << >>
      /\ entries' = [entries EXCEPT ![Opposite(p)] = Tail(@)]
      /\ q \in Threads
      /\ reply' = [reply EXCEPT ![s] = Reply("sent"), ![r] = Received(Item(s))]
  BY MeetsTheFirst
<1>2. UNCHANGED <<disconnected, item>>
  BY DEF Meet
<1>3. /\ entries \in [Sides -> Seq(Threads)] /\ Opposite(p) \in Sides /\ Side(p) \in Sides
      /\ Side(p) # Opposite(p) /\ ZeroInv
  BY SideFacts, ZeroTypes DEF RefinementInv, ZeroInv
<1>4. waitingNow = entries[Opposite(p)]
  BY <1>1, <1>3, WaitingIsSide
<1>5. waitingNow' = Tail(waitingNow)
  <2>1. Tail(entries[Opposite(p)]) \in Seq(Threads)
    BY <1>1, <1>3
  <2>2. entries'[Opposite(p)] = Tail(entries[Opposite(p)]) /\ entries'[Side(p)] = << >>
    BY <1>1, <1>3
  <2>3. Tail(entries[Opposite(p)]) \o << >> = Tail(entries[Opposite(p)])
        /\ << >> \o Tail(entries[Opposite(p)]) = Tail(entries[Opposite(p)])
    BY <2>1, ConcatEmptySeq
  <2>. QED
    BY <1>1, <1>2, <1>4, <2>2, <2>3, SideFacts DEF waitingNow, Side, Opposite
<1>6. ~Meeting!OneSide(p, q)
  <2>1. 1 \in 1 .. Len(entries[Opposite(p)]) /\ q = entries[Opposite(p)][1]
    BY <1>1, <1>3
  <2>2. Side(q) = Opposite(p)
    BY <1>1, <1>3, <2>1, EntriesWait
  <2>. QED
    BY <1>1, <1>3, <2>2, SideFacts DEF Meeting!OneSide, Side, Opposite
<1>7. s \in Threads
  BY <1>1
<1>8. Meeting!Undecided(p)
  BY <1>1, StillUndecided
<1>9. Meeting!Item(s) = Item(s)
  BY <1>7, MeetingDefs
<1>10. itemNow' = itemNow
  BY <1>2 DEF itemNow
<1>11. reply' = [reply EXCEPT ![s] = Meeting!Reply("sent"), ![r] = Meeting!Received(Meeting!Item(s))]
  BY <1>1, <1>9, MeetingDefs
<1>12. q = Head(waitingNow) /\ waitingNow # << >>
  BY <1>1, <1>4
<1>13. Meeting!Meet(p, q)
  <2> HIDE DEF q
  <2>. QED
    BY <1>2, <1>5, <1>6, <1>8, <1>10, <1>11, <1>12 DEF Meeting!Meet, waitingNow, itemNow
<1>. QED
  BY <1>1, <1>13

LEMMA CallMeets ==
  ASSUME RefinementInv, NEW p \in Threads, NEW k \in {"try", "block"}, Call(p, k)
  PROVE  Meeting!Make(p, k)
<1>1. /\ pc[p] = "idle" /\ item[p] < MaxCalls
      /\ item' = [item EXCEPT ![p] = item[p] + 1]
      /\ reply' = [reply EXCEPT ![p] = Reply(k)]
      /\ UNCHANGED <<entries, disconnected>>
  BY DEF Call, Begin, Goto, Answer, data
<1>2. item[p] + 1 \in 0 .. MaxCalls
  BY <1>1, ZeroAssumption, ZeroTypes, SideFacts DEF RefinementInv, ZeroInv
<1>3. itemNow' = [itemNow EXCEPT ![p] = item[p] + 1]
  BY <1>1, ZeroTypes, SideFacts DEF RefinementInv, ZeroInv, itemNow
<1>4. reply[p].kind \notin Meeting!InProgress
  BY <1>1 DEF RefinementInv, UndecidedInv, ZeroInv, SettledInv, HasPacket, Meeting!InProgress
<1>5. waitingNow' = waitingNow
  BY <1>1 DEF waitingNow
<1>. QED
  BY <1>1, <1>2, <1>3, <1>4, <1>5, MeetingDefs DEF Meeting!Make, Meeting!Answer, waitingNow, itemNow

LEMMA RefuseMeets ==
  ASSUME RefinementInv, NEW p \in Threads, GiveUp(p) \/ TooLate(p)
  PROVE  Meeting!GiveUp(p) \/ Meeting!TooLate(p)
<1>1. reply[p] = Reply(op[p]) /\ Meeting!Undecided(p)
  BY StillUndecided DEF GiveUp, TooLate, Goto
<1>2. UNCHANGED <<waitingNow, itemNow, disconnected>>
  BY DEF GiveUp, TooLate, data, waitingNow, itemNow
<1>3. CASE GiveUp(p)
  <2>1. Meeting!Alone(p) /\ ~disconnected /\ op[p] = "try"
    BY <1>3, AloneMeets DEF GiveUp
  <2>2. reply' = [reply EXCEPT ![p] = Refused(p, "nobody")]
    BY <1>3 DEF GiveUp, Answer
  <2>. QED
    BY <1>1, <1>2, <2>1, <2>2, MeetingDefs
    DEF Meeting!GiveUp, Meeting!Pending, Meeting!Answer, waitingNow, itemNow
<1>4. CASE TooLate(p)
  BY <1>1, <1>2, <1>4, MeetingDefs DEF TooLate, Answer, Meeting!TooLate, Meeting!Answer, waitingNow, itemNow
<1>. QED
  BY <1>3, <1>4

LEMMA WaitMeets ==
  ASSUME RefinementInv, NEW p \in Threads, Wait(p)
  PROVE  Meeting!Join(p)
<1>1. /\ pc[p] = "meet" /\ op[p] = "block" /\ ~disconnected /\ Alone(p)
      /\ entries' = [entries EXCEPT ![Side(p)] = Append(@, p)]
      /\ reply' = [reply EXCEPT ![p] = Reply("waiting")]
      /\ UNCHANGED <<disconnected, item>>
  BY DEF Wait, Goto, Answer
<1>2. /\ entries[Opposite(p)] = << >> /\ waitingNow = entries[Side(p)] /\ Meeting!Alone(p)
      /\ entries \in [Sides -> Seq(Threads)]
  BY <1>1, AloneMeets, ZeroTypes DEF RefinementInv, ZeroInv
<1>3. Side(p) \in Sides /\ Opposite(p) \in Sides /\ Side(p) # Opposite(p)
  BY SideFacts
<1>4. waitingNow' = Append(waitingNow, p)
  <2>1. entries'[Side(p)] = Append(entries[Side(p)], p) /\ entries'[Opposite(p)] = << >>
    BY <1>1, <1>2, <1>3
  <2>2. Append(entries[Side(p)], p) \in Seq(Threads)
    BY <1>2, <1>3
  <2>3. /\ Append(entries[Side(p)], p) \o << >> = Append(entries[Side(p)], p)
        /\ << >> \o Append(entries[Side(p)], p) = Append(entries[Side(p)], p)
    BY <2>2, ConcatEmptySeq
  <2>. QED
    BY <1>1, <1>2, <2>1, <2>3 DEF waitingNow, Side, Opposite
<1>5. Meeting!Pending(p, "block")
  BY <1>1, StillUndecided, MeetingDefs DEF Meeting!Pending
<1>6. itemNow' = itemNow
  BY <1>1 DEF itemNow
<1>. QED
  BY <1>1, <1>2, <1>4, <1>5, <1>6, MeetingDefs DEF Meeting!Join, Meeting!Answer, waitingNow, itemNow

LEMMA ShutMeets ==
  ASSUME RefinementInv, NEW p \in Everyone, Shut(p)
  PROVE  Meeting!Close
<1>1. /\ disconnected' = TRUE /\ UNCHANGED <<entries, item>>
      /\ reply' = [q \in Threads |->
                     IF reply[q].kind = "waiting" THEN Refused(q, "disconnected") ELSE reply[q]]
  BY DEF Shut, data
<1>2. ASSUME NEW q \in Threads PROVE Meeting!Pending(q, "waiting") <=> reply[q].kind = "waiting"
  <2>1. CASE reply[q].kind = "waiting"
    <3>1. HasPacket(q) /\ select[q] # "operation"
      BY <2>1 DEF RefinementInv, ZeroInv, SettledInv, SelecteeInv, Selectee
    <3>2. reply[q] = IF disconnected THEN Refused(q, "disconnected") ELSE Reply("waiting")
      BY <3>1 DEF RefinementInv, ZeroInv, PacketInv, Pending
    <3>3. Refused(q, "disconnected").kind = "disconnected"
      BY DEF Refused
    <3>. QED
      BY <2>1, <3>2, <3>3, MeetingDefs DEF Meeting!Pending
  <2>2. CASE reply[q].kind # "waiting"
    BY <2>2 DEF Meeting!Pending, Meeting!Reply
  <2>. QED
    BY <2>1, <2>2
<1>3. reply' = [q \in Threads |-> IF Meeting!Pending(q, "waiting")
                                     THEN Meeting!Refused(q, "disconnected") ELSE reply[q]]
  BY <1>1, <1>2, MeetingDefs
<1>4. waitingNow' = << >> /\ itemNow' = itemNow
  BY <1>1 DEF waitingNow, itemNow
<1>. QED
  BY <1>1, <1>3, <1>4, MeetingDefs DEF Meeting!Close, waitingNow, itemNow

\* The rest is invisible: the lock, the select cells, the packets.
LEMMA InvisibleMeets ==
  ASSUME RefinementInv, UNCHANGED <<disconnected, item, reply>>, disconnected \/ UNCHANGED entries
  PROVE  UNCHANGED Meeting!rendezvousVars
<1>1. waitingNow' = waitingNow /\ itemNow' = itemNow
  BY DEF waitingNow, itemNow
<1>. QED
  BY <1>1, MeetingDefs DEF Meeting!rendezvousVars, waitingNow, itemNow

LEMMA ContinueMeets ==
  ASSUME RefinementInv, NEW p \in Everyone, Continue(p)
  PROVE  [Meeting!RendezvousNext]_(Meeting!rendezvousVars)
<1>1. CASE \/ Lock(p) \/ Unlock(p) \/ Disconnect(p) \/ Disconnected(p)
           \/ Transfer(p) \/ Ready(p) \/ Selected(p) \/ WaitReady(p) \/ TakeBack(p)
  BY <1>1, InvisibleMeets
  DEF Lock, Unlock, Disconnect, Disconnected, Transfer, Ready, Selected, WaitReady, TakeBack, data
<1>2. ASSUME p \in Threads, Leave(p) PROVE UNCHANGED Meeting!rendezvousVars
  <2>1. disconnected
    BY <1>2 DEF Leave, Goto, RefinementInv, ZeroInv, CellInv, HasPacket
  <2>. QED
    BY <1>2, <2>1, InvisibleMeets DEF Leave
<1>3. ASSUME p \in Threads, Meet(p) \/ GiveUp(p) \/ TooLate(p) \/ Wait(p)
      PROVE  Meeting!RendezvousNext
  BY <1>3, MeetMeets, RefuseMeets, WaitMeets, MeetingDefs DEF Meeting!RendezvousNext
<1>4. CASE Shut(p)
  BY <1>4, ShutMeets DEF Meeting!RendezvousNext
<1>. QED
  BY <1>1, <1>2, <1>3, <1>4 DEF Continue

\* zero.rs is a rendezvous: every run of ZeroChannel is, through the mapping of
\* Meeting, a run of Rendezvous, for any threads and any number of calls.
THEOREM ZeroIsRendezvous == Spec => ImplementsRendezvous
<1>1. Init => Meeting!RendezvousInit
  BY InitMeets
<1>2. RefinementInv /\ [Next]_vars => [Meeting!RendezvousNext]_(Meeting!rendezvousVars)
  <2> SUFFICES ASSUME RefinementInv, [Next]_vars
               PROVE  [Meeting!RendezvousNext]_(Meeting!rendezvousVars)
    OBVIOUS
  <2>1. CASE UNCHANGED vars
    BY <2>1, InvisibleMeets DEF vars, data
  <2>2. ASSUME NEW p \in Threads, NEW k \in {"try", "block"}, Call(p, k) PROVE Meeting!RendezvousNext
    BY <2>2, CallMeets, MeetingDefs DEF Meeting!RendezvousNext
  <2>3. ASSUME NEW p \in Closers, Call(p, "shut") PROVE UNCHANGED Meeting!rendezvousVars
    <3>1. p \notin Threads /\ UNCHANGED <<disconnected, entries, reply>>
          /\ item' = [item EXCEPT ![p] = item[p] + 1]
      BY <2>3, ZeroAssumption DEF Call, Begin, data
    <3>2. itemNow' = itemNow
      BY <3>1, ZeroTypes, SideFacts DEF RefinementInv, ZeroInv, itemNow
    <3>. QED
      BY <3>1, <3>2, MeetingDefs DEF Meeting!rendezvousVars, waitingNow, itemNow
  <2>4. ASSUME NEW p \in Everyone, Continue(p)
        PROVE  [Meeting!RendezvousNext]_(Meeting!rendezvousVars)
    BY <2>4, ContinueMeets
  <2>. QED
    BY <2>1, <2>2, <2>3, <2>4 DEF Next
<1>. QED
  BY <1>1, <1>2, RefinementInvariance, PTL DEF Spec, ImplementsRendezvous, Meeting!RendezvousSpec
==============================================================================
