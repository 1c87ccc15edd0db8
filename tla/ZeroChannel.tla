----------------------------- MODULE ZeroChannel -----------------------------
(***************************************************************************)
(* The channel without capacity of src/zero.rs: threads that send and      *)
(* threads that receive meet under a spinlock (src/utils.rs).  A call that *)
(* finds nobody leaves an entry in the list of its side (src/waker.rs) and *)
(* spins on its select cell (src/context.rs); the call that comes to meet  *)
(* it, or shutdown, writes that cell, takes the entry out, and passes the  *)
(* message through a packet on the stack of the thread that spins.         *)
(*                                                                         *)
(* An action is one access to memory that others may access at the same    *)
(* time; what a thread does to data under the lock is one action.  try and *)
(* block are the two kinds of a call: try_send and try_recv, _send and     *)
(* recv.  A thread has one operation and one packet at a time, so both are *)
(* named by the thread, and so is Zero, the pointer to a packet.           *)
(*                                                                         *)
(* Context::packet is stored and reset but never read, and all packets are *)
(* on the stack, so neither appears.  The calls of the asynchronous wakers *)
(* are in ZeroTasks.                                                       *)
(***************************************************************************)
EXTENDS Naturals, Sequences, FiniteSets

CONSTANTS
  Senders,    \* threads that call try_send and _send
  Receivers,  \* threads that call try_recv and recv
  Closers,    \* threads that call shutdown
  MaxCalls,   \* bound: calls that each thread makes
  NoMsg,      \* no message: None
  Nobody      \* holder of the lock when it is free

Threads  == Senders \union Receivers
Everyone == Threads \union Closers

ASSUME ZeroAssumption ==
  /\ Senders \intersect Receivers = {}
  /\ Threads \intersect Closers = {}
  /\ MaxCalls \in Nat
  /\ NoMsg \notin [from : Senders, seq : Nat]
  /\ Nobody \notin Everyone

VARIABLES
  lock,          \* Spinlock::flag, with the thread that set it
  disconnected,  \* Inner::is_disconnected
  entries,       \* entries[side]: Waker::selectors of Inner::senders and receivers
  select,        \* select[p]: Context::select of thread p
  msg,           \* msg[p]: Packet::msg of p's packet
  ready,         \* ready[p]: Packet::ready of p's packet
  pc,            \* where each thread is
  op,            \* the kind of its call: try, block, shut
  item,          \* senders: number of the message in hand; receivers: of the call
  partner,       \* the thread whose packet p is using: Zero
  result,        \* what p's call returned
  reply          \* ghost: what was decided about p's call

data   == <<entries, select, msg, ready>>
vars   == <<lock, disconnected, data, pc, op, item, partner, result, reply>>

Sides       == {"senders", "receivers"}
Side(p)     == IF p \in Senders THEN "senders" ELSE "receivers"
Opposite(p) == IF p \in Senders THEN "receivers" ELSE "senders"

Msg(p, n) == [from |-> p, seq |-> n]
Item(p)   == IF p \in Senders THEN Msg(p, item[p]) ELSE NoMsg

Reply(k)      == [kind |-> k, msg |-> NoMsg]
Received(m)   == [kind |-> "received", msg |-> m]
Refused(p, k) == [kind |-> k, msg |-> Item(p)]

Init ==
  /\ lock = Nobody
  /\ disconnected = FALSE
  /\ entries = [s \in Sides |-> << >>]
  /\ select = [p \in Threads |-> "waiting"]
  /\ msg = [p \in Threads |-> NoMsg]
  /\ ready = [p \in Threads |-> FALSE]
  /\ pc = [p \in Everyone |-> "idle"]
  /\ op = [p \in Everyone |-> "try"]
  /\ item = [p \in Everyone |-> 0]
  /\ partner = [p \in Threads |-> p]
  /\ result = [p \in Threads |-> Reply("none")]
  /\ reply = [p \in Threads |-> Reply("none")]

Goto(p, from, to) == pc[p] = from /\ pc' = [pc EXCEPT ![p] = to]
Answer(p, r)      == reply' = [reply EXCEPT ![p] = r]
Return(p, r)      == result' = [result EXCEPT ![p] = r]

\* Element i is taken out of list s (Vec::remove).
Without(s, i) == SubSeq(s, 1, i - 1) \o SubSeq(s, i + 1, Len(s))

------------------------------------------------------------------------------
(***************************************************************************)
(* A call, and the lock.                                                   *)
(***************************************************************************)
\* Thread p begins a call of kind k with its n-th message.
Begin(p, k, n) ==
  /\ Goto(p, "idle", "lock")
  /\ op' = [op EXCEPT ![p] = k]
  /\ item' = [item EXCEPT ![p] = n]
  /\ IF k = "shut"
       THEN UNCHANGED <<result, reply>>
       ELSE Return(p, Reply("none")) /\ Answer(p, Reply(k))
  /\ UNCHANGED <<lock, disconnected, data, partner>>

Call(p, k) == item[p] < MaxCalls /\ Begin(p, k, item[p] + 1)

\* Mutant of Lock: the flag is not tested.
LockAnyway(p) ==
  /\ Goto(p, "lock", IF op[p] = "shut" THEN "shut" ELSE "meet") \/ Goto(p, "lock_leave", "leave")
  /\ lock' = p
  /\ UNCHANGED <<disconnected, data, op, item, partner, result, reply>>

\* The swap that finds the flag clear; until then the thread spins.
Lock(p) ==
  /\ lock = Nobody
  /\ lock' = p
  /\ \/ Goto(p, "lock", IF op[p] = "shut" THEN "shut" ELSE "meet")
     \/ Goto(p, "lock_leave", "leave")
  /\ UNCHANGED <<disconnected, data, op, item, partner, result, reply>>

\* The guard is dropped, and the thread goes on as decided under the lock.
Unlock(p) ==
  /\ lock' = Nobody
  /\ \/ Goto(p, "unlock_met", "transfer")
     \/ Goto(p, "unlock_waiting", "wait")
     \/ Goto(p, "unlock_left", "take_back")
     \/ Goto(p, "unlock", "idle")
  /\ UNCHANGED <<disconnected, data, op, item, partner, result, reply>>

------------------------------------------------------------------------------
(***************************************************************************)
(* Under the lock: meet somebody, give up, or wait.                        *)
(***************************************************************************)
\* Entry i of a side is the first whose select cell is still waiting.
FirstWaiting(s, i) ==
  /\ select[entries[s][i]] = "waiting"
  /\ \A j \in 1 .. i - 1 : select[entries[s][j]] # "waiting"

NoneWaiting(s) == \A i \in 1 .. Len(entries[s]) : select[entries[s][i]] # "waiting"

Alone(p) == NoneWaiting(Opposite(p))

\* Waker::try_select: select the operation of the thread that waits, and take
\* its entry out.  (An entry of the caller itself is passed over; it has none.)
Meet(p) ==
  /\ Goto(p, "meet", "unlock_met")
  /\ \E i \in 1 .. Len(entries[Opposite(p)]) :
       LET q == entries[Opposite(p)][i]
           s == IF p \in Senders THEN p ELSE q
           r == IF p \in Senders THEN q ELSE p
       IN  /\ FirstWaiting(Opposite(p), i)
           /\ select' = [select EXCEPT ![q] = "operation"]
           /\ entries' = [entries EXCEPT ![Opposite(p)] = Without(@, i)]
           /\ partner' = [partner EXCEPT ![p] = q]
           /\ reply' = [reply EXCEPT ![s] = Reply("sent"), ![r] = Received(Item(s))]
  /\ UNCHANGED <<lock, disconnected, msg, ready, op, item, result>>

\* Nobody to meet: try_send and try_recv give up.
GiveUp(p) ==
  /\ Goto(p, "meet", "unlock")
  /\ Alone(p) /\ ~disconnected /\ op[p] = "try"
  /\ Answer(p, Refused(p, "nobody"))
  /\ Return(p, Refused(p, "nobody"))
  /\ UNCHANGED <<lock, disconnected, data, op, item, partner>>

\* The channel is disconnected: an error that returns the message.
TooLate(p) ==
  /\ Goto(p, "meet", "unlock")
  /\ Alone(p) /\ disconnected
  /\ Answer(p, Refused(p, "disconnected"))
  /\ Return(p, Refused(p, "disconnected"))
  /\ UNCHANGED <<lock, disconnected, data, op, item, partner>>

\* Mutants of Wait: the thread-local context is not reset; disconnected is not
\* looked at.
WaitStale(p) ==
  /\ Goto(p, "meet", "unlock_waiting")
  /\ Alone(p) /\ ~disconnected /\ op[p] = "block"
  /\ msg' = [msg EXCEPT ![p] = Item(p)]
  /\ ready' = [ready EXCEPT ![p] = FALSE]
  /\ entries' = [entries EXCEPT ![Side(p)] = Append(@, p)]
  /\ Answer(p, Reply("waiting"))
  /\ UNCHANGED <<lock, disconnected, select, op, item, partner, result>>

WaitAnyway(p) ==
  /\ Goto(p, "meet", "unlock_waiting")
  /\ Alone(p) /\ op[p] = "block"
  /\ select' = [select EXCEPT ![p] = "waiting"]
  /\ msg' = [msg EXCEPT ![p] = Item(p)]
  /\ ready' = [ready EXCEPT ![p] = FALSE]
  /\ entries' = [entries EXCEPT ![Side(p)] = Append(@, p)]
  /\ Answer(p, Reply("waiting"))
  /\ UNCHANGED <<lock, disconnected, op, item, partner, result>>

\* _send and recv: reset the thread's context, put a packet on the stack, with
\* the message if there is one to send, and register it.
Wait(p) ==
  /\ Goto(p, "meet", "unlock_waiting")
  /\ Alone(p) /\ ~disconnected /\ op[p] = "block"
  /\ select' = [select EXCEPT ![p] = "waiting"]
  /\ msg' = [msg EXCEPT ![p] = Item(p)]
  /\ ready' = [ready EXCEPT ![p] = FALSE]
  /\ entries' = [entries EXCEPT ![Side(p)] = Append(@, p)]
  /\ Answer(p, Reply("waiting"))
  /\ UNCHANGED <<lock, disconnected, op, item, partner, result>>

------------------------------------------------------------------------------
(***************************************************************************)
(* After the lock: the one that came uses the packet of the one that       *)
(* waited, which must not return before.                                   *)
(***************************************************************************)
\* write puts the message into the packet; read takes it out.
Transfer(p) ==
  LET q == partner[p] IN
  /\ Goto(p, "transfer", "ready")
  /\ IF p \in Senders
       THEN msg' = [msg EXCEPT ![q] = Item(p)] /\ Return(p, Reply("sent"))
       ELSE msg' = [msg EXCEPT ![q] = NoMsg] /\ Return(p, Received(msg[q]))
  /\ UNCHANGED <<lock, disconnected, entries, select, ready, op, item, partner, reply>>

\* ready: from now on the packet may go.
Ready(p) ==
  /\ Goto(p, "ready", "idle")
  /\ ready' = [ready EXCEPT ![partner[p]] = TRUE]
  /\ UNCHANGED <<lock, disconnected, entries, select, msg, op, item, partner, result, reply>>

\* Context::wait: spin until somebody has selected.
Selected(p) ==
  /\ select[p] # "waiting"
  /\ Goto(p, "wait", IF select[p] = "operation" THEN "wait_ready" ELSE "lock_leave")
  /\ UNCHANGED <<lock, disconnected, data, op, item, partner, result, reply>>

\* Mutant of WaitReady: it does not wait.
WaitReadyNot(p) ==
  /\ Goto(p, "wait_ready", "idle")
  /\ Return(p, IF p \in Senders THEN Reply("sent") ELSE Received(msg[p]))
  /\ UNCHANGED <<lock, disconnected, data, op, item, partner, reply>>

\* Packet::wait_ready: spin until the partner is done, and return; a receiver
\* takes the message out of its packet.
WaitReady(p) ==
  /\ ready[p]
  /\ Goto(p, "wait_ready", "idle")
  /\ Return(p, IF p \in Senders THEN Reply("sent") ELSE Received(msg[p]))
  /\ UNCHANGED <<lock, disconnected, data, op, item, partner, reply>>

\* Mutant of Leave: the entry stays in the list.
LeaveStays(p) ==
  /\ Goto(p, "leave", "unlock_left")
  /\ UNCHANGED <<lock, disconnected, data, op, item, partner, result, reply>>

\* Told that the channel is disconnected: under the lock, take the entry out.
Leave(p) ==
  /\ Goto(p, "leave", "unlock_left")
  /\ \E i \in 1 .. Len(entries[Side(p)]) :
       /\ entries[Side(p)][i] = p
       /\ entries' = [entries EXCEPT ![Side(p)] = Without(@, i)]
  /\ UNCHANGED <<lock, disconnected, select, msg, ready, op, item, partner, result, reply>>

\* The sender's message comes back out of its packet.
TakeBack(p) ==
  /\ Goto(p, "take_back", "idle")
  /\ Return(p, [kind |-> "disconnected", msg |-> msg[p]])
  /\ UNCHANGED <<lock, disconnected, data, op, item, partner, reply>>

------------------------------------------------------------------------------
(***************************************************************************)
(* shutdown, under the lock: the flag, then the cells of all that wait,    *)
(* senders first.  The entries stay: each thread takes out its own.        *)
(***************************************************************************)
Shut(p) ==
  /\ Goto(p, "shut", IF disconnected THEN "unlock" ELSE "disconnect")
  /\ disconnected' = TRUE
  /\ reply' = [q \in Threads |->
                 IF reply[q].kind = "waiting" THEN Refused(q, "disconnected") ELSE reply[q]]
  /\ UNCHANGED <<lock, data, op, item, partner, result>>

\* Mutant of Disconnect: the entry is taken out, as try_select does.
DisconnectRemoves(p) ==
  /\ pc[p] = "disconnect"
  /\ \E s \in Sides : \E i \in 1 .. Len(entries[s]) :
       /\ FirstWaiting(s, i)
       /\ select' = [select EXCEPT ![entries[s][i]] = "disconnected"]
       /\ entries' = [entries EXCEPT ![s] = Without(@, i)]
  /\ UNCHANGED <<lock, disconnected, msg, ready, pc, op, item, partner, result, reply>>

Disconnect(p) ==
  /\ pc[p] = "disconnect"
  /\ \E s \in Sides : \E i \in 1 .. Len(entries[s]) :
       /\ FirstWaiting(s, i)
       /\ s = "receivers" => NoneWaiting("senders")
       /\ select' = [select EXCEPT ![entries[s][i]] = "disconnected"]
  /\ UNCHANGED <<lock, disconnected, entries, msg, ready, pc, op, item, partner, result, reply>>

\* Mutant of Disconnected: it stops early.
DisconnectedEarly(p) ==
  /\ Goto(p, "disconnect", "unlock")
  /\ UNCHANGED <<lock, disconnected, data, op, item, partner, result, reply>>

Disconnected(p) ==
  /\ \A s \in Sides : NoneWaiting(s)
  /\ Goto(p, "disconnect", "unlock")
  /\ UNCHANGED <<lock, disconnected, data, op, item, partner, result, reply>>

------------------------------------------------------------------------------
\* What a thread does once it has begun a call.
Continue(p) ==
  \/ Lock(p) \/ Unlock(p)
  \/ p \in Threads /\ \/ Meet(p) \/ GiveUp(p) \/ TooLate(p) \/ Wait(p)
                      \/ Transfer(p) \/ Ready(p) \/ Selected(p) \/ WaitReady(p)
                      \/ Leave(p) \/ TakeBack(p)
  \/ Shut(p) \/ Disconnect(p) \/ Disconnected(p)

Next ==
  \/ \E p \in Threads : Call(p, "try") \/ Call(p, "block")
  \/ \E p \in Closers : Call(p, "shut")
  \/ \E p \in Everyone : Continue(p)

Spec == Init /\ [][Next]_vars

\* A thread inside a call keeps running.  The spinlock is not fair; that a thread
\* gets it in the end rests on MaxCalls.
FairSpec == Spec /\ \A p \in Everyone : WF_vars(Continue(p))
------------------------------------------------------------------------------
(***************************************************************************)
(* Properties.                                                             *)
(***************************************************************************)
Message == [from : Senders, seq : Nat]
Labels == {"idle", "lock", "meet", "unlock", "unlock_met", "unlock_waiting", "transfer", "ready",
           "wait", "wait_ready", "lock_leave", "leave", "unlock_left", "take_back",
           "shut", "disconnect"}

\* Threads that hold the lock; threads whose packet exists, from Context::with to
\* its end; threads that go through the pointer to somebody else's packet.
Holds(p) == pc[p] \in {"meet", "unlock", "unlock_met", "unlock_waiting", "leave", "unlock_left",
                       "shut", "disconnect"}
HasPacket(p) == pc[p] \in {"unlock_waiting", "wait", "wait_ready", "lock_leave", "leave",
                           "unlock_left", "take_back"}
UsesPacket(p) == pc[p] \in {"unlock_met", "transfer", "ready"}

\* The channel as its callers see it.
Meeting == INSTANCE Rendezvous WITH
             waiting <- IF disconnected THEN << >> ELSE entries["senders"] \o entries["receivers"],
             closed <- disconnected,
             item <- [p \in Threads |-> item[p]]

\* Shape of the state; the lock excludes.
TypeOK ==
  /\ lock \in Everyone \union {Nobody}
  /\ disconnected \in BOOLEAN
  /\ entries \in [Sides -> Seq(Threads)]
  /\ select \in [Threads -> {"waiting", "operation", "disconnected"}]
  /\ msg \in [Threads -> Message \union {NoMsg}]
  /\ ready \in [Threads -> BOOLEAN]
  /\ pc \in [Everyone -> Labels]
  /\ op \in [Everyone -> {"try", "block", "shut"}]
  /\ item \in [Everyone -> Nat]
  /\ partner \in [Threads -> Threads]
  /\ result \in [Threads -> [kind : Meeting!ReplyKinds, msg : Message \union {NoMsg}]]
  /\ reply \in [Threads -> [kind : Meeting!ReplyKinds, msg : Message \union {NoMsg}]]
  /\ \A p \in Everyone : Holds(p) <=> lock = p

\* The packet on the stack of a waiting thread is touched by at most one other
\* thread, and only while that stack frame exists: the thread that waited does
\* not return between the select and the last access (zero.rs:126, :145).
PacketAlive ==
  \A p, q \in Threads :
    UsesPacket(p) =>
      /\ HasPacket(partner[p]) /\ ~UsesPacket(partner[p])
      /\ p # q /\ UsesPacket(q) => partner[p] # partner[q]

\* No unwrap of zero.rs meets a None: a thread told that the channel is
\* disconnected still finds its own entry (:218, :280), and whoever takes a
\* message out of a packet finds one (:144, :219, :286).
UnwrapsSucceed ==
  \A p \in Threads :
    /\ pc[p] = "leave" => \E i \in 1 .. Len(entries[Side(p)]) : entries[Side(p)][i] = p
    /\ pc[p] = "transfer" /\ p \in Receivers => msg[partner[p]] # NoMsg
    /\ pc[p] = "wait_ready" /\ ready[p] /\ p \in Receivers => msg[p] # NoMsg
    /\ pc[p] = "take_back" /\ p \in Senders => msg[p] # NoMsg

\* What a call returns is what was decided about it under the lock, the message
\* included: a message goes to the one receiver that was selected, or comes back
\* to its sender, whatever other calls do in between.
ReturnsWhatWasDecided == \A p \in Threads : pc[p] = "idle" => result[p] = reply[p]

\* When no call is in progress both lists are empty, as the drop of a Waker
\* asserts (waker.rs:131): each entry was taken out by exactly one thread.
NoEntryLeft ==
  (\A p \in Everyone : pc[p] = "idle") => \A s \in Sides : entries[s] = << >>

\* Each call is decided at one instant, as a rendezvous: in the order of waiting,
\* never with somebody of the other side left waiting, all at once on shutdown.
ImplementsRendezvous == Meeting!RendezvousSpec

\* A call that is not waiting for somebody to meet returns: it is never stuck at
\* the lock, on a select cell or on a packet, and shutdown ends all waiting.
EveryCallReturns ==
  \A p \in Threads :
    (pc[p] # "idle" /\ reply[p].kind # "waiting") ~> (pc[p] = "idle" \/ reply[p].kind = "waiting")
==============================================================================
