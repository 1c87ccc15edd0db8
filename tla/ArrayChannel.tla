---------------------------- MODULE ArrayChannel ----------------------------
(***************************************************************************)
(* The bounded channel of src/array.rs: a ring of Cap slots shared by      *)
(* threads that send and threads that receive without a lock.  Every       *)
(* action is one access to shared memory together with the local           *)
(* computation that follows it; the threads interleave between any two.    *)
(*                                                                         *)
(* head, tail and the slots' stamps are the packed numbers of the code: an *)
(* index in the bits below MarkBit, the mark bit (channel disconnected,    *)
(* only ever set in tail) and, from OneLap = 2 * MarkBit up, a lap count.  *)
(* A slot whose stamp equals tail is free, one whose stamp is head + 1     *)
(* holds a message.  They are natural numbers: with 64 bits the lap count  *)
(* does not wrap within the life of a process.                             *)
(*                                                                         *)
(* This module stops at the slots; the wakers that the code calls after a  *)
(* stamp is stored, and after a failed or last call, are in ArrayTasks.    *)
(***************************************************************************)
EXTENDS Naturals, Sequences, FiniteSets

CONSTANTS
  Cap,        \* number of slots: with_capacity(cap), cap > 0
  MarkBit,    \* (cap + 1).next_power_of_two(); only MarkBit > Cap is relied on
  Senders,    \* threads that call try_send / send
  Receivers,  \* threads that call try_recv / poll
  MaxSends,   \* bound: messages each sender gets through
  NoMsg       \* the content of a slot never written

ASSUME CapAssumption ==
  /\ Cap \in Nat \ {0}
  /\ MarkBit \in Nat
  /\ MarkBit > Cap
  /\ MaxSends \in Nat

VARIABLES
  head, tail,  \* packed positions of the next receive and of the next send
  slotStamp,   \* slotStamp[i]: Slot::stamp of slot i
  slotMsg,     \* slotMsg[i]: Slot::msg of slot i
  pc,          \* where each thread is in start_send/write or start_recv/read
  seen,        \* the thread's local copy of tail (sending) or head (receiving)
  token,       \* the Array token: slot reserved and stamp to store afterwards
  \* Ghosts: what happened so far, read by no guard of the algorithm.
  at,          \* position in the stream of the slot a thread has reserved
  sent,        \* sent[p]: messages of p that got a slot
  log,         \* every message that got a slot, in the order of the reservations
  taken,       \* how many positions receivers have reserved
  got,         \* got[r]: what r has received, with the positions it came from
  reply        \* reply[p]: what p's call returns, once that is decided

shared == <<head, tail, slotStamp, slotMsg>>
local  == <<seen, token, at>>
ghosts == <<sent, log, taken, got, reply>>
vars   == <<head, tail, slotStamp, slotMsg, pc, seen, token, at, sent, log, taken, got, reply>>

Threads == Senders \union Receivers
Slots   == 0 .. Cap - 1
OneLap  == 2 * MarkBit

\* usize::next_power_of_two, to state which MarkBit the code computes.
NextPowerOfTwo(n) ==
  CHOOSE b \in {2 ^ k : k \in 0 .. n} :
    b >= n /\ \A k \in 0 .. n : 2 ^ k >= n => b <= 2 ^ k

(***************************************************************************)
(* Packed positions.  MarkBit is a power of two, so masking is arithmetic: *)
(* x & (mark_bit - 1), x & !(one_lap - 1), x & mark_bit, x & !mark_bit.    *)
(***************************************************************************)
Index(x)    == x % MarkBit
LapOf(x)    == x - (x % OneLap)
Marked(x)   == (x % OneLap) >= MarkBit
Unmarked(x) == IF Marked(x) THEN x - MarkBit ELSE x

\* Mutant of Following: one_lap = mark_bit, not twice that.
FollowingShortLap(x) == IF Index(x) + 1 < Cap THEN x + 1 ELSE LapOf(x) + MarkBit

\* The packed position after x: next index, or index 0 of the next lap.
Following(x) == IF Index(x) + 1 < Cap THEN x + 1 ELSE LapOf(x) + OneLap

Msg(p, n) == [from |-> p, seq |-> n]
Reply(k) == [kind |-> k, msg |-> NoMsg]
Received(m) == [kind |-> "received", msg |-> m]

Init ==
  /\ head = 0
  /\ tail = 0
  /\ slotStamp = [i \in Slots |-> i]
  /\ slotMsg = [i \in Slots |-> NoMsg]
  /\ pc = [p \in Threads |-> "idle"]
  /\ seen = [p \in Threads |-> 0]
  /\ token = [p \in Threads |-> [slot |-> 0, stamp |-> 0]]
  /\ at = [p \in Threads |-> 0]
  /\ sent = [p \in Senders |-> 0]
  /\ log = << >>
  /\ taken = 0
  /\ got = [p \in Receivers |-> << >>]
  /\ reply = [p \in Threads |-> Reply("none")]

Goto(p, from, to) == pc[p] = from /\ pc' = [pc EXCEPT ![p] = to]

See(p, x) == seen' = [seen EXCEPT ![p] = x]

Answer(p, r) == reply' = [reply EXCEPT ![p] = r]

------------------------------------------------------------------------------
(***************************************************************************)
(* Sending: start_send, then write.                                        *)
(***************************************************************************)
SendStart(p) ==
  /\ sent[p] < MaxSends
  /\ Goto(p, "idle", "send_loop")
  /\ See(p, tail)
  /\ Answer(p, Reply(IF Marked(tail) THEN "late" ELSE "sending"))
  /\ UNCHANGED <<shared, token, at, sent, log, taken, got>>

\* The mark bit in the tail it saw: no slot, and write returns the message.
SendClosed(p) ==
  /\ Goto(p, "send_loop", "idle")
  /\ Marked(seen[p])
  /\ Answer(p, Reply("closed"))
  /\ UNCHANGED <<shared, local, sent, log, taken, got>>

\* Mutant of SendInspect: the stamp is not looked at.
SendInspectNoStamp(p) ==
  /\ ~Marked(seen[p])
  /\ Goto(p, "send_loop", "send_cas")
  /\ UNCHANGED <<shared, local, ghosts>>

\* Load the stamp of the slot the tail points at and compare.
SendInspect(p) ==
  LET stamp == slotStamp[Index(seen[p])] IN
  /\ ~Marked(seen[p])
  /\ \/ /\ stamp = seen[p]
        /\ Goto(p, "send_loop", "send_cas")
     \/ /\ stamp # seen[p]
        /\ stamp + OneLap = seen[p] + 1
        /\ Goto(p, "send_loop", "send_full")
     \/ /\ stamp # seen[p]
        /\ stamp + OneLap # seen[p] + 1
        /\ Goto(p, "send_loop", "send_reload")
  /\ UNCHANGED <<shared, local, ghosts>>

\* Mutant of SendReload: tail is not loaded again.
SendReloadStale(p) ==
  /\ Goto(p, "send_reload", "send_loop")
  /\ UNCHANGED <<shared, local, ghosts>>

SendReload(p) ==
  /\ Goto(p, "send_reload", "send_loop")
  /\ See(p, tail)
  /\ UNCHANGED <<shared, token, at, ghosts>>

\* What a compare-exchange of tail that succeeds brings about.
Reserve(p) ==
  /\ Goto(p, "send_cas", "write")
  /\ tail' = Following(seen[p])
  /\ token' = [token EXCEPT ![p] = [slot |-> Index(seen[p]), stamp |-> seen[p] + 1]]
  /\ at' = [at EXCEPT ![p] = Len(log)]
  /\ sent' = [sent EXCEPT ![p] = @ + 1]
  /\ log' = Append(log, Msg(p, sent'[p]))
  /\ Answer(p, Reply("sent"))
  /\ UNCHANGED <<head, slotMsg, seen, taken, got>>

\* Mutants of SendReserve: tail is stored without comparing; the stamp is stored
\* before the message.
SendReserveNoCompare(p) == Reserve(p) /\ UNCHANGED slotStamp

SendReserveEarlyStamp(p) ==
  /\ tail = seen[p]
  /\ Reserve(p)
  /\ slotStamp' = [slotStamp EXCEPT ![Index(seen[p])] = seen[p] + 1]

\* The compare-exchange of tail succeeds: the slot is this thread's to write.
SendReserve(p) ==
  /\ tail = seen[p]
  /\ Reserve(p)
  /\ UNCHANGED slotStamp

\* It fails, because tail moved or (the weak form) for no reason.
SendRetry(p) ==
  /\ Goto(p, "send_cas", "send_loop")
  /\ See(p, tail)
  /\ UNCHANGED <<shared, token, at, ghosts>>

\* The slot is a lap behind: full if head is a lap behind too.  try_send gives
\* up here, and send at its deadline or else starts over (a new SendStart).
SendFull(p) ==
  /\ head + OneLap = seen[p]
  /\ Goto(p, "send_full", "idle")
  /\ Answer(p, Reply("full"))
  /\ UNCHANGED <<shared, local, sent, log, taken, got>>

SendNotFull(p) ==
  /\ head + OneLap # seen[p]
  /\ Goto(p, "send_full", "send_reload")
  /\ UNCHANGED <<shared, local, ghosts>>

\* Mutant of Write: the message does not replace the one of the lap before.
WriteKeeps(p) ==
  /\ Goto(p, "write", "publish")
  /\ slotMsg' = [slotMsg EXCEPT ![token[p].slot] = IF @ = NoMsg THEN Msg(p, sent[p]) ELSE @]
  /\ UNCHANGED <<head, tail, slotStamp, local, ghosts>>

\* write: the message goes into the slot, then the stamp makes it readable.
Write(p) ==
  /\ Goto(p, "write", "publish")
  /\ slotMsg' = [slotMsg EXCEPT ![token[p].slot] = Msg(p, sent[p])]
  /\ UNCHANGED <<head, tail, slotStamp, local, ghosts>>

Publish(p) ==
  /\ Goto(p, "publish", "idle")
  /\ slotStamp' = [slotStamp EXCEPT ![token[p].slot] = token[p].stamp]
  /\ UNCHANGED <<head, tail, slotMsg, local, ghosts>>

------------------------------------------------------------------------------
(***************************************************************************)
(* Receiving: start_recv, then read (poll_read is the same code).          *)
(***************************************************************************)
RecvStart(p) ==
  /\ Goto(p, "idle", "recv_loop")
  /\ See(p, head)
  /\ Answer(p, Reply("receiving"))
  /\ UNCHANGED <<shared, token, at, sent, log, taken, got>>

RecvInspect(p) ==
  LET stamp == slotStamp[Index(seen[p])] IN
  /\ \/ /\ stamp = seen[p] + 1
        /\ Goto(p, "recv_loop", "recv_cas")
     \/ /\ stamp = seen[p]
        /\ Goto(p, "recv_loop", "recv_empty")
     \/ /\ stamp \notin {seen[p], seen[p] + 1}
        /\ Goto(p, "recv_loop", "recv_reload")
  /\ UNCHANGED <<shared, local, ghosts>>

RecvReload(p) ==
  /\ Goto(p, "recv_reload", "recv_loop")
  /\ See(p, head)
  /\ UNCHANGED <<shared, token, at, ghosts>>

\* The compare-exchange of head succeeds.  The message it will read is decided
\* here: the one whose sender reserved the same position.
RecvReserve(p) ==
  /\ Goto(p, "recv_cas", "read")
  /\ head = seen[p]
  /\ head' = Following(seen[p])
  /\ token' = [token EXCEPT ![p] = [slot |-> Index(seen[p]), stamp |-> seen[p] + OneLap]]
  /\ at' = [at EXCEPT ![p] = taken]
  /\ taken' = taken + 1
  /\ Answer(p, Received(log[taken + 1]))
  /\ UNCHANGED <<tail, slotStamp, slotMsg, seen, sent, log, got>>

RecvRetry(p) ==
  /\ Goto(p, "recv_cas", "recv_loop")
  /\ See(p, head)
  /\ UNCHANGED <<shared, token, at, ghosts>>

\* Mutant of RecvEmpty: a free slot is taken for an empty channel.
RecvEmptyNoTail(p) ==
  /\ Goto(p, "recv_empty", "idle")
  /\ Answer(p, Reply(IF Marked(tail) THEN "disconnected" ELSE "empty"))
  /\ UNCHANGED <<shared, local, sent, log, taken, got>>

\* The slot is free: the channel is empty if tail has not passed the head seen.
RecvEmpty(p) ==
  /\ Unmarked(tail) = seen[p]
  /\ Goto(p, "recv_empty", "idle")
  /\ Answer(p, Reply(IF Marked(tail) THEN "disconnected" ELSE "empty"))
  /\ UNCHANGED <<shared, local, sent, log, taken, got>>

RecvNotEmpty(p) ==
  /\ Unmarked(tail) # seen[p]
  /\ Goto(p, "recv_empty", "recv_reload")
  /\ UNCHANGED <<shared, local, ghosts>>

\* read: the message leaves the slot, then the stamp frees it for the next lap.
Read(p) ==
  /\ Goto(p, "read", "release")
  /\ got' = [got EXCEPT ![p] = Append(@, [pos |-> at[p], msg |-> slotMsg[token[p].slot]])]
  /\ UNCHANGED <<shared, local, sent, log, taken, reply>>

Release(p) ==
  /\ Goto(p, "release", "idle")
  /\ slotStamp' = [slotStamp EXCEPT ![token[p].slot] = token[p].stamp]
  /\ UNCHANGED <<head, tail, slotMsg, local, ghosts>>

------------------------------------------------------------------------------
\* shutdown: fetch_or of the mark bit, by any handle and at any time.
Shutdown ==
  /\ tail' = IF Marked(tail) THEN tail ELSE tail + MarkBit
  /\ UNCHANGED <<head, slotStamp, slotMsg, pc, local, ghosts>>

SenderStep(p) ==
  \/ SendStart(p) \/ SendClosed(p) \/ SendInspect(p) \/ SendReload(p)
  \/ SendReserve(p) \/ SendRetry(p) \/ SendFull(p) \/ SendNotFull(p)
  \/ Write(p) \/ Publish(p)

ReceiverStep(p) ==
  \/ RecvStart(p) \/ RecvInspect(p) \/ RecvReload(p)
  \/ RecvReserve(p) \/ RecvRetry(p) \/ RecvEmpty(p) \/ RecvNotEmpty(p)
  \/ Read(p) \/ Release(p)

Next ==
  \/ \E p \in Senders : SenderStep(p)
  \/ \E p \in Receivers : ReceiverStep(p)
  \/ Shutdown

Spec == Init /\ [][Next]_vars

(***************************************************************************)
(* A thread inside a call keeps running (no caller needs to make a call),  *)
(* and a weak compare-exchange that could succeed does not fail for ever.  *)
(***************************************************************************)
SenderContinues(p) ==
  \/ SendClosed(p) \/ SendInspect(p) \/ SendReload(p) \/ SendRetry(p)
  \/ SendFull(p) \/ SendNotFull(p) \/ Write(p) \/ Publish(p)

ReceiverContinues(p) ==
  \/ RecvInspect(p) \/ RecvReload(p) \/ RecvRetry(p)
  \/ RecvEmpty(p) \/ RecvNotEmpty(p) \/ Read(p) \/ Release(p)

Fairness ==
  /\ \A p \in Senders : WF_vars(SenderContinues(p)) /\ SF_vars(SendReserve(p))
  /\ \A p \in Receivers : WF_vars(ReceiverContinues(p)) /\ SF_vars(RecvReserve(p))

FairSpec == Spec /\ Fairness
------------------------------------------------------------------------------
(***************************************************************************)
(* Channel::drop, when nobody else is left, and len, of which it uses the  *)
(* arithmetic.                                                             *)
(***************************************************************************)
\* Mutant of LenOf: equal indices mean empty.
LenOfNoFull(t, h) ==
  IF Index(h) <= Index(t) THEN Index(t) - Index(h) ELSE Cap - Index(h) + Index(t)

\* What len makes of the tail and the head it loaded.
LenOf(t, h) ==
  LET hix == Index(h)
      tix == Index(t)
  IN  IF hix < tix THEN tix - hix
      ELSE IF hix > tix THEN Cap - hix + tix
      ELSE IF Unmarked(t) = h THEN 0
      ELSE Cap

\* The slots that Channel::drop destroys, in its order: as many as len reports,
\* from the head on, wrapping at the end of the buffer.
DroppedSlots ==
  LET hix == Index(head)
      Slot(i) == IF hix + i < Cap THEN hix + i ELSE hix + i - Cap
  IN  [i \in 1 .. LenOf(tail, head) |-> Slot(i - 1)]
------------------------------------------------------------------------------
(***************************************************************************)
(* Properties.                                                             *)
(***************************************************************************)
Message == [from : Senders, seq : 1 .. MaxSends]

SendLabels == {"send_loop", "send_reload", "send_cas", "send_full", "write", "publish"}
RecvLabels == {"recv_loop", "recv_reload", "recv_cas", "recv_empty", "read", "release"}

\* Threads that own the slot in their token: between the compare-exchange that
\* reserved it and the store of the stamp that gives it up.
Writing(p) == pc[p] \in {"write", "publish"}
Reading(p) == pc[p] \in {"read", "release"}
Owns(p)    == Writing(p) \/ Reading(p)

\* Messages that hold a position no receiver has reserved yet, oldest first.
Pending == SubSeq(log, taken + 1, Len(log))

\* The channel as its callers see it.
Fifo == INSTANCE BoundedFifo WITH queue <- Pending, closed <- Marked(tail)

\* Shape of the state: head and stamps are packed numbers, head is never marked,
\* a token names a real slot.
TypeOK ==
  /\ head \in Nat /\ ~Marked(head)
  /\ tail \in Nat
  /\ slotStamp \in [Slots -> Nat]
  /\ slotMsg \in [Slots -> Message \union {NoMsg}]
  /\ pc \in [Threads -> {"idle"} \union SendLabels \union RecvLabels]
  /\ seen \in [Threads -> Nat]
  /\ token \in [Threads -> [slot : Slots, stamp : Nat]]
  /\ at \in [Threads -> Nat]
  /\ sent \in [Senders -> 0 .. MaxSends]
  /\ log \in Seq(Message)
  /\ taken \in Nat
  /\ got \in [Receivers -> Seq([pos : Nat, msg : Message \union {NoMsg}])]
  /\ reply \in [Threads -> [kind : Fifo!ReplyKinds, msg : Message \union {NoMsg}]]

\* The UnsafeCell of a slot is never accessed by two threads at once: two
\* threads that own a slot own different ones (array.rs write and read take no
\* lock and rely on the stamps alone).
SlotExclusive ==
  \A p, q \in Threads : p # q /\ Owns(p) /\ Owns(q) => token[p].slot # token[q].slot

\* The channel never holds more than its capacity, although tail is advanced
\* on the word of a stamp that another thread may be about to change.
WithinCapacity == taken <= Len(log) /\ Len(log) - taken <= Cap

\* What a receiver takes out of a slot is the message put in by the send that
\* reserved the same position: never a leftover of an earlier lap, never the
\* content of a slot not yet written.
ReadsWhatWasSent ==
  \A r \in Receivers : \A i \in 1 .. Len(got[r]) :
    /\ got[r][i].pos < Len(log)
    /\ got[r][i].msg = log[got[r][i].pos + 1]

\* No message is handed out twice, to one receiver or to two.
DeliveredOnce ==
  \A r1, r2 \in Receivers :
    \A i \in 1 .. Len(got[r1]), j \in 1 .. Len(got[r2]) :
      got[r1][i].msg = got[r2][j].msg => r1 = r2 /\ i = j

\* A receiver sees the messages of any one sender in the order they were sent.
SenderOrder ==
  \A r \in Receivers : \A i, j \in 1 .. Len(got[r]) :
    i < j /\ got[r][i].msg.from = got[r][j].msg.from
      => got[r][i].msg.seq < got[r][j].msg.seq

\* Channel::drop destroys every message that was sent and not received, and
\* nothing else: neither a slot never written nor one whose message was moved
\* out.  It runs when all handles are gone, hence no call is in progress.
DropTakesTheRest ==
  (\A p \in Threads : pc[p] = "idle") =>
    [i \in DOMAIN DroppedSlots |-> slotMsg[DroppedSlots[i]]] = Pending

\* Every call takes effect at one instant between its start and its return, as
\* on a FIFO queue of Cap messages: a send is refused as full only when the
\* queue is full and was open when the send began, a receive reports empty or
\* disconnected only when nothing is pending, and nothing is accepted once the
\* mark bit is set.
ImplementsFifo == Fifo!FifoSpec

\* Under fairness every call returns: no thread spins for ever in start_send or
\* start_recv on a stamp that nobody is going to store.
EveryCallReturns == \A p \in Threads : pc[p] # "idle" ~> pc[p] = "idle"
==============================================================================
