--------------------------- MODULE ArrayChannelInv ---------------------------
(***************************************************************************)
(* The inductive invariant of ArrayChannel.                                *)
(*                                                                         *)
(* Number the messages by the order in which their senders advanced tail.  *)
(* Position k lives in slot k % Cap, and Stamp(k) is the packed number     *)
(* that tail, head or that slot carries when they stand at position k.     *)
(* Positions taken .. Len(log)-1 hold messages, the Cap positions before   *)
(* Len(log) may still have a reader, and those from Len(log) up to         *)
(* taken+Cap-1 are free or about to be freed.                              *)
(***************************************************************************)
EXTENDS ArrayChannel

\* A sender between its load of tail and its compare-exchange.
Sending(p) == pc[p] \in SendLabels /\ ~Writing(p)

SlotOf(k) == k % Cap
Stamp(k)  == (k \div Cap) * OneLap + (k % Cap)

\* tail and head count the reservations, tail possibly marked.
Counters ==
  /\ tail \in {Stamp(Len(log)), Stamp(Len(log)) + MarkBit}
  /\ head = Stamp(taken)

\* Which labels a thread can be at, and the replies that go with a call in
\* progress.
Role(p) ==
  /\ pc[p] \in SendLabels => p \in Senders
  /\ pc[p] \in RecvLabels => p \in Receivers
  /\ Sending(p) => /\ sent[p] < MaxSends
                   /\ \/ reply[p] = Reply("sending")
                      \/ reply[p] = Reply("late") /\ pc[p] = "send_loop" /\ Marked(seen[p])
  /\ pc[p] \in RecvLabels /\ ~Reading(p) => reply[p] = Reply("receiving")
  /\ pc[p] = "idle" \/ Owns(p) => reply[p].kind \notin Fifo!InProgress

\* A local copy is never ahead of the counter it was loaded from.  If the
\* counter still has the value copied, the slot still has the stamp that was
\* compared with it: this is why the compare-exchange on the counter alone is
\* enough to own the slot.
Copy(p) ==
  /\ Sending(p) => Unmarked(seen[p]) <= Stamp(Len(log))
  /\ Sending(p) /\ Marked(seen[p]) => Marked(tail)
  /\ pc[p] \in {"send_cas", "send_full"} => ~Marked(seen[p])
  /\ pc[p] = "send_cas" /\ seen[p] = tail => slotStamp[Index(seen[p])] = seen[p]
  /\ pc[p] \in RecvLabels /\ ~Reading(p) => seen[p] <= head
  /\ pc[p] = "recv_cas" /\ seen[p] = head => slotStamp[Index(seen[p])] = seen[p] + 1

\* A thread writing position at[p]: the slot still has the stamp of the free
\* slot, and the token has the stamp of the full one.
WriterToken(p) ==
  Writing(p) =>
    /\ at[p] \in taken .. Len(log) - 1
    /\ token[p] = [slot |-> SlotOf(at[p]), stamp |-> Stamp(at[p]) + 1]
    /\ slotStamp[SlotOf(at[p])] = Stamp(at[p])
    /\ log[at[p] + 1] = Msg(p, sent[p])
    /\ pc[p] = "publish" => slotMsg[SlotOf(at[p])] = log[at[p] + 1]

\* A thread reading position at[p]: no sender has come round to the slot.
ReaderToken(p) ==
  Reading(p) =>
    /\ at[p] < taken /\ Len(log) <= at[p] + Cap
    /\ token[p] = [slot |-> SlotOf(at[p]), stamp |-> Stamp(at[p]) + OneLap]
    /\ slotStamp[SlotOf(at[p])] = Stamp(at[p]) + 1
    /\ slotMsg[SlotOf(at[p])] = log[at[p] + 1]

OnePositionEach ==
  \A p, q \in Threads : p # q /\ Owns(p) /\ Owns(q) => at[p] # at[q]

\* A position between taken and Len(log) that nobody is writing is readable.
FullSlots ==
  \A k \in taken .. Len(log) - 1 :
    (\A p \in Threads : Writing(p) => at[p] # k) =>
      /\ slotStamp[SlotOf(k)] = Stamp(k) + 1
      /\ slotMsg[SlotOf(k)] = log[k + 1]

\* A position up to a lap ahead of taken is writable once the reader of the
\* position one lap before it is gone.
FreeSlots ==
  \A k \in Len(log) .. taken + Cap - 1 :
    (\A p \in Threads : Reading(p) => at[p] + Cap # k) =>
      slotStamp[SlotOf(k)] = Stamp(k)

\* The log holds each sender's messages in order, without gaps at the end.
LogInOrder ==
  /\ \A i \in 1 .. Len(log) : log[i].seq <= sent[log[i].from]
  /\ \A i, j \in 1 .. Len(log) :
       i < j /\ log[i].from = log[j].from => log[i].seq < log[j].seq

\* What receivers hold comes from distinct positions below taken, in increasing
\* order for each of them, the position about to be read being a new one.
GotInOrder ==
  \A r \in Receivers :
    /\ \A i \in 1 .. Len(got[r]) :
         /\ got[r][i].pos < taken
         /\ got[r][i].msg = log[got[r][i].pos + 1]
    /\ \A i, j \in 1 .. Len(got[r]) : i < j => got[r][i].pos < got[r][j].pos
    /\ pc[r] = "read" => \A i \in 1 .. Len(got[r]) : got[r][i].pos < at[r]

GotDisjoint ==
  \A r1, r2 \in Receivers : r1 # r2 =>
    \A i \in 1 .. Len(got[r1]) :
      /\ \A j \in 1 .. Len(got[r2]) : got[r1][i].pos # got[r2][j].pos
      /\ pc[r2] = "read" => got[r1][i].pos # at[r2]

IInv ==
  /\ TypeOK
  /\ WithinCapacity
  /\ Counters
  /\ \A p \in Threads : Role(p) /\ Copy(p) /\ WriterToken(p) /\ ReaderToken(p)
  /\ OnePositionEach
  /\ FullSlots
  /\ FreeSlots
  /\ LogInOrder
  /\ GotInOrder
  /\ GotDisjoint
==============================================================================
