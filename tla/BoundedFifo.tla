----------------------------- MODULE BoundedFifo -----------------------------
(***************************************************************************)
(* What a bounded multi-producer multi-consumer channel promises: a FIFO   *)
(* queue of at most Cap messages that can be closed once.  A call is made, *)
(* takes effect atomically somewhere between its start and its return, and *)
(* then returns the reply it was given at that point.  A closed channel    *)
(* accepts nothing more but still hands out what it holds.                 *)
(*                                                                         *)
(* ArrayChannel implements this specification.                             *)
(***************************************************************************)
EXTENDS Naturals, Sequences

CONSTANTS
  Cap,        \* capacity of the channel
  Senders,    \* threads that send
  Receivers,  \* threads that receive
  MaxSends,   \* bound: messages each sender gets through
  NoMsg       \* stands for "no message"

Threads == Senders \union Receivers

\* The n-th message of sender p.  Senders hand over distinct values, so that a
\* lost, repeated or reordered message can be told apart.
Msg(p, n) == [from |-> p, seq |-> n]

Message == [from : Senders, seq : 1 .. MaxSends]

\* A call in progress: a send, a send begun when the channel was closed already,
\* a receive.
InProgress == {"sending", "late", "receiving"}

ReplyKinds == InProgress \union
  {"none", "sent", "full", "closed", "received", "empty", "disconnected"}

\* A reply without a message, and the reply of a receive that got message m.
Reply(k) == [kind |-> k, msg |-> NoMsg]
Received(m) == [kind |-> "received", msg |-> m]

VARIABLES
  queue,   \* messages accepted and not yet taken, oldest first
  closed,  \* TRUE once the channel is shut down
  sent,    \* sent[p]: how many messages of p were accepted
  reply    \* reply[p]: the reply decided for p's current or last call

fifoVars == <<queue, closed, sent, reply>>

FifoInit ==
  /\ queue = << >>
  /\ closed = FALSE
  /\ sent = [p \in Senders |-> 0]
  /\ reply = [p \in Threads |-> Reply("none")]

Pending(p, k) == reply[p] = Reply(k)

Answer(p, r) == reply' = [reply EXCEPT ![p] = r]

\* A thread that has no call in progress makes one.
CallSend(p) ==
  /\ reply[p].kind \notin InProgress
  /\ Answer(p, Reply(IF closed THEN "late" ELSE "sending"))
  /\ UNCHANGED <<queue, closed, sent>>

CallRecv(p) ==
  /\ reply[p].kind \notin InProgress
  /\ Answer(p, Reply("receiving"))
  /\ UNCHANGED <<queue, closed, sent>>

Accept(p) ==
  /\ Pending(p, "sending")
  /\ ~closed
  /\ Len(queue) < Cap
  /\ queue' = Append(queue, Msg(p, sent[p] + 1))
  /\ sent' = [sent EXCEPT ![p] = @ + 1]
  /\ Answer(p, Reply("sent"))
  /\ UNCHANGED closed

\* A send may be refused as "full" only at an instant the queue is full, and
\* only if the channel was open when it began.
RefuseFull(p) ==
  /\ Pending(p, "sending")
  /\ Len(queue) = Cap
  /\ Answer(p, Reply("full"))
  /\ UNCHANGED <<queue, closed, sent>>

RefuseClosed(p) ==
  /\ Pending(p, "sending") \/ Pending(p, "late")
  /\ closed
  /\ Answer(p, Reply("closed"))
  /\ UNCHANGED <<queue, closed, sent>>

Deliver(p) ==
  /\ Pending(p, "receiving")
  /\ queue # << >>
  /\ queue' = Tail(queue)
  /\ Answer(p, Received(Head(queue)))
  /\ UNCHANGED <<closed, sent>>

ReportEmpty(p) ==
  /\ Pending(p, "receiving")
  /\ queue = << >>
  /\ ~closed
  /\ Answer(p, Reply("empty"))
  /\ UNCHANGED <<queue, closed, sent>>

\* The end of the stream: nothing is left and nothing can come.
ReportDisconnected(p) ==
  /\ Pending(p, "receiving")
  /\ queue = << >>
  /\ closed
  /\ Answer(p, Reply("disconnected"))
  /\ UNCHANGED <<queue, closed, sent>>

Close ==
  /\ closed' = TRUE
  /\ UNCHANGED <<queue, sent, reply>>

FifoNext ==
  \/ \E p \in Senders : CallSend(p) \/ Accept(p) \/ RefuseFull(p) \/ RefuseClosed(p)
  \/ \E p \in Receivers :
        CallRecv(p) \/ Deliver(p) \/ ReportEmpty(p) \/ ReportDisconnected(p)
  \/ Close

FifoSpec == FifoInit /\ [][FifoNext]_fifoVars
==============================================================================
