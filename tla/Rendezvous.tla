----------------------------- MODULE Rendezvous -----------------------------
(***************************************************************************)
(* What a channel without capacity promises: a send and a receive that     *)
(* overlap meet, in one step, and the message passes from the one to the   *)
(* other.  A call that finds nobody to meet is refused, if it only tries,  *)
(* and else waits; those that wait are met in the order they came.  When   *)
(* the channel is closed all that wait are told, and a sender gets its     *)
(* message back.                                                           *)
(*                                                                         *)
(* A call is made, is decided at one instant, and then returns what was    *)
(* decided.  ZeroChannel implements this specification.                    *)
(***************************************************************************)
EXTENDS Naturals, Sequences

CONSTANTS
  Senders,    \* threads that send
  Receivers,  \* threads that receive
  MaxCalls,   \* bound: number of the last message of a sender
  NoMsg       \* stands for "no message"

Threads == Senders \union Receivers

\* Message number n of sender p.
Msg(p, n) == [from |-> p, seq |-> n]

\* A call in progress: one that only tries, one that may wait, one that waits.
InProgress == {"try", "block", "waiting"}
ReplyKinds == InProgress \union {"none", "sent", "received", "nobody", "disconnected"}

Reply(k) == [kind |-> k, msg |-> NoMsg]
Received(m) == [kind |-> "received", msg |-> m]

VARIABLES
  waiting,  \* threads that wait, all of one side, the first to be met first
  closed,
  item,     \* item[p]: number of the message that p hands over, if it sends
  reply     \* reply[p]: what was decided about p's current or last call

rendezvousVars == <<waiting, closed, item, reply>>

OneSide(p, q) == p \in Senders <=> q \in Senders

\* What p is handing over, if it sends.
Item(p) == IF p \in Senders THEN Msg(p, item[p]) ELSE NoMsg

\* An error comes with the message that was not sent.
Refused(p, k) == [kind |-> k, msg |-> Item(p)]

RendezvousInit ==
  /\ waiting = << >>
  /\ closed = FALSE
  /\ item = [p \in Threads |-> 0]
  /\ reply = [p \in Threads |-> Reply("none")]

Pending(p, k) == reply[p] = Reply(k)
Undecided(p)  == Pending(p, "try") \/ Pending(p, "block")

Answer(p, r) == reply' = [reply EXCEPT ![p] = r]

\* p makes a call of kind k, with whatever message.
Make(p, k) ==
  /\ reply[p].kind \notin InProgress
  /\ \E n \in 0 .. MaxCalls : item' = [item EXCEPT ![p] = n]
  /\ Answer(p, Reply(k))
  /\ UNCHANGED <<waiting, closed>>

\* p meets q, which has waited longest: q's reply is decided together with p's.
Meet(p, q) ==
  LET s == IF p \in Senders THEN p ELSE q
      r == IF p \in Senders THEN q ELSE p
  IN  /\ Undecided(p)
      /\ waiting # << >> /\ q = Head(waiting) /\ ~OneSide(p, q)
      /\ waiting' = Tail(waiting)
      /\ reply' = [reply EXCEPT ![s] = Reply("sent"), ![r] = Received(Item(s))]
      /\ UNCHANGED <<closed, item>>

\* Nobody of the other side waits.
Alone(p) == waiting = << >> \/ OneSide(p, Head(waiting))

GiveUp(p) ==
  /\ Pending(p, "try")
  /\ Alone(p) /\ ~closed
  /\ Answer(p, Refused(p, "nobody"))
  /\ UNCHANGED <<waiting, closed, item>>

Join(p) ==
  /\ Pending(p, "block")
  /\ Alone(p) /\ ~closed
  /\ waiting' = Append(waiting, p)
  /\ Answer(p, Reply("waiting"))
  /\ UNCHANGED <<closed, item>>

TooLate(p) ==
  /\ Undecided(p)
  /\ closed
  /\ Answer(p, Refused(p, "disconnected"))
  /\ UNCHANGED <<waiting, closed, item>>

Close ==
  /\ closed' = TRUE
  /\ waiting' = << >>
  /\ reply' = [p \in Threads |->
                 IF Pending(p, "waiting") THEN Refused(p, "disconnected") ELSE reply[p]]
  /\ UNCHANGED item

RendezvousNext ==
  \/ \E p \in Threads :
       \/ \E k \in {"try", "block"} : Make(p, k)
       \/ \E q \in Threads : Meet(p, q)
       \/ GiveUp(p) \/ Join(p) \/ TooLate(p)
  \/ Close

RendezvousSpec == RendezvousInit /\ [][RendezvousNext]_rendezvousVars
=============================================================================
