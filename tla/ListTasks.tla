------------------------------ MODULE ListTasks ------------------------------
(***************************************************************************)
(* The unbounded channel as asynchronous tasks use it: the Sink and the    *)
(* Stream of src/list.rs.  Its Stream::poll, its handles and its waker for *)
(* receivers are those of the bounded channel, so they are taken from      *)
(* ArrayTasks.  What differs: there is always room, no sender waits, and   *)
(* there is no waker for senders that a receive or shutdown could call.    *)
(*                                                                         *)
(* The list of blocks is a BoundedFifo with room for all messages, which   *)
(* ListChannel implements.                                                 *)
(***************************************************************************)
EXTENDS ArrayTasks

Unbounded == INSTANCE BoundedFifo WITH Cap <- MaxSends * Cardinality(Senders)

\* The message is in: write wakes a receiver.
ListReady(p) ==
  /\ Move(p, "start_send", "accepted")
  /\ Unbounded!Accept(p)
  /\ CallReceivers(p, "wake")
  /\ UNCHANGED <<first, handles>>

\* A message is out, at the first or at the second look.
ListTake(p) ==
  /\ Move(p, "start_recv", "took") \/ Move(p, "look_again", "took")
  /\ Deliver(p)
  /\ UNCHANGED <<first, handles, wakers>>

\* fetch_or of the mark bit; the one that set it wakes the receivers.
ListShutdown(p) ==
  /\ Move(p, "shutdown", IF closed THEN "gone" ELSE "wake_receivers")
  /\ Close
  /\ UNCHANGED <<first, handles, wakers>>

\* Sink::start_send: Ready, or an error, and never NotReady.
ListSinkStep(p) == ListReady(p) \/ SinkNext(p) \/ SinkClosed(p)

\* Stream::poll: register, and look again, the first time and whenever a
\* notification was counted since.
ListStreamStep(p) ==
  \/ ListTake(p) \/ StreamNext(p) \/ StreamEnd(p) \/ StreamEmpty(p)
  \/ SeeFirst(p) \/ ClearFirst(p) \/ RegisterAgain(p) \/ CallRegister(p)
  \/ StreamNotReady(p) \/ LookAgain(p) \/ StillEmpty(p)

ListDropStep(p) == Release(p) \/ ListShutdown(p) \/ ShutdownReceivers(p)

\* A task that is being polled, or dropped, keeps running.
ListRun(p) ==
  \/ p \in Senders /\ ListSinkStep(p)
  \/ p \in Receivers /\ ListStreamStep(p)
  \/ ListDropStep(p)
  \/ WakerStep(p)

ListNext == \E p \in Threads : Poll(p) \/ ListRun(p) \/ Cancel(p)

ListSpec == Init /\ [][ListNext]_vars

\* The executor, as for the bounded channel.
ListFairSpec ==
  ListSpec /\ \A p \in Threads : WF_vars(ListRun(p)) /\ WF_vars(notified[p] /\ Poll(p))
==============================================================================
