------------------------------- MODULE MCZero -------------------------------
(***************************************************************************)
(* Small instances of the channel without capacity, in the two ways it is  *)
(* used: by threads that call it directly, when there is no executor, and  *)
(* by tasks, with each of the pools of workers.                            *)
(***************************************************************************)
EXTENDS ZeroTasks, Functions

CONSTANT AllCalls  \* bound: calls that the threads make together

CallsMade == FoldFunction(+, 0, item)

ThreadsNext ==
  /\ pool = 0
  /\ Next
  /\ CallsMade' <= AllCalls
  /\ UNCHANGED <<pool, task, first, handles, wakers>>

MCNext == ThreadsNext \/ (pool > 0 /\ TasksNext)

MCSpec ==
  /\ TasksInit /\ [][MCNext]_allVars
  /\ FinallyNotified
  /\ \A p \in Everyone : WF_vars(pool = 0 /\ Continue(p))
  /\ \A p \in Threads : /\ WF_taskVars(pool > 0 /\ Run(p))
                        /\ WF_taskVars(pool > 0 /\ notified[p] /\ Poll(p))
=============================================================================
