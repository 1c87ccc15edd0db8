------------------------------- MODULE MCTasks -------------------------------
(***************************************************************************)
(* Small instances of tasks on the bounded channel, and of tasks on the    *)
(* unbounded one.                                                          *)
(***************************************************************************)
EXTENDS ListTasks

VARIABLE kind  \* which channel this behaviour is about

MCInit == Init /\ kind \in {"array", "list"}

MCNext ==
  /\ IF kind = "array" THEN Next ELSE ListNext
  /\ UNCHANGED kind

MCRun(p) == IF kind = "array" THEN Run(p) ELSE ListRun(p)

MCSpec ==
  /\ MCInit /\ [][MCNext]_<<vars, kind>>
  /\ \A p \in Threads : WF_vars(MCRun(p)) /\ WF_vars(notified[p] /\ Poll(p))
==============================================================================
