-------------------------- MODULE MCTaskScheduler ---------------------------
(* Model checking of TaskScheduler on small instances.                     *)
EXTENDS TaskScheduler

\* A daily task and one that runs every other day, in the same topic.
MCTasks == <<"brief", "watch">>
MCTime == [brief |-> 0, watch |-> 1]
MCDays == [brief |-> [kind |-> "fixed", on |-> 1..9], watch |-> [kind |-> "every", n |-> 2]]
MCTopicOf == [brief |-> "dm", watch |-> "dm"]

\* One daily task late in the evening.
LateTasks == <<"brief">>
LateTime == [brief |-> 2]
=============================================================================
