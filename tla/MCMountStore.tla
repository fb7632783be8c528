----------------------------- MODULE MCMountStore -----------------------------
(* Model checking of MountStore on a small instance.                       *)
EXTENDS MountStore

\* What the other processes ask for: calls that meet those of the poller on the
\* same thread.
MCCliCall ==
  {[kind |-> "add", target |-> "t1", dir |-> "d2"],
   [kind |-> "remove", target |-> "t1", dir |-> "d1"],
   [kind |-> "replace", target |-> "*", dir |-> "d2"]}
=============================================================================
