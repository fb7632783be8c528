-------------------------- MODULE MCDaemonRegistry --------------------------
(* Model checking of DaemonRegistry on small instances.                    *)
EXTENDS DaemonRegistry, TLC

Interchangeable == Permutations(Message) \cup Permutations(Proc)
=============================================================================
