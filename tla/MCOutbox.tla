------------------------------ MODULE MCOutbox ------------------------------
(* Model checking of Outbox on small instances.                            *)
EXTENDS Outbox

Interchangeable == Permutations(Message)
=============================================================================
