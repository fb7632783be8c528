------------------------- MODULE MCInboundJournal --------------------------
(* Model checking of InboundJournal on a small instance.                   *)
EXTENDS InboundJournal, TLC

\* Messages and flows are interchangeable: nothing orders them.
Interchangeable == Permutations(Message) \cup Permutations(Owner)
=============================================================================
