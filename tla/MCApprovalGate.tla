--------------------------- MODULE MCApprovalGate ---------------------------
(* Model checking of ApprovalGate on small instances.                      *)
EXTENDS ApprovalGate

Shell(words) == [tool |-> "bash", words |-> words, destructive |-> FALSE, unprovable |-> FALSE]

\* One call of each tier; the compound ones differ only in where the part that
\* has to be asked about stands.
MCCall ==
  {Shell(<<"read-only verb", "git read">>),
   Shell(<<"network", "read-only verb">>),
   [Shell(<<"read-only verb">>) EXCEPT !.destructive = TRUE]}
=============================================================================
