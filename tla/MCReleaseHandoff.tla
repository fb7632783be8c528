-------------------------- MODULE MCReleaseHandoff ----------------------------
(* Model checking of ReleaseHandoff on a small instance.                   *)
EXTENDS ReleaseHandoff
=============================================================================
