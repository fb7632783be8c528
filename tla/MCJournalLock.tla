---------------------------- MODULE MCJournalLock -----------------------------
(* Model checking of JournalLock on a small instance.                      *)
EXTENDS JournalLock
=============================================================================
