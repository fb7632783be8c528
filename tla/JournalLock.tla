----------------------------- MODULE JournalLock ------------------------------
(***************************************************************************)
(* The lock directory of the inbound journal (withLock, acquireLock,       *)
(* lockIsStale, releaseLock), system call by system call, between the      *)
(* processes that open one journal.  InboundJournal takes each operation   *)
(* as one step; this module shows when that is so.                         *)
(*                                                                         *)
(* A process makes the directory, writes its pid into owner.json, works,   *)
(* unlinks owner.json and removes the directory.  A lock whose owner is    *)
(* dead, or that has had no owner.json for a second, is stale: whoever     *)
(* finds it renames it away.  A process is its pid, which is not used      *)
(* again; a process restarted is another one.                              *)
(***************************************************************************)
EXTENDS Naturals

CONSTANTS
  Process,
  NoOwner,
  NoDir,
  MaxFaults   \* bound: failed calls, and seconds a living process loses between two calls

Dirs == [maker : Process, owner : Process \cup {NoOwner}, old : BOOLEAN]

ASSUME LockConstants ==
  /\ NoOwner \notin Process
  /\ NoDir \notin Dirs
  /\ MaxFaults \in Nat

VARIABLES
  dir,      \* the lock directory: who made it, the pid in owner.json, and
            \*   whether it has been there (or changed last) a second ago
  pc,       \* "out", "trying", "judged", "made", "in", "leaving" or "dead"
  \* history
  same,     \* processes whose judged directory is still the one that is there
  slow,     \* processes that lost a second between mkdir and owner.json
  stolen,   \* a directory was removed from under who made or owns it, by one
            \*   who judged another, or took its slow maker for dead
  kept,     \* processes whose unlink of owner.json failed
  faults    \* what is left of MaxFaults

history == <<same, slow, stolen, kept>>
vars == <<dir, pc, history, faults>>

Init ==
  /\ dir = NoDir
  /\ pc = [p \in Process |-> "out"]
  /\ same = {}
  /\ slow = {}
  /\ stolen = FALSE
  /\ kept = {}
  /\ faults = MaxFaults

Goes(p, where) == pc' = [pc EXCEPT ![p] = where]

Dead(p) == pc[p] = "dead"

\* Who may rely on the directory that is there: the owner inside, or its maker,
\* about to write owner.json.
User == IF dir.owner = NoOwner THEN dir.maker ELSE dir.owner
Relied == dir # NoDir /\ pc[User] = IF dir.owner = NoOwner THEN "made" ELSE "in"

Call(p) ==
  /\ pc[p] = "out"
  /\ Goes(p, "trying")
  /\ slow' = slow \ {p}
  /\ UNCHANGED <<dir, same, stolen, kept, faults>>

\* mkdir succeeds for one process at a time.
MakeDir(p) ==
  /\ pc[p] = "trying"
  /\ dir = NoDir
  /\ dir' = [maker |-> p, owner |-> NoOwner, old |-> FALSE]
  /\ Goes(p, "made")
  /\ kept' = kept \ {p}
  /\ UNCHANGED <<same, slow, stolen, faults>>

\* owner.json goes into the directory that is there now; without one the call
\* throws.
WriteOwner(p) ==
  /\ pc[p] = "made"
  /\ IF dir = NoDir THEN Goes(p, "out") /\ UNCHANGED dir
     ELSE Goes(p, "in") /\ dir' = [dir EXCEPT !.owner = p, !.old = FALSE]
  /\ UNCHANGED <<history, faults>>

\* The write fails: the directory stays, without an owner.
WriteOwnerFails(p) ==
  /\ pc[p] = "made"
  /\ faults > 0 /\ faults' = faults - 1
  /\ Goes(p, "out")
  /\ UNCHANGED <<dir, history>>

\* Faulty variant: an old lock is stale though its owner lives.
StaleByAge == dir # NoDir /\ (dir.old \/ (dir.owner # NoOwner /\ Dead(dir.owner)))

\* Faulty variant: a directory without owner.json is nobody's business.
StaleIfOwned == dir # NoDir /\ dir.owner # NoOwner /\ Dead(dir.owner)

\* lockIsStale: age counts only while no pid says whose the lock is.
Stale == dir # NoDir /\ IF dir.owner = NoOwner THEN dir.old ELSE Dead(dir.owner)

Judge(p) ==
  /\ pc[p] = "trying"
  /\ Stale
  /\ Goes(p, "judged")
  /\ same' = same \cup {p}
  /\ UNCHANGED <<dir, slow, stolen, kept, faults>>

\* Renames the directory that is there by now; if there is none, another
\* contender was faster.
RenameStale(p) ==
  /\ pc[p] = "judged"
  /\ dir' = NoDir
  /\ same' = {}
  /\ stolen' = (stolen \/ (Relied /\ (p \notin same \/ User \in slow)))
  /\ Goes(p, "trying")
  /\ UNCHANGED <<slow, kept, faults>>

\* lockTimeoutMs has passed at a lock that is not stale, or that was released or
\* renamed by another just now: the call throws.
TimeOut(p) ==
  /\ pc[p] = "trying"
  /\ ~Stale
  /\ Goes(p, "out")
  /\ UNCHANGED <<dir, history, faults>>

\* Faulty variant: only the directory is removed, which fails if it is not empty.
UnlinkNothing(p) == pc[p] = "in" /\ Goes(p, "leaving") /\ UNCHANGED <<dir, history, faults>>

\* releaseLock unlinks the owner.json that is there, whoever wrote it ...
UnlinkOwner(p) ==
  /\ pc[p] = "in"
  /\ Goes(p, "leaving")
  /\ dir' = IF dir = NoDir \/ dir.owner = NoOwner THEN dir
            ELSE [dir EXCEPT !.owner = NoOwner, !.old = FALSE]
  /\ UNCHANGED <<history, faults>>

\* ... and removes the directory if it is empty: its own, or, that having been
\* taken for stale meanwhile, one that another has just made.
RemoveDir(p) ==
  /\ pc[p] = "leaving"
  /\ Goes(p, "out")
  /\ IF dir # NoDir /\ dir.owner = NoOwner
     THEN dir' = NoDir /\ same' = {} /\ stolen' = (stolen \/ Relied)
     ELSE UNCHANGED <<dir, same, stolen>>
  /\ UNCHANGED <<slow, kept, faults>>

\* A failing unlink or rmdir is passed over: what is there stays.
UnlinkOwnerFails(p) ==
  /\ pc[p] = "in"
  /\ faults > 0 /\ faults' = faults - 1
  /\ Goes(p, "leaving")
  /\ kept' = kept \cup {p}
  /\ UNCHANGED <<dir, same, slow, stolen>>

RemoveDirFails(p) ==
  /\ pc[p] = "leaving"
  /\ faults > 0 /\ faults' = faults - 1
  /\ Goes(p, "out")
  /\ UNCHANGED <<dir, history>>

\* The process goes on with its call.
Step(p) ==
  \/ MakeDir(p) \/ WriteOwner(p) \/ Judge(p) \/ RenameStale(p) \/ TimeOut(p)
  \/ UnlinkOwner(p) \/ RemoveDir(p)

\* A second passes over the directory: always when nobody is at work on it, and
\* else if its process is that slow.
Age ==
  /\ dir # NoDir /\ ~dir.old
  /\ slow' = IF Relied /\ dir.owner = NoOwner THEN slow \cup {dir.maker} ELSE slow
  /\ IF Relied \/ \E p \in Process : pc[p] = "leaving"
     THEN faults > 0 /\ faults' = faults - 1
     ELSE UNCHANGED faults
  /\ dir' = [dir EXCEPT !.old = TRUE]
  /\ UNCHANGED <<pc, same, stolen, kept>>

Die(p) == ~Dead(p) /\ Goes(p, "dead") /\ UNCHANGED <<dir, history, faults>>

Next ==
  \/ \E p \in Process :
       \/ Call(p) \/ Step(p) \/ Die(p)
       \/ WriteOwnerFails(p) \/ UnlinkOwnerFails(p) \/ RemoveDirFails(p)
  \/ Age

\* A living process finishes its call, which is synchronous code, and calls
\* again; time passes.
Fairness ==
  /\ \A p \in Process : WF_vars(Call(p)) /\ WF_vars(Step(p))
  /\ WF_vars(Age)

Spec == Init /\ [][Next]_vars /\ Fairness

----------------------------------------------------------------------------
(* Properties                                                              *)

\* Every variable has its type.
TypeOK ==
  /\ dir \in Dirs \cup {NoDir}
  /\ pc \in [Process -> {"out", "trying", "judged", "made", "in", "leaving", "dead"}]
  /\ same \subseteq Process /\ slow \subseteq Process /\ kept \subseteq Process
  /\ stolen \in BOOLEAN
  /\ faults \in 0..MaxFaults

\* Two processes are inside only after one removed another directory than it had
\* judged, or that of a maker slower than the grace period: neither crashes nor
\* time-outs, nor the age of a lock that has an owner (journal.ts:735-737), let a
\* second one in.
ExclusiveUnlessStolen ==
  ~stolen => \A p, q \in Process : pc[p] = "in" /\ pc[q] = "in" => p = q

\* owner.json names a process that lives and is not inside only if that process
\* could not unlink it, also after locks were stolen: else waiting for a living
\* owner is waiting for its release (journal.ts:732-742).
LiveOwnerIsInside ==
  dir # NoDir /\ dir.owner # NoOwner /\ ~Dead(dir.owner) /\ dir.owner \notin kept
    => pc[dir.owner] = "in"

\* Nobody is at work on the directory, and no living process owns it.
Abandoned ==
  /\ dir # NoDir /\ ~Relied
  /\ dir.owner # NoOwner => Dead(dir.owner)
  /\ \A p \in Process : pc[p] # "leaving"

\* A lock directory that the dead left behind, whole or half made, or a failed
\* rmdir without an owner, does not stay as long as somebody opens the journal
\* (journal.ts:744-749).
DeadGiveWay == []<>(~Abandoned \/ \A p \in Process : Dead(p))
=============================================================================
