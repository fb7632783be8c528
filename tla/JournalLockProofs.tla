-------------------------- MODULE JournalLockProofs ---------------------------
(***************************************************************************)
(* Theorems about JournalLock, for any set of processes.                   *)
(*                                                                         *)
(*   TypeCorrect     Spec => []TypeOK                                      *)
(*   OneInside       Spec => []ExclusiveUnlessStolen                       *)
(*   OwnersInside    Spec => []LiveOwnerIsInside                           *)
(*                                                                         *)
(* OneInside rests on Possession: as long as nothing was stolen, the       *)
(* directory that is there is that of whoever is between mkdir and the end *)
(* of its work, and if somebody holds the verdict `stale' about this very  *)
(* directory, its user was slow.                                           *)
(***************************************************************************)
EXTENDS JournalLock, TLAPS

\* What mkdir and owner.json make of the directory is a directory.
LEMMA MadeDir ==
  ASSUME NEW p \in Process, MakeDir(p)
  PROVE  dir' \in Dirs /\ dir' # NoDir /\ dir'.maker = p /\ dir'.owner = NoOwner /\ ~dir'.old
<1>1. dir' = [maker |-> p, owner |-> NoOwner, old |-> FALSE]
  BY DEF MakeDir
<1>2. dir' \in Dirs
  BY <1>1 DEF Dirs
<1> QED BY <1>1, <1>2, LockConstants

LEMMA OwnedDir ==
  ASSUME TypeOK, NEW p \in Process, WriteOwner(p), dir # NoDir
  PROVE  dir' \in Dirs /\ dir' # NoDir /\ dir'.maker = dir.maker /\ dir'.owner = p /\ ~dir'.old
<1>1. dir \in Dirs
  BY DEF TypeOK
<1>2. dir' = [dir EXCEPT !.owner = p, !.old = FALSE]
  BY DEF WriteOwner
<1>3. /\ dir' \in Dirs
      /\ dir'.maker = dir.maker /\ dir'.owner = p /\ ~dir'.old
  BY <1>1, <1>2 DEF Dirs
<1> QED BY <1>3, LockConstants

LEMMA TypeInit == Init => TypeOK
<1>1. MaxFaults \in 0..MaxFaults
  BY LockConstants
<1> QED BY <1>1 DEF Init, TypeOK

LEMMA TypeStep == TypeOK /\ [Next]_vars => TypeOK'
<1> SUFFICES ASSUME TypeOK, [Next]_vars
             PROVE  TypeOK'
  OBVIOUS
<1> USE LockConstants DEF TypeOK, Dirs, Goes, history
<1>1. ASSUME NEW p \in Process, Call(p) \/ Die(p)
      PROVE  TypeOK'
  BY <1>1 DEF Call, Die
<1>8. ASSUME NEW p \in Process, MakeDir(p)
      PROVE  TypeOK'
  <2>1. dir' \in Dirs
    BY <1>8, MadeDir
  <2> QED BY <1>8, <2>1 DEF MakeDir
<1>0. ASSUME NEW p \in Process, WriteOwnerFails(p) \/ UnlinkOwnerFails(p) \/ RemoveDirFails(p)
      PROVE  TypeOK'
  BY <1>0, LockConstants DEF WriteOwnerFails, UnlinkOwnerFails, RemoveDirFails
<1>2. ASSUME NEW p \in Process, WriteOwner(p)
      PROVE  TypeOK'
  <2>1. CASE dir = NoDir
    BY <1>2, <2>1 DEF WriteOwner
  <2>2. CASE dir # NoDir
    <3>1. dir' \in Dirs
      BY <1>2, <2>2, OwnedDir
    <3> QED BY <1>2, <2>2, <3>1 DEF WriteOwner
  <2> QED BY <2>1, <2>2
<1>3. ASSUME NEW p \in Process, Judge(p) \/ TimeOut(p)
      PROVE  TypeOK'
  BY <1>3 DEF Judge, TimeOut
<1>4. ASSUME NEW p \in Process, RenameStale(p) \/ RemoveDir(p)
      PROVE  TypeOK'
  BY <1>4 DEF RenameStale, RemoveDir
<1>5. ASSUME NEW p \in Process, UnlinkOwner(p)
      PROVE  TypeOK'
  BY <1>5 DEF UnlinkOwner
<1>6. CASE Age
  <2>1. dir' \in Dirs /\ slow' \subseteq Process /\ UNCHANGED <<pc, same, stolen, kept>>
    <3>1. dir \in Dirs /\ dir' = [dir EXCEPT !.old = TRUE]
      BY <1>6 DEF Age
    <3> QED BY <1>6, <3>1 DEF Age
  <2>2. faults' \in 0..MaxFaults
    BY <1>6, LockConstants DEF Age
  <2> QED BY <2>1, <2>2
<1>7. CASE UNCHANGED vars
  BY <1>7 DEF vars
<1> QED BY <1>0, <1>1, <1>2, <1>3, <1>4, <1>5, <1>6, <1>7, <1>8 DEF Next, Step

\* The variables keep their types.
THEOREM TypeCorrect == Spec => []TypeOK
BY TypeInit, TypeStep, PTL DEF Spec

\* Whoever made the directory, and whoever is inside, has it.
Possession ==
  \A p \in Process :
    /\ pc[p] = "made" => dir # NoDir /\ dir.maker = p /\ dir.owner = NoOwner /\ (dir.old => p \in slow)
    /\ pc[p] = "in" => dir # NoDir /\ dir.owner = p

\* A verdict is about a directory whose maker is its owner, and whose user, if
\* it has one, was slow.
Verdicts ==
  /\ same # {} => dir # NoDir /\ (Relied => User \in slow)
  /\ dir # NoDir /\ dir.owner # NoOwner => dir.owner = dir.maker

IInv == TypeOK /\ (~stolen => Possession /\ Verdicts)

LEMMA IInit == Init => IInv
BY TypeInit DEF Init, IInv, Possession, Verdicts

LEMMA IStep == IInv /\ [Next]_vars => IInv'
<1> SUFFICES ASSUME IInv, [Next]_vars, ~stolen'
             PROVE  Possession' /\ Verdicts'
  BY TypeStep DEF IInv
<1>0. ~stolen /\ TypeOK /\ Possession /\ Verdicts
  BY DEF IInv, Next, Step, Call, MakeDir, WriteOwner, WriteOwnerFails, Judge, RenameStale, TimeOut,
     UnlinkOwner, UnlinkOwnerFails, RemoveDir, RemoveDirFails, Age, Die, vars, history, TypeOK
<1> USE <1>0, LockConstants DEF TypeOK, Dirs, Possession, Verdicts, Relied, User, Goes, history
<1>1. ASSUME NEW p \in Process, \/ Call(p) \/ TimeOut(p) \/ Die(p)
                                 \/ WriteOwnerFails(p) \/ UnlinkOwnerFails(p) \/ RemoveDirFails(p)
      PROVE  Possession' /\ Verdicts'
  BY <1>1 DEF Call, TimeOut, Die, WriteOwnerFails, UnlinkOwnerFails, RemoveDirFails
<1>2. ASSUME NEW p \in Process, MakeDir(p)
      PROVE  Possession' /\ Verdicts'
  <2>1. dir' # NoDir /\ dir'.maker = p /\ dir'.owner = NoOwner /\ ~dir'.old
    BY <1>2, MadeDir
  <2>2. dir = NoDir /\ pc' = [pc EXCEPT ![p] = "made"] /\ UNCHANGED <<same, slow>>
    BY <1>2 DEF MakeDir
  <2> QED BY <2>1, <2>2
<1>3. ASSUME NEW p \in Process, WriteOwner(p)
      PROVE  Possession' /\ Verdicts'
  <2>1. dir # NoDir /\ dir.maker = p /\ dir.owner = NoOwner
    BY <1>3 DEF WriteOwner
  <2>2. dir' # NoDir /\ dir'.maker = p /\ dir'.owner = p
    BY <1>3, <2>1, OwnedDir
  <2>3. pc[p] = "made" /\ pc' = [pc EXCEPT ![p] = "in"] /\ UNCHANGED <<same, slow>>
    BY <1>3, <2>1 DEF WriteOwner
  <2>4. Possession'
    BY <2>1, <2>2, <2>3
  <2>5. Verdicts'
    BY <2>1, <2>2, <2>3
  <2> QED BY <2>4, <2>5
<1>4. ASSUME NEW p \in Process, Judge(p)
      PROVE  Possession' /\ Verdicts'
  BY <1>4 DEF Judge, Stale, Dead
<1>5. ASSUME NEW p \in Process, RenameStale(p)
      PROVE  Possession' /\ Verdicts'
  BY <1>5 DEF RenameStale
<1>6. ASSUME NEW p \in Process, UnlinkOwner(p)
      PROVE  Possession' /\ Verdicts'
  BY <1>6 DEF UnlinkOwner
<1>7. ASSUME NEW p \in Process, RemoveDir(p)
      PROVE  Possession' /\ Verdicts'
  BY <1>7 DEF RemoveDir
<1>8. CASE Age
  BY <1>8 DEF Age
<1>9. CASE UNCHANGED vars
  BY <1>9 DEF vars
<1> QED BY <1>1, <1>2, <1>3, <1>4, <1>5, <1>6, <1>7, <1>8, <1>9 DEF Next, Step

\* Two processes are inside only after a lock was stolen.
THEOREM OneInside == Spec => []ExclusiveUnlessStolen
<1>1. IInv => ExclusiveUnlessStolen
  BY DEF IInv, ExclusiveUnlessStolen, Possession
<1> QED BY <1>1, IInit, IStep, PTL DEF Spec

\* owner.json names a process that lives and is not inside only if that process
\* could not unlink it.
THEOREM OwnersInside == Spec => []LiveOwnerIsInside
<1>1. Init => LiveOwnerIsInside
  BY DEF Init, LiveOwnerIsInside
<1>2. ASSUME TypeOK, LiveOwnerIsInside, [Next]_vars
      PROVE  LiveOwnerIsInside'
  <2> USE LockConstants DEF TypeOK, Dirs, LiveOwnerIsInside, Dead, Goes, history
  <2>1. ASSUME NEW p \in Process, \/ Call(p) \/ TimeOut(p) \/ Judge(p) \/ Die(p)
                                   \/ WriteOwnerFails(p) \/ UnlinkOwnerFails(p) \/ RemoveDirFails(p)
        PROVE  LiveOwnerIsInside'
    BY <1>2, <2>1 DEF Call, TimeOut, Judge, Die, WriteOwnerFails, UnlinkOwnerFails, RemoveDirFails
  <2>2. ASSUME NEW p \in Process, MakeDir(p)
        PROVE  LiveOwnerIsInside'
    BY <1>2, <2>2, MadeDir
  <2>7. ASSUME NEW p \in Process, WriteOwner(p)
        PROVE  LiveOwnerIsInside'
    <3>1. CASE dir = NoDir
      BY <1>2, <2>7, <3>1 DEF WriteOwner
    <3>2. CASE dir # NoDir
      <4>1. dir'.owner = p /\ pc'[p] = "in"
        BY <1>2, <2>7, <3>2, OwnedDir DEF WriteOwner
      <4> QED BY <4>1
    <3> QED BY <3>1, <3>2
  <2>3. ASSUME NEW p \in Process, RenameStale(p) \/ RemoveDir(p)
        PROVE  LiveOwnerIsInside'
    BY <1>2, <2>3 DEF RenameStale, RemoveDir
  <2>4. ASSUME NEW p \in Process, UnlinkOwner(p)
        PROVE  LiveOwnerIsInside'
    BY <1>2, <2>4 DEF UnlinkOwner
  <2>5. CASE Age
    BY <1>2, <2>5 DEF Age
  <2>6. CASE UNCHANGED vars
    BY <1>2, <2>6 DEF vars
  <2> QED BY <1>2, <2>1, <2>2, <2>3, <2>4, <2>5, <2>6, <2>7 DEF Next, Step
<1> QED BY <1>1, <1>2, TypeCorrect, PTL DEF Spec
=============================================================================
