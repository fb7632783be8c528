----------------------- MODULE InboundJournalProofs ------------------------
(***************************************************************************)
(* Theorems about InboundJournal, for every set of messages and flows and  *)
(* every legal size of the journal,                                        *)
(*                                                                         *)
(*   TypeCorrect       Spec => []TypeOK                                    *)
(*   DispatchOnce      Spec => []DispatchedOnce                            *)
(*   LastClaimantRuns  Spec => []ClaimFenced                               *)
(*   NothingLost       Spec => []NoSilentLoss                              *)
(*   AlwaysRecovers    Spec => []RecoveryNeverRefused                      *)
(*   WindowKept        Spec => []RecentCompletionsRemembered               *)
(*                                                                         *)
(* and about InboundDelivery, the receiving loop that is the journal's one *)
(* client, for every set of updates and every size of a batch:             *)
(*                                                                         *)
(*   ConfirmedHeld      DeliverySpec => []ConfirmedIsDurable               *)
(*   InboxDrained       DeliverySpec => []LegacyDrained                    *)
(*   PromisesUnderLoop  the journal's own invariants, under DeliverySpec   *)
(*   InOrderOnce        DeliverySpec => []StartedInOrderOnce               *)
(*                                                                         *)
(* The theorems about Spec do not use the assumptions on the loop.         *)
(***************************************************************************)
EXTENDS InboundDelivery, FiniteSetTheorems, FunctionTheorems, SequenceTheorems, WellFoundedInduction, TLAPS

----------------------------------------------------------------------------
(* Types                                                                   *)

\* The index a method works with maps every message to a status, whether it
\* was cached or has just been rebuilt from the disk.
LEMMA IndexedType == TypeOK => Indexed \in [Message -> Status]
BY DEF TypeOK, Indexed

\* A record write, however it ends, leaves the disk, the index and the fault
\* budget well typed (writeRecord, journal.ts:501-522).
LEMMA WriteType ==
  ASSUME NEW m \in Message, NEW s \in Status, NEW w \in Outcome,
         NEW st \in [Message -> Status],
         NEW ix \in [Message -> Status] \cup {NoIndex},
         faults \in 0..MaxFaults,
         WriteRecord(m, s, w, st, ix)
  PROVE  /\ status' \in [Message -> Status]
         /\ index' \in [Message -> Status] \cup {NoIndex}
         /\ faults' \in 0..MaxFaults
BY JournalBounds DEF WriteRecord

\* Moving a damaged file to quarantine keeps the types and the capacity.
LEMMA QuarantineType ==
  ASSUME TypeOK, NEW m \in Message, NEW w \in Outcome, Quarantine(m, w)
  PROVE  /\ status' \in [Message -> Status]
         /\ index' \in [Message -> Status] \cup {NoIndex}
         /\ faults' \in 0..MaxFaults
         /\ quarantine' \in Seq(Message)
         /\ Len(quarantine') <= MaxQuarantine
<1> USE DEF TypeOK, Quarantine, Status, Stored
<1>1. CASE Len(quarantine) >= MaxQuarantine /\ UNCHANGED <<status, quarantine, index, faults>>
  BY <1>1
<1>2. CASE Len(quarantine) < MaxQuarantine
  <2>1. Len(Append(quarantine, m)) = Len(quarantine) + 1 /\ Append(quarantine, m) \in Seq(Message)
    OBVIOUS
  <2>2. quarantine' \in Seq(Message) /\ Len(quarantine') <= MaxQuarantine
    <3>1. Len(quarantine) \in Nat /\ Len(quarantine) + 1 <= MaxQuarantine
      BY <1>2, JournalSizes
    <3>2. quarantine' = quarantine \/ quarantine' = Append(quarantine, m)
      BY <1>2
    <3> QED BY <2>1, <3>1, <3>2
  <2>3. status' \in [Message -> Status] /\ index' \in [Message -> Status] \cup {NoIndex}
    BY <1>2
  <2>4. faults' \in 0..MaxFaults
    BY <1>2, JournalBounds
  <2> QED BY <2>2, <2>3, <2>4
<1> QED BY <1>1, <1>2

\* The type invariant holds initially.
LEMMA TypeInit == Init => TypeOK
BY JournalSizes, JournalBounds DEF Init, TypeOK, Status, Stored

\* receive keeps the types.
LEMMA TypeReceive ==
  ASSUME TypeOK, NEW m \in Message, Receive(m)
  PROVE  TypeOK'
<1> USE DEF TypeOK, Status, Stored, Active
<1>1. ASSUME NEW w \in Outcome, AdmitNew(m, w)
      PROVE  TypeOK'
  <2>1. Indexed \in [Message -> Status]
    BY IndexedType
  <2>2. /\ status' \in [Message -> Status]
        /\ index' \in [Message -> Status] \cup {NoIndex}
        /\ faults' \in 0..MaxFaults
    <3>1. CASE WriteRecord(m, "received", w, status, Indexed)
      BY <3>1, <2>1, WriteType
    <3>2. ASSUME NEW t \in OldestTombs(Indexed),
                 WriteRecord(m, "received", w, [status EXCEPT ![t] = "absent"],
                             [Indexed EXCEPT ![t] = "absent"])
          PROVE  /\ status' \in [Message -> Status]
                 /\ index' \in [Message -> Status] \cup {NoIndex}
                 /\ faults' \in 0..MaxFaults
      <4>1. /\ [status EXCEPT ![t] = "absent"] \in [Message -> Status]
            /\ [Indexed EXCEPT ![t] = "absent"] \in [Message -> Status]
        BY <2>1
      <4> QED BY <3>2, <4>1, WriteType
    <3> QED BY <1>1, <3>1, <3>2 DEF AdmitNew
  <2>3. ran' \in [Message -> Seq(Nat)] /\ known' \subseteq Message /\ acked' \subseteq Message
    BY <1>1 DEF AdmitNew
  <2> QED BY <1>1, <2>2, <2>3 DEF AdmitNew
<1>2. ASSUME AdmitRefused(m)
      PROVE  TypeOK'
  BY <1>2, IndexedType DEF AdmitRefused, disk, flows, past
<1>3. ASSUME NEW gone \in BOOLEAN, EvictionFails(m, gone)
      PROVE  TypeOK'
  <2>1. faults' \in 0..MaxFaults
    BY <1>3, JournalBounds DEF EvictionFails
  <2>2. PICK t \in OldestTombs(Indexed) :
             status' = IF gone THEN [status EXCEPT ![t] = "absent"] ELSE status
    BY <1>3 DEF EvictionFails
  <2>3. status' \in [Message -> Status]
    BY <2>2
  <2> QED BY <1>3, <2>1, <2>3 DEF EvictionFails, flows, past
<1>4. ASSUME NEW w \in Outcome, AdmitDuplicate(m, w)
      PROVE  TypeOK'
  <2>1. WriteRecord(m, status[m], w, status, index) /\ status[m] \in Status
    BY <1>4 DEF AdmitDuplicate
  <2> QED BY <1>4, <2>1, WriteType DEF AdmitDuplicate, flows, past
<1>5. ASSUME NEW w \in Outcome, AdmitCorrupt(m, w)
      PROVE  TypeOK'
  BY <1>5, QuarantineType DEF AdmitCorrupt, flows, past
<1> HIDE DEF TypeOK, Status, Stored, Active
<1> QED BY <1>1, <1>2, <1>3, <1>4, <1>5 DEF Receive

\* The claim transitions keep the types.
LEMMA TypeLifecycle ==
  ASSUME TypeOK, NEW o \in Owner, NEW m \in Message, Lifecycle(o, m)
  PROVE  TypeOK'
<1> USE DEF TypeOK, Status, Stored, Active
<1>1. ASSUME HandlerAcks(o, m)
      PROVE  TypeOK'
  BY <1>1 DEF HandlerAcks, disk, past
<1>2. ASSUME NEW w \in Outcome, Claim(o, m, w)
      PROVE  TypeOK'
  <2>1. WriteRecord(m, "claimed", w, status, index)
    BY <1>2 DEF Claim
  <2>2. /\ status' \in [Message -> Status]
        /\ index' \in [Message -> Status] \cup {NoIndex}
        /\ faults' \in 0..MaxFaults
    BY <2>1, WriteType
  <2>3. issued + 1 \in Nat /\ issued' \in 0..MaxClaims
    BY <1>2, JournalBounds DEF Claim
  <2>4. held' \in [Owner -> [Message -> Nat]] /\ token' \in [Message -> Nat]
    BY <1>2, <2>3 DEF Claim
  <2> QED BY <1>2, <2>2, <2>3, <2>4 DEF Claim, past
<1>3. ASSUME NEW w \in Outcome, ReleaseClaim(o, m, w)
      PROVE  TypeOK'
  BY <1>3, WriteType DEF ReleaseClaim, flows, past
<1>4. ASSUME NEW w \in Outcome, MarkDispatched(o, m, w)
      PROVE  TypeOK'
  <2>1. Append(ran[m], held[o][m]) \in Seq(Nat)
    OBVIOUS
  <2>2. ran' \in [Message -> Seq(Nat)]
    BY <1>4, <2>1 DEF MarkDispatched
  <2> QED BY <1>4, <2>2, WriteType DEF MarkDispatched, past
<1>5. ASSUME NEW w \in Outcome, NEW d \in {0, 1}, Complete(o, m, w, d)
      PROVE  TypeOK'
  <2>1. clock + d \in Nat
    OBVIOUS
  <2> QED BY <1>5, <2>1, WriteType DEF Complete, flows, past
<1>6. ASSUME NEW w \in Outcome, MarkOutcomeUnknown(o, m, w)
      PROVE  TypeOK'
  BY <1>6, WriteType DEF MarkOutcomeUnknown, flows, past
<1>7. ASSUME NEW w \in Outcome, MarkLost(o, m, w)
      PROVE  TypeOK'
  BY <1>7, WriteType DEF MarkLost, flows, past
<1> HIDE DEF TypeOK, Status, Stored, Active
<1> QED BY <1>1, <1>2, <1>3, <1>4, <1>5, <1>6, <1>7 DEF Lifecycle

\* Crash and recovery keep the types.
LEMMA TypeRecover ==
  ASSUME TypeOK, Crash \/ Recover
  PROVE  TypeOK'
<1> USE DEF TypeOK, Status, Stored, Active
<1>1. ASSUME Crash
      PROVE  TypeOK'
  BY <1>1, JournalBounds DEF Crash, ProcessGone, disk, past, FilesOf
<1>2. ASSUME RecoverIndex
      PROVE  TypeOK'
  BY <1>2 DEF RecoverIndex, disk, flows, past, FilesOf
<1>3. ASSUME NEW m \in Message, NEW w \in Outcome, RecoverFile(m, w)
      PROVE  TypeOK'
  <2>1. /\ status' \in [Message -> Status]
        /\ index' \in [Message -> Status] \cup {NoIndex}
        /\ faults' \in 0..MaxFaults
        /\ quarantine' \in Seq(Message)
        /\ Len(quarantine') <= MaxQuarantine
    <3>1. CASE WriteRecord(m, "received", w, status, index) /\ UNCHANGED quarantine
      BY <3>1, WriteType
    <3>2. CASE WriteRecord(m, "unknown", w, status, index) /\ UNCHANGED quarantine
      BY <3>2, WriteType
    <3>3. CASE Quarantine(m, w)
      BY <3>3, QuarantineType
    <3>4. CASE UNCHANGED <<status, index, quarantine, faults>>
      BY <3>4
    <3> QED BY <1>3, <3>1, <3>2, <3>3, <3>4 DEF RecoverFile
  <2> QED BY <1>3, <2>1 DEF RecoverFile, flows, past
<1>4. ASSUME RecoveryDone
      PROVE  TypeOK'
  BY <1>4 DEF RecoveryDone, disk, flows, past
<1> HIDE DEF TypeOK, Status, Stored, Active
<1> QED BY <1>1, <1>2, <1>3, <1>4 DEF Recover

\* Every step keeps the types.
LEMMA TypeNext == TypeOK /\ [Next]_jvars => TypeOK'
<1> SUFFICES ASSUME TypeOK, [Next]_jvars
             PROVE  TypeOK'
  OBVIOUS
<1>1. ASSUME NEW m \in Message, Receive(m)
      PROVE  TypeOK'
  BY <1>1, TypeReceive
<1>2. ASSUME NEW m \in Message, LeaseLapses(m) \/ Damage(m)
      PROVE  TypeOK'
  <2>1. CASE LeaseLapses(m)
    BY <2>1 DEF LeaseLapses, flows, past, TypeOK
  <2>2. CASE Damage(m)
    <3>1. faults' \in 0..MaxFaults
      BY <2>2, JournalBounds DEF Damage, TypeOK
    <3>2. status' \in [Message -> Status]
      BY <2>2 DEF Damage, TypeOK, Status, Stored
    <3> QED BY <2>2, <3>1, <3>2 DEF Damage, flows, TypeOK
  <2> QED BY <1>2, <2>1, <2>2
<1>3. ASSUME NEW o \in Owner, NEW m \in Message, Lifecycle(o, m)
      PROVE  TypeOK'
  BY <1>3, TypeLifecycle
<1>4. CASE Crash \/ Recover
  BY <1>4, TypeRecover
<1>5. CASE UNCHANGED jvars
  BY <1>5 DEF jvars, TypeOK
<1> QED BY <1>1, <1>2, <1>3, <1>4, <1>5 DEF Next

\* The journal's type invariant: every variable keeps its type forever.
THEOREM TypeCorrect == Spec => []TypeOK
<1>1. TypeOK /\ [Next]_jvars => TypeOK'
  BY TypeNext
<1> QED BY TypeInit, <1>1, PTL DEF Spec
----------------------------------------------------------------------------
(* At most one handler start per record, by the last claimant              *)

\* What makes the two invariants inductive: a record that may still be claimed
\* or dispatched has not had its handler started.
ReplaySafe == \A m \in Message : status[m] \in {"received", "claimed"} => ran[m] = <<>>

Fences == TypeOK /\ ReplaySafe /\ ClaimFenced /\ DispatchedOnce

\* A step that starts no handler, writes no token and makes no record replayable
\* that was not so before keeps the fences.
LEMMA QuietKeepsFences ==
  ASSUME Fences, TypeOK',
         ran' = ran,
         token' = token,
         \A n \in Message : status'[n] \in {"received", "claimed"}
                             => status[n] \in {"received", "claimed"}
  PROVE  Fences'
BY DEF Fences, ReplaySafe, ClaimFenced, DispatchedOnce

\* receive keeps the fences.
LEMMA FencesReceive ==
  ASSUME Fences, NEW m \in Message, Receive(m)
  PROVE  Fences'
<1>1. TypeOK /\ TypeOK'
  BY TypeReceive DEF Fences
<1>2. ASSUME NEW w \in Outcome, AdmitNew(m, w)
      PROVE  Fences'
  <2>1. \A n \in Message \ {m} : status'[n] \in {"received", "claimed"}
                                  => status[n] \in {"received", "claimed"}
    BY <1>1, <1>2 DEF AdmitNew, WriteRecord, OldestTombs, TombsOf, TypeOK
  <2>2. CASE w = "lost"
    <3>1. \A n \in Message : status'[n] \in {"received", "claimed"}
                              => status[n] \in {"received", "claimed"}
      BY <1>1, <1>2, <2>2 DEF AdmitNew, WriteRecord, OldestTombs, TombsOf, TypeOK
    <3> QED BY <1>1, <1>2, <2>2, <3>1, QuietKeepsFences DEF AdmitNew
  <2>3. CASE w # "lost"
    <3>1. ran' = [ran EXCEPT ![m] = <<>>] /\ token' = token
      BY <1>2, <2>3 DEF AdmitNew
    <3>2. ran'[m] = <<>> /\ \A n \in Message \ {m} : ran'[n] = ran[n]
      BY <1>1, <3>1 DEF TypeOK
    <3>3. Len(<<>>) = 0 /\ DOMAIN <<>> = {}
      OBVIOUS
    <3>4. ReplaySafe'
      BY <2>1, <3>2 DEF Fences, ReplaySafe
    <3>5. ClaimFenced'
      BY <3>1, <3>2, <3>3 DEF Fences, ClaimFenced
    <3>6. DispatchedOnce'
      BY <3>2, <3>3 DEF Fences, DispatchedOnce
    <3> QED BY <1>1, <3>4, <3>5, <3>6 DEF Fences
  <2> QED BY <2>2, <2>3
<1>3. ASSUME AdmitRefused(m)
      PROVE  Fences'
  BY <1>1, <1>3, QuietKeepsFences DEF AdmitRefused, disk, flows
<1>4. ASSUME NEW gone \in BOOLEAN, EvictionFails(m, gone)
      PROVE  Fences'
  <2>1. \A n \in Message : status'[n] \in {"received", "claimed"}
                            => status[n] \in {"received", "claimed"}
    BY <1>1, <1>4 DEF EvictionFails, OldestTombs, TombsOf, TypeOK
  <2> QED BY <1>1, <1>4, <2>1, QuietKeepsFences DEF EvictionFails, flows
<1>5. ASSUME NEW w \in Outcome, AdmitDuplicate(m, w)
      PROVE  Fences'
  <2>1. \A n \in Message : status'[n] \in {"received", "claimed"}
                            => status[n] \in {"received", "claimed"}
    BY <1>1, <1>5 DEF AdmitDuplicate, WriteRecord, TypeOK
  <2> QED BY <1>1, <1>5, <2>1, QuietKeepsFences DEF AdmitDuplicate, flows
<1>6. ASSUME NEW w \in Outcome, AdmitCorrupt(m, w)
      PROVE  Fences'
  <2>1. \A n \in Message : status'[n] \in {"received", "claimed"}
                            => status[n] \in {"received", "claimed"}
    BY <1>1, <1>6 DEF AdmitCorrupt, Quarantine, TypeOK
  <2> QED BY <1>1, <1>6, <2>1, QuietKeepsFences DEF AdmitCorrupt, flows
<1> QED BY <1>2, <1>3, <1>4, <1>5, <1>6 DEF Receive

\* The claim transitions keep the fences.
LEMMA FencesLifecycle ==
  ASSUME Fences, NEW o \in Owner, NEW m \in Message, Lifecycle(o, m)
  PROVE  Fences'
<1>1. TypeOK /\ TypeOK'
  BY TypeLifecycle DEF Fences
<1>2. ASSUME NEW w \in Outcome, NEW s \in Status, NEW from,
             status[m] = from, WriteRecord(m, s, w, status, index),
             s \in {"received", "claimed"} => from \in {"received", "claimed"}
      PROVE  \A n \in Message : status'[n] \in {"received", "claimed"}
                                => status[n] \in {"received", "claimed"}
  BY <1>1, <1>2 DEF WriteRecord, TypeOK
<1>3. ASSUME HandlerAcks(o, m)
      PROVE  Fences'
  BY <1>1, <1>3, QuietKeepsFences DEF HandlerAcks, disk
<1>4. ASSUME NEW w \in Outcome, Claim(o, m, w)
      PROVE  Fences'
  <2>1. \A n \in Message : status'[n] \in {"received", "claimed"}
                            => status[n] \in {"received", "claimed"}
    BY <1>4, <1>2 DEF Claim, Status, Stored, Active
  <2>2. ran[m] = <<>> /\ ran' = ran
    BY <1>4 DEF Claim, Fences, ReplaySafe
  <2>3. \A n \in Message \ {m} : token'[n] = token[n]
    BY <1>1, <1>4 DEF Claim, TypeOK
  <2>4. DOMAIN <<>> = {}
    OBVIOUS
  <2>5. ClaimFenced'
    BY <2>2, <2>3, <2>4 DEF Fences, ClaimFenced
  <2> QED BY <1>1, <2>1, <2>2, <2>5 DEF Fences, ReplaySafe, DispatchedOnce
<1>5. ASSUME NEW w \in Outcome, MarkDispatched(o, m, w)
      PROVE  Fences'
  <2>1. status[m] = "claimed" /\ held[o][m] = token[m] /\ token' = token
    BY <1>5 DEF MarkDispatched, HoldsClaim
  <2>2. ran[m] = <<>>
    BY <2>1 DEF Fences, ReplaySafe
  <2>3. CASE w # "ok"
    <3>1. \A n \in Message : status'[n] \in {"received", "claimed"}
                              => status[n] \in {"received", "claimed"}
      BY <1>5, <1>2 DEF MarkDispatched, HoldsClaim, Status, Stored, Active
    <3> QED BY <1>1, <1>5, <2>1, <2>3, <3>1, QuietKeepsFences DEF MarkDispatched
  <2>4. CASE w = "ok"
    <3>1. status' = [status EXCEPT ![m] = "dispatched"]
      BY <1>5, <2>4 DEF MarkDispatched, WriteRecord
    <3>2. ran' = [ran EXCEPT ![m] = Append(<<>>, token[m])]
      BY <1>5, <2>1, <2>2, <2>4 DEF MarkDispatched
    <3>3. /\ ran'[m] = <<token[m]>>
          /\ \A n \in Message \ {m} : ran'[n] = ran[n]
      BY <1>1, <3>2 DEF TypeOK
    <3>4. /\ Len(<<token[m]>>) = 1
          /\ \A i \in DOMAIN <<token[m]>> : <<token[m]>>[i] = token[m]
      OBVIOUS
    <3>5. ReplaySafe'
      BY <1>1, <3>1, <3>3 DEF Fences, ReplaySafe, TypeOK
    <3>6. ClaimFenced'
      BY <2>1, <3>3, <3>4 DEF Fences, ClaimFenced
    <3>7. DispatchedOnce'
      <4>1. Len(ran'[m]) <= 1
        BY <3>3, <3>4
      <4>2. \A n \in Message \ {m} : Len(ran'[n]) <= 1
        BY <3>3 DEF Fences, DispatchedOnce
      <4> QED BY <4>1, <4>2 DEF DispatchedOnce
    <3> QED BY <1>1, <3>5, <3>6, <3>7 DEF Fences
  <2> QED BY <2>3, <2>4
<1>6. ASSUME NEW w \in Outcome, ReleaseClaim(o, m, w)
      PROVE  Fences'
  <2>1. \A n \in Message : status'[n] \in {"received", "claimed"}
                            => status[n] \in {"received", "claimed"}
    BY <1>6, <1>2 DEF ReleaseClaim, HoldsClaim, Status, Stored, Active
  <2> QED BY <1>1, <1>6, <2>1, QuietKeepsFences DEF ReleaseClaim, flows
<1>7. ASSUME NEW w \in Outcome,
             \/ \E d \in {0, 1} : Complete(o, m, w, d)
             \/ MarkOutcomeUnknown(o, m, w)
             \/ MarkLost(o, m, w)
      PROVE  Fences'
  <2>1. PICK s \in {"completed", "unknown", "loss"} : WriteRecord(m, s, w, status, index)
    BY <1>7 DEF Complete, MarkOutcomeUnknown, MarkLost
  <2>2. ran' = ran /\ token' = token
    BY <1>7 DEF Complete, MarkOutcomeUnknown, MarkLost, flows
  <2>3. \A n \in Message : status'[n] \in {"received", "claimed"}
                            => status[n] \in {"received", "claimed"}
    BY <2>1, <1>2 DEF Status, Stored, Active
  <2> QED BY <1>1, <2>2, <2>3, QuietKeepsFences
<1> QED BY <1>3, <1>4, <1>5, <1>6, <1>7 DEF Lifecycle

\* Everything else is quiet: crashes, recovery, time and decay.
LEMMA FencesOther ==
  ASSUME Fences,
         \/ Crash \/ Recover
         \/ \E m \in Message : LeaseLapses(m) \/ Damage(m)
         \/ UNCHANGED jvars
  PROVE  Fences'
<1>1. TypeOK /\ TypeOK'
  BY TypeNext DEF Fences, Next
<1>2. ran' = ran /\ token' = token
  BY DEF Crash, ProcessGone, Recover, RecoverIndex, RecoverFile, RecoveryDone, LeaseLapses, Damage,
         jvars, disk, flows
<1>3. \A n \in Message : status'[n] \in {"received", "claimed"}
                          => status[n] \in {"received", "claimed"}
  <2>1. CASE \E m \in Message, w \in Outcome : RecoverFile(m, w)
    BY <1>1, <2>1 DEF RecoverFile, WriteRecord, Quarantine, TypeOK
  <2>2. CASE \E m \in Message : Damage(m)
    BY <1>1, <2>2 DEF Damage, TypeOK
  <2>3. CASE UNCHANGED status
    BY <2>3
  <2> QED BY <2>1, <2>2, <2>3 DEF Crash, ProcessGone, Recover, RecoverIndex, RecoveryDone, LeaseLapses,
                                jvars, disk
<1> QED BY <1>1, <1>2, <1>3, QuietKeepsFences

\* The fences hold in every reachable state.
LEMMA FencesInvariant == Spec => []Fences
<1>1. Init => Fences
  BY TypeInit DEF Init, Fences, ReplaySafe, ClaimFenced, DispatchedOnce
<1>2. Fences /\ [Next]_jvars => Fences'
  BY FencesReceive, FencesLifecycle, FencesOther DEF Next
<1> QED BY <1>1, <1>2, PTL DEF Spec

\* While its record exists, a message's handler is started at most once, across
\* any number of crashes, lease take-overs and half-failed writes.
THEOREM DispatchOnce == Spec => []DispatchedOnce
BY FencesInvariant, PTL DEF Fences

\* Only the flow that was granted the claim last starts the handler.
THEOREM LastClaimantRuns == Spec => []ClaimFenced
BY FencesInvariant, PTL DEF Fences
----------------------------------------------------------------------------
(* What a record file that is gone leaves behind                           *)

\* The index a method decides from agrees with the disk, except that it may
\* not have noticed a file's damage; it never misses that file.
IndexExact ==
  \A m \in Message :
    Indexed[m] = status[m] \/ (status[m] = "corrupt" /\ Indexed[m] \in Stored)

\* A tombstone stands for an acknowledged message, on disk and in the index.
TombsAcked ==
  \A m \in Message : status[m] = "completed" \/ Indexed[m] = "completed" => m \in acked

CorruptDamaged == \A m \in Message : status[m] = "corrupt" => m \in damaged

DoneInPast == \A m \in Message : doneAt[m] <= clock

Books == TypeOK /\ IndexExact /\ TombsAcked /\ CorruptDamaged /\ DoneInPast
Kept == NoSilentLoss /\ RecoveryMayStart /\ RecentCompletionsRemembered
Ledger == Books /\ Kept

\* A record write leaves an index that is exact for the disk it leaves, if the
\* one it started from was exact.
LEMMA WriteExact ==
  ASSUME TypeOK', NEW m \in Message, NEW s \in Status, NEW w \in Outcome,
         NEW st \in [Message -> Status], NEW ix \in [Message -> Status] \cup {NoIndex},
         ix # NoIndex =>
           \A n \in Message : ix[n] = st[n] \/ (st[n] = "corrupt" /\ ix[n] \in Stored),
         WriteRecord(m, s, w, st, ix)
  PROVE  IndexExact'
<1>1. CASE w # "ok" \/ ix = NoIndex
  BY <1>1 DEF WriteRecord, IndexExact, Indexed
<1>2. CASE w = "ok" /\ ix # NoIndex
  <2>1. status' = [st EXCEPT ![m] = s] /\ index' = [ix EXCEPT ![m] = s]
    BY <1>2 DEF WriteRecord
  <2>2. index' \in [Message -> Status] /\ Indexed' = index'
    BY <1>2, <2>1, JournalBounds DEF Indexed
  <2> QED BY <1>2, <2>1, <2>2 DEF IndexExact
<1> QED BY <1>1, <1>2

\* What a write does to the tombstones the index knows: a tombstone of the new
\* index is the record just written, or one that was there before.
LEMMA WriteTombs ==
  ASSUME TypeOK', NEW m \in Message, NEW s \in Status, NEW w \in Outcome,
         NEW st \in [Message -> Status], NEW ix \in [Message -> Status] \cup {NoIndex},
         WriteRecord(m, s, w, st, ix), NEW n \in Message,
         status'[n] = "completed" \/ Indexed'[n] = "completed"
  PROVE  \/ n = m /\ s = "completed"
         \/ st[n] = "completed"
         \/ ix # NoIndex /\ ix[n] = "completed"
<1>1. status' = st \/ status' = [st EXCEPT ![m] = s]
  BY DEF WriteRecord
<1>2. CASE index' = NoIndex
  BY <1>1, <1>2 DEF Indexed
<1>3. CASE index' # NoIndex
  BY <1>1, <1>3 DEF WriteRecord, Indexed
<1> QED BY <1>2, <1>3

\* The messages that keep a forgotten completion of m out of the window: others
\* that completed no earlier, or were damaged.
Later(m) == {n \in Message \ {m} : doneAt[n] >= doneAt[m] \/ n \in damaged}

LEMMA FiniteParts ==
  ASSUME NEW f \in [Message -> Status]
  PROVE  /\ IsFiniteSet(FilesOf(f)) /\ Cardinality(FilesOf(f)) \in Nat
         /\ IsFiniteSet(ActiveOf(f)) /\ Cardinality(ActiveOf(f)) \in Nat
         /\ ActiveOf(f) \subseteq FilesOf(f)
<1>1. FilesOf(f) \subseteq Message /\ ActiveOf(f) \subseteq Message /\ ActiveOf(f) \subseteq FilesOf(f)
  BY DEF FilesOf, ActiveOf, Stored
<1> QED BY <1>1, JournalSizes, FS_Subset, FS_CardinalityType

\* A disk with no more files and no more active records than before can still
\* be recovered.
LEMMA FewerFiles ==
  ASSUME TypeOK, TypeOK', RecoveryMayStart,
         FilesOf(status') \subseteq FilesOf(status),
         ActiveOf(status') \subseteq ActiveOf(status)
  PROVE  RecoveryMayStart'
<1>1. /\ Cardinality(FilesOf(status')) <= Cardinality(FilesOf(status))
      /\ Cardinality(ActiveOf(status')) <= Cardinality(ActiveOf(status))
  BY FiniteParts, FS_Subset DEF TypeOK
<1>2. /\ Cardinality(FilesOf(status')) \in Nat /\ Cardinality(FilesOf(status)) \in Nat
      /\ Cardinality(ActiveOf(status')) \in Nat /\ Cardinality(ActiveOf(status)) \in Nat
  BY FiniteParts DEF TypeOK
<1>3. (Len(quarantine) <= MaxQuarantine)'
  BY DEF TypeOK
<1> QED BY <1>1, <1>2, <1>3, JournalSizes DEF RecoveryMayStart, Rebuildable

\* Completions only move later and damage is never forgotten, so the set that
\* excuses a forgotten message only grows.
LEMMA LaterGrows ==
  ASSUME TypeOK, TypeOK', damaged \subseteq damaged',
         \A n \in Message : doneAt'[n] >= doneAt[n],
         NEW m \in Message, doneAt'[m] = doneAt[m]
  PROVE  /\ Cardinality(Later(m)') >= Cardinality(Later(m))
         /\ Cardinality(Later(m)) \in Nat /\ Cardinality(Later(m)') \in Nat
<1>1. Later(m) \subseteq Later(m)'
  <2>1. \A n \in Message : doneAt[n] \in Nat /\ doneAt'[n] \in Nat
    BY DEF TypeOK
  <2>2. \A n \in Message : doneAt[n] >= doneAt[m] => doneAt'[n] >= doneAt'[m]
    BY <2>1
  <2> QED BY <2>2 DEF Later
<1>2. Later(m)' \subseteq Message
  BY DEF Later
<1>3. IsFiniteSet(Later(m)') /\ IsFiniteSet(Later(m))
  BY <1>1, <1>2, JournalSizes, FS_Subset
<1> QED BY <1>1, <1>3, FS_Subset, FS_CardinalityType

LEMMA RecentMeans ==
  RecentCompletionsRemembered <=>
    \A m \in Message : doneAt[m] > 0 /\ status[m] = "absent" /\ m \notin damaged
                         => Cardinality(Later(m)) >= MaxRecords - MaxReplayBatch
BY DEF RecentCompletionsRemembered, Later

\* A step in which no file appears or disappears, none becomes active, and the
\* completion dates of the absent ones stay, loses nothing and leaves a
\* journal that can be recovered.
LEMMA MovesKeep ==
  ASSUME Ledger, Books', known' = known, quarantine' = quarantine,
         acked \subseteq acked', damaged \subseteq damaged',
         \A n \in Message : status'[n] = "absent" <=> status[n] = "absent",
         \A n \in Message : status'[n] \in Active => status[n] \in Active,
         \A n \in Message : doneAt'[n] >= doneAt[n],
         \A n \in Message : status'[n] = "absent" => doneAt'[n] = doneAt[n]
  PROVE  Ledger'
<1>1. TypeOK /\ TypeOK'
  BY DEF Ledger, Books
<1>2. NoSilentLoss'
  BY <1>1 DEF Ledger, Kept, NoSilentLoss, TypeOK
<1>3. RecoveryMayStart'
  <2>1. FilesOf(status') \subseteq FilesOf(status)
    BY <1>1 DEF FilesOf, TypeOK, Status, Stored, Active
  <2>2. ActiveOf(status') \subseteq ActiveOf(status)
    BY DEF ActiveOf
  <2> QED BY <1>1, <2>1, <2>2, FewerFiles DEF Ledger, Kept
<1>4. RecentCompletionsRemembered'
  <2> SUFFICES ASSUME NEW m \in Message, doneAt'[m] > 0, status'[m] = "absent", m \notin damaged'
               PROVE  Cardinality(Later(m)') >= MaxRecords - MaxReplayBatch
    BY DEF RecentCompletionsRemembered, Later
  <2>1. doneAt'[m] = doneAt[m] /\ status[m] = "absent" /\ m \notin damaged
    OBVIOUS
  <2>2. Cardinality(Later(m)) >= MaxRecords - MaxReplayBatch
    BY <2>1, RecentMeans DEF Ledger, Kept
  <2> QED BY <1>1, <2>1, <2>2, LaterGrows, JournalSizes
<1> QED BY <1>2, <1>3, <1>4 DEF Ledger, Kept

\* The files of an exact index are the files on disk, and it counts at least the
\* disk's active records.
LEMMA ExactCounts ==
  ASSUME TypeOK, IndexExact
  PROVE  FilesOf(Indexed) = FilesOf(status) /\ ActiveOf(status) \subseteq ActiveOf(Indexed)
BY DEF IndexExact, FilesOf, ActiveOf, Stored, Active, TypeOK

\* A tombstone that may be evicted was acknowledged, is on disk, and its message
\* is behind enough others for the deduplication window.
LEMMA EvictedIsOld ==
  ASSUME Books, NEW t \in OldestTombs(Indexed),
         Cardinality(ActiveOf(Indexed)) < MaxReplayBatch,
         Cardinality(FilesOf(Indexed)) >= MaxRecords
  PROVE  /\ t \in Message /\ t \in acked /\ status[t] \in {"completed", "corrupt"}
         /\ Cardinality(Later(t)) >= MaxRecords - MaxReplayBatch
<1>1. t \in Message /\ Indexed[t] = "completed"
  BY DEF OldestTombs, TombsOf
<1>2. t \in acked /\ status[t] \in {"completed", "corrupt"}
  BY <1>1 DEF Books, TombsAcked, IndexExact
<1>3. Indexed \in [Message -> Status]
  BY IndexedType DEF Books
<1> DEFINE F == FilesOf(Indexed)
           A == ActiveOf(Indexed)
           R == (F \ A) \ {t}
<1>4. IsFiniteSet(F) /\ A \subseteq F /\ IsFiniteSet(A) /\ Cardinality(A) \in Nat /\ Cardinality(F) \in Nat
  BY <1>3, FiniteParts
<1>5. IsFiniteSet(F \ A) /\ Cardinality(F \ A) = Cardinality(F) - Cardinality(A)
  <2>1. F \cap A = A
    BY <1>4
  <2> QED BY <1>4, <2>1, FS_Difference
<1>6. t \in F \ A
  BY <1>1 DEF FilesOf, ActiveOf, Stored, Active
<1>7. IsFiniteSet(R) /\ Cardinality(R) = Cardinality(F) - Cardinality(A) - 1
  BY <1>5, <1>6, FS_RemoveElement
<1>8. R \subseteq Later(t)
  <2> SUFFICES ASSUME NEW n \in R
               PROVE  n \in Later(t)
    OBVIOUS
  <2>1. n \in Message \ {t} /\ Indexed[n] \in {"completed", "corrupt"}
    BY DEF FilesOf, ActiveOf, Stored
  <2>2. CASE Indexed[n] = "completed"
    <3>1. doneAt[t] <= doneAt[n] /\ doneAt[t] \in Nat /\ doneAt[n] \in Nat
      BY <1>1, <2>1, <2>2 DEF OldestTombs, TombsOf, Books, TypeOK
    <3> QED BY <2>1, <3>1 DEF Later
  <2>3. CASE Indexed[n] = "corrupt"
    <3>1. n \in damaged
      BY <2>1, <2>3 DEF Books, IndexExact, CorruptDamaged
    <3> QED BY <2>1, <3>1 DEF Later
  <2> QED BY <2>1, <2>2, <2>3
<1>9. IsFiniteSet(Later(t))
  <2>1. Later(t) \subseteq Message
    BY DEF Later
  <2> QED BY <2>1, JournalSizes, FS_Subset
<1>10. Cardinality(R) <= Cardinality(Later(t)) /\ Cardinality(Later(t)) \in Nat
  BY <1>8, <1>9, FS_Subset, FS_CardinalityType
<1> HIDE DEF F, A, R
<1>11. Cardinality(A) < MaxReplayBatch /\ Cardinality(F) >= MaxRecords
  BY DEF F, A
<1>12. Cardinality(Later(t)) >= MaxRecords - MaxReplayBatch
  BY <1>4, <1>7, <1>10, <1>11, JournalSizes
<1> QED BY <1>1, <1>2, <1>12

\* The disk an eviction leaves still loses nothing and keeps the window.
LEMMA EvictionKeeps ==
  ASSUME Ledger, TypeOK', NEW t \in OldestTombs(Indexed),
         Cardinality(ActiveOf(Indexed)) < MaxReplayBatch,
         Cardinality(FilesOf(Indexed)) >= MaxRecords,
         NEW m \in Message, status[m] = "absent",
         \A n \in Message \ {m, t} : status'[n] = status[n],
         status'[t] = "absent",
         acked \ {m} \subseteq acked', quarantine' = quarantine, doneAt' = doneAt, damaged' = damaged,
         \/ status'[m] # "absent" /\ known' = known \cup {m}
         \/ status'[m] = "absent" /\ known' = known /\ acked' = acked
  PROVE  NoSilentLoss' /\ RecentCompletionsRemembered'
<1>1. /\ t \in Message /\ t \in acked /\ status[t] \in {"completed", "corrupt"}
      /\ Cardinality(Later(t)) >= MaxRecords - MaxReplayBatch
  BY EvictedIsOld DEF Ledger
<1>2. t # m /\ TypeOK
  BY <1>1 DEF Ledger, Books
<1>3. NoSilentLoss'
  <2>1. NoSilentLoss /\ known \subseteq Message
    BY <1>2 DEF Ledger, Kept, TypeOK
  <2> SUFFICES ASSUME NEW n \in known', status'[n] = "absent"
               PROVE  n \in acked' \/ \E i \in DOMAIN quarantine' : quarantine'[i] = n
    BY DEF NoSilentLoss
  <2>2. CASE n = t
    BY <1>1, <1>2, <2>2
  <2>3. CASE n # t /\ n # m
    <3>1. n \in known /\ status[n] = "absent"
      BY <2>1, <2>3
    <3> QED BY <2>1, <2>3, <3>1 DEF NoSilentLoss
  <2>4. CASE n = m
    <3>1. n \in known /\ status[n] = "absent" /\ acked' = acked
      BY <2>4
    <3> QED BY <2>1, <3>1 DEF NoSilentLoss
  <2> QED BY <2>2, <2>3, <2>4
<1>4. RecentCompletionsRemembered'
  <2>1. \A n \in Message : Later(n)' = Later(n)
    BY DEF Later
  <2> SUFFICES ASSUME NEW n \in Message, doneAt'[n] > 0, status'[n] = "absent", n \notin damaged'
               PROVE  Cardinality(Later(n)') >= MaxRecords - MaxReplayBatch
    BY DEF RecentCompletionsRemembered, Later
  <2>2. CASE n = t
    BY <1>1, <2>1, <2>2
  <2>3. CASE n # t
    <3>1. status[n] = "absent"
      BY <2>3
    <3> QED BY <2>1, <3>1, RecentMeans DEF Ledger, Kept
  <2> QED BY <2>2, <2>3
<1> QED BY <1>3, <1>4

\* Admitting one more record: the capacity checks of prepareNewRecordLocked.
LEMMA OneMoreFits ==
  ASSUME Ledger, TypeOK', NEW m \in Message, status[m] = "absent",
         Cardinality(ActiveOf(Indexed)) < MaxReplayBatch,
         ActiveOf(status') \subseteq ActiveOf(status) \cup {m},
         \/ /\ Cardinality(FilesOf(Indexed)) < MaxRecords
            /\ FilesOf(status') \subseteq FilesOf(status) \cup {m}
         \/ \E t \in FilesOf(status) : FilesOf(status') \subseteq (FilesOf(status) \ {t}) \cup {m}
  PROVE  RecoveryMayStart'
<1>1. TypeOK /\ IndexExact /\ RecoveryMayStart
  BY DEF Ledger, Books, Kept
<1>2. Indexed \in [Message -> Status]
  BY <1>1, IndexedType
<1> DEFINE F == FilesOf(status)
           A == ActiveOf(status)
<1>3. /\ IsFiniteSet(F) /\ Cardinality(F) \in Nat /\ IsFiniteSet(A) /\ Cardinality(A) \in Nat
      /\ Cardinality(FilesOf(status')) \in Nat /\ Cardinality(ActiveOf(status')) \in Nat
  BY <1>1, FiniteParts DEF TypeOK
<1>4. m \notin F /\ m \notin A
  BY DEF FilesOf, ActiveOf, Stored, Active
<1>5. Cardinality(ActiveOf(status')) <= MaxReplayBatch
  <2>1. IsFiniteSet(ActiveOf(Indexed)) /\ Cardinality(ActiveOf(Indexed)) \in Nat
    BY <1>2, FiniteParts
  <2>2. Cardinality(A) <= Cardinality(ActiveOf(Indexed))
    BY <1>1, <2>1, ExactCounts, FS_Subset
  <2>3. IsFiniteSet(A \cup {m}) /\ Cardinality(A \cup {m}) = Cardinality(A) + 1
    BY <1>3, <1>4, FS_AddElement
  <2>4. Cardinality(ActiveOf(status')) <= Cardinality(A \cup {m})
    BY <2>3, FS_Subset
  <2> HIDE DEF A
  <2> QED BY <1>3, <2>1, <2>2, <2>3, <2>4, JournalSizes
<1>6. Cardinality(FilesOf(status')) <= MaxRecords
  <2>1. CASE Cardinality(FilesOf(Indexed)) < MaxRecords /\ FilesOf(status') \subseteq F \cup {m}
    <3>1. Cardinality(F) < MaxRecords
      BY <1>1, <2>1, ExactCounts
    <3>2. IsFiniteSet(F \cup {m}) /\ Cardinality(F \cup {m}) = Cardinality(F) + 1
      BY <1>3, <1>4, FS_AddElement
    <3>3. Cardinality(FilesOf(status')) <= Cardinality(F \cup {m})
      BY <2>1, <3>2, FS_Subset
    <3> HIDE DEF F
    <3> QED BY <1>3, <3>1, <3>2, <3>3, JournalSizes
  <2>2. ASSUME NEW t \in F, FilesOf(status') \subseteq (F \ {t}) \cup {m}
        PROVE  Cardinality(FilesOf(status')) <= MaxRecords
    <3>1. Cardinality(F) <= MaxRecords
      BY <1>1 DEF RecoveryMayStart, Rebuildable
    <3>2. IsFiniteSet(F \ {t}) /\ Cardinality(F \ {t}) = Cardinality(F) - 1
      BY <1>3, FS_RemoveElement
    <3>3. IsFiniteSet((F \ {t}) \cup {m}) /\ Cardinality((F \ {t}) \cup {m}) = Cardinality(F)
      <4>1. m \notin F \ {t}
        BY <1>4
      <4>2. /\ IsFiniteSet((F \ {t}) \cup {m})
            /\ Cardinality((F \ {t}) \cup {m}) = Cardinality(F \ {t}) + 1
        BY <3>2, <4>1, FS_AddElement
      <4> HIDE DEF F
      <4> QED BY <1>3, <3>2, <4>2
    <3>4. Cardinality(FilesOf(status')) <= Cardinality((F \ {t}) \cup {m})
      BY <2>2, <3>3, FS_Subset
    <3> HIDE DEF F
    <3> QED BY <1>3, <3>1, <3>3, <3>4, JournalSizes
  <2> QED BY <2>1, <2>2
<1>7. (Len(quarantine) <= MaxQuarantine)'
  BY DEF TypeOK
<1> QED BY <1>5, <1>6, <1>7 DEF RecoveryMayStart, Rebuildable

\* A record write that is neither an admission nor a completion changes no more
\* than one active record into an active record or another kind of tombstone.
LEMMA WriteKeepsBooks ==
  ASSUME Books, TypeOK', NEW m \in Message, NEW s \in Status \ {"corrupt"}, NEW w \in Outcome,
         WriteRecord(m, s, w, status, index),
         s = "completed" => m \in acked,
         acked \subseteq acked', damaged \subseteq damaged', DoneInPast'
  PROVE  Books'
<1>1. TypeOK /\ IndexExact /\ TombsAcked /\ CorruptDamaged
  BY DEF Books
<1>2. index # NoIndex =>
        \A n \in Message : index[n] = status[n] \/ (status[n] = "corrupt" /\ index[n] \in Stored)
  BY <1>1 DEF IndexExact, Indexed
<1>3. IndexExact'
  BY <1>1, <1>2, WriteExact DEF TypeOK
<1>4. TombsAcked'
  <2> SUFFICES ASSUME NEW n \in Message, status'[n] = "completed" \/ Indexed'[n] = "completed"
               PROVE  n \in acked'
    BY DEF TombsAcked
  <2>1. \/ n = m /\ s = "completed"
        \/ status[n] = "completed"
        \/ index # NoIndex /\ index[n] = "completed"
    <3>1. status \in [Message -> Status] /\ index \in [Message -> Status] \cup {NoIndex}
      BY <1>1 DEF TypeOK
    <3>2. s \in Status
      OBVIOUS
    <3> QED BY <3>1, <3>2, WriteTombs
  <2> QED BY <1>1, <2>1 DEF TombsAcked, Indexed
<1>5. CorruptDamaged'
  BY <1>1 DEF CorruptDamaged, WriteRecord, TypeOK
<1> QED BY <1>3, <1>4, <1>5 DEF Books

LEMMA AppendedFile ==
  ASSUME NEW q \in Seq(Message), NEW m \in Message
  PROVE  /\ \E i \in DOMAIN Append(q, m) : Append(q, m)[i] = m
         /\ \A i \in DOMAIN q : i \in DOMAIN Append(q, m) /\ Append(q, m)[i] = q[i]
<1>1. DOMAIN Append(q, m) = 1..(Len(q) + 1) /\ DOMAIN q = 1..Len(q) /\ Len(q) \in Nat
  OBVIOUS
<1>2. Append(q, m)[Len(q) + 1] = m /\ Len(q) + 1 \in 1..(Len(q) + 1)
  BY <1>1
<1>3. \A i \in 1..Len(q) : i \in 1..(Len(q) + 1) /\ Append(q, m)[i] = q[i]
  BY <1>1
<1> QED BY <1>1, <1>2, <1>3

\* Quarantining a damaged file keeps the ledger: its message's bytes are kept.
LEMMA QuarantineKeeps ==
  ASSUME Ledger, TypeOK', NEW m \in Message, NEW w \in Outcome, Quarantine(m, w),
         known' = known, acked' = acked, damaged' = damaged, doneAt' = doneAt, clock' = clock
  PROVE  Ledger'
<1>1. TypeOK /\ Books
  BY DEF Ledger, Books
<1>2. \A n \in Message : Later(n)' = Later(n)
  BY DEF Later
<1>3. CASE UNCHANGED <<status, quarantine>> /\ index' \in {index, NoIndex}
  <2>1. Indexed' = Indexed \/ Indexed' = status
    BY <1>3 DEF Indexed
  <2>2. Books'
    BY <1>1, <1>3, <2>1 DEF Books, IndexExact, TombsAcked, CorruptDamaged, DoneInPast
  <2> QED BY <1>1, <1>3, <2>2, MovesKeep DEF TypeOK
<1>4. CASE /\ status[m] = "corrupt"
           /\ status' = [status EXCEPT ![m] = "absent"]
           /\ quarantine' = Append(quarantine, m)
           /\ index' = NoIndex \/ (index # NoIndex /\ index' = [index EXCEPT ![m] = "absent"])
  <2>1. status'[m] = "absent" /\ \A n \in Message \ {m} : status'[n] = status[n]
    BY <1>1, <1>4 DEF TypeOK
  <2>2. \A n \in Message : Indexed'[n] = status'[n] \/ (n # m /\ Indexed'[n] = Indexed[n])
    <3>1. CASE index' = NoIndex
      BY <3>1 DEF Indexed
    <3>2. CASE index' # NoIndex
      <4>1. index' = [index EXCEPT ![m] = "absent"] /\ index \in [Message -> Status]
        BY <1>1, <1>4, <3>2 DEF TypeOK
      <4> QED BY <1>4, <2>1, <3>2, <4>1 DEF Indexed
    <3> QED BY <3>1, <3>2
  <2>3. Books'
    BY <1>1, <2>1, <2>2 DEF Books, IndexExact, TombsAcked, CorruptDamaged, DoneInPast
  <2>4. \E i \in DOMAIN quarantine' : quarantine'[i] = m
    BY <1>1, <1>4, AppendedFile DEF TypeOK
  <2>5. \A i \in DOMAIN quarantine : i \in DOMAIN quarantine' /\ quarantine'[i] = quarantine[i]
    BY <1>1, <1>4, AppendedFile DEF TypeOK
  <2>6. NoSilentLoss'
    <3>1. NoSilentLoss /\ known \subseteq Message
      BY <1>1 DEF Ledger, Kept, TypeOK
    <3> QED BY <2>1, <2>4, <2>5, <3>1 DEF NoSilentLoss
  <2>7. RecoveryMayStart'
    <3>1. FilesOf(status') \subseteq FilesOf(status) /\ ActiveOf(status') \subseteq ActiveOf(status)
      BY <1>1, <2>1 DEF FilesOf, ActiveOf, Stored, Active
    <3> QED BY <1>1, <3>1, FewerFiles DEF Ledger, Kept
  <2>8. RecentCompletionsRemembered'
    <3>1. m \in damaged
      BY <1>1, <1>4 DEF Books, CorruptDamaged
    <3> SUFFICES ASSUME NEW n \in Message, doneAt'[n] > 0, status'[n] = "absent", n \notin damaged'
                 PROVE  Cardinality(Later(n)') >= MaxRecords - MaxReplayBatch
      BY DEF RecentCompletionsRemembered, Later
    <3> QED BY <1>2, <2>1, <3>1, RecentMeans DEF Ledger, Kept
  <2> QED BY <2>3, <2>6, <2>7, <2>8 DEF Ledger, Kept
<1> QED BY <1>3, <1>4 DEF Quarantine

\* A step that leaves every file, its dates and its history alone keeps the
\* ledger, whether it drops the index, rebuilds it or keeps it.
LEMMA QuietKeepsLedger ==
  ASSUME Ledger, TypeOK', UNCHANGED <<status, quarantine, doneAt, clock, known, damaged>>,
         acked \subseteq acked', index' \in {index, Indexed, NoIndex, status}
  PROVE  Ledger'
<1>1. TypeOK /\ Books
  BY DEF Ledger, Books
<1>2. Indexed' = Indexed \/ Indexed' = status
  BY DEF Indexed
<1>3. Books'
  BY <1>1, <1>2 DEF Books, IndexExact, TombsAcked, CorruptDamaged, DoneInPast
<1> QED BY <1>1, <1>3, MovesKeep DEF TypeOK

\* Admission, with or without an eviction, keeps the ledger.
LEMMA AdmitKeeps ==
  ASSUME Ledger, NEW m \in Message, NEW w \in Outcome, AdmitNew(m, w)
  PROVE  Ledger'
<1>1. TypeOK /\ Books /\ TypeOK'
  BY TypeReceive DEF Ledger, Books, Receive
<1>2. Indexed \in [Message -> Status] /\ status \in [Message -> Status] /\ NoIndex \notin [Message -> Status]
  BY <1>1, IndexedType, JournalBounds DEF TypeOK
<1>3. /\ status[m] = "absent" /\ Indexed[m] = "absent"
      /\ Cardinality(ActiveOf(Indexed)) < MaxReplayBatch
      /\ UNCHANGED <<doneAt, clock, quarantine, damaged>>
      /\ w = "lost" => known' = known /\ acked' = acked
      /\ w # "lost" => known' = known \cup {m} /\ acked' = acked \ {m}
  BY <1>1 DEF AdmitNew, Books, IndexExact
<1>4. "received" \in Status /\ "received" \in Active
  BY DEF Status, Stored, Active
\* the books, for the disk st and the index ix the write starts from
<1>5. ASSUME NEW st \in [Message -> Status], NEW ix \in [Message -> Status],
             WriteRecord(m, "received", w, st, ix), st[m] = "absent",
             \A n \in Message : \/ st[n] = status[n] /\ ix[n] = Indexed[n]
                                \/ st[n] = "absent" /\ ix[n] = "absent"
      PROVE  Books'
  <2>1. \A n \in Message : ix[n] = st[n] \/ (st[n] = "corrupt" /\ ix[n] \in Stored)
    BY <1>1, <1>5 DEF Books, IndexExact
  <2>2. IndexExact'
    BY <1>1, <1>4, <1>5, <2>1, WriteExact
  <2>3. TombsAcked'
    <3> SUFFICES ASSUME NEW n \in Message, status'[n] = "completed" \/ Indexed'[n] = "completed"
                 PROVE  n \in acked'
      BY DEF TombsAcked
    <3>1. st[n] = "completed" \/ ix[n] = "completed"
      BY <1>1, <1>4, <1>5, WriteTombs
    <3>2. n # m
      BY <1>5, <2>1, <3>1
    <3>3. n \in acked
      BY <1>1, <1>5, <3>1 DEF Books, TombsAcked
    <3> QED BY <1>3, <3>2, <3>3
  <2>4. CorruptDamaged'
    BY <1>1, <1>3, <1>5 DEF Books, CorruptDamaged, WriteRecord
  <2>5. DoneInPast'
    BY <1>1, <1>3 DEF Books, DoneInPast
  <2> QED BY <1>1, <2>2, <2>3, <2>4, <2>5 DEF Books
<1>6. CASE /\ Cardinality(FilesOf(Indexed)) < MaxRecords
           /\ WriteRecord(m, "received", w, status, Indexed)
  <2>1. Books'
    BY <1>2, <1>3, <1>5, <1>6
  <2>2. /\ \A n \in Message \ {m} : status'[n] = status[n]
        /\ w = "lost" => status' = status
        /\ w # "lost" => status'[m] = "received"
    BY <1>2, <1>6 DEF WriteRecord
  <2>3. RecoveryMayStart'
    <3>1. /\ FilesOf(status') \subseteq FilesOf(status) \cup {m}
          /\ ActiveOf(status') \subseteq ActiveOf(status) \cup {m}
      BY <2>2 DEF FilesOf, ActiveOf
    <3> QED BY <1>1, <1>3, <1>6, <3>1, OneMoreFits
  <2>4. NoSilentLoss'
    <3>1. NoSilentLoss /\ known \subseteq Message
      BY <1>1 DEF Ledger, Kept, TypeOK
    <3> QED BY <1>3, <2>2, <3>1 DEF NoSilentLoss
  <2>5. RecentCompletionsRemembered'
    <3>1. \A n \in Message : Later(n)' = Later(n)
      BY <1>3 DEF Later
    <3>2. \A n \in Message : status'[n] = "absent" => status[n] = "absent"
      BY <1>3, <2>2
    <3> SUFFICES ASSUME NEW n \in Message, doneAt'[n] > 0, status'[n] = "absent", n \notin damaged'
                 PROVE  Cardinality(Later(n)') >= MaxRecords - MaxReplayBatch
      BY DEF RecentCompletionsRemembered, Later
    <3> QED BY <1>3, <3>1, <3>2, RecentMeans DEF Ledger, Kept
  <2> QED BY <2>1, <2>3, <2>4, <2>5 DEF Ledger, Kept
<1>7. ASSUME Cardinality(FilesOf(Indexed)) >= MaxRecords, NEW t \in OldestTombs(Indexed),
             WriteRecord(m, "received", w, [status EXCEPT ![t] = "absent"],
                         [Indexed EXCEPT ![t] = "absent"])
      PROVE  Ledger'
  <2>1. t \in Message /\ t # m /\ status[t] \in Stored
    BY <1>1, <1>3, <1>7, EvictedIsOld DEF Stored
  <2>2. Books'
    <3> DEFINE st == [status EXCEPT ![t] = "absent"]
               ix == [Indexed EXCEPT ![t] = "absent"]
    <3>1. /\ st \in [Message -> Status] /\ ix \in [Message -> Status] /\ st[m] = "absent"
          /\ \A n \in Message : \/ st[n] = status[n] /\ ix[n] = Indexed[n]
                                \/ st[n] = "absent" /\ ix[n] = "absent"
      BY <1>2, <1>3, <2>1 DEF Status
    <3>2. WriteRecord(m, "received", w, st, ix)
      BY <1>7
    <3> QED BY <1>5, <3>1, <3>2
  <2>3. /\ \A n \in Message \ {m, t} : status'[n] = status[n]
        /\ status'[t] = "absent"
        /\ w = "lost" => status'[m] = "absent"
        /\ w # "lost" => status'[m] = "received"
    BY <1>2, <1>3, <1>7, <2>1 DEF WriteRecord
  <2>4. NoSilentLoss' /\ RecentCompletionsRemembered'
    <3>1. acked \ {m} \subseteq acked'
      BY <1>3
    <3>2. \/ status'[m] # "absent" /\ known' = known \cup {m}
          \/ status'[m] = "absent" /\ known' = known /\ acked' = acked
      BY <1>3, <2>3
    <3> QED BY <1>1, <1>3, <1>7, <2>3, <3>1, <3>2, EvictionKeeps
  <2>5. RecoveryMayStart'
    <3>1. t \in FilesOf(status)
      BY <2>1 DEF FilesOf
    <3>2. /\ FilesOf(status') \subseteq (FilesOf(status) \ {t}) \cup {m}
          /\ ActiveOf(status') \subseteq ActiveOf(status) \cup {m}
      BY <2>3 DEF FilesOf, ActiveOf, Stored, Active
    <3> QED BY <1>1, <1>3, <3>1, <3>2, OneMoreFits
  <2> QED BY <2>2, <2>4, <2>5 DEF Ledger, Kept
<1> QED BY <1>6, <1>7 DEF AdmitNew

\* An eviction that fails half-way keeps the ledger: the tombstone may be gone
\* already, and no record has taken its place.
LEMMA EvictionFailsKeeps ==
  ASSUME Ledger, NEW m \in Message, NEW gone \in BOOLEAN, EvictionFails(m, gone)
  PROVE  Ledger'
<1>1. TypeOK /\ Books /\ TypeOK'
  BY TypeReceive DEF Ledger, Books, Receive
<1>2. UNCHANGED <<doneAt, clock, quarantine, damaged, known, acked>> /\ index' = NoIndex
  BY DEF EvictionFails, flows, past
<1>3. CASE status' = status
  BY <1>1, <1>2, <1>3, QuietKeepsLedger
<1>4. ASSUME NEW t \in OldestTombs(Indexed), status' = [status EXCEPT ![t] = "absent"]
      PROVE  Ledger'
  <2>1. /\ status[m] = "absent"
        /\ Cardinality(ActiveOf(Indexed)) < MaxReplayBatch
        /\ Cardinality(FilesOf(Indexed)) >= MaxRecords
    BY DEF EvictionFails
  <2>2. t \in Message /\ t # m /\ status[t] \in Stored
    BY <1>1, <1>4, <2>1, EvictedIsOld DEF Stored
  <2>3. status'[t] = "absent" /\ \A n \in Message \ {t} : status'[n] = status[n]
    BY <1>1, <1>4, <2>2 DEF TypeOK
  <2>4. \A n \in Message : Indexed'[n] = status'[n]
    BY <1>2 DEF Indexed
  <2>5. Books'
    BY <1>1, <1>2, <2>3, <2>4 DEF Books, IndexExact, TombsAcked, CorruptDamaged, DoneInPast
  <2>6. NoSilentLoss' /\ RecentCompletionsRemembered'
    BY <1>1, <1>2, <1>4, <2>1, <2>3, EvictionKeeps
  <2>7. RecoveryMayStart'
    <3>1. FilesOf(status') \subseteq FilesOf(status) /\ ActiveOf(status') \subseteq ActiveOf(status)
      BY <2>3 DEF FilesOf, ActiveOf, Stored, Active
    <3> QED BY <1>1, <3>1, FewerFiles DEF Ledger, Kept
  <2> QED BY <2>5, <2>6, <2>7 DEF Ledger, Kept
<1> QED BY <1>3, <1>4 DEF EvictionFails

\* A write of an active record as another active record, or of any record as
\* itself, keeps the ledger; so does a completion that was acknowledged.
LEMMA RewriteKeeps ==
  ASSUME Ledger, TypeOK', NEW m \in Message, NEW s \in Status, NEW w \in Outcome,
         WriteRecord(m, s, w, status, index),
         \/ status[m] \in Active /\ s \in Active \cup {"completed"}
         \/ s = status[m] /\ s \in Stored \ {"corrupt"},
         s = "completed" => m \in acked,
         UNCHANGED <<quarantine, known, acked, damaged>>, DoneInPast',
         \A n \in Message : doneAt'[n] >= doneAt[n],
         \A n \in Message \ {m} : doneAt'[n] = doneAt[n]
  PROVE  Ledger'
<1>1. TypeOK /\ Books
  BY DEF Ledger, Books
<1>2. s # "corrupt" /\ s # "absent" /\ status[m] # "absent"
  BY DEF Active, Stored
<1>3. Books'
  BY <1>1, <1>2, WriteKeepsBooks
<1>4. /\ \A n \in Message \ {m} : status'[n] = status[n]
      /\ status'[m] \in {s, status[m]}
  BY <1>1 DEF WriteRecord, TypeOK
<1>5. /\ \A n \in Message : status'[n] = "absent" <=> status[n] = "absent"
      /\ \A n \in Message : status'[n] \in Active => status[n] \in Active
      /\ \A n \in Message : status'[n] = "absent" => doneAt'[n] = doneAt[n]
  BY <1>2, <1>4
<1> QED BY <1>1, <1>3, <1>5, MovesKeep

\* Dates that do not change are as good as before.
LEMMA SameDates ==
  ASSUME Ledger, doneAt' = doneAt, clock' = clock
  PROVE  /\ DoneInPast'
         /\ \A n \in Message : doneAt'[n] >= doneAt[n]
         /\ \A n \in Message : doneAt'[n] = doneAt[n]
BY DEF Ledger, Books, DoneInPast, TypeOK

\* receive keeps the ledger.
LEMMA LedgerReceive ==
  ASSUME Ledger, NEW m \in Message, Receive(m)
  PROVE  Ledger'
<1>1. TypeOK /\ TypeOK'
  BY TypeReceive DEF Ledger, Books
<1>2. ASSUME AdmitRefused(m)
      PROVE  Ledger'
  BY <1>1, <1>2, QuietKeepsLedger DEF AdmitRefused, disk, flows, past
<1>3. ASSUME NEW w \in Outcome, AdmitDuplicate(m, w)
      PROVE  Ledger'
  <2>1. /\ status[m] \in Stored \ {"corrupt"} /\ status[m] \in Status
        /\ WriteRecord(m, status[m], w, status, index)
        /\ UNCHANGED <<quarantine, known, acked, damaged, doneAt, clock>>
    BY <1>1, <1>3 DEF AdmitDuplicate, TypeOK, flows, past
  <2>2. status[m] = "completed" => m \in acked
    BY DEF Ledger, Books, TombsAcked
  <2> QED BY <1>1, <2>1, <2>2, SameDates, RewriteKeeps
<1>4. ASSUME NEW w \in Outcome, AdmitCorrupt(m, w)
      PROVE  Ledger'
  BY <1>1, <1>4, QuarantineKeeps DEF AdmitCorrupt, flows, past
<1> QED BY <1>2, <1>3, <1>4, AdmitKeeps, EvictionFailsKeeps DEF Receive

\* The claim transitions keep the ledger.
LEMMA LedgerLifecycle ==
  ASSUME Ledger, NEW o \in Owner, NEW m \in Message, Lifecycle(o, m)
  PROVE  Ledger'
<1>1. TypeOK /\ TypeOK'
  BY TypeLifecycle DEF Ledger, Books
<1>2. ASSUME HandlerAcks(o, m)
      PROVE  Ledger'
  BY <1>1, <1>2, QuietKeepsLedger DEF HandlerAcks, disk, past
<1>3. ASSUME NEW w \in Outcome,
             \/ Claim(o, m, w)
             \/ ReleaseClaim(o, m, w)
             \/ MarkDispatched(o, m, w)
             \/ MarkOutcomeUnknown(o, m, w)
             \/ MarkLost(o, m, w)
      PROVE  Ledger'
  <2>1. PICK s \in Active : WriteRecord(m, s, w, status, index)
    BY <1>3 DEF Claim, ReleaseClaim, MarkDispatched, MarkOutcomeUnknown, MarkLost, Active
  <2>2. status[m] \in Active
    BY <1>3 DEF Claim, ReleaseClaim, MarkDispatched, MarkOutcomeUnknown, MarkLost, HoldsClaim, Active
  <2>3. UNCHANGED <<quarantine, known, acked, damaged, doneAt, clock>>
    BY <1>3 DEF Claim, ReleaseClaim, MarkDispatched, MarkOutcomeUnknown, MarkLost, flows, past
  <2>4. s \in Status /\ s # "completed"
    BY DEF Active, Status, Stored
  <2> QED BY <1>1, <2>1, <2>2, <2>3, <2>4, SameDates, RewriteKeeps
<1>4. ASSUME NEW w \in Outcome, NEW d \in {0, 1}, Complete(o, m, w, d)
      PROVE  Ledger'
  <2>1. /\ WriteRecord(m, "completed", w, status, index)
        /\ m \in acked
        /\ status[m] = "dispatched"
        /\ UNCHANGED <<quarantine, known, acked, damaged>>
    BY <1>4 DEF Complete, HoldsClaim, flows, past
  <2>2. DoneInPast /\ clock \in Nat /\ doneAt \in [Message -> Nat]
    BY DEF Ledger, Books, TypeOK
  <2>3. \/ doneAt' = doneAt /\ clock' = clock
        \/ doneAt' = [doneAt EXCEPT ![m] = clock + d] /\ clock' = clock + d
    BY <1>4 DEF Complete
  <2>4. /\ DoneInPast'
        /\ \A n \in Message : doneAt'[n] >= doneAt[n]
        /\ \A n \in Message \ {m} : doneAt'[n] = doneAt[n]
    BY <2>2, <2>3 DEF DoneInPast
  <2>5. "completed" \in Status /\ "dispatched" \in Active
    BY DEF Status, Stored, Active
  <2> QED BY <1>1, <2>1, <2>4, <2>5, RewriteKeeps
<1> QED BY <1>2, <1>3, <1>4 DEF Lifecycle

\* Crash and recovery keep the ledger.
LEMMA LedgerRecover ==
  ASSUME Ledger, Crash \/ Recover
  PROVE  Ledger'
<1>1. TypeOK /\ TypeOK'
  BY TypeRecover DEF Ledger, Books
<1>2. CASE Crash \/ RecoverIndex \/ RecoveryDone
  BY <1>1, <1>2, QuietKeepsLedger DEF Crash, ProcessGone, RecoverIndex, RecoveryDone, disk, flows, past
<1>3. ASSUME NEW m \in Message, NEW w \in Outcome, RecoverFile(m, w)
      PROVE  Ledger'
  <2>1. UNCHANGED <<known, acked, damaged, doneAt, clock>>
    BY <1>3 DEF RecoverFile, flows, past
  <2>2. ASSUME NEW s \in {"received", "unknown"}, WriteRecord(m, s, w, status, index),
               status[m] \in {"claimed", "dispatched"}, UNCHANGED quarantine
        PROVE  Ledger'
    <3>1. s \in Status /\ s \in Active /\ status[m] \in Active /\ s # "completed"
      BY <2>2 DEF Status, Stored, Active
    <3> QED BY <1>1, <2>1, <2>2, <3>1, SameDates, RewriteKeeps
  <2>3. CASE Quarantine(m, w)
    BY <1>1, <2>1, <2>3, QuarantineKeeps
  <2>4. CASE UNCHANGED <<status, index, quarantine, faults>>
    BY <1>1, <2>1, <2>4, QuietKeepsLedger
  <2> QED BY <1>3, <2>2, <2>3, <2>4 DEF RecoverFile
<1> QED BY <1>2, <1>3 DEF Recover

\* So do time and decay: a damaged file still counts as a file.
LEMMA LedgerDecay ==
  ASSUME Ledger, TypeOK', NEW m \in Message, LeaseLapses(m) \/ Damage(m)
  PROVE  Ledger'
<1>1. TypeOK /\ Books
  BY DEF Ledger, Books
<1>2. CASE LeaseLapses(m)
  BY <1>2, QuietKeepsLedger DEF LeaseLapses, flows, past
<1>3. CASE Damage(m)
  <2>1. /\ status[m] \in Stored \ {"corrupt"}
        /\ status' = [status EXCEPT ![m] = "corrupt"]
        /\ damaged' = damaged \cup {m}
        /\ UNCHANGED <<known, acked, doneAt, clock, quarantine, index>>
    BY <1>3 DEF Damage, flows
  <2>2. status'[m] = "corrupt" /\ \A n \in Message \ {m} : status'[n] = status[n]
    BY <1>1, <2>1 DEF TypeOK
  <2>3. \A n \in Message : Indexed'[n] = Indexed[n] \/ Indexed'[n] = status'[n]
    BY <2>1 DEF Indexed
  <2>4. IndexExact'
    <3> SUFFICES ASSUME NEW n \in Message
                 PROVE  Indexed'[n] = status'[n] \/ (status'[n] = "corrupt" /\ Indexed'[n] \in Stored)
      BY DEF IndexExact
    <3>1. Indexed[n] = status[n] \/ (status[n] = "corrupt" /\ Indexed[n] \in Stored)
      BY <1>1 DEF Books, IndexExact
    <3> QED BY <2>1, <2>2, <2>3, <3>1
  <2>5. TombsAcked' /\ CorruptDamaged' /\ DoneInPast'
    BY <1>1, <2>1, <2>2, <2>3 DEF Books, TombsAcked, CorruptDamaged, DoneInPast
  <2>6. Books'
    BY <2>4, <2>5 DEF Books
  <2>7. /\ \A n \in Message : status'[n] = "absent" <=> status[n] = "absent"
        /\ \A n \in Message : status'[n] \in Active => status[n] \in Active
    BY <2>1, <2>2 DEF Stored, Active
  <2> QED BY <1>1, <2>1, <2>6, <2>7, SameDates, MovesKeep
<1> QED BY <1>2, <1>3

\* An empty journal is in order.
LEMMA LedgerInit == Init => Ledger
<1> SUFFICES ASSUME Init
             PROVE  Ledger
  OBVIOUS
<1>1. TypeOK
  BY TypeInit
<1>2. IndexExact /\ TombsAcked /\ CorruptDamaged /\ DoneInPast
  BY DEF Init, IndexExact, TombsAcked, CorruptDamaged, DoneInPast, Indexed
<1>3. NoSilentLoss /\ RecentCompletionsRemembered
  BY DEF Init, NoSilentLoss, RecentCompletionsRemembered
<1>4. RecoveryMayStart
  <2>1. FilesOf(status) = {} /\ ActiveOf(status) = {}
    BY DEF Init, FilesOf, ActiveOf, Stored, Active
  <2>2. Cardinality({}) = 0
    BY FS_EmptySet
  <2>3. Len(quarantine) <= MaxQuarantine
    BY <1>1 DEF TypeOK
  <2> QED BY <2>1, <2>2, <2>3, JournalSizes DEF RecoveryMayStart, Rebuildable
<1> QED BY <1>1, <1>2, <1>3, <1>4 DEF Ledger, Books, Kept

\* The ledger is in order in every reachable state.
LEMMA LedgerInvariant == Spec => []Ledger
<1>1. Ledger /\ [Next]_jvars => Ledger'
  <2> SUFFICES ASSUME Ledger, [Next]_jvars
               PROVE  Ledger'
    OBVIOUS
  <2>1. TypeOK'
    BY TypeNext DEF Ledger, Books
  <2>2. CASE UNCHANGED jvars
    BY <2>1, <2>2, QuietKeepsLedger DEF jvars
  <2>3. CASE Next
    BY <2>1, <2>3, LedgerReceive, LedgerLifecycle, LedgerRecover, LedgerDecay DEF Next
  <2> QED BY <2>2, <2>3
<1> QED BY LedgerInit, <1>1, PTL DEF Spec

\* A record leaves records/ only once its handler acknowledged the message or
\* with its bytes in quarantine, whatever evictions, damage and half-failed
\* writes come before.
THEOREM NothingLost == Spec => []NoSilentLoss
BY LedgerInvariant, PTL DEF Ledger, Kept

\* No sequence of calls, faults and crashes leaves a journal that a later start
\* refuses, and the cached index never hides a file from admission.
THEOREM AlwaysRecovers == Spec => []RecoveryNeverRefused
<1>1. Ledger => RecoveryNeverRefused
  BY DEF Ledger, Books, Kept, RecoveryNeverRefused, IndexFaithful, IndexExact, Indexed
<1> QED BY LedgerInvariant, <1>1, PTL

\* The deduplication window: a completed message is forgotten only once
\* maxRecords - maxReplayBatch others completed no earlier or were damaged.
THEOREM WindowKept == Spec => []RecentCompletionsRemembered
BY LedgerInvariant, PTL DEF Ledger, Kept

----------------------------------------------------------------------------
(* The receiving loop, InboundDelivery: what its helpers on numbers return. *)

\* Ascending lists the elements of S in increasing order.
LEMMA AscendingLists ==
  ASSUME NEW S \in SUBSET Nat, IsFiniteSet(S)
  PROVE  /\ Cardinality(S) \in Nat
         /\ Ascending(S) \in Seq(S)
         /\ Len(Ascending(S)) = Cardinality(S)
         /\ \A m \in S : \E i \in 1..Cardinality(S) : Ascending(S)[i] = m
         /\ \A i, j \in 1..Cardinality(S) : i < j => Ascending(S)[i] < Ascending(S)[j]
<1> DEFINE n == Cardinality(S)
           upto(m) == {k \in S : k <= m}
           rank == [m \in S |-> Cardinality(upto(m))]
<1>1. n \in Nat
  BY FS_CardinalityType
<1>0. \A m \in S : m \in Nat
  OBVIOUS
<1>2. \A m \in S : IsFiniteSet(upto(m)) /\ rank[m] \in 1..n
  <2> TAKE m \in S
  <2>1. upto(m) \in SUBSET S /\ m \in upto(m)
    BY <1>0
  <2>2. IsFiniteSet(upto(m)) /\ Cardinality(upto(m)) <= n
    BY <2>1, FS_Subset
  <2>3. Cardinality(upto(m)) \in Nat /\ Cardinality(upto(m)) # 0
    BY <2>1, <2>2, FS_CardinalityType, FS_EmptySet
  <2> QED BY <1>1, <2>2, <2>3
<1>3. \A m, k \in S : m < k => rank[m] < rank[k]
  <2> SUFFICES ASSUME NEW m \in S, NEW k \in S, m < k
               PROVE  rank[m] < rank[k]
    OBVIOUS
  <2>0. m \in Nat /\ k \in Nat
    BY <1>0
  <2>1. upto(m) \in SUBSET upto(k) /\ k \in upto(k) /\ k \notin upto(m)
    <3>1. \A x \in S : x <= m => x <= k
      BY <1>0, <2>0
    <3>2. upto(m) \in SUBSET upto(k)
      BY <3>1
    <3>3. k <= k /\ ~(k <= m)
      BY <2>0
    <3> QED BY <3>2, <3>3
  <2>2. IsFiniteSet(upto(k))
    BY <1>2
  <2>3. Cardinality(upto(m)) <= Cardinality(upto(k)) /\ Cardinality(upto(m)) # Cardinality(upto(k))
    BY <2>1, <2>2, FS_Subset
  <2> QED BY <1>1, <1>2, <2>3
<1>4. rank \in Injection(S, 1..n)
  <2>1. rank \in [S -> 1..n]
    BY <1>2
  <2>2. \A m, k \in S : rank[m] = rank[k] => m = k
    <3> SUFFICES ASSUME NEW m \in S, NEW k \in S, m # k
                 PROVE  rank[m] # rank[k]
      OBVIOUS
    <3>1. m < k \/ k < m
      BY <1>0
    <3>2. rank[m] < rank[k] \/ rank[k] < rank[m]
      BY <1>3, <3>1
    <3>3. rank[m] \in Nat /\ rank[k] \in Nat
      BY <1>1, <1>2
    <3> HIDE DEF rank
    <3> QED BY <3>2, <3>3
  <2> HIDE DEF rank
  <2> QED BY <2>1, <2>2 DEF Injection, IsInjective
<1>5. rank \in Surjection(S, 1..n)
  <2>1. IsFiniteSet(1..n) /\ Cardinality(1..n) = n
    BY <1>1, FS_Interval
  <2> QED BY <1>4, <2>1, FS_Injection
<1>6. \A i \in 1..n : Ascending(S)[i] \in S /\ rank[Ascending(S)[i]] = i
  <2> TAKE i \in 1..n
  <2>1. \E m \in S : rank[m] = i
    BY <1>5 DEF Surjection
  <2>2. Ascending(S)[i] = CHOOSE m \in S : rank[m] = i
    BY DEF Ascending
  <2> QED BY <2>1, <2>2
<1>7. Ascending(S) \in Seq(S) /\ Len(Ascending(S)) = n
  <2> DEFINE at(i) == CHOOSE m \in S : Cardinality({k \in S : k <= m}) = i
  <2>0. Ascending(S) = [i \in 1..n |-> at(i)]
    BY DEF Ascending
  <2> HIDE DEF at
  <2>1. DOMAIN Ascending(S) = 1..n /\ Ascending(S) = [i \in 1..n |-> Ascending(S)[i]]
    BY <2>0
  <2>2. Ascending(S) \in [1..n -> S]
    BY <1>6, <2>1
  <2> QED BY <1>1, <2>2
<1>8. \A m \in S : \E i \in 1..n : Ascending(S)[i] = m
  <2> TAKE m \in S
  <2>1. rank[m] \in 1..n
    BY <1>2
  <2>2. Ascending(S)[rank[m]] \in S /\ rank[Ascending(S)[rank[m]]] = rank[m]
    BY <1>6, <2>1
  <2>3. Ascending(S)[rank[m]] = m
    BY <1>4, <2>2 DEF Injection, IsInjective
  <2> QED BY <2>1, <2>3
<1>9. \A i, j \in 1..n : i < j => Ascending(S)[i] < Ascending(S)[j]
  <2> SUFFICES ASSUME NEW i \in 1..n, NEW j \in 1..n, i < j
               PROVE  Ascending(S)[i] < Ascending(S)[j]
    OBVIOUS
  <2> DEFINE a == Ascending(S)[i]
             b == Ascending(S)[j]
  <2>1. a \in S /\ b \in S /\ rank[a] = i /\ rank[b] = j
    BY <1>6
  <2>2. a \in Nat /\ b \in Nat /\ i \in Nat /\ j \in Nat
    <3> HIDE DEF a, b, rank
    <3> QED BY <1>0, <1>1, <2>1
  <2>3. b < a => rank[b] < rank[a]
    BY <1>3, <2>1
  <2> HIDE DEF rank, a, b
  <2>4. a # b /\ ~(b < a)
    BY <2>1, <2>2, <2>3
  <2>5. a < b
    BY <2>2, <2>4
  <2> QED BY <2>5 DEF a, b
<1> QED BY <1>1, <1>7, <1>8, <1>9

\* A finite set of naturals has a maximum.
LEMMA MaxOf ==
  ASSUME NEW S \in SUBSET Nat, IsFiniteSet(S), S # {}
  PROVE  Max(S) \in S /\ \A y \in S : Max(S) >= y
<1> DEFINE n == Cardinality(S)
           top == Ascending(S)[n]
<1>1. n \in Nat /\ n # 0
  BY AscendingLists, FS_EmptySet
<1>2. top \in S
  <2>1. Ascending(S) \in Seq(S) /\ Len(Ascending(S)) = n
    BY AscendingLists
  <2> QED BY <1>1, <2>1
<1>3. \A y \in S : top >= y
  <2> TAKE y \in S
  <2>1. PICK i \in 1..n : Ascending(S)[i] = y
    BY AscendingLists
  <2>2. i < n => Ascending(S)[i] < top
    BY <1>1, AscendingLists
  <2>3. top \in Nat /\ y \in Nat
    BY <1>2
  <2> QED BY <1>1, <2>1, <2>2, <2>3
<1> QED BY <1>2, <1>3 DEF Max

----------------------------------------------------------------------------
(* The loop's invariant.                                                   *)

Live == {"poll", "admit", "dispatch", "claimed", "running"}
EntryType == [id : Message, how : {"ask", "managed", "unmanaged", "skip"}]

LoopType ==
  /\ mode \in Modes
  /\ pc \in Live \cup {"recover", "refused"}
  /\ offset \in Nat /\ offsetFile = offset /\ confirmed \in Nat
  /\ batch \in Seq(Message)
  /\ queue \in Seq(EntryType)
  /\ receipt \in [Message -> {"none", "awaited", "deferred", "acked", "failed"}]
  /\ legacy \subseteq Message
  /\ started \in Seq([id : Message, how : {"managed", "unmanaged"}])

\* The updates started one way or the other.
Ran(how) == {m \in Message : Entry(m, how) \in ToSet(started)}
Begun == Ran("managed") \cup Ran("unmanaged")

\* Where dispatch is, what is left in the legacy inbox is in the queue.
Phases ==
  /\ pc \in Live \ {"admit"} => legacy \subseteq Ids(queue)
  /\ pc \in {"recover"} \cup (Live \ {"admit"}) => batch = <<>>
  /\ pc \in {"claimed", "running"} => queue # <<>>
  /\ pc = "claimed" => queue[1].how = "managed"
  /\ pc = "running" => queue[1].id \in Begun
  /\ pc = "poll" => queue = <<>>
  /\ pc \in Live \ {"admit"} => \A i \in 1..Len(queue) : queue[i].id < offset

\* A batch being admitted: what has been is before what has not, in order.
Admitting ==
  pc = "admit" =>
    /\ queue # <<>> \/ batch # <<>>
    /\ \A i \in 1..Len(queue) : offset <= queue[i].id /\ queue[i].how # "ask"
    /\ \A i \in 1..Len(batch) : offset <= batch[i]
    /\ \A i, j \in 1..Len(queue) : i < j => queue[i].id < queue[j].id
    /\ \A i, j \in 1..Len(batch) : i < j => batch[i] < batch[j]
    /\ \A i \in 1..Len(queue), j \in 1..Len(batch) : queue[i].id < batch[j]
    /\ \A m \in legacy : m \in Ids(queue) \/ (batch # <<>> /\ m = batch[1])
    /\ mode = "shadow" => Ids(queue) \subseteq legacy
    /\ mode = "enforced" => legacy = {}

Filed == \A m \in Message : status[m] # "absent" => m \in known

\* Handlers run and acknowledge only what the loop started.
Answered ==
  /\ Filed
  /\ acked \subseteq Begun
  /\ \A m \in Message : receipt[m] # "none" => m \in Begun

\* An update is on the books once the journal stored it, a handler was started
\* for it or it turned out malformed; until then its legacy file holds it.
Booked(m) == m \in known \cup Begun \cup Malformed
Held(m) == Booked(m) \/ m \in legacy
Below(x) == \A k \in Message : k < x => Held(k)

\* Whatever the cursor or a record or file has passed is held.
Durable ==
  /\ Below(confirmed) /\ Below(offset)
  /\ \A m \in legacy \cup known : Below(m)
  /\ \A i \in 1..Len(queue) :
       /\ Held(queue[i].id) /\ Below(queue[i].id)
       /\ queue[i].how = "skip" => Booked(queue[i].id)
  /\ pc = "admit" =>
       \A i \in 1..Len(batch), k \in Message :
         k < batch[i] => Held(k) \/ \E j \in 1..Len(batch) : j < i /\ batch[j] = k

DInv == Ledger /\ LoopType /\ Phases /\ Admitting /\ Answered /\ Durable

----------------------------------------------------------------------------
(* What a call of the journal does to the files, as far as the loop cares. *)

Waits(m) == status[m] \in {"received", "claimed"}
Seen(m) == status[m] \notin {"absent", "corrupt"}
Past(m) == status[m] \in {"dispatched", "completed", "unknown", "absent"}

\* Only the updates in new come in; the others only go on.
Moves(new) ==
  /\ damaged \subseteq damaged' /\ known \subseteq known' /\ known' \subseteq known \cup new /\ Filed'
  /\ \A m \in Message \ new :
       /\ Waits(m)' => Waits(m)
       /\ Seen(m)' => Seen(m)
       /\ Past(m) /\ m \notin damaged' => Past(m)'

\* No file goes but into quarantine.
Stays == \A m \in Message \ damaged' : status[m] # "absent" => status'[m] # "absent"

LEMMA SameMoves ==
  ASSUME Filed, UNCHANGED <<status, known, damaged>>
  PROVE  Moves({}) /\ Stays
BY DEF Filed, Moves, Stays, Waits, Seen, Past

\* A record is rewritten: to the same state, or on from waiting or dispatched.
LEMMA WriteMoves ==
  ASSUME TypeOK, Filed, NEW m \in Message, NEW s \in Stored \ {"corrupt"}, NEW w \in Outcome,
         WriteRecord(m, s, w, status, index), UNCHANGED <<known, damaged>>,
         Seen(m), s \in {"received", "claimed"} => Waits(m),
         Past(m) => s \in {"dispatched", "completed", "unknown"}
  PROVE  Moves({}) /\ Stays /\ (w # "lost" => status'[m] = s)
<1>1. status'[m] \in {status[m], s} /\ \A n \in Message \ {m} : status'[n] = status[n]
  BY DEF TypeOK, WriteRecord
<1>2. w # "lost" => status'[m] = s
  BY DEF TypeOK, WriteRecord
<1>3. Filed' /\ Stays
  BY <1>1 DEF Filed, Stays, Seen, Stored, Active
<1>4. ASSUME NEW n \in Message
      PROVE  /\ Waits(n)' => Waits(n)
             /\ Seen(n)' => Seen(n)
             /\ Past(n) /\ n \notin damaged' => Past(n)'
  <2>1. CASE n = m
    BY <1>1, <2>1 DEF Waits, Seen, Past
  <2>2. CASE n # m
    BY <1>1, <2>2 DEF Waits, Seen, Past
  <2> QED BY <2>1, <2>2
<1> QED BY <1>2, <1>3, <1>4 DEF Moves

\* A damaged file moves to quarantine, or stays where it is.
LEMMA QuarantineMoves ==
  ASSUME TypeOK, Filed, CorruptDamaged, NEW m \in Message, NEW w \in Outcome,
         Quarantine(m, w), UNCHANGED <<known, damaged>>
  PROVE  Moves({}) /\ Stays
<1>1. m \in damaged /\ status[m] = "corrupt"
  BY DEF CorruptDamaged, Quarantine
<1>2. status'[m] \in {status[m], "absent"} /\ \A n \in Message \ {m} : status'[n] = status[n]
  BY DEF TypeOK, Quarantine
<1>3. Filed'
  BY <1>1, <1>2 DEF Filed
<1> QED BY <1>1, <1>2, <1>3 DEF Moves, Stays, Waits, Seen, Past

\* Admission of m, failed or not: m comes in, a finished record may go.
LEMMA AdmissionMoves ==
  ASSUME Ledger, Filed, NEW m \in Message, NEW how, Admission(m, how)
  PROVE  /\ Moves({m}) /\ acked' \subseteq acked
         /\ how = "managed" => status[m] = "absent" /\ m \in known' /\ status'[m] = "received"
         /\ how = "skip" => mode # "shadow" /\ Seen(m) /\ Moves({}) /\ Stays
         /\ how = "unmanaged" => mode = "shadow"
         /\ how \in {"managed", "unmanaged", "skip", "refused"}
         /\ Seen(m) => Moves({}) /\ Stays
<1>1. TypeOK /\ IndexExact /\ CorruptDamaged
  BY DEF Ledger, Books
<1>2. ASSUME NEW w \in Outcome, AdmitDuplicate(m, w)
      PROVE  Moves({}) /\ Stays /\ acked' = acked /\ Seen(m)
  <2>1. status[m] \in Stored \ {"corrupt"} /\ WriteRecord(m, status[m], w, status, index)
        /\ UNCHANGED <<known, damaged, acked>>
    BY <1>2 DEF AdmitDuplicate, past, flows
  <2>2. Seen(m) /\ (Past(m) => status[m] \in {"dispatched", "completed", "unknown"})
    BY <2>1 DEF Seen, Past, Stored, Active
  <2>3. status[m] \in {"received", "claimed"} => Waits(m)
    BY DEF Waits
  <2> QED BY <1>1, <2>1, <2>2, <2>3, WriteMoves
<1>3. ASSUME NEW t \in OldestTombs(Indexed)
      PROVE  /\ t \in Message /\ status[t] \in {"completed", "corrupt"}
    BY <1>1 DEF OldestTombs, TombsOf, IndexExact
<1>4. ASSUME NEW w \in Outcome, AdmitNew(m, w)
      PROVE  /\ Moves({m}) /\ acked' \subseteq acked /\ status[m] = "absent"
             /\ w = "ok" => m \in known' /\ status'[m] = "received"
  <2>1. /\ status[m] = "absent" /\ acked' \subseteq acked /\ damaged' = damaged
        /\ known' = IF w = "lost" THEN known ELSE known \cup {m}
    BY <1>4 DEF AdmitNew
  <2>2. \/ WriteRecord(m, "received", w, status, Indexed)
        \/ \E t \in OldestTombs(Indexed) :
              WriteRecord(m, "received", w, [status EXCEPT ![t] = "absent"], [Indexed EXCEPT ![t] = "absent"])
    BY <1>4 DEF AdmitNew
  <2>3. /\ \A n \in Message \ {m} :
             status'[n] = status[n] \/ (status[n] \in {"completed", "corrupt"} /\ status'[n] = "absent")
        /\ status'[m] = IF w = "lost" THEN "absent" ELSE "received"
    <3>1. CASE WriteRecord(m, "received", w, status, Indexed)
      BY <1>1, <2>1, <3>1 DEF WriteRecord, TypeOK
    <3>2. ASSUME NEW t \in OldestTombs(Indexed),
                 WriteRecord(m, "received", w, [status EXCEPT ![t] = "absent"], [Indexed EXCEPT ![t] = "absent"])
          PROVE  <2>3!1 /\ <2>3!2
      <4>1. t \in Message /\ status[t] \in {"completed", "corrupt"} /\ t # m
        BY <1>3, <2>1
      <4> QED BY <1>1, <2>1, <3>2, <4>1 DEF WriteRecord, TypeOK
    <3> QED BY <2>2, <3>1, <3>2
  <2>4. Filed'
    BY <2>1, <2>3 DEF Filed
  <2> QED BY <2>1, <2>3, <2>4 DEF Moves, Waits, Seen, Past
<1>5. ASSUME AdmitRefused(m)
      PROVE  Moves({}) /\ Stays /\ acked' = acked
  BY <1>5, SameMoves DEF AdmitRefused, disk, flows, past
<1>6. ASSUME NEW gone \in BOOLEAN, EvictionFails(m, gone)
      PROVE  Moves({m}) /\ acked' = acked /\ status[m] = "absent"
  <2>1. UNCHANGED <<acked, known, damaged>> /\ status[m] = "absent"
    BY <1>6 DEF EvictionFails, flows, past
  <2>2. \A n \in Message :
          status'[n] = status[n] \/ (status[n] \in {"completed", "corrupt"} /\ status'[n] = "absent")
    BY <1>1, <1>3, <1>6 DEF EvictionFails, TypeOK
  <2>3. Filed'
    BY <2>1, <2>2 DEF Filed
  <2> QED BY <2>1, <2>2, <2>3 DEF Moves, Waits, Seen, Past
<1>7. ASSUME NEW w \in Outcome, AdmitCorrupt(m, w)
      PROVE  Moves({}) /\ Stays /\ acked' = acked
  BY <1>1, <1>7, QuarantineMoves DEF AdmitCorrupt, flows, past
<1>8. Moves({}) => Moves({m})
  BY DEF Moves
<1>9. Seen(m) => status[m] # "absent"
  BY DEF Seen
<1> QED BY <1>2, <1>4, <1>5, <1>6, <1>7, <1>8, <1>9 DEF Admission, Outcome

\* The claim transitions move one record on.
LEMMA CallMoves ==
  ASSUME TypeOK, Filed, NEW o \in Owner, NEW m \in Message, NEW w \in Outcome
  PROVE  /\ Claim(o, m, w) =>
              Moves({}) /\ Stays /\ acked' = acked /\ Waits(m) /\ (w # "lost" => status'[m] = "claimed")
         /\ MarkDispatched(o, m, w) =>
              Moves({}) /\ Stays /\ acked' = acked /\ Waits(m) /\ (w # "lost" => status'[m] = "dispatched")
         /\ MarkLost(o, m, w) =>
              Moves({}) /\ Stays /\ acked' = acked /\ (w # "lost" => status'[m] = "loss")
         /\ \A d \in {0, 1} : Complete(o, m, w, d) => Moves({}) /\ Stays /\ acked' = acked
         /\ MarkOutcomeUnknown(o, m, w) => Moves({}) /\ Stays /\ acked' = acked
<1>1. ASSUME Claim(o, m, w)
      PROVE  Moves({}) /\ Stays /\ acked' = acked /\ Waits(m) /\ (w # "lost" => status'[m] = "claimed")
  <2>1. /\ status[m] \in {"received", "claimed"} /\ WriteRecord(m, "claimed", w, status, index)
        /\ UNCHANGED <<known, damaged, acked>>
    BY <1>1 DEF Claim, past
  <2>2. Seen(m) /\ Waits(m) /\ ~Past(m) /\ "claimed" \in Stored \ {"corrupt"}
    BY <2>1 DEF Seen, Waits, Past, Stored, Active
  <2> QED BY <2>1, <2>2, WriteMoves
<1>2. ASSUME NEW s \in {"dispatched", "loss"}, HoldsClaim(o, m, "claimed"),
             WriteRecord(m, s, w, status, index), UNCHANGED <<known, damaged>>
      PROVE  Moves({}) /\ Stays /\ Waits(m) /\ (w # "lost" => status'[m] = s)
  <2>1. Seen(m) /\ Waits(m) /\ ~Past(m) /\ s \in Stored \ {"corrupt"}
    BY <1>2 DEF HoldsClaim, Seen, Waits, Past, Stored, Active
  <2> QED BY <1>2, <2>1, WriteMoves
<1>3. ASSUME NEW s \in {"completed", "unknown"}, HoldsClaim(o, m, "dispatched"),
             WriteRecord(m, s, w, status, index), UNCHANGED <<known, damaged>>
      PROVE  Moves({}) /\ Stays
  <2>1. Seen(m) /\ s \in Stored \ {"corrupt"}
    BY <1>3 DEF HoldsClaim, Seen, Stored, Active
  <2> QED BY <1>3, <2>1, WriteMoves
<1>4. MarkDispatched(o, m, w) => Moves({}) /\ Stays /\ acked' = acked /\ Waits(m) /\ (w # "lost" => status'[m] = "dispatched")
  BY <1>2 DEF MarkDispatched, past
<1>5. MarkLost(o, m, w) => Moves({}) /\ Stays /\ acked' = acked /\ (w # "lost" => status'[m] = "loss")
  BY <1>2 DEF MarkLost, past, flows
<1>6. \A d \in {0, 1} : Complete(o, m, w, d) => Moves({}) /\ Stays /\ acked' = acked
  BY <1>3 DEF Complete, past, flows
<1>7. MarkOutcomeUnknown(o, m, w) => Moves({}) /\ Stays /\ acked' = acked
  BY <1>3 DEF MarkOutcomeUnknown, past, flows
<1> QED BY <1>1, <1>4, <1>5, <1>6, <1>7

\* Recovery puts claimed work back and settles what was dispatched; what damages
\* a file, or ends the process, brings nothing in.
LEMMA RecoveryMoves ==
  ASSUME Ledger, Filed, NEW m \in Message, NEW w \in Outcome,
         RecoverFile(m, w) \/ RecoverIndex \/ RecoveryDone \/ Damage(m) \/ ProcessGone
  PROVE  Moves({}) /\ Stays /\ acked' = acked
<1>1. TypeOK /\ CorruptDamaged
  BY DEF Ledger, Books
<1>2. CASE RecoverIndex \/ RecoveryDone \/ ProcessGone
  BY <1>2, SameMoves DEF RecoverIndex, RecoveryDone, ProcessGone, disk, flows, past
<1>3. CASE Damage(m)
  <2>1. /\ status[m] # "absent" /\ status' = [status EXCEPT ![m] = "corrupt"]
        /\ damaged' = damaged \cup {m} /\ known' = known /\ acked' = acked
    BY <1>3 DEF Damage, Stored, Active, flows
  <2>2. status'[m] = "corrupt" /\ \A n \in Message \ {m} : status'[n] = status[n]
    BY <1>1, <2>1 DEF TypeOK
  <2>3. Filed' /\ Stays
    BY <2>1, <2>2 DEF Filed, Stays
  <2> QED BY <2>1, <2>2, <2>3 DEF Moves, Waits, Seen, Past
<1>4. ASSUME RecoverFile(m, w)
      PROVE  Moves({}) /\ Stays /\ acked' = acked
  <2>1. UNCHANGED <<known, damaged, acked>>
    BY <1>4 DEF RecoverFile, flows, past
  <2>2. CASE status[m] = "claimed" /\ WriteRecord(m, "received", w, status, index)
    <3>1. Seen(m) /\ Waits(m) /\ ~Past(m) /\ "received" \in Stored \ {"corrupt"}
      BY <2>2 DEF Seen, Waits, Past, Stored, Active
    <3> QED BY <1>1, <2>1, <2>2, <3>1, WriteMoves
  <2>3. CASE status[m] = "dispatched" /\ WriteRecord(m, "unknown", w, status, index)
    <3>1. Seen(m) /\ "unknown" \in Stored \ {"corrupt"}
      BY <2>3 DEF Seen, Stored, Active
    <3> QED BY <1>1, <2>1, <2>3, <3>1, WriteMoves
  <2>4. CASE Quarantine(m, w)
    BY <1>1, <2>1, <2>4, QuarantineMoves
  <2>5. CASE UNCHANGED <<status, index, quarantine, faults>>
    BY <2>1, <2>5, SameMoves
  <2> QED BY <1>4, <2>2, <2>3, <2>4, <2>5 DEF RecoverFile
<1> QED BY <1>2, <1>3, <1>4

----------------------------------------------------------------------------
(* Steps of the loop.                                                      *)

\* The head and the tail of what is left to dispatch, and to admit.
LEMMA QueueParts ==
  ASSUME LoopType, queue # <<>>
  PROVE  /\ Len(queue) \in Nat \ {0}
         /\ Head(queue) = queue[1] /\ queue[1] \in EntryType /\ queue[1].id \in Message
         /\ queue[1] = Entry(queue[1].id, queue[1].how)
         /\ Tail(queue) \in Seq(EntryType) /\ Len(Tail(queue)) = Len(queue) - 1
         /\ \A i \in 1..(Len(queue) - 1) : Tail(queue)[i] = queue[i + 1]
         /\ queue[1].id \in Ids(queue)
         /\ Ids(queue) = Ids(Tail(queue)) \cup {queue[1].id}
<1>1. /\ queue \in Seq(EntryType) /\ Len(queue) \in Nat \ {0}
      /\ Head(queue) = queue[1] /\ queue[1] \in EntryType
      /\ Tail(queue) \in Seq(EntryType) /\ Len(Tail(queue)) = Len(queue) - 1
      /\ \A i \in 1..(Len(queue) - 1) : Tail(queue)[i] = queue[i + 1]
  BY DEF LoopType
<1>2. queue[1].id \in Message /\ queue[1] = Entry(queue[1].id, queue[1].how)
  BY <1>1 DEF EntryType, Entry
<1>3. DOMAIN queue = 1..Len(queue) /\ DOMAIN Tail(queue) = 1..(Len(queue) - 1)
  BY <1>1
<1>4. queue[1].id \in Ids(queue)
  BY <1>1, <1>3 DEF Ids, ToSet
<1>5. ASSUME NEW m \in Ids(queue)
      PROVE  m \in Ids(Tail(queue)) \/ m = queue[1].id
  <2>1. PICK i \in 1..Len(queue) : m = queue[i].id
    BY <1>3 DEF Ids, ToSet
  <2>2. CASE i # 1
    <3>1. i - 1 \in 1..(Len(queue) - 1) /\ (i - 1) + 1 = i
      BY <1>1, <2>2
    <3>2. Tail(queue)[i - 1] = queue[i]
      BY <1>1, <3>1
    <3> QED BY <1>3, <2>1, <3>1, <3>2 DEF Ids, ToSet
  <2> QED BY <2>1, <2>2
<1>6. ASSUME NEW m \in Ids(Tail(queue))
      PROVE  m \in Ids(queue)
  <2>1. PICK i \in 1..(Len(queue) - 1) : m = Tail(queue)[i].id
    BY <1>3 DEF Ids, ToSet
  <2>2. i + 1 \in 1..Len(queue) /\ m = queue[i + 1].id
    BY <1>1, <2>1
  <2> QED BY <1>3, <2>2 DEF Ids, ToSet
<1> QED BY <1>1, <1>2, <1>4, <1>5, <1>6

LEMMA BatchParts ==
  ASSUME LoopType, batch # <<>>
  PROVE  /\ Len(batch) \in Nat \ {0}
         /\ Head(batch) = batch[1] /\ batch[1] \in Message
         /\ Tail(batch) \in Seq(Message) /\ Len(Tail(batch)) = Len(batch) - 1
         /\ \A i \in 1..(Len(batch) - 1) : Tail(batch)[i] = batch[i + 1]
BY DEF LoopType

\* A start after a start that was refused: for the journal a process death,
\* but none of those the bound counts.
Restart == ProcessGone /\ UNCHANGED faults

\* Every step of the loop is a step of the journal, a restart, or none at all.
LEMMA LoopIsJournal ==
  ASSUME LoopType, Phases, [DeliveryNext]_vars
  PROVE  UNCHANGED jvars \/ Next \/ Restart
<1>1. Poller \in Owner
  BY DeliveryConstants
<1>2. ASSUME NEW m \in Message, NEW how, Admission(m, how)
      PROVE  Next
  BY <1>2 DEF Admission, Next, Receive, Outcome
<1>3. CASE Relaunch \/ CrashRestart
  BY <1>3 DEF Relaunch, CrashRestart, Launch, Restart, Next, Crash
<1>4. CASE RecoverJournal \/ RecoverRefused \/ RecoverInbound
  BY <1>4 DEF RecoverJournal, RecoverRefused, RecoverInbound, Next, Recover, Outcome
<1>5. CASE PersistLegacy \/ SaveCursor \/ BatchDone \/ Suppress \/ StartUnmanaged \/ EndUnmanaged \/ Defer
  BY <1>5 DEF PersistLegacy, SaveCursor, BatchDone, Suppress, StartUnmanaged, EndUnmanaged, Defer
<1>6. ASSUME NEW how \in Ways, Admit(how) \/ AskJournal(how)
       PROVE  UNCHANGED jvars \/ Next \/ Restart
  <2>1. CASE Admit(how)
    <3>1. Head(batch) \in Message /\ Admission(Head(batch), how)
      BY <2>1, BatchParts DEF Admit
    <3> QED BY <1>2, <3>1
  <2>2. CASE AskJournal(how)
    <3>1. Head(queue).id \in Message
      BY <2>2, QueueParts DEF AskJournal, AtHead
    <3>2. UNCHANGED jvars \/ Admission(Head(queue).id, how)
      BY <2>2 DEF AskJournal
    <3> QED BY <1>2, <3>1, <3>2
  <2> QED BY <1>6, <2>1, <2>2
<1>7. CASE ClaimUpdate \/ DispatchRefused \/ DropMalformed \/ StartManaged
  <2>1. Head(queue).id \in Message
    BY <1>7, QueueParts DEF ClaimUpdate, DispatchRefused, DropMalformed, StartManaged, AtHead, Phases
  <2>2. UNCHANGED jvars \/ \E w \in Outcome : \/ Claim(Poller, Head(queue).id, w)
                                           \/ MarkLost(Poller, Head(queue).id, w)
                                           \/ MarkDispatched(Poller, Head(queue).id, w)
    BY <1>7 DEF ClaimUpdate, DispatchRefused, DropMalformed, StartManaged, Outcome
  <2>3. UNCHANGED jvars \/ Next
    BY <1>1, <2>1, <2>2 DEF Next, Lifecycle
  <2> QED BY <2>3
<1>8. ASSUME NEW m \in Message, Settle(m) \/ Rot(m)
       PROVE  UNCHANGED jvars \/ Next \/ Restart
  <2>1. \/ UNCHANGED jvars \/ HandlerAcks(Poller, m) \/ Damage(m)
        \/ \E w \in Outcome : Complete(Poller, m, w, 1) \/ MarkOutcomeUnknown(Poller, m, w)
    BY <1>8 DEF Settle, Rot, HandlerEnds, CompleteUpdate, CompleteThrows, OutcomeUnknown, Outcome
  <2>2. 1 \in {0, 1}
    OBVIOUS
  <2>3. UNCHANGED jvars \/ Next
    BY <1>1, <2>1, <2>2 DEF Next, Lifecycle
  <2> QED BY <2>3
<1>9. CASE \E n \in 0..MaxBatch : GetUpdates(n)
  BY <1>9 DEF GetUpdates
<1>10. CASE UNCHANGED vars
  BY <1>10 DEF vars
<1> QED BY <1>3, <1>4, <1>5, <1>6, <1>7, <1>8, <1>9, <1>10 DEF DeliveryNext, Progress

\* The ledger and the fences are kept by every step of the loop.
LEMMA LoopKeepsLedger ==
  ASSUME Ledger, LoopType, Phases, [DeliveryNext]_vars
  PROVE  Ledger'
<1>1. TypeOK
  BY DEF Ledger, Books
<1>2. CASE UNCHANGED jvars
  BY <1>1, <1>2, TypeNext, QuietKeepsLedger DEF jvars
<1>3. CASE Next
  BY <1>1, <1>3, TypeNext, LedgerReceive, LedgerLifecycle, LedgerRecover, LedgerDecay DEF Next
<1>4. CASE Restart
  <2>1. TypeOK'
    BY <1>1, <1>4 DEF TypeOK, Restart, ProcessGone, disk, past, FilesOf
  <2> QED BY <2>1, <1>4, QuietKeepsLedger DEF Restart, ProcessGone, disk, past
<1> QED BY <1>2, <1>3, <1>4, LoopIsJournal

LEMMA LoopKeepsFences ==
  ASSUME Fences, LoopType, Phases, [DeliveryNext]_vars
  PROVE  Fences'
<1>1. CASE UNCHANGED jvars
  BY <1>1, FencesOther
<1>2. CASE Next
  BY <1>2, FencesReceive, FencesLifecycle, FencesOther DEF Next
<1>3. CASE Restart
  <2>1. TypeOK'
    BY <1>3 DEF Fences, TypeOK, Restart, ProcessGone, disk, past, FilesOf
  <2> QED BY <1>3, <2>1, QuietKeepsFences DEF Restart, ProcessGone, disk
<1> QED BY <1>1, <1>2, <1>3, LoopIsJournal

\* What a start queues: the legacy inbox in order, then the records of updates
\* that have no legacy file, in order; and where it moves the cursor.
LEMMA RecoveryQueues ==
  ASSUME LoopType, RecoverInbound
  PROVE  /\ queue' \in Seq(EntryType)
         /\ \A m \in legacy \cup Replayable : \E i \in 1..Len(queue') : queue'[i].id = m
         /\ \A i \in 1..Len(queue') :
              \/ queue'[i].id \in legacy /\ queue'[i].how = "ask"
              \/ queue'[i].id \in Replayable \ legacy /\ queue'[i].how = "managed"
         /\ \A i, j \in 1..Len(queue') : i < j =>
              \/ queue'[i].id < queue'[j].id
              \/ queue'[i].id \in legacy /\ queue'[j].id \in Replayable \ legacy
         /\ offset' \in Nat /\ offset <= offset'
         /\ \A m \in Recovered : m < offset'
         /\ offset' = offset \/ \E m \in Recovered : offset' = m + 1
<1> DEFINE fresh == Replayable \ legacy
           old == Ascending(legacy)
           new == Ascending(fresh)
           a == Cardinality(legacy)
           b == Cardinality(fresh)
           asks == [i \in DOMAIN old |-> Entry(old[i], "ask")]
           news == [i \in DOMAIN new |-> Entry(new[i], "managed")]
<1>1. legacy \subseteq Message /\ fresh \subseteq Message /\ Message \subseteq Nat /\ IsFiniteSet(Message)
  BY DeliveryConstants, JournalSizes DEF LoopType, Replayable
<1>2. legacy \in SUBSET Nat /\ fresh \in SUBSET Nat /\ IsFiniteSet(legacy) /\ IsFiniteSet(fresh)
  BY <1>1, FS_Subset
<1>3. /\ a \in Nat /\ old \in Seq(legacy) /\ Len(old) = a
      /\ \A m \in legacy : \E i \in 1..a : old[i] = m
      /\ \A i, j \in 1..a : i < j => old[i] < old[j]
  BY <1>2, AscendingLists
<1>4. /\ b \in Nat /\ new \in Seq(fresh) /\ Len(new) = b
      /\ \A m \in fresh : \E i \in 1..b : new[i] = m
      /\ \A i, j \in 1..b : i < j => new[i] < new[j]
  BY <1>2, AscendingLists
<1>5. queue' = asks \o news
  BY DEF RecoverInbound
<1> HIDE DEF old, new, a, b
<1>6. /\ asks \in Seq(EntryType) /\ Len(asks) = a
      /\ \A i \in 1..a : asks[i] = Entry(old[i], "ask") /\ old[i] \in legacy
  <2>1. DOMAIN old = 1..a /\ \A i \in 1..a : old[i] \in legacy
    BY <1>3
  <2>2. \A i \in 1..a : Entry(old[i], "ask") \in EntryType
    BY <1>1, <2>1 DEF Entry, EntryType
  <2> QED BY <1>3, <2>1, <2>2
<1>7. /\ news \in Seq(EntryType) /\ Len(news) = b
      /\ \A i \in 1..b : news[i] = Entry(new[i], "managed") /\ new[i] \in fresh
  <2>1. DOMAIN new = 1..b /\ \A i \in 1..b : new[i] \in fresh
    BY <1>4
  <2>2. \A i \in 1..b : Entry(new[i], "managed") \in EntryType
    BY <1>1, <2>1 DEF Entry, EntryType
  <2> QED BY <1>4, <2>1, <2>2
<1> HIDE DEF asks, news
<1>8. /\ queue' \in Seq(EntryType) /\ Len(queue') = a + b
      /\ \A i \in 1..a : queue'[i] = asks[i]
      /\ \A i \in 1..b : queue'[a + i] = news[i]
  <2>1. queue' \in Seq(EntryType) /\ Len(queue') = a + b
    <3>1. asks \in Seq(EntryType) /\ news \in Seq(EntryType) /\ Len(asks) = a /\ Len(news) = b
      BY <1>6, <1>7
    <3>2. asks \o news \in Seq(EntryType) /\ Len(asks \o news) = Len(asks) + Len(news)
      BY ONLY <3>1, ConcatProperties
    <3> QED BY <1>5, <3>1, <3>2
  <2>2. \A i \in 1..a : (asks \o news)[i] = asks[i]
    BY <1>3, <1>4, <1>6, <1>7
  <2>3. \A i \in 1..b : (asks \o news)[a + i] = news[i]
    <3> TAKE i \in 1..b
    <3>1. a + i \in 1..(a + b) /\ ~(a + i <= a) /\ (a + i) - a = i
      BY <1>3, <1>4
    <3> QED BY <1>3, <1>4, <1>6, <1>7, <3>1
  <2> QED BY <1>5, <2>1, <2>2, <2>3
<1>9. \A i \in 1..a : queue'[i].id = old[i] /\ queue'[i].how = "ask" /\ old[i] \in legacy
  BY <1>6, <1>8 DEF Entry
<1>10. \A i \in 1..b : queue'[a + i].id = new[i] /\ queue'[a + i].how = "managed" /\ new[i] \in fresh
  BY <1>7, <1>8 DEF Entry
<1>11. \A i \in 1..(a + b) : i \in 1..a \/ (i - a \in 1..b /\ i = a + (i - a))
  BY <1>3, <1>4
<1>12. \A m \in legacy \cup Replayable : \E i \in 1..Len(queue') : queue'[i].id = m
  <2> SUFFICES ASSUME NEW m \in legacy \cup Replayable
               PROVE  \E i \in 1..(a + b) : queue'[i].id = m
    BY <1>8
  <2>1. CASE m \in legacy
    <3>1. PICK i \in 1..a : old[i] = m
      BY <1>3, <2>1
    <3> QED BY <1>3, <1>4, <1>9, <3>1
  <2>2. CASE m \in fresh
    <3>1. PICK i \in 1..b : new[i] = m
      BY <1>4, <2>2
    <3>2. a + i \in 1..(a + b)
      BY <1>3, <1>4
    <3> QED BY <1>10, <3>1, <3>2
  <2> QED BY <2>1, <2>2
<1>13. \A i \in 1..Len(queue') :
         \/ queue'[i].id \in legacy /\ queue'[i].how = "ask"
         \/ queue'[i].id \in fresh /\ queue'[i].how = "managed"
  <2> SUFFICES ASSUME NEW i \in 1..(a + b)
               PROVE  \/ queue'[i].id \in legacy /\ queue'[i].how = "ask"
                      \/ queue'[i].id \in fresh /\ queue'[i].how = "managed"
    BY <1>8
  <2> QED BY <1>9, <1>10, <1>11
<1>14. \A i, j \in 1..Len(queue') : i < j =>
         \/ queue'[i].id < queue'[j].id
         \/ queue'[i].id \in legacy /\ queue'[j].id \in fresh
  <2> SUFFICES ASSUME NEW i \in 1..(a + b), NEW j \in 1..(a + b), i < j
               PROVE  \/ queue'[i].id < queue'[j].id
                      \/ queue'[i].id \in legacy /\ queue'[j].id \in fresh
    BY <1>8
  <2>1. CASE i \in 1..a /\ j \in 1..a
    BY <1>3, <1>9, <2>1
  <2>2. CASE i \in 1..a /\ j \notin 1..a
    BY <1>9, <1>10, <1>11, <2>2
  <2>3. CASE i \notin 1..a
    <3>1. i - a \in 1..b /\ j - a \in 1..b /\ i - a < j - a /\ i = a + (i - a) /\ j = a + (j - a)
      BY <1>3, <1>4, <2>3
    <3>2. queue'[a + (i - a)].id = new[i - a] /\ queue'[a + (j - a)].id = new[j - a]
      BY <1>10, <3>1
    <3>3. new[i - a] < new[j - a]
      BY <1>4, <3>1
    <3> QED BY <3>1, <3>2, <3>3
  <2> QED BY <2>1, <2>2, <2>3
<1>15. /\ offset' \in Nat /\ offset <= offset'
       /\ \A m \in Recovered : m < offset'
       /\ offset' = offset \/ \E m \in Recovered : offset' = m + 1
  <2> DEFINE next == {m + 1 : m \in Recovered}
             S == {offset} \cup next
  <2>0. Recovered \subseteq Message /\ offset \in Nat
    BY <1>1 DEF Recovered, Replayable, LoopType
  <2>1. CASE Recovered = {}
    BY <2>0, <2>1 DEF RecoverInbound
  <2>2. CASE Recovered # {}
    <3>1. IsFiniteSet(Recovered)
      BY <1>1, <2>0, FS_Subset
    <3>2. IsFiniteSet(next)
      <4> DEFINE f == [m \in Recovered |-> m + 1]
      <4>1. f \in Surjection(Recovered, next)
        BY DEF Surjection
      <4> QED BY <3>1, <4>1, FS_Surjection
    <3>3. S = next \cup {offset} /\ IsFiniteSet(S)
      BY <3>2, FS_AddElement
    <3>4. S \in SUBSET Nat /\ S # {}
      <4>1. \A m \in Recovered : m + 1 \in Nat
        BY <1>1, <2>0
      <4> QED BY <2>0, <4>1
    <3>5. offset' = Max(S)
      BY <2>2 DEF RecoverInbound
    <3> HIDE DEF S
    <3>6. offset' \in S /\ \A y \in S : offset' >= y
      BY <3>3, <3>4, <3>5, MaxOf
    <3> USE DEF S
    <3>7. offset' \in Nat /\ offset <= offset' /\ \A m \in Recovered : m + 1 <= offset'
      BY <3>4, <3>6
    <3>8. \A m \in Recovered : m < offset'
      BY <1>1, <2>0, <3>7
    <3> QED BY <3>6, <3>7, <3>8
  <2> QED BY <2>1, <2>2
<1> QED BY <1>8, <1>12, <1>13, <1>14, <1>15

\* What Telegram answers: what the cursor leaves, in order and without a gap.
LEMMA AnswerInOrder ==
  ASSUME LoopType, NEW n \in 0..MaxBatch, GetUpdates(n)
  PROVE  /\ confirmed' \in {confirmed, offset} /\ offset <= confirmed'
         /\ batch' \in Seq(Message) /\ Len(batch') = n
         /\ \A i \in 1..n : confirmed' <= batch'[i]
         /\ \A i, j \in 1..n : i < j => batch'[i] < batch'[j]
         /\ \A i \in 1..n, k \in Message :
              confirmed' <= k /\ k < batch'[i] => \E j \in 1..n : j < i /\ batch'[j] = k
<1> DEFINE top == Max({confirmed, offset})
           left == {m \in Message : m >= top}
           all == Ascending(left)
           c == Cardinality(left)
<1>1. confirmed \in Nat /\ offset \in Nat /\ Message \subseteq Nat /\ IsFiniteSet(Message) /\ n \in Nat
  BY DeliveryConstants, JournalSizes DEF LoopType
<1>2. top \in {confirmed, offset} /\ top >= confirmed /\ top >= offset
  <2>1. {confirmed, offset} \in SUBSET Nat /\ {confirmed, offset} # {}
    BY <1>1
  <2>2. IsFiniteSet({confirmed, offset})
    <3>1. IsFiniteSet({confirmed} \cup {offset}) /\ {confirmed} \cup {offset} = {confirmed, offset}
      BY FS_Singleton, FS_AddElement
    <3> QED BY <3>1
  <2> QED BY <2>1, <2>2, MaxOf
<1> HIDE DEF top
<1>3. left \in SUBSET Message /\ left \in SUBSET Nat /\ IsFiniteSet(left)
  BY <1>1, FS_Subset
<1>4. /\ c \in Nat /\ all \in Seq(left) /\ Len(all) = c
      /\ \A m \in left : \E i \in 1..c : all[i] = m
      /\ \A i, j \in 1..c : i < j => all[i] < all[j]
  BY <1>3, AscendingLists
<1>5. confirmed' = top /\ n <= c /\ batch' = SubSeq(all, 1, n)
  BY DEF GetUpdates, top
<1>6. \A m \in left : m \in Message /\ top <= m
  BY <1>1, <1>2
<1> HIDE DEF left, all, c
<1>7. Len(batch') = n /\ \A i \in 1..n : batch'[i] = all[i] /\ i \in 1..c /\ all[i] \in left
  BY <1>1, <1>4, <1>5
<1>8. batch' \in Seq(left)
  BY <1>1, <1>4, <1>5, <1>7
<1>9. batch' \in Seq(Message)
  <2>0. batch' \in [1..n -> left]
    BY <1>1, <1>7, <1>8
  <2>1. batch' \in [1..n -> Message]
    BY <1>3, <2>0
  <2> QED BY <1>1, <2>1
<1>10. \A i, j \in 1..n : i < j => batch'[i] < batch'[j]
  BY <1>4, <1>7
<1>11. ASSUME NEW i \in 1..n, NEW k \in Message, top <= k, k < batch'[i]
       PROVE  \E j \in 1..n : j < i /\ batch'[j] = k
  <2>1. k \in left /\ k \in Nat
    BY <1>1, <1>2, <1>11 DEF left
  <2>2. PICK j \in 1..c : all[j] = k
    BY <1>4, <2>1
  <2>3. all[i] \in Nat /\ i \in 1..c /\ batch'[i] = all[i]
    BY <1>3, <1>7
  <2>4. ~(i < j) /\ i # j
    BY <1>4, <1>11, <2>1, <2>2, <2>3
  <2>5. j < i
    BY <1>1, <1>4, <2>4
  <2>6. j \in 1..n
    BY <1>1, <1>4, <2>5
  <2> QED BY <1>7, <2>2, <2>5, <2>6
<1> QED BY <1>2, <1>5, <1>6, <1>7, <1>9, <1>10, <1>11

Shape == LoopType /\ Phases /\ Admitting

\* start() rejects: nothing of the loop changes but that it is over.
Refuses ==
  pc' = "refused" /\ UNCHANGED <<mode, offset, offsetFile, confirmed, batch, queue, receipt, legacy, started>>

\* The head of the queue is done with, and its legacy file goes.
Pops ==
  /\ queue # <<>>
  /\ pc \in {"dispatch", "claimed", "running"}
  /\ pc' = "dispatch"
  /\ queue' = Tail(queue)
  /\ legacy' = legacy \ {queue[1].id}
  /\ UNCHANGED <<mode, offset, offsetFile, confirmed, batch, started>>

\* A deferred handler ends: its legacy file, if it still has one, goes.
Forgets(m) ==
  /\ legacy' = legacy \ {m}
  /\ pc \in {"dispatch", "running", "poll"}
  /\ UNCHANGED <<mode, pc, offset, offsetFile, confirmed, batch, queue, started>>

ReceiptsTyped == receipt \in [Message -> {"none", "awaited", "deferred", "acked", "failed"}]

LEMMA ShapeInit == DeliveryInit => Shape
BY DEF DeliveryInit, Shape, LoopType, Phases, Admitting, Live, NoReceipts

\* Starting keeps the shape.
LEMMA ShapeStart ==
  ASSUME Shape, UNCHANGED loop \/ Refuses \/ Launch \/ RecoverInbound
  PROVE  Shape'
<1> USE DEF Shape
<1>1. CASE UNCHANGED loop
  BY <1>1 DEF loop, LoopType, Phases, Admitting, Begun, Ran
<1>2. CASE Refuses
  BY <1>2 DEF Refuses, LoopType, Phases, Admitting, Live
<1>3. CASE Launch
  BY <1>3 DEF Launch, LoopType, Phases, Admitting, Live, NoReceipts
<1>4. CASE RecoverInbound
  <2>1. LoopType'
    BY <1>4, RecoveryQueues DEF RecoverInbound, LoopType, Live
  <2>2. \A i \in 1..Len(queue') : queue'[i].id < offset'
    BY <1>4, RecoveryQueues DEF Recovered, Replayable
  <2>3. legacy' \subseteq Ids(queue')
    <3>1. DOMAIN queue' = 1..Len(queue')
      BY <2>1 DEF LoopType
    <3>2. \A m \in legacy : \E i \in 1..Len(queue') : queue'[i].id = m
      BY <1>4, RecoveryQueues
    <3>3. legacy' = legacy
      BY <1>4 DEF RecoverInbound
    <3> QED BY <3>1, <3>2, <3>3 DEF Ids, ToSet
  <2>4. pc' = "dispatch"
    BY <1>4 DEF RecoverInbound
  <2>5. Phases' /\ Admitting'
    BY <1>4, <2>2, <2>3, <2>4 DEF RecoverInbound, Phases, Admitting, Live
  <2> QED BY <2>1, <2>5
<1> QED BY <1>1, <1>2, <1>3, <1>4

\* So do the long poll and the admission of its answer.
LEMMA ShapeAdmission ==
  ASSUME Shape, (\E n \in 0..MaxBatch : GetUpdates(n)) \/ PersistLegacy \/ SaveCursor
  PROVE  Shape'
<1> USE DEF Shape
<1>1. ASSUME NEW n \in 0..MaxBatch, GetUpdates(n)
      PROVE  Shape'
  <2>1. LoopType'
    BY <1>1, AnswerInOrder DEF GetUpdates, LoopType, Live
  <2>2. n \in Nat /\ Len(batch') = n /\ queue' = <<>> /\ Len(queue') = 0 /\ legacy' = {} /\ Ids(queue') = {}
    BY <1>1, AnswerInOrder DEF GetUpdates, Phases, Live, Ids, ToSet
  <2>3. offset' = offset /\ pc' = IF n = 0 THEN "poll" ELSE "admit"
    BY <1>1 DEF GetUpdates
  <2>4. CASE n = 0
    BY <2>1, <2>2, <2>3, <2>4 DEF Phases, Admitting, Live, LoopType
  <2>5. CASE n # 0
    <3>1. batch' # <<>>
      BY <2>2, <2>5
    <3>2. \A i \in 1..n : offset' <= batch'[i]
      <4> TAKE i \in 1..n
      <4>1. offset <= confirmed' /\ confirmed' <= batch'[i]
        BY <1>1, AnswerInOrder
      <4>2. batch'[i] \in Message /\ confirmed' \in Nat /\ offset \in Nat
        BY <2>1, <2>2 DEF LoopType
      <4>3. batch'[i] \in Nat
        BY <4>2, DeliveryConstants
      <4> QED BY <2>3, <4>1, <4>2, <4>3
    <3>3. \A i, j \in 1..n : i < j => batch'[i] < batch'[j]
      BY <1>1, AnswerInOrder
    <3> QED BY <2>1, <2>2, <2>3, <2>5, <3>1, <3>2, <3>3 DEF Phases, Admitting, Live
  <2> QED BY <2>4, <2>5
<1>2. CASE PersistLegacy
  <2>1. batch[1] \in Message /\ legacy' = legacy \cup {batch[1]} /\ mode = "shadow" /\ pc = "admit"
        /\ batch # <<>>
    BY <1>2, BatchParts DEF PersistLegacy
  <2>2. UNCHANGED <<mode, pc, offset, offsetFile, confirmed, batch, queue, receipt, started>>
    BY <1>2 DEF PersistLegacy
  <2>3. LoopType'
    BY <2>1, <2>2 DEF LoopType
  <2>4. Phases'
    BY <2>1, <2>2 DEF Phases, Live
  <2>5. Admitting'
    BY <2>1, <2>2 DEF Admitting
  <2> QED BY <2>3, <2>4, <2>5
<1>3. CASE SaveCursor
  <2>1. pc = "admit" /\ batch = <<>> /\ queue # <<>> /\ pc' = "dispatch" /\ offset' = Last(queue).id + 1
    BY <1>3 DEF SaveCursor, Admitting
  <2>2. UNCHANGED <<mode, confirmed, batch, queue, receipt, legacy, started>> /\ offsetFile' = offset'
    BY <1>3 DEF SaveCursor
  <2> DEFINE k == Len(queue)
  <2>3. k \in Nat \ {0} /\ k \in 1..k /\ Last(queue) = queue[k] /\ queue[k] \in EntryType
    BY <2>1, QueueParts DEF LoopType, Last
  <2>4. \A i \in 1..k : queue[i].id \in Nat
    <3>1. \A i \in 1..k : queue[i] \in EntryType
      BY DEF LoopType
    <3> QED BY <3>1, DeliveryConstants DEF EntryType
  <2>5. offset' \in Nat /\ offset' = queue[k].id + 1
    BY <2>1, <2>3, <2>4
  <2>6. \A i \in 1..k : queue[i].id < offset'
    <3> TAKE i \in 1..k
    <3>1. i = k \/ queue[i].id < queue[k].id
      BY <2>1, <2>3 DEF Admitting
    <3> QED BY <2>3, <2>4, <2>5, <3>1
  <2>7. legacy' \subseteq Ids(queue')
    BY <2>1, <2>2 DEF Admitting
  <2>8. LoopType'
    BY <2>1, <2>2, <2>5 DEF LoopType, Live
  <2> QED BY <2>1, <2>2, <2>6, <2>7, <2>8 DEF Phases, Admitting, Live
<1> QED BY <1>1, <1>2, <1>3

LEMMA AppendSet ==
  ASSUME NEW T, NEW s \in Seq(T), NEW e \in T
  PROVE  ToSet(Append(s, e)) = ToSet(s) \cup {e}
<1>1. /\ Append(s, e) \in Seq(T) /\ Len(Append(s, e)) = Len(s) + 1 /\ Len(s) \in Nat
      /\ \A i \in 1..Len(s) : Append(s, e)[i] = s[i]
      /\ Append(s, e)[Len(s) + 1] = e
  OBVIOUS
<1>2. DOMAIN s = 1..Len(s) /\ DOMAIN Append(s, e) = 1..(Len(s) + 1)
  BY <1>1
<1>3. ASSUME NEW x \in ToSet(Append(s, e))
      PROVE  x \in ToSet(s) \cup {e}
  <2>1. PICK i \in 1..(Len(s) + 1) : x = Append(s, e)[i]
    BY <1>2 DEF ToSet
  <2>2. i \in 1..Len(s) \/ i = Len(s) + 1
    BY <1>1
  <2> QED BY <1>1, <1>2, <2>1, <2>2 DEF ToSet
<1>4. ASSUME NEW x \in ToSet(s)
      PROVE  x \in ToSet(Append(s, e))
  <2>1. PICK i \in 1..Len(s) : x = s[i]
    BY <1>2 DEF ToSet
  <2>2. i \in 1..(Len(s) + 1)
    BY <1>1
  <2> QED BY <1>1, <1>2, <2>1, <2>2 DEF ToSet
<1>5. e \in ToSet(Append(s, e))
  <2>1. Len(s) + 1 \in 1..(Len(s) + 1)
    BY <1>1
  <2> QED BY <1>1, <1>2, <2>1 DEF ToSet
<1> QED BY <1>3, <1>4, <1>5

\* What an admitted update adds to the queue, and a started one to the history.
LEMMA QueueGrows ==
  ASSUME LoopType, NEW e \in EntryType, queue' = Append(queue, e)
  PROVE  /\ queue' \in Seq(EntryType) /\ Len(queue') = Len(queue) + 1 /\ Len(queue) \in Nat
         /\ \A i \in 1..Len(queue) : queue'[i] = queue[i]
         /\ queue'[Len(queue) + 1] = e
         /\ Ids(queue') = Ids(queue) \cup {e.id}
<1>0. queue \in Seq(EntryType)
  BY DEF LoopType
<1>1. ToSet(queue') = ToSet(queue) \cup {e}
  BY <1>0, AppendSet
<1>2. Ids(queue') = Ids(queue) \cup {e.id}
  BY <1>1 DEF Ids
<1> QED BY <1>2 DEF LoopType

LEMMA Starts ==
  ASSUME LoopType, NEW m \in Message, NEW how \in {"managed", "unmanaged"},
         started' = Append(started, Entry(m, how))
  PROVE  /\ started' \in Seq([id : Message, how : {"managed", "unmanaged"}])
         /\ Ran(how)' = Ran(how) \cup {m}
         /\ \A way \in {"managed", "unmanaged"} \ {how} : Ran(way)' = Ran(way)
         /\ Begun' = Begun \cup {m}
<1>1. Entry(m, how) \in [id : Message, how : {"managed", "unmanaged"}]
  BY DEF Entry
<1>2. ToSet(started') = ToSet(started) \cup {Entry(m, how)}
  <2> DEFINE T == [id : Message, how : {"managed", "unmanaged"}]
  <2>1. started \in Seq(T) /\ Entry(m, how) \in T
    BY <1>1 DEF LoopType
  <2> HIDE DEF T
  <2>2. ToSet(Append(started, Entry(m, how))) = ToSet(started) \cup {Entry(m, how)}
    BY <2>1, AppendSet
  <2> QED BY <2>2
<1>3. ASSUME NEW n \in Message, NEW way
      PROVE  Entry(n, way) = Entry(m, how) <=> n = m /\ way = how
  BY DEF Entry
<1>4. Ran(how)' = Ran(how) \cup {m}
  BY <1>2, <1>3 DEF Ran
<1>5. \A way \in {"managed", "unmanaged"} \ {how} : Ran(way)' = Ran(way)
  BY <1>2, <1>3 DEF Ran
<1>6. Begun' = Begun \cup {m}
  <2>1. CASE how = "managed"
    BY <1>4, <1>5, <2>1 DEF Begun
  <2>2. CASE how = "unmanaged"
    BY <1>4, <1>5, <2>2 DEF Begun
  <2> QED BY <2>1, <2>2
<1>7. started' \in Seq([id : Message, how : {"managed", "unmanaged"}])
  BY <1>1 DEF LoopType
<1> QED BY <1>4, <1>5, <1>6, <1>7

LEMMA SameIds ==
  ASSUME NEW T, NEW s \in Seq(T), NEW t \in Seq(T), Len(s) = Len(t),
         \A i \in 1..Len(s) : t[i].id = s[i].id
  PROVE  Ids(t) = Ids(s)
<1>1. \A m : m \in Ids(s) <=> \E i \in 1..Len(s) : m = s[i].id
  BY DEF Ids, ToSet
<1>2. \A m : m \in Ids(t) <=> \E i \in 1..Len(s) : m = t[i].id
  BY DEF Ids, ToSet
<1>3. \A m : m \in Ids(t) <=> m \in Ids(s)
  BY <1>1, <1>2
<1> QED BY <1>3

\* The answer about a recovered legacy file.
LEMMA AskedQueue ==
  ASSUME LoopType, NEW how \in {"managed", "unmanaged", "skip"}, queue # <<>>,
         queue' = [queue EXCEPT ![1].how = how]
  PROVE  /\ queue' \in Seq(EntryType) /\ Len(queue') = Len(queue)
         /\ queue'[1] = Entry(queue[1].id, how)
         /\ \A i \in 1..Len(queue) : i # 1 => queue'[i] = queue[i]
         /\ \A i \in 1..Len(queue) : queue'[i].id = queue[i].id
         /\ Ids(queue') = Ids(queue)
<1>1. /\ queue \in Seq(EntryType) /\ Len(queue) \in Nat /\ 1 \in 1..Len(queue)
      /\ DOMAIN queue = 1..Len(queue) /\ queue[1] \in EntryType
  BY QueueParts DEF LoopType
<1>2. [queue[1] EXCEPT !.how = how] = Entry(queue[1].id, how) /\ Entry(queue[1].id, how) \in EntryType
  BY <1>1 DEF EntryType, Entry
<1>3. queue' = [i \in 1..Len(queue) |-> IF i = 1 THEN Entry(queue[1].id, how) ELSE queue[i]]
  BY <1>1, <1>2
<1>4. queue' \in Seq(EntryType) /\ Len(queue') = Len(queue) /\ DOMAIN queue' = 1..Len(queue)
  BY <1>1, <1>2, <1>3
<1>5. \A i \in 1..Len(queue) : queue'[i].id = queue[i].id
  BY <1>1, <1>3 DEF Entry
<1>6. Ids(queue') = Ids(queue)
  BY ONLY <1>1, <1>4, <1>5, SameIds
<1> QED BY <1>1, <1>3, <1>4, <1>5, <1>6

\* An update that is admitted goes to the end of the queue, in order.
LEMMA ShapeAdmit ==
  ASSUME Shape, Ledger, Filed, NEW how \in Ways \ {"refused"}, Admit(how)
  PROVE  Shape'
<1> USE DEF Shape
<1> DEFINE h == Head(batch)
           k == Len(queue)
           n == Len(batch)
<1>1. /\ pc = "admit" /\ batch # <<>> /\ (mode = "shadow" => h \in legacy) /\ Admission(h, how)
      /\ batch' = Tail(batch) /\ queue' = Append(queue, Entry(h, how))
      /\ UNCHANGED <<pc, mode, offset, offsetFile, confirmed, receipt, legacy, started>>
  BY DEF Admit
<1>2. /\ n \in Nat \ {0} /\ h = batch[1] /\ h \in Message /\ Tail(batch) \in Seq(Message)
      /\ Len(Tail(batch)) = n - 1 /\ \A i \in 1..(n - 1) : Tail(batch)[i] = batch[i + 1]
  BY <1>1, BatchParts
<1>3. how \in {"managed", "unmanaged", "skip"}
  BY DEF Ways
<1>4. Entry(h, how) \in EntryType /\ Entry(h, how).id = h /\ Entry(h, how).how = how
  BY <1>2, <1>3 DEF Entry, EntryType
<1>5. /\ queue' \in Seq(EntryType) /\ Len(queue') = k + 1 /\ k \in Nat
      /\ \A i \in 1..k : queue'[i] = queue[i]
      /\ queue'[k + 1].id = h /\ queue'[k + 1].how = how
      /\ Ids(queue') = Ids(queue) \cup {h}
  BY <1>1, <1>4, QueueGrows
<1>6. LoopType'
  BY <1>1, <1>2, <1>5 DEF LoopType
<1>7. Phases'
  BY <1>1 DEF Phases, Live
<1> DEFINE old(i) == i \in 1..k /\ queue'[i] = queue[i]
           last(i) == i = k + 1 /\ queue'[i].id = h /\ queue'[i].how = how
<1>8. \A i \in 1..Len(queue') : old(i) \/ last(i)
  BY <1>5
<1>9. \A i \in 1..(n - 1) : i + 1 \in 1..n /\ Tail(batch)[i] = batch[i + 1] /\ 1 < i + 1 /\ 1 \in 1..n
  BY <1>2
<1>10. \A i \in 1..Len(queue') : offset <= queue'[i].id /\ queue'[i].how # "ask"
  BY <1>1, <1>2, <1>3, <1>8, <1>9 DEF Admitting
<1>11. \A i, j \in 1..Len(queue') : i < j => queue'[i].id < queue'[j].id
  <2> SUFFICES ASSUME NEW i \in 1..Len(queue'), NEW j \in 1..Len(queue'), i < j
               PROVE  queue'[i].id < queue'[j].id
    OBVIOUS
  <2>1. old(i)
    BY <1>5, <1>8
  <2>2. CASE old(j)
    BY <1>1, <2>1, <2>2 DEF Admitting
  <2>3. CASE last(j)
    <3>1. 1 \in 1..n
      BY <1>2
    <3>2. queue[i].id < batch[1]
      BY <1>1, <2>1, <3>1 DEF Admitting
    <3> QED BY <1>2, <2>1, <2>3, <3>2
  <2> QED BY <1>8, <2>2, <2>3
<1>12. \A i, j \in 1..(n - 1) : i < j => Tail(batch)[i] < Tail(batch)[j]
  <2> SUFFICES ASSUME NEW i \in 1..(n - 1), NEW j \in 1..(n - 1), i < j
               PROVE  Tail(batch)[i] < Tail(batch)[j]
    OBVIOUS
  <2>1. i + 1 < j + 1
    BY <1>2
  <2> QED BY <1>1, <1>9, <2>1 DEF Admitting
<1>13. \A i \in 1..Len(queue'), j \in 1..(n - 1) : queue'[i].id < Tail(batch)[j]
  <2> TAKE i \in 1..Len(queue'), j \in 1..(n - 1)
  <2>1. CASE old(i)
    BY <1>1, <1>9, <2>1 DEF Admitting
  <2>2. CASE last(i)
    BY <1>1, <1>2, <1>9, <2>2 DEF Admitting
  <2> QED BY <1>8, <2>1, <2>2
<1>14. \A i \in 1..(n - 1) : offset <= Tail(batch)[i]
  BY <1>1, <1>9 DEF Admitting
<1>15. queue' # <<>>
  BY <1>5
<1>16. /\ \A m \in legacy' : m \in Ids(queue')
       /\ mode = "shadow" => Ids(queue') \subseteq legacy
       /\ mode = "enforced" => legacy = {}
  BY <1>1, <1>2, <1>5 DEF Admitting
<1>17. Admitting'
  BY <1>1, <1>2, <1>10, <1>11, <1>12, <1>13, <1>14, <1>15, <1>16 DEF Admitting
<1> QED BY <1>6, <1>7, <1>17

\* Dispatch keeps the shape.
LEMMA ShapeDispatch ==
  ASSUME Shape,
         \/ BatchDone \/ (Pops /\ ReceiptsTyped') \/ StartUnmanaged \/ ClaimUpdate \/ StartManaged
         \/ \E how \in {"managed", "unmanaged", "skip"} : AskJournal(how)
  PROVE  Shape'
<1> USE DEF Shape
<1>1. CASE BatchDone
  BY <1>1 DEF BatchDone, LoopType, Phases, Admitting, Live
<1>2. CASE Pops /\ ReceiptsTyped'
  <2> DEFINE k == Len(queue)
  <2>1. /\ k \in Nat \ {0} /\ queue' \in Seq(EntryType) /\ Len(queue') = k - 1
        /\ \A i \in 1..(k - 1) : queue'[i] = queue[i + 1]
        /\ Ids(queue) = Ids(queue') \cup {queue[1].id}
    BY <1>2, QueueParts DEF Pops
  <2>2. LoopType'
    BY <1>2, <2>1 DEF Pops, ReceiptsTyped, LoopType, Live
  <2>3. \A i \in 1..(k - 1) : queue'[i].id < offset
    <3> TAKE i \in 1..(k - 1)
    <3>1. i + 1 \in 1..k
      BY <2>1
    <3> QED BY <1>2, <2>1, <3>1 DEF Pops, Phases, Live
  <2>4. legacy' \subseteq Ids(queue') /\ batch' = <<>>
    BY <1>2, <2>1 DEF Pops, Phases, Live
  <2>5. Phases' /\ Admitting'
    BY <1>2, <2>1, <2>3, <2>4 DEF Pops, Phases, Admitting, Live
  <2> QED BY <2>2, <2>5
<1>3. ASSUME NEW how \in {"managed", "unmanaged"}, queue # <<>>, pc \in {"dispatch", "claimed"},
             pc' = "running", started' = Append(started, Entry(queue[1].id, how)), ReceiptsTyped',
             UNCHANGED <<mode, offset, offsetFile, confirmed, batch, queue, legacy>>
      PROVE  Shape'
  <2>1. queue[1].id \in Message
    BY <1>3, QueueParts
  <2>2. started' \in Seq([id : Message, how : {"managed", "unmanaged"}]) /\ queue[1].id \in Begun'
    BY <1>3, <2>1, Starts
  <2>3. LoopType'
    BY <1>3, <2>2 DEF ReceiptsTyped, LoopType, Live
  <2>4. Phases' /\ Admitting'
    BY <1>3, <2>2 DEF Phases, Admitting, Live
  <2> QED BY <2>3, <2>4
<1>4. CASE StartUnmanaged
  <2>1. queue # <<>> /\ Head(queue).how = "unmanaged" /\ receipt' = receipt
    BY <1>4 DEF StartUnmanaged, AtHead
  <2>2. Head(queue) = Entry(queue[1].id, "unmanaged")
    BY <2>1, QueueParts
  <2> QED BY <1>3, <1>4, <2>1, <2>2 DEF StartUnmanaged, AtHead, ReceiptsTyped, LoopType
<1>5. CASE StartManaged
  <2>1. queue # <<>> /\ queue[1].how = "managed" /\ ReceiptsTyped'
    BY <1>5 DEF StartManaged, Phases, LoopType, ReceiptsTyped
  <2>2. Head(queue) = Entry(queue[1].id, "managed")
    BY <2>1, QueueParts
  <2> QED BY <1>3, <1>5, <2>1, <2>2 DEF StartManaged
<1>6. CASE ClaimUpdate
  <2>1. queue # <<>> /\ queue[1].how = "managed"
    BY <1>6, QueueParts DEF ClaimUpdate, AtHead
  <2> QED BY <1>6, <2>1 DEF ClaimUpdate, AtHead, LoopType, Phases, Admitting, Live
<1>7. ASSUME NEW how \in {"managed", "unmanaged", "skip"}, AskJournal(how)
      PROVE  Shape'
  <2>1. /\ queue # <<>> /\ queue' = [queue EXCEPT ![1].how = how] /\ pc = "dispatch" /\ pc' = "dispatch"
        /\ UNCHANGED <<mode, offset, offsetFile, confirmed, batch, receipt, legacy, started>>
    BY <1>7 DEF AskJournal, AtHead
  <2>2. /\ queue' \in Seq(EntryType) /\ Len(queue') = Len(queue)
        /\ \A i \in 1..Len(queue) : queue'[i].id = queue[i].id
        /\ Ids(queue') = Ids(queue)
    BY <2>1, AskedQueue
  <2>3. LoopType'
    BY <2>1, <2>2 DEF LoopType
  <2> QED BY <2>1, <2>2, <2>3 DEF Phases, Admitting, Live
<1> QED BY <1>1, <1>2, <1>4, <1>5, <1>6, <1>7

\* Settlement keeps the shape.
LEMMA ShapeSettle ==
  ASSUME Shape, ReceiptsTyped', NEW m,
         \/ UNCHANGED <<mode, pc, offset, offsetFile, confirmed, batch, queue, legacy, started>>
         \/ Forgets(m)
  PROVE  Shape'
<1>1. CASE UNCHANGED <<mode, pc, offset, offsetFile, confirmed, batch, queue, legacy, started>>
  BY <1>1 DEF Shape, LoopType, Phases, Admitting, Begun, Ran, ReceiptsTyped
<1>2. CASE Forgets(m)
  BY <1>2 DEF Forgets, Shape, LoopType, Phases, Admitting, Begun, Ran, ReceiptsTyped, Live
<1> QED BY <1>1, <1>2

----------------------------------------------------------------------------
(* Every step of the loop is of one of these kinds.                        *)

Answers(m) ==
  /\ receipt[m] # "none"
  /\ \E to \in {"acked", "failed"} : receipt' = [receipt EXCEPT ![m] = to]
  /\ UNCHANGED <<mode, pc, offset, offsetFile, confirmed, batch, queue, legacy, started>>

LEMMA PopKinds ==
  ASSUME Shape, Suppress \/ EndUnmanaged \/ DropMalformed \/ Defer
  PROVE  /\ Pops /\ ReceiptsTyped'
         /\ Suppress => queue[1].how = "skip" /\ UNCHANGED jvars
         /\ ~Suppress => queue[1].id \in Begun \cup Malformed
<1> USE DEF Shape
<1>1. queue # <<>>
  BY DEF Suppress, EndUnmanaged, DropMalformed, Defer, AtHead, Phases
<1>2. Head(queue) = queue[1] /\ queue[1].id \in Message
  BY <1>1, QueueParts
<1>3. ReceiptsTyped
  BY DEF LoopType, ReceiptsTyped
<1>4. ASSUME Suppress
      PROVE  Pops /\ ReceiptsTyped' /\ queue[1].how = "skip" /\ UNCHANGED jvars
  BY <1>1, <1>2, <1>3, <1>4 DEF Suppress, AtHead, Pops, ReceiptsTyped
<1>5. ASSUME EndUnmanaged
      PROVE  Pops /\ ReceiptsTyped' /\ queue[1].id \in Begun \cup Malformed
  BY <1>1, <1>2, <1>3, <1>5 DEF EndUnmanaged, AtHead, Pops, ReceiptsTyped, Phases
<1>6. ASSUME DropMalformed
      PROVE  Pops /\ ReceiptsTyped' /\ queue[1].id \in Begun \cup Malformed
  BY <1>1, <1>2, <1>3, <1>6 DEF DropMalformed, Pops, ReceiptsTyped
<1>7. ASSUME Defer
      PROVE  Pops /\ ReceiptsTyped' /\ queue[1].id \in Begun \cup Malformed
  <2>1. receipt[queue[1].id] = "awaited" /\ receipt' = [receipt EXCEPT ![queue[1].id] = "deferred"]
    BY <1>2, <1>7 DEF Defer
  <2>2. ReceiptsTyped'
    BY <1>3, <2>1 DEF ReceiptsTyped
  <2> QED BY <1>1, <1>2, <1>7, <2>2 DEF Defer, Pops, Phases
<1> QED BY <1>4, <1>5, <1>6, <1>7

LEMMA SettleKinds ==
  ASSUME Shape, NEW m \in Message, Settle(m)
  PROVE  /\ receipt[m] # "none" /\ ReceiptsTyped'
         /\ \/ Answers(m)
            \/ receipt' = [receipt EXCEPT ![m] = "none"] /\ Pops /\ pc = "running" /\ queue[1] = Entry(m, "managed")
            \/ /\ receipt' = [receipt EXCEPT ![m] = "none"]
               /\ Forgets(m) /\ ~(pc = "running" /\ queue[1] = Entry(m, "managed"))
         /\ \/ UNCHANGED jvars
            \/ HandlerAcks(Poller, m)
            \/ \E w \in Outcome : Complete(Poller, m, w, 1) \/ MarkOutcomeUnknown(Poller, m, w)
<1> USE DEF Shape
<1>1. ReceiptsTyped
  BY DEF LoopType, ReceiptsTyped
<1>2. ASSUME receipt[m] # "none", pc \in {"dispatch", "running", "poll"}, Settled(m)
      PROVE  /\ ReceiptsTyped' /\ receipt' = [receipt EXCEPT ![m] = "none"]
             /\ \/ Pops /\ pc = "running" /\ queue[1] = Entry(m, "managed")
                \/ Forgets(m) /\ ~(pc = "running" /\ queue[1] = Entry(m, "managed"))
  <2>1. ReceiptsTyped' /\ receipt' = [receipt EXCEPT ![m] = "none"]
    BY <1>1, <1>2 DEF Settled, ReceiptsTyped
  <2>2. CASE pc = "running" /\ queue[1] = Entry(m, "managed")
    <3>1. queue # <<>> /\ Head(queue) = queue[1] /\ queue[1].id = m
      BY <2>2, QueueParts DEF Phases, Entry
    <3> QED BY <1>2, <2>1, <2>2, <3>1 DEF Settled, Pops
  <2>3. CASE ~(pc = "running" /\ queue[1] = Entry(m, "managed"))
    <3>1. ~(pc = "running" /\ Head(queue) = Entry(m, "managed"))
      BY <2>3, QueueParts DEF Phases
    <3> QED BY <1>2, <2>1, <2>3, <3>1 DEF Settled, Forgets
  <2> QED BY <2>1, <2>2, <2>3
<1>3. ASSUME NEW good \in BOOLEAN, HandlerEnds(m, good)
      PROVE  Answers(m) /\ ReceiptsTyped' /\ (UNCHANGED jvars \/ HandlerAcks(Poller, m))
  BY <1>1, <1>3 DEF HandlerEnds, Answers, ReceiptsTyped
<1>4. CASE CompleteThrows(m)
  <2>1. Answers(m) /\ ReceiptsTyped' /\ receipt[m] # "none"
    BY <1>1, <1>4 DEF CompleteThrows, Answers, ReceiptsTyped
  <2>2. UNCHANGED jvars \/ \E w \in Outcome : Complete(Poller, m, w, 1)
    BY <1>4 DEF CompleteThrows, Outcome
  <2> QED BY <2>1, <2>2
<1>5. CASE CompleteUpdate(m)
  BY <1>2, <1>5 DEF CompleteUpdate, Awaiting, Outcome
<1>6. CASE OutcomeUnknown(m)
  BY <1>2, <1>6 DEF OutcomeUnknown, Awaiting
<1> QED BY <1>3, <1>4, <1>5, <1>6 DEF Settle, Answers

LEMMA RefuseKinds ==
  ASSUME RecoverRefused \/ Admit("refused") \/ AskJournal("refused") \/ DispatchRefused
  PROVE  Refuses
BY DEF RecoverRefused, Admit, AskJournal, DispatchRefused, Refuses

LEMMA ShapeNext ==
  ASSUME Shape, Ledger, Filed, [DeliveryNext]_vars
  PROVE  Shape'
<1>1. CASE UNCHANGED vars \/ Relaunch \/ CrashRestart \/ RecoverJournal \/ RecoverRefused \/ RecoverInbound
           \/ DispatchRefused \/ \E m \in Message : Rot(m)
  BY <1>1, ShapeStart, RefuseKinds DEF vars, Relaunch, CrashRestart, RecoverJournal, Rot
<1>2. CASE PersistLegacy \/ SaveCursor \/ \E n \in 0..MaxBatch : GetUpdates(n)
  BY <1>2, ShapeAdmission
<1>3. ASSUME NEW how \in Ways, Admit(how) \/ AskJournal(how)
      PROVE  Shape'
  <2>1. CASE how = "refused"
    BY <1>3, <2>1, RefuseKinds, ShapeStart
  <2>2. CASE how # "refused" /\ Admit(how)
    BY <1>3, <2>2, ShapeAdmit
  <2>3. CASE how # "refused" /\ AskJournal(how)
    BY <1>3, <2>3, ShapeDispatch DEF Ways
  <2> QED BY <1>3, <2>1, <2>2, <2>3
<1>4. CASE Suppress \/ EndUnmanaged \/ DropMalformed \/ Defer
  BY <1>4, PopKinds, ShapeDispatch
<1>5. CASE BatchDone \/ StartUnmanaged \/ ClaimUpdate \/ StartManaged
  BY <1>5, ShapeDispatch
<1>6. ASSUME NEW m \in Message, Settle(m)
      PROVE  Shape'
  BY <1>6, SettleKinds, ShapeDispatch, ShapeSettle DEF Answers
<1> QED BY <1>1, <1>2, <1>3, <1>4, <1>5, <1>6 DEF DeliveryNext, Progress

----------------------------------------------------------------------------
(* What the cursor has passed is held.                                     *)

\* Nothing leaves the books, and a legacy file goes only when its update is on
\* them.
Grows ==
  /\ known \subseteq known' /\ Begun \subseteq Begun'
  /\ \A m \in legacy : m \in legacy' \/ Booked(m)'

\* The part of the batch still to be admitted follows on what is held.
NoGap ==
  pc = "admit" =>
    \A i \in 1..Len(batch), k \in Message :
      k < batch[i] => Held(k) \/ \E j \in 1..Len(batch) : j < i /\ batch[j] = k

LEMMA GrowsKeeps ==
  ASSUME Grows
  PROVE  /\ \A m : Booked(m) => Booked(m)'
         /\ \A m : Held(m) => Held(m)'
         /\ \A x : Below(x) => Below(x)'
<1>1. \A m : Booked(m) => Booked(m)'
  BY DEF Grows, Booked
<1>2. \A m : Held(m) => Held(m)'
  BY <1>1 DEF Grows, Held
<1> QED BY <1>1, <1>2 DEF Below

LEMMA DurableKeeps ==
  ASSUME Durable, Grows, NoGap',
         confirmed' \in {confirmed, offset},
         offset' = offset \/ Below(offset)',
         \A m \in legacy' \cup known' : m \in legacy \cup known \/ Below(m),
         \A i \in 1..Len(queue') :
           \/ \E j \in 1..Len(queue) : queue'[i] = queue[j]
           \/ /\ Held(queue[i].id)' /\ Below(queue'[i].id)
              /\ queue'[i].how = "skip" => Booked(queue[i].id)'
  PROVE  Durable'
<1>1. /\ \A m : Booked(m) => Booked(m)'
      /\ \A m : Held(m) => Held(m)'
      /\ \A x : Below(x) => Below(x)'
  BY GrowsKeeps
<1>2. Below(confirmed)' /\ Below(offset)'
  BY <1>1 DEF Durable
<1>3. \A m \in legacy' \cup known' : Below(m)'
  BY <1>1 DEF Durable
<1>4. \A i \in 1..Len(queue') :
        /\ Held(queue[i].id)' /\ Below(queue[i].id)'
        /\ queue'[i].how = "skip" => Booked(queue[i].id)'
  <2> TAKE i \in 1..Len(queue')
  <2>1. CASE \E j \in 1..Len(queue) : queue'[i] = queue[j]
    <3>1. PICK j \in 1..Len(queue) : queue'[i] = queue[j]
      BY <2>1
    <3>2. /\ Held(queue'[i].id) /\ Below(queue'[i].id)
          /\ queue'[i].how = "skip" => Booked(queue'[i].id)
      BY <3>1 DEF Durable
    <3> QED BY <1>1, <3>2
  <2> QED BY <1>1, <2>1
<1> QED BY <1>2, <1>3, <1>4 DEF Durable, NoGap

\* Most steps leave the cursor, the batch and the order of the queue alone.
LEMMA DurableStays ==
  ASSUME Shape, Durable, Grows, pc' = "admit" => pc = "admit",
         UNCHANGED <<offset, confirmed, batch>>, legacy' \subseteq legacy, known' = known,
         queue' = queue \/ queue' = <<>> \/ (queue # <<>> /\ queue' = Tail(queue))
  PROVE  Durable'
<1>1. \A m : Held(m) => Held(m)'
  BY GrowsKeeps
<1>2. NoGap'
  BY <1>1 DEF Durable, NoGap
<1>3. \A i \in 1..Len(queue') : \E j \in 1..Len(queue) : queue'[i] = queue[j]
  <2>1. CASE queue # <<>> /\ queue' = Tail(queue)
    <3>1. /\ Len(queue) \in Nat \ {0} /\ Len(queue') = Len(queue) - 1
          /\ \A i \in 1..(Len(queue) - 1) : queue'[i] = queue[i + 1]
      BY <2>1, QueueParts DEF Shape
    <3>2. \A i \in 1..(Len(queue) - 1) : i + 1 \in 1..Len(queue)
      BY <3>1
    <3> QED BY <3>1, <3>2
  <2> QED BY <2>1
<1> QED BY <1>2, <1>3, DurableKeeps

LEMMA DurableRecoverInbound ==
  ASSUME Ledger, Shape, Answered, Durable, RecoverInbound
  PROVE  Durable'
<1>1. UNCHANGED <<known, started, legacy, confirmed>> /\ pc' = "dispatch"
  BY DEF RecoverInbound, RecoveryDone, past
<1>2. Grows /\ \A m : (Held(m) <=> Held(m)')
  BY <1>1 DEF Grows, Held, Booked, Begun, Ran
<1>3. \A m \in Recovered : m \in Message /\ Held(m) /\ Below(m)
  <2> TAKE m \in Recovered
  <2>1. m \in Message /\ (m \in legacy \/ m \in known)
    BY DEF Recovered, Replayable, Shape, LoopType, Answered, Filed
  <2> QED BY <2>1 DEF Durable, Held, Booked
<1>4. Below(offset')
  <2>1. CASE offset' = offset
    BY <2>1 DEF Durable
  <2>2. ASSUME NEW m \in Recovered, offset' = m + 1
        PROVE  Below(offset')
    <3>0. m \in Nat /\ \A k \in Message : k \in Nat
      BY <1>3, DeliveryConstants
    <3>1. \A k \in Message : k < m + 1 => k = m \/ k < m
      BY <3>0
    <3> QED BY <1>3, <2>2, <3>1 DEF Below
  <2> QED BY <2>1, <2>2, RecoveryQueues DEF Shape
<1>5. Below(offset)'
  BY <1>2, <1>4, GrowsKeeps
<1>6. \A i \in 1..Len(queue') :
        /\ Held(queue[i].id)' /\ Below(queue'[i].id)
        /\ queue'[i].how # "skip"
  <2> TAKE i \in 1..Len(queue')
  <2>1. queue'[i].id \in legacy \cup Replayable /\ queue'[i].how # "skip"
    BY RecoveryQueues DEF Shape
  <2>2. queue'[i].id \in Recovered
    BY <2>1 DEF Recovered
  <2> QED BY <1>2, <1>3, <2>1, <2>2
<1>7. NoGap'
  BY <1>1 DEF NoGap
<1> QED BY <1>1, <1>2, <1>5, <1>6, <1>7, DurableKeeps

LEMMA DurableGetUpdates ==
  ASSUME Shape, Durable, NEW n \in 0..MaxBatch, GetUpdates(n)
  PROVE  Durable'
<1>1. UNCHANGED <<known, started, legacy, offset, queue>> /\ confirmed' \in {confirmed, offset}
  BY AnswerInOrder DEF GetUpdates, jvars, Shape
<1>2. Grows /\ \A m : (Held(m) <=> Held(m)')
  BY <1>1 DEF Grows, Held, Booked, Begun, Ran
<1>3. NoGap'
  <2>1. /\ Len(batch') = n /\ batch' \in Seq(Message)
        /\ \A i \in 1..n, k \in Message :
             confirmed' <= k /\ k < batch'[i] => \E j \in 1..n : j < i /\ batch'[j] = k
    BY AnswerInOrder DEF Shape
  <2>2. ASSUME NEW i \in 1..n, NEW k \in Message, k < batch'[i]
        PROVE  Held(k) \/ \E j \in 1..n : j < i /\ batch'[j] = k
    <3>1. CASE confirmed' <= k
      BY <2>1, <2>2, <3>1
    <3>2. CASE ~(confirmed' <= k)
      <4>1. k < confirmed'
        BY <1>1, <3>2, DeliveryConstants DEF Shape, LoopType
      <4> QED BY <1>1, <4>1 DEF Durable, Below
    <3> QED BY <3>1, <3>2
  <2> QED BY <1>2, <2>1, <2>2 DEF NoGap
<1> QED BY <1>1, <1>2, <1>3, DurableKeeps

LEMMA DurableAdmission ==
  ASSUME Ledger, Shape, Shape', Answered, Durable,
         PersistLegacy \/ SaveCursor \/ \E how \in Ways : Admit(how)
  PROVE  Durable'
<1>1. pc = "admit" /\ offset \in Nat /\ \A k \in Message : k \in Nat
  BY DeliveryConstants DEF PersistLegacy, SaveCursor, Admit, Shape, LoopType
<1>2. ASSUME batch # <<>>
      PROVE  /\ Len(batch) \in Nat \ {0} /\ Head(batch) = batch[1] /\ batch[1] \in Message
             /\ Below(batch[1])
  <2>1. /\ Len(batch) \in Nat \ {0} /\ Head(batch) = batch[1] /\ batch[1] \in Message /\ 1 \in 1..Len(batch)
    BY <1>2, BatchParts DEF Shape
  <2>2. ~ \E j \in 1..Len(batch) : j < 1
    BY <2>1
  <2> QED BY <1>1, <2>1, <2>2 DEF Durable, Below
<1>3. CASE PersistLegacy
  <2>1. /\ batch # <<>> /\ legacy' = legacy \cup {Head(batch)}
        /\ UNCHANGED <<known, started, pc, offset, confirmed, batch, queue>>
    BY <1>3 DEF PersistLegacy, jvars
  <2>2. Grows
    BY <2>1 DEF Grows, Begun, Ran
  <2>3. NoGap'
    BY <2>1, <2>2, GrowsKeeps DEF Durable, NoGap
  <2>4. \A m \in legacy' \cup known' : m \in legacy \cup known \/ Below(m)
    BY <1>2, <2>1
  <2> QED BY <2>1, <2>2, <2>3, <2>4, DurableKeeps
<1>4. CASE SaveCursor
  <2>1. /\ batch = <<>> /\ pc' = "dispatch" /\ offset' = Last(queue).id + 1
        /\ UNCHANGED <<known, started, legacy, confirmed, queue>>
    BY <1>4 DEF SaveCursor, jvars
  <2>2. Grows /\ NoGap'
    BY <2>1 DEF Grows, Begun, Ran, NoGap
  <2>3. queue # <<>> /\ Len(queue) \in Nat \ {0}
    BY <1>1, <2>1, QueueParts DEF Shape, Admitting
  <2> DEFINE m == queue[Len(queue)].id
  <2>4. Len(queue) \in 1..Len(queue) /\ offset' = m + 1 /\ queue[Len(queue)] \in EntryType
    BY <2>1, <2>3 DEF Last, Shape, LoopType
  <2>5. Held(m) /\ Below(m)
    BY <2>4 DEF Durable
  <2>6. m \in Nat
    BY <1>1, <2>4 DEF EntryType
  <2> HIDE DEF m
  <2>7. \A k \in Message : k < m + 1 => k = m \/ k < m
    BY <1>1, <2>6
  <2>8. Below(offset')
    BY <2>4, <2>5, <2>7 DEF Below
  <2>9. Below(offset)'
    BY <2>2, <2>8, GrowsKeeps
  <2> QED BY <2>1, <2>2, <2>9, DurableKeeps
<1>5. ASSUME NEW how \in Ways, Admit(how)
      PROVE  Durable'
  <2>0. PICK h \in Message : h = batch[1]
    BY <1>2, <1>5 DEF Admit
  <2>1. /\ batch # <<>> /\ Head(batch) = h /\ h = batch[1] /\ Below(h) /\ Len(batch) \in Nat \ {0}
        /\ Admission(h, how) /\ UNCHANGED <<offset, confirmed, legacy, started>>
    BY <1>2, <1>5, <2>0 DEF Admit
  <2>2. /\ Moves({h})
        /\ how = "managed" => h \in known'
        /\ how = "skip" => Seen(h)
        /\ how = "unmanaged" => mode = "shadow"
    BY <2>1, AdmissionMoves DEF Answered
  <2>3. Grows
    BY <2>1, <2>2 DEF Grows, Moves, Begun, Ran
  <2>4. \A m \in legacy' \cup known' : m \in legacy \cup known \/ Below(m)
    BY <2>1, <2>2 DEF Moves
  <2>5. CASE how = "refused"
    <3>1. pc' = "refused" /\ queue' = queue
      BY <1>5, <2>5 DEF Admit
    <3>2. NoGap'
      BY <3>1 DEF NoGap
    <3> QED BY <2>1, <2>3, <2>4, <3>1, <3>2, DurableKeeps
  <2>6. CASE how # "refused"
    <3>1. batch' = Tail(batch) /\ queue' = Append(queue, Entry(h, how)) /\ pc' = "admit"
          /\ (mode = "shadow" => h \in legacy)
      BY <1>1, <1>5, <2>1, <2>6 DEF Admit
    <3>2. Entry(h, how) \in EntryType /\ Entry(h, how).id = h /\ Entry(h, how).how = how
      BY <2>1, <2>6 DEF Entry, EntryType, Ways
    <3>3. /\ Len(queue') = Len(queue) + 1 /\ Len(queue) \in Nat
          /\ \A i \in 1..Len(queue) : queue'[i] = queue[i]
          /\ queue'[Len(queue) + 1] = Entry(h, how)
      BY <3>1, <3>2, QueueGrows DEF Shape
    <3>4. how = "skip" => h \in known
      BY <2>1, <2>2 DEF Answered, Filed, Seen
    <3>5. how \in {"managed", "skip"} => Booked(h)'
      BY <2>2, <3>4 DEF Booked, Moves
    <3>6. Held(h)'
      BY <2>1, <2>2, <2>6, <3>1, <3>5 DEF Held, Ways
    <3>7. \A i \in 1..Len(queue') :
            \/ \E j \in 1..Len(queue) : queue'[i] = queue[j]
            \/ /\ Held(queue[i].id)' /\ Below(queue'[i].id)
               /\ queue'[i].how = "skip" => Booked(queue[i].id)'
      <4> TAKE i \in 1..Len(queue')
      <4>1. i \in 1..Len(queue) \/ i = Len(queue) + 1
        BY <3>3
      <4>2. i = Len(queue) + 1 => queue'[i].id = h /\ queue'[i].how = how
        BY <3>2, <3>3
      <4> QED BY <2>1, <3>3, <3>5, <3>6, <4>1, <4>2
    <3>8. NoGap'
      <4>1. /\ batch' = Tail(batch) /\ Len(batch') = Len(batch) - 1
            /\ \A i \in 1..(Len(batch) - 1) : batch'[i] = batch[i + 1]
        BY <2>1, <3>1, BatchParts DEF Shape
      <4>2. ASSUME NEW i \in 1..Len(batch'), NEW k \in Message, k < batch'[i]
            PROVE  Held(k)' \/ \E j \in 1..Len(batch') : j < i /\ batch'[j] = k
        <5>1. i + 1 \in 1..Len(batch) /\ batch'[i] = batch[i + 1] /\ i \in Nat
          BY <2>1, <4>1
        <5>2. CASE Held(k)
          BY <2>3, <5>2, GrowsKeeps
        <5>3. ASSUME NEW j \in 1..Len(batch), j < i + 1, batch[j] = k
              PROVE  Held(k)' \/ \E n \in 1..Len(batch') : n < i /\ batch'[n] = k
          <6>1. CASE j = 1
            BY <2>1, <3>6, <5>3, <6>1
          <6>2. CASE j # 1
            <7>1. j - 1 \in 1..Len(batch') /\ j - 1 < i /\ (j - 1) + 1 = j
              BY <2>1, <4>1, <5>1, <5>3, <6>2
            <7>2. batch'[j - 1] = k
              BY <4>1, <5>3, <7>1
            <7> QED BY <7>1, <7>2
          <6> QED BY <6>1, <6>2
        <5> QED BY <1>1, <4>2, <5>1, <5>2, <5>3 DEF Durable
      <4> QED BY <4>2 DEF NoGap
    <3> QED BY <2>1, <2>3, <2>4, <3>7, <3>8, DurableKeeps
  <2> QED BY <2>5, <2>6
<1> QED BY <1>3, <1>4, <1>5

LEMMA DurableAsk ==
  ASSUME Ledger, Shape, Answered, Durable, NEW how \in Ways, AskJournal(how)
  PROVE  Durable'
<1>0. PICK m \in Message : m = queue[1].id
  BY QueueParts DEF AskJournal, AtHead, Shape
<1>1. /\ queue # <<>> /\ Head(queue) = queue[1] /\ m = queue[1].id /\ pc = "dispatch" /\ 1 \in 1..Len(queue)
      /\ UNCHANGED <<offset, confirmed, batch, legacy, started>> /\ pc' # "admit"
  BY <1>0, QueueParts DEF AskJournal, AtHead, Shape
<1>2. Held(m) /\ Below(m)
  BY <1>1 DEF Durable
<1>3. /\ known \subseteq known' /\ known' \subseteq known \cup {m}
      /\ how = "skip" => m \in known
  <2>1. CASE UNCHANGED jvars /\ how # "skip"
    BY <2>1 DEF jvars
  <2>2. CASE Admission(m, how)
    <3>1. Moves({m}) /\ (how = "skip" => Seen(m))
      BY <1>1, <2>2, AdmissionMoves DEF Answered
    <3> QED BY <1>1, <3>1 DEF Moves, Seen, Answered, Filed
  <2> QED BY <1>1, <2>1, <2>2 DEF AskJournal
<1>4. Grows
  BY <1>1, <1>3 DEF Grows, Begun, Ran
<1>5. \A k \in legacy' \cup known' : k \in legacy \cup known \/ Below(k)
  BY <1>1, <1>2, <1>3
<1>6. NoGap'
  BY <1>1 DEF NoGap
<1>7. \A i \in 1..Len(queue') :
        \/ \E j \in 1..Len(queue) : queue'[i] = queue[j]
        \/ /\ Held(queue[i].id)' /\ Below(queue'[i].id)
           /\ queue'[i].how = "skip" => Booked(queue[i].id)'
  <2>1. CASE how = "refused"
    <3>1. queue' = queue
      BY <2>1 DEF AskJournal
    <3> QED BY <3>1
  <2>2. CASE how # "refused"
    <3>1. queue' = [queue EXCEPT ![1].how = how] /\ how \in {"managed", "unmanaged", "skip"}
      BY <2>2 DEF AskJournal, Ways
    <3>2. /\ Len(queue') = Len(queue) /\ queue'[1].id = m /\ queue'[1].how = how
          /\ \A i \in 1..Len(queue) : i # 1 => queue'[i] = queue[i]
      BY <1>1, <3>1, AskedQueue DEF Shape, Entry
    <3>3. Held(m)' /\ (how = "skip" => Booked(m)')
      BY <1>2, <1>3, <1>4, GrowsKeeps DEF Booked
    <3> QED BY <1>2, <3>2, <3>3
  <2> QED BY <2>1, <2>2
<1> QED BY <1>1, <1>4, <1>5, <1>6, <1>7, DurableKeeps

----------------------------------------------------------------------------
(* The journal's part in a step, and the loop's safety.                    *)

\* But for admission, a step brings nothing in and takes no file away.
LEMMA StepMoves ==
  ASSUME Ledger, Filed, Shape, [DeliveryNext]_vars,
         ~ \E how \in Ways : Admit(how) \/ AskJournal(how)
  PROVE  /\ Moves({}) /\ Stays
         /\ acked' = acked \/ \E m \in Message : receipt[m] # "none" /\ acked' = acked \cup {m}
<1>1. TypeOK /\ Poller \in Owner
  BY DeliveryConstants DEF Ledger, Books
<1>2. CASE UNCHANGED jvars
  BY <1>2, SameMoves DEF jvars
<1>3. ASSUME NEW m \in Message, NEW w \in Outcome,
             RecoverFile(m, w) \/ RecoverIndex \/ RecoveryDone \/ Damage(m)
      PROVE  Moves({}) /\ Stays /\ acked' = acked
  BY <1>3, RecoveryMoves
<1>4. ASSUME ProcessGone
      PROVE  Moves({}) /\ Stays /\ acked' = acked
  BY <1>4, SameMoves DEF ProcessGone, disk, past
<1>5. CASE Relaunch \/ CrashRestart
  BY <1>5, <1>4 DEF Relaunch, CrashRestart, Launch
<1>6. CASE RecoverJournal \/ RecoverRefused
  <2>1. \/ UNCHANGED jvars \/ RecoverIndex
        \/ \E m \in Message, w \in Outcome : RecoverFile(m, w)
    BY <1>6 DEF RecoverJournal, RecoverRefused, Outcome
  <2>2. CASE RecoverIndex
    BY <2>2, SameMoves DEF RecoverIndex, disk, flows, past
  <2> QED BY <1>2, <1>3, <2>1, <2>2
<1>7. CASE RecoverInbound
  BY <1>7, SameMoves DEF RecoverInbound, RecoveryDone, disk, flows, past
<1>8. CASE PersistLegacy \/ SaveCursor \/ BatchDone \/ Suppress \/ StartUnmanaged \/ EndUnmanaged \/ Defer
           \/ (\E n \in 0..MaxBatch : GetUpdates(n)) \/ UNCHANGED vars
  BY <1>8, <1>2
     DEF PersistLegacy, SaveCursor, BatchDone, Suppress, StartUnmanaged, EndUnmanaged, Defer, GetUpdates, vars
<1>9. CASE ClaimUpdate \/ DispatchRefused \/ DropMalformed \/ StartManaged
  <2>1. Head(queue).id \in Message
    BY <1>9, QueueParts DEF ClaimUpdate, DispatchRefused, DropMalformed, StartManaged, AtHead, Phases, Shape
  <2>2. UNCHANGED jvars \/ \E w \in Outcome : \/ Claim(Poller, Head(queue).id, w)
                                           \/ MarkLost(Poller, Head(queue).id, w)
                                           \/ MarkDispatched(Poller, Head(queue).id, w)
    BY <1>9 DEF ClaimUpdate, DispatchRefused, DropMalformed, StartManaged, Outcome
  <2> QED BY <1>1, <1>2, <2>1, <2>2, CallMoves
<1>10. ASSUME NEW m \in Message, Settle(m)
       PROVE  /\ Moves({}) /\ Stays
              /\ acked' = acked \/ (receipt[m] # "none" /\ acked' = acked \cup {m})
  <2>1. /\ receipt[m] # "none"
        /\ \/ UNCHANGED jvars
           \/ HandlerAcks(Poller, m)
           \/ \E w \in Outcome : Complete(Poller, m, w, 1) \/ MarkOutcomeUnknown(Poller, m, w)
    BY <1>10, SettleKinds
  <2>2. CASE UNCHANGED jvars
    BY <2>2, SameMoves DEF jvars
  <2>3. CASE HandlerAcks(Poller, m)
    <3>1. Moves({}) /\ Stays
      BY <2>3, SameMoves DEF HandlerAcks, disk, past
    <3>2. acked' = acked \cup {m}
      BY <2>3 DEF HandlerAcks
    <3> QED BY <2>1, <3>1, <3>2
  <2>4. 1 \in {0, 1}
    OBVIOUS
  <2>5. ASSUME NEW w \in Outcome, Complete(Poller, m, w, 1) \/ MarkOutcomeUnknown(Poller, m, w)
        PROVE  Moves({}) /\ Stays /\ acked' = acked
    BY <1>1, <2>4, <2>5, CallMoves
  <2> QED BY <2>1, <2>2, <2>3, <2>5
<1>11. ASSUME NEW m \in Message, Rot(m)
       PROVE  Moves({}) /\ Stays /\ acked' = acked
  <2>1. "ok" \in Outcome /\ Damage(m)
    BY <1>11 DEF Rot, Outcome
  <2> QED BY <1>3, <2>1
<1> QED BY <1>5, <1>6, <1>7, <1>8, <1>9, <1>10, <1>11 DEF DeliveryNext, Progress

\* Receipts and acknowledgements are only of what was started.
LEMMA AnsweredNext ==
  ASSUME Ledger, Shape, Answered, [DeliveryNext]_vars
  PROVE  Answered' /\ Begun \subseteq Begun'
<1>1. Filed' /\ (acked' \subseteq acked \/ \E m \in Message : receipt[m] # "none" /\ acked' = acked \cup {m})
  <2>1. ASSUME NEW how \in Ways, Admit(how)
        PROVE  Filed' /\ acked' \subseteq acked
    <3>1. Head(batch) \in Message /\ Admission(Head(batch), how)
      BY <2>1, BatchParts DEF Admit, Shape
    <3> QED BY <3>1, AdmissionMoves DEF Answered, Moves
  <2>2. ASSUME NEW how \in Ways, AskJournal(how)
        PROVE  Filed' /\ acked' \subseteq acked
    <3>1. Head(queue).id \in Message /\ (UNCHANGED jvars \/ Admission(Head(queue).id, how))
      BY <2>2, QueueParts DEF AskJournal, AtHead, Shape
    <3>2. UNCHANGED jvars => Filed'
      BY DEF jvars, Answered, Filed
    <3> QED BY <3>1, <3>2, AdmissionMoves DEF Answered, Moves, jvars
  <2> QED BY <2>1, <2>2, StepMoves DEF Answered, Moves
<1>2. ASSUME Begun \subseteq Begun', \A m \in Message : receipt'[m] # "none" => receipt[m] # "none" \/ m \in Begun'
      PROVE  Answered' /\ Begun \subseteq Begun'
  BY <1>1, <1>2 DEF Answered
<1>3. CASE receipt' = receipt /\ started' = started
  BY <1>2, <1>3 DEF Begun, Ran
<1>4. CASE Launch
  BY <1>2, <1>4 DEF Launch, NoReceipts, Begun, Ran
<1>5. CASE RecoverJournal \/ RecoverRefused \/ RecoverInbound \/ PersistLegacy \/ SaveCursor \/ BatchDone
           \/ (\E n \in 0..MaxBatch : GetUpdates(n)) \/ UNCHANGED vars \/ Suppress \/ EndUnmanaged
           \/ (\E how \in Ways : Admit(how) \/ AskJournal(how)) \/ (\E m \in Message : Rot(m))
           \/ ClaimUpdate \/ DispatchRefused \/ DropMalformed
  BY <1>5, <1>3
     DEF RecoverJournal, RecoverRefused, RecoverInbound, PersistLegacy, SaveCursor, BatchDone, GetUpdates, vars, loop,
         Suppress, EndUnmanaged, Admit, AskJournal, Rot, ClaimUpdate, DispatchRefused, DropMalformed
<1>6. ASSUME NEW how \in {"managed", "unmanaged"}, queue # <<>>,
             started' = Append(started, Entry(queue[1].id, how)),
             receipt' = receipt \/ receipt' = [receipt EXCEPT ![queue[1].id] = "awaited"]
      PROVE  Answered' /\ Begun \subseteq Begun'
  <2>1. queue[1].id \in Message
    BY <1>6, QueueParts DEF Shape
  <2>2. Begun' = Begun \cup {queue[1].id}
    BY <1>6, <2>1, Starts DEF Shape
  <2>3. \A m \in Message : receipt'[m] # "none" => receipt[m] # "none" \/ m = queue[1].id
    BY <1>6 DEF Shape, LoopType
  <2> QED BY <1>2, <2>2, <2>3
<1>7. CASE StartUnmanaged
  <2>1. queue # <<>> /\ Head(queue) = Entry(queue[1].id, "unmanaged")
    BY <1>7, QueueParts DEF StartUnmanaged, AtHead, Shape
  <2> QED BY <1>6, <1>7, <2>1 DEF StartUnmanaged
<1>8. CASE StartManaged
  <2>1. queue # <<>> /\ Head(queue) = Entry(queue[1].id, "managed") /\ Head(queue) = queue[1]
    BY <1>8, QueueParts DEF StartManaged, Phases, Shape
  <2> QED BY <1>6, <1>8, <2>1 DEF StartManaged
<1>9. CASE Defer
  <2>1. /\ started' = started /\ queue # <<>> /\ Head(queue) = queue[1]
        /\ receipt[queue[1].id] = "awaited" /\ receipt' = [receipt EXCEPT ![queue[1].id] = "deferred"]
    BY <1>9, QueueParts DEF Defer, Phases, Shape
  <2>2. \A m \in Message : receipt'[m] # "none" => receipt[m] # "none"
    BY <2>1 DEF Shape, LoopType
  <2> QED BY <1>2, <2>1, <2>2 DEF Begun, Ran
<1>10. ASSUME NEW m \in Message, Settle(m)
       PROVE  Answered' /\ Begun \subseteq Begun'
  <2>1. started' = started
    BY <1>10, SettleKinds DEF Answers, Pops, Forgets
  <2>2. receipt[m] # "none" /\ \E to \in {"none", "acked", "failed"} : receipt' = [receipt EXCEPT ![m] = to]
    BY <1>10, SettleKinds DEF Answers
  <2>3. \A k \in Message : receipt'[k] # "none" => receipt[k] # "none"
    BY <2>2 DEF Shape, LoopType
  <2> QED BY <1>2, <2>1, <2>3 DEF Begun, Ran
<1> QED BY <1>4, <1>5, <1>7, <1>8, <1>9, <1>10 DEF DeliveryNext, Progress, Relaunch, CrashRestart

\* What is held stays held: a step that neither moves the cursor nor adds to the
\* queue removes a legacy file only when its update is on the books.
LEMMA DurableNext ==
  ASSUME Ledger, Shape, Answered, Durable, [DeliveryNext]_vars
  PROVE  Durable'
<1>1. Shape' /\ Begun \subseteq Begun'
  BY ShapeNext, AnsweredNext DEF Answered
<1>2. CASE \E how \in Ways : Admit(how) \/ AskJournal(how)
  BY <1>1, <1>2, DurableAdmission, DurableAsk
<1>3. CASE RecoverInbound \/ PersistLegacy \/ SaveCursor \/ \E n \in 0..MaxBatch : GetUpdates(n)
  BY <1>1, <1>3, DurableRecoverInbound, DurableAdmission, DurableGetUpdates
<1> SUFFICES ASSUME ~ \E how \in Ways : Admit(how) \/ AskJournal(how)
             PROVE  Durable'
  BY <1>2
<1>4. known' = known
  BY StepMoves DEF Moves, Answered
<1>5. ASSUME UNCHANGED <<offset, confirmed, batch, queue, legacy>>, pc' = "admit" => pc = "admit"
      PROVE  Durable'
  <2>1. Grows
    BY <1>1, <1>4, <1>5 DEF Grows
  <2> QED BY <1>4, <1>5, <2>1, DurableStays
<1>6. CASE Launch
  <2>1. /\ legacy' = legacy /\ confirmed' = confirmed /\ queue' = <<>> /\ pc' = "recover"
        /\ offset' = offset /\ batch' = <<>>
    BY <1>6 DEF Launch, Shape, LoopType
  <2>2. Grows
    BY <1>1, <1>4, <2>1 DEF Grows
  <2>3. NoGap'
    BY <2>1 DEF NoGap
  <2>4. 1..Len(queue') = {}
    BY <2>1
  <2> QED BY <1>4, <2>1, <2>2, <2>3, <2>4, DurableKeeps
<1>7. CASE RecoverRefused \/ DispatchRefused
  BY <1>5, <1>7, RefuseKinds DEF Refuses
<1>8. CASE RecoverJournal \/ BatchDone \/ StartUnmanaged \/ StartManaged \/ ClaimUpdate
           \/ (\E m \in Message : Rot(m)) \/ UNCHANGED vars
  BY <1>5, <1>8 DEF RecoverJournal, BatchDone, StartUnmanaged, StartManaged, ClaimUpdate, Rot, vars, loop
<1>9. ASSUME NEW m, Booked(m), legacy \ {m} \subseteq legacy'
      PROVE  Grows
  <2>1. Booked(m)'
    BY <1>1, <1>4, <1>9 DEF Booked
  <2> QED BY <1>1, <1>4, <1>9, <2>1 DEF Grows
<1>10. ASSUME Pops, Booked(queue[1].id)
       PROVE  Durable'
  <2>1. PICK m : m = queue[1].id
    OBVIOUS
  <2>2. Booked(m) /\ legacy' = legacy \ {m}
    BY <1>10, <2>1 DEF Pops
  <2>3. Grows
    BY <1>9, <2>2
  <2>4. /\ UNCHANGED <<offset, confirmed, batch>> /\ pc' # "admit" /\ legacy' \subseteq legacy
        /\ queue # <<>> /\ queue' = Tail(queue)
    BY <1>10 DEF Pops
  <2> QED BY <1>4, <2>3, <2>4, DurableStays
<1>11. CASE Suppress \/ EndUnmanaged \/ DropMalformed \/ Defer
  <2>1. /\ Pops
        /\ Suppress => queue[1].how = "skip"
        /\ ~Suppress => queue[1].id \in Begun \cup Malformed
    BY <1>11, PopKinds
  <2>2. queue # <<>> /\ Len(queue) \in Nat \ {0}
    BY <2>1, QueueParts DEF Pops, Shape
  <2>3. 1 \in 1..Len(queue)
    BY <2>2
  <2>4. queue[1].how = "skip" => Booked(queue[1].id)
    BY <2>3 DEF Durable
  <2> QED BY <1>10, <2>1, <2>4 DEF Booked
<1>12. ASSUME NEW m \in Message, Settle(m)
       PROVE  Durable'
  <2>1. Booked(m)
    BY <1>12, SettleKinds DEF Booked, Answered
  <2>2. CASE Answers(m)
    BY <1>5, <2>2 DEF Answers
  <2>3. CASE Pops /\ queue[1] = Entry(m, "managed")
    <3>1. queue[1].id = m
      BY <2>3 DEF Entry
    <3> QED BY <1>10, <2>1, <2>3, <3>1
  <2>4. CASE Forgets(m)
    <3>1. Grows
      BY <1>9, <2>1, <2>4 DEF Forgets
    <3>2. UNCHANGED <<offset, confirmed, batch, queue, pc>> /\ legacy' \subseteq legacy
      BY <2>4 DEF Forgets
    <3> QED BY <1>4, <3>1, <3>2, DurableStays
  <2> QED BY <1>12, <2>2, <2>3, <2>4, SettleKinds
<1> QED BY <1>3, <1>6, <1>7, <1>8, <1>11, <1>12 DEF DeliveryNext, Progress, Relaunch, CrashRestart

\* The loop's invariant holds in every reachable state.
LEMMA DeliveryInvariant == DeliverySpec => []DInv
<1>1. DeliveryInit => DInv
  <2> SUFFICES ASSUME DeliveryInit PROVE DInv
    OBVIOUS
  <2>1. Init /\ Ledger /\ Shape
    BY ShapeInit, LedgerInit DEF DeliveryInit
  <2>2. Answered
    BY <2>1 DEF DeliveryInit, Answered, Filed, Init, NoReceipts
  <2>3. Below(0)
    BY DeliveryConstants DEF Below
  <2>4. Durable
    BY <2>3 DEF DeliveryInit, Durable, Init
  <2> QED BY <2>1, <2>2, <2>4 DEF DInv, Shape
<1>2. DInv /\ [DeliveryNext]_vars => DInv'
  <2> SUFFICES ASSUME DInv, [DeliveryNext]_vars PROVE DInv'
    OBVIOUS
  <2>1. Ledger /\ Shape /\ Answered /\ Durable /\ LoopType /\ Phases /\ Filed
    BY DEF DInv, Shape, Answered
  <2>2. Ledger' /\ Shape' /\ Answered' /\ Durable'
    BY <2>1, LoopKeepsLedger, ShapeNext, AnsweredNext, DurableNext
  <2> QED BY <2>2 DEF DInv, Shape
<1> QED BY <1>1, <1>2, PTL DEF DeliverySpec

\* Who was begun is in the history.
LEMMA BegunIds == LoopType => Begun \subseteq Ids(started)
BY DEF Begun, Ran, Ids, Entry

\* No update that Telegram was told to forget is lost: whatever crashes, failed
\* writes and refused starts come between the long poll, admission, the saved
\* cursor and dispatch, in whatever mode each process runs.
THEOREM ConfirmedHeld == DeliverySpec => []ConfirmedIsDurable
<1>1. DInv => ConfirmedIsDurable
  <2> SUFFICES ASSUME DInv, NEW m \in Message, m < confirmed, status[m] = "absent"
               PROVE  m \in legacy \/ m \in ToSet(quarantine) \/ m \in Ids(started) \/ m \in Malformed
    BY DEF ConfirmedIsDurable
  <2>1. m \in known \/ m \in Begun \/ m \in Malformed \/ m \in legacy
    BY DEF DInv, Durable, Below, Held, Booked
  <2>2. m \in Begun => m \in Ids(started)
    BY BegunIds DEF DInv
  <2>3. m \in known => m \in Begun \/ \E i \in DOMAIN quarantine : quarantine[i] = m
    BY DEF DInv, Ledger, Kept, NoSilentLoss, Answered
  <2> QED BY <2>1, <2>2, <2>3 DEF ToSet
<1> QED BY <1>1, DeliveryInvariant, PTL

\* The legacy inbox is empty whenever the loop is back at the long poll: what is
\* in it is in the queue too, and the queue is worked off before the loop polls.
THEOREM InboxDrained == DeliverySpec => []LegacyDrained
<1>1. DInv => LegacyDrained
  <2> SUFFICES ASSUME DInv, pc = "poll" PROVE legacy = {}
    BY DEF LegacyDrained
  <2>1. queue = <<>> /\ legacy \subseteq Ids(queue)
    BY DEF DInv, Phases, Live
  <2>2. Ids(<<>>) = {}
    BY DEF Ids, ToSet
  <2> QED BY <2>1, <2>2
<1> QED BY <1>1, DeliveryInvariant, PTL

\* The journal keeps under the receiving loop what it promises for itself: no
\* second start of a handler while the record exists, by the last claimant only;
\* no record that vanishes; a recovery that can always start; and the window.
THEOREM PromisesUnderLoop ==
  DeliverySpec => [](/\ DispatchedOnce /\ ClaimFenced
                     /\ NoSilentLoss /\ RecoveryNeverRefused /\ RecentCompletionsRemembered)
<1>1. DInv => NoSilentLoss /\ RecoveryNeverRefused /\ RecentCompletionsRemembered
  BY DEF DInv, Ledger, Kept, Books, RecoveryNeverRefused, IndexExact, IndexFaithful, Indexed
<1>2. DeliveryInit => Fences
  BY TypeInit DEF DeliveryInit, Init, Fences, ReplaySafe, ClaimFenced, DispatchedOnce
<1>3. DInv /\ Fences /\ [DeliveryNext]_vars => Fences'
  BY LoopKeepsFences DEF DInv
<1>4. Fences => DispatchedOnce /\ ClaimFenced
  BY DEF Fences
<1> QED BY <1>1, <1>2, <1>3, <1>4, DeliveryInvariant, PTL DEF DeliverySpec

----------------------------------------------------------------------------
(* Starts in order, once: what holds between any two steps of the loop.    *)

\* Done with, or excepted: malformed, or started from its legacy file.
Spent(m) == m \in Malformed \cup Ran("unmanaged")

\* The queue is in order, but that a recovered record without a legacy file
\* comes after the files: such a record is excepted if there are files at all.
Rows ==
  /\ \A i, j \in 1..Len(queue) : i < j =>
       /\ queue[i].id # queue[j].id
       /\ queue[j].id \in legacy => queue[i].id < queue[j].id
       /\ queue[i].id < queue[j].id \/ Spent(queue[j].id)
  /\ \A i \in 1..Len(queue) :
       /\ queue[i].how = "ask" => queue[i].id \in legacy
       /\ queue[i].how = "skip" => ~Waits(queue[i].id)

Running ==
  pc = "running" =>
    \E how \in {"managed", "unmanaged"} : queue[1].how = how /\ queue[1].id \in Ran(how)

\* What was started is behind the cursor, and no legacy file is from before the
\* last managed start.
Before == \A m \in Begun : m < offset
Files == \A x \in Ran("managed"), m \in legacy : x <= m

\* A record whose handler was started does not come back, not even from a
\* legacy file; and what waits is for after it.
Over ==
  \A x \in Ran("managed") \ damaged :
    Past(x) /\ (status[x] = "absent" => x \notin legacy)
InTurn == \A x \in Ran("managed") \ damaged, m \in Message : Waits(m) => x < m \/ Spent(m)

\* What waits is in the queue, and in the legacy inbox too if there is one.
Lone == \A m \in Message \ legacy : Waits(m) => Spent(m) \/ legacy = {}
Waiting == pc \in Live => \A m \in Message : Waits(m) => Spent(m) \/ m \in Ids(queue)

\* A receipt is of an update that waits no more and, unless its handler is the
\* one the loop runs, is not in the queue.
Receipts ==
  \A m \in Message : receipt[m] # "none" =>
    /\ pc # "recover"
    /\ ~Waits(m)
    /\ \A i \in 1..Len(queue) : queue[i].id = m => pc \in {"running", "refused"} /\ i = 1

\* From the cursor on the journal knows only what is being admitted; only the
\* head of the queue is claimed; recovery leaves nothing claimed or dispatched.
Unseen ==
  pc \in Live => \A m \in Message : m >= offset /\ Seen(m) => pc = "admit" /\ m \in Ids(queue)
Claims ==
  pc \in Live => \A m \in Message : status[m] = "claimed" => pc = "claimed" /\ m = queue[1].id
Scanned ==
  boot = "recovering" /\ index # NoIndex =>
    \A m \in Message : status[m] \in {"claimed", "dispatched"} => m \in scan

Order ==
  /\ Rows /\ Running /\ Before /\ Files /\ Over /\ InTurn /\ Lone
  /\ Waiting /\ Receipts /\ Unseen /\ Claims /\ Scanned

----------------------------------------------------------------------------
(* The steps of the loop, as far as the order of the starts is concerned.  *)

NoNewReceipt == \A m \in Message : receipt'[m] # "none" => receipt[m] # "none"

Quiet ==
  /\ UNCHANGED <<offset, queue, legacy, started>>
  /\ NoNewReceipt
  /\ \/ pc' = pc \/ pc' = "refused"
     \/ pc = "dispatch" /\ pc' \in {"claimed", "poll"}
     \/ pc = "poll" /\ pc' = "admit"

\* The head of the queue is done with for good.
Finishes(m) == m = queue[1].id /\ Pops /\ NoNewReceipt /\ (Spent(m) \/ ~Waits(m)')

\* What leaves the queue is excepted from now on or waits no more.
LEMMA FinishKinds ==
  ASSUME DInv, Order, Suppress \/ EndUnmanaged \/ DropMalformed \/ Defer
  PROVE  \E m \in Message : Finishes(m)
<1>1. /\ Pops /\ queue # <<>> /\ Head(queue) = queue[1] /\ Len(queue) \in Nat \ {0}
      /\ queue[1] = Entry(queue[1].id, queue[1].how)
      /\ Suppress => queue[1].how = "skip" /\ UNCHANGED jvars
  BY PopKinds, QueueParts DEF DInv, Shape, Pops
<1>2. PICK m \in Message : m = queue[1].id
  BY <1>1, QueueParts DEF DInv
<1>3. 1 \in 1..Len(queue)
  BY <1>1
<1>4. CASE Suppress
  <2>1. ~Waits(m) /\ UNCHANGED status
    BY <1>1, <1>2, <1>3, <1>4 DEF Order, Rows, jvars
  <2> QED BY <1>1, <1>2, <1>4, <2>1 DEF Finishes, Suppress, Waits, NoNewReceipt
<1>5. CASE EndUnmanaged
  <2>1. Spent(m)
    BY <1>1, <1>2, <1>5 DEF EndUnmanaged, Order, Running, Spent, AtHead
  <2> QED BY <1>1, <1>2, <1>5, <2>1 DEF Finishes, EndUnmanaged, NoNewReceipt
<1>6. CASE DropMalformed
  <2>1. Spent(m)
    BY <1>1, <1>2, <1>6 DEF DropMalformed, Spent
  <2> QED BY <1>1, <1>2, <1>6, <2>1 DEF Finishes, DropMalformed, NoNewReceipt
<1>7. CASE Defer
  <2>1. /\ receipt[m] = "awaited" /\ receipt' = [receipt EXCEPT ![m] = "deferred"]
        /\ UNCHANGED status
    BY <1>1, <1>2, <1>7 DEF Defer, jvars
  <2>2. ~Waits(m) /\ NoNewReceipt
    BY <2>1 DEF Order, Receipts, NoNewReceipt, DInv, LoopType
  <2> QED BY <1>1, <1>2, <2>1, <2>2 DEF Finishes, Waits
<1> QED BY <1>4, <1>5, <1>6, <1>7

\* Every step of the loop is of one of these kinds.
LEMMA OrderKinds ==
  ASSUME DInv, Order, [DeliveryNext]_vars
  PROVE  \/ \E how \in Ways : Admit(how) \/ AskJournal(how)
         \/ RecoverInbound \/ Launch \/ PersistLegacy \/ SaveCursor \/ StartUnmanaged \/ StartManaged
         \/ Quiet
         \/ \E m \in Message : Finishes(m) \/ (receipt[m] # "none" /\ Forgets(m) /\ NoNewReceipt)
<1>1. CASE RecoverJournal \/ BatchDone \/ ClaimUpdate \/ (\E m \in Message : Rot(m)) \/ UNCHANGED vars
           \/ \E n \in 0..MaxBatch : GetUpdates(n)
  BY <1>1 DEF RecoverJournal, BatchDone, ClaimUpdate, AtHead, Rot, vars, loop, GetUpdates, Quiet, NoNewReceipt
<1>2. CASE RecoverRefused \/ DispatchRefused
  BY <1>2, RefuseKinds DEF Refuses, Quiet, NoNewReceipt
<1>3. CASE Suppress \/ EndUnmanaged \/ DropMalformed \/ Defer
  BY <1>3, FinishKinds
<1>4. ASSUME NEW m \in Message, Settle(m)
      PROVE  Quiet \/ Finishes(m) \/ (receipt[m] # "none" /\ Forgets(m) /\ NoNewReceipt)
  <2>1. receipt[m] # "none" /\ Shape
    BY <1>4, SettleKinds DEF DInv, Shape
  <2>2. Answers(m) \/ receipt' = [receipt EXCEPT ![m] = "none"]
    BY <1>4, <2>1, SettleKinds
  <2>3. NoNewReceipt
    BY <2>1, <2>2 DEF Answers, NoNewReceipt, DInv, LoopType
  <2>4. CASE Answers(m)
    BY <2>3, <2>4 DEF Answers, Quiet
  <2>5. CASE Pops /\ pc = "running" /\ queue[1] = Entry(m, "managed")
    <3>1. Moves({})
      <4>1. ~ \E how \in Ways : Admit(how) \/ AskJournal(how)
        BY <2>5 DEF Admit, AskJournal, AtHead
      <4>2. [DeliveryNext]_vars
        OBVIOUS
      <4> QED BY <2>1, <4>1, <4>2, StepMoves DEF DInv, Answered
    <3>2. ~Waits(m) /\ m = queue[1].id
      BY <2>1, <2>5 DEF Order, Receipts, Entry
    <3> QED BY <2>3, <2>5, <3>1, <3>2 DEF Finishes, Moves
  <2> QED BY <1>4, <2>1, <2>3, <2>4, <2>5, SettleKinds
<1> QED BY <1>1, <1>2, <1>3, <1>4 DEF DeliveryNext, Progress, Relaunch, CrashRestart

\* The managed start: a claimed record becomes dispatched, and then the handler
\* of the head of the queue runs.
LEMMA StartFacts ==
  ASSUME DInv, StartManaged, NEW h, h = queue[1].id
  PROVE  /\ h \in Message /\ Waits(h) /\ status'[h] = "dispatched" /\ ~Waits(h)'
         /\ h < offset /\ h \notin Malformed /\ queue[1] = Entry(h, "managed")
         /\ started' = Append(started, Entry(h, "managed"))
         /\ Ran("managed")' = Ran("managed") \cup {h}
         /\ Ran("unmanaged")' = Ran("unmanaged")
         /\ Begun' = Begun \cup {h}
         /\ receipt' = [receipt EXCEPT ![h] = "awaited"]
         /\ pc = "claimed" /\ pc' = "running" /\ UNCHANGED <<queue, legacy, offset, offsetFile>>
<1>1. /\ queue # <<>> /\ Head(queue) = queue[1] /\ h \in Message /\ Len(queue) \in Nat \ {0}
      /\ queue[1] = Entry(h, "managed")
  BY QueueParts DEF StartManaged, DInv, Phases
<1>2. 1 \in 1..Len(queue)
  BY <1>1
<1>3. TypeOK /\ Filed /\ Poller \in Owner /\ "ok" \in Outcome
  BY DeliveryConstants DEF DInv, Ledger, Books, Answered, Outcome
<1>4. MarkDispatched(Poller, h, "ok")
  BY <1>1 DEF StartManaged
<1>5. Waits(h) /\ status'[h] = "dispatched"
  BY <1>1, <1>3, <1>4, CallMoves
<1>6. started' = Append(started, Entry(h, "managed")) /\ receipt' = [receipt EXCEPT ![h] = "awaited"]
  BY <1>1 DEF StartManaged
<1>7. /\ Ran("managed")' = Ran("managed") \cup {h}
      /\ \A way \in {"managed", "unmanaged"} \ {"managed"} : Ran(way)' = Ran(way)
      /\ Begun' = Begun \cup {h}
  BY <1>1, <1>6, Starts DEF DInv
<1>8. h < offset
  BY <1>2 DEF StartManaged, DInv, Phases, Live
<1> QED BY <1>1, <1>5, <1>6, <1>7, <1>8 DEF StartManaged, Waits

\* Time goes one way: what ran, what is excepted, what is damaged, the cursor.
LEMMA Onward ==
  ASSUME DInv, Order, [DeliveryNext]_vars
  PROVE  /\ Ran("managed") \subseteq Ran("managed")' /\ Ran("unmanaged") \subseteq Ran("unmanaged")'
         /\ \A m : Spent(m) => Spent(m)'
         /\ damaged \subseteq damaged' /\ offset <= offset' /\ Before'
         /\ ~StartManaged => Ran("managed")' = Ran("managed")
         /\ ~PersistLegacy => legacy' \subseteq legacy
         /\ (\E how \in Ways : Admit(how) \/ AskJournal(how)) \/ (Moves({}) /\ Stays)
<1>1. (\E how \in Ways : Admit(how) \/ AskJournal(how)) \/ (Moves({}) /\ Stays)
  BY StepMoves DEF DInv, Shape, Answered
<1>2. damaged \subseteq damaged'
  <2>1. ASSUME NEW how \in Ways, Admit(how)
        PROVE  damaged \subseteq damaged'
    <3>1. Head(batch) \in Message /\ Admission(Head(batch), how)
      BY <2>1, BatchParts DEF Admit, DInv
    <3> QED BY <3>1, AdmissionMoves DEF DInv, Answered, Moves
  <2>2. ASSUME NEW how \in Ways, AskJournal(how)
        PROVE  damaged \subseteq damaged'
    <3>1. Head(queue).id \in Message /\ (UNCHANGED jvars \/ Admission(Head(queue).id, how))
      BY <2>2, QueueParts DEF AskJournal, AtHead, DInv
    <3> QED BY <3>1, AdmissionMoves DEF DInv, Answered, Moves, jvars
  <2> QED BY <1>1, <2>1, <2>2 DEF Moves
<1>3. /\ \A how : Ran(how) \subseteq Ran(how)'
      /\ ~StartManaged => Ran("managed")' = Ran("managed")
      /\ offset <= offset' /\ Before'
  <2>0. offset \in Nat /\ Before /\ \A m \in Message : m \in Nat
    BY DeliveryConstants DEF DInv, LoopType, Order
  <2>1. ASSUME started' = started, offset <= offset', offset' \in Nat
        PROVE  Before' /\ \A how : Ran(how)' = Ran(how)
    <3>1. \A how : Ran(how)' = Ran(how)
      BY <2>1 DEF Ran
    <3>2. Begun' = Begun
      BY <2>1 DEF Begun, Ran
    <3> QED BY <2>0, <2>1, <3>1, <3>2 DEF Before, Begun, Ran
  <2>2. CASE \/ Quiet \/ PersistLegacy \/ \E how \in Ways : Admit(how) \/ AskJournal(how)
             \/ \E m \in Message : Finishes(m) \/ Forgets(m)
    <3>1. started' = started /\ offset' = offset
      BY <2>2 DEF Quiet, PersistLegacy, Admit, AskJournal, Finishes, Pops, Forgets
    <3> QED BY <2>0, <2>1, <3>1
  <2>3. CASE Launch
    BY <2>0, <2>1, <2>3 DEF Launch, DInv, LoopType
  <2>4. CASE RecoverInbound
    BY <2>0, <2>1, <2>4, RecoveryQueues DEF DInv, RecoverInbound
  <2>5. CASE SaveCursor
    <3>1. queue # <<>> /\ batch = <<>> /\ offset' = Last(queue).id + 1 /\ started' = started
      BY <2>5 DEF SaveCursor, DInv, Admitting
    <3>2. Len(queue) \in 1..Len(queue) /\ queue[Len(queue)] \in EntryType /\ Last(queue) = queue[Len(queue)]
      BY <3>1, QueueParts DEF DInv, LoopType, Last
    <3>3. offset <= Last(queue).id /\ Last(queue).id \in Message
      BY <2>5, <3>2 DEF SaveCursor, DInv, Admitting, EntryType
    <3> QED BY <2>0, <2>1, <3>1, <3>3
  <2>6. CASE StartUnmanaged
    <3>1. PICK h : h = queue[1].id
      OBVIOUS
    <3>2. /\ queue # <<>> /\ queue[1] = Entry(h, "unmanaged") /\ h \in Message /\ Len(queue) \in Nat \ {0}
          /\ started' = Append(started, Entry(h, "unmanaged")) /\ offset' = offset
      BY <2>6, <3>1, QueueParts DEF StartUnmanaged, AtHead, DInv
    <3>3. /\ Ran("unmanaged")' = Ran("unmanaged") \cup {h}
          /\ \A way \in {"managed", "unmanaged"} \ {"unmanaged"} : Ran(way)' = Ran(way)
          /\ Begun' = Begun \cup {h}
      BY <3>2, Starts DEF DInv
    <3>4. h < offset
      <4>1. 1 \in 1..Len(queue)
        BY <3>2
      <4> QED BY <2>6, <3>1, <4>1 DEF StartUnmanaged, AtHead, DInv, Phases, Live
    <3>5. \A how : Ran(how) \subseteq Ran(how)'
      <4>1. \A i \in DOMAIN started : i \in DOMAIN started' /\ started'[i] = started[i]
        BY <3>2 DEF DInv, LoopType
      <4> QED BY <4>1 DEF Ran, ToSet
    <3> QED BY <2>0, <3>2, <3>3, <3>4, <3>5 DEF Before
  <2>7. CASE StartManaged
    <3>1. PICK h : h = queue[1].id
      OBVIOUS
    <3>2. /\ h \in Message /\ h < offset /\ started' = Append(started, Entry(h, "managed"))
          /\ Begun' = Begun \cup {h} /\ offset' = offset
      BY <2>7, <3>1, StartFacts
    <3>3. \A how : Ran(how) \subseteq Ran(how)'
      <4>1. \A i \in DOMAIN started : i \in DOMAIN started' /\ started'[i] = started[i]
        BY <3>2 DEF DInv, LoopType
      <4> QED BY <4>1 DEF Ran, ToSet
    <3> QED BY <2>0, <2>7, <3>2, <3>3 DEF Before
  <2> QED BY <2>2, <2>3, <2>4, <2>5, <2>6, <2>7, OrderKinds
<1>4. ~PersistLegacy => legacy' \subseteq legacy
  BY OrderKinds
     DEF Admit, AskJournal, RecoverInbound, Launch, SaveCursor, StartUnmanaged, StartManaged, Quiet, Finishes,
         Pops, Forgets
<1> QED BY <1>1, <1>2, <1>3, <1>4 DEF Spent

\* Where an update of the queue stands.
LEMMA InQueue ==
  ASSUME LoopType, NEW m \in Ids(queue)
  PROVE  \E i \in 1..Len(queue) : queue[i].id = m
<1>1. PICK e \in ToSet(queue) : e.id = m
  BY DEF Ids
<1>2. PICK i \in DOMAIN queue : queue[i] = e
  BY DEF ToSet
<1> QED BY <1>1, <1>2 DEF LoopType

\* An update that is admitted is new to the journal and to the handlers.
LEMMA AdmitFacts ==
  ASSUME DInv, Order, NEW how \in Ways, Admit(how), NEW h, h = batch[1]
  PROVE  /\ h \in Message /\ Moves({h}) /\ offset <= h
         /\ h \notin Begun /\ ~Seen(h) /\ receipt[h] = "none"
         /\ how # "skip" /\ pc = "admit"
         /\ \A m \in legacy : offset <= m
         /\ \A i \in 1..Len(queue) : queue[i].id < h
         /\ h \in legacy \/ legacy = {}
         /\ UNCHANGED <<offset, offsetFile, legacy, started, receipt>>
         /\ \/ pc' = "refused" /\ queue' = queue
            \/ /\ pc' = "admit"
               /\ Len(queue') = Len(queue) + 1 /\ Len(queue) \in Nat
               /\ \A i \in 1..Len(queue) : queue'[i] = queue[i]
               /\ queue'[Len(queue) + 1].id = h /\ queue'[Len(queue) + 1].how = how
               /\ Ids(queue') = Ids(queue) \cup {h}
<1>1. /\ batch # <<>> /\ Head(batch) = h /\ h \in Message /\ Len(batch) \in Nat \ {0} /\ pc = "admit"
      /\ \A m \in Message : m \in Nat
  BY BatchParts, DeliveryConstants DEF Admit, DInv
<1>2. 1 \in 1..Len(batch) /\ Admission(h, how)
  BY <1>1 DEF Admit
<1>3. /\ Moves({h}) /\ (how = "skip" => mode # "shadow" /\ Seen(h))
  BY <1>1, <1>2, AdmissionMoves DEF DInv, Answered
<1>4. /\ offset <= h /\ \A i \in 1..Len(queue) : offset <= queue[i].id /\ queue[i].id < h
  BY <1>1, <1>2 DEF DInv, Admitting
<1>5. h \notin Begun
  BY <1>1, <1>4 DEF Order, Before, DInv, LoopType
<1>6. h \notin Ids(queue)
  <2> SUFFICES ASSUME h \in Ids(queue) PROVE FALSE
    OBVIOUS
  <2>1. PICK i \in 1..Len(queue) : queue[i].id = h
    BY InQueue DEF DInv
  <2> QED BY <1>1, <1>4, <2>1
<1>7. ~Seen(h)
  BY <1>1, <1>4, <1>6 DEF Order, Unseen, Live
<1>8. receipt[h] = "none"
  BY <1>1, <1>5 DEF DInv, Answered
<1>9. \A m \in legacy : offset <= m
  <2> SUFFICES ASSUME NEW m \in legacy PROVE offset <= m
    OBVIOUS
  <2>1. CASE m \in Ids(queue)
    <3>1. PICK i \in 1..Len(queue) : queue[i].id = m
      BY <2>1, InQueue DEF DInv
    <3> QED BY <1>4, <3>1
  <2> QED BY <1>1, <1>4, <2>1 DEF DInv, Admitting
<1>10. h \in legacy \/ legacy = {}
  BY <1>1, DeliveryConstants DEF Admit, DInv, LoopType, Admitting
<1>11. CASE how = "refused"
  BY <1>1, <1>3, <1>4, <1>5, <1>7, <1>8, <1>9, <1>10, <1>11 DEF Admit
<1>12. CASE how # "refused"
  <2>1. Entry(h, how) \in EntryType /\ Entry(h, how).id = h /\ Entry(h, how).how = how
    BY <1>1, <1>12 DEF Entry, EntryType, Ways
  <2>2. queue' = Append(queue, Entry(h, how)) /\ pc' = "admit"
    BY <1>1, <1>12 DEF Admit
  <2>3. /\ Len(queue') = Len(queue) + 1 /\ Len(queue) \in Nat
        /\ \A i \in 1..Len(queue) : queue'[i] = queue[i]
        /\ queue'[Len(queue) + 1] = Entry(h, how)
        /\ Ids(queue') = Ids(queue) \cup {h}
    BY <2>1, <2>2, QueueGrows DEF DInv
  <2> QED BY <1>1, <1>3, <1>4, <1>5, <1>7, <1>8, <1>9, <1>10, <2>1, <2>2, <2>3 DEF Admit
<1> QED BY <1>11, <1>12

\* A recovered legacy file whose update a managed handler was started for is not
\* admitted again: its record, unless it is damaged, is still there.
LEMMA AskFacts ==
  ASSUME DInv, Order, NEW how \in Ways, AskJournal(how), NEW h, h = queue[1].id
  PROVE  /\ h \in legacy /\ h \in Message /\ h < offset /\ queue # <<>> /\ Moves({h})
         /\ pc = "dispatch" /\ receipt[h] = "none" /\ Len(queue) \in Nat \ {0}
         /\ h \in Ran("managed") \ damaged => Moves({}) /\ Stays
         /\ (Moves({}) /\ Stays) \/ status[h] = "absent"
         /\ how = "skip" => ~Waits(h)'
         /\ UNCHANGED <<offset, offsetFile, legacy, started, receipt>>
         /\ \/ pc' = "refused" /\ queue' = queue
            \/ /\ pc' = "dispatch" /\ Len(queue') = Len(queue)
               /\ queue'[1].id = h /\ queue'[1].how = how
               /\ \A i \in 1..Len(queue) : i # 1 => queue'[i] = queue[i]
               /\ Ids(queue') = Ids(queue)
<1>1. /\ queue # <<>> /\ Head(queue) = queue[1] /\ h \in Message /\ Len(queue) \in Nat \ {0}
      /\ pc = "dispatch" /\ queue[1].how = "ask" /\ Filed
  BY QueueParts DEF AskJournal, AtHead, DInv, Answered
<1>2. 1 \in 1..Len(queue)
  BY <1>1
<1>3. h \in legacy /\ h < offset
  BY <1>1, <1>2 DEF Order, Rows, DInv, Phases, Live
<1>4. \/ UNCHANGED jvars /\ how # "skip"
      \/ status[h] \notin {"received", "corrupt"} /\ Admission(h, how)
  BY <1>1 DEF AskJournal
<1>5. /\ Moves({h}) /\ (how = "skip" => Seen(h) /\ Moves({}))
      /\ (Moves({}) /\ Stays) \/ status[h] = "absent"
  <2>1. CASE UNCHANGED jvars /\ how # "skip"
    BY <1>1, <2>1, SameMoves DEF jvars, Moves
  <2>2. CASE status[h] \notin {"received", "corrupt"} /\ Admission(h, how)
    BY <1>1, <2>2, AdmissionMoves DEF DInv, Seen
  <2> QED BY <1>4, <2>1, <2>2
<1>6. h \in Ran("managed") \ damaged => Moves({}) /\ Stays
  BY <1>3, <1>5 DEF Order, Over
<1>7. receipt[h] = "none"
  BY <1>1, <1>2 DEF Order, Receipts
<1>8. how = "skip" => ~Waits(h)'
  <2> SUFFICES ASSUME how = "skip" PROVE ~Waits(h)'
    OBVIOUS
  <2>1. status[h] # "claimed"
    BY <1>1 DEF Order, Claims, Live
  <2>2. ~Waits(h)
    BY <1>4, <2>1 DEF Waits
  <2> QED BY <1>1, <1>5, <2>2 DEF Moves
<1>9. CASE how = "refused"
  BY <1>1, <1>3, <1>5, <1>6, <1>7, <1>8, <1>9 DEF AskJournal
<1>10. CASE how # "refused"
  <2>1. how \in {"managed", "unmanaged", "skip"}
    BY <1>10 DEF Ways
  <2>2. queue' = [queue EXCEPT ![1].how = how] /\ pc' = "dispatch"
    BY <1>1, <1>10 DEF AskJournal
  <2>3. /\ Len(queue') = Len(queue) /\ queue'[1] = Entry(h, how)
        /\ \A i \in 1..Len(queue) : i # 1 => queue'[i] = queue[i]
        /\ Ids(queue') = Ids(queue)
    BY <1>1, <2>1, <2>2, AskedQueue DEF DInv
  <2>4. queue'[1].id = h /\ queue'[1].how = how
    BY <2>3 DEF Entry
  <2> QED BY <1>1, <1>3, <1>5, <1>6, <1>7, <1>8, <2>2, <2>3, <2>4 DEF AskJournal
<1> QED BY <1>9, <1>10

----------------------------------------------------------------------------
(* Each part of the order is kept.                                         *)

\* A legacy file is written only for an update from the cursor on.
LEMMA PersistFacts ==
  ASSUME DInv, Order, PersistLegacy, NEW h, h = batch[1]
  PROVE  /\ h \in Message /\ offset <= h /\ legacy' = legacy \cup {h} /\ mode = "shadow" /\ pc = "admit"
         /\ Moves({}) /\ Stays /\ Ids(queue) \subseteq legacy
         /\ \A i \in 1..Len(queue) : queue[i].id < h
         /\ UNCHANGED <<mode, pc, offset, offsetFile, batch, queue, receipt, started>>
<1>1. /\ batch # <<>> /\ Head(batch) = h /\ h \in Message /\ Len(batch) \in Nat \ {0} /\ pc = "admit"
  BY BatchParts DEF PersistLegacy, DInv
<1>2. 1 \in 1..Len(batch)
  BY <1>1
<1>3. Moves({}) /\ Stays
  BY SameMoves DEF PersistLegacy, jvars, DInv, Answered
<1>4. offset <= h /\ \A i \in 1..Len(queue) : queue[i].id < h
  BY <1>1, <1>2 DEF DInv, Admitting
<1> QED BY <1>1, <1>3, <1>4 DEF PersistLegacy, DInv, Admitting

\* A legacy file is written for an update after all that were started, and a
\* managed start is of the head of the queue, which no legacy file precedes.
LEMMA FilesNext ==
  ASSUME DInv, Order, [DeliveryNext]_vars
  PROVE  Files'
<1>1. \A m \in Message : m \in Nat
  BY DeliveryConstants
<1>2. CASE PersistLegacy
  <2>1. PICK h : h = batch[1]
    OBVIOUS
  <2>2. h \in Message /\ offset <= h /\ legacy' = legacy \cup {h} /\ Ran("managed")' = Ran("managed")
    BY <1>2, <2>1, PersistFacts DEF Ran
  <2>3. \A x \in Ran("managed") : x \in Message /\ x < offset
    BY DEF Ran, Begun, Order, Before
  <2> QED BY <1>1, <2>2, <2>3 DEF Files, Order, DInv, LoopType
<1>3. CASE StartManaged
  <2>1. PICK h : h = queue[1].id
    OBVIOUS
  <2>2. /\ h \in Message /\ legacy' = legacy /\ pc = "claimed"
        /\ Ran("managed")' = Ran("managed") \cup {h}
    BY <1>3, <2>1, StartFacts
  <2>3. ASSUME NEW m \in legacy
        PROVE  h <= m
    <3>1. PICK i \in 1..Len(queue) : queue[i].id = m
      BY <2>2, InQueue DEF DInv, Phases, Live
    <3>2. CASE i = 1
      BY <1>1, <2>1, <2>2, <3>1, <3>2
    <3>3. CASE i # 1
      <4>1. 1 \in 1..Len(queue) /\ 1 < i
        BY <3>1, <3>3 DEF DInv, LoopType
      <4>2. h < m
        BY <2>1, <3>1, <4>1 DEF Order, Rows
      <4> QED BY <1>1, <2>2, <2>3, <4>2 DEF DInv, LoopType
    <3> QED BY <3>2, <3>3
  <2> QED BY <2>2, <2>3 DEF Files, Order
<1>4. CASE ~PersistLegacy /\ ~StartManaged
  <2>1. Ran("managed")' = Ran("managed") /\ legacy' \subseteq legacy
    BY <1>4, Onward
  <2> QED BY <2>1 DEF Files, Order
<1> QED BY <1>2, <1>3, <1>4

\* The record of a started update goes only by eviction, for an admission whose
\* update comes after it: by then its legacy file is gone.
LEMMA OverNext ==
  ASSUME DInv, Order, [DeliveryNext]_vars
  PROVE  Over'
<1>1. \A m \in Message : m \in Nat
  BY DeliveryConstants
<1>2. \A x \in Ran("managed") : x \in Message /\ x < offset
  BY DEF Ran, Begun, Order, Before
<1>3. offset \in Nat /\ legacy \subseteq Message
  BY DEF DInv, LoopType
<1>4. CASE StartManaged
  <2>1. PICK h : h = queue[1].id
    OBVIOUS
  <2>2. /\ h \in Message /\ legacy' = legacy /\ status'[h] = "dispatched"
        /\ Ran("managed")' = Ran("managed") \cup {h}
    BY <1>4, <2>1, StartFacts
  <2>3. Moves({}) /\ Stays
    BY <1>4, Onward DEF StartManaged, Admit, AskJournal, AtHead
  <2>4. Past(h)' /\ status'[h] # "absent"
    BY <2>2 DEF Past
  <2> QED BY <1>2, <2>2, <2>3, <2>4 DEF Over, Order, Moves, Stays
<1> SUFFICES ASSUME ~StartManaged, NEW x \in Ran("managed"), x \notin damaged'
             PROVE  Past(x)' /\ (status'[x] = "absent" => x \notin legacy')
  BY <1>4, Onward DEF Over
<1>5. /\ x \in Message /\ x < offset /\ x \notin damaged
      /\ Past(x) /\ (status[x] = "absent" => x \notin legacy)
  BY <1>2, Onward DEF Order, Over
<1>6. ASSUME Moves({}), Stays
      PROVE  Past(x)' /\ (status'[x] = "absent" => x \notin legacy)
  BY <1>5, <1>6 DEF Moves, Stays
<1>7. CASE PersistLegacy
  <2>1. PICK h : h = batch[1]
    OBVIOUS
  <2>2. h \in Message /\ offset <= h /\ legacy' = legacy \cup {h} /\ Moves({}) /\ Stays
    BY <1>7, <2>1, PersistFacts
  <2> QED BY <1>1, <1>3, <1>5, <1>6, <2>2
<1>8. ASSUME NEW how \in Ways, Admit(how)
      PROVE  Past(x)' /\ (status'[x] = "absent" => x \notin legacy')
  <2>1. PICK h : h = batch[1]
    OBVIOUS
  <2>2. /\ h \in Message /\ offset <= h /\ Moves({h}) /\ legacy' = legacy
        /\ \A m \in legacy : offset <= m
    BY <1>8, <2>1, AdmitFacts
  <2>3. x # h /\ x \notin legacy
    BY <1>1, <1>3, <1>5, <2>2
  <2> QED BY <1>5, <2>2, <2>3 DEF Moves
<1>9. ASSUME NEW how \in Ways, AskJournal(how)
      PROVE  Past(x)' /\ (status'[x] = "absent" => x \notin legacy')
  <2>1. PICK h : h = queue[1].id
    OBVIOUS
  <2>2. /\ h \in legacy /\ h \in Message /\ pc = "dispatch" /\ Moves({h}) /\ legacy' = legacy
        /\ Len(queue) \in Nat \ {0}
        /\ (h \in Ran("managed") \ damaged => Moves({}) /\ Stays)
        /\ (Moves({}) /\ Stays) \/ status[h] = "absent"
    BY <1>9, <2>1, AskFacts
  <2>3. CASE Moves({}) /\ Stays
    BY <1>6, <2>2, <2>3
  <2>4. CASE ~(Moves({}) /\ Stays)
    <3>1. x # h
      BY <1>5, <2>2, <2>4
    <3>2. x \notin legacy
      <4> SUFFICES ASSUME x \in legacy PROVE FALSE
        OBVIOUS
      <4>1. x <= h
        BY <2>2 DEF Order, Files
      <4>2. PICK i \in 1..Len(queue) : queue[i].id = x
        BY <2>2, InQueue DEF DInv, Phases, Live
      <4>3. i # 1 /\ 1 \in 1..Len(queue) /\ 1 < i
        BY <2>1, <2>2, <3>1, <4>2
      <4>4. h < x
        BY <2>1, <4>2, <4>3 DEF Order, Rows
      <4> QED BY <1>1, <1>5, <2>2, <4>1, <4>4
    <3> QED BY <1>5, <2>2, <3>1, <3>2 DEF Moves
  <2> QED BY <2>3, <2>4
<1> QED BY <1>6, <1>7, <1>8, <1>9, Onward

\* What comes in is behind the cursor's back no more than a legacy file is: it
\* comes after what was started.
LEMMA InTurnNext ==
  ASSUME DInv, Order, [DeliveryNext]_vars
  PROVE  InTurn'
<1>1. \A m \in Message : m \in Nat
  BY DeliveryConstants
<1>2. \A x \in Ran("managed") : x \in Message /\ x < offset
  BY DEF Ran, Begun, Order, Before
<1>3. offset \in Nat
  BY DEF DInv, LoopType
<1> SUFFICES ASSUME NEW x \in Ran("managed")', x \notin damaged', NEW m \in Message, Waits(m)'
             PROVE  x < m \/ Spent(m)'
  BY DEF InTurn
<1>4. (Spent(m) => Spent(m)') /\ x \notin damaged
  BY Onward
<1>5. CASE x \in Ran("managed") /\ Waits(m)
  BY <1>4, <1>5 DEF Order, InTurn
<1>6. CASE StartManaged
  <2>1. PICK h : h = queue[1].id
    OBVIOUS
  <2>2. /\ h \in Message /\ ~Waits(h)' /\ pc = "claimed"
        /\ Ran("managed")' = Ran("managed") \cup {h}
    BY <1>6, <2>1, StartFacts
  <2>3. Moves({})
    BY <1>6, Onward DEF StartManaged, Admit, AskJournal, AtHead
  <2>4. Waits(m) /\ m # h
    BY <2>2, <2>3 DEF Moves
  <2>5. ASSUME x = h, ~Spent(m)
        PROVE  h < m
    <3>1. PICK i \in 1..Len(queue) : queue[i].id = m
      BY <2>2, <2>4, <2>5, InQueue DEF DInv, Order, Waiting, Live
    <3>2. 1 \in 1..Len(queue) /\ 1 < i
      BY <2>1, <2>4, <3>1 DEF DInv, LoopType
    <3> QED BY <2>1, <2>5, <3>1, <3>2 DEF Order, Rows
  <2> QED BY <1>4, <1>5, <2>2, <2>4, <2>5
<1>7. CASE ~StartManaged
  <2>1. x \in Ran("managed")
    BY <1>7, Onward
  <2>2. CASE Moves({})
    BY <1>5, <2>1, <2>2 DEF Moves
  <2>3. ASSUME NEW how \in Ways, Admit(how)
        PROVE  x < m \/ Spent(m)'
    <3>1. PICK h : h = batch[1]
      OBVIOUS
    <3>2. h \in Message /\ offset <= h /\ Moves({h})
      BY <2>3, <3>1, AdmitFacts
    <3>3. CASE m = h
      BY <1>1, <1>2, <1>3, <2>1, <3>2, <3>3
    <3> QED BY <1>5, <2>1, <3>2, <3>3 DEF Moves
  <2>4. ASSUME NEW how \in Ways, AskJournal(how)
        PROVE  x < m \/ Spent(m)'
    <3>1. PICK h : h = queue[1].id
      OBVIOUS
    <3>2. /\ h \in legacy /\ h \in Message /\ Moves({h})
          /\ (h \in Ran("managed") \ damaged => Moves({}))
      BY <2>4, <3>1, AskFacts
    <3>3. CASE m = h
      <4>1. x <= h
        BY <2>1, <3>2 DEF Order, Files
      <4>2. x # h \/ Waits(m)
        BY <1>4, <2>1, <3>2 DEF Moves
      <4> QED BY <1>1, <1>2, <1>5, <2>1, <3>2, <3>3, <4>1, <4>2
    <3> QED BY <1>5, <2>1, <3>2, <3>3 DEF Moves
  <2> QED BY <2>2, <2>3, <2>4, Onward
<1> QED BY <1>6, <1>7

\* A record waits without a legacy file only where there is none at all.
LEMMA LoneNext ==
  ASSUME DInv, Order, [DeliveryNext]_vars
  PROVE  Lone'
<1> SUFFICES ASSUME NEW m \in Message, m \notin legacy', Waits(m)'
             PROVE  Spent(m)' \/ legacy' = {}
  BY DEF Lone
<1>1. Spent(m) => Spent(m)'
  BY Onward
<1>2. CASE Waits(m) /\ m \notin legacy /\ legacy' \subseteq legacy
  BY <1>1, <1>2 DEF Order, Lone
<1>3. ASSUME NEW how \in Ways, Admit(how)
      PROVE  Spent(m)' \/ legacy' = {}
  <2>1. PICK h : h = batch[1]
    OBVIOUS
  <2>2. (h \in legacy \/ legacy = {}) /\ legacy' = legacy /\ Moves({h})
    BY <1>3, <2>1, AdmitFacts
  <2> QED BY <1>2, <2>2 DEF Moves
<1>4. ASSUME NEW how \in Ways, AskJournal(how)
      PROVE  Spent(m)' \/ legacy' = {}
  <2>1. PICK h : h = queue[1].id
    OBVIOUS
  <2>2. h \in legacy /\ legacy' = legacy /\ Moves({h})
    BY <1>4, <2>1, AskFacts
  <2> QED BY <1>2, <2>2 DEF Moves
<1>5. CASE PersistLegacy
  <2>1. PICK h : h = batch[1]
    OBVIOUS
  <2>2. legacy' = legacy \cup {h} /\ pc = "admit" /\ Moves({}) /\ Ids(queue) \subseteq legacy
    BY <1>5, <2>1, PersistFacts
  <2>3. Waits(m) /\ m \notin legacy
    BY <2>2 DEF Moves
  <2> QED BY <1>1, <2>2, <2>3 DEF Order, Waiting, Live
<1>6. ASSUME ~ \E how \in Ways : Admit(how) \/ AskJournal(how), ~PersistLegacy
      PROVE  Waits(m) /\ legacy' \subseteq legacy
  BY <1>6, Onward DEF Moves
<1>7. CASE RecoverInbound \/ Launch \/ SaveCursor \/ StartUnmanaged \/ StartManaged \/ Quiet
  <2>1. legacy' = legacy
    BY <1>7 DEF RecoverInbound, Launch, SaveCursor, StartUnmanaged, StartManaged, Quiet
  <2> QED BY <1>2, <1>3, <1>4, <1>5, <1>6, <2>1
<1>8. ASSUME NEW k \in Message, Finishes(k)
      PROVE  Spent(m)' \/ legacy' = {}
  <2>1. legacy' = legacy \ {k} /\ (Spent(k) \/ ~Waits(k)')
    BY <1>8 DEF Finishes, Pops
  <2>2. CASE m = k
    BY <1>1, <2>1, <2>2
  <2> QED BY <1>2, <1>3, <1>4, <1>5, <1>6, <2>1, <2>2
<1>9. ASSUME NEW k \in Message, receipt[k] # "none", Forgets(k)
      PROVE  Spent(m)' \/ legacy' = {}
  <2>1. legacy' = legacy \ {k} /\ ~Waits(k)
    BY <1>9 DEF Forgets, Order, Receipts
  <2> QED BY <1>2, <1>3, <1>4, <1>5, <1>6, <2>1
<1> QED BY <1>3, <1>4, <1>5, <1>7, <1>8, <1>9, OrderKinds

\* The ids of a queue are those of its entries.
LEMMA IdsOf ==
  ASSUME NEW s, NEW n \in Nat, DOMAIN s = 1..n
  PROVE  \A i \in 1..n : s[i].id \in Ids(s)
BY DEF Ids, ToSet

\* What waits is queued at a start, at its admission, and until it is done with.
LEMMA WaitingNext ==
  ASSUME DInv, Order, [DeliveryNext]_vars
  PROVE  Waiting'
<1> SUFFICES ASSUME pc' \in Live, NEW m \in Message, Waits(m)'
             PROVE  Spent(m)' \/ m \in Ids(queue')
  BY DEF Waiting
<1>1. Spent(m) => Spent(m)'
  BY Onward
<1>2. CASE pc \in Live /\ Waits(m) /\ Ids(queue) \subseteq Ids(queue')
  BY <1>1, <1>2 DEF Order, Waiting
<1>3. ASSUME NEW how \in Ways, Admit(how)
      PROVE  Spent(m)' \/ m \in Ids(queue')
  <2>1. PICK h : h = batch[1]
    OBVIOUS
  <2>2. Moves({h}) /\ pc = "admit" /\ Ids(queue') = Ids(queue) \cup {h}
    BY <1>3, <2>1, AdmitFacts DEF Live
  <2> QED BY <1>2, <2>2 DEF Moves, Live
<1>4. ASSUME NEW how \in Ways, AskJournal(how)
      PROVE  Spent(m)' \/ m \in Ids(queue')
  <2>1. PICK h : h = queue[1].id
    OBVIOUS
  <2>2. /\ Moves({h}) /\ pc = "dispatch" /\ Ids(queue') = Ids(queue) /\ h \in legacy
    BY <1>4, <2>1, AskFacts DEF Live
  <2>3. h \in Ids(queue)
    BY <2>2 DEF DInv, Phases, Live
  <2> QED BY <1>2, <2>2, <2>3 DEF Moves, Live
<1>5. ASSUME ~ \E how \in Ways : Admit(how) \/ AskJournal(how)
      PROVE  Waits(m)
  BY <1>5, Onward DEF Moves
<1>6. CASE Launch
  BY <1>6 DEF Launch, Live
<1>7. CASE RecoverInbound
  <2>1. Waits(m)
    BY <1>5, <1>7 DEF RecoverInbound, Admit, AskJournal, AtHead
  <2>2. status[m] # "claimed"
    BY <1>7 DEF RecoverInbound, RecoveryDone, Order, Scanned
  <2>3. m \in Replayable
    BY <2>1, <2>2 DEF Waits, Replayable
  <2>4. queue' \in Seq(EntryType) /\ \E i \in 1..Len(queue') : queue'[i].id = m
    BY <1>7, <2>3, RecoveryQueues DEF DInv
  <2>5. DOMAIN queue' = 1..Len(queue') /\ Len(queue') \in Nat
    BY <2>4
  <2> QED BY <2>4, <2>5, IdsOf
<1>8. CASE PersistLegacy \/ SaveCursor \/ StartUnmanaged \/ StartManaged \/ Quiet \/ \E k \in Message : Forgets(k)
  <2>1. queue' = queue /\ pc \in Live
    BY <1>8 DEF PersistLegacy, SaveCursor, StartUnmanaged, StartManaged, Quiet, Forgets, AtHead, Live
  <2> QED BY <1>2, <1>3, <1>4, <1>5, <2>1
<1>9. ASSUME NEW k \in Message, Finishes(k)
      PROVE  Spent(m)' \/ m \in Ids(queue')
  <2>1. /\ queue # <<>> /\ queue' = Tail(queue) /\ pc \in Live
        /\ k = queue[1].id /\ (Spent(k) \/ ~Waits(k)')
    BY <1>9 DEF Finishes, Pops, Live
  <2>2. Ids(queue) = Ids(queue') \cup {k}
    BY <2>1, QueueParts DEF DInv
  <2>3. CASE m = k
    BY <1>1, <2>1, <2>3
  <2>4. CASE m # k /\ Waits(m)
    BY <1>1, <2>1, <2>2, <2>4 DEF Order, Waiting
  <2> QED BY <1>3, <1>4, <1>5, <2>3, <2>4
<1> QED BY <1>3, <1>4, <1>6, <1>7, <1>8, <1>9, OrderKinds

\* A receipt belongs to a handler that was started, after its record moved on.
LEMMA ReceiptsNext ==
  ASSUME DInv, Order, [DeliveryNext]_vars
  PROVE  Receipts'
<1> SUFFICES ASSUME NEW m \in Message, receipt'[m] # "none"
             PROVE  /\ pc' # "recover" /\ ~Waits(m)'
                    /\ \A i \in 1..Len(queue') : queue'[i].id = m => pc' \in {"running", "refused"} /\ i = 1
  BY DEF Receipts
<1>1. ASSUME receipt[m] # "none"
      PROVE  /\ pc # "recover" /\ ~Waits(m)
             /\ \A i \in 1..Len(queue) : queue[i].id = m => pc \in {"running", "refused"} /\ i = 1
  BY <1>1 DEF Order, Receipts
<1>2. (\E how \in Ways : Admit(how) \/ AskJournal(how)) \/ Moves({})
  BY Onward
<1>3. CASE Launch \/ RecoverInbound
  BY <1>1, <1>3 DEF Launch, RecoverInbound, NoReceipts
<1>4. ASSUME NEW how \in Ways, Admit(how)
      PROVE  /\ pc' # "recover" /\ ~Waits(m)'
             /\ \A i \in 1..Len(queue') : queue'[i].id = m => pc' \in {"running", "refused"} /\ i = 1
  <2>1. PICK h : h = batch[1]
    OBVIOUS
  <2>2. /\ h \in Message /\ Moves({h}) /\ receipt[h] = "none" /\ pc = "admit" /\ receipt' = receipt
        /\ \/ pc' = "refused" /\ queue' = queue
           \/ /\ pc' = "admit" /\ Len(queue') = Len(queue) + 1 /\ Len(queue) \in Nat
              /\ \A i \in 1..Len(queue) : queue'[i] = queue[i]
              /\ queue'[Len(queue) + 1].id = h
    BY <1>4, <2>1, AdmitFacts
  <2>3. m # h /\ ~Waits(m)' /\ \A i \in 1..Len(queue) : queue[i].id # m
    BY <1>1, <2>2 DEF Moves
  <2>4. \A i \in 1..Len(queue') : queue'[i].id # m
    <3>1. CASE queue' = queue
      BY <2>3, <3>1
    <3>2. CASE Len(queue') = Len(queue) + 1 /\ Len(queue) \in Nat
      <4>1. \A i \in 1..Len(queue') : i \in 1..Len(queue) \/ i = Len(queue) + 1
        BY <3>2
      <4> QED BY <2>2, <2>3, <4>1
    <3> QED BY <2>2, <3>1, <3>2
  <2> QED BY <2>2, <2>3, <2>4
<1>5. ASSUME NEW how \in Ways, AskJournal(how)
      PROVE  /\ pc' # "recover" /\ ~Waits(m)'
             /\ \A i \in 1..Len(queue') : queue'[i].id = m => pc' \in {"running", "refused"} /\ i = 1
  <2>1. PICK h : h = queue[1].id
    OBVIOUS
  <2>2. /\ h \in Message /\ Moves({h}) /\ receipt[h] = "none" /\ pc = "dispatch" /\ receipt' = receipt
        /\ \/ pc' = "refused" /\ queue' = queue
           \/ /\ pc' = "dispatch" /\ Len(queue') = Len(queue)
              /\ queue'[1].id = h
              /\ \A i \in 1..Len(queue) : i # 1 => queue'[i] = queue[i]
    BY <1>5, <2>1, AskFacts
  <2>3. m # h /\ ~Waits(m)' /\ \A i \in 1..Len(queue) : queue[i].id # m
    BY <1>1, <2>2 DEF Moves
  <2>4. \A i \in 1..Len(queue') : queue'[i].id # m
    BY <2>2, <2>3
  <2> QED BY <2>2, <2>3, <2>4
<1>6. CASE PersistLegacy \/ SaveCursor \/ StartUnmanaged
  <2>1. /\ queue' = queue /\ receipt' = receipt /\ Moves({}) /\ pc \notin {"running", "refused"} /\ pc' # "recover"
    BY <1>2, <1>6 DEF PersistLegacy, SaveCursor, StartUnmanaged, AtHead, Admit, AskJournal
  <2> QED BY <1>1, <2>1 DEF Moves
<1>7. CASE StartManaged
  <2>1. PICK h : h = queue[1].id
    OBVIOUS
  <2>2. /\ h \in Message /\ ~Waits(h)' /\ receipt' = [receipt EXCEPT ![h] = "awaited"]
        /\ pc = "claimed" /\ pc' = "running" /\ queue' = queue
    BY <1>7, <2>1, StartFacts
  <2>3. Moves({})
    BY <1>2, <2>2 DEF Admit, AskJournal, AtHead
  <2>4. CASE m = h
    <3>1. \A i \in 1..Len(queue) : 1 < i => queue[1].id # queue[i].id
      BY DEF Order, Rows, DInv, LoopType
    <3>2. \A i \in 1..Len(queue) : queue[i].id = m => i = 1
      BY <2>1, <2>4, <3>1 DEF DInv, LoopType
    <3> QED BY <2>2, <2>4, <3>2
  <2>5. CASE m # h
    <3>1. receipt[m] # "none"
      BY <2>2, <2>5 DEF DInv, LoopType
    <3> QED BY <1>1, <2>2, <2>3, <3>1 DEF Moves
  <2> QED BY <2>4, <2>5
<1>8. CASE Quiet
  <2>1. /\ receipt[m] # "none" /\ queue' = queue /\ (pc' = pc \/ pc' = "refused" \/ pc \in {"dispatch", "poll"})
        /\ (pc \in {"dispatch", "poll"} => pc' # "recover")
    BY <1>8 DEF Quiet, NoNewReceipt
  <2> QED BY <1>1, <1>2, <1>4, <1>5, <2>1 DEF Moves
<1>9. ASSUME NEW k \in Message, Finishes(k)
      PROVE  /\ pc' # "recover" /\ ~Waits(m)'
             /\ \A i \in 1..Len(queue') : queue'[i].id = m => pc' \in {"running", "refused"} /\ i = 1
  <2>1. receipt[m] # "none" /\ queue # <<>> /\ queue' = Tail(queue) /\ pc' = "dispatch"
    BY <1>9 DEF Finishes, Pops, NoNewReceipt
  <2>2. /\ Len(queue) \in Nat \ {0} /\ Len(queue') = Len(queue) - 1
        /\ \A i \in 1..(Len(queue) - 1) : queue'[i] = queue[i + 1]
    BY <2>1, QueueParts DEF DInv
  <2>3. \A i \in 1..Len(queue') : i \in 1..(Len(queue) - 1) /\ i + 1 \in 1..Len(queue) /\ i + 1 # 1
    BY <2>2
  <2>4. \A i \in 1..Len(queue') : queue'[i].id # m
    BY <1>1, <2>1, <2>2, <2>3
  <2> QED BY <1>1, <1>2, <1>4, <1>5, <2>1, <2>4 DEF Moves
<1>10. ASSUME NEW k \in Message, Forgets(k), NoNewReceipt
       PROVE  /\ pc' # "recover" /\ ~Waits(m)'
              /\ \A i \in 1..Len(queue') : queue'[i].id = m => pc' \in {"running", "refused"} /\ i = 1
  <2>1. receipt[m] # "none" /\ queue' = queue /\ pc' = pc
    BY <1>10 DEF Forgets, NoNewReceipt
  <2> QED BY <1>1, <1>2, <1>4, <1>5, <2>1 DEF Moves
<1> QED BY <1>3, <1>4, <1>5, <1>6, <1>7, <1>8, <1>9, <1>10, OrderKinds

\* The cursor is ahead of every record but those of the batch being admitted.
LEMMA UnseenNext ==
  ASSUME DInv, Order, [DeliveryNext]_vars
  PROVE  Unseen'
<1>1. \A m \in Message : m \in Nat
  BY DeliveryConstants
<1>2. offset \in Nat /\ offset <= offset' /\ offset' \in Nat
  BY Onward, ShapeNext DEF DInv, LoopType, Shape, Answered
<1> SUFFICES ASSUME pc' \in Live, NEW m \in Message, m >= offset', Seen(m)'
             PROVE  pc' = "admit" /\ m \in Ids(queue')
  BY DEF Unseen
<1>3. m >= offset
  BY <1>1, <1>2
<1>4. ASSUME Seen(m), pc \in Live
      PROVE  pc = "admit" /\ m \in Ids(queue)
  BY <1>3, <1>4 DEF Order, Unseen
<1>5. (\E how \in Ways : Admit(how) \/ AskJournal(how)) \/ (Moves({}) /\ Seen(m))
  BY Onward DEF Moves
<1>6. ASSUME NEW how \in Ways, Admit(how)
      PROVE  pc' = "admit" /\ m \in Ids(queue')
  <2>1. PICK h : h = batch[1]
    OBVIOUS
  <2>2. /\ Moves({h}) /\ pc = "admit"
        /\ pc' = "refused" \/ (pc' = "admit" /\ Ids(queue') = Ids(queue) \cup {h})
    BY <1>6, <2>1, AdmitFacts
  <2> QED BY <1>4, <2>2 DEF Moves, Live
<1>7. ASSUME NEW how \in Ways, AskJournal(how)
      PROVE  FALSE
  <2>1. PICK h : h = queue[1].id
    OBVIOUS
  <2>2. Moves({h}) /\ pc = "dispatch" /\ h \in Message /\ h < offset
    BY <1>7, <2>1, AskFacts
  <2>3. m # h
    BY <1>1, <1>2, <1>3, <2>2
  <2> QED BY <1>4, <2>2, <2>3 DEF Moves, Live
<1>8. CASE Launch
  BY <1>8 DEF Launch, Live
<1>9. CASE RecoverInbound
  <2>1. Seen(m) /\ \A k \in Recovered : k < offset'
    BY <1>5, <1>6, <1>7, <1>9, RecoveryQueues DEF RecoverInbound, Admit, AskJournal, AtHead, DInv
  <2>2. m \notin Recovered
    BY <1>1, <1>2, <2>1
  <2>3. status[m] \notin {"claimed", "dispatched"}
    BY <1>9 DEF RecoverInbound, RecoveryDone, Order, Scanned
  <2>4. status[m] = "completed"
    BY <2>1, <2>2, <2>3
       DEF Seen, Recovered, Replayable, DInv, Ledger, Books, TypeOK, Status, Stored, Active
  <2>5. m \in Begun
    BY <2>4 DEF DInv, Ledger, Books, TombsAcked, Answered
  <2> QED BY <1>1, <1>2, <1>3, <2>5 DEF Order, Before
<1>10. CASE SaveCursor
  <2>1. queue # <<>> /\ offset' = Last(queue).id + 1 /\ pc = "admit"
    BY <1>10 DEF SaveCursor, DInv, Admitting
  <2>2. Len(queue) \in 1..Len(queue) /\ Last(queue) = queue[Len(queue)] /\ Len(queue) \in Nat
    BY <2>1, QueueParts DEF DInv, LoopType, Last
  <2>3. PICK i \in 1..Len(queue) : queue[i].id = m
    BY <1>4, <1>5, <2>1, <1>10, InQueue DEF SaveCursor, Admit, AskJournal, AtHead, Live, DInv
  <2>4. i = Len(queue) \/ queue[i].id < queue[Len(queue)].id
    BY <2>1, <2>2 DEF DInv, Admitting
  <2>5. queue[Len(queue)].id \in Nat
    <3>1. queue[Len(queue)] \in EntryType
      BY <2>2 DEF DInv, LoopType
    <3> QED BY <1>1, <3>1 DEF EntryType
  <2> QED BY <1>1, <2>1, <2>2, <2>3, <2>4, <2>5
<1>11. CASE PersistLegacy \/ Quiet
  <2>1. /\ queue' = queue /\ pc \in Live /\ (pc' = pc \/ pc \in {"dispatch", "poll"})
    BY <1>11 DEF PersistLegacy, Quiet, Live
  <2>2. Seen(m) => pc' = "admit" /\ m \in Ids(queue')
    BY <1>4, <2>1
  <2> QED BY <1>5, <1>6, <1>7, <2>2
<1>12. CASE StartUnmanaged \/ StartManaged \/ \E k \in Message : Finishes(k) \/ Forgets(k)
  <2>1. pc \in Live \ {"admit"}
    BY <1>12 DEF StartUnmanaged, StartManaged, Finishes, Pops, Forgets, AtHead, Live
  <2> QED BY <1>4, <1>5, <1>6, <1>7, <2>1
<1> QED BY <1>6, <1>7, <1>8, <1>9, <1>10, <1>11, <1>12, OrderKinds

\* The handler the loop runs is the head's, and it was started.
LEMMA RunningNext ==
  ASSUME DInv, Order, [DeliveryNext]_vars
  PROVE  Running'
<1> SUFFICES ASSUME pc' = "running"
             PROVE  \E how \in {"managed", "unmanaged"} : queue'[1].how = how /\ queue'[1].id \in Ran(how)'
  BY DEF Running
<1>1. CASE queue' = queue /\ pc = "running" /\ started' = started
  <2>1. \A how : Ran(how)' = Ran(how)
    BY <1>1 DEF Ran
  <2> QED BY <1>1, <2>1 DEF Order, Running
<1>2. CASE Launch \/ RecoverInbound \/ PersistLegacy \/ SaveCursor \/ \E m \in Message : Finishes(m)
  BY <1>2 DEF Launch, RecoverInbound, PersistLegacy, SaveCursor, Finishes, Pops
<1>3. CASE \E how \in Ways : Admit(how) \/ AskJournal(how)
  <2>1. PICK h, g : h = batch[1] /\ g = queue[1].id
    OBVIOUS
  <2> QED BY <1>3, <2>1, AdmitFacts, AskFacts
<1>4. CASE Quiet \/ \E m \in Message : Forgets(m)
  BY <1>1, <1>4 DEF Quiet, Forgets
<1>5. CASE StartUnmanaged
  <2>1. PICK h : h = queue[1].id
    OBVIOUS
  <2>2. /\ queue # <<>> /\ queue[1] = Entry(h, "unmanaged") /\ h \in Message
        /\ started' = Append(started, Entry(h, "unmanaged")) /\ queue' = queue
    BY <1>5, <2>1, QueueParts DEF StartUnmanaged, AtHead, DInv
  <2>3. Ran("unmanaged")' = Ran("unmanaged") \cup {h}
    BY <2>2, Starts DEF DInv
  <2>4. queue'[1].how = "unmanaged" /\ queue'[1].id = h
    BY <2>2 DEF Entry
  <2> QED BY <2>3, <2>4
<1>6. CASE StartManaged
  <2>1. PICK h : h = queue[1].id
    OBVIOUS
  <2>2. queue[1] = Entry(h, "managed") /\ queue' = queue /\ Ran("managed")' = Ran("managed") \cup {h}
    BY <1>6, <2>1, StartFacts
  <2>3. queue'[1].how = "managed" /\ queue'[1].id = h
    BY <2>2 DEF Entry
  <2> QED BY <2>2, <2>3
<1> QED BY <1>2, <1>3, <1>4, <1>5, <1>6, OrderKinds

\* Outside recovery a call of the journal does not change that recovery is over.
LEMMA ScannedNext ==
  ASSUME DInv, Order, [DeliveryNext]_vars
  PROVE  Scanned'
<1>1. TypeOK /\ Scanned
  BY DEF DInv, Ledger, Books, Order
<1>2. CASE UNCHANGED <<status, index, boot, scan>>
  BY <1>1, <1>2 DEF Scanned
<1>3. CASE boot' = "up" \/ index' = NoIndex
  BY <1>3 DEF Scanned
<1>4. ASSUME NEW m, NEW how, Admission(m, how)
      PROVE  boot' = "up"
  BY <1>4 DEF Admission, AdmitNew, AdmitDuplicate, AdmitRefused, EvictionFails, AdmitCorrupt
<1>5. CASE \E how \in Ways : Admit(how) \/ AskJournal(how)
  BY <1>2, <1>3, <1>4, <1>5 DEF Admit, AskJournal, jvars
<1>6. CASE RecoverIndex
  BY <1>1, <1>6 DEF RecoverIndex, Scanned, disk, FilesOf, Stored, Active
<1>7. ASSUME NEW m \in Message, NEW w \in Outcome, RecoverFile(m, w)
      PROVE  Scanned'
  <2>1. index' # NoIndex => w = "ok"
    BY <1>7 DEF RecoverFile, WriteRecord, Quarantine
  <2>2. CASE w = "ok"
    <3>1. scan' = scan \ {m} /\ boot = "recovering" /\ index # NoIndex
      BY <1>7 DEF RecoverFile
    <3>2. status'[m] \notin {"claimed", "dispatched"} /\ \A k \in Message \ {m} : status'[k] = status[k]
      BY <1>1, <1>7, <2>2 DEF RecoverFile, WriteRecord, Quarantine, TypeOK
    <3> QED BY <1>1, <3>1, <3>2 DEF Scanned
  <2> QED BY <1>3, <2>1, <2>2
<1>8. CASE RecoverJournal \/ RecoverRefused
  BY <1>2, <1>6, <1>7, <1>8 DEF RecoverJournal, RecoverRefused, jvars, Outcome
<1>9. CASE RecoverInbound \/ Launch
  BY <1>3, <1>9 DEF RecoverInbound, RecoveryDone, Launch, ProcessGone
<1>10. CASE PersistLegacy \/ SaveCursor \/ BatchDone \/ Suppress \/ StartUnmanaged \/ EndUnmanaged \/ Defer
           \/ (\E n \in 0..MaxBatch : GetUpdates(n)) \/ UNCHANGED vars
  BY <1>2, <1>10
     DEF PersistLegacy, SaveCursor, BatchDone, Suppress, StartUnmanaged, EndUnmanaged, Defer, GetUpdates, vars, jvars
<1>11. CASE ClaimUpdate \/ DispatchRefused \/ DropMalformed \/ StartManaged
  BY <1>2, <1>3, <1>11
     DEF ClaimUpdate, DispatchRefused, DropMalformed, StartManaged, Claim, MarkLost, MarkDispatched, HoldsClaim, jvars
<1>12. ASSUME NEW m \in Message, Settle(m)
       PROVE  Scanned'
  <2>1. \/ UNCHANGED jvars
        \/ HandlerAcks(Poller, m)
        \/ \E w \in Outcome : Complete(Poller, m, w, 1) \/ MarkOutcomeUnknown(Poller, m, w)
    BY <1>12, SettleKinds DEF DInv, Shape
  <2> QED BY <1>2, <1>3, <2>1 DEF jvars, HandlerAcks, Complete, MarkOutcomeUnknown, HoldsClaim
<1>13. ASSUME NEW m \in Message, Rot(m)
       PROVE  Scanned'
  <2>1. status' = [status EXCEPT ![m] = "corrupt"] /\ UNCHANGED <<index, boot, scan>>
    BY <1>13 DEF Rot, Damage
  <2> QED BY <1>1, <2>1 DEF Scanned, TypeOK
<1> QED BY <1>5, <1>8, <1>9, <1>10, <1>11, <1>12, <1>13 DEF DeliveryNext, Progress, Relaunch, CrashRestart

\* A write of another state makes no claim.
LEMMA WriteNoClaim ==
  ASSUME NEW m \in Message, NEW s, s # "claimed", NEW w, NEW st \in [Message -> Status], NEW ix,
         WriteRecord(m, s, w, st, ix)
  PROVE  \A k \in Message : status'[k] = "claimed" => st[k] = "claimed"
BY DEF WriteRecord

\* Admission claims nothing.
LEMMA AdmissionNoClaim ==
  ASSUME TypeOK, NEW m \in Message, status[m] # "claimed", NEW how, Admission(m, how)
  PROVE  \A k \in Message : status'[k] = "claimed" => status[k] = "claimed"
<1>1. status \in [Message -> Status] /\ "absent" \in Status
  BY DEF TypeOK, Status
<1>2. ASSUME NEW w, AdmitNew(m, w)
      PROVE  \A k \in Message : status'[k] = "claimed" => status[k] = "claimed"
  <2>1. CASE WriteRecord(m, "received", w, status, Indexed)
    BY <1>1, <2>1, WriteNoClaim
  <2>2. ASSUME NEW t, t \in OldestTombs(Indexed), NEW ix,
               WriteRecord(m, "received", w, [status EXCEPT ![t] = "absent"], ix)
        PROVE  \A k \in Message : status'[k] = "claimed" => status[k] = "claimed"
    <3> DEFINE st == [status EXCEPT ![t] = "absent"]
    <3>1. st \in [Message -> Status] /\ \A k \in Message : st[k] = "claimed" => status[k] = "claimed"
      BY <1>1
    <3> HIDE DEF st
    <3>2. WriteRecord(m, "received", w, st, ix)
      BY <2>2 DEF st
    <3> QED BY <3>1, <3>2, WriteNoClaim
  <2> QED BY <1>2, <2>1, <2>2 DEF AdmitNew
<1>3. ASSUME NEW w, AdmitDuplicate(m, w)
      PROVE  \A k \in Message : status'[k] = "claimed" => status[k] = "claimed"
  BY <1>1, <1>3, WriteNoClaim DEF AdmitDuplicate
<1>4. CASE AdmitRefused(m)
  BY <1>4 DEF AdmitRefused, disk
<1>5. ASSUME NEW gone \in BOOLEAN, EvictionFails(m, gone)
      PROVE  \A k \in Message : status'[k] = "claimed" => status[k] = "claimed"
  <2>1. PICK t \in OldestTombs(Indexed) :
          status' = IF gone THEN [status EXCEPT ![t] = "absent"] ELSE status
    BY <1>5 DEF EvictionFails
  <2> QED BY <1>1, <2>1
<1>6. ASSUME NEW w, AdmitCorrupt(m, w)
      PROVE  \A k \in Message : status'[k] = "claimed" => status[k] = "claimed"
  BY <1>1, <1>6 DEF AdmitCorrupt, Quarantine
<1> QED BY <1>2, <1>3, <1>4, <1>5, <1>6 DEF Admission

\* One claim at a time, of the head of the queue, and none after a recovery.
LEMMA ClaimsNext ==
  ASSUME DInv, Order, [DeliveryNext]_vars
  PROVE  Claims'
<1>1. TypeOK /\ Claims /\ status \in [Message -> Status]
  BY DEF DInv, Ledger, Books, Order, TypeOK
<1>2. CASE pc' \notin Live
  BY <1>2 DEF Claims
<1>3. ASSUME pc \in Live, pc # "claimed", \A k \in Message : status'[k] = "claimed" => status[k] = "claimed"
      PROVE  Claims'
  BY <1>1, <1>3 DEF Claims
<1>4. CASE pc' = pc /\ queue' = queue /\ \A k \in Message : status'[k] = "claimed" => status[k] = "claimed"
  BY <1>1, <1>4 DEF Claims
<1>5. ASSUME NEW how \in Ways, Admit(how)
      PROVE  Claims'
  <2>1. Head(batch) \in Message /\ Admission(Head(batch), how) /\ pc = "admit"
    BY <1>5, BatchParts DEF Admit, DInv
  <2>2. pc \in Live /\ status[Head(batch)] # "claimed"
    BY <1>1, <2>1 DEF Claims, Live
  <2> QED BY <1>1, <1>3, <2>1, <2>2, AdmissionNoClaim
<1>6. ASSUME NEW how \in Ways, AskJournal(how)
      PROVE  Claims'
  <2>1. Head(queue).id \in Message /\ (UNCHANGED jvars \/ Admission(Head(queue).id, how)) /\ pc = "dispatch"
    BY <1>6, QueueParts DEF AskJournal, AtHead, DInv
  <2>2. pc \in Live /\ status[Head(queue).id] # "claimed"
    BY <1>1, <2>1 DEF Claims, Live
  <2> QED BY <1>1, <1>3, <2>1, <2>2, AdmissionNoClaim DEF jvars
<1>7. CASE Launch \/ RecoverRefused \/ RecoverJournal \/ DispatchRefused
  BY <1>2, <1>7, RefuseKinds DEF Launch, Refuses, RecoverJournal, loop, Live
<1>8. CASE RecoverInbound
  BY <1>8 DEF RecoverInbound, RecoveryDone, disk, Order, Scanned, Claims
<1>9. CASE PersistLegacy \/ SaveCursor \/ BatchDone \/ Suppress \/ StartUnmanaged \/ EndUnmanaged \/ Defer
           \/ (\E n \in 0..MaxBatch : GetUpdates(n)) \/ UNCHANGED vars
  BY <1>3, <1>4, <1>9
     DEF PersistLegacy, SaveCursor, BatchDone, Suppress, StartUnmanaged, EndUnmanaged, Defer, GetUpdates, vars, jvars,
         loop, AtHead, Live
<1>10. CASE ClaimUpdate
  <2>1. /\ pc = "dispatch" /\ pc' = "claimed" /\ queue' = queue /\ queue # <<>> /\ Head(queue) = queue[1]
        /\ Claim(Poller, queue[1].id, "ok")
    BY <1>10, QueueParts DEF ClaimUpdate, AtHead, DInv
  <2>2. PICK h \in Message : h = queue[1].id
    BY <2>1, QueueParts DEF DInv
  <2>3. status' = [status EXCEPT ![h] = "claimed"]
    BY <2>1, <2>2 DEF Claim, WriteRecord
  <2> QED BY <1>1, <2>1, <2>2, <2>3 DEF Claims, Live
<1>11. CASE DropMalformed \/ StartManaged
  <2>1. /\ pc = "claimed" /\ queue # <<>> /\ Head(queue) = queue[1]
        /\ MarkLost(Poller, queue[1].id, "ok") \/ MarkDispatched(Poller, queue[1].id, "ok")
    BY <1>11, QueueParts DEF DropMalformed, StartManaged, Phases, DInv
  <2>2. PICK h \in Message : h = queue[1].id
    BY <2>1, QueueParts DEF DInv
  <2>3. status' = [status EXCEPT ![h] = "loss"] \/ status' = [status EXCEPT ![h] = "dispatched"]
    BY <2>1, <2>2 DEF MarkLost, MarkDispatched, WriteRecord
  <2>4. \A k \in Message : status'[k] # "claimed"
    BY <1>1, <2>1, <2>2, <2>3 DEF Claims, Live
  <2> QED BY <2>4 DEF Claims
<1>12. ASSUME NEW m \in Message, Settle(m)
       PROVE  Claims'
  <2>1. \/ UNCHANGED jvars
        \/ HandlerAcks(Poller, m)
        \/ \E w \in Outcome : Complete(Poller, m, w, 1) \/ MarkOutcomeUnknown(Poller, m, w)
    BY <1>12, SettleKinds DEF DInv, Shape
  <2>2. \A k \in Message : status'[k] = "claimed" => status[k] = "claimed"
    BY <1>1, <2>1, WriteNoClaim DEF jvars, HandlerAcks, disk, Complete, MarkOutcomeUnknown
  <2>3. pc \in {"dispatch", "running", "poll"}
    BY <1>12 DEF Settle, HandlerEnds, CompleteUpdate, CompleteThrows, OutcomeUnknown, Awaiting
  <2> QED BY <1>3, <2>2, <2>3 DEF Live
<1>13. ASSUME NEW m \in Message, Rot(m)
       PROVE  Claims'
  BY <1>1, <1>4, <1>13 DEF Rot, Damage, loop
<1> QED BY <1>5, <1>6, <1>7, <1>8, <1>9, <1>10, <1>11, <1>12, <1>13 DEF DeliveryNext, Progress, Relaunch, CrashRestart

\* The queue stays in order.
LEMMA RowsNext ==
  ASSUME DInv, Order, [DeliveryNext]_vars
  PROVE  Rows'
<1>1. /\ \A m : Spent(m) => Spent(m)'
      /\ (\E how \in Ways : Admit(how) \/ AskJournal(how)) \/ Moves({})
  BY Onward
<1>2. /\ \A i, j \in 1..Len(queue) : i < j =>
           /\ queue[i].id # queue[j].id
           /\ queue[j].id \in legacy => queue[i].id < queue[j].id
           /\ queue[i].id < queue[j].id \/ Spent(queue[j].id)
      /\ \A i \in 1..Len(queue) :
           /\ queue[i].how = "ask" => queue[i].id \in legacy
           /\ queue[i].how = "skip" => ~Waits(queue[i].id)
  BY DEF Order, Rows
<1>3. /\ \A i \in 1..Len(queue) : queue[i] \in EntryType /\ queue[i].id \in Message
      /\ Len(queue) \in Nat
  <2>1. Len(queue) \in Nat /\ \A i \in 1..Len(queue) : queue[i] \in EntryType
    BY DEF DInv, LoopType
  <2> QED BY <2>1 DEF EntryType
<1>4. ASSUME \A i, j \in 1..Len(queue') : i < j =>
               /\ queue'[i].id # queue'[j].id
               /\ queue'[j].id \in legacy' => queue'[i].id < queue'[j].id
               /\ \A m : m = queue'[j].id => queue'[i].id < m \/ Spent(m)',
             \A i \in 1..Len(queue') :
               /\ queue'[i].how = "ask" => queue'[i].id \in legacy'
               /\ \A m : m = queue'[i].id /\ queue'[i].how = "skip" => ~Waits(m)'
      PROVE  Rows'
  <2>1. \A i, j \in 1..Len(queue') : i < j => queue'[i].id < queue'[j].id \/ Spent(queue[j].id)'
    BY <1>4 DEF Spent
  <2>2. \A i \in 1..Len(queue') : queue'[i].how = "skip" => ~Waits(queue[i].id)'
    BY <1>4 DEF Waits
  <2> QED BY <1>4, <2>1, <2>2 DEF Rows
<1>5. ASSUME queue' = queue, Moves({}),
             \A i \in 1..Len(queue) : queue[i].id \in legacy' => queue[i].id \in legacy,
             \A i \in 1..Len(queue) : queue[i].how = "ask" /\ queue[i].id \in legacy => queue[i].id \in legacy'
      PROVE  Rows'
  BY <1>1, <1>2, <1>3, <1>4, <1>5 DEF Moves
<1>6. ASSUME NEW how \in Ways, Admit(how)
      PROVE  Rows'
  <2>1. PICK h : h = batch[1]
    OBVIOUS
  <2>2. /\ h \in Message /\ Moves({h}) /\ how # "skip" /\ legacy' = legacy
        /\ \A i \in 1..Len(queue) : queue[i].id < h
        /\ \/ queue' = queue
           \/ /\ Len(queue') = Len(queue) + 1
              /\ \A i \in 1..Len(queue) : queue'[i] = queue[i]
              /\ queue'[Len(queue) + 1].id = h /\ queue'[Len(queue) + 1].how = how
    BY <1>6, <2>1, AdmitFacts
  <2>3. h \in Nat /\ how # "ask" /\ \A i \in 1..Len(queue) : queue[i].id # h
    BY <2>2, DeliveryConstants DEF Ways
  <2>4. \A i \in 1..Len(queue) : \A m : m = queue[i].id /\ queue[i].how = "skip" => ~Waits(m)'
    BY <1>2, <1>3, <2>2, <2>3 DEF Moves
  <2>5. CASE queue' = queue
    BY <1>1, <1>2, <1>4, <2>2, <2>4, <2>5
  <2>6. CASE queue' # queue
    <3>1. \A i \in 1..Len(queue') : i \in 1..Len(queue) \/ i = Len(queue) + 1
      BY <1>3, <2>2, <2>6
    <3>2. ASSUME NEW i \in 1..Len(queue'), NEW j \in 1..Len(queue'), i < j
          PROVE  /\ queue'[i].id # queue'[j].id
                 /\ queue'[j].id \in legacy' => queue'[i].id < queue'[j].id
                 /\ \A m : m = queue'[j].id => queue'[i].id < m \/ Spent(m)'
      <4>1. i \in 1..Len(queue)
        BY <1>3, <2>2, <2>6, <3>2
      <4>2. CASE j \in 1..Len(queue)
        BY <1>1, <1>2, <2>2, <2>6, <3>2, <4>1, <4>2
      <4>3. CASE j = Len(queue) + 1
        BY <2>2, <2>3, <2>6, <4>1, <4>3
      <4> QED BY <3>1, <4>2, <4>3
    <3>3. \A i \in 1..Len(queue') :
            /\ queue'[i].how = "ask" => queue'[i].id \in legacy'
            /\ \A m : m = queue'[i].id /\ queue'[i].how = "skip" => ~Waits(m)'
      BY <1>2, <2>2, <2>3, <2>4, <2>6, <3>1
    <3> QED BY <1>4, <3>2, <3>3
  <2> QED BY <2>5, <2>6
<1>7. ASSUME NEW how \in Ways, AskJournal(how)
      PROVE  Rows'
  <2>1. PICK h : h = queue[1].id
    OBVIOUS
  <2>2. /\ h \in Message /\ Moves({h}) /\ legacy' = legacy /\ h \in legacy /\ Len(queue) \in Nat \ {0}
        /\ (how = "skip" => ~Waits(h)')
        /\ \/ pc' = "refused" /\ queue' = queue
           \/ /\ pc' = "dispatch" /\ Len(queue') = Len(queue)
              /\ queue'[1].id = h /\ queue'[1].how = how
              /\ \A i \in 1..Len(queue) : i # 1 => queue'[i] = queue[i]
    BY <1>7, <2>1, AskFacts
  <2>3. 1 \in 1..Len(queue) /\ \A i \in 1..Len(queue) : i # 1 => 1 < i /\ queue[i].id # h
    BY <1>2, <2>1, <2>2
  <2>4. /\ Len(queue') = Len(queue) /\ \A i \in 1..Len(queue) : queue'[i].id = queue[i].id
    BY <2>1, <2>2
  <2>5. \A i \in 1..Len(queue) : \A m : i # 1 /\ m = queue[i].id /\ queue[i].how = "skip" => ~Waits(m)'
    BY <1>2, <1>3, <2>2, <2>3 DEF Moves
  <2>6. queue[1].how # "skip"
    <3>1. queue[1].how = "ask"
      BY <1>7, <2>2, QueueParts DEF AskJournal, AtHead, DInv
    <3> QED BY <3>1
  <2>7. \A i \in 1..Len(queue') :
          /\ queue'[i].how = "ask" => queue'[i].id \in legacy'
          /\ \A m : m = queue'[i].id /\ queue'[i].how = "skip" => ~Waits(m)'
    BY <1>2, <2>1, <2>2, <2>3, <2>4, <2>5, <2>6
  <2>8. \A i, j \in 1..Len(queue') : i < j =>
          /\ queue'[i].id # queue'[j].id
          /\ queue'[j].id \in legacy' => queue'[i].id < queue'[j].id
          /\ \A m : m = queue'[j].id => queue'[i].id < m \/ Spent(m)'
    BY <1>1, <1>2, <2>2, <2>4
  <2> QED BY <1>4, <2>7, <2>8
<1>8. CASE Launch
  <2>1. 1..Len(queue') = {}
    BY <1>8 DEF Launch
  <2> QED BY <1>4, <2>1
<1>9. CASE SaveCursor \/ StartUnmanaged \/ StartManaged \/ Quiet
  <2>1. queue' = queue /\ legacy' = legacy
    BY <1>9 DEF SaveCursor, StartUnmanaged, StartManaged, Quiet
  <2> QED BY <1>1, <1>5, <1>6, <1>7, <2>1
<1>10. CASE PersistLegacy
  <2>1. PICK h : h = batch[1]
    OBVIOUS
  <2>2. /\ legacy' = legacy \cup {h} /\ Moves({}) /\ queue' = queue /\ h \in Nat
        /\ \A i \in 1..Len(queue) : queue[i].id < h
    BY <1>10, <2>1, PersistFacts, DeliveryConstants
  <2>3. \A i \in 1..Len(queue) : queue[i].id # h
    BY <2>2
  <2> QED BY <1>5, <2>2, <2>3
<1>11. ASSUME NEW k \in Message, receipt[k] # "none", Forgets(k)
       PROVE  Rows'
  <2>1. legacy' = legacy \ {k} /\ queue' = queue /\ pc # "refused"
    BY <1>11 DEF Forgets
  <2>2. ASSUME NEW i \in 1..Len(queue), queue[i].how = "ask", queue[i].id = k
        PROVE  FALSE
    <3>1. pc = "running" /\ i = 1
      BY <1>11, <2>1, <2>2 DEF Order, Receipts
    <3> QED BY <2>2, <3>1 DEF Order, Running
  <2> QED BY <1>1, <1>5, <1>6, <1>7, <2>1, <2>2
<1>12. ASSUME NEW k \in Message, Finishes(k), Moves({})
       PROVE  Rows'
  <2>1. queue # <<>> /\ queue' = Tail(queue) /\ k = queue[1].id /\ legacy' = legacy \ {k}
    BY <1>12 DEF Finishes, Pops
  <2>2. /\ Len(queue) \in Nat \ {0} /\ Len(queue') = Len(queue) - 1
        /\ \A i \in 1..(Len(queue) - 1) : queue'[i] = queue[i + 1]
    BY <2>1, QueueParts DEF DInv
  <2>3. /\ 1 \in 1..Len(queue)
        /\ \A i \in 1..Len(queue') :
             i + 1 \in 1..Len(queue) /\ 1 < i + 1 /\ queue'[i] = queue[i + 1]
        /\ \A i, j \in 1..Len(queue') : i < j => i + 1 < j + 1
    BY <2>2
  <2>4. \A i \in 1..Len(queue') : queue'[i].id # k /\ queue'[i].id \in Message
    BY <1>2, <1>3, <2>1, <2>3
  <2>5. \A i, j \in 1..Len(queue') : i < j =>
          /\ queue'[i].id # queue'[j].id
          /\ queue'[j].id \in legacy' => queue'[i].id < queue'[j].id
          /\ \A m : m = queue'[j].id => queue'[i].id < m \/ Spent(m)'
    <3> SUFFICES ASSUME NEW i \in 1..Len(queue'), NEW j \in 1..Len(queue'), i < j
                 PROVE  /\ queue'[i].id # queue'[j].id
                        /\ queue'[j].id \in legacy' => queue'[i].id < queue'[j].id
                        /\ \A m : m = queue'[j].id => queue'[i].id < m \/ Spent(m)'
      OBVIOUS
    <3> DEFINE p == i + 1  q == j + 1
    <3>1. p \in 1..Len(queue) /\ q \in 1..Len(queue) /\ p < q /\ queue'[i] = queue[p] /\ queue'[j] = queue[q]
      BY <2>3
    <3> HIDE DEF p, q
    <3>2. /\ queue[p].id # queue[q].id
          /\ queue[q].id \in legacy => queue[p].id < queue[q].id
          /\ queue[p].id < queue[q].id \/ Spent(queue[q].id)
      BY <1>2, <3>1
    <3> QED BY <1>1, <2>1, <3>1, <3>2
  <2>6. \A i \in 1..Len(queue') :
          /\ queue'[i].how = "ask" => queue'[i].id \in legacy'
          /\ \A m : m = queue'[i].id /\ queue'[i].how = "skip" => ~Waits(m)'
    BY <1>2, <1>12, <2>1, <2>3, <2>4 DEF Moves
  <2> QED BY <1>4, <2>5, <2>6
<1>13. CASE RecoverInbound
  <2>1. /\ queue' \in Seq(EntryType)
        /\ \A i \in 1..Len(queue') :
             \/ queue'[i].id \in legacy /\ queue'[i].how = "ask"
             \/ queue'[i].id \in Replayable \ legacy /\ queue'[i].how = "managed"
        /\ \A i, j \in 1..Len(queue') : i < j =>
             \/ queue'[i].id < queue'[j].id
             \/ queue'[i].id \in legacy /\ queue'[j].id \in Replayable \ legacy
        /\ legacy' = legacy
    BY <1>13, RecoveryQueues DEF DInv, RecoverInbound
  <2>2. \A i \in 1..Len(queue') : queue'[i] \in EntryType /\ queue'[i].id \in Nat
    <3>1. \A i \in 1..Len(queue') : queue'[i] \in EntryType
      BY <2>1
    <3> QED BY <3>1, DeliveryConstants DEF EntryType
  <2>3. \A m \in Replayable \ legacy : legacy = {} \/ Spent(m)
    BY DEF Replayable, Order, Lone, Waits
  <2>4. \A i, j \in 1..Len(queue') : i < j =>
          /\ queue'[i].id # queue'[j].id
          /\ queue'[j].id \in legacy' => queue'[i].id < queue'[j].id
          /\ \A m : m = queue'[j].id => queue'[i].id < m \/ Spent(m)'
    BY <1>1, <2>1, <2>2, <2>3
  <2>5. \A i \in 1..Len(queue') :
          /\ queue'[i].how = "ask" => queue'[i].id \in legacy'
          /\ \A m : m = queue'[i].id /\ queue'[i].how = "skip" => ~Waits(m)'
    BY <2>1
  <2> QED BY <1>4, <2>4, <2>5
<1> QED BY <1>1, <1>6, <1>7, <1>8, <1>9, <1>10, <1>11, <1>12, <1>13, OrderKinds

\* StartedInOrderOnce, by places in the history.
Once ==
  \A i, j \in 1..Len(started) :
    i < j /\ started[i].how = "managed" /\ started[j].how = "managed" /\ started[i].id \notin damaged
      => /\ started[i].id # started[j].id
         /\ \/ started[i].id < started[j].id
            \/ \E k \in 1..Len(started) : k < j /\ started[k] = Entry(started[j].id, "unmanaged")

\* A managed start comes after those before it.
LEMMA OnceNext ==
  ASSUME DInv, Order, Once, [DeliveryNext]_vars
  PROVE  Once'
<1>1. damaged \subseteq damaged'
  BY Onward
<1>2. /\ Len(started) \in Nat /\ DOMAIN started = 1..Len(started)
      /\ \A i \in 1..Len(started) : started[i].id \in Message /\ started[i] = Entry(started[i].id, started[i].how)
  <2>1. Len(started) \in Nat /\ DOMAIN started = 1..Len(started)
    BY DEF DInv, LoopType
  <2> DEFINE T == [id : Message, how : {"managed", "unmanaged"}]
  <2>2. started \in Seq(T)
    BY DEF DInv, LoopType
  <2>3. ASSUME NEW e \in T
        PROVE  e.id \in Message /\ e = Entry(e.id, e.how)
    BY DEF Entry
  <2> HIDE DEF T
  <2>4. \A i \in 1..Len(started) : started[i] \in T
    BY <2>2
  <2> QED BY <2>1, <2>3, <2>4
<1>3. CASE started' = started
  BY <1>1, <1>3 DEF Once
<1>4. ASSUME NEW e, started' = Append(started, e),
             \A i \in 1..Len(started) :
               started[i].how = "managed" /\ e.how = "managed" /\ started[i].id \notin damaged'
                 => /\ started[i].id # e.id
                    /\ \/ started[i].id < e.id
                       \/ \E k \in 1..Len(started) : started[k] = Entry(e.id, "unmanaged")
      PROVE  Once'
  <2>1. /\ Len(started') = Len(started) + 1 /\ started'[Len(started) + 1] = e
        /\ \A i \in 1..Len(started) : started'[i] = started[i]
    BY <1>2, <1>4 DEF DInv, LoopType
  <2> SUFFICES ASSUME NEW i \in 1..Len(started'), NEW j \in 1..Len(started'), i < j,
                      started'[i].how = "managed", started'[j].how = "managed", started'[i].id \notin damaged'
               PROVE  /\ started'[i].id # started'[j].id
                      /\ \/ started'[i].id < started'[j].id
                         \/ \E k \in 1..Len(started') : k < j /\ started'[k] = Entry(started'[j].id, "unmanaged")
    BY DEF Once, Entry
  <2>2. i \in 1..Len(started) /\ started'[i] = started[i] /\ \A k \in 1..Len(started) : k \in 1..Len(started')
    BY <1>2, <2>1
  <2>3. CASE j \in 1..Len(started)
    <3>1. started'[j] = started[j]
      BY <2>1, <2>3
    <3>2. /\ started[i].id # started[j].id
          /\ \/ started[i].id < started[j].id
             \/ \E k \in 1..Len(started) : k < j /\ started[k] = Entry(started[j].id, "unmanaged")
      BY <1>1, <2>2, <2>3, <3>1 DEF Once
    <3> QED BY <2>1, <2>2, <3>1, <3>2
  <2>4. CASE j = Len(started) + 1
    <3>1. started'[j] = e /\ \A k \in 1..Len(started) : k < j
      BY <1>2, <2>1, <2>4
    <3> QED BY <1>4, <2>1, <2>2, <3>1
  <2> QED BY <1>2, <2>1, <2>3, <2>4
<1>5. CASE StartUnmanaged
  <2>1. /\ queue # <<>> /\ Head(queue).how = "unmanaged" /\ started' = Append(started, Head(queue))
    BY <1>5 DEF StartUnmanaged, AtHead
  <2>2. PICK e : e = Head(queue)
    OBVIOUS
  <2>3. started' = Append(started, e) /\ e.how # "managed"
    BY <2>1, <2>2
  <2> QED BY <1>4, <2>3
<1>6. CASE StartManaged
  <2>1. PICK h : h = queue[1].id
    OBVIOUS
  <2>2. /\ h \in Message /\ Waits(h) /\ h \notin Malformed /\ started' = Append(started, Entry(h, "managed"))
    BY <1>6, <2>1, StartFacts
  <2>3. ASSUME NEW i \in 1..Len(started), started[i].how = "managed", started[i].id \notin damaged'
        PROVE  /\ started[i].id # h
               /\ \/ started[i].id < h
                  \/ \E k \in 1..Len(started) : started[k] = Entry(h, "unmanaged")
    <3>1. PICK x \in Message : x = started[i].id
      BY <1>2
    <3>2. started[i] = Entry(x, "managed")
      BY <1>2, <2>3, <3>1
    <3>3. x \in Ran("managed") \ damaged
      BY <1>1, <1>2, <2>3, <3>1, <3>2 DEF Ran, ToSet
    <3>4. x # h
      BY <2>2, <3>3 DEF Order, Over, Past, Waits
    <3>5. x < h \/ h \in Ran("unmanaged")
      BY <2>2, <3>3 DEF Order, InTurn, Spent
    <3>6. h \in Ran("unmanaged") => \E k \in 1..Len(started) : started[k] = Entry(h, "unmanaged")
      BY <1>2 DEF Ran, ToSet
    <3> QED BY <3>1, <3>4, <3>5, <3>6
  <2>4. PICK e : e = Entry(h, "managed")
    OBVIOUS
  <2>5. started' = Append(started, e) /\ e.id = h
    BY <2>2, <2>4 DEF Entry
  <2> QED BY <1>4, <2>3, <2>5
<1>7. CASE RecoverInbound \/ Launch \/ PersistLegacy \/ SaveCursor \/ Quiet
           \/ (\E how \in Ways : Admit(how) \/ AskJournal(how)) \/ \E m \in Message : Finishes(m) \/ Forgets(m)
  BY <1>3, <1>7
     DEF RecoverInbound, Launch, PersistLegacy, SaveCursor, Quiet, Admit, AskJournal, Finishes, Pops, Forgets
<1> QED BY <1>5, <1>6, <1>7, OrderKinds

\* The order holds in every reachable state.
LEMMA OrderInvariant == DeliverySpec => [](DInv /\ Order /\ Once)
<1>1. DeliveryInit => Order /\ Once
  <2> SUFFICES ASSUME DeliveryInit PROVE Order /\ Once
    OBVIOUS
  <2>1. /\ Init /\ pc = "recover" /\ queue = <<>> /\ legacy = {} /\ started = <<>> /\ receipt = NoReceipts
        /\ index = NoIndex /\ status = [m \in Message |-> "absent"]
    BY DEF DeliveryInit, Init
  <2>2. 1..Len(queue) = {} /\ 1..Len(started) = {} /\ \A how : Ran(how) = {}
    BY <2>1 DEF Ran, ToSet
  <2>3. Begun = {} /\ \A m \in Message : ~Waits(m) /\ receipt[m] = "none"
    BY <2>1, <2>2 DEF Begun, Waits, NoReceipts
  <2>4. Rows /\ Running /\ Before /\ Files /\ Over /\ InTurn /\ Lone
    BY <2>1, <2>2, <2>3 DEF Rows, Running, Before, Files, Over, InTurn, Lone
  <2>5. Waiting /\ Receipts /\ Unseen /\ Claims /\ Scanned
    BY <2>1, <2>2, <2>3 DEF Waiting, Receipts, Unseen, Claims, Scanned, Live
  <2> QED BY <2>2, <2>4, <2>5 DEF Order, Once
<1>2. DInv /\ Order /\ Once /\ [DeliveryNext]_vars => (Order /\ Once)'
  <2> SUFFICES ASSUME DInv, Order, Once, [DeliveryNext]_vars PROVE Order' /\ Once'
    OBVIOUS
  <2>1. Rows' /\ Running' /\ Before' /\ Files' /\ Over' /\ InTurn' /\ Lone'
    BY RowsNext, RunningNext, Onward, FilesNext, OverNext, InTurnNext, LoneNext
  <2>2. Waiting' /\ Receipts' /\ Unseen' /\ Claims' /\ Scanned'
    BY WaitingNext, ReceiptsNext, UnseenNext, ClaimsNext, ScannedNext
  <2> QED BY <2>1, <2>2, OnceNext DEF Order
<1> QED BY <1>1, <1>2, DeliveryInvariant, PTL DEF DeliverySpec

\* Handlers that the journal starts start in the order of the updates, and none
\* twice, across crashes, refused starts, failed writes and processes of either
\* mode.
THEOREM InOrderOnce == DeliverySpec => []StartedInOrderOnce
<1>1. DInv /\ Once => StartedInOrderOnce
  <2> SUFFICES ASSUME DInv, Once, NEW i \in DOMAIN started, NEW j \in DOMAIN started, i < j,
                      {started[i].how, started[j].how} = {"managed"}, started[i].id \notin damaged
               PROVE  /\ started[i].id # started[j].id
                      /\ \/ started[i].id < started[j].id
                         \/ [id |-> started[j].id, how |-> "unmanaged"] \in ToSet(SubSeq(started, 1, j - 1))
    BY DEF StartedInOrderOnce
  <2>1. /\ i \in 1..Len(started) /\ j \in 1..Len(started) /\ Len(started) \in Nat
        /\ started \in Seq([id : Message, how : {"managed", "unmanaged"}])
    BY DEF DInv, LoopType
  <2>2. /\ started[i].id # started[j].id
        /\ \/ started[i].id < started[j].id
           \/ \E k \in 1..Len(started) : k < j /\ started[k] = Entry(started[j].id, "unmanaged")
    <3>1. \A a, b : {a, b} = {"managed"} => a = "managed" /\ b = "managed"
      OBVIOUS
    <3>2. started[i].how = "managed" /\ started[j].how = "managed"
      BY <3>1
    <3> QED BY <2>1, <3>2 DEF Once
  <2>3. ASSUME NEW k \in 1..Len(started), k < j
        PROVE  started[k] \in ToSet(SubSeq(started, 1, j - 1))
    <3>1. Len(SubSeq(started, 1, j - 1)) = j - 1 /\ k \in 1..(j - 1)
      BY <2>1, <2>3
    <3>2. k \in DOMAIN SubSeq(started, 1, j - 1) /\ SubSeq(started, 1, j - 1)[k] = started[k]
      BY <2>1, <2>3, <3>1
    <3> QED BY <3>2 DEF ToSet
  <2> QED BY <2>2, <2>3 DEF Entry
<1> QED BY <1>1, OrderInvariant, PTL
=============================================================================
