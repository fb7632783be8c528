-------------------------- MODULE InboundJournal ---------------------------
(***************************************************************************)
(* The durable inbound journal, agent/delivery/inbound/journal.ts.         *)
(*                                                                         *)
(* One file per upstream message, rewritten by temp-write, rename and      *)
(* directory fsync; an in-memory index of those files that decides         *)
(* capacity and eviction; a quarantine directory for files that no longer  *)
(* parse.  Every public method runs synchronously under the journal lock,  *)
(* so one method call is one action.  A call can still end in three ways:  *)
(*   "ok"    the rename happened and the method returned;                  *)
(*   "lost"  an I/O error before the rename: the file is unchanged and the *)
(*           method throws;                                                *)
(*   "kept"  an I/O error after the rename: the file is changed and the    *)
(*           method throws all the same.                                   *)
(* A process death inside a call leaves the disk as "lost" or "kept" does, *)
(* followed by Crash.                                                      *)
(*                                                                         *)
(* A file's status is its record's state field, with the two meanings of   *)
(* "uncertain" (failure.semantic) told apart as "loss" and "unknown".      *)
(***************************************************************************)
EXTENDS Naturals, Sequences, FiniteSets

CONSTANTS
  Message,        \* upstream message identities (Telegram update_id)
  Owner,          \* asynchronous flows of the process that use the journal
  MaxRecords,     \* maxRecords: record files kept at most
  MaxReplayBatch, \* maxReplayBatch: active records at most
  MaxQuarantine,  \* maxQuarantineRecords: quarantined files at most
  NoIndex,        \* the in-memory index is absent and must be rebuilt
  MaxClaims,      \* bound: claims granted in one behaviour
  MaxFaults       \* bound: I/O errors, damaged files and crashes

Active == {"received", "claimed", "dispatched", "loss", "unknown"}
Stored == Active \cup {"completed", "corrupt"}
Status == Stored \cup {"absent"}
Outcome == {"ok", "lost", "kept"}

\* The constructor (journal.ts:114-143) refuses any other sizes.
ASSUME JournalSizes ==
  /\ IsFiniteSet(Message)
  /\ MaxRecords \in Nat \ {0}
  /\ MaxReplayBatch \in Nat \ {0}
  /\ MaxReplayBatch <= MaxRecords
  /\ MaxQuarantine \in Nat \ {0}

ASSUME JournalBounds ==
  /\ MaxClaims \in Nat
  /\ MaxFaults \in Nat
  /\ NoIndex \notin [Message -> Status]

VARIABLES
  status,     \* status[m]: what the file of m holds
  token,      \* token[m]: the claim token last written to m's file, 0 if none
  lapsed,     \* messages whose claim's leaseUntil has passed
  doneAt,     \* doneAt[m]: completedAt of m's last completion, 0 if none
  clock,      \* the wall clock, as far as completedAt can tell it apart
  index,      \* the cached recordIndex, or NoIndex
  quarantine, \* the quarantined files, oldest first: the message of each
  boot,       \* "recovering" inside recoverAfterCrash, else "up"
  scan,       \* files recoverAfterCrash has still to visit
  held,       \* held[o][m]: the token flow o remembers for m, 0 if none
  issued,     \* tokens made so far
  ran,        \* history: the tokens under which m's handler was started
  acked,      \* history: messages whose handler returned normally
  known,      \* history: messages that have been stored at least once
  damaged,    \* history: messages whose file was ever damaged
  faults      \* faults left

disk == <<status, token, lapsed, doneAt, clock, quarantine>>
flows == <<held, issued, ran, acked>>
past == <<known, damaged>>
jvars == <<status, token, lapsed, doneAt, clock, index, quarantine, boot, scan,
           held, issued, ran, acked, known, damaged, faults>>

----------------------------------------------------------------------------
(* Reading the disk and the index.                                         *)

FilesOf(ix) == {m \in Message : ix[m] \in Stored}
ActiveOf(ix) == {m \in Message : ix[m] \in Active}
\* Faulty variant: any stored record counts as evictable.
TombsOfAny(ix) == {m \in Message : ix[m] \in Stored}
TombsOf(ix) == {m \in Message : ix[m] = "completed"}

\* ensureIndexLocked: the cached index, or the one a rebuild reads from disk
Indexed == IF index = NoIndex THEN status ELSE index

\* rebuildIndexLocked throws when a directory is over its configured size
Rebuildable == /\ Cardinality(FilesOf(status)) <= MaxRecords
               /\ Len(quarantine) <= MaxQuarantine

IndexReady == index # NoIndex \/ Rebuildable

\* Faulty variant: a failed write leaves the index as it was.
WriteRecordKeepsIndex(m, s, w, st, ix) ==
  /\ w # "ok" => faults > 0
  /\ faults' = IF w = "ok" THEN faults ELSE faults - 1
  /\ status' = IF w = "lost" THEN st ELSE [st EXCEPT ![m] = s]
  /\ index' = IF w # "ok" \/ ix = NoIndex THEN ix ELSE [ix EXCEPT ![m] = s]

\* writeRecord: atomicWrite, then updateIndexRecord or, on any error,
\* invalidateIndex.  st and ix are the disk and the index before the write.
WriteRecord(m, s, w, st, ix) ==
  /\ w # "ok" => faults > 0
  /\ faults' = IF w = "ok" THEN faults ELSE faults - 1
  /\ status' = IF w = "lost" THEN st ELSE [st EXCEPT ![m] = s]
  /\ index' = IF w # "ok" \/ ix = NoIndex THEN NoIndex ELSE [ix EXCEPT ![m] = s]

----------------------------------------------------------------------------
(* receive -> admitLocked                                                  *)

\* Faulty variant: the newest tombstone goes first.
NewestTombs(ix) ==
  {m \in TombsOf(ix) : \A n \in TombsOf(ix) : doneAt[m] >= doneAt[n]}

\* The completed records prepareNewRecordLocked may evict: oldest completedAt
\* first; equal timestamps are ordered by the hash of the message.
OldestTombs(ix) ==
  {m \in TombsOf(ix) : \A n \in TombsOf(ix) : doneAt[m] <= doneAt[n]}

\* A message without a record: capacity is made, then "received" is written.
AdmitNew(m, w) ==
  /\ boot = "up"
  /\ status[m] = "absent"
  /\ IndexReady
  /\ Cardinality(ActiveOf(Indexed)) < MaxReplayBatch
  /\ \/ /\ Cardinality(FilesOf(Indexed)) < MaxRecords
        /\ WriteRecord(m, "received", w, status, Indexed)
     \/ /\ Cardinality(FilesOf(Indexed)) >= MaxRecords
        /\ \E t \in OldestTombs(Indexed) :
             WriteRecord(m, "received", w, [status EXCEPT ![t] = "absent"],
                         [Indexed EXCEPT ![t] = "absent"])
  /\ known' = IF w = "lost" THEN known ELSE known \cup {m}
  /\ ran' = IF w = "lost" THEN ran ELSE [ran EXCEPT ![m] = <<>>]
  /\ acked' = IF w = "lost" THEN acked ELSE acked \ {m}
  /\ UNCHANGED <<token, lapsed, doneAt, clock, quarantine, boot, scan, held, issued, damaged>>

\* Capacity exhausted (or the index cannot be rebuilt): receive throws before
\* anything is written.  Only the index may have been rebuilt.
AdmitRefused(m) ==
  /\ boot = "up"
  /\ status[m] = "absent"
  /\ \/ ~IndexReady /\ UNCHANGED index
     \/ /\ IndexReady
        /\ \/ Cardinality(ActiveOf(Indexed)) >= MaxReplayBatch
           \/ Cardinality(FilesOf(Indexed)) >= MaxRecords /\ TombsOf(Indexed) = {}
        /\ index' = Indexed
  /\ UNCHANGED <<disk, flows, past, boot, scan, faults>>

\* The eviction's unlink or fsync fails: the index is dropped and receive throws.
EvictionFails(m, gone) ==
  /\ boot = "up"
  /\ status[m] = "absent"
  /\ IndexReady
  /\ faults > 0
  /\ Cardinality(ActiveOf(Indexed)) < MaxReplayBatch
  /\ Cardinality(FilesOf(Indexed)) >= MaxRecords
  /\ \E t \in OldestTombs(Indexed) :
       status' = IF gone THEN [status EXCEPT ![t] = "absent"] ELSE status
  /\ index' = NoIndex
  /\ faults' = faults - 1
  /\ UNCHANGED <<token, lapsed, doneAt, clock, quarantine, flows, past, boot, scan>>

\* A message with a readable record: only its duplicate counters are rewritten.
AdmitDuplicate(m, w) ==
  /\ boot = "up"
  /\ status[m] \in Stored \ {"corrupt"}
  /\ WriteRecord(m, status[m], w, status, index)
  /\ UNCHANGED <<token, lapsed, doneAt, clock, quarantine, flows, past, boot, scan>>

----------------------------------------------------------------------------
(* quarantineCorruptLocked                                                 *)

\* The file is renamed into quarantine and its issue sidecar written, unless the
\* quarantine is full or the rename fails.  "kept" is a sidecar that fails.
Quarantine(m, w) ==
  /\ status[m] = "corrupt"
  /\ \/ /\ Len(quarantine) >= MaxQuarantine
        /\ w = "ok"
        /\ UNCHANGED <<status, quarantine, index, faults>>
     \/ /\ Len(quarantine) < MaxQuarantine
        /\ w # "ok" => faults > 0
        /\ faults' = IF w = "ok" THEN faults ELSE faults - 1
        /\ status' = IF w = "lost" THEN status ELSE [status EXCEPT ![m] = "absent"]
        /\ quarantine' = IF w = "lost" THEN quarantine ELSE Append(quarantine, m)
        /\ index' = IF w # "ok" \/ index = NoIndex THEN NoIndex
                    ELSE [index EXCEPT ![m] = "absent"]

\* receive meets an unreadable record: quarantine it, then throw.
AdmitCorrupt(m, w) ==
  /\ boot = "up"
  /\ Quarantine(m, w)
  /\ UNCHANGED <<token, lapsed, doneAt, clock, flows, past, boot, scan>>

----------------------------------------------------------------------------
(* claim and the claim transitions                                         *)

\* An expired claim is released and taken over in the same write.
Claim(o, m, w) ==
  /\ boot = "up"
  /\ issued < MaxClaims
  /\ status[m] = "received" \/ (status[m] = "claimed" /\ m \in lapsed)
  /\ WriteRecord(m, "claimed", w, status, index)
  /\ issued' = issued + 1
  /\ token' = IF w = "lost" THEN token ELSE [token EXCEPT ![m] = issued + 1]
  /\ lapsed' = IF w = "lost" THEN lapsed ELSE lapsed \ {m}
  /\ held' = IF w = "ok" THEN [held EXCEPT ![o][m] = issued + 1] ELSE held
  /\ UNCHANGED <<doneAt, clock, quarantine, ran, acked, past, boot, scan>>

\* Faulty variant: any claim token will do.
HoldsAnyClaim(o, m, s) == boot = "up" /\ status[m] = s /\ held[o][m] # 0

\* requireClaimLocked: the state and the token must both match.
HoldsClaim(o, m, s) == /\ boot = "up"
                       /\ status[m] = s
                       /\ held[o][m] # 0
                       /\ held[o][m] = token[m]

ReleaseClaim(o, m, w) ==
  /\ HoldsClaim(o, m, "claimed")
  /\ WriteRecord(m, "received", w, status, index)
  /\ UNCHANGED <<token, lapsed, doneAt, clock, quarantine, flows, past, boot, scan>>

\* Only when markDispatched returns does the flow start the handler.
MarkDispatched(o, m, w) ==
  /\ HoldsClaim(o, m, "claimed")
  /\ WriteRecord(m, "dispatched", w, status, index)
  /\ ran' = IF w = "ok" THEN [ran EXCEPT ![m] = Append(@, held[o][m])] ELSE ran
  /\ UNCHANGED <<token, lapsed, doneAt, clock, quarantine, held, issued, acked, past, boot, scan>>

\* The handler the flow started returns normally (the positive acknowledgement).
HandlerAcks(o, m) ==
  /\ boot = "up"
  /\ held[o][m] # 0
  /\ \E i \in DOMAIN ran[m] : ran[m][i] = held[o][m]
  /\ m \notin acked
  /\ acked' = acked \cup {m}
  /\ UNCHANGED <<disk, index, boot, scan, held, issued, ran, past, faults>>

\* complete is called after the acknowledgement; d tells whether the clock's
\* completedAt differs from that of the completion before.
Complete(o, m, w, d) ==
  /\ HoldsClaim(o, m, "dispatched")
  /\ m \in acked
  /\ WriteRecord(m, "completed", w, status, index)
  /\ clock' = IF w = "lost" THEN clock ELSE clock + d
  /\ doneAt' = IF w = "lost" THEN doneAt ELSE [doneAt EXCEPT ![m] = clock + d]
  /\ UNCHANGED <<token, lapsed, quarantine, flows, past, boot, scan>>

MarkOutcomeUnknown(o, m, w) ==
  /\ HoldsClaim(o, m, "dispatched")
  /\ WriteRecord(m, "unknown", w, status, index)
  /\ UNCHANGED <<token, lapsed, doneAt, clock, quarantine, flows, past, boot, scan>>

MarkLost(o, m, w) ==
  /\ HoldsClaim(o, m, "claimed")
  /\ WriteRecord(m, "loss", w, status, index)
  /\ UNCHANGED <<token, lapsed, doneAt, clock, quarantine, flows, past, boot, scan>>

----------------------------------------------------------------------------
(* Process death and recoverAfterCrash                                     *)

\* Everything in memory is gone; recovery starts before any other call.
ProcessGone ==
  /\ held' = [o \in Owner |-> [m \in Message |-> 0]]
  /\ index' = NoIndex
  /\ boot' = "recovering"
  /\ scan' = FilesOf(status)
  /\ UNCHANGED <<disk, issued, ran, acked, past>>

Crash ==
  /\ faults > 0
  /\ faults' = faults - 1
  /\ ProcessGone

\* rebuildIndexLocked and requireReplayCapacityLocked, before the first file
RecoveryMayStart ==
  /\ Rebuildable
  /\ Cardinality(ActiveOf(status)) <= MaxReplayBatch

RecoverIndex ==
  /\ boot = "recovering"
  /\ index = NoIndex
  /\ RecoveryMayStart
  /\ index' = status
  /\ scan' = FilesOf(status)
  /\ UNCHANGED <<disk, flows, past, boot, faults>>

\* Faulty variant: dispatched work is put back for replay like claimed work.
RecoverFileReplaysAll(m, w) ==
  /\ boot = "recovering"
  /\ index # NoIndex
  /\ m \in scan
  /\ \/ /\ status[m] \in {"claimed", "dispatched"}
        /\ WriteRecord(m, "received", w, status, index)
        /\ UNCHANGED quarantine
     \/ /\ status[m] \in {"received", "completed", "loss", "unknown"}
        /\ w = "ok"
        /\ UNCHANGED <<status, index, quarantine, faults>>
  /\ scan' = scan \ {m}
  /\ UNCHANGED <<token, lapsed, doneAt, clock, flows, past, boot>>

\* One file of the scan.  An error throws out of recovery: the process dies and
\* recovery starts over (the index is gone, so RecoverIndex comes first again).
RecoverFile(m, w) ==
  /\ boot = "recovering"
  /\ index # NoIndex
  /\ m \in scan
  /\ \/ /\ status[m] = "claimed"
        /\ WriteRecord(m, "received", w, status, index)
        /\ UNCHANGED quarantine
     \/ /\ status[m] = "dispatched"
        /\ WriteRecord(m, "unknown", w, status, index)
        /\ UNCHANGED quarantine
     \/ /\ status[m] = "corrupt"
        /\ Len(quarantine) < MaxQuarantine
        /\ Quarantine(m, w)
     \/ /\ status[m] \in {"received", "completed", "loss", "unknown"}
        /\ w = "ok"
        /\ UNCHANGED <<status, index, quarantine, faults>>
  /\ scan' = scan \ {m}
  /\ UNCHANGED <<token, lapsed, doneAt, clock, flows, past, boot>>

\* The records left "received" are what recovery hands out for replay.
RecoveryDone ==
  /\ boot = "recovering"
  /\ index # NoIndex
  /\ scan = {}
  /\ boot' = "up"
  /\ UNCHANGED <<disk, index, scan, flows, past, faults>>

Replayable == {m \in Message : status[m] = "received"}

----------------------------------------------------------------------------
(* The environment: time passes, files rot.                                *)

LeaseLapses(m) ==
  /\ status[m] = "claimed"
  /\ m \notin lapsed
  /\ lapsed' = lapsed \cup {m}
  /\ UNCHANGED <<status, token, doneAt, clock, quarantine, index, flows, past, boot, scan, faults>>

Damage(m) ==
  /\ faults > 0
  /\ faults' = faults - 1
  /\ status[m] \in Stored \ {"corrupt"}
  /\ status' = [status EXCEPT ![m] = "corrupt"]
  /\ damaged' = damaged \cup {m}
  /\ UNCHANGED <<token, lapsed, doneAt, clock, quarantine, index, boot, scan, flows, known>>

----------------------------------------------------------------------------
Init ==
  /\ status = [m \in Message |-> "absent"]
  /\ token = [m \in Message |-> 0]
  /\ lapsed = {}
  /\ doneAt = [m \in Message |-> 0]
  /\ clock = 0
  /\ index = NoIndex
  /\ quarantine = <<>>
  /\ boot = "recovering"
  /\ scan = {}
  /\ held = [o \in Owner |-> [m \in Message |-> 0]]
  /\ issued = 0
  /\ ran = [m \in Message |-> <<>>]
  /\ acked = {}
  /\ known = {}
  /\ damaged = {}
  /\ faults = MaxFaults

Receive(m) ==
  \/ AdmitRefused(m)
  \/ \E gone \in BOOLEAN : EvictionFails(m, gone)
  \/ \E w \in Outcome : AdmitNew(m, w) \/ AdmitDuplicate(m, w) \/ AdmitCorrupt(m, w)

Lifecycle(o, m) ==
  \/ HandlerAcks(o, m)
  \/ \E w \in Outcome :
       \/ Claim(o, m, w)
       \/ ReleaseClaim(o, m, w)
       \/ MarkDispatched(o, m, w)
       \/ \E d \in {0, 1} : Complete(o, m, w, d)
       \/ MarkOutcomeUnknown(o, m, w)
       \/ MarkLost(o, m, w)

Recover ==
  \/ RecoverIndex
  \/ \E m \in Message, w \in Outcome : RecoverFile(m, w)
  \/ RecoveryDone

Next ==
  \/ \E m \in Message : Receive(m) \/ LeaseLapses(m) \/ Damage(m)
  \/ \E o \in Owner, m \in Message : Lifecycle(o, m)
  \/ Crash
  \/ Recover

Spec == Init /\ [][Next]_jvars
----------------------------------------------------------------------------
(* Properties                                                              *)

\* Every variable keeps its type: record files, claims and the index of
\* FileInboundJournal hold only values the code can write.
TypeOK ==
  /\ status \in [Message -> Status]
  /\ token \in [Message -> Nat]
  /\ lapsed \subseteq Message
  /\ doneAt \in [Message -> Nat]
  /\ clock \in Nat
  /\ index \in [Message -> Status] \cup {NoIndex}
  /\ quarantine \in Seq(Message)
  /\ Len(quarantine) <= MaxQuarantine
  /\ boot \in {"up", "recovering"}
  /\ scan \subseteq Message
  /\ held \in [Owner -> [Message -> Nat]]
  /\ issued \in 0..MaxClaims
  /\ ran \in [Message -> Seq(Nat)]
  /\ acked \subseteq Message
  /\ known \subseteq Message
  /\ damaged \subseteq Message
  /\ faults \in 0..MaxFaults

\* While a record exists its handler is started at most once, whatever claims
\* expire, calls fail half-way, processes die and recoveries repeat: the
\* "dispatched" write is a point of no return (types.ts:4-8).
DispatchedOnce == \A m \in Message : Len(ran[m]) <= 1

\* The flow that started the handler is the one that was granted the claim
\* last: a flow whose lease ran out and was taken over cannot start it
\* (requireClaimLocked compares tokens).
ClaimFenced == \A m \in Message : \A i \in DOMAIN ran[m] : ran[m][i] = token[m]

\* A record disappears from records/ only after its handler acknowledged it or
\* with its bytes kept in quarantine: active and uncertain records are never
\* evicted (INTEGRATION.md, Failure semantics and capacity).
NoSilentLoss ==
  \A m \in known : status[m] = "absent" => m \in acked \/ \E i \in DOMAIN quarantine : quarantine[i] = m

\* The cached index, when there is one, agrees with the disk, except for files
\* that rotted behind its back; capacity is decided from it.
IndexFaithful ==
  index # NoIndex =>
    \A m \in Message : index[m] = status[m] \/ status[m] = "corrupt"

\* recoverAfterCrash can always start: no sequence of half-failed writes and
\* evictions leaves more files than maxRecords, more active records than
\* maxReplayBatch or more quarantined files than maxQuarantineRecords, each of
\* which would make every later start fail closed.  Nor does the cached
\* index, which admission counts by, ever hide a file from it.
RecoveryNeverRefused == RecoveryMayStart /\ IndexFaithful

\* The deduplication window: a completed message is forgotten only once
\* maxRecords - maxReplayBatch other messages completed no earlier than it did
\* (or were damaged), because eviction takes the oldest tombstone and active
\* records cannot crowd the others out.
RecentCompletionsRemembered ==
  \A m \in Message :
    doneAt[m] > 0 /\ status[m] = "absent" /\ m \notin damaged =>
      Cardinality({n \in Message \ {m} : doneAt[n] >= doneAt[m] \/ n \in damaged})
        >= MaxRecords - MaxReplayBatch
=============================================================================
