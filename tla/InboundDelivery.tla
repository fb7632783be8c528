-------------------------- MODULE InboundDelivery --------------------------
(***************************************************************************)
(* The receiving half of the Telegram transport                            *)
(* (agent/channels/telegram/transport.ts) on top of the inbound journal:   *)
(* long poll, admission, the saved cursor, dispatch to the poller's        *)
(* handler, settlement of deferred receipts, and what a start recovers.    *)
(*                                                                         *)
(* The process dies at any point (CrashRestart, which also stands for a    *)
(* failed write of the cursor or of a legacy file) or because start()      *)
(* rejects (pc = "refused"); launchd starts it again, possibly with the    *)
(* other CTA_INBOUND_JOURNAL_MODE.                                         *)
(*                                                                         *)
(* A Message is a Telegram update_id.  Ids of one instance have the same   *)
(* number of digits, so that replayOrder's text comparison of ids received *)
(* in the same millisecond is the numeric one.                             *)
(***************************************************************************)
EXTENDS InboundJournal, SequencesExt

CONSTANTS
  Modes,      \* the modes a start may find in CTA_INBOUND_JOURNAL_MODE
  Malformed,  \* updates normalizeUpdate throws on
  Poller,     \* the one flow that uses the journal
  MaxBatch    \* bound: updates in one getUpdates answer

ASSUME DeliveryConstants ==
  /\ Message \subseteq Nat \ {0}
  /\ Modes \subseteq {"shadow", "enforced"}
  /\ Malformed \subseteq Message
  /\ Owner = {Poller}
  /\ MaxBatch \in Nat \ {0}

VARIABLES
  mode,       \* the journal mode of the running process
  pc,         \* what start() is doing
  offset,     \* start's offset
  offsetFile, \* the cursor on disk
  confirmed,  \* the highest offset Telegram was asked for: it drops lower ids
  batch,      \* updates of the last answer still to be admitted
  queue,      \* admitted or recovered updates still to be dispatched
  receipt,    \* receipt[m]: how far a started managed handler has come
  legacy,     \* updates with a file in the legacy inbox
  started     \* history: the queue entries passed to the handler, in order

loop == <<mode, pc, offset, offsetFile, confirmed, batch, queue, receipt, legacy, started>>
vars == <<jvars, loop>>

Ids(s) == {e.id : e \in ToSet(s)}
Entry(m, how) == [id |-> m, how |-> how]
NoReceipts == [m \in Message |-> "none"]

\* The elements of S in ascending order: each at its rank.
Ascending(S) ==
  [i \in 1..Cardinality(S) |-> CHOOSE m \in S : Cardinality({k \in S : k <= m}) = i]

----------------------------------------------------------------------------
(* Starting: readOffset, recoverInbound.                                   *)

\* The process starts, with the legacy inbox and the cursor as they are.
Launch ==
  /\ ProcessGone
  /\ mode' \in Modes
  /\ pc' = "recover"
  /\ offset' = offsetFile
  /\ batch' = <<>>
  /\ queue' = <<>>
  /\ receipt' = NoReceipts
  /\ UNCHANGED <<offsetFile, confirmed, legacy, started>>

CrashRestart == faults > 0 /\ faults' = faults - 1 /\ Launch

\* start() rejected; the process exited and launchd starts it again.
Relaunch == pc = "refused" /\ UNCHANGED faults /\ Launch

\* recoverAfterCrash, file by file.
RecoverJournal ==
  /\ pc = "recover"
  /\ RecoverIndex \/ \E m \in Message : RecoverFile(m, "ok")
  /\ UNCHANGED loop

\* recoverAfterCrash throws, in either mode: a directory is over its size, the
\* quarantine is full, or a write fails.
RecoverRefused ==
  /\ pc = "recover"
  /\ \/ /\ index = NoIndex
        /\ ~RecoveryMayStart
        /\ UNCHANGED jvars
     \/ /\ index # NoIndex
        /\ \E m \in scan : status[m] = "corrupt"
        /\ Len(quarantine) >= MaxQuarantine
        /\ UNCHANGED jvars
     \/ \E m \in Message, w \in {"lost", "kept"} : RecoverFile(m, w)
  /\ pc' = "refused"
  /\ UNCHANGED <<mode, offset, offsetFile, confirmed, batch, queue, receipt, legacy, started>>

\* The updates whose ids move the cursor past them at a start.
Recovered == legacy \cup Replayable \cup {m \in Message : status[m] \in {"loss", "unknown"}}

\* Faulty variant: the replayable records are not dispatched.
RecoverInboundNoReplay ==
  LET old == Ascending(legacy)
  IN  /\ pc = "recover"
      /\ RecoveryDone
      /\ offset' = IF Recovered = {} THEN offset
                   ELSE Max({offset} \cup {m + 1 : m \in Recovered})
      /\ offsetFile' = offset'
      /\ queue' = [i \in DOMAIN old |-> Entry(old[i], "ask")]
      /\ pc' = "dispatch"
      /\ UNCHANGED <<mode, confirmed, batch, receipt, legacy, started>>

\* The rest of recoverInbound up to its loops: save the cursor, then the legacy
\* files in ascending order, then the replayable records that have none.
RecoverInbound ==
  LET old == Ascending(legacy)
      new == Ascending(Replayable \ legacy)
  IN  /\ pc = "recover"
      /\ RecoveryDone
      /\ offset' = IF Recovered = {} THEN offset
                   ELSE Max({offset} \cup {m + 1 : m \in Recovered})
      /\ offsetFile' = offset'
      /\ queue' = [i \in DOMAIN old |-> Entry(old[i], "ask")]
                    \o [i \in DOMAIN new |-> Entry(new[i], "managed")]
      /\ pc' = "dispatch"
      /\ UNCHANGED <<mode, confirmed, batch, receipt, legacy, started>>

----------------------------------------------------------------------------
(* The poll loop: getUpdates, admission, the cursor.                       *)

\* Telegram drops what offset confirms and answers with the oldest updates
\* left (fewer when the others have not been sent yet).
GetUpdates(n) ==
  LET left == {m \in Message : m >= Max({confirmed, offset})}
  IN  /\ pc = "poll"
      /\ n \in 0..MaxBatch
      /\ n <= Cardinality(left)
      /\ confirmed' = Max({confirmed, offset})
      /\ batch' = SubSeq(Ascending(left), 1, n)
      /\ pc' = IF n = 0 THEN "poll" ELSE "admit"
      /\ UNCHANGED <<jvars, mode, offset, offsetFile, queue, receipt, legacy, started>>

\* In shadow mode the update's legacy file is written first.
PersistLegacy ==
  /\ pc = "admit"
  /\ mode = "shadow"
  /\ batch # <<>>
  /\ Head(batch) \notin legacy
  /\ legacy' = legacy \cup {Head(batch)}
  /\ UNCHANGED <<jvars, mode, pc, offset, offsetFile, confirmed, batch, queue, receipt, started>>

\* receive(m), and what dispatchJournaledUpdate is to do about its answer.
Admission(m, how) ==
  \/ how = "managed" /\ AdmitNew(m, "ok")
  \/ /\ how = IF mode = "shadow" THEN "unmanaged" ELSE "skip"
     /\ AdmitDuplicate(m, "ok")
  \/ /\ how = IF mode = "shadow" THEN "unmanaged" ELSE "refused"
     /\ \/ AdmitRefused(m)
        \/ \E gone \in BOOLEAN : EvictionFails(m, gone)
        \/ \E w \in {"lost", "kept"} : AdmitNew(m, w) \/ AdmitDuplicate(m, w)
        \/ \E w \in Outcome : AdmitCorrupt(m, w)

Admit(how) ==
  /\ pc = "admit"
  /\ batch # <<>>
  /\ mode = "shadow" => Head(batch) \in legacy
  /\ Admission(Head(batch), how)
  /\ IF how = "refused" THEN pc' = "refused" /\ UNCHANGED <<batch, queue>>
     ELSE /\ batch' = Tail(batch)
          /\ queue' = Append(queue, Entry(Head(batch), how))
          /\ UNCHANGED pc
  /\ UNCHANGED <<mode, offset, offsetFile, confirmed, receipt, legacy, started>>

\* Faulty variant: the cursor is saved before the batch is admitted.
SaveCursorFirst ==
  /\ pc = "admit"
  /\ IF batch # <<>> THEN offset' = Last(batch) + 1 /\ UNCHANGED pc
     ELSE UNCHANGED offset /\ pc' = "dispatch"
  /\ offsetFile' = offset'
  /\ UNCHANGED <<jvars, mode, confirmed, batch, queue, receipt, legacy, started>>

\* The whole batch is admitted: only now is the cursor moved past it.
SaveCursor ==
  /\ pc = "admit"
  /\ batch = <<>>
  /\ offset' = Last(queue).id + 1
  /\ offsetFile' = offset'
  /\ pc' = "dispatch"
  /\ UNCHANGED <<jvars, mode, confirmed, batch, queue, receipt, legacy, started>>

----------------------------------------------------------------------------
(* dispatchJournaledUpdate and dispatchManagedUpdate                       *)

AtHead(how) == pc = "dispatch" /\ queue # <<>> /\ Head(queue).how = how

BatchDone ==
  /\ pc = "dispatch"
  /\ queue = <<>>
  /\ pc' = "poll"
  /\ UNCHANGED <<jvars, mode, offset, offsetFile, confirmed, batch, queue, receipt, legacy, started>>

\* A recovered legacy file: its record is replayed if it is "received", else
\* the update goes through receive again.  An unreadable record throws.
AskJournal(how) ==
  /\ AtHead("ask")
  /\ LET m == Head(queue).id IN
       \/ status[m] = "received" /\ how = "managed" /\ UNCHANGED jvars
       \/ status[m] = "corrupt" /\ how = "refused" /\ UNCHANGED jvars
       \/ status[m] \notin {"received", "corrupt"} /\ Admission(m, how)
  /\ IF how = "refused" THEN pc' = "refused" /\ UNCHANGED queue
     ELSE queue' = [queue EXCEPT ![1].how = how] /\ UNCHANGED pc
  /\ UNCHANGED <<mode, offset, offsetFile, confirmed, batch, receipt, legacy, started>>

\* Faulty variant: a suppressed update keeps its legacy file.
SuppressKeepsFile ==
  /\ AtHead("skip")
  /\ queue' = Tail(queue)
  /\ UNCHANGED <<jvars, mode, pc, offset, offsetFile, confirmed, batch, receipt, legacy, started>>

\* A suppressed or held update: nothing but its legacy file is touched.
Suppress ==
  /\ AtHead("skip")
  /\ queue' = Tail(queue)
  /\ legacy' = legacy \ {Head(queue).id}
  /\ UNCHANGED <<jvars, mode, pc, offset, offsetFile, confirmed, batch, receipt, started>>

\* Shadow's duplicates and journal errors run the handler without the journal.
StartUnmanaged ==
  /\ AtHead("unmanaged")
  /\ Head(queue).id \notin Malformed
  /\ pc' = "running"
  /\ started' = Append(started, Head(queue))
  /\ UNCHANGED <<jvars, mode, offset, offsetFile, confirmed, batch, queue, receipt, legacy>>

\* Whether that handler returns, throws or defers, the file is removed; an
\* update normalizeUpdate throws on ends here too, having started nothing.
EndUnmanaged ==
  /\ \/ pc = "running" /\ Head(queue).how = "unmanaged"
     \/ AtHead("unmanaged") /\ Head(queue).id \in Malformed
  /\ pc' = "dispatch"
  /\ queue' = Tail(queue)
  /\ legacy' = legacy \ {Head(queue).id}
  /\ UNCHANGED <<jvars, mode, offset, offsetFile, confirmed, batch, receipt, started>>

ClaimUpdate ==
  /\ AtHead("managed")
  /\ Claim(Poller, Head(queue).id, "ok")
  /\ pc' = "claimed"
  /\ UNCHANGED <<mode, offset, offsetFile, confirmed, batch, queue, receipt, legacy, started>>

\* claim, markLost and markDispatched throw out of start(), in either mode.
DispatchRefused ==
  /\ \/ /\ AtHead("managed")
        /\ \/ \E w \in {"lost", "kept"} : Claim(Poller, Head(queue).id, w)
           \/ status[Head(queue).id] # "received" /\ UNCHANGED jvars
     \/ /\ pc = "claimed"
        /\ LET m == Head(queue).id IN
             \/ \E w \in {"lost", "kept"} :
                  IF m \in Malformed THEN MarkLost(Poller, m, w) ELSE MarkDispatched(Poller, m, w)
             \/ ~HoldsClaim(Poller, m, "claimed") /\ UNCHANGED jvars
  /\ pc' = "refused"
  /\ UNCHANGED <<mode, offset, offsetFile, confirmed, batch, queue, receipt, legacy, started>>

DropMalformed ==
  /\ pc = "claimed"
  /\ Head(queue).id \in Malformed
  /\ MarkLost(Poller, Head(queue).id, "ok")
  /\ pc' = "dispatch"
  /\ queue' = Tail(queue)
  /\ legacy' = legacy \ {Head(queue).id}
  /\ UNCHANGED <<mode, offset, offsetFile, confirmed, batch, receipt, started>>

\* Faulty variant: the handler is called before the point of no return is written.
StartManagedUnmarked ==
  /\ pc = "claimed"
  /\ Head(queue).id \notin Malformed
  /\ pc' = "running"
  /\ started' = Append(started, Head(queue))
  /\ UNCHANGED <<jvars, mode, offset, offsetFile, confirmed, batch, queue, receipt, legacy>>

\* The point of no return is on disk before the handler is called.
StartManaged ==
  /\ pc = "claimed"
  /\ Head(queue).id \notin Malformed
  /\ MarkDispatched(Poller, Head(queue).id, "ok")
  /\ pc' = "running"
  /\ started' = Append(started, Head(queue))
  /\ receipt' = [receipt EXCEPT ![Head(queue).id] = "awaited"]
  /\ UNCHANGED <<mode, offset, offsetFile, confirmed, batch, queue, legacy>>

\* The handler hands back a receipt: the loop moves on and the file goes.
Defer ==
  /\ pc = "running"
  /\ Head(queue).how = "managed"
  /\ receipt[Head(queue).id] = "awaited"
  /\ pc' = "dispatch"
  /\ queue' = Tail(queue)
  /\ receipt' = [receipt EXCEPT ![Head(queue).id] = "deferred"]
  /\ legacy' = legacy \ {Head(queue).id}
  /\ UNCHANGED <<jvars, mode, offset, offsetFile, confirmed, batch, started>>

----------------------------------------------------------------------------
(* Settlement.  The process does nothing else between two awaits, so these *)
(* interleave with the loop only where the loop awaits something.          *)

Awaiting == pc \in {"dispatch", "running", "poll"}

\* The handler, or the daemon's receipt, ends well or badly.
HandlerEnds(m, good) ==
  /\ Awaiting
  /\ receipt[m] \in {"awaited", "deferred"}
  /\ IF good THEN HandlerAcks(Poller, m) ELSE UNCHANGED jvars
  /\ receipt' = [receipt EXCEPT ![m] = IF good THEN "acked" ELSE "failed"]
  /\ UNCHANGED <<mode, pc, offset, offsetFile, confirmed, batch, queue, legacy, started>>

\* The finally clauses; a handler the loop awaited lets the loop go on.
Settled(m) ==
  /\ receipt' = [receipt EXCEPT ![m] = "none"]
  /\ legacy' = legacy \ {m}
  /\ IF pc = "running" /\ Head(queue) = Entry(m, "managed")
     THEN pc' = "dispatch" /\ queue' = Tail(queue)
     ELSE UNCHANGED <<pc, queue>>
  /\ UNCHANGED <<mode, offset, offsetFile, confirmed, batch, started>>

CompleteUpdate(m) ==
  /\ Awaiting
  /\ receipt[m] = "acked"
  /\ Complete(Poller, m, "ok", 1)
  /\ Settled(m)

\* complete throws: the catch clause turns to markOutcomeUnknown.
CompleteThrows(m) ==
  /\ Awaiting
  /\ receipt[m] = "acked"
  /\ \/ \E w \in {"lost", "kept"} : Complete(Poller, m, w, 1)
     \/ ~HoldsClaim(Poller, m, "dispatched") /\ UNCHANGED jvars
  /\ receipt' = [receipt EXCEPT ![m] = "failed"]
  /\ UNCHANGED <<mode, pc, offset, offsetFile, confirmed, batch, queue, legacy, started>>

\* markInboundOutcomeUnknown: its own failure is logged and swallowed.
OutcomeUnknown(m) ==
  /\ Awaiting
  /\ receipt[m] = "failed"
  /\ \/ \E w \in Outcome : MarkOutcomeUnknown(Poller, m, w)
     \/ ~HoldsClaim(Poller, m, "dispatched") /\ UNCHANGED jvars
  /\ Settled(m)

----------------------------------------------------------------------------
DeliveryInit ==
  /\ Init
  /\ mode \in Modes
  /\ pc = "recover"
  /\ offset = 0
  /\ offsetFile = 0
  /\ confirmed = 0
  /\ batch = <<>>
  /\ queue = <<>>
  /\ receipt = NoReceipts
  /\ legacy = {}
  /\ started = <<>>

Ways == {"managed", "unmanaged", "skip", "refused"}

\* What the event loop does by itself.
Progress ==
  \/ Relaunch
  \/ RecoverJournal \/ RecoverRefused \/ RecoverInbound
  \/ PersistLegacy
  \/ \E how \in Ways : Admit(how) \/ AskJournal(how)
  \/ SaveCursor \/ BatchDone
  \/ Suppress \/ StartUnmanaged \/ EndUnmanaged
  \/ ClaimUpdate \/ DispatchRefused \/ DropMalformed \/ StartManaged

Settle(m) ==
  \/ \E good \in BOOLEAN : HandlerEnds(m, good)
  \/ CompleteUpdate(m) \/ CompleteThrows(m) \/ OutcomeUnknown(m)

Rot(m) == Damage(m) /\ UNCHANGED loop

DeliveryNext ==
  \/ Progress
  \/ \E n \in 0..MaxBatch : GetUpdates(n)
  \/ Defer
  \/ \E m \in Message : Settle(m) \/ Rot(m)
  \/ CrashRestart

DeliverySpec == DeliveryInit /\ [][DeliveryNext]_vars

\* The event loop runs, launchd restarts the process, Telegram answers with what
\* it holds, and handlers and receipts end (the daemon's watchdogs see to it).
Fairness ==
  /\ WF_vars(Progress)
  /\ WF_vars(\E n \in 1..MaxBatch : GetUpdates(n))
  /\ \A m \in Message : WF_vars(Settle(m))

FairDeliverySpec == DeliverySpec /\ Fairness
----------------------------------------------------------------------------
(* Properties                                                              *)

\* Telegram forgets an update once a later offset was asked for.  By then the
\* update is in the journal, in the legacy inbox or in quarantine, or it has
\* been handed to the handler (or was logged and discarded as malformed): no
\* crash between receiving a batch and the end of its dispatch loses one ("Persisting work before the offset prevents a crash
\* from silently dropping an already-confirmed batch", transport.ts:213-215).
ConfirmedIsDurable ==
  \A m \in Message : m < confirmed =>
    \/ status[m] # "absent"
    \/ m \in legacy
    \/ m \in ToSet(quarantine)
    \/ m \in Ids(started)
    \/ m \in Malformed

\* Handlers that the journal starts start in the order of the updates and none
\* starts twice, across crashes, refused starts, failed writes and processes of
\* either mode: a legacy file left behind leads back to the record that is
\* already there.  Two things are excepted: an update whose record rotted and
\* was quarantined is new to the journal when its legacy file is met, and a
\* process in shadow mode may start out of order, once, from its record what
\* the legacy path had run.
StartedInOrderOnce ==
  \A i, j \in DOMAIN started :
    i < j /\ {started[i].how, started[j].how} = {"managed"} /\ started[i].id \notin damaged
      => /\ started[i].id # started[j].id
         /\ \/ started[i].id < started[j].id
            \/ [id |-> started[j].id, how |-> "unmanaged"] \in ToSet(SubSeq(started, 1, j - 1))

\* Whenever the loop is back at the long poll, the legacy inbox is empty: every
\* path through dispatch, in either mode, removes the file it answers for.
LegacyDrained == pc = "poll" => legacy = {}

\* Unless start after start fails closed, every update arrives and, with the
\* journal in charge, is settled for good: its record is completed, lost, of
\* unknown outcome or unreadable, or it is gone after the update was handled.
\* None stays received or claimed, and one stays dispatched only when its outcome
\* could not be written down (markInboundOutcomeUnknown swallows that; the next
\* start settles it).
EventuallySettled ==
  []<>(pc = "refused") \/
  \A m \in Message :
    <>[](\/ mode = "shadow"
         \/ status[m] \in {"completed", "loss", "unknown", "corrupt"}
         \/ status[m] = "dispatched" /\ receipt[m] = "none"
         \/ status[m] = "absent" /\ m \in known \cup Ids(started) \cup Malformed)

\* What types.ts:21-22 says of shadow mode: it "records the decision but never
\* blocks the legacy path".
ShadowNeverBlocks ==
  \A m \in Message : m \in legacy /\ mode = "shadow" ~> m \notin legacy
=============================================================================
