------------------------------- MODULE Outbox -------------------------------
(***************************************************************************)
(* The durable outbound queue: PersistentOutbox (outbox.ts) on top of      *)
(* FileOutboxStore (store.ts), as makeOutboundQueue (transport-factory.ts) *)
(* runs it.                                                                *)
(*                                                                         *)
(* A record is a file in one of three directories: pending/ (queued,       *)
(* sending, retry_wait, uncertain), completed/ (delivered) and             *)
(* dead-letter/.  A save renames the file into its directory and only then *)
(* unlinks the copy elsewhere, so a death in between, or an unlink that    *)
(* fails, leaves a stale pending copy beside the terminal one.             *)
(*                                                                         *)
(* Two flows attempt sends: the caller of enqueue and the drain loop.      *)
(* Whatever a flow does between two awaits is synchronous in the code; it  *)
(* is split here only where the process may die in the middle.             *)
(***************************************************************************)
EXTENDS Naturals, SequencesExt, FiniteSetsExt

CONSTANTS
  Message,      \* messages, each with its own outbox id
  Modes,        \* the modes a start may find in CTA_OUTBOX_MODE
  MaxAttempts,  \* retry.maxAttempts
  MaxPending,   \* maxPendingRecords
  MaxCompleted, \* maxCompletedRecords
  MaxDead,      \* maxDeadLetterRecords
  MaxCalls,     \* bound: enqueue calls for one message (a repeated deliveryKey)
  MaxFaults     \* bound: failed writes, damaged files and crashes

ASSUME OutboxConstants ==
  /\ IsFiniteSet(Message)
  /\ Modes \subseteq {"shadow", "enforced"}
  /\ \A n \in {MaxAttempts, MaxPending, MaxCompleted, MaxDead} : n \in Nat \ {0}
  /\ MaxCalls \in Nat
  /\ MaxFaults \in Nat

VARIABLES
  pending,   \* pending[m]: the state of m's file in pending/, or "none"
  terminal,  \* terminal[s]: the messages with a file in s's directory, oldest first
  attempts,  \* attempts[m]: the attempts count of m's record
  waiting,   \* messages whose nextAttemptAt is still to come
  mode,      \* the outbox mode of the running process
  pc,        \* "start" until recoverInFlight has run, "up", or "down"
  draining,  \* whether a drain is under way
  todo,      \* records the drain has listed and not reached yet
  flight,    \* flight[f][m]: where flow f stands with m
  tries,     \* history: sends of m's record
  fallbacks, \* history: sends of m past the journal
  shown,     \* history: copies of m the chat shows
  calls,     \* enqueue calls made for m
  pruned,    \* history: messages whose terminal record was pruned
  damaged,   \* history: messages whose pending record was damaged
  faults     \* faults left

files == <<pending, terminal, attempts, waiting>>
memory == <<mode, pc, draining, todo, flight>>
history == <<tries, fallbacks, shown, calls, pruned, damaged>>
forgotten == pruned \cup damaged
vars == <<files, memory, history, faults>>

Flow == {"caller", "drain"}
Terminal == {"delivered", "dead_letter"}
Limit(s) == IF s = "delivered" THEN MaxCompleted ELSE MaxDead
Step == {"none", "begin", "sent", "direct", "delivered", "retry_wait", "dead_letter", "uncertain"}

----------------------------------------------------------------------------
(* FileOutboxStore                                                         *)

Files(s) == ToSet(terminal[s])
HasTerminal(m) == \E s \in Terminal : m \in Files(s)

\* get: a terminal copy wins over a pending one; an unreadable file is no record.
RecordState(m) ==
  IF m \in Files("delivered") THEN "delivered"
  ELSE IF m \in Files("dead_letter") THEN "dead_letter"
  ELSE IF pending[m] = "corrupt" THEN "none"
  ELSE pending[m]

\* Faulty variant: a pending copy is listed whatever its terminal copy says.
TidiedNot == [m \in Message |-> IF pending[m] = "corrupt" THEN "none" ELSE pending[m]]

\* listPending deletes stale pending copies and quarantines unreadable ones.
Tidied == [m \in Message |->
             IF HasTerminal(m) \/ pending[m] = "corrupt" THEN "none" ELSE pending[m]]

Fault(w) == /\ w # "ok" => faults > 0
            /\ faults' = IF w = "ok" THEN faults ELSE faults - 1

\* No room in pending/ for a file of m, should it have none.
PendingFull(m) == Cardinality({n \in Message \ {m} : pending[n] # "none"}) >= MaxPending

\* unlinkSync of m's file in a directory, where it need not exist.
Unlinked(seq, m) ==
  IF m \in ToSet(seq) THEN RemoveAt(seq, CHOOSE i \in DOMAIN seq : seq[i] = m) ELSE seq

\* save in a pending state: "ok", or "lost" (it throws before the rename).  A
\* message without a file anywhere needs room.
SavePending(m, s, w) ==
  /\ w \in {"ok", "lost"}
  /\ IF pending[m] = "none" /\ ~HasTerminal(m) /\ PendingFull(m)
     THEN w = "lost" /\ UNCHANGED faults
     ELSE Fault(w)
  /\ pending' = IF w = "ok" THEN [pending EXCEPT ![m] = s] ELSE pending
  /\ terminal' = IF w = "ok" THEN [t \in Terminal |-> Unlinked(terminal[t], m)] ELSE terminal

\* Faulty variant: one file too many is kept.
NewestOneMore(seq, n) ==
  IF Len(seq) <= n + 1 THEN seq ELSE SubSeq(seq, Len(seq) - n, Len(seq))

\* retainNewest: the oldest files go until n are left
Newest(seq, n) == IF Len(seq) <= n THEN seq ELSE SubSeq(seq, Len(seq) - n + 1, Len(seq))

\* save in a terminal state makes room first.  "lost" throws before anything is
\* done, "pruned" once room was made; after "stale" the pending copy is left.
SaveTerminal(m, s, w) ==
  LET room == IF m \in Files(s) THEN terminal[s] ELSE Newest(terminal[s], Limit(s) - 1)
  IN  /\ w \in {"ok", "lost", "pruned", "stale"}
      /\ Fault(w)
      /\ terminal' = [t \in Terminal |->
           IF t # s THEN IF w = "ok" THEN Unlinked(terminal[t], m) ELSE terminal[t]
           ELSE IF w = "lost" THEN terminal[s]
           ELSE IF w = "pruned" THEN room
           ELSE Append(Unlinked(room, m), m)]
      /\ pending' = IF w = "ok" THEN [pending EXCEPT ![m] = "none"] ELSE pending

Pruned == {m \in Message : \E s \in Terminal : m \in Files(s) /\ m \notin ToSet(terminal'[s])}

----------------------------------------------------------------------------
(* enqueue                                                                 *)

\* A flow's enqueue or attempt throws.  The caller's error becomes, in shadow
\* mode, one direct send; the drain's is an unhandled rejection, which ends the
\* drain and, depending on the runtime, the process.
Throws(f, m) ==
  IF f = "caller"
  THEN /\ IF mode = "shadow"
          THEN /\ flight' = [flight EXCEPT ![f][m] = "direct"]
               /\ fallbacks' = [fallbacks EXCEPT ![m] = @ + 1]
          ELSE flight' = [flight EXCEPT ![f][m] = "none"] /\ UNCHANGED fallbacks
       /\ UNCHANGED <<pc, draining, todo>>
  ELSE /\ flight' = [flight EXCEPT ![f][m] = "none"]
       /\ draining' = FALSE
       /\ todo' = {}
       /\ pc' \in {"up", "down"}
       /\ UNCHANGED fallbacks

Called(m) ==
  /\ pc = "up"
  /\ flight["caller"][m] = "none"
  /\ calls[m] < MaxCalls
  /\ calls' = [calls EXCEPT ![m] = @ + 1]

\* A known id: the earlier result is returned.
EnqueueKnown(m) ==
  /\ Called(m)
  /\ RecordState(m) # "none"
  /\ UNCHANGED <<files, memory, tries, fallbacks, shown, pruned, damaged, faults>>

\* A new record is persisted as "queued" before anything is sent (get has moved
\* an unreadable file out of the way).
EnqueueNew(m) ==
  /\ Called(m)
  /\ RecordState(m) = "none"
  /\ ~PendingFull(m)
  /\ SavePending(m, "queued", "ok")
  /\ attempts' = [attempts EXCEPT ![m] = 0]
  /\ waiting' = waiting \ {m}
  /\ flight' = [flight EXCEPT !["caller"][m] = "begin"]
  /\ UNCHANGED <<mode, pc, draining, todo, tries, fallbacks, shown, pruned, damaged>>

\* The queue is full or the first save fails: nothing was journaled.
EnqueueFails(m) ==
  /\ Called(m)
  /\ RecordState(m) = "none"
  /\ IF PendingFull(m) THEN UNCHANGED faults ELSE Fault("lost")
  /\ pending' = [pending EXCEPT ![m] = "none"]
  /\ Throws("caller", m)
  /\ UNCHANGED <<terminal, attempts, waiting, mode, tries, shown, pruned, damaged>>

----------------------------------------------------------------------------
(* attempt and handleFailure                                               *)

\* No await separates enqueue's two saves, so the drain never runs between them.
NoCallerHalfway == \A n \in Message : flight["caller"][n] # "begin"

\* The drain takes its records one at a time.
Turn(f, m) ==
  /\ pc = "up"
  /\ IF f = "caller" THEN flight[f][m] = "begin"
     ELSE /\ m \in todo
          /\ \A n \in Message : flight[f][n] = "none"
          /\ NoCallerHalfway

TurnTaken(f, m) == todo' = IF f = "drain" THEN todo \ {m} ELSE todo

Sendable(m) == /\ RecordState(m) \in {"queued", "retry_wait"}
               /\ RecordState(m) = "retry_wait" => m \notin waiting

\* The record is read again; "sending" is saved, and only then is it sent.
Attempt(f, m) ==
  /\ Turn(f, m)
  /\ TurnTaken(f, m)
  /\ Sendable(m)
  /\ SavePending(m, "sending", "ok")
  /\ attempts' = [attempts EXCEPT ![m] = @ + 1]
  /\ flight' = [flight EXCEPT ![f][m] = "sent"]
  /\ tries' = [tries EXCEPT ![m] = @ + 1]
  /\ UNCHANGED <<waiting, mode, pc, draining, fallbacks, shown, calls, pruned, damaged>>

\* Somebody else resolved it, is sending it, or it is not due: nothing to do.
AttemptSkips(f, m) ==
  /\ Turn(f, m)
  /\ TurnTaken(f, m)
  /\ ~Sendable(m)
  /\ RecordState(m) # "none"
  /\ flight' = [flight EXCEPT ![f][m] = "none"]
  /\ UNCHANGED <<files, mode, pc, draining, history, faults>>

\* The record has disappeared (get moves an unreadable file out of the way), or
\* "sending" cannot be saved.
AttemptThrows(f, m) ==
  /\ Turn(f, m)
  /\ \/ /\ RecordState(m) = "none"
        /\ pending' = [pending EXCEPT ![m] = "none"]
        /\ UNCHANGED <<terminal, faults>>
     \/ Sendable(m) /\ SavePending(m, "sending", "lost")
  /\ Throws(f, m)
  /\ UNCHANGED <<attempts, waiting, mode, tries, shown, calls, pruned, damaged>>

\* Faulty variant: one attempt too many.
RetryableOffByOne(m) == IF mode = "enforced" /\ attempts[m] <= MaxAttempts
                        THEN "retry_wait" ELSE "dead_letter"

\* 429 and 5xx: retried while attempts are left, never in shadow mode.
RetryableState(m) == IF mode = "enforced" /\ attempts[m] < MaxAttempts
                     THEN "retry_wait" ELSE "dead_letter"

\* Telegram answers, or does not: behind "uncertain" (a timeout, a reset, an
\* unreadable success) the message may have been posted.  That a 429, a 5xx or a
\* rejection means it was not is what the code assumes of Telegram.
Answer(f, m) ==
  /\ pc = "up"
  /\ flight[f][m] = "sent"
  /\ \E next \in {"delivered", RetryableState(m), "dead_letter", "uncertain"},
        posted \in {0, 1} :
       /\ next = "delivered" => posted = 1
       /\ next \in {"retry_wait", "dead_letter"} => posted = 0
       /\ shown' = [shown EXCEPT ![m] = @ + posted]
       /\ flight' = [flight EXCEPT ![f][m] = next]
  /\ UNCHANGED <<files, mode, pc, draining, todo, tries, fallbacks, calls, pruned, damaged, faults>>

\* The answer is saved, and the flow is done with the record.
SaveAnswer(f, m, w) ==
  /\ pc = "up"
  /\ w \in {"ok", "stale"}
  /\ LET s == flight[f][m] IN
       /\ s \in {"delivered", "retry_wait", "dead_letter", "uncertain"}
       /\ IF s \in Terminal THEN SaveTerminal(m, s, w) ELSE SavePending(m, s, w)
       /\ waiting' = IF s = "retry_wait" THEN waiting \cup {m} ELSE waiting
  /\ pruned' = pruned \cup Pruned
  /\ flight' = [flight EXCEPT ![f][m] = "none"]
  /\ UNCHANGED <<attempts, mode, pc, draining, todo, tries, fallbacks, shown, calls, damaged>>

\* A delivery that cannot be saved is caught and becomes "uncertain"; any other
\* failed save throws out of attempt, with the record still "sending".
SaveAnswerFails(f, m, w) ==
  /\ pc = "up"
  /\ w \in {"lost", "pruned"}
  /\ LET s == flight[f][m] IN
       /\ s \in {"delivered", "retry_wait", "dead_letter", "uncertain"}
       /\ IF s \in Terminal THEN SaveTerminal(m, s, w) ELSE SavePending(m, s, w)
       /\ IF s = "delivered"
          THEN /\ flight' = [flight EXCEPT ![f][m] = "uncertain"]
               /\ UNCHANGED <<pc, draining, todo, fallbacks>>
          ELSE Throws(f, m)
  /\ pruned' = pruned \cup Pruned
  /\ UNCHANGED <<attempts, waiting, mode, tries, shown, calls, damaged>>

\* The direct send of shadow mode, whatever becomes of it, leaves no record.
DirectAnswer(m) ==
  /\ pc = "up"
  /\ flight["caller"][m] = "direct"
  /\ \E posted \in {0, 1} : shown' = [shown EXCEPT ![m] = @ + posted]
  /\ flight' = [flight EXCEPT !["caller"][m] = "none"]
  /\ UNCHANGED <<files, mode, pc, draining, todo, tries, fallbacks, calls, pruned, damaged, faults>>

----------------------------------------------------------------------------
(* The drain loop, time, and process death                                 *)

\* Faulty variant: only retries are drained.
DueRetriesOnly(m) == pending[m] = "retry_wait" /\ m \notin waiting

Due(m) == pending[m] = "queued" \/ (pending[m] = "retry_wait" /\ m \notin waiting)

\* One drain at a time; it lists what is due once and then works it off.
DrainDue ==
  /\ pc = "up"
  /\ mode = "enforced"
  /\ ~draining
  /\ NoCallerHalfway
  /\ pending' = Tidied
  /\ todo' = {m \in Message : Tidied[m] # "none" /\ Due(m)}
  /\ draining' = TRUE
  /\ UNCHANGED <<terminal, attempts, waiting, mode, pc, flight, history, faults>>

DrainEnds ==
  /\ draining
  /\ todo = {}
  /\ \A m \in Message : flight["drain"][m] = "none"
  /\ draining' = FALSE
  /\ UNCHANGED <<files, mode, pc, todo, flight, history, faults>>

\* depth(), sampled by the poller, lists pending/ too.
Depth ==
  /\ pc = "up"
  /\ pending' = Tidied
  /\ UNCHANGED <<terminal, attempts, waiting, memory, history, faults>>

RetryComesDue(m) ==
  /\ m \in waiting
  /\ waiting' = waiting \ {m}
  /\ UNCHANGED <<pending, terminal, attempts, memory, history, faults>>

\* A file rots; bounded to records no flow is sending at the moment.
Damage(m) ==
  /\ faults > 0
  /\ \A f \in Flow : flight[f][m] = "none"
  /\ faults' = faults - 1
  /\ pending[m] \notin {"none", "corrupt"}
  /\ pending' = [pending EXCEPT ![m] = "corrupt"]
  /\ damaged' = damaged \cup {m}
  /\ UNCHANGED <<terminal, attempts, waiting, memory, tries, fallbacks, shown, calls, pruned>>

Crash ==
  /\ faults > 0
  /\ faults' = faults - 1
  /\ pc' = "down"
  /\ UNCHANGED <<files, mode, draining, todo, flight, history>>

\* makeOutboundQueue at process start: the store, then recoverInFlight's list.
Start ==
  /\ pc = "down"
  /\ pc' = "start"
  /\ mode' \in Modes
  /\ draining' = FALSE
  /\ todo' = {}
  /\ flight' = [f \in Flow |-> [m \in Message |-> "none"]]
  /\ pending' = Tidied
  /\ UNCHANGED <<terminal, attempts, waiting, history, faults>>

\* Faulty variant: an interrupted send is queued again.
RecoverOneRequeues(m, w) ==
  /\ pc = "start"
  /\ pending[m] = "sending"
  /\ SavePending(m, "queued", w)
  /\ pc' = IF w = "ok" THEN "start" ELSE "down"
  /\ UNCHANGED <<attempts, waiting, mode, draining, todo, flight, history>>

\* An interrupted send becomes "uncertain"; a failing save ends the start.
RecoverOne(m, w) ==
  /\ pc = "start"
  /\ pending[m] = "sending"
  /\ SavePending(m, "uncertain", w)
  /\ pc' = IF w = "ok" THEN "start" ELSE "down"
  /\ UNCHANGED <<attempts, waiting, mode, draining, todo, flight, history>>

Started ==
  /\ pc = "start"
  /\ \A m \in Message : pending[m] # "sending"
  /\ pc' = "up"
  /\ UNCHANGED <<files, mode, draining, todo, flight, history, faults>>

----------------------------------------------------------------------------
Init ==
  /\ pending = [m \in Message |-> "none"]
  /\ terminal = [s \in Terminal |-> <<>>]
  /\ attempts = [m \in Message |-> 0]
  /\ waiting = {}
  /\ mode \in Modes
  /\ pc = "start"
  /\ draining = FALSE
  /\ todo = {}
  /\ flight = [f \in Flow |-> [m \in Message |-> "none"]]
  /\ tries = [m \in Message |-> 0]
  /\ fallbacks = [m \in Message |-> 0]
  /\ shown = [m \in Message |-> 0]
  /\ calls = [m \in Message |-> 0]
  /\ pruned = {}
  /\ damaged = {}
  /\ faults = MaxFaults

Enqueue(m) == EnqueueKnown(m) \/ EnqueueNew(m) \/ EnqueueFails(m)

Sending(f, m) ==
  \/ Attempt(f, m) \/ AttemptSkips(f, m) \/ AttemptThrows(f, m)
  \/ Answer(f, m)
  \/ \E w \in {"ok", "stale", "lost", "pruned"} : SaveAnswer(f, m, w) \/ SaveAnswerFails(f, m, w)

Boot ==
  \/ Start
  \/ \E m \in Message, w \in {"ok", "lost"} : RecoverOne(m, w)
  \/ Started

Next ==
  \/ \E m \in Message : Enqueue(m) \/ DirectAnswer(m) \/ RetryComesDue(m) \/ Damage(m)
  \/ \E f \in Flow, m \in Message : Sending(f, m)
  \/ DrainDue \/ DrainEnds \/ Depth
  \/ Crash \/ Boot

Spec == Init /\ [][Next]_vars

\* Synchronous code runs on, requests end (the 15 s timeout), the 1 s timer
\* ticks, delays pass, and launchd restarts the process.
Fairness ==
  /\ \A f \in Flow, m \in Message : WF_vars(Sending(f, m))
  /\ \A m \in Message : WF_vars(DirectAnswer(m)) /\ WF_vars(RetryComesDue(m))
  /\ WF_vars(DrainDue) /\ WF_vars(DrainEnds)
  /\ WF_vars(Boot)

FairSpec == Spec /\ Fairness
----------------------------------------------------------------------------
(* Properties                                                              *)

\* Every variable keeps its type.
TypeOK ==
  /\ pending \in [Message -> {"none", "queued", "sending", "retry_wait", "uncertain", "corrupt"}]
  /\ DOMAIN terminal = Terminal
  /\ \A s \in Terminal : ToSet(terminal[s]) \subseteq Message /\ Len(terminal[s]) <= Limit(s)
  /\ attempts \in [Message -> 0..MaxAttempts]
  /\ waiting \subseteq Message
  /\ mode \in Modes
  /\ pc \in {"start", "up", "down"}
  /\ draining \in BOOLEAN
  /\ todo \subseteq Message
  /\ flight \in [Flow -> [Message -> Step]]
  /\ tries \in [Message -> Nat] /\ fallbacks \in [Message -> Nat]
  /\ shown \in [Message -> Nat] /\ calls \in [Message -> 0..MaxCalls]
  /\ pruned \cup damaged \subseteq Message
  /\ faults \in 0..MaxFaults

\* A message that was journaled is shown in the chat at most once, whatever
\* fails: no timeout, restart, stale copy, repeated enqueue or overlap of the
\* drain with a caller sends again what Telegram may already have posted
\* (INTEGRATION.md, Failure semantics).  Pruned and damaged records are no longer
\* known, and shadow mode's direct sends are not the queue's.
ShownAtMostOnce ==
  \A m \in Message : m \notin forgotten /\ fallbacks[m] = 0 => shown[m] <= 1

\* The limits hold across failures and restarts: a record is attempted at most
\* maxAttempts times (the attempt is counted on disk before the request), and
\* pending/ never outgrows maxPendingRecords, stale copies included; past that
\* every listing (each drain, start and depth sample) throws.
LimitsKept ==
  /\ \A m \in Message : m \notin forgotten => tries[m] <= MaxAttempts
  /\ Cardinality({m \in Message : pending[m] # "none"}) <= MaxPending

\* A resolved record stays resolved, as it is, until it is pruned: a stale copy
\* in pending/ never takes over from the terminal one (store.ts:250-251).
ResolvedForGood ==
  [][\A m \in Message : m \notin forgotten' =>
       /\ RecordState(m) \in Terminal \cup {"uncertain"} => RecordState(m)' = RecordState(m)]_vars

\* In a process that drains (enforced mode) no record waits for ever: what was
\* queued or put off is in the end delivered, given up or of unknown outcome.
\* (One whose outcome could not be saved stays "sending" until the next start.)
EventuallyResolved ==
  \A m \in Message : []<>(mode = "shadow" \/ RecordState(m) \notin {"queued", "retry_wait"})
=============================================================================
