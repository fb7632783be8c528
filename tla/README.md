# TLA+ verification of claude-telegram-agent

A Telegram bot process (the *poller*, `src/agent/poller/poller.ts`) receives
updates by long polling, hands each to a Claude subprocess per topic, and sends
the answers back through a durable outbox.  Beside the chat it starts *agentic*
runs, whose tool calls ask the paired user for consent, fires scheduled tasks
into them, and shares files with a command line tool.  launchd restarts the
poller when it exits.  The models here cover the parts that decide whether a
message is lost, handled twice or shown twice, whether a tool call runs without
consent, whether a task fires twice or never, and whether two processes spoil
each other's files or session.

Run, from this directory: `tlc -config <cfg> <module>` for the runs in
`PROJECT.json`, and `tlapm <module>` for each of `InboundJournalProofs`,
`JournalLockProofs`, `OutboxProofs`, `DaemonRegistryProofs`,
`ApprovalGateProofs`, `TaskSchedulerProofs`, `MountStoreProofs` and
`ReleaseHandoffProofs` (the registry's takes eight minutes, the inbound one six,
the others one or two).

## 1. Inventory

| Part | Source (`src/`) | State it keeps | Operations | Hard because | Correct when |
|---|---|---|---|---|---|
| Inbound journal | `agent/delivery/inbound/journal.ts`, `types.ts` | one record file per update, quarantine directory, cached index, claim leases, a lock directory | receive, claim, releaseClaim, markDispatched, complete, markOutcomeUnknown, markLost, recoverAfterCrash | writes that fail after they took effect, crashes inside a call, expired leases, three capacities checked in two places | nothing dispatched twice, lost silently, or able to make recovery refuse |
| Transport, receiving half | `agent/channels/telegram/transport.ts`, `adapter.ts` | legacy inbox files, cursor file, batch and dispatch queue, deferred receipts | start: recover, poll, admit, save cursor, dispatch, settle | cursor against admission, replay against redelivery, receipts that settle late, shadow/enforced switch | an update Telegram forgets is on disk; handlers start once and in order; all settle |
| Outbox | `agent/delivery/outbound/{outbox,store,telegram-sender}.ts`, `agent/channels/transport-factory.ts` | record files in pending/, completed/, dead-letter/; drain state | enqueue, drainDue, attempt, recoverInFlight, retention, direct fallback | answer unknown after timeout, two flows on one record, stale pending copies, limits | at most one visible copy, bounded attempts, the queue stays listable |
| Claude daemon registry | `agent/poller/claude-daemon-registry.ts`, `claude-daemon.ts` | per topic: state, queue, receipts, six timers, one subprocess | enqueue, flush/spawn, turn end, crash, steer, watchdog, release, reacquire, stop, reset, idle sweep | every operation awaits inside while others run | receipts never forgotten, one process per session, no stuck topic |
| Poller commands and housekeeping | `agent/poller/poller.ts` | pairing, in-flight counts, flag files | message and button dispatch, release/inject flags, sweeps | detached promises over the registry; flag files shared with the CLI | hand-off acknowledged only when safe |
| Scheduler | `agent/poller/heartbeat-checks/*.ts`, `agent/tasks-store/tasks-store.ts` | tasks.json, fired keys per task, run-now flags | tick, due computation, mark, missed alert, run now, task edits | mark before launch, busy topics, quiet hours over midnight, sleeping hosts, a key that did not reach the disk | each day's run launched once, or the chat told |
| Approval gate | `agent/poller/agentic/{approval-store,gate-hook,agentic-runner,autonomy-policy,cards}.ts` | request and decision files, cards, runs in flight | classify, hook waits, render card, tap, edit, expiry | two processes and a user, no lock, each read and write apart | no call beyond its tier without the owner's last word |
| Mount and task stores | `agent/mount-store/mount-store.ts`, `agent/tasks-store/tasks-store.ts` | JSON files with lock files, the poller's copy | read-modify-write, reload, routing | stale locks, writers that die, a copy that lags | no lost change, no handler that hangs |
| Typing, transcript, rendering helpers | `agent/channels/telegram/typing-keepalive.ts`, `agent/poller/{slash-commands,transcript-cursor}.ts` | small local state | | | |
| Observability | `agent/observability/*.ts` | counters | emit, sample | | |
| Pager app | `pager/Sources/ClaudePager` | UI state | | | |
| Installers, CLI | `cli/cta`, `install.sh`, `agent/start_agents.sh` ... | launchd jobs, release flags | | | |

How they meet: `transport.start` calls the journal for every update and calls
the poller's handler; a handler may return a receipt promise that settles when
the registry reports the end of the Claude turn; the registry's output goes to
the outbox through `makeOutboundQueue`; `cta open` and the pager ask the poller
through flag files to release a topic's Claude process.  `/agentic`, a message
in an agentic topic and a due task all start an executor run; its hook and the
poller meet in the approvals directory.  The CLI, the pager and processes the
poller itself starts edit mounts.json and tasks.json beside it.

The full hazard list, each at its line and with the properties aimed at it (or
the reason there is none yet), is `hazards` in `PROJECT.json`.

## 2. Modules

| Module | Models | Uses |
|---|---|---|
| `InboundJournal` | the journal, one action per public method and write outcome | |
| `InboundDelivery` | the receive loop; every journal step it takes *is* an `InboundJournal` action | extends `InboundJournal` |
| `InboundJournalProofs` | theorems about both | extends `InboundDelivery`, TLAPS |
| `Outbox`, `OutboxProofs` | outbox, store, sender and the wrapper of `makeOutboundQueue` | |
| `DaemonRegistry`, `DaemonRegistryProofs` | one topic of the registry, its processes and the poller's flows over it | |
| `JournalLock`, `JournalLockProofs` | the lock directory of the journal between any number of processes | |
| `AutonomyPolicy` | the classifier: the tier of a tool call, as an operator | |
| `ApprovalPromise` | abstract: what the agentic mode promises of each tool call | |
| `ApprovalGate`, `ApprovalGateProofs` | executor runs, hooks, files, cards, taps and edits | extends `AutonomyPolicy`; implements `ApprovalPromise` |
| `TaskScheduler`, `TaskSchedulerProofs` | ticks, tasks, fired keys, edits, flags, restarts | |
| `MountStore`, `MountStoreProofs` | mounts.json, its lock file, its writers, the poller's copy | |
| `ReleaseHandoff`, `ReleaseHandoffProofs` | `cta open` and the release flags | the registry of `DaemonRegistry`, reduced |
| `MC*` | constants of the instances | |

### InboundJournal

`status[m]` is the state field of m's record file; `uncertain` is split by its
`failure.semantic` into `loss` and `unknown`.  Each method of
`FileInboundJournal` runs synchronously under the lock file, so it is one
action.  What is not atomic is the disk: a write ends `ok`, `lost` (threw before
the rename) or `kept` (threw after it, the directory fsync failed for example),
and the caller cannot tell the last two apart.  `index` is the in-memory record
index, `NoIndex` after any error.  `held[o][m]` is the claim a flow remembers;
two owners and `LeaseLapses` produce the stale claimant.  `Crash` empties memory
and restarts into `recovering`; recovery visits files one by one and can itself
fail or crash.  `Damage` makes a file unreadable.  That operations exclude each
other is taken from `JournalLock`, which says under what condition they do.

### InboundDelivery

`pc` follows `start()`: `recover`, `poll`, `admit`, `dispatch`, `claimed`,
`running`, and `refused` when it rejects.  `confirmed` is what Telegram has been told to forget
(the offset of the latest request), `offsetFile` the cursor on disk, `legacy`
the old inbox.  `CrashRestart` happens between any two steps and also stands for
a failing cursor or legacy write, which ends the process.  A start may find
either mode.  Update ids of an instance have the same number of digits.

### Outbox

`pending[m]` and `terminal[s]` are the store's directories.  A terminal save
writes the terminal file before it removes the pending one, so both may exist;
`Tidied` is the precedence `listPending` applies.  Flows `caller` and `drain`
run between awaits: `begin` (the record says `sending`, the request is out),
then the answer and its save.  Telegram's answer is nondeterministic; 429, 5xx
and a rejection before the request are taken to mean "not posted", a timeout may
have posted or not.  Retry delays are abstracted to a set of waiting records;
chunking and the HTML fallback to one send.

### DaemonRegistry

`h` is the topic's `DaemonHandle` (or `NoHandle`), field by field; timers are
members of `h.timers` or counts, `flush` is `activeFlush` with the batch it
captured.  The three flows of the poller that call the registry are `chat` (the
transport awaits each handler, so messages, `/stop` and resets come one at a
time), `keeper` (the housekeeping tick: evictions, release flags) and `sweep`
(the detached `idleFlushAndClear`).  `flow[f].at` says which await a flow is in
and `mine` whether the handle it captured is still the topic's handle.  Each
action is one macrotask up to its next await; `Next` lets an await that is over
go on before any other macrotask, which is what promises do.  `proc` and `turn`
are the subprocesses: `dying` covers everything between a signal or a death and
the `close` event, so output, accepted writes and write errors may still come.

Abstracted: all delays (any armed timer may fire next, with one exception: the
release expiry, minutes long, does not fire inside a release, seconds long);
text events, which only push the watchdog back; `postInterrupt`, which only
shortens it; the steering interrupt's write, which settles at once; capacities
shared by topics; `shutdown` at a pair switch.  Left out as unreachable, and
checked to be so in this model: an armed watchdog whose turn has no process, the
second `stop` of release and reset, an identity mismatch in a process's events.

### JournalLock

`dir` is the lock directory: who made it, the pid in its owner.json (or none
yet), and whether it is past the grace period.  mkdir, owner.json, the judgement
that a lock is stale, the rename that takes it away, unlink and rmdir are steps
of their own, since other processes run between them; a process may die at each.
`Stale` is `lockIsStale`: an owner that lives is never stale, however old its
lock.  `same` remembers which judgements still speak of the directory that is
there, and `stolen` that one did not when it was acted on.  Writing owner.json,
unlinking it and removing the directory may each fail; `kept` is the processes
whose unlink did.  A pid that is used again by another process is not modelled.

### AutonomyPolicy, ApprovalPromise and ApprovalGate

A tool call is the record of the features the classifier tests: each regular
expression, word table and path check is one field, and a shell command is the
sequence of the classes of its parts.  `Classify` keeps the order of the
tests.

In `ApprovalGate` hook `i` goes through `classify`, `look`, `seen`, `closing`,
`done`: looking for the decision file, reading it and removing the files are
steps between which the poller acts.  The poller runs one callback at a time,
and those that read a file and write it back are cut in two by `op`.
`request[i]`, `decision[i]` are the files, `card[i]` what the chat shows,
`known`, `awaiting`, `stash`, `inFlight` the poller's memory, which `Restart`
empties; an executor that survives it is `orphaned`.  Each request is before or
past its `expiresAt`, and `Expire` moves it.  Each write of a request or of a
decision may throw, and each unlink of `Cleanup` may fail unnoticed.

`ApprovalPromise` knows only proposals, the owner's words and whether a call is
granted, run or refused; `Harmless` says without the classifier which calls need
no consent.  `KeepsPromise` is the refinement: `stage` is `Stage(i)`, read off
the hook's place and its answer.

### TaskScheduler

Time is a day and a slot.  A tick reloads tasks.json if it was `touched`, walks
the tasks in order (`todo`) and the flags (`sweeping`); `MarkDue` writes the
fired key, `LaunchDue` starts the run, and `handing` is the task between the
two.  `disk` lags behind `fired` when a write failed.  `Advance` past a slot no
tick has met is a host that sleeps, `Restart` a poller that comes back with what
is on disk.
A tick takes no time, so a slot does not end inside it.

### MountStore

Each caller goes through `trying`, `judged`, `locked`, `read`, `written`: open
with O_EXCL, the look at a lock's age, unlink, read, rename, unlink.  `Poller`
is the poller in its own calls and `Child` the process it starts for a command
and waits for; `stage` is where its handler is, and `PollerStep` includes the
reload that ends it.  A message whose automatic mount failed goes straight to
`ask`, the question for a directory; only after one that succeeded, and the
reload, is the copy looked at again (`route`).  Reading the file or writing its
replacement may throw inside the lock (`ThrowsInside`), the unlink of the lock
file and a reload may fail.  `version` is the file's mtime, `missed` the mtime up
to which the poller may have missed a write.  `ledger` is what the file would be
had every call run in one piece.

### ReleaseHandoff

`flag` and `ack` are the two files, `term[k]` a shell running `cmd_open`,
`tick` the housekeeping tick, which awaits the end of the Claude process while
terminals go on.  The registry is reduced to the state of the handle, its process
and whether messages wait; what a release does to receipts, timers and flushes
under way is in `DaemonRegistry`.  `shared` remembers that a terminal lost its
claim by one of the ways the code allows.

## 3. Runs

| Run | Shows |
|---|---|
| `journal` | `DispatchedOnce`, `ClaimFenced`, `NoSilentLoss`, `RecoveryNeverRefused` (with the index faithful), `RecentCompletionsRemembered` for three updates, two claimants |
| `lock` | `ExclusiveUnlessStolen`, `LiveOwnerIsInside`, and under fairness `DeadGiveWay`, for three processes |
| `inbound` | `ConfirmedIsDurable`, `StartedInOrderOnce`, `LegacyDrained`, and under fairness `EventuallySettled`, when restarts may switch between shadow and enforced |
| `outbox` | `ShownAtMostOnce`, `LimitsKept`, `ResolvedForGood`, and under fairness `EventuallyResolved`, in both modes |
| `daemon` | `ReceiptsSound`, `SentOnceInOrder`, `SessionExclusive`, `SteerFitsTurn`, `AckMeansQuiet`, `NothingWaitsAtRest`, with turns that may hang for ever |
| `approval` | `KeepsPromise` (the refinement), `AnswerIsLastWord`, `EditInTime`, `OneExecutorPerTopic`, and under fairness `NothingLeftBehind` |
| `scheduler` | `OncePerDay`, `NoSilentMiss`, and under fairness `DeferredLaunched` |
| `stores` | `HolderOwnsLock`, `NoLostChange`, `OwnWritesTurnNoneAway`, and under fairness `HandlerReturns`, `CacheCatchesUp` |
| `handoff` | `NoDaemonBesideTui`, and under fairness `TopicComesBack`, `MessagesFlow` |
| `shadow_blocks`, `daemon_handoff`, `quiet_defers` | three disagreements between the documentation and the code, see below |

`outbox` and `stores` also check their module's type invariant.  Those two and
the type invariants of all other modules are proved.

Bounds.  Every capacity is 1 or 2 with one more message than fits, so each
limit is met, exceeded by one and evicted from.  `MaxFaults` 2 or 3 lets a
failing write be followed by a crash and by a second failure during recovery;
`MaxClaims` lets a claim be taken over and retaken.  The ids of Telegram updates
are consecutive; one of three is malformed so that the drop path meets its
neighbours.  The journal and outbox runs stop checking deadlock because their
counters (claims, faults, calls) run out by design; the delivery runs keep it.

The registry runs two tracked prompts and one injected one, so that a batch can
mix both and be overtaken; two operations, which makes every pair of flows race;
two faults, so a failed spawn or a death can follow another; two spawn attempts,
so that the backlog is both retried and given up.

The lock has three processes: two that race on a stale directory and one that
left it.  The approval run has two executor runs in one topic but one tool call,
of each tier in turn: two calls exceed 20 million states, and calls meet only in
the stash and in the topic, which the proofs cover for any number.  The
scheduler runs three days, so that an every-other-day task comes round and a
missed day is looked for on the day after; two tasks in one topic make each
other busy.  The stores have three callers on one thread and the wildcard, two
attempts at the lock, one fault, which is a death or a failing read, write,
unlink or reload; the CLI adds, removes and replaces (setDigest, which changes
no target, is left to the proofs).  The hand-off has two terminals and three
opens, so a request left behind meets a later one.  These runs stop checking deadlock
where their bounded counters run out by design.

Fairness.  `FairDeliverySpec` assumes weak fairness of the transport's own
steps and of the settlement of handlers: the event loop runs what is ready, and
a Claude turn ends, by result, crash or watchdog; Telegram answers a poll with
updates it still holds.  Faults and crashes are never fair.  `FairSpec` of the outbox assumes the
interval tick of `PersistentOutbox.start` (which runs for as long as the process
does), its sends' answers, and that the clock passes every retry time.
The registry needs no fairness: `NothingWaitsAtRest` says as an invariant that a
receipt is never left waiting when no timer, flush, flow or dying process is
under way.  It backs the fairness of `Settle` in the receive loop; what remains
to be assumed there is that timers fire, writes settle and a signalled process
closes (it is killed after 5 s).
`JournalLock`: a process that is alive goes on, since nothing in `acquireLock`
waits for longer than its own timeout.  `ApprovalGate`: hooks and the
executor run on (the hook polls with a deadline of its own), the approval and
housekeeping timers of the poller fire, and runs end (the runner kills at its
time limit); users are not fair.  `TaskScheduler`: ticks come round and runs
end.  `MountStore`: the poller and its child run on; no other process does.
`ReleaseHandoff`: ticks, the expiry and debounce timers, the end of a signalled
process, and the script up to its TUI; nobody has to close a terminal.

## 4. What is proved

Every theorem is for any value of the constants that satisfies the module's
named assumptions (bounds are naturals, special values differ); the runs check
the same properties on small instances.

`InboundJournalProofs`, for any updates, owners and capacities:

- `TypeCorrect`: `TypeOK` is inductive; one lemma per group of actions, with
  `WriteType`, `QuarantineType` and `IndexedType` for the helpers they share.
- `DispatchOnce` (`DispatchedOnce`) and `LastClaimantRuns` (`ClaimFenced`).
  Neither is inductive: nothing in them forbids a second claim of a record that
  has run.  The strengthening `Fences` adds `ReplaySafe`, a record still
  `received` or `claimed` has never run.  Then `MarkDispatched` is the only step
  that starts a handler, it needs `claimed` and the file's own token, and it
  leaves that pair of states for good; `QuietKeepsFences` disposes of every
  action that starts nothing, and admission is the one place where a history
  begins anew.
- `NothingLost` (`NoSilentLoss`), `AlwaysRecovers` (`RecoveryNeverRefused`) and
  `WindowKept` (`RecentCompletionsRemembered`), proved together because each
  leans on the others.  *Books* relates memory to disk: the index a method
  decides from is that of the files, but for damage it has not noticed yet
  (*IndexExact*), a tombstone stands for an acknowledged message, and no
  completion lies in the future.  So a capacity check made on the index bounds
  the directory.  *Kept* is the three properties, the second as
  `RecoveryMayStart`, a bound on the files at all times and not only at a start.
  `FewerFiles`, `LaterGrows` and `MovesKeep` dispose of the actions that add no
  file; admission, pruning and quarantine have lemmas of their own.

For the receive loop over that journal, for any updates, batches and modes:

- `PromisesUnderLoop`: the journal's five invariants hold under `DeliverySpec`.
  Every step of the loop is one of the journal, or a restart after a refused
  start (`LoopIsJournal`), which the journal alone does not count among crashes.
- `ConfirmedHeld` (`ConfirmedIsDurable`) and `InboxDrained` (`LegacyDrained`).
  What only speaks of the answers already confirmed is not inductive.  An update
  is *Held* when the journal stored it once, a handler was started for it, it is
  malformed or it has a legacy file; *Durable* says that every update below the
  cursor, below the confirmed offset, below a record or file and below a queued
  entry is held, and that a batch being admitted follows on without a gap.
  *Shape* gives the phases of the loop: outside admission, what is left in the
  legacy inbox is in the queue.  A file goes only when its update is on the books
  (`FinishKinds`, `Grows`); `NoSilentLoss` and *Answered* (only what was started
  is acknowledged) then say where a stored update is when its record is gone.
- `InOrderOnce` (`StartedInOrderOnce`).  The journal's part in a step is
  summed up as `Moves(new)`, only updates in *new* come in and the others only
  go on, and `Stays`, no file goes but into quarantine; `AdmissionMoves`,
  `CallMoves` and `RecoveryMoves` show it for each call.  *Order* has twelve
  parts.  The crux is a start after a crash, which queues the legacy files first
  and the records without one after them: *Lone* says that a record waits
  without a file only if there is no file at all, or it is excepted; *Files* that
  no legacy file is from before the last managed start; *Over* that the record of
  a started update is not evicted while its file could lead back to it, since an
  admission that evicts is of an update behind that file; *InTurn* that what
  waits comes after what was started.  `OrderKinds` sorts the steps, with one
  lemma per part.
- `Ascending` is defined by rank and not with a sort, so that `AscendingLists`
  can be proved with the pigeonhole principle, without an induction.

`OutboxProofs`, for any messages, limits and deaths of the process:
`TypeCorrect`; `NeverShownTwice` (`ShownAtMostOnce`: the queue's own sends, while
the record is neither pruned nor damaged and no fallback of shadow mode has sent
the message as well), `WithinLimits` (`LimitsKept`) and `ResolutionStays`
(`ResolvedForGood`: a terminal or uncertain record is that until it is pruned or
damaged).  The invariant has, for
each message, *Good(m)*: a message in flight has `sending` on disk, no terminal
copy and one flow that holds it (*OneSender*); the attempts on disk are all there
were, and one is left wherever the code would try again (*Counted*); what the
chat shows is at least `sending` on disk, or in a flow's hands as an answer that
leads to no other send (*Posted*).  *CleanStart* says that nothing is in flight
when recovery runs, *Room* and *Dirs* bound the directories.

`DaemonRegistryProofs`, for any prompts, processes and bounds: `TypeCorrect`,
`OneProcess` (`SessionExclusive`), `SteerFits` (`SteerFitsTurn`),
`EveryReceiptSettled` (`ReceiptsSound`), `SentInOrderOnce` (`SentOnceInOrder`),
`NobodyWaits` (`NothingWaitsAtRest`) and the action property `AckedWhenQuiet`
(`AckMeansQuiet`).

- *Shape* says who owns the session: a process is the handle's or the one the
  flush starts (*Owned*); the flush, the flow of a stop, the sweep and each
  tear-down refer to a process that is that one, or is over (*FlushSound*,
  *ChatSound*, *SweepSound*, *Torn*); a handle that closes has the flow that
  closes it, a released one is quiet or its release under way; a turn is of
  length one, of a process that is up, and excludes a write.  It needs the
  priority of `Next` in a few places only: no flush starts while a tear-down
  could go on (`~Ready`).
- *Books* follows the prompts: the receipts in flight are in the batch being
  written or in the turn being worked on (*BatchSound*); what is queued, written
  or sent was asked for, and no prompt is both in flight and queued (*Known*);
  what was sent precedes the batch, the batch the queue, in the order of asking
  (*Ordered*).  A write that fails puts back a subsequence of its batch, in its
  order, ahead of the queue: `UntrackedInOrder`.
- *Driven* names what moves a waiting topic on: receipts in flight belong to a
  turn (*Manned*); a turn is watched, about to be, or about to end (*Tended*); a
  queue has a debounce, a spawn, a back-off, a release timer, a release under way
  or a dying process (*Waited*); a process that started too late belongs to a
  topic that closes or is released (*Superseded*).
- `NextKinds` sorts every step by its effect, one lemma per action;
  `KindsKeepShape` and `KindsKeepBooks` go through those.  A *Mild* step, one
  that leaves the flush, the turns and the owners alone, is disposed of once.

What `Untracked` returns is a recursion over the batch.  Its function is the
only one that satisfies the recursive equation, shown with the least element of
a set of naturals (`Least`, `SieveExists`) in place of an induction theorem,
which would need an operator as a parameter.

`JournalLockProofs`, for any number of processes: `TypeCorrect`; `OneInside` and
`OwnersInside` from `IInv`, which adds *Possession* (unless a lock was stolen,
who is about to write owner.json made the directory that is there, and who is
inside owns it) and *Verdicts* (a judgement that still speaks of that directory
is about one nobody relies on, or whose user lost a second).

`ApprovalGateProofs`, for any topics, runs, calls, senders and bounds:
`TypeCorrect`; `OneExecutor`, from `Held`: a run that is not an orphan holds its
topic, and no two of them the same; `EditsInTime` (a message taken as the
correction of a card is never lost on a request that merely expired: the hook
still waits, or the call has another answer, or its run is over) and `LastWord`,
from `Gate`, which for each request ties its hook's place, its files and the poller's memory
together: nothing exists before the hook asks, the decision file holds the
owner's last word, an answer of `expired` means past the deadline; and `Implements`, the refinement: every
step of the gate is a step of `ApprovalPromise` or a stutter.  The only place
where the classifier matters is `SilentIsHarmless`: what it lets pass in silence
is `Harmless`.

`MountStoreProofs`, for any processes, folders and inputs:

- `LockOwned` and `NoneLost`.  `IInv` adds that what a caller judged is a lock
  that was old, so that taking a fresh one counts as stolen, and *Current*: the
  rows a holder has read are still those of the file, because who writes owns
  the lock.
- `TypeCorrect` (`TypeOK`), which says that no list of rows has two for one
  target.  It rests on what `Picked` returns, a recursion over the rows: as for
  `Untracked`, its function is found with the least element of a set of
  naturals (`SiftingExists`), and `DrawnStep` then gives a row picked at `i` its
  place in the list it came from.
- `OwnWritesHarmless` (`OwnWritesTurnNoneAway`).  Other processes' writes and
  failing calls do turn messages away, so the statement is about the poller's
  own.  *Linked* ties the copy to the file (the same rows when they have the same
  mtime, a copy is never the newer).  *Own*: what the poller cannot have missed
  (`missed <= cacheVersion`) its copy has, or the reload under way will bring
  (*Fresh*), and rows it has read under the lock are the file's.  *Heard* follows
  a message that found the wildcard, by the copy noted in `seen`: its call finds
  no mount of the topic, makes it, and the reload brings it.

`TaskSchedulerProofs`, for any tasks, schedules, quiet window and bounds:
`TypeCorrect`, one part of the state at a time, `FiresOncePerDay` and
`MissIsTold` (`NoSilentMiss`).  For each task that never lost
a key to a restart, `IInv` says that a launched or told day has its fired key
(*Keyed*), that the runs of an every:n task lie apart (*Apart*), and that the task between mark and
launch has today's key, has not run today and is far from its other runs
(*Marked*).  For the misses, `NInv` says that every fired key has its launch, its
word or the death that cut it off, or belongs to the task about to launch
(*Accounted*); that a tick which has met a task on today's date has dealt with
yesterday, or has still to look (*Seen*); that a task that was on throughout has
the same schedule it had (*Alike*), and none waits between mark and launch out of
its turn (*Free*).

`ReleaseHandoffProofs`, for any number of terminals: `TypeCorrect` and
`TuiIsAlone`.  `NoDaemonBesideTui` is not inductive; *Claim* adds that while a
claim holds there is one terminal, its TUI runs under an ack, and an ack means a
released topic without a process; *Releasing* that the tick awaits a process
only without an ack, so what it takes back is never a TUI's topic.

Only model-checked: every liveness property, those of the outbox and the receive
loop among them, which are out of the prover's reach (fairness and ENABLED).
Every invariant, action property and refinement that a passing run checks is
proved as well.

## 5. Where the code and its documentation differ

- *Shadow never blocks* (`types.ts:21`): recovery errors reject `start()` in
  shadow mode too, so a journal that refuses recovery keeps the poller down
  (`shadow_blocks`).
- *Messages queue silently until the terminal gives back* (registry 404-405): a
  release of a topic without a handle is acknowledged and forgotten, and so is a
  release whose handle a reset deletes; the next message starts a process beside
  the terminal (`daemon_handoff`).
- *Quiet hours only defer* (`scheduler.ts:13-16`): a task timed in the evening
  part of a window that wraps over midnight is held back until the day is over,
  and dropped (`quiet_defers`).

Noted while modelling, without a run of its own:

- *Shadow does not change crash replay* (`transport.ts:248-251`): a record that
  reached disk although `receive` threw is replayed after its legacy handling
  ended.  `StartedInOrderOnce` names it as its exception.
- *Exactly one real attempt in shadow* (`transport-factory.ts:51-53`): a save
  that fails after the message was posted leads to a second, direct send.
  `ShownAtMostOnce` excepts the messages a fallback sent.
- *Record operations remain lock-serialized* (`INTEGRATION.md:97-98`): two
  contenders that both judged a dead owner's lock stale can both be inside
  (`journal.ts:709`).  `ExclusiveUnlessStolen` excepts it, with the maker that is
  slower than the grace period; by its theorem there is no third way.
- `releaseLock` passes over a failing unlink of owner.json (`journal.ts:754`): the
  lock then names a process that lives, which no judgement calls stale, until that
  process exits.  `LiveOwnerIsInside` excepts it (`kept`).
- An edit is taken for a call that another decision has answered meanwhile: after
  Edit and then Approve on the same card, the next message in the topic is
  swallowed (`poller.ts:2402-2411`).  `EditInTime` names it as its exception.
- An approval card counts as sent whenever `enqueue` returns, also when its state
  is `dead_letter` (`poller.ts:2598`): the call is then refused at its deadline,
  unseen.
- The lock files of the two stores have no owner check: a lock older than
  `STALE_LOCK_MS` is taken from a writer that is only slow, and two contenders
  may steal one after the other, beside the "race-safe" of `poller.ts:2292`.
  `HolderOwnsLock` and `NoLostChange` except these (`stolen`).
- A tap on a directory button re-derives the list by index
  (`poller.ts:1347-1360`); mounts that changed meanwhile shift it.
- `/unpair` goes on although the child that clears the mounts was refused
  (`poller.ts:2056-2079`), and `/pair` does not reload after it.
- An acknowledgement that throws before `launchAgentic`'s try block leaves its
  topic in flight until a restart (`poller.ts:2640`); `leaked` in the model.
- A restart of the poller, a second `cta open` and a reset each end a terminal's
  claim without a word to it; `shared` in `ReleaseHandoff`.

## 6. Plan

1. `DeliveryPromise`: what delivery promises (accepted, started, settled), with
   `InboundDelivery` shown to implement it.
2. The registry's capacities across topics and the injected prompts of the
   watch-live flags.

## 7. Not modelled

Formatting, rendering, command parsing, HTTP details, file permissions and path
checks, metrics; the Swift pager; shell installers.  Power loss (as opposed to
process death) is not modelled: a completed rename stays.

Of the parts that are modelled: the regular expressions and word tables of the
classifier; an unparseable tasks.json, time zones and pruning of old fired keys;
the retired per-topic digest (`shouldFire`, `detectMissedFire`, the heartbeat
runner), which nothing calls any more; row validation, session names and legacy
rows of mounts.json; pairing codes; shutdown at a pair switch; process ids
used again; injected prompts.

Failures left out, each swallowed by the code or ended by a restart: a legacy
inbox file that does not parse, which `listPending` discards
(`transport.ts:117-120`; the files are written whole and renamed), and a failing
unlink of one (`transport.ts:119`, `126`), after which the next start offers the
update again; in the mount store's `withLock` and `acquireLock` a failing mkdir,
which ends the call, a failing open, stat or unlink of the lock file, which costs
it one attempt, and the unlocked read of `/pair` (`poller.ts:1476`), which throws before anything is written.

Of the scheduler, a tick without a paired chat (`poller.ts:2911`), which does
nothing, as if the host slept through it, and tasks whose
topic is not mounted (`poller.ts:2920-2927`): such a task is passed over exactly
as one that is off, a state the model has and enters by `Edit`, and a run-now flag
of such a task is dropped as that of an unknown one.

Of the outbox, a second `enqueue` of a message whose first is still being sent in
the same process: its record exists by then, so the second call returns what the
first one wrote and sends nothing.
