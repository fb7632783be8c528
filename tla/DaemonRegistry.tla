--------------------------- MODULE DaemonRegistry ---------------------------
(***************************************************************************)
(* One topic of ClaudeDaemonRegistry (claude-daemon-registry.ts) with the  *)
(* Claude subprocesses behind it (claude-daemon.ts), and the three flows   *)
(* of the poller that operate on it:                                       *)
(*   chat    the transport's handler loop: messages, /stop, /clear and its *)
(*           like; one handler at a time                                   *)
(*   keeper  the housekeeping tick: evicts idle topics, serves the release *)
(*           flags of `cta open`                                           *)
(*   sweep   idleFlushAndClear, detached from the tick                     *)
(* Injected prompts (the watch-live drop directory) come at any time and   *)
(* carry no receipt.                                                       *)
(*                                                                         *)
(* An action is what the event loop runs from one macrotask to the next    *)
(* await; a flow whose await is over goes on before any other macrotask    *)
(* (Continue), in any order among several.  Timers are armed flags: any    *)
(* armed timer may be the next to fire.  Node reports the outcome of a     *)
(* pending write to a process before that process's "close".               *)
(***************************************************************************)
EXTENDS Naturals, SequencesExt

CONSTANTS
  Message,          \* prompts of enqueueWithReceipt
  Inject,           \* prompts of enqueue: no receipt
  Proc,             \* process slots
  None,             \* no process
  AutoSteer,        \* what autoSteerEnabled() may return
  MaxSpawnAttempts, \* maxSpawnAttempts
  MaxOps,           \* bound: /stop, resets, releases and sweeps
  MaxFaults         \* bound: failed spawns and processes that die by themselves

Prompt == Message \cup Inject

ASSUME RegistryConstants ==
  /\ Message \cap Inject = {}
  /\ None \notin Proc
  /\ AutoSteer \subseteq BOOLEAN /\ AutoSteer # {}
  /\ MaxSpawnAttempts \in Nat \ {0}
  /\ MaxOps \in Nat
  /\ MaxFaults \in Nat

VARIABLES
  h,       \* the topic's DaemonHandle
  flush,   \* its activeFlush: where it stands, the process, the batch taken
  flow,    \* flow[f]: what the poller's flow f awaits
  proc,    \* proc[p]: the subprocess; "dying" has exited or been signalled
  turn,    \* turn[p]: batches p accepted and has not answered, <<>> for housekeeping
  stray,   \* a debounce left armed by a deleted handle, or forgotten
  held,    \* the terminal owns the session: from the ack to its end or expiry
  receipt, \* receipt[m]: the promise of enqueueWithReceipt
  asked,   \* history: prompts in the order they came
  sent,    \* history: prompts in the order a process accepted them
  ended,   \* history: prompts whose turn a process reported ended
  ops,     \* operations left
  faults   \* faults left

vars == <<h, flush, flow, proc, turn, stray, held, receipt, asked, sent, ended, ops, faults>>

NoHandle ==
  [live |-> FALSE, closing |-> FALSE, state |-> "idle", daemon |-> None,
   queue |-> <<>>, inFlight |-> {}, timers |-> {}, respawns |-> 0, retries |-> 0,
   stopping |-> FALSE, waiter |-> FALSE, spawnFailures |-> 0]

NoFlush == [at |-> "none", proc |-> None, batch |-> <<>>]
NoFlow == [at |-> "idle", op |-> "none", proc |-> None, flushed |-> FALSE, mine |-> FALSE]

Flow == {"chat", "keeper", "sweep"}
Resetting == [chat |-> "reset", keeper |-> "evict", sweep |-> "clear"]

Alive(p) == p # None /\ proc[p] # "none"
Signalled(p) == IF Alive(p) THEN [proc EXCEPT ![p] = "dying"] ELSE proc

\* armDebounce if work is queued, else idle: what most endings of a turn do.
Rested(hh) ==
  IF hh.queue = <<>> THEN [hh EXCEPT !.state = "idle"]
  ELSE [hh EXCEPT !.state = "pending", !.timers = @ \cup {"debounce"}]

\* Settling is once only: a receipt that is not waiting keeps its outcome.
Settled(S, outcome) ==
  [m \in Message |-> IF m \in S /\ receipt[m] = "waiting" THEN outcome ELSE receipt[m]]

IsIdleEmpty == h.live /\ h.state = "idle" /\ h.queue = <<>>

----------------------------------------------------------------------------
(* enqueuePrompt                                                           *)

MayAsk(m) ==
  /\ m \notin ToSet(asked)
  /\ m \in Message => flow["chat"].at = "idle"
  /\ asked' = Append(asked, m)

Awaiting(m, outcome) ==
  IF m \in Message THEN [receipt EXCEPT ![m] = outcome] ELSE receipt

EnqueueRefused(m) ==
  /\ h.closing
  /\ MayAsk(m)
  /\ receipt' = Awaiting(m, "failed")
  /\ UNCHANGED <<h, flush, flow, proc, turn, stray, held, sent, ended, ops, faults>>

Queued(m) == [h EXCEPT !.live = TRUE, !.queue = Append(@, m)]

Enqueue(m) ==
  /\ ~h.closing
  /\ MayAsk(m)
  /\ receipt' = Awaiting(m, "waiting")
  /\ \E steers \in AutoSteer :
       h' = CASE h.state = "released" -> [Queued(m) EXCEPT !.timers = @ \cup {"release"}]
              [] h.state = "inFlight" -> [Queued(m) EXCEPT !.timers = IF steers THEN @ \cup {"steer"} ELSE @]
              [] OTHER -> Rested(Queued(m))
  /\ UNCHANGED <<flush, flow, proc, turn, stray, held, sent, ended, ops, faults>>

\* The first message after releaseMaxMs takes the topic back at once.  The
\* terminal's time is over by then; a release still under way is younger.
EnqueueExpired(m) ==
  /\ h.state = "released" /\ ~h.closing
  /\ flow["keeper"].at = "idle"
  /\ MayAsk(m)
  /\ receipt' = Awaiting(m, "waiting")
  /\ h' = Rested([Queued(m) EXCEPT !.timers = @ \ {"release"}])
  /\ held' = FALSE
  /\ UNCHANGED <<flush, flow, proc, turn, stray, sent, ended, ops, faults>>

----------------------------------------------------------------------------
(* flush, flushHandle, spawn                                               *)

Flushable(hh) ==
  /\ ~hh.closing /\ hh.queue # <<>>
  /\ hh.state \notin {"inFlight", "released"}
  /\ flush.at = "none"

\* The queue becomes the batch and is written to p.
BatchTaken(hh) ==
  [hh EXCEPT !.queue = <<>>, !.inFlight = ToSet(hh.queue) \cap Message, !.state = "inFlight"]
Sending(p, hh) == [at |-> "send", proc |-> p, batch |-> hh.queue]

\* hh is the handle with its debounce noted as fired.
Flush(hh) ==
  IF ~Flushable(hh) THEN h' = hh /\ UNCHANGED <<flush, proc>>
  ELSE IF Alive(hh.daemon)
  THEN /\ h' = BatchTaken(hh)
       /\ flush' = Sending(hh.daemon, hh)
       /\ UNCHANGED proc
  ELSE \E p \in Proc \ {hh.daemon} :
         /\ proc[p] = "none"
         /\ proc' = [proc EXCEPT ![p] = "starting"]
         /\ flush' = [NoFlush EXCEPT !.at = "spawn", !.proc = p]
         /\ h' = hh

DebounceFires ==
  /\ "debounce" \in h.timers
  /\ Flush([h EXCEPT !.timers = @ \ {"debounce"}])
  /\ UNCHANGED <<flow, turn, stray, held, receipt, asked, sent, ended, ops, faults>>

\* A deleted handle's debounce flushes the topic's present handle early; the
\* present one's own debounce is forgotten, not cleared, and fires later.
StrayDebounce ==
  /\ stray
  /\ stray' = ("debounce" \in h.timers)
  /\ IF h.live THEN Flush([h EXCEPT !.timers = @ \ {"debounce"}]) ELSE UNCHANGED <<h, flush, proc>>
  /\ UNCHANGED <<flow, turn, held, receipt, asked, sent, ended, ops, faults>>

\* Only a flush empties the queue, so the batch is never empty here.
SpawnOk ==
  /\ flush.at = "spawn"
  /\ LET p == flush.proc
         hh == [h EXCEPT !.daemon = p, !.spawnFailures = 0]
     IN  IF h.closing \/ h.state = "released"
         THEN /\ h' = hh
              /\ flush' = [flush EXCEPT !.at = "obsolete"]
              /\ proc' = [proc EXCEPT ![p] = "dying"]
         ELSE /\ h' = BatchTaken(hh)
              /\ flush' = Sending(p, hh)
              /\ proc' = [proc EXCEPT ![p] = "up"]
  /\ UNCHANGED <<flow, turn, stray, held, receipt, asked, sent, ended, ops, faults>>

ObsoleteStopped ==
  /\ flush.at = "obsolete"
  /\ ~Alive(flush.proc)
  /\ flush' = NoFlush
  /\ h' = [h EXCEPT !.daemon = IF @ = flush.proc THEN None ELSE @]
  /\ UNCHANGED <<flow, proc, turn, stray, held, receipt, asked, sent, ended, ops, faults>>

\* Faulty variant: the dropped prompts' receipts are forgotten.
DroppedSilently == receipt
Dropped == Settled(ToSet(h.queue), "failed")

\* start() rejected, or the process died in its first 20 ms.  After
\* MaxSpawnAttempts of that the backlog is given up.
SpawnFails ==
  /\ flush.at = "spawn"
  /\ faults > 0 /\ faults' = faults - 1
  /\ proc' = [proc EXCEPT ![flush.proc] = "none"]
  /\ flush' = NoFlush
  /\ IF h.closing \/ h.state = "released"
     THEN h' = [h EXCEPT !.daemon = None] /\ UNCHANGED receipt
     ELSE IF h.spawnFailures + 1 >= MaxSpawnAttempts
     THEN /\ h' = [h EXCEPT !.queue = <<>>, !.state = "idle", !.spawnFailures = MaxSpawnAttempts]
          /\ receipt' = Dropped
     ELSE /\ h' = [h EXCEPT !.state = "crashed", !.spawnFailures = @ + 1, !.retries = @ + 1]
          /\ UNCHANGED receipt
  /\ UNCHANGED <<flow, turn, stray, held, asked, sent, ended, ops>>

\* stdin accepted the batch: turn-start, and the watchdog is armed whatever the
\* handle's state has become meanwhile.
SendOk ==
  /\ flush.at = "send"
  /\ turn' = [turn EXCEPT ![flush.proc] = Append(@, flush.batch)]
  /\ sent' = sent \o flush.batch
  /\ h' = [h EXCEPT !.timers = @ \cup {"watchdog"}]
  /\ flush' = NoFlush
  /\ UNCHANGED <<flow, proc, stray, held, receipt, asked, ended, ops, faults>>

\* The entries of q without a receipt, in their order.
Untracked(q) ==
  LET kept[i \in 0..Len(q)] ==
        IF i = 0 THEN <<>>
        ELSE IF q[i] \in Inject THEN Append(kept[i - 1], q[i])
        ELSE kept[i - 1]
  IN  kept[Len(q)]

\* Faulty variant: the failed batch goes back whole.
RequeuedWhole(batch, q) == batch \o q

Requeued(batch, q) == Untracked(batch) \o q

\* Prompts with a receipt fail; the others go back to the front of the queue.
SendFails ==
  /\ flush.at = "send"
  /\ proc[flush.proc] = "dying"
  /\ receipt' = Settled(h.inFlight, "failed")
  /\ LET hh == [h EXCEPT !.inFlight = {}]
     IN  h' = IF h.closing \/ h.state = "released" THEN hh
              ELSE [hh EXCEPT !.state = "crashed", !.retries = @ + 1,
                              !.queue = Requeued(flush.batch, @)]
  /\ flush' = NoFlush
  /\ UNCHANGED <<flow, proc, turn, stray, held, asked, sent, ended, ops, faults>>

----------------------------------------------------------------------------
(* Events of the processes                                                 *)

\* Faulty variants: the steer timer survives the turn; waiting work is forgotten.
TurnOverSteers(hh) == Rested([hh EXCEPT !.waiter = FALSE])
TurnOverIdles(hh) == [hh EXCEPT !.waiter = FALSE, !.timers = @ \ {"steer"}, !.state = "idle"]
TurnOver(hh) == Rested([hh EXCEPT !.waiter = FALSE, !.timers = @ \ {"steer"}])

\* "turn-end".  The sweep that waits for this turn goes on with it.
TurnEnds(p) ==
  /\ proc[p] \in {"up", "dying"}
  /\ h.daemon = p
  /\ turn[p] # <<>>
  /\ turn' = [turn EXCEPT ![p] = Tail(@)]
  /\ ended' = ended \cup ToSet(Head(turn[p]))
  /\ receipt' = Settled(h.inFlight, "done")
  /\ LET hh == [h EXCEPT !.inFlight = {}, !.timers = @ \ {"watchdog"}]
     IN  IF h.state = "released" THEN h' = hh /\ UNCHANGED flow
         ELSE /\ h' = TurnOver(hh)
              /\ flow' = IF h.waiter THEN [flow EXCEPT !["sweep"].at = "ended"] ELSE flow
  /\ UNCHANGED <<flush, proc, stray, held, asked, sent, ops, faults>>

\* The process dies by itself; the registry learns it from "close".
Exits(p) ==
  /\ proc[p] = "up"
  /\ faults > 0 /\ faults' = faults - 1
  /\ proc' = [proc EXCEPT ![p] = "dying"]
  /\ UNCHANGED <<h, flush, flow, turn, stray, held, receipt, asked, sent, ended, ops>>

Writing(p) ==
  \/ flush.at = "send" /\ flush.proc = p
  \/ \E f \in Flow : flow[f].at \in {"interrupt", "prompt"} /\ flow[f].proc = p

\* "close", and the "crash" handler: a stop that was asked for is no crash.
Close(p) ==
  /\ proc[p] = "dying"
  /\ ~Writing(p)
  /\ proc' = [proc EXCEPT ![p] = "none"]
  /\ turn' = [turn EXCEPT ![p] = <<>>]
  /\ IF h.daemon # p THEN UNCHANGED <<h, receipt>>
     ELSE LET hh == [h EXCEPT !.inFlight = {}, !.waiter = FALSE, !.timers = @ \ {"watchdog", "steer"}]
          IN  /\ receipt' = Settled(h.inFlight, "failed")
              /\ h' = CASE h.closing -> [hh EXCEPT !.daemon = None]
                        [] h.state = "released" /\ ~h.closing -> hh
                        [] h.stopping /\ ~h.closing /\ h.state # "released" -> [hh EXCEPT !.daemon = None]
                        [] OTHER -> [hh EXCEPT !.daemon = None, !.state = "crashed", !.respawns = @ + 1]
  /\ UNCHANGED <<flush, flow, stray, held, asked, sent, ended, ops, faults>>

----------------------------------------------------------------------------
(* Timers                                                                  *)

\* The turn gave no sign of life: kill the process, "close" does the rest.  A
\* turn whose watchdog is armed has a process: the branch without one is left out.
WatchdogFires ==
  /\ "watchdog" \in h.timers
  /\ h' = [h EXCEPT !.timers = @ \ {"watchdog"}]
  /\ proc' = IF h.state = "inFlight" THEN Signalled(h.daemon) ELSE proc
  /\ UNCHANGED <<flush, flow, turn, stray, held, receipt, asked, sent, ended, ops, faults>>

\* armInterruptDebounce: interrupt the turn, and watch the interrupt if the
\* process took it.
SteerFires ==
  /\ "steer" \in h.timers
  /\ LET hh == [h EXCEPT !.timers = @ \ {"steer"}]
     IN  \/ h' = hh /\ (h.state = "inFlight" => ~Alive(h.daemon) \/ proc[h.daemon] = "dying")
         \/ /\ h.state = "inFlight" /\ Alive(h.daemon)
            /\ h' = [hh EXCEPT !.timers = @ \cup {"watchdog"}]
  /\ UNCHANGED <<flush, flow, proc, turn, stray, held, receipt, asked, sent, ended, ops, faults>>

\* The back-off timer of the crash handler.
RespawnFires ==
  /\ h.respawns > 0
  /\ LET hh == [h EXCEPT !.respawns = @ - 1]
     IN  h' = IF ~h.closing /\ h.state = "crashed" THEN Rested(hh) ELSE hh
  /\ UNCHANGED <<flush, flow, proc, turn, stray, held, receipt, asked, sent, ended, ops, faults>>

\* The timers a failed spawn and a failed write leave.
RetryFires ==
  /\ h.retries > 0
  /\ LET hh == [h EXCEPT !.retries = @ - 1]
     IN  h' = IF ~h.closing /\ h.state = "crashed" /\ h.queue # <<>> THEN Rested(hh) ELSE hh
  /\ UNCHANGED <<flush, flow, proc, turn, stray, held, receipt, asked, sent, ended, ops, faults>>

\* releaseMaxMs have passed (far more than a release takes) and work waits.
ReleaseExpires ==
  /\ "release" \in h.timers
  /\ flow["keeper"].at = "idle"
  /\ LET hh == [h EXCEPT !.timers = @ \ {"release"}]
         back == ~h.closing /\ h.state = "released" /\ h.queue # <<>>
     IN  /\ h' = IF back THEN Rested(hh) ELSE hh
         /\ held' = (held /\ ~back)
  /\ UNCHANGED <<flush, flow, proc, turn, stray, receipt, asked, sent, ended, ops, faults>>

----------------------------------------------------------------------------
(* stopTurn                                                                *)

Spend == ops > 0 /\ ops' = ops - 1

StopTurn ==
  /\ flow["chat"].at = "idle"
  /\ Spend
  /\ h.live /\ h.state = "inFlight"
  /\ h' = [h EXCEPT !.timers = @ \ {"debounce", "steer"}]
  /\ flow' = [flow EXCEPT !["chat"] = [NoFlow EXCEPT !.at = "interrupt", !.proc = h.daemon]]
  /\ UNCHANGED <<flush, proc, turn, stray, held, receipt, asked, sent, ended, faults>>

InterruptOk ==
  /\ flow["chat"].at = "interrupt"
  /\ flow' = [flow EXCEPT !["chat"] = NoFlow]
  /\ h' = IF h.live /\ h.state = "inFlight" THEN [h EXCEPT !.timers = @ \cup {"watchdog"}] ELSE h
  /\ UNCHANGED <<flush, proc, turn, stray, held, receipt, asked, sent, ended, ops, faults>>

\* The fallback: stop the process and let the next flush spawn another.
InterruptFails ==
  /\ flow["chat"].at = "interrupt"
  /\ proc[flow["chat"].proc] = "dying"
  /\ receipt' = Settled(h.inFlight, "failed")
  /\ h' = [h EXCEPT !.inFlight = {}, !.timers = @ \ {"watchdog"}, !.stopping = TRUE]
  /\ flow' = [flow EXCEPT !["chat"] = [NoFlow EXCEPT !.at = "stopping", !.proc = h.daemon, !.mine = TRUE]]
  /\ UNCHANGED <<flush, proc, turn, stray, held, asked, sent, ended, ops, faults>>

Over(f) == ~Alive(flow[f].proc)

\* It ends idle, whatever the state has become during the wait.
Stopped ==
  /\ flow["chat"].at = "stopping" /\ Over("chat")
  /\ flow' = [flow EXCEPT !["chat"] = NoFlow]
  /\ h' = IF flow["chat"].mine THEN Rested([h EXCEPT !.daemon = None, !.stopping = FALSE]) ELSE h
  /\ UNCHANGED <<flush, proc, turn, stray, held, receipt, asked, sent, ended, ops, faults>>

----------------------------------------------------------------------------
(* releaseForTerminal and resetTopic: both stop the process, wait for the  *)
(* flush that was under way, stop what that flush may have spawned.        *)

TearDown(f, op, hh) ==
  /\ receipt' = Settled(h.inFlight \cup (IF op = "release" THEN {} ELSE ToSet(h.queue)), "failed")
  /\ h' = [hh EXCEPT !.inFlight = {}, !.timers = {}]
  /\ proc' = Signalled(h.daemon)
  /\ flow' = [flow EXCEPT ![f] = [at |-> "stop", op |-> op, proc |-> h.daemon,
                                  flushed |-> flush.at # "none", mine |-> TRUE]]

Reset(f) == h.live /\ TearDown(f, Resetting[f], [h EXCEPT !.closing = TRUE])

ChatResets ==
  /\ flow["chat"].at = "idle" /\ Spend
  /\ Reset("chat")
  /\ UNCHANGED <<flush, turn, stray, held, asked, sent, ended, faults>>

Evict ==
  /\ flow["keeper"].at = "idle" /\ Spend
  /\ IsIdleEmpty
  /\ Reset("keeper")
  /\ UNCHANGED <<flush, turn, stray, held, asked, sent, ended, faults>>

Release ==
  /\ flow["keeper"].at = "idle" /\ ~held /\ Spend
  /\ h.live
  /\ TearDown("keeper", "release", [h EXCEPT !.state = "released"])
  /\ UNCHANGED <<flush, turn, stray, held, asked, sent, ended, faults>>

\* Without a handle there is nothing to do, and the request is acknowledged.
ReleaseAbsent ==
  /\ flow["keeper"].at = "idle" /\ ~held /\ Spend
  /\ ~h.live
  /\ held' = TRUE
  /\ UNCHANGED <<h, flush, flow, proc, turn, stray, receipt, asked, sent, ended, faults>>

AwaitsFlush(f) ==
  /\ flow[f].at = "stop" /\ Over(f)
  /\ flow[f].flushed /\ flush.at # "none"
  /\ flow' = [flow EXCEPT ![f].at = "flush"]
  /\ h' = IF flow[f].op = "release" /\ flow[f].mine THEN [h EXCEPT !.daemon = None] ELSE h
  /\ UNCHANGED <<flush, proc, turn, stray, held, receipt, asked, sent, ended, ops, faults>>

\* Faulty variants: nobody waits for the process, or for the flush.
TornDownAtOnce(f) ==
  \/ flow[f].at = "stop" /\ (flow[f].flushed => flush.at = "none")
  \/ flow[f].at = "flush" /\ flush.at = "none"
TornDownUnflushed(f) == flow[f].at \in {"stop", "flush"} /\ Over(f)
TornDown(f) ==
  \/ flow[f].at = "stop" /\ Over(f) /\ (flow[f].flushed => flush.at = "none")
  \/ flow[f].at = "flush" /\ flush.at = "none"

\* The acknowledgement: processReleaseFlags renames the request to .ack.
Released ==
  /\ flow["keeper"].op = "release" /\ TornDown("keeper")
  /\ flow' = [flow EXCEPT !["keeper"] = NoFlow]
  /\ held' = TRUE
  /\ h' = IF ~flow["keeper"].mine THEN h
          ELSE [h EXCEPT !.daemon = None, !.state = "released",
                         !.timers = IF h.queue = <<>> THEN @ ELSE @ \cup {"release"}]
  /\ UNCHANGED <<flush, proc, turn, stray, receipt, asked, sent, ended, ops, faults>>

\* The handle goes if it is still the one the reset began with.  (The second
\* stop of both operations finds no process alive.)
Deleted(f) ==
  /\ flow[f].op = Resetting[f] /\ TornDown(f)
  /\ IF flow[f].mine
     THEN /\ receipt' = Settled(ToSet(h.queue) \cup h.inFlight, "failed")
          /\ h' = NoHandle
          /\ stray' = (stray \/ "debounce" \in h.timers)
          /\ flow' = [g \in Flow |-> IF g = f THEN NoFlow ELSE [flow[g] EXCEPT !.mine = FALSE]]
     ELSE flow' = [flow EXCEPT ![f] = NoFlow] /\ UNCHANGED <<h, receipt, stray>>
  /\ UNCHANGED <<flush, proc, turn, held, asked, sent, ended, ops, faults>>

----------------------------------------------------------------------------
(* The terminal, reacquireFromTerminal                                     *)

TerminalCloses ==
  /\ held
  /\ held' = FALSE
  /\ UNCHANGED <<h, flush, flow, proc, turn, stray, receipt, asked, sent, ended, ops, faults>>

\* processReleaseFlags finds a released topic without an .ack file.
Reacquire ==
  /\ flow["keeper"].at = "idle"
  /\ h.live /\ h.state = "released" /\ ~held
  /\ h' = Rested([h EXCEPT !.timers = @ \ {"release"}])
  /\ UNCHANGED <<flush, flow, proc, turn, stray, held, receipt, asked, sent, ended, ops, faults>>

----------------------------------------------------------------------------
(* idleFlushAndClear: runTurnAndWait, then resetTopic                      *)

Sweep ==
  /\ flow["sweep"].at = "idle" /\ Spend
  /\ IsIdleEmpty /\ Alive(h.daemon)
  /\ h' = [h EXCEPT !.state = "inFlight", !.waiter = TRUE]
  /\ flow' = [flow EXCEPT !["sweep"] = [NoFlow EXCEPT !.at = "prompt", !.proc = h.daemon]]
  /\ UNCHANGED <<flush, proc, turn, stray, held, receipt, asked, sent, ended, faults>>

SweepSent ==
  /\ flow["sweep"].at = "prompt"
  /\ turn' = [turn EXCEPT ![flow["sweep"].proc] = Append(@, <<>>)]
  /\ h' = [h EXCEPT !.timers = @ \cup {"watchdog"}]
  /\ flow' = [flow EXCEPT !["sweep"].at = "waiting"]
  /\ UNCHANGED <<flush, proc, stray, held, receipt, asked, sent, ended, ops, faults>>

SweepSendFails ==
  /\ flow["sweep"].at = "prompt"
  /\ proc[flow["sweep"].proc] = "dying"
  /\ h' = [h EXCEPT !.waiter = FALSE, !.state = "idle"]
  /\ flow' = [flow EXCEPT !["sweep"] = NoFlow]
  /\ UNCHANGED <<flush, proc, turn, stray, held, receipt, asked, sent, ended, ops, faults>>

SweepTimesOut ==
  /\ flow["sweep"].at = "waiting"
  /\ h' = [h EXCEPT !.waiter = FALSE]
  /\ flow' = [flow EXCEPT !["sweep"] = NoFlow]
  /\ UNCHANGED <<flush, proc, turn, stray, held, receipt, asked, sent, ended, ops, faults>>

\* The session is cleared unless a message came during the turn.
SweepClears ==
  /\ flow["sweep"].at = "ended"
  /\ IF IsIdleEmpty THEN Reset("sweep")
     ELSE flow' = [flow EXCEPT !["sweep"] = NoFlow] /\ UNCHANGED <<h, proc, receipt>>
  /\ UNCHANGED <<flush, turn, stray, held, asked, sent, ended, ops, faults>>

----------------------------------------------------------------------------
Init ==
  /\ h = NoHandle
  /\ flush = NoFlush
  /\ flow = [f \in Flow |-> NoFlow]
  /\ proc = [p \in Proc |-> "none"]
  /\ turn = [p \in Proc |-> <<>>]
  /\ stray = FALSE
  /\ held = FALSE
  /\ receipt = [m \in Message |-> "none"]
  /\ asked = <<>>
  /\ sent = <<>>
  /\ ended = {}
  /\ ops = MaxOps
  /\ faults = MaxFaults

Continue ==
  \/ ObsoleteStopped
  \/ Stopped
  \/ \E f \in Flow : AwaitsFlush(f) \/ Deleted(f)
  \/ Released
  \/ SweepClears

Ask == \E m \in Prompt : EnqueueRefused(m) \/ Enqueue(m) \/ EnqueueExpired(m)

Spawned == SpawnOk \/ SpawnFails
Written == SendOk \/ SendFails
Interrupted == InterruptOk \/ InterruptFails
Prompted == SweepSent \/ SweepSendFails

Timers ==
  \/ DebounceFires \/ StrayDebounce
  \/ WatchdogFires \/ SteerFires
  \/ RespawnFires \/ RetryFires \/ ReleaseExpires

Operate ==
  \/ StopTurn \/ ChatResets \/ Evict \/ Sweep
  \/ Release \/ ReleaseAbsent \/ Reacquire \/ TerminalCloses

Macrotask ==
  \/ Ask
  \/ Spawned \/ Written \/ Interrupted \/ Prompted
  \/ \E p \in Proc : TurnEnds(p) \/ Exits(p) \/ Close(p)
  \/ Timers
  \/ Operate
  \/ SweepTimesOut

\* Some flow's await is over: it goes on before the event loop turns.
Ready ==
  \/ flush.at = "obsolete" /\ ~Alive(flush.proc)
  \/ \E f \in Flow : flow[f].at \in {"stop", "stopping"} /\ Over(f)
  \/ \E f \in Flow : flow[f].at = "flush" /\ flush.at = "none"
  \/ flow["sweep"].at = "ended"

Next == Continue \/ (~Ready /\ Macrotask)

Spec == Init /\ [][Next]_vars

----------------------------------------------------------------------------
(* Properties                                                              *)

\* An unsettled receipt is always in the live handle's queue or in its turn:
\* nobody else would ever settle it, and the journal would keep its record
\* "dispatched" for good (registry.ts:129-130).
ReceiptsAccounted ==
  \A m \in Message : receipt[m] = "waiting" => h.live /\ (m \in ToSet(h.queue) \/ m \in h.inFlight)

\* A receipt is resolved only by a turn that carried its prompt: "only when
\* Claude reports the corresponding turn-end" (registry.ts:282-285).
DoneMeansEnded == \A m \in Message : receipt[m] = "done" => m \in ended

\* Prompts reach Claude in the order they came, and none twice, through
\* batches, failed writes, requeues, crashes and respawns.
SentInOrder ==
  \A i, j \in DOMAIN sent : i < j =>
    \E k, l \in DOMAIN asked : k < l /\ asked[k] = sent[i] /\ asked[l] = sent[j]

\* A prompt whose receipt was rejected waits in no queue that will be sent: its
\* outcome is unknown and it "must not be retried automatically" (registry.ts:
\* 925-927).
NotRetried ==
  \A m \in ToSet(h.queue) \cap Message : receipt[m] = "failed" => h.closing

\* Both of the above: every receipt is settled by whoever knows its outcome.
ReceiptsSound == ReceiptsAccounted /\ DoneMeansEnded

\* Both of the above: prompts are sent in order, and at most once.
SentOnceInOrder == SentInOrder /\ NotRetried

\* One Claude process per topic: two on one session would fight for its lock.
SessionExclusive == \A p, q \in Proc : proc[p] # "none" /\ proc[q] # "none" => p = q

\* `cta open` is told to go ahead only when no Claude process is left that could
\* hold the session (registry.ts:439-441: "so no session lock is orphaned").
AckMeansQuiet == [][~held /\ held' => \A p \in Proc : proc'[p] = "none"]_vars

\* An interrupt timer that is armed during a turn was armed for that turn, for
\* work that waits behind it, or the turn's process is already going away: it
\* never interrupts the next, unrelated turn (registry.ts:1003-1005).
SteerFitsTurn ==
  "steer" \in h.timers /\ h.state = "inFlight" => h.queue # <<>> \/ proc[h.daemon] = "dying"

\* Nothing is left that moves the topic by itself: no timer, flush or flow, no
\* process that starts or ends, no topic for the tick to take back.
AtRest ==
  /\ h.timers = {} /\ ~stray /\ h.respawns = 0 /\ h.retries = 0
  /\ flush.at = "none"
  /\ \A f \in Flow : flow[f].at = "idle"
  /\ \A p \in Proc : proc[p] \in {"none", "up"}
  /\ h.state = "released" => held

\* Nobody waits for ever: however a turn ended, hung, crashed, was stopped or
\* released, a waiting receipt has something under way that will settle it, also
\* when no message, terminal or user ever comes again (registry.ts:1000-1008).
NothingWaitsAtRest == AtRest => \A m \in Message : receipt[m] # "waiting"

\* What registry.ts:404-405 says of the hand-off: messages "queue silently until
\* reacquireFromTerminal", so no process of the topic runs beside the terminal.
HandoffHolds == held => \A p \in Proc : proc[p] = "none"
=============================================================================
