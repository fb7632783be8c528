------------------------ MODULE DaemonRegistryProofs ------------------------
(***************************************************************************)
(* Theorems about DaemonRegistry, for every set of prompts and processes.  *)
(***************************************************************************)
EXTENDS DaemonRegistry, SequenceTheorems, WellFoundedInduction, TLAPS

USE RegistryConstants DEF Flow

----------------------------------------------------------------------------
(* Types                                                                   *)

Handle ==
  [live : BOOLEAN, closing : BOOLEAN,
   state : {"idle", "pending", "inFlight", "crashed", "released"},
   daemon : Proc \cup {None}, queue : Seq(Prompt), inFlight : SUBSET Message,
   timers : SUBSET {"debounce", "steer", "watchdog", "release"},
   respawns : Nat, retries : Nat, stopping : BOOLEAN, waiter : BOOLEAN, spawnFailures : Nat]

FlushStates ==
  [at : {"none", "spawn", "send", "obsolete"}, proc : Proc \cup {None}, batch : Seq(Prompt)]

FlowStates ==
  [at : {"idle", "interrupt", "stopping", "prompt", "waiting", "ended", "stop", "flush"},
   op : {"none", "release", "reset", "evict", "clear"},
   proc : Proc \cup {None}, flushed : BOOLEAN, mine : BOOLEAN]

Typed ==
  /\ h \in Handle
  /\ flush \in FlushStates
  /\ flow \in [Flow -> FlowStates]
  /\ proc \in [Proc -> {"none", "starting", "up", "dying"}]
  /\ turn \in [Proc -> Seq(Seq(Prompt))]
  /\ stray \in BOOLEAN /\ held \in BOOLEAN
  /\ receipt \in [Message -> {"none", "waiting", "done", "failed"}]
  /\ asked \in Seq(Prompt) /\ sent \in Seq(Prompt) /\ ended \subseteq Prompt
  /\ ops \in Nat /\ faults \in Nat

LEMMA Empty == <<>> \in Seq(Prompt) /\ <<>> \in Seq(Seq(Prompt))
OBVIOUS

LEMMA RestedHandle ==
  ASSUME NEW hh \in Handle
  PROVE  /\ Rested(hh) \in Handle
         /\ Rested(hh).live = hh.live /\ Rested(hh).closing = hh.closing
         /\ Rested(hh).daemon = hh.daemon /\ Rested(hh).queue = hh.queue
         /\ Rested(hh).inFlight = hh.inFlight /\ Rested(hh).stopping = hh.stopping
         /\ Rested(hh).waiter = hh.waiter
         /\ Rested(hh).state \in {"idle", "pending"}
         /\ "steer" \in Rested(hh).timers <=> "steer" \in hh.timers
BY DEF Rested, Handle

LEMMA QueuedHandle ==
  ASSUME h \in Handle, NEW m \in Prompt
  PROVE  /\ Queued(m) \in Handle
         /\ Queued(m).live = TRUE /\ Queued(m).closing = h.closing
         /\ Queued(m).daemon = h.daemon /\ Queued(m).queue = Append(h.queue, m)
         /\ Queued(m).inFlight = h.inFlight /\ Queued(m).stopping = h.stopping
         /\ Queued(m).state = h.state /\ Queued(m).timers = h.timers
         /\ Queued(m).waiter = h.waiter
<1>1. Append(h.queue, m) \in Seq(Prompt)
  BY DEF Handle
<1>2. Queued(m) \in Handle
  BY <1>1 DEF Queued, Handle
<1> QED BY <1>2 DEF Queued, Handle

LEMMA TakenHandle ==
  ASSUME NEW hh \in Handle
  PROVE  /\ BatchTaken(hh) \in Handle
         /\ BatchTaken(hh).live = hh.live /\ BatchTaken(hh).closing = hh.closing
         /\ BatchTaken(hh).daemon = hh.daemon /\ BatchTaken(hh).queue = <<>>
         /\ BatchTaken(hh).inFlight = ToSet(hh.queue) \cap Message
         /\ BatchTaken(hh).stopping = hh.stopping /\ BatchTaken(hh).waiter = hh.waiter
         /\ BatchTaken(hh).state = "inFlight" /\ BatchTaken(hh).timers = hh.timers
<1> DEFINE b == ToSet(hh.queue) \cap Message
<1>1. b \in SUBSET Message
  OBVIOUS
<1>2. BatchTaken(hh) = [hh EXCEPT !.queue = <<>>, !.inFlight = b, !.state = "inFlight"]
  BY DEF BatchTaken
<1> HIDE DEF b
<1>3. [hh EXCEPT !.queue = <<>>, !.inFlight = b, !.state = "inFlight"] \in Handle
  BY <1>1, Empty DEF Handle
<1>4. BatchTaken(hh) \in Handle
  BY <1>2, <1>3
<1>5. /\ BatchTaken(hh).live = hh.live /\ BatchTaken(hh).closing = hh.closing
      /\ BatchTaken(hh).daemon = hh.daemon /\ BatchTaken(hh).queue = <<>>
      /\ BatchTaken(hh).inFlight = b
      /\ BatchTaken(hh).stopping = hh.stopping /\ BatchTaken(hh).waiter = hh.waiter
      /\ BatchTaken(hh).state = "inFlight" /\ BatchTaken(hh).timers = hh.timers
  BY <1>1, <1>2 DEF Handle
<1> QED BY <1>4, <1>5 DEF b

----------------------------------------------------------------------------
(* Who owns the session: the shape of the handle, its flush, the flows over *)
(* it and the processes.                                                    *)

Tearing(f) == flow[f].at \in {"stop", "flush"}
Resets(f) == flow[f].op \in {"reset", "evict", "clear"}
Quiet == flush.at = "none" /\ \A p \in Proc : proc[p] = "none"
Turning == \E p \in Proc : turn[p] # <<>>
Interrupting == flow["chat"].at \in {"interrupt", "stopping"}

Places ==
  /\ flow["chat"].at \in {"idle", "interrupt", "stopping", "stop", "flush"}
  /\ flow["keeper"].at \in {"idle", "stop", "flush"}
  /\ flow["sweep"].at \in {"idle", "prompt", "waiting", "ended", "stop", "flush"}
  /\ \A f \in Flow : Tearing(f) => Resets(f) \/ (f = "keeper" /\ flow[f].op = "release")

Bare(hh) == /\ hh.state = "idle" /\ hh.queue = <<>> /\ hh.timers = {}
            /\ hh.respawns = 0 /\ hh.retries = 0

Present ==
  ~h.live => /\ Bare(h) /\ flush.at = "none" /\ h.daemon = None /\ h.inFlight = {}
             /\ ~h.closing /\ ~h.stopping

Owned ==
  \A p \in Proc : proc[p] # "none" =>
    IF proc[p] = "starting" THEN flush.at = "spawn" /\ p = flush.proc ELSE p = h.daemon

FlushSound ==
  /\ flush.at = "spawn" => flush.proc \in Proc /\ proc[flush.proc] = "starting" /\ ~Alive(h.daemon)
  /\ flush.at = "send" => flush.proc = h.daemon /\ Alive(h.daemon)
  /\ flush.at = "obsolete" /\ Alive(h.daemon) => flush.proc = h.daemon
  /\ flush.at \in {"spawn", "obsolete"} =>
       h.state # "inFlight" /\ h.queue # <<>> /\ ~Interrupting /\ flow["sweep"].at # "prompt"

ChatSound ==
  /\ flow["chat"].at = "interrupt" => flow["chat"].proc = h.daemon /\ Alive(h.daemon)
  /\ flow["chat"].at = "stopping" =>
       IF flow["chat"].mine
       THEN h.live /\ h.stopping /\ (flow["chat"].proc = h.daemon \/ (~Alive(h.daemon) /\ Over("chat")))
       ELSE Quiet /\ h.state # "inFlight"
  /\ h.stopping => flow["chat"].at = "stopping" /\ flow["chat"].mine

SweepSound ==
  /\ flow["sweep"].at = "prompt" => flow["sweep"].proc = h.daemon /\ Alive(h.daemon)
  /\ h.waiter => flow["sweep"].at \in {"prompt", "waiting"}

Torn(f) ==
  /\ h.live
  /\ Resets(f) => h.closing
  /\ flow[f].op = "release" =>
       h.closing \/ h.state = "released" \/ (flow[f].at = "stop" /\ flush.at \notin {"spawn", "obsolete"})
  /\ flow[f].at = "stop" =>
       /\ flow[f].proc = h.daemon \/ Over(f)
       /\ flush.at \in {"spawn", "obsolete"} => flow[f].flushed
  /\ flow[f].at = "flush" => ~Interrupting
  /\ Alive(h.daemon) => IF flow[f].at = "stop" THEN flow[f].proc = h.daemon ELSE flush.at = "obsolete"
  /\ f # "chat" /\ Resets(f) => flow[f].at = "stop" /\ ~flow[f].flushed

TearSound == \A f \in Flow : Tearing(f) => IF flow[f].mine THEN Torn(f) ELSE Quiet

ClosingSound == h.closing => \E f \in Flow : Tearing(f) /\ flow[f].mine /\ Resets(f)

TurnSound ==
  /\ flush.at = "send" \/ flow["sweep"].at = "prompt" \/ Turning => h.state \in {"inFlight", "released"}
  /\ \A p \in Proc : turn[p] # <<>> => proc[p] \in {"up", "dying"} /\ Len(turn[p]) = 1
  /\ ~(flush.at = "send" /\ flow["sweep"].at = "prompt")
  /\ Turning => flush.at # "send" /\ flow["sweep"].at # "prompt"

ReleasedSound ==
  h.state = "released" => Quiet \/ (Tearing("keeper") /\ flow["keeper"].mine /\ flow["keeper"].op = "release")

InFlightSound ==
  h.state = "inFlight" => Alive(h.daemon) \/ h.closing \/ (flow["chat"].at = "stopping" /\ Over("chat"))

SteerSound == "steer" \in h.timers =>
  Alive(h.daemon) /\ (proc[h.daemon] = "dying" \/ (h.state = "inFlight" /\ h.queue # <<>>))

Shape ==
  /\ Places /\ Present /\ Owned
  /\ FlushSound /\ ChatSound /\ SweepSound
  /\ TearSound /\ ClosingSound
  /\ TurnSound /\ ReleasedSound /\ InFlightSound /\ SteerSound

----------------------------------------------------------------------------
(* Steps that leave the flush, the turns and who owns what alone.          *)

Mild ==
  /\ Typed'
  /\ flush' = flush /\ turn' = turn
  /\ \A f \in Flow : \/ flow'[f] = flow[f]
                     \/ flow[f].at \in {"interrupt", "waiting", "ended"} /\ flow'[f].at = "idle"
  /\ \A p \in Proc : /\ proc'[p] = "none" <=> proc[p] = "none"
                     /\ proc'[p] = "starting" <=> proc[p] = "starting"
                     /\ proc[p] = "dying" => proc'[p] = "dying"
  /\ h'.live \/ (~h.live /\ Bare(h'))
  /\ h'.closing = h.closing /\ h'.stopping = h.stopping /\ h'.daemon = h.daemon
  /\ h'.inFlight = h.inFlight
  /\ h.queue # <<>> => h'.queue # <<>>
  /\ \/ h'.state = h.state
     \/ /\ h'.state \in {"idle", "pending"}
        /\ h.state \in {"idle", "pending", "crashed"} \/ (h.state = "released" /\ flow["keeper"].at = "idle")
  /\ "steer" \in h'.timers =>
       \/ "steer" \in h.timers
       \/ Alive(h.daemon) /\ h'.state = "inFlight" /\ h'.queue # <<>>
  /\ h'.waiter => h.waiter /\ flow'["sweep"] = flow["sweep"]

LEMMA MildKeepsShape ==
  ASSUME Typed, Shape, Mild
  PROVE  Shape'
<1>1. Places'
  BY DEF Shape, Places, Mild, Tearing, Resets
<1>2. Present'
  BY DEF Typed, Shape, Present, Mild
<1>3. Owned'
  BY DEF Typed, Shape, Owned, Mild
<1> DEFINE alive == \A p \in Proc \cup {None} : Alive(p)' <=> Alive(p)
<1>4. alive
  BY DEF Mild, Alive
<1>5. FlushSound'
  BY <1>4 DEF Typed, Shape, FlushSound, Mild, Interrupting, Handle, FlushStates
<1>6. ChatSound'
  <2>1. Quiet => Quiet'
    BY DEF Mild, Quiet
  <2>2. flow'["chat"] = flow["chat"] \/ flow'["chat"].at = "idle"
    BY DEF Mild
  <2>3. CASE flow'["chat"] = flow["chat"]
    BY <1>4, <2>1, <2>3 DEF Typed, Shape, ChatSound, Mild, Over, Handle, FlowStates
  <2>4. CASE flow["chat"].at = "interrupt" /\ flow'["chat"].at = "idle"
    BY <2>4 DEF Typed, Shape, ChatSound, Mild
  <2> QED BY <2>3, <2>4 DEF Shape, Places, Mild
<1>7. SweepSound'
  BY <1>4 DEF Typed, Shape, SweepSound, Mild, Handle
<1>8. TearSound'
  <2> SUFFICES ASSUME NEW f \in Flow, Tearing(f)'
               PROVE  IF flow'[f].mine THEN Torn(f)' ELSE Quiet'
    BY DEF TearSound
  <2>1. flow'[f] = flow[f] /\ Tearing(f)
    BY DEF Mild, Tearing
  <2>2. Quiet => Quiet'
    BY DEF Mild, Quiet
  <2>3. Interrupting' => Interrupting
    BY DEF Mild, Interrupting
  <2>4. Over(f)' <=> Over(f)
    BY <1>4, <2>1 DEF Over, Typed, FlowStates
  <2>5. f = "keeper" => flow["keeper"].at # "idle"
    BY <2>1 DEF Tearing
  <2>6. Torn(f) => Torn(f)'
    BY <1>4, <2>1, <2>3, <2>4, <2>5 DEF Torn, Resets, Mild, Typed, Handle, Shape, Places, Tearing
  <2> QED BY <2>1, <2>2, <2>6 DEF Shape, TearSound
<1>9. ClosingSound'
  BY DEF Typed, Shape, ClosingSound, Tearing, Resets, Mild
<1>10. TurnSound'
  <2>1. h.state = "released" /\ flow["keeper"].at = "idle" =>
          ~(flush.at = "send" \/ flow["sweep"].at = "prompt" \/ Turning)
    BY DEF Shape, ReleasedSound, Quiet, Tearing, TurnSound, Turning, SweepSound, Alive, Typed, Handle
  <2>2. flow'["sweep"].at = "prompt" => flow["sweep"].at = "prompt"
    BY DEF Mild
  <2>3. Turning' <=> Turning
    BY DEF Turning, Mild
  <2>4. flush.at = "send" \/ flow["sweep"].at = "prompt" \/ Turning => h'.state = h.state
    BY <2>1 DEF Shape, TurnSound, Mild
  <2>5. \A p \in Proc : turn'[p] # <<>> => proc'[p] \in {"up", "dying"} /\ Len(turn'[p]) = 1
    <3> SUFFICES ASSUME NEW p \in Proc, turn'[p] # <<>>
                 PROVE  proc'[p] \in {"up", "dying"} /\ Len(turn'[p]) = 1
      OBVIOUS
    <3>1. turn[p] # <<>> /\ turn'[p] = turn[p]
      BY DEF Mild
    <3>2. proc[p] \in {"up", "dying"} /\ Len(turn[p]) = 1
      BY <3>1 DEF Shape, TurnSound
    <3>3. proc'[p] \in {"none", "starting", "up", "dying"}
      BY DEF Mild, Typed
    <3> QED BY <3>1, <3>2, <3>3 DEF Mild
  <2> QED BY <2>2, <2>3, <2>4, <2>5 DEF Shape, TurnSound, Mild
<1>11. ReleasedSound'
  BY DEF Typed, Shape, ReleasedSound, Quiet, Tearing, Mild
<1>12. InFlightSound'
  BY <1>4 DEF Typed, Shape, InFlightSound, Mild, Over, Handle, FlowStates
<1>13. SteerSound'
  BY <1>4 DEF Typed, Shape, SteerSound, Mild, Handle, Alive
<1> QED BY <1>1, <1>2, <1>3, <1>5, <1>6, <1>7, <1>8, <1>9, <1>10, <1>11, <1>12, <1>13 DEF Shape

\* A handle that differs from h in no more than a timer that went off, a count
\* or a steer timer just armed.
Alike(hh) ==
  /\ hh \in Handle
  /\ hh.live = h.live /\ hh.closing = h.closing /\ hh.stopping = h.stopping
  /\ hh.daemon = h.daemon /\ hh.inFlight = h.inFlight /\ hh.queue = h.queue
  /\ hh.state = h.state /\ hh.waiter = h.waiter
  /\ "steer" \in hh.timers => "steer" \in h.timers

\* What Mild asks of the handle.
MildHandle ==
  /\ h' \in Handle
  /\ h'.live \/ (~h.live /\ Bare(h'))
  /\ h'.closing = h.closing /\ h'.stopping = h.stopping /\ h'.daemon = h.daemon
  /\ h'.inFlight = h.inFlight
  /\ h.queue # <<>> => h'.queue # <<>>
  /\ \/ h'.state = h.state
     \/ /\ h'.state \in {"idle", "pending"}
        /\ h.state \in {"idle", "pending", "crashed"} \/ (h.state = "released" /\ flow["keeper"].at = "idle")
  /\ "steer" \in h'.timers =>
       \/ "steer" \in h.timers
       \/ Alive(h.daemon) /\ h'.state = "inFlight" /\ h'.queue # <<>>
  /\ h'.waiter => h.waiter

BooksKept == h'.queue = h.queue /\ UNCHANGED <<receipt, asked, sent, ended>>

LEMMA RespawnMild ==
  ASSUME Typed, Shape, RespawnFires
  PROVE  Mild /\ BooksKept
<1> DEFINE hh == [h EXCEPT !.respawns = @ - 1]
<1>1. Alike(hh)
  <2>1. h.respawns - 1 \in Nat
    BY DEF Typed, Handle, RespawnFires
  <2> QED BY <2>1 DEF Typed, Handle, Alike
<1>2. h' = IF ~h.closing /\ h.state = "crashed" THEN Rested(hh) ELSE hh
  BY DEF RespawnFires
<1>3. h.live
  BY DEF RespawnFires, Shape, Present, Bare
<1> HIDE DEF hh
<1>4. MildHandle /\ h'.queue = h.queue
  BY <1>1, <1>2, <1>3, RestedHandle DEF Alike, MildHandle
<1> QED BY <1>4 DEF RespawnFires, Typed, Mild, MildHandle, BooksKept

\* What a signal does to the processes.
SignalledProc(pp) ==
  /\ pp \in [Proc -> {"none", "starting", "up", "dying"}]
  /\ \A p \in Proc : /\ pp[p] = "none" <=> proc[p] = "none"
                     /\ pp[p] = "starting" <=> proc[p] = "starting"
                     /\ proc[p] = "dying" => pp[p] = "dying"

LEMMA SignalledDaemon ==
  ASSUME Typed, Shape
  PROVE  SignalledProc(Signalled(h.daemon)) /\ SignalledProc(proc)
<1>1. SignalledProc(proc)
  BY DEF Typed, SignalledProc
<1>2. CASE ~Alive(h.daemon)
  BY <1>1, <1>2 DEF Signalled
<1>3. CASE Alive(h.daemon)
  <2>1. h.daemon \in Proc /\ proc[h.daemon] # "none"
    BY <1>3 DEF Typed, Handle, Alive
  <2>2. proc[h.daemon] # "starting"
    BY <1>3, <2>1 DEF Shape, Owned, FlushSound
  <2> QED BY <1>1, <1>3, <2>1, <2>2 DEF Typed, Signalled, SignalledProc
<1> QED BY <1>2, <1>3

LEMMA RetryMild ==
  ASSUME Typed, Shape, RetryFires
  PROVE  Mild /\ BooksKept
<1> DEFINE hh == [h EXCEPT !.retries = @ - 1]
<1>1. Alike(hh)
  <2>1. h.retries - 1 \in Nat
    BY DEF Typed, Handle, RetryFires
  <2> QED BY <2>1 DEF Typed, Handle, Alike
<1>2. h' = IF ~h.closing /\ h.state = "crashed" /\ h.queue # <<>> THEN Rested(hh) ELSE hh
  BY DEF RetryFires
<1>3. h.live
  BY DEF RetryFires, Shape, Present, Bare
<1> HIDE DEF hh
<1>4. MildHandle /\ h'.queue = h.queue
  BY <1>1, <1>2, <1>3, RestedHandle DEF Alike, MildHandle
<1> QED BY <1>4 DEF RetryFires, Typed, Mild, MildHandle, BooksKept

LEMMA ReleaseExpiresMild ==
  ASSUME Typed, Shape, ReleaseExpires
  PROVE  Mild /\ BooksKept
<1> DEFINE hh == [h EXCEPT !.timers = @ \ {"release"}]
<1>1. Alike(hh)
  BY DEF Typed, Handle, Alike
<1>2. h' = IF ~h.closing /\ h.state = "released" /\ h.queue # <<>> THEN Rested(hh) ELSE hh
  BY DEF ReleaseExpires
<1>3. h.live /\ flow["keeper"].at = "idle"
  BY DEF ReleaseExpires, Shape, Present, Bare
<1> HIDE DEF hh
<1>4. MildHandle /\ h'.queue = h.queue
  BY <1>1, <1>2, <1>3, RestedHandle DEF Alike, MildHandle
<1>5. held' \in BOOLEAN
  BY Zenon DEF Typed, ReleaseExpires
<1> QED BY <1>4, <1>5 DEF ReleaseExpires, Typed, Mild, MildHandle, BooksKept

LEMMA ReacquireMild ==
  ASSUME Typed, Shape, Reacquire
  PROVE  Mild /\ BooksKept
<1> DEFINE hh == [h EXCEPT !.timers = @ \ {"release"}]
<1>1. Alike(hh)
  BY DEF Typed, Handle, Alike
<1>2. h' = Rested(hh) /\ h.live /\ h.state = "released" /\ flow["keeper"].at = "idle"
  BY DEF Reacquire
<1> HIDE DEF hh
<1>4. MildHandle /\ h'.queue = h.queue
  BY <1>1, <1>2, RestedHandle DEF Alike, MildHandle
<1> QED BY <1>4 DEF Reacquire, Typed, Mild, MildHandle, BooksKept

LEMMA SteerMild ==
  ASSUME Typed, Shape, SteerFires
  PROVE  Mild /\ BooksKept
<1> DEFINE hh == [h EXCEPT !.timers = @ \ {"steer"}]
           hw == [hh EXCEPT !.timers = @ \cup {"watchdog"}]
<1>1. Alike(hh) /\ Alike(hw)
  BY DEF Typed, Handle, Alike
<1>2. (h' = hh \/ h' = hw) /\ h.live
  BY DEF SteerFires, Shape, Present, Bare
<1> HIDE DEF hh, hw
<1>4. MildHandle /\ h'.queue = h.queue
  BY <1>1, <1>2 DEF Alike, MildHandle
<1> QED BY <1>4 DEF SteerFires, Typed, Mild, MildHandle, BooksKept

LEMMA WatchdogMild ==
  ASSUME Typed, Shape, WatchdogFires
  PROVE  Mild /\ BooksKept
<1> DEFINE hh == [h EXCEPT !.timers = @ \ {"watchdog"}]
<1>1. Alike(hh)
  BY DEF Typed, Handle, Alike
<1>2. h' = hh /\ h.live
  BY DEF WatchdogFires, Shape, Present, Bare
<1> HIDE DEF hh
<1>3. MildHandle /\ h'.queue = h.queue
  BY <1>1, <1>2 DEF Alike, MildHandle
<1>4. SignalledProc(proc')
  BY SignalledDaemon DEF WatchdogFires
<1> QED BY <1>3, <1>4 DEF WatchdogFires, Typed, Mild, MildHandle, BooksKept, SignalledProc

LEMMA ExitsMild ==
  ASSUME Typed, Shape, NEW p \in Proc, Exits(p)
  PROVE  Mild /\ BooksKept
<1>1. MildHandle
  BY DEF Typed, Shape, Present, Bare, MildHandle, Exits
<1>2. SignalledProc(proc')
  BY DEF Typed, SignalledProc, Exits
<1>3. faults' \in Nat
  BY DEF Typed, Exits
<1> QED BY <1>1, <1>2, <1>3 DEF Exits, Typed, Mild, MildHandle, BooksKept, SignalledProc

LEMMA ReleaseAbsentMild ==
  ASSUME Typed, Shape, ReleaseAbsent
  PROVE  Mild /\ BooksKept
<1>1. MildHandle
  BY DEF Typed, Shape, Present, Bare, MildHandle, ReleaseAbsent
<1>2. ops' \in Nat
  BY DEF Typed, ReleaseAbsent, Spend
<1> QED BY <1>1, <1>2 DEF ReleaseAbsent, Typed, Mild, MildHandle, BooksKept

LEMMA TerminalClosesMild ==
  ASSUME Typed, Shape, TerminalCloses
  PROVE  Mild /\ BooksKept
<1>1. MildHandle
  BY DEF Typed, Shape, Present, Bare, MildHandle, TerminalCloses
<1> QED BY <1>1 DEF TerminalCloses, Typed, Mild, MildHandle, BooksKept

LEMMA InterruptOkMild ==
  ASSUME Typed, Shape, InterruptOk
  PROVE  Mild /\ BooksKept
<1>1. MildHandle /\ h'.queue = h.queue
  BY DEF Typed, Handle, Shape, Present, Bare, MildHandle, InterruptOk
<1>2. flow' \in [Flow -> FlowStates]
  BY DEF Typed, FlowStates, InterruptOk, NoFlow
<1>3. /\ \A f \in Flow : \/ flow'[f] = flow[f]
                         \/ flow[f].at = "interrupt" /\ flow'[f].at = "idle"
      /\ flow'["sweep"] = flow["sweep"]
  <2>1. flow \in [Flow -> FlowStates] /\ NoFlow.at = "idle"
    BY DEF Typed, NoFlow
  <2>2. flow["chat"].at = "interrupt" /\ flow' = [flow EXCEPT !["chat"] = NoFlow]
    BY DEF InterruptOk
  <2>3. flow'["chat"].at = "idle" /\ flow'["sweep"] = flow["sweep"] /\ flow'["keeper"] = flow["keeper"]
    BY <2>1, <2>2
  <2> QED BY <2>2, <2>3
<1> QED BY <1>1, <1>2, <1>3 DEF InterruptOk, Typed, Mild, MildHandle, BooksKept

LEMMA SweepTimesOutMild ==
  ASSUME Typed, Shape, SweepTimesOut
  PROVE  Mild /\ BooksKept
<1>1. MildHandle /\ h'.queue = h.queue /\ h'.waiter = FALSE
  <2>1. h' = [h EXCEPT !.waiter = FALSE]
    BY DEF SweepTimesOut
  <2>2. ~h.live => Bare(h)
    BY DEF Shape, Present
  <2> QED BY <2>1, <2>2 DEF Typed, Handle, MildHandle, Bare
<1>2. flow' \in [Flow -> FlowStates]
  BY DEF Typed, FlowStates, SweepTimesOut, NoFlow
<1>3. \A f \in Flow : \/ flow'[f] = flow[f]
                      \/ flow[f].at = "waiting" /\ flow'[f].at = "idle"
  <2>1. flow \in [Flow -> FlowStates] /\ NoFlow.at = "idle"
    BY DEF Typed, NoFlow
  <2>2. flow["sweep"].at = "waiting" /\ flow' = [flow EXCEPT !["sweep"] = NoFlow]
    BY DEF SweepTimesOut
  <2>3. flow'["sweep"].at = "idle" /\ flow'["chat"] = flow["chat"] /\ flow'["keeper"] = flow["keeper"]
    BY <2>1, <2>2
  <2> QED BY <2>2, <2>3
<1> QED BY <1>1, <1>2, <1>3 DEF SweepTimesOut, Typed, Mild, MildHandle, BooksKept

\* A new prompt changes the books in one place.
Entered(m) ==
  /\ m \notin ToSet(asked) /\ asked' = Append(asked, m)
  /\ UNCHANGED <<sent, ended>>
  /\ \E outcome \in {"waiting", "failed"} :
       /\ receipt' = Awaiting(m, outcome)
       /\ IF outcome = "waiting" THEN h'.queue = Append(h.queue, m) /\ h'.live ELSE h'.queue = h.queue

LEMMA AskedTypes ==
  ASSUME Typed, NEW m \in Prompt, MayAsk(m), NEW outcome \in {"waiting", "failed"}
  PROVE  /\ asked' \in Seq(Prompt)
         /\ Awaiting(m, outcome) \in [Message -> {"none", "waiting", "done", "failed"}]
BY DEF Typed, MayAsk, Awaiting

LEMMA AppendedSome ==
  ASSUME Typed, NEW m \in Prompt
  PROVE  Append(h.queue, m) # <<>>
<1>1. h.queue \in Seq(Prompt)
  BY DEF Typed, Handle
<1>2. Append(h.queue, m) \in Seq(Prompt) /\ Len(Append(h.queue, m)) = Len(h.queue) + 1
  BY <1>1, AppendProperties
<1>3. Len(h.queue) \in Nat
  BY <1>1
<1>4. Len(Append(h.queue, m)) # 0
  BY <1>2, <1>3
<1> QED BY <1>4

LEMMA EnqueueRefusedMild ==
  ASSUME Typed, Shape, NEW m \in Prompt, EnqueueRefused(m)
  PROVE  Mild /\ Entered(m)
<1>1. MildHandle
  BY DEF Typed, Shape, Present, Bare, MildHandle, EnqueueRefused
<1>2. asked' \in Seq(Prompt) /\ receipt' \in [Message -> {"none", "waiting", "done", "failed"}]
  BY AskedTypes DEF EnqueueRefused
<1>3. Mild
  BY <1>1, <1>2 DEF EnqueueRefused, Typed, Mild, MildHandle
<1>4. Entered(m)
  BY DEF EnqueueRefused, Entered, MayAsk
<1> QED BY <1>3, <1>4

LEMMA EnqueueMild ==
  ASSUME Typed, Shape, ~Ready, NEW m \in Prompt, Enqueue(m)
  PROVE  Mild /\ Entered(m)
<1>1. PICK steers \in AutoSteer :
        h' = CASE h.state = "released" -> [Queued(m) EXCEPT !.timers = @ \cup {"release"}]
               [] h.state = "inFlight" -> [Queued(m) EXCEPT !.timers = IF steers THEN @ \cup {"steer"} ELSE @]
               [] OTHER -> Rested(Queued(m))
  BY DEF Enqueue
<1> DEFINE q == Queued(m)
           qr == [q EXCEPT !.timers = @ \cup {"release"}]
           qs == [q EXCEPT !.timers = IF steers THEN @ \cup {"steer"} ELSE @]
           Waits(hh) ==
             /\ hh \in Handle
             /\ hh.live /\ hh.closing = h.closing /\ hh.stopping = h.stopping
             /\ hh.daemon = h.daemon /\ hh.inFlight = h.inFlight /\ hh.queue = Append(h.queue, m)
             /\ hh.state = h.state /\ hh.waiter = h.waiter
<1>2. Waits(q) /\ q.timers = h.timers
  BY QueuedHandle DEF Typed
<1>3. \/ h.state = "released" /\ h' = qr
      \/ h.state = "inFlight" /\ h' = qs
      \/ h.state \notin {"released", "inFlight"} /\ h' = Rested(q)
  BY <1>1
<1> HIDE DEF q
<1>4. Waits(qr) /\ ("steer" \in qr.timers => "steer" \in h.timers)
  BY <1>2 DEF Handle
<1>5. Waits(qs)
  BY <1>2 DEF Handle
<1>6. Append(h.queue, m) # <<>>
  BY AppendedSome
<1>7. h.state = "inFlight" => Alive(h.daemon)
  BY DEF Shape, InFlightSound, Enqueue, Ready
<1>8. h.state \in {"idle", "pending", "inFlight", "crashed", "released"}
  BY DEF Typed, Handle
<1> HIDE DEF qr, qs
<1>9. MildHandle /\ h'.queue = Append(h.queue, m) /\ h'.live
  <2>1. CASE h.state = "released" /\ h' = qr
    BY <1>4, <1>6, <2>1 DEF MildHandle
  <2>2. CASE h.state = "inFlight" /\ h' = qs
    BY <1>5, <1>6, <1>7, <2>2 DEF MildHandle
  <2>3. CASE h.state \notin {"released", "inFlight"} /\ h' = Rested(q)
    BY <1>2, <1>6, <1>8, <2>3, RestedHandle DEF MildHandle
  <2> QED BY <1>3, <2>1, <2>2, <2>3
<1>10. asked' \in Seq(Prompt) /\ receipt' \in [Message -> {"none", "waiting", "done", "failed"}]
  BY AskedTypes DEF Enqueue
<1>11. Mild
  BY <1>9, <1>10 DEF Enqueue, Typed, Mild, MildHandle
<1>12. Entered(m)
  BY <1>9 DEF Enqueue, Entered, MayAsk
<1> QED BY <1>11, <1>12

LEMMA EnqueueExpiredMild ==
  ASSUME Typed, Shape, NEW m \in Prompt, EnqueueExpired(m)
  PROVE  Mild /\ Entered(m)
<1> DEFINE q == Queued(m)
           qr == [q EXCEPT !.timers = @ \ {"release"}]
<1>1. /\ qr \in Handle
      /\ qr.live /\ qr.closing = h.closing /\ qr.stopping = h.stopping
      /\ qr.daemon = h.daemon /\ qr.inFlight = h.inFlight /\ qr.queue = Append(h.queue, m)
      /\ qr.waiter = h.waiter
      /\ "steer" \in qr.timers => "steer" \in h.timers
  <2>1. h \in Handle
    BY DEF Typed
  <2>2. /\ q \in Handle
        /\ q.live /\ q.closing = h.closing /\ q.stopping = h.stopping
        /\ q.daemon = h.daemon /\ q.inFlight = h.inFlight /\ q.queue = Append(h.queue, m)
        /\ q.state = h.state /\ q.waiter = h.waiter /\ q.timers = h.timers
    BY <2>1, QueuedHandle
  <2> HIDE DEF q
  <2> QED BY <2>1, <2>2 DEF Handle
<1>2. h.state = "released" /\ flow["keeper"].at = "idle" /\ h' = Rested(qr)
  BY DEF EnqueueExpired
<1>3. Append(h.queue, m) # <<>>
  BY AppendedSome
<1> HIDE DEF qr
<1>6. MildHandle /\ h'.queue = Append(h.queue, m) /\ h'.live
  BY <1>1, <1>2, <1>3, RestedHandle DEF MildHandle
<1>7. asked' \in Seq(Prompt) /\ receipt' \in [Message -> {"none", "waiting", "done", "failed"}]
  BY AskedTypes DEF EnqueueExpired
<1>8. Mild
  BY <1>6, <1>7 DEF EnqueueExpired, Typed, Mild, MildHandle
<1>9. Entered(m)
  BY <1>6 DEF EnqueueExpired, Entered, MayAsk
<1> QED BY <1>8, <1>9

----------------------------------------------------------------------------
(* The flush: nothing to do, a batch for the process there is, or a spawn. *)

Taken(p) ==
  /\ h'.live = h.live /\ h'.closing = h.closing /\ h'.stopping = h.stopping /\ h'.waiter = h.waiter
  /\ h'.daemon = p /\ h'.queue = <<>> /\ h'.inFlight = ToSet(h.queue) \cap Message
  /\ h'.state = "inFlight"
  /\ "steer" \in h'.timers => "steer" \in h.timers
  /\ flush'.at = "send" /\ flush'.proc = p /\ flush'.batch = h.queue

Sends ==
  /\ Typed' /\ UNCHANGED <<flow, proc, turn, receipt, asked, sent, ended>>
  /\ flush.at = "none" /\ h.state \notin {"inFlight", "released"} /\ ~h.closing /\ h.queue # <<>>
  /\ Alive(h.daemon) /\ Taken(h.daemon)

Spawns ==
  /\ Typed' /\ UNCHANGED <<flow, turn, receipt, asked, sent, ended>>
  /\ flush.at = "none" /\ h.state \notin {"inFlight", "released"} /\ ~h.closing /\ h.queue # <<>>
  /\ ~Alive(h.daemon) /\ Alike(h')
  /\ \E p \in Proc : /\ proc[p] = "none" /\ p # h.daemon /\ proc' = [proc EXCEPT ![p] = "starting"]
                     /\ flush'.at = "spawn" /\ flush'.proc = p /\ flush'.batch = <<>>

LEMMA FlushCases ==
  ASSUME Typed, Shape, h.live, NEW hh, Alike(hh), Flush(hh),
         stray' \in BOOLEAN,
         UNCHANGED <<flow, turn, held, receipt, asked, sent, ended, ops, faults>>
  PROVE  (Mild /\ BooksKept) \/ Sends \/ Spawns
<1>1. hh \in Handle /\ h \in Handle /\ flush \in FlushStates
  BY DEF Typed, Alike
<1>2. CASE ~Flushable(hh)
  <2>1. h' = hh /\ flush' = flush /\ proc' = proc
    BY <1>2 DEF Flush
  <2>2. MildHandle /\ h'.queue = h.queue
    BY <2>1 DEF Alike, MildHandle
  <2> QED BY <2>1, <2>2 DEF Typed, Mild, MildHandle, BooksKept
<1>3. CASE Flushable(hh)
  <2>1. /\ flush.at = "none" /\ h.state \notin {"inFlight", "released"}
        /\ ~h.closing /\ h.queue # <<>> /\ hh.queue = h.queue /\ hh.daemon = h.daemon
    BY <1>3 DEF Flushable, Alike
  <2>2. CASE Alive(h.daemon)
    <3>1. h' = BatchTaken(hh) /\ flush' = Sending(h.daemon, hh) /\ proc' = proc
      BY <1>3, <2>1, <2>2 DEF Flush
    <3>2. h' \in Handle /\ Taken(h.daemon)
      BY <1>1, <3>1, TakenHandle DEF Alike, Taken, Sending
    <3>3. flush' \in FlushStates
      BY <1>1, <2>1, <3>1 DEF Sending, FlushStates, Handle
    <3>4. Typed'
      BY <3>1, <3>2, <3>3 DEF Typed
    <3> QED BY <2>1, <2>2, <3>1, <3>2, <3>4 DEF Sends
  <2>3. CASE ~Alive(h.daemon)
    <3>1. h' = hh
      BY <1>3, <2>1, <2>3 DEF Flush
    <3>2. PICK p \in Proc :
            /\ proc[p] = "none" /\ p # h.daemon /\ proc' = [proc EXCEPT ![p] = "starting"]
            /\ flush' = [NoFlush EXCEPT !.at = "spawn", !.proc = p]
      BY <1>3, <2>1, <2>3 DEF Flush
    <3>3. flush'.at = "spawn" /\ flush'.proc = p /\ flush'.batch = <<>> /\ flush' \in FlushStates
      BY <3>2, Empty DEF NoFlush, FlushStates
    <3>4. proc' \in [Proc -> {"none", "starting", "up", "dying"}]
      BY <3>2 DEF Typed
    <3>5. Typed'
      BY <1>1, <3>1, <3>3, <3>4 DEF Typed
    <3> QED BY <2>1, <2>3, <3>1, <3>2, <3>3, <3>5 DEF Spawns
  <2> QED BY <2>2, <2>3
<1> QED BY <1>2, <1>3

LEMMA DebounceCases ==
  ASSUME Typed, Shape, DebounceFires \/ StrayDebounce
  PROVE  (Mild /\ BooksKept) \/ Sends \/ Spawns
<1> DEFINE hh == [h EXCEPT !.timers = @ \ {"debounce"}]
<1>1. Alike(hh)
  BY DEF Typed, Handle, Alike
<1>2. CASE DebounceFires
  <2>1. h.live
    BY <1>2 DEF DebounceFires, Shape, Present, Bare
  <2>2. Flush(hh)
    BY <1>2 DEF DebounceFires
  <2>3. stray' \in BOOLEAN /\ UNCHANGED <<flow, turn, held, receipt, asked, sent, ended, ops, faults>>
    BY <1>2 DEF DebounceFires, Typed
  <2> HIDE DEF hh
  <2> QED BY <1>1, <2>1, <2>2, <2>3, FlushCases
<1>3. CASE StrayDebounce /\ h.live
  <2>1. Flush(hh)
    BY <1>3 DEF StrayDebounce
  <2>2. stray' \in BOOLEAN
    BY <1>3 DEF StrayDebounce
  <2>3. UNCHANGED <<flow, turn, held, receipt, asked, sent, ended, ops, faults>>
    BY <1>3 DEF StrayDebounce
  <2> HIDE DEF hh
  <2> QED BY <1>1, <1>3, <2>1, <2>2, <2>3, FlushCases
<1>4. CASE StrayDebounce /\ ~h.live
  <2>1. stray' \in BOOLEAN
    BY <1>4 DEF StrayDebounce
  <2>2. UNCHANGED <<h, flush, proc, flow, turn, held, receipt, asked, sent, ended, ops, faults>>
    BY <1>4 DEF StrayDebounce
  <2>3. MildHandle /\ h'.queue = h.queue
    BY <2>2 DEF Typed, Shape, Present, Bare, MildHandle
  <2> QED BY <2>1, <2>2, <2>3 DEF Typed, Mild, MildHandle, BooksKept
<1> QED BY <1>2, <1>3, <1>4

LEMMA SendsKeepsShape ==
  ASSUME Typed, Shape, Sends
  PROVE  Shape'
<1>1. \A p \in Proc \cup {None} : Alive(p)' <=> Alive(p)
  BY DEF Sends, Alive
<1>2. h.daemon \in Proc /\ proc[h.daemon] # "none" /\ proc[h.daemon] # "starting" /\ h.live
  BY DEF Typed, Handle, Shape, Owned, FlushSound, Present, Sends, Alive
<1>3. ~Turning /\ flow["sweep"].at # "prompt"
  BY DEF Shape, TurnSound, Sends
<1>4. Places'
  BY DEF Shape, Places, Sends, Tearing, Resets
<1>5. Present'
  BY <1>2 DEF Sends, Taken, Present
<1>6. Owned'
  BY DEF Shape, Owned, Sends, Taken
<1>7. FlushSound'
  BY <1>1, <1>2 DEF Sends, Taken, FlushSound, Alive
<1>8. ChatSound'
  BY <1>1, <1>2 DEF Typed, Shape, ChatSound, Sends, Taken, Over, Handle, Quiet, FlowStates
<1>9. SweepSound'
  BY <1>3 DEF Shape, SweepSound, Sends, Taken
<1>10. TearSound'
  <2> SUFFICES ASSUME NEW f \in Flow, Tearing(f)
               PROVE  IF flow[f].mine THEN Torn(f)' ELSE Quiet'
    BY DEF TearSound, Sends, Tearing
  <2>1. flow[f].mine /\ Torn(f)
    BY <1>2 DEF Shape, TearSound, Quiet
  <2>2. ~Resets(f)
    BY <2>1 DEF Torn, Sends
  <2>3. Over(f)' <=> Over(f)
    BY <1>1 DEF Over, Typed, FlowStates, Sends
  <2>4. flow[f].at = "stop" /\ flow[f].proc = h.daemon
    BY <2>1 DEF Torn, Sends
  <2> QED BY <1>1, <1>2, <2>1, <2>2, <2>3, <2>4 DEF Torn, Resets, Sends, Taken
<1>11. ClosingSound'
  BY DEF Sends, Taken, ClosingSound
<1>12. TurnSound'
  <2>1. ~Turning'
    BY <1>3 DEF Turning, Sends
  <2> QED BY <1>3, <2>1 DEF TurnSound, Sends, Taken, Turning
<1>13. ReleasedSound'
  BY DEF Sends, Taken, ReleasedSound
<1>14. InFlightSound'
  BY <1>1, <1>2 DEF Sends, Taken, InFlightSound, Alive
<1>15. SteerSound'
  BY <1>1, <1>2 DEF Shape, SteerSound, Sends, Taken, Alive
<1> QED BY <1>4, <1>5, <1>6, <1>7, <1>8, <1>9, <1>10, <1>11, <1>12, <1>13, <1>14, <1>15 DEF Shape

LEMMA SpawnsKeepsShape ==
  ASSUME Typed, Shape, ~Ready, Spawns
  PROVE  Shape'
<1>1. PICK q \in Proc : /\ proc[q] = "none" /\ q # h.daemon
                       /\ proc' = [proc EXCEPT ![q] = "starting"]
                       /\ flush'.at = "spawn" /\ flush'.proc = q
  BY DEF Spawns
<1>2. \A p \in Proc : proc[p] = "none"
  BY DEF Typed, Shape, Owned, FlushSound, Spawns, Alive
<1>3. \A p \in Proc : proc'[p] = IF p = q THEN "starting" ELSE "none"
  BY <1>1, <1>2 DEF Typed
<1>4. ~Alive(h.daemon)'
  <2>1. h'.daemon = h.daemon /\ h.daemon \in Proc \cup {None}
    BY DEF Spawns, Alike, Typed, Handle
  <2> QED BY <1>1, <1>3, <2>1 DEF Alive
<1>5. \A p \in Proc \cup {None} : ~Alive(p)
  BY <1>2 DEF Alive
<1>6. h.live
  BY DEF Shape, Present, Bare, Spawns
<1>7. ~Turning /\ flow["sweep"].at # "prompt" /\ h.daemon \in Proc \cup {None}
  BY DEF Typed, Handle, Shape, TurnSound, Spawns
<1>8. \A f \in Flow : Over(f)
  BY <1>5 DEF Over, Typed, FlowStates
<1>9. ~Interrupting
  BY <1>5, <1>7, <1>8 DEF Interrupting, Shape, ChatSound, Ready
<1>10. \A f \in Flow : ~Tearing(f)
  BY <1>8 DEF Ready, Tearing, Spawns
<1>11. Places'
  BY DEF Shape, Places, Spawns, Tearing, Resets
<1>12. Present'
  BY <1>6 DEF Spawns, Alike, Present
<1>13. Owned'
  BY <1>1, <1>3 DEF Owned
<1>14. FlushSound'
  BY <1>1, <1>3, <1>4, <1>7, <1>9 DEF FlushSound, Spawns, Alike, Interrupting
<1>15. ChatSound'
  <2>1. flow' = flow /\ h'.stopping = h.stopping
    BY DEF Spawns, Alike
  <2>2. flow["chat"].at \notin {"interrupt", "stopping"} /\ ~h.stopping
    BY <1>9 DEF Interrupting, Shape, ChatSound
  <2> QED BY <2>1, <2>2 DEF ChatSound
<1>16. SweepSound'
  BY <1>7 DEF Shape, SweepSound, Spawns, Alike
<1>17. TearSound'
  BY <1>10 DEF TearSound, Tearing, Spawns
<1>18. ClosingSound'
  BY DEF ClosingSound, Spawns, Alike
<1>19. TurnSound'
  BY <1>1, <1>7 DEF TurnSound, Turning, Spawns
<1>20. ReleasedSound'
  BY DEF ReleasedSound, Spawns, Alike
<1>21. InFlightSound'
  BY DEF InFlightSound, Spawns, Alike
<1>22. SteerSound'
  BY <1>5, <1>7 DEF Shape, SteerSound, Spawns, Alike
<1> QED BY <1>11, <1>12, <1>13, <1>14, <1>15, <1>16, <1>17, <1>18, <1>19, <1>20, <1>21, <1>22 DEF Shape

----------------------------------------------------------------------------
(* What the other steps do, field by field.                                *)

LifeKept == h'.live = h.live /\ h'.closing = h.closing
StopKept == h'.stopping = h.stopping /\ h'.waiter = h.waiter
WorkKept == h'.queue = h.queue /\ h'.inFlight = h.inFlight
SteerKept == "steer" \in h'.timers => "steer" \in h.timers
TalkKept == UNCHANGED <<asked, sent, ended>>

SpawnedLate ==
  /\ h.closing \/ h.state = "released"
  /\ LifeKept /\ StopKept /\ WorkKept /\ SteerKept
  /\ h'.state = h.state /\ h'.daemon = flush.proc
  /\ flush'.at = "obsolete" /\ flush'.proc = flush.proc
  /\ proc' = [proc EXCEPT ![flush.proc] = "dying"]

SpawnedUp ==
  /\ ~h.closing /\ h.state # "released"
  /\ Taken(flush.proc)
  /\ proc' = [proc EXCEPT ![flush.proc] = "up"]

LEMMA SpawnOkStep ==
  ASSUME Typed, Shape, SpawnOk
  PROVE  /\ Typed' /\ flush.at = "spawn" /\ UNCHANGED <<flow, turn, receipt>> /\ TalkKept
         /\ SpawnedLate \/ SpawnedUp
<1> DEFINE hh == [h EXCEPT !.daemon = flush.proc, !.spawnFailures = 0]
<1>1. flush.at = "spawn" /\ flush.proc \in Proc /\ flush \in FlushStates
  BY DEF Typed, Shape, FlushSound, SpawnOk
<1>2. /\ hh \in Handle
      /\ hh.live = h.live /\ hh.closing = h.closing /\ hh.stopping = h.stopping
      /\ hh.waiter = h.waiter /\ hh.queue = h.queue /\ hh.inFlight = h.inFlight
      /\ hh.state = h.state /\ hh.daemon = flush.proc /\ hh.timers = h.timers
  BY <1>1 DEF Typed, Handle
<1>3. UNCHANGED <<flow, turn, receipt, stray, held, ops, faults>> /\ TalkKept
  BY DEF SpawnOk, TalkKept
<1>4. CASE h.closing \/ h.state = "released"
  <2>1. /\ h' = hh /\ flush' = [flush EXCEPT !.at = "obsolete"]
        /\ proc' = [proc EXCEPT ![flush.proc] = "dying"]
    BY <1>4 DEF SpawnOk
  <2>2. flush' \in FlushStates /\ flush'.at = "obsolete" /\ flush'.proc = flush.proc
    BY <1>1, <2>1 DEF FlushStates
  <2> HIDE DEF hh
  <2>3. Typed'
    BY <1>1, <1>2, <1>3, <2>1, <2>2 DEF Typed, TalkKept
  <2>4. SpawnedLate
    BY <1>2, <1>4, <2>1, <2>2 DEF SpawnedLate, LifeKept, StopKept, WorkKept, SteerKept
  <2> QED BY <1>1, <1>3, <2>3, <2>4
<1>5. CASE ~(h.closing \/ h.state = "released")
  <2>1. /\ h' = BatchTaken(hh) /\ flush' = Sending(flush.proc, hh)
        /\ proc' = [proc EXCEPT ![flush.proc] = "up"]
    BY <1>5 DEF SpawnOk
  <2> HIDE DEF hh
  <2>2. h' \in Handle /\ Taken(flush.proc)
    BY <1>2, <2>1, TakenHandle DEF Taken, Sending
  <2>3. flush' \in FlushStates
    BY <1>1, <1>2, <2>1 DEF Sending, FlushStates, Handle
  <2>4. Typed'
    BY <1>1, <1>3, <2>1, <2>2, <2>3 DEF Typed, TalkKept
  <2> QED BY <1>1, <1>3, <1>5, <2>1, <2>2, <2>4 DEF SpawnedUp
<1> QED BY <1>4, <1>5

LEMMA ObsoleteStoppedStep ==
  ASSUME Typed, ObsoleteStopped
  PROVE  /\ Typed' /\ flush.at = "obsolete" /\ ~Alive(flush.proc)
         /\ UNCHANGED <<flow, proc, turn, receipt>> /\ TalkKept
         /\ flush'.at = "none"
         /\ LifeKept /\ StopKept /\ WorkKept /\ SteerKept /\ h'.state = h.state
         /\ h'.daemon = IF h.daemon = flush.proc THEN None ELSE h.daemon
<1>1. flush' = NoFlush /\ flush' \in FlushStates /\ flush'.at = "none"
  BY Empty DEF ObsoleteStopped, NoFlush, FlushStates
<1>2. /\ h' \in Handle
      /\ LifeKept /\ StopKept /\ WorkKept /\ SteerKept /\ h'.state = h.state
      /\ h'.daemon = IF h.daemon = flush.proc THEN None ELSE h.daemon
  BY DEF ObsoleteStopped, Typed, Handle, LifeKept, StopKept, WorkKept, SteerKept
<1>3. Typed'
  BY <1>1, <1>2 DEF ObsoleteStopped, Typed
<1> QED BY <1>1, <1>2, <1>3 DEF ObsoleteStopped, TalkKept

SpawnGivenUp ==
  \/ /\ h.closing \/ h.state = "released"
     /\ h'.queue = h.queue /\ h'.state = h.state /\ h'.daemon = None /\ receipt' = receipt
  \/ /\ ~h.closing /\ h.state # "released"
     /\ h'.queue = <<>> /\ h'.state = "idle" /\ h'.daemon = h.daemon /\ receipt' = Dropped
  \/ /\ ~h.closing /\ h.state # "released"
     /\ h'.queue = h.queue /\ h'.state = "crashed" /\ h'.daemon = h.daemon /\ receipt' = receipt

LEMMA SettledType ==
  ASSUME Typed, NEW S, NEW outcome \in {"done", "failed"}
  PROVE  Settled(S, outcome) \in [Message -> {"none", "waiting", "done", "failed"}]
BY DEF Typed, Settled

LEMMA SpawnFailsStep ==
  ASSUME Typed, SpawnFails
  PROVE  /\ Typed' /\ flush.at = "spawn" /\ UNCHANGED <<flow, turn>> /\ TalkKept
         /\ flush'.at = "none"
         /\ proc' = [proc EXCEPT ![flush.proc] = "none"]
         /\ LifeKept /\ StopKept /\ SteerKept /\ h'.inFlight = h.inFlight
         /\ SpawnGivenUp
<1>1. flush' = NoFlush /\ flush' \in FlushStates /\ flush'.at = "none"
  BY Empty DEF SpawnFails, NoFlush, FlushStates
<1>2. proc' \in [Proc -> {"none", "starting", "up", "dying"}] /\ faults' \in Nat
  <2>1. proc' = [proc EXCEPT ![flush.proc] = "none"] /\ faults > 0 /\ faults' = faults - 1
    BY DEF SpawnFails
  <2>2. faults' \in Nat
    BY <2>1 DEF Typed
  <2> QED BY <2>1, <2>2 DEF Typed
<1>3. h \in Handle /\ receipt \in [Message -> {"none", "waiting", "done", "failed"}]
  BY DEF Typed
<1>4. Dropped \in [Message -> {"none", "waiting", "done", "failed"}]
  BY SettledType DEF Dropped
<1>5. /\ h' \in Handle /\ LifeKept /\ StopKept /\ SteerKept /\ h'.inFlight = h.inFlight
      /\ SpawnGivenUp /\ receipt' \in [Message -> {"none", "waiting", "done", "failed"}]
  <2>1. CASE h.closing \/ h.state = "released"
    <3>1. h' = [h EXCEPT !.daemon = None] /\ receipt' = receipt
      BY <2>1 DEF SpawnFails
    <3> QED BY <1>3, <2>1, <3>1 DEF Handle, LifeKept, StopKept, SteerKept, SpawnGivenUp
  <2>2. CASE ~(h.closing \/ h.state = "released") /\ h.spawnFailures + 1 >= MaxSpawnAttempts
    <3>1. /\ h' = [h EXCEPT !.queue = <<>>, !.state = "idle", !.spawnFailures = MaxSpawnAttempts]
          /\ receipt' = Dropped
      BY <2>2 DEF SpawnFails
    <3>2. MaxSpawnAttempts \in Nat
      OBVIOUS
    <3>3. h' \in Handle /\ LifeKept /\ StopKept /\ SteerKept /\ h'.inFlight = h.inFlight
          /\ h'.queue = <<>> /\ h'.state = "idle" /\ h'.daemon = h.daemon
      BY <1>3, <3>1, <3>2, Empty DEF Handle, LifeKept, StopKept, SteerKept
    <3> QED BY <1>4, <2>2, <3>1, <3>3 DEF SpawnGivenUp
  <2>3. CASE ~(h.closing \/ h.state = "released") /\ ~(h.spawnFailures + 1 >= MaxSpawnAttempts)
    <3>1. /\ h' = [h EXCEPT !.state = "crashed", !.spawnFailures = @ + 1, !.retries = @ + 1]
          /\ receipt' = receipt
      BY <2>3 DEF SpawnFails
    <3>2. h.spawnFailures + 1 \in Nat /\ h.retries + 1 \in Nat
      BY <1>3 DEF Handle
    <3>3. h' \in Handle /\ LifeKept /\ StopKept /\ SteerKept /\ h'.inFlight = h.inFlight
          /\ h'.queue = h.queue /\ h'.state = "crashed" /\ h'.daemon = h.daemon
      BY <1>3, <3>1, <3>2 DEF Handle, LifeKept, StopKept, SteerKept
    <3> QED BY <1>3, <2>3, <3>1, <3>3 DEF SpawnGivenUp
  <2> QED BY <2>1, <2>2, <2>3
<1>6. Typed'
  BY <1>1, <1>2, <1>5 DEF SpawnFails, Typed
<1> QED BY <1>1, <1>5, <1>6 DEF SpawnFails, TalkKept

----------------------------------------------------------------------------
(* Untracked.  Induction over the length of the queue, without the theorems *)
(* that take an operator: a set of naturals has a least element.            *)

LEMMA Least ==
  ASSUME NEW T \in SUBSET Nat, T # {}
  PROVE  \E x \in T : \A y \in T : ~(y < x)
<1>1. IsWellFoundedOn(OpToRel(<, Nat), Nat)
  BY NatLessThanWellFounded
<1>2. \E x \in T : \A y \in T : ~ (<<y, x>> \in OpToRel(<, Nat))
  BY ONLY <1>1, WFMin, T \in SUBSET Nat, T # {}
<1> QED BY <1>2 DEF OpToRel

\* One step of the filter, and the filter as a function of the length so far.
Sieved(q, i, s) == IF q[i] \in Inject THEN Append(s, q[i]) ELSE s
Sieve(q, n, g) == g = [i \in 0..n |-> IF i = 0 THEN <<>> ELSE Sieved(q, i, g[i - 1])]

LEMMA SieveExists ==
  ASSUME NEW q
  PROVE  \A n \in Nat : \E g : Sieve(q, n, g)
<1> DEFINE T == {n \in Nat : ~ \E g : Sieve(q, n, g)}
<1> SUFFICES ASSUME T # {} PROVE FALSE
  OBVIOUS
<1>1. PICK n \in T : \A y \in T : ~(y < n)
  BY Least
<1>2. n \in Nat /\ ~ \E g : Sieve(q, n, g)
  OBVIOUS
<1>3. n # 0
  <2> DEFINE g == [i \in 0..0 |-> <<>>]
  <2>1. g = [i \in 0..0 |-> IF i = 0 THEN <<>> ELSE Sieved(q, i, g[i - 1])]
    OBVIOUS
  <2>2. Sieve(q, 0, g)
    BY <2>1 DEF Sieve
  <2> QED BY <1>2, <2>2
<1>4. n - 1 \in Nat /\ n - 1 < n /\ n - 1 \notin T
  BY <1>1, <1>2, <1>3
<1>5. PICK f : Sieve(q, n - 1, f)
  BY <1>4
<1> DEFINE g == [i \in 0..n |-> IF i < n THEN f[i] ELSE Sieved(q, n, f[n - 1])]
<1>6. \A i \in 0..n : g[i] = IF i = 0 THEN <<>> ELSE Sieved(q, i, g[i - 1])
  <2> TAKE i \in 0..n
  <2>1. CASE i = 0
    BY <1>2, <1>3, <1>4, <1>5, <2>1 DEF Sieve
  <2>2. CASE i # 0 /\ i < n
    <3>1. i \in 0..(n - 1) /\ i - 1 \in 0..n /\ i - 1 < n
      BY <1>2, <2>2
    <3>2. g[i] = f[i] /\ g[i - 1] = f[i - 1]
      BY <2>2, <3>1
    <3> QED BY <1>5, <2>2, <3>1, <3>2 DEF Sieve
  <2>3. CASE i = n
    <3>1. i - 1 \in 0..n /\ i - 1 < n
      BY <1>2, <1>3, <2>3
    <3>2. g[i] = Sieved(q, n, f[n - 1]) /\ g[i - 1] = f[i - 1]
      BY <1>2, <2>3, <3>1
    <3> QED BY <1>3, <2>3, <3>2
  <2> QED BY <1>2, <2>1, <2>2, <2>3
<1>7. g = [i \in 0..n |-> g[i]]
  OBVIOUS
<1>8. Sieve(q, n, g)
  BY <1>6, <1>7 DEF Sieve
<1> QED BY <1>2, <1>8

\* s holds entries of q without a receipt, in the order of q, up to the i-th.
Picked(q, i, s) ==
  /\ s \in Seq(Prompt)
  /\ \E pos \in [1..Len(s) -> 1..i] :
       /\ \A a, b \in 1..Len(s) : a < b => pos[a] < pos[b]
       /\ \A a \in 1..Len(s) : s[a] = q[pos[a]] /\ s[a] \in Inject

LEMMA PickedStep ==
  ASSUME NEW q \in Seq(Prompt), NEW i \in 1..Len(q), NEW s, Picked(q, i - 1, s)
  PROVE  Picked(q, i, Sieved(q, i, s))
<1>1. s \in Seq(Prompt) /\ Len(s) \in Nat /\ i \in Nat /\ i - 1 \in Nat /\ q[i] \in Prompt
  BY DEF Picked
<1>2. \A k \in 1..(i - 1) : k \in 1..i /\ k < i
  BY <1>1
<1>3. PICK pos \in [1..Len(s) -> 1..(i - 1)] :
        /\ \A a, b \in 1..Len(s) : a < b => pos[a] < pos[b]
        /\ \A a \in 1..Len(s) : s[a] = q[pos[a]] /\ s[a] \in Inject
  BY DEF Picked
<1>4. CASE q[i] \notin Inject
  <2>1. pos \in [1..Len(s) -> 1..i]
    BY <1>1, <1>3
  <2> QED BY <1>1, <1>3, <1>4, <2>1 DEF Picked, Sieved
<1>5. CASE q[i] \in Inject
  <2> DEFINE t == Append(s, q[i])
             to == [a \in 1..(Len(s) + 1) |-> IF a = Len(s) + 1 THEN i ELSE pos[a]]
  <2>1. /\ t \in Seq(Prompt) /\ Len(t) = Len(s) + 1
        /\ \A a \in 1..Len(s) : t[a] = s[a]
        /\ t[Len(s) + 1] = q[i]
    BY <1>1
  <2> HIDE DEF t
  <2>2. to \in [1..Len(t) -> 1..i]
    <3>1. ASSUME NEW a \in 1..(Len(s) + 1), a # Len(s) + 1
          PROVE  pos[a] \in 1..i
      <4>1. a \in 1..Len(s)
        BY <1>1, <3>1
      <4>2. pos[a] \in 1..(i - 1)
        BY <1>3, <4>1
      <4> QED BY <1>2, <4>2
    <3>2. i \in 1..i /\ 1..Len(t) = 1..(Len(s) + 1)
      BY <1>1, <2>1
    <3> QED BY <3>1, <3>2
  <2>3. \A a \in 1..Len(t) : to[a] = IF a = Len(s) + 1 THEN i ELSE pos[a]
    BY <2>1
  <2> HIDE DEF to
  <2>4. \A a, b \in 1..Len(t) : a < b => to[a] < to[b]
    <3> SUFFICES ASSUME NEW a \in 1..Len(t), NEW b \in 1..Len(t), a < b
                 PROVE  to[a] < to[b]
      OBVIOUS
    <3>1. a \in 1..Len(s) /\ to[a] = pos[a] /\ pos[a] \in 1..(i - 1)
      BY <1>1, <1>3, <2>1, <2>3
    <3>2. CASE b = Len(s) + 1
      <4>1. to[b] = i
        BY <2>3, <3>2
      <4>2. pos[a] < i
        BY <1>2, <3>1
      <4> QED BY <3>1, <4>1, <4>2
    <3>3. CASE b # Len(s) + 1
      <4>1. b \in 1..Len(s) /\ to[b] = pos[b]
        BY <1>1, <2>1, <2>3, <3>3
      <4> QED BY <1>3, <3>1, <4>1
    <3> QED BY <3>2, <3>3
  <2>5. \A a \in 1..Len(t) : t[a] = q[to[a]] /\ t[a] \in Inject
    <3> SUFFICES ASSUME NEW a \in 1..Len(t)
                 PROVE  t[a] = q[to[a]] /\ t[a] \in Inject
      OBVIOUS
    <3>1. CASE a = Len(s) + 1
      BY <1>1, <1>5, <2>1, <2>3, <3>1
    <3>2. CASE a # Len(s) + 1
      <4>1. a \in 1..Len(s) /\ to[a] = pos[a]
        BY <1>1, <2>1, <2>3, <3>2
      <4> QED BY <1>3, <2>1, <4>1
    <3> QED BY <3>1, <3>2
  <2>6. Sieved(q, i, s) = t
    BY <1>5 DEF Sieved, t
  <2> QED BY <2>1, <2>2, <2>4, <2>5, <2>6 DEF Picked
<1> QED BY <1>4, <1>5

LEMMA UntrackedPicks ==
  ASSUME NEW q \in Seq(Prompt)
  PROVE  Picked(q, Len(q), Untracked(q))
<1> DEFINE n == Len(q)
           kept == CHOOSE g : Sieve(q, n, g)
<1>1. n \in Nat
  OBVIOUS
<1>2. Sieve(q, n, kept)
  <2>1. \E g : Sieve(q, n, g)
    BY <1>1, SieveExists
  <2> QED BY <2>1
<1>3. Untracked(q) = kept[n]
  BY DEF Untracked, Sieve, Sieved
<1> HIDE DEF kept
<1>4. /\ kept[0] = <<>>
      /\ \A i \in 1..n : kept[i] = Sieved(q, i, kept[i - 1])
  <2>1. \A i \in 0..n : kept[i] = IF i = 0 THEN <<>> ELSE Sieved(q, i, kept[i - 1])
    BY <1>2 DEF Sieve
  <2> QED BY <1>1, <2>1
<1> DEFINE T == {i \in 0..n : ~Picked(q, i, kept[i])}
<1>5. T = {}
  <2> SUFFICES ASSUME T # {} PROVE FALSE
    OBVIOUS
  <2>1. T \in SUBSET Nat
    BY <1>1
  <2>2. PICK i \in T : \A y \in T : ~(y < i)
    BY <2>1, Least
  <2>3. i \in 0..n /\ ~Picked(q, i, kept[i])
    OBVIOUS
  <2>4. CASE i = 0
    <3>1. <<>> \in Seq(Prompt) /\ Len(<<>>) = 0
      BY Empty
    <3>2. Picked(q, 0, <<>>)
      <4> DEFINE pos == [a \in 1..0 |-> a]
      <4>1. pos \in [1..0 -> 1..0]
        OBVIOUS
      <4>2. 1..Len(<<>>) = 1..0 /\ \A a \in 1..0 : FALSE
        BY <3>1
      <4> HIDE DEF pos
      <4> QED BY <3>1, <4>1, <4>2 DEF Picked
    <3> QED BY <1>4, <2>3, <2>4, <3>2
  <2>5. CASE i # 0
    <3>1. i \in 1..n /\ i - 1 \in 0..n /\ i - 1 < i
      BY <1>1, <2>3, <2>5
    <3>2. Picked(q, i - 1, kept[i - 1])
      BY <2>2, <3>1
    <3> QED BY <1>4, <2>3, <3>1, <3>2, PickedStep
  <2> QED BY <2>4, <2>5
<1>6. n \in 0..n
  BY <1>1
<1> QED BY <1>3, <1>5, <1>6

----------------------------------------------------------------------------
(* The write of a batch, the end of a turn, the end of a process.          *)

Delivered ==
  /\ flush.at = "send" /\ flush'.at = "none"
  /\ UNCHANGED <<flow, proc, receipt, asked, ended>>
  /\ sent' = sent \o flush.batch
  /\ turn' = [turn EXCEPT ![flush.proc] = Append(@, flush.batch)]
  /\ LifeKept /\ StopKept /\ WorkKept /\ SteerKept
  /\ h'.state = h.state /\ h'.daemon = h.daemon

LEMMA NoFlushType == NoFlush \in FlushStates /\ NoFlush.at = "none"
BY Empty DEF NoFlush, FlushStates

LEMMA SendOkStep ==
  ASSUME Typed, Shape, SendOk
  PROVE  Typed' /\ Delivered
<1>1. /\ flush.at = "send" /\ flush' = NoFlush /\ flush.batch \in Seq(Prompt)
      /\ UNCHANGED <<flow, proc, stray, held, receipt, asked, ended, ops, faults>>
      /\ sent' = sent \o flush.batch
      /\ turn' = [turn EXCEPT ![flush.proc] = Append(@, flush.batch)]
      /\ h' = [h EXCEPT !.timers = @ \cup {"watchdog"}]
  BY DEF SendOk, Typed, FlushStates
<1>2. /\ h' \in Handle /\ LifeKept /\ StopKept /\ WorkKept /\ SteerKept
      /\ h'.state = h.state /\ h'.daemon = h.daemon
  BY <1>1 DEF Typed, Handle, LifeKept, StopKept, WorkKept, SteerKept
<1>3. flush.proc \in Proc
  BY <1>1 DEF Shape, FlushSound, Typed, Handle, Alive
<1>4. turn' \in [Proc -> Seq(Seq(Prompt))]
  <2>1. Append(turn[flush.proc], flush.batch) \in Seq(Seq(Prompt))
    BY <1>1, <1>3 DEF Typed
  <2> QED BY <1>1, <1>3, <2>1 DEF Typed
<1>5. sent' \in Seq(Prompt)
  BY <1>1 DEF Typed
<1>6. Typed'
  BY <1>1, <1>2, <1>4, <1>5, NoFlushType DEF Typed
<1> QED BY <1>1, <1>2, <1>6, NoFlushType DEF Delivered

Bounced ==
  /\ flush.at = "send" /\ flush'.at = "none" /\ proc[flush.proc] = "dying"
  /\ UNCHANGED <<flow, proc, turn>> /\ TalkKept
  /\ receipt' = Settled(h.inFlight, "failed")
  /\ LifeKept /\ StopKept /\ SteerKept
  /\ h'.daemon = h.daemon /\ h'.inFlight = {}
  /\ \/ /\ h.closing \/ h.state = "released"
        /\ h'.queue = h.queue /\ h'.state = h.state
     \/ /\ ~h.closing /\ h.state # "released"
        /\ h'.queue = Requeued(flush.batch, h.queue) /\ h'.state = "crashed"

LEMMA SendFailsStep ==
  ASSUME Typed, SendFails
  PROVE  Typed' /\ Bounced
<1> DEFINE q == Requeued(flush.batch, h.queue)
           hh == [h EXCEPT !.inFlight = {}]
<1>1. /\ flush.at = "send" /\ flush' = NoFlush /\ proc[flush.proc] = "dying"
      /\ UNCHANGED <<flow, proc, turn, stray, held, asked, sent, ended, ops, faults>>
      /\ receipt' = Settled(h.inFlight, "failed")
      /\ IF h.closing \/ h.state = "released" THEN h' = hh
         ELSE h' = [hh EXCEPT !.state = "crashed", !.retries = @ + 1, !.queue = Requeued(flush.batch, @)]
  BY DEF SendFails
<1>2. q \in Seq(Prompt)
  <2>1. flush.batch \in Seq(Prompt) /\ h.queue \in Seq(Prompt)
    BY DEF Typed, FlushStates, Handle
  <2>2. Untracked(flush.batch) \in Seq(Prompt)
    BY <2>1, UntrackedPicks DEF Picked
  <2> QED BY <2>1, <2>2 DEF Requeued
<1>3. h \in Handle /\ h.retries + 1 \in Nat /\ hh.queue = h.queue
  BY DEF Typed, Handle
<1> HIDE DEF q
<1>4. /\ h' \in Handle
      /\ LifeKept /\ StopKept /\ SteerKept
      /\ h'.daemon = h.daemon /\ h'.inFlight = {}
      /\ \/ /\ h.closing \/ h.state = "released"
            /\ h'.queue = h.queue /\ h'.state = h.state
         \/ /\ ~h.closing /\ h.state # "released"
            /\ h'.queue = q /\ h'.state = "crashed"
  <2>1. CASE h.closing \/ h.state = "released"
    <3>1. h' = hh
      BY <1>1, <2>1
    <3> QED BY <1>3, <2>1, <3>1 DEF Handle, LifeKept, StopKept, SteerKept
  <2>2. CASE ~(h.closing \/ h.state = "released")
    <3>1. h' = [hh EXCEPT !.state = "crashed", !.retries = @ + 1, !.queue = q]
      BY <1>1, <1>3, <2>2 DEF q
    <3> QED BY <1>2, <1>3, <2>2, <3>1 DEF Handle, LifeKept, StopKept, SteerKept
  <2> QED BY <2>1, <2>2
<1>5. Typed'
  BY <1>1, <1>4, NoFlushType, SettledType DEF Typed
<1> QED BY <1>1, <1>4, <1>5, NoFlushType DEF Bounced, TalkKept, q

TurnOverStep(p) ==
  /\ p = h.daemon /\ turn[p] # <<>>
  /\ UNCHANGED <<flush, proc, asked, sent>>
  /\ turn' = [turn EXCEPT ![p] = Tail(@)]
  /\ ended' = ended \cup ToSet(Head(turn[p]))
  /\ receipt' = Settled(h.inFlight, "done")
  /\ LifeKept /\ h'.stopping = h.stopping
  /\ h'.daemon = h.daemon /\ h'.queue = h.queue /\ h'.inFlight = {}
  /\ \/ /\ h.state = "released" /\ h'.state = h.state /\ h'.waiter = h.waiter
        /\ SteerKept /\ flow' = flow
     \/ /\ h.state # "released" /\ h'.state \in {"idle", "pending"} /\ ~h'.waiter
        /\ "steer" \notin h'.timers
        /\ flow' = IF h.waiter THEN [flow EXCEPT !["sweep"].at = "ended"] ELSE flow

LEMMA TurnEndsStep ==
  ASSUME Typed, NEW p \in Proc, TurnEnds(p)
  PROVE  Typed' /\ TurnOverStep(p)
<1> DEFINE hh == [h EXCEPT !.inFlight = {}, !.timers = @ \ {"watchdog"}]
           hr == [hh EXCEPT !.waiter = FALSE, !.timers = @ \ {"steer"}]
<1>1. /\ h.daemon = p /\ turn[p] # <<>>
      /\ UNCHANGED <<flush, proc, stray, held, asked, sent, ops, faults>>
      /\ turn' = [turn EXCEPT ![p] = Tail(@)]
      /\ ended' = ended \cup ToSet(Head(turn[p]))
      /\ receipt' = Settled(h.inFlight, "done")
      /\ IF h.state = "released" THEN h' = hh /\ flow' = flow
         ELSE /\ h' = Rested(hr)
              /\ flow' = IF h.waiter THEN [flow EXCEPT !["sweep"].at = "ended"] ELSE flow
  BY DEF TurnEnds, TurnOver
<1>2. /\ hh \in Handle /\ hr \in Handle
      /\ hh.live = h.live /\ hh.closing = h.closing /\ hh.stopping = h.stopping
      /\ hh.waiter = h.waiter /\ hh.queue = h.queue /\ hh.inFlight = {}
      /\ hh.daemon = h.daemon /\ hh.state = h.state
      /\ "steer" \in hh.timers => "steer" \in h.timers
      /\ hr.live = h.live /\ hr.closing = h.closing /\ hr.stopping = h.stopping
      /\ ~hr.waiter /\ hr.queue = h.queue /\ hr.inFlight = {}
      /\ hr.daemon = h.daemon /\ "steer" \notin hr.timers
  BY DEF Typed, Handle
<1>3. turn[p] \in Seq(Seq(Prompt)) /\ Head(turn[p]) \in Seq(Prompt) /\ Tail(turn[p]) \in Seq(Seq(Prompt))
  BY <1>1 DEF Typed
<1>4. turn' \in [Proc -> Seq(Seq(Prompt))]
  BY <1>1, <1>3 DEF Typed
<1>5. ended' \subseteq Prompt
  <2>1. ToSet(Head(turn[p])) \subseteq Prompt
    BY <1>3 DEF ToSet
  <2> QED BY <1>1, <2>1 DEF Typed
<1>6. flow' \in [Flow -> FlowStates]
  <2>1. [flow EXCEPT !["sweep"].at = "ended"] \in [Flow -> FlowStates]
    BY DEF Typed, FlowStates
  <2> QED BY <1>1, <2>1 DEF Typed
<1> HIDE DEF hh, hr
<1>7. /\ h' \in Handle
      /\ LifeKept /\ h'.stopping = h.stopping
      /\ h'.daemon = h.daemon /\ h'.queue = h.queue /\ h'.inFlight = {}
      /\ \/ /\ h.state = "released" /\ h'.state = h.state /\ h'.waiter = h.waiter /\ SteerKept
         \/ /\ h.state # "released" /\ h'.state \in {"idle", "pending"} /\ ~h'.waiter
            /\ "steer" \notin h'.timers
  BY <1>1, <1>2, RestedHandle DEF LifeKept, SteerKept
<1>8. Typed'
  BY <1>1, <1>4, <1>5, <1>6, <1>7, SettledType DEF Typed
<1> QED BY <1>1, <1>7, <1>8 DEF TurnOverStep

Closed(p) ==
  /\ proc[p] = "dying" /\ ~Writing(p)
  /\ UNCHANGED <<flush, flow>> /\ TalkKept
  /\ proc' = [proc EXCEPT ![p] = "none"]
  /\ turn' = [turn EXCEPT ![p] = <<>>]
  /\ receipt' = Settled(h.inFlight, "failed")
  /\ LifeKept /\ h'.stopping = h.stopping /\ ~h'.waiter
  /\ h'.queue = h.queue /\ h'.inFlight = {} /\ "steer" \notin h'.timers
  /\ \/ h'.state = h.state /\ h'.daemon = None /\ h.closing
     \/ h'.state = h.state /\ h'.daemon = h.daemon /\ h.state = "released"
     \/ h'.state = h.state /\ h'.daemon = None /\ h.stopping
     \/ h'.state = "crashed" /\ h'.daemon = None /\ h.state # "released" /\ ~h.closing

LEMMA CloseStep ==
  ASSUME Typed, Shape, NEW p \in Proc, Close(p)
  PROVE  Typed' /\ h.daemon = p /\ Closed(p)
<1> DEFINE hh == [h EXCEPT !.inFlight = {}, !.waiter = FALSE, !.timers = @ \ {"watchdog", "steer"}]
<1>1. h.daemon = p
  BY DEF Close, Shape, Owned
<1>2. /\ proc[p] = "dying" /\ ~Writing(p)
      /\ UNCHANGED <<flush, flow, stray, held, asked, sent, ended, ops, faults>>
      /\ proc' = [proc EXCEPT ![p] = "none"]
      /\ turn' = [turn EXCEPT ![p] = <<>>]
      /\ receipt' = Settled(h.inFlight, "failed")
  BY <1>1 DEF Close
<1>3. h' = CASE h.closing -> [hh EXCEPT !.daemon = None]
             [] h.state = "released" /\ ~h.closing -> hh
             [] h.stopping /\ ~h.closing /\ h.state # "released" -> [hh EXCEPT !.daemon = None]
             [] OTHER -> [hh EXCEPT !.daemon = None, !.state = "crashed", !.respawns = @ + 1]
  BY <1>1 DEF Close
<1>4. /\ hh \in Handle
      /\ hh.live = h.live /\ hh.closing = h.closing /\ hh.stopping = h.stopping
      /\ ~hh.waiter /\ hh.queue = h.queue /\ hh.inFlight = {}
      /\ hh.daemon = h.daemon /\ hh.state = h.state /\ "steer" \notin hh.timers
  BY DEF Typed, Handle
<1>5. hh.respawns + 1 \in Nat
  BY DEF Typed, Handle
<1> DEFINE hn == [hh EXCEPT !.daemon = None]
           hc == [hh EXCEPT !.daemon = None, !.state = "crashed", !.respawns = @ + 1]
<1>6. \/ h' = hn /\ h.closing
      \/ h' = hh /\ h.state = "released"
      \/ h' = hn /\ h.stopping
      \/ h' = hc /\ h.state # "released" /\ ~h.closing
  BY <1>3
<1> HIDE DEF hh
<1>7. /\ hn \in Handle /\ hc \in Handle
      /\ hn.live = h.live /\ hn.closing = h.closing /\ hn.stopping = h.stopping
      /\ ~hn.waiter /\ hn.queue = h.queue /\ hn.inFlight = {}
      /\ hn.daemon = None /\ hn.state = h.state /\ "steer" \notin hn.timers
      /\ hc.live = h.live /\ hc.closing = h.closing /\ hc.stopping = h.stopping
      /\ ~hc.waiter /\ hc.queue = h.queue /\ hc.inFlight = {}
      /\ hc.daemon = None /\ hc.state = "crashed" /\ "steer" \notin hc.timers
  BY <1>4, <1>5 DEF Handle
<1> HIDE DEF hn, hc
<1>8. h' \in Handle /\ Closed(p)
  BY <1>2, <1>4, <1>6, <1>7 DEF Closed, LifeKept, TalkKept
<1>9. turn' \in [Proc -> Seq(Seq(Prompt))]
  BY <1>2, Empty DEF Typed
<1>10. proc' \in [Proc -> {"none", "starting", "up", "dying"}]
  BY <1>2 DEF Typed
<1>11. Typed'
  BY <1>2, <1>8, <1>9, <1>10, SettledType DEF Typed
<1> QED BY <1>1, <1>8, <1>11

LEMMA FlowSet ==
  ASSUME flow \in [Flow -> FlowStates], NEW f \in Flow, NEW s \in FlowStates,
         flow' = [flow EXCEPT ![f] = s]
  PROVE  /\ flow' \in [Flow -> FlowStates] /\ flow'[f] = s
         /\ \A g \in Flow \ {f} : flow'[g] = flow[g]
OBVIOUS

LEMMA NoFlowType ==
  /\ NoFlow \in FlowStates /\ NoFlow.at = "idle"
  /\ \A p \in Proc \cup {None} :
       /\ [NoFlow EXCEPT !.at = "interrupt", !.proc = p] \in FlowStates
       /\ [NoFlow EXCEPT !.at = "prompt", !.proc = p] \in FlowStates
       /\ [NoFlow EXCEPT !.at = "stopping", !.proc = p, !.mine = TRUE] \in FlowStates
BY DEF NoFlow, FlowStates

FlowOthers(f) == flow' \in [Flow -> FlowStates] /\ \A g \in Flow \ {f} : flow'[g] = flow[g]

StopBegun ==
  /\ flow["chat"].at = "idle" /\ h.live /\ h.state = "inFlight"
  /\ UNCHANGED <<flush, proc, turn, receipt>> /\ TalkKept
  /\ LifeKept /\ StopKept /\ WorkKept /\ SteerKept
  /\ h'.daemon = h.daemon /\ h'.state = h.state
  /\ FlowOthers("chat") /\ flow'["chat"].at = "interrupt" /\ flow'["chat"].proc = h.daemon

LEMMA StopTurnStep ==
  ASSUME Typed, StopTurn
  PROVE  Typed' /\ StopBegun
<1> DEFINE s == [NoFlow EXCEPT !.at = "interrupt", !.proc = h.daemon]
<1>1. /\ flow["chat"].at = "idle" /\ h.live /\ h.state = "inFlight"
      /\ UNCHANGED <<flush, proc, turn, stray, held, receipt, asked, sent, ended, faults>>
      /\ h' = [h EXCEPT !.timers = @ \ {"debounce", "steer"}]
      /\ flow' = [flow EXCEPT !["chat"] = s]
  BY DEF StopTurn
<1>2. /\ h' \in Handle /\ LifeKept /\ StopKept /\ WorkKept /\ SteerKept
      /\ h'.daemon = h.daemon /\ h'.state = h.state
  BY <1>1 DEF Typed, Handle, LifeKept, StopKept, WorkKept, SteerKept
<1>3. ops' \in Nat
  BY DEF Typed, StopTurn, Spend
<1>4. s \in FlowStates /\ s.at = "interrupt" /\ s.proc = h.daemon
  BY NoFlowType DEF Typed, Handle, NoFlow
<1> HIDE DEF s
<1>5. FlowOthers("chat") /\ flow'["chat"] = s
  BY <1>1, <1>4, FlowSet DEF Typed, FlowOthers
<1>6. Typed'
  BY <1>1, <1>2, <1>3, <1>5 DEF Typed, FlowOthers
<1> QED BY <1>1, <1>2, <1>4, <1>5, <1>6 DEF StopBegun, TalkKept

StopForced ==
  /\ flow["chat"].at = "interrupt"
  /\ UNCHANGED <<flush, proc, turn>> /\ TalkKept
  /\ receipt' = Settled(h.inFlight, "failed")
  /\ LifeKept /\ SteerKept /\ h'.stopping /\ h'.waiter = h.waiter
  /\ h'.daemon = h.daemon /\ h'.state = h.state /\ h'.queue = h.queue /\ h'.inFlight = {}
  /\ FlowOthers("chat")
  /\ flow'["chat"].at = "stopping" /\ flow'["chat"].proc = h.daemon /\ flow'["chat"].mine

LEMMA InterruptFailsStep ==
  ASSUME Typed, InterruptFails
  PROVE  Typed' /\ StopForced
<1> DEFINE s == [NoFlow EXCEPT !.at = "stopping", !.proc = h.daemon, !.mine = TRUE]
<1>1. /\ flow["chat"].at = "interrupt"
      /\ UNCHANGED <<flush, proc, turn, stray, held, asked, sent, ended, ops, faults>>
      /\ receipt' = Settled(h.inFlight, "failed")
      /\ h' = [h EXCEPT !.inFlight = {}, !.timers = @ \ {"watchdog"}, !.stopping = TRUE]
      /\ flow' = [flow EXCEPT !["chat"] = s]
  BY DEF InterruptFails
<1>2. /\ h' \in Handle /\ LifeKept /\ SteerKept /\ h'.stopping /\ h'.waiter = h.waiter
      /\ h'.daemon = h.daemon /\ h'.state = h.state /\ h'.queue = h.queue /\ h'.inFlight = {}
  BY <1>1 DEF Typed, Handle, LifeKept, SteerKept
<1>3. s \in FlowStates /\ s.at = "stopping" /\ s.proc = h.daemon /\ s.mine
  BY NoFlowType DEF Typed, Handle, NoFlow
<1> HIDE DEF s
<1>4. FlowOthers("chat") /\ flow'["chat"] = s
  BY <1>1, <1>3, FlowSet DEF Typed, FlowOthers
<1>5. Typed'
  BY <1>1, <1>2, <1>4, SettledType DEF Typed, FlowOthers
<1> QED BY <1>1, <1>2, <1>3, <1>4, <1>5 DEF StopForced, TalkKept

StopOver ==
  /\ flow["chat"].at = "stopping" /\ Over("chat")
  /\ UNCHANGED <<flush, proc, turn, receipt>> /\ TalkKept
  /\ LifeKept /\ WorkKept /\ SteerKept /\ h'.waiter = h.waiter
  /\ FlowOthers("chat") /\ flow'["chat"].at = "idle"
  /\ IF flow["chat"].mine
     THEN ~h'.stopping /\ h'.state \in {"idle", "pending"} /\ h'.daemon = None
     ELSE h' = h

LEMMA StoppedStep ==
  ASSUME Typed, Stopped
  PROVE  Typed' /\ StopOver
<1> DEFINE hh == [h EXCEPT !.daemon = None, !.stopping = FALSE]
<1>1. /\ flow["chat"].at = "stopping" /\ Over("chat")
      /\ UNCHANGED <<flush, proc, turn, stray, held, receipt, asked, sent, ended, ops, faults>>
      /\ h' = IF flow["chat"].mine THEN Rested(hh) ELSE h
      /\ flow' = [flow EXCEPT !["chat"] = NoFlow]
  BY DEF Stopped
<1>2. /\ hh \in Handle
      /\ hh.live = h.live /\ hh.closing = h.closing /\ ~hh.stopping
      /\ hh.waiter = h.waiter /\ hh.queue = h.queue /\ hh.inFlight = h.inFlight
      /\ hh.daemon = None /\ hh.timers = h.timers
  BY DEF Typed, Handle
<1> HIDE DEF hh
<1>3. /\ h' \in Handle /\ LifeKept /\ WorkKept /\ SteerKept /\ h'.waiter = h.waiter
      /\ IF flow["chat"].mine
         THEN ~h'.stopping /\ h'.state \in {"idle", "pending"} /\ h'.daemon = None
         ELSE h' = h
  <2>1. CASE flow["chat"].mine
    BY <1>1, <1>2, <2>1, RestedHandle DEF LifeKept, WorkKept, SteerKept
  <2>2. CASE ~flow["chat"].mine
    BY <1>1, <2>2 DEF Typed, LifeKept, WorkKept, SteerKept
  <2> QED BY <2>1, <2>2
<1>4. FlowOthers("chat") /\ flow'["chat"].at = "idle"
  BY <1>1, FlowSet, NoFlowType DEF Typed, FlowOthers
<1>5. Typed'
  BY <1>1, <1>3, <1>4 DEF Typed, FlowOthers
<1> QED BY <1>1, <1>3, <1>4, <1>5 DEF StopOver, TalkKept

----------------------------------------------------------------------------
(* Releases and resets.                                                    *)

\* What both begin with, the queue's receipts apart.
Begun(f) ==
  /\ h.live
  /\ UNCHANGED <<flush, turn>> /\ TalkKept
  /\ SignalledProc(proc')
  /\ h'.live /\ h'.queue = h.queue /\ h'.inFlight = {} /\ h'.timers = {}
  /\ StopKept /\ h'.daemon = h.daemon
  /\ FlowOthers(f)
  /\ flow'[f].at = "stop" /\ flow'[f].proc = h.daemon /\ flow'[f].mine
  /\ flow'[f].flushed = (flush.at # "none")

ResetBegun(f) ==
  /\ Begun(f) /\ h'.closing /\ h'.state = h.state
  /\ flow'[f].op = Resetting[f]
  /\ receipt' = Settled(h.inFlight \cup ToSet(h.queue), "failed")

ReleaseBegun ==
  /\ flow["keeper"].at = "idle"
  /\ Begun("keeper") /\ h'.closing = h.closing /\ h'.state = "released"
  /\ flow'["keeper"].op = "release"
  /\ receipt' = Settled(h.inFlight, "failed")

\* hh is the handle as the operation has marked it.
LEMMA TearDownStep ==
  ASSUME Typed, Shape, h.live, NEW f \in Flow, NEW op \in {"release", "reset", "evict", "clear"},
         NEW hh \in Handle,
         hh.live, hh.queue = h.queue, hh.stopping = h.stopping, hh.waiter = h.waiter, hh.daemon = h.daemon,
         TearDown(f, op, hh), UNCHANGED <<flush, turn, stray, held, asked, sent, ended, faults>>,
         ops' \in Nat
  PROVE  Typed' /\ Begun(f) /\ h'.closing = hh.closing /\ h'.state = hh.state /\ flow'[f].op = op
<1> DEFINE s == [at |-> "stop", op |-> op, proc |-> h.daemon, flushed |-> flush.at # "none", mine |-> TRUE]
<1>1. /\ h' = [hh EXCEPT !.inFlight = {}, !.timers = {}]
      /\ proc' = Signalled(h.daemon)
      /\ flow' = [flow EXCEPT ![f] = s]
      /\ receipt' = Settled(h.inFlight \cup (IF op = "release" THEN {} ELSE ToSet(h.queue)), "failed")
  BY DEF TearDown
<1>2. /\ h' \in Handle
      /\ h'.live /\ h'.queue = h.queue /\ h'.inFlight = {} /\ h'.timers = {}
      /\ StopKept /\ h'.daemon = h.daemon /\ h'.closing = hh.closing /\ h'.state = hh.state
  BY <1>1 DEF Handle, StopKept
<1>3. SignalledProc(proc')
  BY <1>1, SignalledDaemon
<1>4. s \in FlowStates /\ s.at = "stop" /\ s.proc = h.daemon /\ s.op = op /\ s.mine
      /\ s.flushed = (flush.at # "none")
  <2>1. h.daemon \in Proc \cup {None}
    BY DEF Typed, Handle
  <2>2. (flush.at # "none") \in BOOLEAN
    OBVIOUS
  <2> QED BY <2>1, <2>2 DEF FlowStates
<1> HIDE DEF s
<1>5. FlowOthers(f) /\ flow'[f] = s
  BY <1>1, <1>4, FlowSet DEF Typed, FlowOthers
<1>6. receipt' \in [Message -> {"none", "waiting", "done", "failed"}]
  BY <1>1, SettledType
<1>7. Typed'
  BY <1>2, <1>3, <1>5, <1>6 DEF Typed, FlowOthers, SignalledProc
<1>8. Begun(f)
  BY <1>2, <1>3, <1>4, <1>5 DEF Begun, TalkKept
<1> QED BY <1>2, <1>4, <1>5, <1>7, <1>8

LEMMA ResetStep ==
  ASSUME Typed, Shape, NEW f \in Flow, Reset(f), ops' \in Nat,
         UNCHANGED <<flush, turn, stray, held, asked, sent, ended, faults>>
  PROVE  Typed' /\ ResetBegun(f)
<1> DEFINE hh == [h EXCEPT !.closing = TRUE]
<1>1. /\ hh \in Handle /\ hh.live = h.live /\ hh.queue = h.queue /\ hh.stopping = h.stopping
      /\ hh.waiter = h.waiter /\ hh.daemon = h.daemon /\ hh.closing /\ hh.state = h.state
  BY DEF Typed, Handle
<1>2. Resetting[f] \in {"release", "reset", "evict", "clear"} /\ Resetting[f] # "release"
  BY DEF Resetting
<1>3. h.live /\ TearDown(f, Resetting[f], hh)
  BY DEF Reset
<1>4. receipt' = Settled(h.inFlight \cup ToSet(h.queue), "failed")
  BY <1>2, <1>3 DEF TearDown
<1> DEFINE op == Resetting[f]
<1>5. op \in {"release", "reset", "evict", "clear"} /\ TearDown(f, op, hh) /\ hh.live
  BY <1>1, <1>2, <1>3
<1> HIDE DEF hh, op
<1>6. Typed' /\ Begun(f) /\ h'.closing = hh.closing /\ h'.state = hh.state /\ flow'[f].op = op
  BY <1>1, <1>3, <1>5, TearDownStep, ZenonT(60)
<1> QED BY <1>1, <1>4, <1>6 DEF ResetBegun, op

LEMMA ReleaseStep ==
  ASSUME Typed, Shape, Release
  PROVE  Typed' /\ ReleaseBegun
<1> DEFINE hh == [h EXCEPT !.state = "released"]
<1>1. /\ hh \in Handle /\ hh.live = h.live /\ hh.queue = h.queue /\ hh.stopping = h.stopping
      /\ hh.waiter = h.waiter /\ hh.daemon = h.daemon /\ hh.closing = h.closing /\ hh.state = "released"
  BY DEF Typed, Handle
<1>2. /\ h.live /\ TearDown("keeper", "release", hh) /\ flow["keeper"].at = "idle"
      /\ UNCHANGED <<flush, turn, stray, held, asked, sent, ended, faults>>
  BY DEF Release
<1>3. ops' \in Nat
  BY DEF Typed, Release, Spend
<1>4. receipt' = Settled(h.inFlight, "failed")
  <2>1. h.inFlight \cup {} = h.inFlight
    OBVIOUS
  <2> QED BY <1>2, <2>1 DEF TearDown
<1> HIDE DEF hh
<1> QED BY <1>1, <1>2, <1>3, <1>4, TearDownStep DEF ReleaseBegun

FlushAwaited(f) ==
  /\ flow[f].at = "stop" /\ Over(f) /\ flow[f].flushed /\ flush.at # "none"
  /\ UNCHANGED <<flush, proc, turn, receipt>> /\ TalkKept
  /\ LifeKept /\ StopKept /\ WorkKept /\ SteerKept /\ h'.state = h.state
  /\ h'.daemon = IF flow[f].op = "release" /\ flow[f].mine THEN None ELSE h.daemon
  /\ FlowOthers(f) /\ flow'[f].at = "flush"
  /\ flow'[f].op = flow[f].op /\ flow'[f].mine = flow[f].mine /\ flow'[f].flushed = flow[f].flushed

LEMMA AwaitsFlushStep ==
  ASSUME Typed, NEW f \in Flow, AwaitsFlush(f)
  PROVE  Typed' /\ FlushAwaited(f)
<1> DEFINE s == [flow[f] EXCEPT !.at = "flush"]
<1>1. /\ flow[f].at = "stop" /\ Over(f) /\ flow[f].flushed /\ flush.at # "none"
      /\ flow' = [flow EXCEPT ![f].at = "flush"]
      /\ h' = IF flow[f].op = "release" /\ flow[f].mine THEN [h EXCEPT !.daemon = None] ELSE h
      /\ UNCHANGED <<flush, proc, turn, stray, held, receipt, asked, sent, ended, ops, faults>>
  BY DEF AwaitsFlush
<1>2. flow \in [Flow -> FlowStates] /\ flow[f] \in FlowStates
  BY DEF Typed
<1>3. /\ s \in FlowStates /\ s.at = "flush" /\ s.op = flow[f].op /\ s.mine = flow[f].mine
      /\ s.flushed = flow[f].flushed
  BY <1>2 DEF FlowStates
<1>4. flow' = [flow EXCEPT ![f] = s]
  BY <1>1
<1> HIDE DEF s
<1>5. FlowOthers(f) /\ flow'[f] = s
  BY <1>2, <1>3, <1>4, FlowSet DEF FlowOthers
<1>6. /\ h' \in Handle
      /\ LifeKept /\ StopKept /\ WorkKept /\ SteerKept /\ h'.state = h.state
      /\ h'.daemon = IF flow[f].op = "release" /\ flow[f].mine THEN None ELSE h.daemon
  BY <1>1 DEF Typed, Handle, LifeKept, StopKept, WorkKept, SteerKept
<1>7. Typed'
  BY <1>1, <1>5, <1>6 DEF Typed, FlowOthers
<1> QED BY <1>1, <1>3, <1>5, <1>6, <1>7 DEF FlushAwaited, TalkKept

Acknowledged ==
  /\ flow["keeper"].op = "release" /\ TornDown("keeper")
  /\ UNCHANGED <<flush, proc, turn, receipt>> /\ TalkKept
  /\ LifeKept /\ StopKept /\ WorkKept /\ SteerKept
  /\ IF flow["keeper"].mine THEN h'.daemon = None /\ h'.state = "released" ELSE h' = h
  /\ FlowOthers("keeper") /\ flow'["keeper"].at = "idle"

LEMMA ReleasedStep ==
  ASSUME Typed, Released
  PROVE  Typed' /\ Acknowledged
<1>1. /\ flow["keeper"].op = "release" /\ TornDown("keeper")
      /\ flow' = [flow EXCEPT !["keeper"] = NoFlow]
      /\ held' = TRUE
      /\ h' = IF ~flow["keeper"].mine THEN h
              ELSE [h EXCEPT !.daemon = None, !.state = "released",
                             !.timers = IF h.queue = <<>> THEN @ ELSE @ \cup {"release"}]
      /\ UNCHANGED <<flush, proc, turn, stray, receipt, asked, sent, ended, ops, faults>>
  BY DEF Released
<1>2. FlowOthers("keeper") /\ flow'["keeper"].at = "idle"
  BY <1>1, FlowSet, NoFlowType DEF Typed, FlowOthers
<1>3. /\ h' \in Handle /\ LifeKept /\ StopKept /\ WorkKept /\ SteerKept
      /\ IF flow["keeper"].mine THEN h'.daemon = None /\ h'.state = "released" ELSE h' = h
  BY <1>1 DEF Typed, Handle, LifeKept, StopKept, WorkKept, SteerKept
<1>4. Typed'
  BY <1>1, <1>2, <1>3 DEF Typed, FlowOthers
<1> QED BY <1>1, <1>2, <1>3, <1>4 DEF Acknowledged, TalkKept

Gone(f) ==
  /\ TornDown(f) /\ flow[f].op = Resetting[f]
  /\ UNCHANGED <<flush, proc, turn>> /\ TalkKept
  /\ flow' \in [Flow -> FlowStates] /\ flow'[f].at = "idle"
  /\ IF flow[f].mine
     THEN /\ h' = NoHandle /\ receipt' = Settled(ToSet(h.queue) \cup h.inFlight, "failed")
          /\ \A g \in Flow \ {f} : /\ flow'[g].at = flow[g].at /\ flow'[g].op = flow[g].op
                                   /\ flow'[g].proc = flow[g].proc /\ ~flow'[g].mine
     ELSE h' = h /\ receipt' = receipt /\ \A g \in Flow \ {f} : flow'[g] = flow[g]

LEMMA NoHandleType == NoHandle \in Handle
BY Empty DEF NoHandle, Handle

LEMMA DeletedStep ==
  ASSUME Typed, NEW f \in Flow, Deleted(f)
  PROVE  Typed' /\ Gone(f)
<1>1. /\ flow[f].op = Resetting[f] /\ TornDown(f)
      /\ UNCHANGED <<flush, proc, turn, held, asked, sent, ended, ops, faults>>
  BY DEF Deleted
<1>2. flow \in [Flow -> FlowStates]
  BY DEF Typed
<1>3. CASE flow[f].mine
  <2>1. /\ receipt' = Settled(ToSet(h.queue) \cup h.inFlight, "failed")
        /\ h' = NoHandle
        /\ stray' = (stray \/ "debounce" \in h.timers)
        /\ flow' = [g \in Flow |-> IF g = f THEN NoFlow ELSE [flow[g] EXCEPT !.mine = FALSE]]
    BY <1>3 DEF Deleted
  <2>2. \A g \in Flow : /\ [flow[g] EXCEPT !.mine = FALSE] \in FlowStates
                        /\ [flow[g] EXCEPT !.mine = FALSE].at = flow[g].at
                        /\ [flow[g] EXCEPT !.mine = FALSE].op = flow[g].op
                        /\ [flow[g] EXCEPT !.mine = FALSE].proc = flow[g].proc
                        /\ ~[flow[g] EXCEPT !.mine = FALSE].mine
    BY <1>2 DEF FlowStates
  <2>3. /\ flow' \in [Flow -> FlowStates] /\ flow'[f].at = "idle"
        /\ \A g \in Flow \ {f} : /\ flow'[g].at = flow[g].at /\ flow'[g].op = flow[g].op
                                 /\ flow'[g].proc = flow[g].proc /\ ~flow'[g].mine
    BY <2>1, <2>2, NoFlowType
  <2>4. stray' \in BOOLEAN
    BY <2>1, Zenon DEF Typed
  <2>5. Typed'
    BY <1>1, <2>1, <2>3, <2>4, SettledType, NoHandleType DEF Typed
  <2> QED BY <1>1, <1>3, <2>1, <2>3, <2>5 DEF Gone, TalkKept
<1>4. CASE ~flow[f].mine
  <2>1. flow' = [flow EXCEPT ![f] = NoFlow] /\ UNCHANGED <<h, receipt, stray>>
    BY <1>4 DEF Deleted
  <2>2. flow' \in [Flow -> FlowStates] /\ flow'[f].at = "idle" /\ \A g \in Flow \ {f} : flow'[g] = flow[g]
    BY <1>2, <2>1, FlowSet, NoFlowType
  <2>3. Typed'
    BY <1>1, <2>1, <2>2 DEF Typed
  <2> QED BY <1>1, <1>4, <2>1, <2>2, <2>3 DEF Gone, TalkKept
<1> QED BY <1>3, <1>4

----------------------------------------------------------------------------
(* The sweep.                                                              *)

SweepBegun ==
  /\ flow["sweep"].at = "idle" /\ IsIdleEmpty /\ Alive(h.daemon)
  /\ UNCHANGED <<flush, proc, turn, receipt>> /\ TalkKept
  /\ LifeKept /\ WorkKept /\ SteerKept /\ h'.stopping = h.stopping
  /\ h'.daemon = h.daemon /\ h'.state = "inFlight"
  /\ FlowOthers("sweep") /\ flow'["sweep"].at = "prompt" /\ flow'["sweep"].proc = h.daemon

LEMMA SweepStep ==
  ASSUME Typed, Sweep
  PROVE  Typed' /\ SweepBegun
<1> DEFINE s == [NoFlow EXCEPT !.at = "prompt", !.proc = h.daemon]
<1>1. /\ flow["sweep"].at = "idle" /\ IsIdleEmpty /\ Alive(h.daemon)
      /\ UNCHANGED <<flush, proc, turn, stray, held, receipt, asked, sent, ended, faults>>
      /\ h' = [h EXCEPT !.state = "inFlight", !.waiter = TRUE]
      /\ flow' = [flow EXCEPT !["sweep"] = s]
  BY DEF Sweep
<1>2. /\ h' \in Handle /\ LifeKept /\ WorkKept /\ SteerKept /\ h'.stopping = h.stopping
      /\ h'.daemon = h.daemon /\ h'.state = "inFlight"
  BY <1>1 DEF Typed, Handle, LifeKept, WorkKept, SteerKept
<1>3. ops' \in Nat
  BY DEF Typed, Sweep, Spend
<1>4. s \in FlowStates /\ s.at = "prompt" /\ s.proc = h.daemon
  BY NoFlowType DEF Typed, Handle, NoFlow
<1> HIDE DEF s
<1>5. FlowOthers("sweep") /\ flow'["sweep"] = s
  BY <1>1, <1>4, FlowSet DEF Typed, FlowOthers
<1>6. Typed'
  BY <1>1, <1>2, <1>3, <1>5 DEF Typed, FlowOthers
<1> QED BY <1>1, <1>2, <1>4, <1>5, <1>6 DEF SweepBegun, TalkKept

SweepWaits ==
  /\ flow["sweep"].at = "prompt"
  /\ UNCHANGED <<flush, proc, receipt>> /\ TalkKept
  /\ turn' = [turn EXCEPT ![h.daemon] = Append(@, <<>>)]
  /\ LifeKept /\ StopKept /\ WorkKept /\ SteerKept
  /\ h'.daemon = h.daemon /\ h'.state = h.state
  /\ FlowOthers("sweep") /\ flow'["sweep"].at = "waiting"

LEMMA SweepSentStep ==
  ASSUME Typed, Shape, SweepSent
  PROVE  Typed' /\ SweepWaits
<1> DEFINE s == [flow["sweep"] EXCEPT !.at = "waiting"]
<1>1. /\ flow["sweep"].at = "prompt"
      /\ turn' = [turn EXCEPT ![flow["sweep"].proc] = Append(@, <<>>)]
      /\ h' = [h EXCEPT !.timers = @ \cup {"watchdog"}]
      /\ flow' = [flow EXCEPT !["sweep"].at = "waiting"]
      /\ UNCHANGED <<flush, proc, stray, held, receipt, asked, sent, ended, ops, faults>>
  BY DEF SweepSent
<1>2. flow["sweep"].proc = h.daemon /\ h.daemon \in Proc
  BY <1>1 DEF Shape, SweepSound, Typed, Handle, Alive
<1>3. turn' \in [Proc -> Seq(Seq(Prompt))]
  <2>1. Append(turn[h.daemon], <<>>) \in Seq(Seq(Prompt))
    BY <1>2, Empty DEF Typed
  <2> QED BY <1>1, <1>2, <2>1 DEF Typed
<1>4. flow \in [Flow -> FlowStates] /\ flow["sweep"] \in FlowStates
  BY DEF Typed
<1>5. s \in FlowStates /\ s.at = "waiting"
  BY <1>4 DEF FlowStates
<1>6. flow' = [flow EXCEPT !["sweep"] = s]
  BY <1>1
<1> HIDE DEF s
<1>7. FlowOthers("sweep") /\ flow'["sweep"] = s
  BY <1>4, <1>5, <1>6, FlowSet DEF FlowOthers
<1>8. /\ h' \in Handle /\ LifeKept /\ StopKept /\ WorkKept /\ SteerKept
      /\ h'.daemon = h.daemon /\ h'.state = h.state
  BY <1>1 DEF Typed, Handle, LifeKept, StopKept, WorkKept, SteerKept
<1>9. Typed'
  BY <1>1, <1>3, <1>7, <1>8 DEF Typed, FlowOthers
<1> QED BY <1>1, <1>2, <1>5, <1>7, <1>8, <1>9 DEF SweepWaits, TalkKept

SweepBounced ==
  /\ flow["sweep"].at = "prompt" /\ proc[flow["sweep"].proc] = "dying"
  /\ UNCHANGED <<flush, proc, turn, receipt>> /\ TalkKept
  /\ LifeKept /\ WorkKept /\ SteerKept /\ h'.stopping = h.stopping /\ ~h'.waiter
  /\ h'.daemon = h.daemon /\ h'.state = "idle"
  /\ FlowOthers("sweep") /\ flow'["sweep"].at = "idle"

LEMMA SweepSendFailsStep ==
  ASSUME Typed, SweepSendFails
  PROVE  Typed' /\ SweepBounced
<1>1. /\ flow["sweep"].at = "prompt" /\ proc[flow["sweep"].proc] = "dying"
      /\ UNCHANGED <<flush, proc, turn, stray, held, receipt, asked, sent, ended, ops, faults>>
      /\ h' = [h EXCEPT !.waiter = FALSE, !.state = "idle"]
      /\ flow' = [flow EXCEPT !["sweep"] = NoFlow]
  BY DEF SweepSendFails
<1>2. /\ h' \in Handle /\ LifeKept /\ WorkKept /\ SteerKept /\ h'.stopping = h.stopping /\ ~h'.waiter
      /\ h'.daemon = h.daemon /\ h'.state = "idle"
  BY <1>1 DEF Typed, Handle, LifeKept, WorkKept, SteerKept
<1>3. FlowOthers("sweep") /\ flow'["sweep"].at = "idle"
  BY <1>1, FlowSet, NoFlowType DEF Typed, FlowOthers
<1>4. Typed'
  BY <1>1, <1>2, <1>3 DEF Typed, FlowOthers
<1> QED BY <1>1, <1>2, <1>3, <1>4 DEF SweepBounced, TalkKept

SweepGivesWay == SweepClears /\ ~IsIdleEmpty

LEMMA SweepGivesWayMild ==
  ASSUME Typed, Shape, SweepGivesWay
  PROVE  Mild /\ BooksKept
<1>1. /\ flow["sweep"].at = "ended" /\ flow' = [flow EXCEPT !["sweep"] = NoFlow]
      /\ UNCHANGED <<h, proc, receipt, flush, turn, stray, held, asked, sent, ended, ops, faults>>
  BY DEF SweepGivesWay, SweepClears
<1>2. MildHandle /\ h'.queue = h.queue /\ ~h'.waiter
  BY <1>1 DEF Typed, Shape, Present, Bare, SweepSound, MildHandle, Handle
<1>3. FlowOthers("sweep") /\ flow'["sweep"].at = "idle"
  BY <1>1, FlowSet, NoFlowType DEF Typed, FlowOthers
<1>4. \A f \in Flow : flow'[f] = flow[f] \/ (flow[f].at = "ended" /\ flow'[f].at = "idle")
  BY <1>1, <1>3 DEF FlowOthers
<1> QED BY <1>1, <1>2, <1>3, <1>4 DEF Typed, Mild, MildHandle, BooksKept, FlowOthers

----------------------------------------------------------------------------
(* Every one of those steps keeps the shape.                               *)

LEMMA ShapeFacts ==
  ASSUME Typed, Shape
  PROVE  /\ h.daemon \in Proc \cup {None}
         /\ Alive(h.daemon) => h.daemon \in Proc /\ proc[h.daemon] \in {"up", "dying"} /\ h.live
         /\ Alive(h.daemon) => flush.at # "spawn"
         /\ ~Alive(h.daemon) /\ flush.at # "spawn" => \A p \in Proc \cup {None} : ~Alive(p)
         /\ flush.at # "none" \/ h.queue # <<>> => h.live
         /\ Turning => h.live /\ h.daemon \in Proc /\ turn[h.daemon] # <<>> /\ Alive(h.daemon)
         /\ \A f \in Flow : flow[f] \in FlowStates /\ flow[f].proc \in Proc \cup {None}
<1>1. h.daemon \in Proc \cup {None} /\ \A p \in Proc : proc[p] \in {"none", "starting", "up", "dying"}
  BY DEF Typed, Handle
<1>2. Alive(h.daemon) => h.daemon \in Proc /\ proc[h.daemon] \in {"up", "dying"} /\ h.live
  BY <1>1 DEF Shape, Owned, FlushSound, Present, Alive
<1>3. Alive(h.daemon) => flush.at # "spawn"
  BY DEF Shape, FlushSound
<1>4. ~Alive(h.daemon) /\ flush.at # "spawn" => \A p \in Proc \cup {None} : ~Alive(p)
  BY <1>1 DEF Shape, Owned, Alive
<1>5. flush.at # "none" \/ h.queue # <<>> => h.live
  BY DEF Shape, Present, Bare
<1>6. Turning => h.live /\ h.daemon \in Proc /\ turn[h.daemon] # <<>> /\ Alive(h.daemon)
  <2> SUFFICES ASSUME NEW p \in Proc, turn[p] # <<>>
               PROVE  h.live /\ h.daemon \in Proc /\ turn[h.daemon] # <<>> /\ Alive(h.daemon)
    BY DEF Turning
  <2>1. proc[p] \in {"up", "dying"}
    BY DEF Shape, TurnSound
  <2>2. p = h.daemon
    BY <2>1 DEF Shape, Owned
  <2>3. Alive(h.daemon)
    BY <2>1, <2>2 DEF Alive
  <2> QED BY <1>2, <2>2, <2>3
<1>7. \A f \in Flow : flow[f] \in FlowStates /\ flow[f].proc \in Proc \cup {None}
  BY DEF Typed, FlowStates
<1> QED BY <1>1, <1>2, <1>3, <1>4, <1>5, <1>6, <1>7

LEMMA DeliveredKeepsShape ==
  ASSUME Typed, Shape, Delivered, Typed'
  PROVE  Shape'
<1> USE DEF LifeKept, StopKept, WorkKept, SteerKept
<1>1. /\ flush.at = "send" /\ flush'.at = "none" /\ flow' = flow /\ proc' = proc
      /\ flush.proc = h.daemon /\ Alive(h.daemon) /\ h.live /\ h.daemon \in Proc
      /\ proc[h.daemon] \in {"up", "dying"} /\ ~Turning /\ flow["sweep"].at # "prompt"
      /\ h.state \in {"inFlight", "released"}
  BY ShapeFacts DEF Delivered, Shape, FlushSound, TurnSound
<1>2. \A p \in Proc \cup {None} : Alive(p)' <=> Alive(p)
  BY <1>1 DEF Alive
<1>3. \A f \in Flow : Over(f)' <=> Over(f)
  BY <1>1, <1>2, ShapeFacts DEF Over
<1>4. Places'
  BY <1>1 DEF Shape, Places, Tearing, Resets
<1>5. Present'
  BY <1>1 DEF Delivered, Present
<1>6. Owned'
  BY <1>1 DEF Delivered, Shape, Owned
<1>7. FlushSound'
  BY <1>1 DEF FlushSound
<1>8. ~Quiet
  BY <1>1 DEF Quiet
<1>9. ChatSound'
  BY <1>1, <1>2, <1>3, <1>8 DEF Delivered, Shape, ChatSound
<1>10. SweepSound'
  BY <1>1, <1>2 DEF Delivered, Shape, SweepSound
<1>11. TearSound'
  <2> SUFFICES ASSUME NEW f \in Flow, Tearing(f)
               PROVE  IF flow[f].mine THEN Torn(f)' ELSE Quiet'
    BY <1>1 DEF TearSound, Tearing
  <2>1. flow[f].mine /\ Torn(f)
    BY <1>8 DEF Shape, TearSound
  <2> QED BY <1>1, <1>2, <1>3, <2>1 DEF Torn, Resets, Delivered, Interrupting
<1>12. ClosingSound'
  BY <1>1 DEF Delivered, Shape, ClosingSound, Tearing, Resets
<1>13. TurnSound'
  <2>1. \A p \in Proc : turn'[p] # <<>> => p = h.daemon /\ Len(turn'[p]) = 1
    <3> SUFFICES ASSUME NEW p \in Proc, turn'[p] # <<>>
                 PROVE  p = h.daemon /\ Len(turn'[p]) = 1
      OBVIOUS
    <3>1. turn[p] = <<>> /\ turn' = [turn EXCEPT ![h.daemon] = Append(turn[h.daemon], flush.batch)]
      BY <1>1 DEF Turning, Delivered
    <3>2. p = h.daemon
      BY <1>1, <3>1 DEF Typed
    <3>3. turn'[p] = Append(<<>>, flush.batch)
      BY <1>1, <3>1, <3>2 DEF Typed
    <3>4. flush.batch \in Seq(Prompt)
      BY DEF Typed, FlushStates
    <3>5. Len(Append(<<>>, flush.batch)) = Len(<<>>) + 1
      BY <3>4, Empty, AppendProperties
    <3> QED BY <3>2, <3>3, <3>5
  <2> QED BY <1>1, <2>1 DEF TurnSound, Delivered
<1>14. ReleasedSound'
  BY <1>1, <1>8 DEF Delivered, Shape, ReleasedSound, Tearing
<1>15. InFlightSound'
  BY <1>1, <1>2 DEF Delivered, InFlightSound
<1>16. SteerSound'
  BY <1>1, <1>2 DEF Delivered, Shape, SteerSound
<1> QED BY <1>4, <1>5, <1>6, <1>7, <1>9, <1>10, <1>11, <1>12, <1>13, <1>14, <1>15, <1>16 DEF Shape

LEMMA BouncedKeepsShape ==
  ASSUME Typed, Shape, Bounced, Typed'
  PROVE  Shape'
<1> USE DEF LifeKept, StopKept, SteerKept
<1>1. /\ flush.at = "send" /\ flush'.at = "none" /\ flow' = flow /\ proc' = proc /\ turn' = turn
      /\ flush.proc = h.daemon /\ Alive(h.daemon) /\ h.live /\ h.daemon \in Proc
      /\ proc[h.daemon] = "dying" /\ ~Turning /\ flow["sweep"].at # "prompt"
      /\ h'.state = h.state \/ (h'.state = "crashed" /\ ~h.closing /\ h.state # "released")
  BY ShapeFacts DEF Bounced, Shape, FlushSound, TurnSound
<1>2. \A p \in Proc \cup {None} : Alive(p)' <=> Alive(p)
  BY <1>1 DEF Alive
<1>3. \A f \in Flow : Over(f)' <=> Over(f)
  BY <1>1, <1>2, ShapeFacts DEF Over
<1>4. Places'
  BY <1>1 DEF Shape, Places, Tearing, Resets
<1>5. Present'
  BY <1>1 DEF Bounced, Present
<1>6. Owned'
  BY <1>1 DEF Bounced, Shape, Owned
<1>7. FlushSound'
  BY <1>1 DEF FlushSound
<1>8. ~Quiet
  BY <1>1 DEF Quiet
<1>9. ChatSound'
  BY <1>1, <1>2, <1>3, <1>8 DEF Bounced, Shape, ChatSound
<1>10. SweepSound'
  BY <1>1, <1>2 DEF Bounced, Shape, SweepSound
<1>11. TearSound'
  <2> SUFFICES ASSUME NEW f \in Flow, Tearing(f)
               PROVE  IF flow[f].mine THEN Torn(f)' ELSE Quiet'
    BY <1>1 DEF TearSound, Tearing
  <2>1. flow[f].mine /\ Torn(f)
    BY <1>8 DEF Shape, TearSound
  <2> QED BY <1>1, <1>2, <1>3, <2>1 DEF Torn, Resets, Bounced, Interrupting
<1>12. ClosingSound'
  BY <1>1 DEF Bounced, Shape, ClosingSound, Tearing, Resets
<1>13. TurnSound'
  BY <1>1 DEF TurnSound, Turning
<1>14. ReleasedSound'
  BY <1>1, <1>8 DEF Bounced, Shape, ReleasedSound, Tearing
<1>15. InFlightSound'
  BY <1>1, <1>2 DEF Bounced, InFlightSound
<1>16. SteerSound'
  BY <1>1, <1>2 DEF Bounced, SteerSound
<1> QED BY <1>4, <1>5, <1>6, <1>7, <1>9, <1>10, <1>11, <1>12, <1>13, <1>14, <1>15, <1>16 DEF Shape

LEMMA TailOfOne ==
  ASSUME NEW S, NEW s \in Seq(S), Len(s) = 1
  PROVE  Tail(s) = <<>>
<1>1. s # <<>>
  OBVIOUS
<1>2. Tail(s) \in Seq(S) /\ Len(Tail(s)) = Len(s) - 1
  BY <1>1, HeadTailProperties
<1>3. Len(Tail(s)) = 0
  BY <1>2
<1> QED BY <1>2, <1>3, EmptySeq

LEMMA TurnOverKeepsShape ==
  ASSUME Typed, Shape, NEW p \in Proc, TurnOverStep(p), Typed'
  PROVE  Shape'
<1> USE DEF LifeKept, SteerKept
<1>1. /\ p = h.daemon /\ turn[p] # <<>> /\ flush' = flush /\ proc' = proc
      /\ h'.daemon = h.daemon /\ h'.queue = h.queue /\ h'.live = h.live /\ h'.closing = h.closing
      /\ h'.stopping = h.stopping /\ h'.inFlight = {}
  BY DEF TurnOverStep
<1>2. Turning /\ h.live /\ Alive(h.daemon) /\ proc[h.daemon] \in {"up", "dying"}
      /\ flush.at # "send" /\ flow["sweep"].at # "prompt" /\ h.state \in {"inFlight", "released"}
  BY <1>1, ShapeFacts DEF Turning, Shape, TurnSound
<1>3. \A q \in Proc : turn'[q] = <<>>
  <2> SUFFICES ASSUME NEW q \in Proc PROVE turn'[q] = <<>>
    OBVIOUS
  <2>1. CASE q = p
    <3>1. turn[p] \in Seq(Seq(Prompt)) /\ Len(turn[p]) = 1
      BY <1>1 DEF Typed, Shape, TurnSound
    <3>2. Tail(turn[p]) = <<>>
      BY <3>1, TailOfOne
    <3> QED BY <2>1, <3>2 DEF Typed, TurnOverStep
  <2>2. CASE q # p
    <3>1. turn[q] = <<>>
      BY <1>1, <2>2 DEF Shape, TurnSound, Owned
    <3> QED BY <2>2, <3>1 DEF Typed, TurnOverStep
  <2> QED BY <2>1, <2>2
<1>4. \/ flow' = flow
      \/ /\ FlowOthers("sweep") /\ flow'["sweep"].at = "ended" /\ ~h'.waiter
         /\ flow["sweep"].at = "waiting"
  <2>1. CASE flow' = [flow EXCEPT !["sweep"].at = "ended"] /\ h.waiter /\ ~h'.waiter
    <3>1. flow["sweep"].at = "waiting"
      BY <1>2, <2>1 DEF Shape, SweepSound
    <3>2. flow' \in [Flow -> FlowStates] /\ flow \in [Flow -> FlowStates]
      BY DEF Typed
    <3> QED BY <2>1, <3>1, <3>2 DEF FlowOthers, FlowStates
  <2> QED BY <2>1 DEF TurnOverStep
<1>5. /\ flow'["chat"] = flow["chat"]
      /\ \A f \in Flow : Tearing(f)' <=> Tearing(f)
      /\ \A f \in Flow : Tearing(f) => flow'[f] = flow[f]
  BY <1>4 DEF FlowOthers, Tearing
<1>6. \A q \in Proc \cup {None} : Alive(q)' <=> Alive(q)
  BY <1>1 DEF Alive
<1>7. \A f \in Flow : flow'[f] = flow[f] => (Over(f)' <=> Over(f))
  BY <1>6, ShapeFacts DEF Over
<1>8. ~Quiet
  BY <1>2, ShapeFacts DEF Quiet
<1>9. \/ h.state = "released" /\ h'.state = h.state
      \/ h.state # "released" /\ h'.state \in {"idle", "pending"}
  BY Zenon DEF TurnOverStep
<1>10. Places'
  BY <1>4, <1>5 DEF Shape, Places, Tearing, Resets, FlowOthers
<1>11. Present'
  BY <1>1, <1>2 DEF Present
<1>12. Owned'
  BY <1>1 DEF Shape, Owned
<1>13. FlushSound'
  <2>1. flow'["sweep"].at # "prompt"
    BY <1>2, <1>4
  <2> QED BY <1>1, <1>2, <1>5, <1>6, <1>9, <2>1 DEF Shape, FlushSound, Interrupting
<1>14. ChatSound'
  BY <1>1, <1>5, <1>6, <1>7, <1>8 DEF Shape, ChatSound
<1>15. SweepSound'
  BY <1>2, <1>4 DEF TurnOverStep, Shape, SweepSound
<1>16. TearSound'
  <2> SUFFICES ASSUME NEW f \in Flow, Tearing(f), flow'[f] = flow[f]
               PROVE  IF flow[f].mine THEN Torn(f)' ELSE Quiet'
    BY <1>5 DEF TearSound
  <2>1. flow[f].mine /\ Torn(f)
    BY <1>8 DEF Shape, TearSound
  <2>3. flow[f].op = "release" =>
          \/ h.closing \/ h'.state = "released"
          \/ flow[f].at = "stop" /\ flush.at \notin {"spawn", "obsolete"}
    BY <1>9, <2>1 DEF Torn
  <2> QED BY <1>1, <1>5, <1>6, <1>7, <2>1, <2>3 DEF Torn, Resets, Interrupting
<1>17. ClosingSound'
  BY <1>1, <1>5 DEF Shape, ClosingSound, Resets
<1>18. TurnSound'
  BY <1>1, <1>2, <1>3, <1>4 DEF TurnSound, Turning
<1>19. ReleasedSound'
  BY <1>5, <1>8, <1>9 DEF Shape, ReleasedSound
<1>20. InFlightSound'
  BY <1>1, <1>2, <1>6 DEF InFlightSound
<1>21. SteerSound'
  BY <1>1, <1>2, <1>6, <1>9 DEF TurnOverStep, Shape, SteerSound
<1> QED BY <1>10, <1>11, <1>12, <1>13, <1>14, <1>15, <1>16, <1>17, <1>18, <1>19, <1>20, <1>21 DEF Shape

LEMMA ClosedKeepsShape ==
  ASSUME Typed, Shape, NEW p \in Proc, h.daemon = p, Closed(p), Typed'
  PROVE  Shape'
<1> USE DEF LifeKept
<1>1. /\ proc[p] = "dying" /\ h.daemon = p /\ flush' = flush /\ flow' = flow
      /\ h'.live = h.live /\ h'.closing = h.closing /\ h'.stopping = h.stopping /\ ~h'.waiter
      /\ h'.queue = h.queue /\ h'.inFlight = {} /\ "steer" \notin h'.timers
      /\ h'.daemon \in {p, None}
      /\ proc' = [proc EXCEPT ![p] = "none"] /\ turn' = [turn EXCEPT ![p] = <<>>]
  BY DEF Closed
<1>2. Alive(h.daemon) /\ h.live /\ flush.at # "spawn"
  <2>1. Alive(h.daemon)
    BY <1>1 DEF Alive
  <2> QED BY <2>1, ShapeFacts
<1>3. flush.at # "send" /\ flow["chat"].at # "interrupt" /\ flow["sweep"].at # "prompt"
  BY <1>1 DEF Closed, Writing, Shape, FlushSound, ChatSound, SweepSound
<1>4. \A q \in Proc : proc'[q] = "none"
  BY <1>1, <1>2 DEF Typed, Shape, Owned
<1>5. \A q \in Proc \cup {None} : ~Alive(q)'
  BY <1>4 DEF Alive
<1>6. \A f \in Flow : Over(f)'
  BY <1>1, <1>5, ShapeFacts DEF Over
<1>7. \A q \in Proc : turn'[q] = <<>>
  BY <1>1, <1>2 DEF Typed, Shape, TurnSound, Owned
<1>8. \/ h'.state = h.state /\ (h.closing \/ h.state = "released" \/ h.stopping)
      \/ h'.state = "crashed" /\ h.state # "released"
  BY DEF Closed
<1>9. ~Quiet
  BY <1>1 DEF Quiet
<1>10. h'.daemon \in Proc \cup {None}
  BY <1>1
<1>11. Places'
  BY <1>1 DEF Shape, Places, Tearing, Resets
<1>12. Present'
  BY <1>1, <1>2 DEF Present
<1>13. Owned'
  BY <1>4 DEF Owned
<1>14. FlushSound'
  BY <1>1, <1>2, <1>3, <1>5, <1>8, <1>10 DEF Shape, FlushSound, Interrupting
<1>15. ChatSound'
  BY <1>1, <1>3, <1>5, <1>6, <1>9, <1>10 DEF Shape, ChatSound
<1>16. SweepSound'
  BY <1>1, <1>3 DEF SweepSound
<1>17. TearSound'
  <2> SUFFICES ASSUME NEW f \in Flow, Tearing(f)
               PROVE  IF flow[f].mine THEN Torn(f)' ELSE Quiet'
    BY <1>1 DEF TearSound, Tearing
  <2>1. flow[f].mine /\ Torn(f)
    BY <1>9 DEF Shape, TearSound
  <2> QED BY <1>1, <1>2, <1>5, <1>6, <1>8, <1>10, <2>1 DEF Torn, Resets, Interrupting
<1>18. ClosingSound'
  BY <1>1 DEF Shape, ClosingSound, Tearing, Resets
<1>19. TurnSound'
  BY <1>1, <1>3, <1>7 DEF TurnSound, Turning
<1>20. ReleasedSound'
  BY <1>1, <1>8, <1>9 DEF Shape, ReleasedSound, Tearing
<1>21. InFlightSound'
  <2>1. h'.state = "inFlight" => h.closing \/ h.stopping
    BY <1>8
  <2> QED BY <1>1, <1>6, <2>1 DEF Shape, ChatSound, InFlightSound
<1>22. SteerSound'
  BY <1>1 DEF SteerSound
<1> QED BY <1>11, <1>12, <1>13, <1>14, <1>15, <1>16, <1>17, <1>18, <1>19, <1>20, <1>21, <1>22 DEF Shape

\* A spawn is under way: no other process is, and nobody writes or reads one.
LEMMA SpawningFacts ==
  ASSUME Typed, Shape, flush.at = "spawn"
  PROVE  /\ flush.proc \in Proc /\ proc[flush.proc] = "starting" /\ h.live /\ ~Alive(h.daemon)
         /\ h.daemon \in Proc \cup {None} /\ h.queue # <<>> /\ h.state # "inFlight"
         /\ \A q \in Proc : q # flush.proc => proc[q] = "none"
         /\ \A q \in Proc : turn[q] = <<>>
         /\ ~Interrupting /\ ~h.stopping /\ flow["sweep"].at # "prompt" /\ ~Quiet
         /\ "steer" \notin h.timers
<1>1. /\ flush.proc \in Proc /\ proc[flush.proc] = "starting" /\ ~Alive(h.daemon)
      /\ h.queue # <<>> /\ h.state # "inFlight" /\ ~Interrupting /\ flow["sweep"].at # "prompt"
  BY DEF Shape, FlushSound
<1>2. h.live /\ h.daemon \in Proc \cup {None}
  BY ShapeFacts
<1>3. \A q \in Proc : q # flush.proc => proc[q] = "none"
  BY <1>1 DEF Shape, Owned, Alive
<1>4. \A q \in Proc : turn[q] = <<>>
  BY <1>1, <1>3 DEF Shape, TurnSound
<1>5. ~h.stopping
  BY <1>1 DEF Shape, ChatSound, Interrupting
<1>6. ~Quiet
  BY DEF Quiet
<1>7. "steer" \notin h.timers
  BY <1>1 DEF Shape, SteerSound
<1> QED BY <1>1, <1>2, <1>3, <1>4, <1>5, <1>6, <1>7

LEMMA SpawnOkKeepsShape ==
  ASSUME Typed, Shape, ~Ready, flush.at = "spawn", UNCHANGED <<flow, turn>>,
         SpawnedLate \/ SpawnedUp, Typed'
  PROVE  Shape'
<1> USE DEF LifeKept, StopKept, WorkKept, SteerKept
<1> DEFINE p == flush.proc
<1>1. p \in Proc
  BY SpawningFacts
<1>2. /\ flow' = flow /\ turn' = turn /\ h'.daemon = p /\ flush'.proc = p
      /\ \A q \in Proc : proc'[q] = IF q = p THEN IF SpawnedUp THEN "up" ELSE "dying" ELSE "none"
      /\ h'.live /\ h'.closing = h.closing /\ ~h'.stopping /\ h'.waiter = h.waiter
      /\ "steer" \notin h'.timers
  <2>1. /\ h'.live = h.live /\ h'.closing = h.closing /\ h'.stopping = h.stopping /\ h'.waiter = h.waiter
        /\ "steer" \in h'.timers => "steer" \in h.timers
        /\ h'.daemon = p /\ flush'.proc = p
        /\ proc' = [proc EXCEPT ![p] = IF SpawnedUp THEN "up" ELSE "dying"]
    BY DEF SpawnedLate, SpawnedUp, Taken
  <2>2. \A q \in Proc : proc'[q] = IF q = p THEN IF SpawnedUp THEN "up" ELSE "dying" ELSE "none"
    BY <1>1, <2>1, SpawningFacts DEF Typed
  <2> QED BY <2>1, <2>2, SpawningFacts
<1>3. Alive(h.daemon)' /\ Alive(p)'
  BY <1>1, <1>2 DEF Alive
<1>4. \A f \in Flow : flow[f].at = "stop" => ~Over(f)
  BY DEF Ready
<1>5. \A f \in Flow : Tearing(f) => flow[f].mine /\ Torn(f) /\ flow[f].at = "flush" /\ f \notin {"sweep"}
                                    /\ (f = "keeper" => flow[f].op = "release")
  <2> SUFFICES ASSUME NEW f \in Flow, Tearing(f)
               PROVE  flow[f].mine /\ Torn(f) /\ flow[f].at = "flush" /\ f \notin {"sweep"}
                      /\ (f = "keeper" => flow[f].op = "release")
    OBVIOUS
  <2>1. flow[f].mine /\ Torn(f)
    BY SpawningFacts DEF Shape, TearSound
  <2>2. flow[f].at # "stop"
    BY <1>4, <2>1, SpawningFacts DEF Torn, Over
  <2>3. f # "chat" => ~Resets(f)
    BY <2>1, <2>2 DEF Torn
  <2> QED BY <2>1, <2>2, <2>3 DEF Tearing, Shape, Places
<1>6. Places'
  BY <1>2 DEF Shape, Places, Tearing, Resets
<1>7. Present'
  BY <1>2 DEF Present
<1>8. Owned'
  BY <1>2 DEF Owned
<1>9. /\ flow["chat"].at \notin {"interrupt", "stopping"} /\ flow["sweep"].at # "prompt"
      /\ h.queue # <<>> /\ h.state # "inFlight"
  BY SpawningFacts DEF Interrupting
<1>10. FlushSound'
  <2>1. \/ flush'.at = "obsolete" /\ h'.state = h.state /\ h'.queue = h.queue
        \/ flush'.at = "send"
    BY DEF SpawnedLate, SpawnedUp, Taken
  <2> QED BY <1>2, <1>3, <1>9, <2>1 DEF FlushSound, Interrupting
<1>11. ChatSound'
  BY <1>2, <1>9 DEF ChatSound
<1>12. SweepSound'
  BY <1>2, <1>9 DEF Shape, SweepSound
<1>13. CASE SpawnedLate
  <2>1. flush'.at = "obsolete" /\ h'.state = h.state /\ h.state # "inFlight"
    BY <1>9, <1>13 DEF SpawnedLate
  <2>2. TearSound'
    <3> SUFFICES ASSUME NEW f \in Flow, Tearing(f)
                 PROVE  IF flow[f].mine THEN Torn(f)' ELSE Quiet'
      BY <1>2 DEF TearSound, Tearing
    <3>1. flow[f].mine /\ Torn(f) /\ flow[f].at = "flush"
      BY <1>5
    <3> QED BY <1>2, <1>9, <2>1, <3>1 DEF Torn, Resets, Interrupting
  <2>3. ClosingSound'
    BY <1>2 DEF Shape, ClosingSound, Tearing, Resets
  <2>4. TurnSound'
    BY <1>2, <1>9, <2>1, SpawningFacts DEF TurnSound, Turning
  <2>5. ReleasedSound'
    BY <1>2, <2>1, SpawningFacts DEF Shape, ReleasedSound, Tearing
  <2>6. InFlightSound' /\ SteerSound'
    BY <1>2, <2>1 DEF InFlightSound, SteerSound
  <2> QED BY <1>6, <1>7, <1>8, <1>10, <1>11, <1>12, <2>2, <2>3, <2>4, <2>5, <2>6 DEF Shape
<1>14. CASE SpawnedUp
  <2>1. flush'.at = "send" /\ h'.state = "inFlight" /\ ~h.closing /\ h.state # "released"
    BY <1>14 DEF SpawnedUp, Taken
  <2>2. \A f \in Flow : ~Tearing(f)
    <3> SUFFICES ASSUME NEW f \in Flow, Tearing(f) PROVE FALSE
      OBVIOUS
    <3>1. Torn(f) /\ flow[f].at = "flush" /\ (Resets(f) \/ flow[f].op = "release")
      BY <1>5 DEF Shape, Places
    <3> QED BY <2>1, <3>1 DEF Torn
  <2>3. TearSound'
    BY <1>2, <2>2 DEF TearSound, Tearing
  <2>4. ClosingSound'
    BY <1>2, <2>1 DEF ClosingSound
  <2>5. TurnSound'
    BY <1>2, <1>9, <2>1, SpawningFacts DEF TurnSound, Turning
  <2>6. ReleasedSound' /\ InFlightSound' /\ SteerSound'
    BY <1>2, <1>3, <2>1 DEF ReleasedSound, InFlightSound, SteerSound
  <2> QED BY <1>6, <1>7, <1>8, <1>10, <1>11, <1>12, <2>3, <2>4, <2>5, <2>6 DEF Shape
<1> QED BY <1>13, <1>14

\* Once no process is left and no flush, most of the shape holds by itself.
LEMMA QuietShape ==
  ASSUME Quiet', h'.live, \A q \in Proc : turn'[q] = <<>>, flow'["sweep"].at # "prompt",
         "steer" \notin h'.timers,
         Places', ChatSound', SweepSound', TearSound', ClosingSound', InFlightSound'
  PROVE  Shape'
<1>1. Present'
  BY DEF Present
<1>2. Owned' /\ FlushSound' /\ ReleasedSound' /\ SteerSound'
  BY DEF Owned, FlushSound, ReleasedSound, SteerSound, Quiet
<1>3. TurnSound'
  BY DEF TurnSound, Turning, Quiet
<1> QED BY <1>1, <1>2, <1>3 DEF Shape

LEMMA SpawnFailsKeepsShape ==
  ASSUME Typed, Shape, flush.at = "spawn", UNCHANGED <<flow, turn>>, flush'.at = "none",
         proc' = [proc EXCEPT ![flush.proc] = "none"],
         LifeKept, StopKept, SteerKept, SpawnGivenUp, Typed'
  PROVE  Shape'
<1> USE DEF LifeKept, StopKept, SteerKept
<1>1. /\ \A q \in Proc : proc'[q] = "none"
      /\ Quiet'
  <2>1. \A q \in Proc : proc'[q] = "none"
    BY SpawningFacts DEF Typed
  <2> QED BY <2>1 DEF Quiet
<1>2. \A q \in Proc \cup {None} : ~Alive(q)'
  BY <1>1 DEF Alive
<1>3. /\ flow' = flow /\ turn' = turn /\ h'.live /\ h'.closing = h.closing /\ ~h'.stopping
      /\ h'.waiter = h.waiter /\ "steer" \notin h'.timers
  BY SpawningFacts
<1>4. h'.daemon \in Proc \cup {None} /\ h'.state # "inFlight"
      /\ (h.closing \/ h.state = "released" => h'.state = h.state)
  BY SpawningFacts DEF SpawnGivenUp
<1>5. \A f \in Flow : Over(f)'
  BY <1>2, <1>3, ShapeFacts DEF Over
<1>6. Places'
  BY <1>3 DEF Shape, Places, Tearing, Resets
<1>7. ChatSound'
  BY <1>3, SpawningFacts DEF ChatSound, Interrupting
<1>8. SweepSound'
  BY <1>3, SpawningFacts DEF Shape, SweepSound
<1>9. TearSound'
  <2> SUFFICES ASSUME NEW f \in Flow, Tearing(f)
               PROVE  IF flow[f].mine THEN Torn(f)' ELSE Quiet'
    BY <1>3 DEF TearSound, Tearing
  <2>1. flow[f].mine /\ Torn(f)
    BY SpawningFacts DEF Shape, TearSound
  <2>2. ~Interrupting'
    BY <1>3, SpawningFacts DEF Interrupting
  <2>3. /\ ~Alive(h.daemon)'
        /\ flow[f].op = "release" => h.closing \/ h'.state = "released" \/ flow[f].at = "stop"
    BY <1>2, <1>4, <2>1 DEF Torn
  <2> QED BY <1>3, <1>5, <2>1, <2>2, <2>3 DEF Torn, Resets
<1>10. ClosingSound'
  BY <1>3 DEF Shape, ClosingSound, Tearing, Resets
<1>11. InFlightSound'
  BY <1>4 DEF InFlightSound
<1>12. /\ \A q \in Proc : turn'[q] = <<>>
       /\ flow'["sweep"].at # "prompt"
  BY <1>3, SpawningFacts
<1> QED BY <1>1, <1>3, <1>6, <1>7, <1>8, <1>9, <1>10, <1>11, <1>12, QuietShape

LEMMA ObsoleteStoppedKeepsShape ==
  ASSUME Typed, Shape, flush.at = "obsolete", ~Alive(flush.proc),
         UNCHANGED <<flow, proc, turn, receipt>>, flush'.at = "none",
         LifeKept, StopKept, WorkKept, SteerKept, h'.state = h.state,
         h'.daemon = IF h.daemon = flush.proc THEN None ELSE h.daemon, Typed'
  PROVE  Shape'
<1> USE DEF LifeKept, StopKept, WorkKept, SteerKept
<1>1. ~Alive(h.daemon) /\ h.state # "inFlight" /\ ~Interrupting /\ flow["sweep"].at # "prompt" /\ h.live
  BY ShapeFacts DEF Shape, FlushSound
<1>2. \A q \in Proc \cup {None} : ~Alive(q) /\ ~Alive(q)'
  BY <1>1, ShapeFacts DEF Alive
<1>3. Quiet' /\ ~Quiet
  BY <1>2 DEF Quiet, Alive
<1>4. /\ flow' = flow /\ turn' = turn /\ h'.live /\ h'.closing = h.closing /\ h'.stopping = h.stopping
      /\ h'.waiter = h.waiter /\ h'.state = h.state
      /\ h'.daemon \in Proc \cup {None} /\ ~h.stopping
      /\ "steer" \notin h'.timers
  BY <1>1, ShapeFacts DEF Shape, SteerSound, ChatSound, Interrupting
<1>5. \A f \in Flow : Over(f)'
  BY <1>2, <1>4, ShapeFacts DEF Over
<1>6. Places'
  BY <1>4 DEF Shape, Places, Tearing, Resets
<1>7. ChatSound'
  BY <1>1, <1>4 DEF ChatSound, Interrupting
<1>8. SweepSound'
  BY <1>1, <1>4 DEF Shape, SweepSound
<1>9. TearSound'
  <2> SUFFICES ASSUME NEW f \in Flow, Tearing(f)
               PROVE  IF flow[f].mine THEN Torn(f)' ELSE Quiet'
    BY <1>4 DEF TearSound, Tearing
  <2>1. flow[f].mine /\ Torn(f)
    BY <1>3 DEF Shape, TearSound
  <2>2. ~Interrupting' /\ ~Alive(h.daemon)'
    BY <1>1, <1>2, <1>4 DEF Interrupting
  <2> QED BY <1>4, <1>5, <2>1, <2>2 DEF Torn, Resets
<1>10. ClosingSound'
  BY <1>4 DEF Shape, ClosingSound, Tearing, Resets
<1>11. InFlightSound'
  BY <1>1, <1>4 DEF InFlightSound
<1>12. /\ \A q \in Proc : turn'[q] = <<>>
       /\ flow'["sweep"].at # "prompt"
  BY <1>1, <1>4, ShapeFacts DEF Turning
<1> QED BY <1>3, <1>4, <1>6, <1>7, <1>8, <1>9, <1>10, <1>11, <1>12, QuietShape

LEMMA StopBegunKeepsShape ==
  ASSUME Typed, Shape, ~Ready, StopBegun, Typed'
  PROVE  Shape'
<1> USE DEF LifeKept, StopKept, WorkKept, SteerKept
<1>1. /\ flow["chat"].at = "idle" /\ h.live /\ h.state = "inFlight" /\ h'.state = h.state
      /\ flush' = flush /\ proc' = proc /\ turn' = turn
      /\ h'.live /\ h'.closing = h.closing /\ h'.stopping = h.stopping /\ h'.waiter = h.waiter
      /\ h'.queue = h.queue /\ h'.daemon = h.daemon
      /\ "steer" \in h'.timers => "steer" \in h.timers
      /\ flow'["chat"].at = "interrupt" /\ flow'["chat"].proc = h.daemon
      /\ flow'["keeper"] = flow["keeper"] /\ flow'["sweep"] = flow["sweep"]
  BY DEF StopBegun, FlowOthers
<1>2. Alive(h.daemon)
  <2>1. CASE h.closing
    <3>1. PICK f \in Flow : Tearing(f) /\ flow[f].mine /\ Resets(f)
      BY <2>1 DEF Shape, ClosingSound
    <3>2. f # "chat" /\ Torn(f)
      BY <1>1, <3>1 DEF Tearing, Shape, TearSound
    <3>3. flow[f].at = "stop" /\ ~Over(f)
      BY <3>1, <3>2 DEF Torn, Ready
    <3> QED BY <3>2, <3>3 DEF Torn, Over
  <2> QED BY <1>1, <2>1 DEF Shape, InFlightSound
<1>3. /\ \A q \in Proc \cup {None} : Alive(q)' <=> Alive(q)
      /\ Alive(h.daemon)' <=> Alive(h.daemon)
      /\ h.daemon \in Proc \cup {None}
  BY <1>1, ShapeFacts DEF Alive
<1>4. \A f \in Flow : flow'[f] = flow[f] => (Over(f)' <=> Over(f))
  BY <1>3, ShapeFacts DEF Over
<1>5. \A f \in Flow : /\ Tearing(f)' <=> Tearing(f)
                      /\ Tearing(f) => f # "chat" /\ flow'[f] = flow[f]
  BY <1>1 DEF Tearing
<1>6. ~Quiet
  BY <1>2, ShapeFacts DEF Quiet
<1>7. Places'
  BY <1>1, <1>5 DEF Shape, Places, Resets
<1>8. Present'
  BY <1>1 DEF Present
<1>9. Owned'
  BY <1>1 DEF Shape, Owned
<1>10. FlushSound'
  BY <1>1, <1>3 DEF Shape, FlushSound
<1>11. ChatSound'
  BY <1>1, <1>2, <1>3 DEF Shape, ChatSound
<1>12. SweepSound'
  BY <1>1, <1>3 DEF Shape, SweepSound
<1>13. TearSound'
  <2> SUFFICES ASSUME NEW f \in Flow, Tearing(f), flow'[f] = flow[f]
               PROVE  IF flow[f].mine THEN Torn(f)' ELSE Quiet'
    BY <1>5 DEF TearSound
  <2>1. flow[f].mine /\ Torn(f)
    BY <1>6 DEF Shape, TearSound
  <2>2. flow[f].at = "stop"
    BY <1>1, <1>2, <2>1 DEF Torn, Tearing, Shape, FlushSound
  <2> QED BY <1>1, <1>3, <1>4, <2>1, <2>2 DEF Torn, Resets
<1>14. ClosingSound'
  BY <1>1, <1>5 DEF Shape, ClosingSound, Resets
<1>15. TurnSound'
  BY <1>1 DEF Shape, TurnSound, Turning
<1>16. ReleasedSound' /\ InFlightSound' /\ SteerSound'
  BY <1>1, <1>2, <1>3 DEF ReleasedSound, InFlightSound, Shape, SteerSound
<1> QED BY <1>7, <1>8, <1>9, <1>10, <1>11, <1>12, <1>13, <1>14, <1>15, <1>16 DEF Shape

LEMMA StopForcedKeepsShape ==
  ASSUME Typed, Shape, StopForced, Typed'
  PROVE  Shape'
<1> USE DEF LifeKept, SteerKept
<1>1. /\ flow["chat"].at = "interrupt" /\ h'.state = h.state
      /\ flush' = flush /\ proc' = proc /\ turn' = turn
      /\ h'.live = h.live /\ h'.closing = h.closing /\ h'.stopping /\ h'.waiter = h.waiter
      /\ h'.queue = h.queue /\ h'.daemon = h.daemon
      /\ "steer" \in h'.timers => "steer" \in h.timers
      /\ flow'["chat"].at = "stopping" /\ flow'["chat"].proc = h.daemon /\ flow'["chat"].mine
      /\ flow'["keeper"] = flow["keeper"] /\ flow'["sweep"] = flow["sweep"]
  BY DEF StopForced, FlowOthers
<1>2. Alive(h.daemon) /\ h.live
  BY <1>1, ShapeFacts DEF Shape, ChatSound
<1>3. /\ \A q \in Proc \cup {None} : Alive(q)' <=> Alive(q)
      /\ Alive(h.daemon)' <=> Alive(h.daemon)
      /\ h.daemon \in Proc \cup {None}
  BY <1>1, ShapeFacts DEF Alive
<1>4. \A f \in Flow : flow'[f] = flow[f] => (Over(f)' <=> Over(f))
  BY <1>3, ShapeFacts DEF Over
<1>5. \A f \in Flow : /\ Tearing(f)' <=> Tearing(f)
                      /\ Tearing(f) => f # "chat" /\ flow'[f] = flow[f]
  BY <1>1 DEF Tearing
<1>6. ~Quiet /\ Interrupting
  BY <1>1, <1>2, ShapeFacts DEF Quiet, Interrupting
<1>7. Places'
  BY <1>1, <1>5 DEF Shape, Places, Resets
<1>8. Present'
  BY <1>1, <1>2 DEF Present
<1>9. Owned'
  BY <1>1 DEF Shape, Owned
<1>10. FlushSound'
  BY <1>1, <1>3, <1>6 DEF Shape, FlushSound
<1>11. ChatSound'
  BY <1>1, <1>2 DEF ChatSound
<1>12. SweepSound'
  BY <1>1, <1>3 DEF Shape, SweepSound
<1>13. TearSound'
  <2> SUFFICES ASSUME NEW f \in Flow, Tearing(f), flow'[f] = flow[f]
               PROVE  IF flow[f].mine THEN Torn(f)' ELSE Quiet'
    BY <1>5 DEF TearSound
  <2>1. flow[f].mine /\ Torn(f)
    BY <1>6 DEF Shape, TearSound
  <2>2. flow[f].at # "flush"
    BY <1>6, <2>1 DEF Torn
  <2> QED BY <1>1, <1>3, <1>4, <2>1, <2>2 DEF Torn, Resets
<1>14. ClosingSound'
  BY <1>1, <1>5 DEF Shape, ClosingSound, Resets
<1>15. TurnSound'
  BY <1>1 DEF Shape, TurnSound, Turning
<1>16. ReleasedSound' /\ InFlightSound' /\ SteerSound'
  BY <1>1, <1>2, <1>3, <1>5, <1>6 DEF ReleasedSound, InFlightSound, Shape, SteerSound
<1> QED BY <1>7, <1>8, <1>9, <1>10, <1>11, <1>12, <1>13, <1>14, <1>15, <1>16 DEF Shape

LEMMA StopOverKeepsShape ==
  ASSUME Typed, Shape, StopOver, Typed'
  PROVE  Shape'
<1> USE DEF LifeKept, WorkKept, SteerKept
<1>1. /\ flow["chat"].at = "stopping" /\ Over("chat")
      /\ flush' = flush /\ proc' = proc /\ turn' = turn
      /\ h'.live = h.live /\ h'.closing = h.closing /\ h'.waiter = h.waiter
      /\ h'.queue = h.queue /\ h'.inFlight = h.inFlight
      /\ "steer" \in h'.timers => "steer" \in h.timers
      /\ flow'["chat"].at = "idle"
      /\ flow'["keeper"] = flow["keeper"] /\ flow'["sweep"] = flow["sweep"]
  BY DEF StopOver, FlowOthers
<1>2. IF flow["chat"].mine
      THEN ~h'.stopping /\ h'.state \in {"idle", "pending"} /\ h'.daemon = None
      ELSE h' = h
  BY Zenon DEF StopOver
<1>3. Interrupting /\ ~Interrupting'
  BY <1>1 DEF Interrupting
<1>4. ~Alive(h.daemon)
  BY <1>1 DEF Shape, ChatSound, Over, Quiet, Alive, Typed, Handle
<1>5. flush.at = "none" /\ \A q \in Proc \cup {None} : ~Alive(q)
  BY <1>3, <1>4, ShapeFacts DEF Shape, FlushSound, Typed, FlushStates
<1>6. Quiet /\ Quiet' /\ \A q \in Proc \cup {None} : ~Alive(q)'
  BY <1>1, <1>5 DEF Quiet, Alive
<1>7. \A f \in Flow : /\ Tearing(f)' <=> Tearing(f)
                      /\ Tearing(f) => f # "chat" /\ flow'[f] = flow[f]
  BY <1>1 DEF Tearing
<1>8. \A f \in Flow : flow'[f] = flow[f] => Over(f)'
  BY <1>6, ShapeFacts DEF Over
<1>9. h'.daemon \in Proc \cup {None} /\ ~Alive(h.daemon)'
  BY <1>2, <1>6, ShapeFacts
<1>10. ~h'.stopping
  BY <1>2 DEF Shape, ChatSound
<1>11. Places'
  BY <1>1, <1>7 DEF Shape, Places, Resets
<1>12. Present'
  BY <1>1, <1>2, <1>10, <1>5 DEF Shape, Present, ChatSound
<1>13. Owned' /\ FlushSound'
  BY <1>6 DEF Owned, FlushSound, Quiet
<1>14. ChatSound'
  BY <1>1, <1>10 DEF ChatSound
<1>15. SweepSound'
  BY <1>1, <1>4 DEF Shape, SweepSound
<1>16. TearSound'
  <2> SUFFICES ASSUME NEW f \in Flow, Tearing(f), flow'[f] = flow[f], flow[f].mine
               PROVE  Torn(f)'
    BY <1>6, <1>7 DEF TearSound
  <2>1. Torn(f)
    BY DEF Shape, TearSound
  <2>2. flow[f].op = "release" => h.closing \/ h'.state = "released" \/ flow[f].at = "stop"
    <3>1. CASE flow["chat"].mine
      BY <1>3, <2>1, <3>1 DEF Torn, Tearing
    <3>2. CASE ~flow["chat"].mine
      BY <1>2, <2>1, <3>2 DEF Torn
    <3> QED BY <3>1, <3>2
  <2> QED BY <1>1, <1>3, <1>5, <1>8, <1>9, <2>1, <2>2 DEF Torn, Resets
<1>17. ClosingSound'
  BY <1>1, <1>7 DEF Shape, ClosingSound, Resets
<1>18. TurnSound'
  <2>1. ~Turning
    BY <1>4, ShapeFacts
  <2>2. flow["sweep"].at # "prompt"
    BY <1>4 DEF Shape, SweepSound
  <2> QED BY <1>1, <1>5, <2>1, <2>2 DEF TurnSound, Turning
<1>19. ReleasedSound' /\ SteerSound'
  BY <1>1, <1>4, <1>6 DEF ReleasedSound, Shape, SteerSound
<1>20. InFlightSound'
  <2>1. h'.state # "inFlight"
    <3>1. CASE flow["chat"].mine
      BY <1>2, <3>1
    <3>2. CASE ~flow["chat"].mine
      BY <1>1, <1>2, <3>2 DEF Shape, ChatSound
    <3> QED BY <3>1, <3>2
  <2> QED BY <2>1 DEF InFlightSound
<1> QED BY <1>11, <1>12, <1>13, <1>14, <1>15, <1>16, <1>17, <1>18, <1>19, <1>20 DEF Shape

\* A reset or a release takes its first step.
LEMMA BegunKeepsShape ==
  ASSUME Typed, Shape, NEW f \in Flow, Begun(f), Typed',
         ~Tearing(f), flow[f].at \notin {"interrupt", "stopping", "prompt", "waiting"},
         \/ flow'[f].op = Resetting[f] /\ h'.closing /\ h'.state = h.state
         \/ f = "keeper" /\ flow'[f].op = "release" /\ h'.closing = h.closing /\ h'.state = "released",
         f # "chat" /\ flow'[f].op = Resetting[f] => flush.at = "none" /\ h.state # "released"
  PROVE  Shape'
<1> USE DEF StopKept
<1>1. /\ flush' = flush /\ turn' = turn /\ SignalledProc(proc')
      /\ h.live /\ h'.live /\ h'.queue = h.queue /\ h'.timers = {} /\ h'.daemon = h.daemon
      /\ h'.stopping = h.stopping /\ h'.waiter = h.waiter
      /\ \A g \in Flow : g # f => flow'[g] = flow[g]
      /\ flow'[f].at = "stop" /\ flow'[f].proc = h.daemon /\ flow'[f].mine
      /\ flow'[f].flushed = (flush.at # "none")
  BY DEF Begun, FlowOthers
<1>2. h.closing => h'.closing
  OBVIOUS
<1>3. /\ h'.state = h.state \/ (h'.state = "released" /\ f = "keeper" /\ flow'[f].op = "release")
      /\ h'.closing # h.closing => Resets(f)'
      /\ Resets(f)' => h'.closing /\ h'.state = h.state
  <2>1. Resetting[f] \in {"reset", "evict", "clear"}
    BY DEF Resetting
  <2> QED BY <2>1 DEF Resets, Typed, Handle
<1>4. /\ \A q \in Proc \cup {None} : Alive(q)' <=> Alive(q)
      /\ Alive(h.daemon)' <=> Alive(h.daemon)
      /\ h.daemon \in Proc \cup {None}
  BY <1>1, ShapeFacts DEF Alive, SignalledProc
<1>5. \A g \in Flow : flow'[g] = flow[g] => (Over(g)' <=> Over(g))
  BY <1>4, ShapeFacts DEF Over
<1>6. Quiet' <=> Quiet
  BY <1>1 DEF Quiet, SignalledProc
<1>7. Interrupting' <=> Interrupting
  BY <1>1 DEF Interrupting
<1>8. Places'
  <2>1. flow'[f].op \in {"reset", "evict", "clear"} \/ (f = "keeper" /\ flow'[f].op = "release")
    BY DEF Resetting
  <2> QED BY <1>1, <2>1 DEF Shape, Places, Tearing, Resets
<1>9. Present'
  BY <1>1 DEF Present
<1>10. Owned'
  BY <1>1 DEF Shape, Owned, SignalledProc
<1>11. FlushSound'
  <2>1. flow'["sweep"].at = "prompt" => flow["sweep"].at = "prompt"
    BY <1>1
  <2> QED BY <1>1, <1>3, <1>4, <1>7, <2>1 DEF Shape, FlushSound, SignalledProc
<1>12. ChatSound'
  <2>1. CASE f = "chat"
    <3>1. ~h.stopping
      BY <2>1 DEF Shape, ChatSound
    <3> QED BY <1>1, <2>1, <3>1 DEF ChatSound
  <2>2. CASE f # "chat"
    <3>1. flow'["chat"] = flow["chat"]
      BY <1>1, <2>2
    <3> QED BY <1>1, <1>3, <1>4, <1>5, <1>6, <3>1 DEF Shape, ChatSound
  <2> QED BY <2>1, <2>2
<1>13. SweepSound'
  <2>1. CASE f = "sweep"
    BY <1>1, <2>1 DEF Shape, SweepSound
  <2>2. CASE f # "sweep"
    BY <1>1, <1>4, <2>2 DEF Shape, SweepSound
  <2> QED BY <2>1, <2>2
<1>14. TearSound'
  <2> SUFFICES ASSUME NEW g \in Flow, Tearing(g)'
               PROVE  IF flow'[g].mine THEN Torn(g)' ELSE Quiet'
    BY DEF TearSound
  <2>1. CASE g = f
    <3>1. flow'[f].op = "release" => h'.state = "released"
      BY <1>3 DEF Resets, Resetting
    <3>2. f # "chat" /\ Resets(f)' => ~flow'[f].flushed
      <4>1. flow'[f].op = "release" => ~Resets(f)'
        BY DEF Resets
      <4> QED BY <1>1, <4>1
    <3>3. flush.at \in {"spawn", "obsolete"} => flow'[f].flushed
      BY <1>1
    <3> QED BY <1>1, <1>3, <2>1, <3>1, <3>2, <3>3 DEF Torn
  <2>2. CASE g # f
    <3>1. flow'[g] = flow[g] /\ Tearing(g)
      BY <1>1, <2>2 DEF Tearing
    <3>2. flow[g].mine => Torn(g)
      BY <3>1 DEF Shape, TearSound
    <3>3. flow[g].op = "release" => g = "keeper"
      BY <3>1 DEF Shape, Places, Resets
    <3>4. flow[g].op = "release" => h'.state = h.state
      BY <1>3, <2>2, <3>3
    <3>5. Torn(g) => Torn(g)'
      BY <1>1, <1>2, <1>4, <1>5, <1>7, <3>1, <3>4 DEF Torn, Resets
    <3> QED BY <1>6, <3>1, <3>2, <3>5 DEF Shape, TearSound
  <2> QED BY <2>1, <2>2
<1>15. ClosingSound'
  <2>1. CASE Resets(f)'
    BY <1>1, <2>1 DEF ClosingSound, Tearing
  <2>2. CASE ~Resets(f)' /\ h'.closing
    <3>1. h.closing
      BY <1>3, <2>2
    <3>2. PICK g \in Flow : Tearing(g) /\ flow[g].mine /\ Resets(g)
      BY <3>1 DEF Shape, ClosingSound
    <3>3. flow'[g] = flow[g]
      BY <1>1, <3>2
    <3> QED BY <3>2, <3>3 DEF ClosingSound, Tearing, Resets
  <2> QED BY <2>1, <2>2 DEF ClosingSound
<1>16. TurnSound'
  <2>1. \A q \in Proc : turn[q] # <<>> => proc'[q] \in {"up", "dying"} /\ Len(turn[q]) = 1
    BY <1>1 DEF Shape, TurnSound, SignalledProc
  <2>2. flow'["sweep"].at = "prompt" => flow["sweep"].at = "prompt"
    BY <1>1
  <2> QED BY <1>1, <1>3, <2>1, <2>2 DEF Shape, TurnSound, Turning
<1>17. ReleasedSound'
  <2>1. CASE flow'[f].op = "release"
    <3>1. f = "keeper"
      BY <2>1 DEF Resetting
    <3> QED BY <1>1, <2>1, <3>1 DEF ReleasedSound, Tearing
  <2>2. CASE flow'[f].op = Resetting[f] /\ h'.state = h.state
    <3>1. CASE f = "chat"
      BY <1>1, <1>6, <2>2, <3>1 DEF Shape, ReleasedSound, Tearing
    <3>2. CASE f # "chat"
      BY <2>2, <3>2 DEF ReleasedSound
    <3> QED BY <3>1, <3>2
  <2> QED BY <2>1, <2>2
<1>18. InFlightSound'
  BY DEF InFlightSound
<1>19. SteerSound'
  BY <1>1 DEF SteerSound
<1> QED BY <1>8, <1>9, <1>10, <1>11, <1>12, <1>13, <1>14, <1>15, <1>16, <1>17, <1>18, <1>19 DEF Shape

LEMMA ResetBegunKeepsShape ==
  ASSUME Typed, Shape, NEW f \in Flow, ResetBegun(f), Typed', flow[f].at \in {"idle", "ended"},
         f # "chat" => IsIdleEmpty
  PROVE  Shape'
<1>1. f # "chat" => flush.at = "none" /\ h.state # "released"
  BY DEF IsIdleEmpty, Shape, FlushSound, TurnSound, Typed, FlushStates
<1>2. /\ Begun(f) /\ flow'[f].op = Resetting[f] /\ h'.closing /\ h'.state = h.state
      /\ ~Tearing(f) /\ flow[f].at \notin {"interrupt", "stopping", "prompt", "waiting"}
  BY DEF ResetBegun, Tearing
<1> QED BY <1>1, <1>2, BegunKeepsShape

LEMMA ReleaseBegunKeepsShape ==
  ASSUME Typed, Shape, ReleaseBegun, Typed'
  PROVE  Shape'
<1>1. /\ Begun("keeper") /\ flow'["keeper"].op = "release" /\ h'.closing = h.closing /\ h'.state = "released"
      /\ ~Tearing("keeper") /\ flow["keeper"].at \notin {"interrupt", "stopping", "prompt", "waiting"}
      /\ Resetting["keeper"] # "release"
  BY DEF ReleaseBegun, Tearing, Resetting
<1> QED BY <1>1, BegunKeepsShape

LEMMA FlushAwaitedKeepsShape ==
  ASSUME Typed, Shape, NEW f \in Flow, FlushAwaited(f), Typed'
  PROVE  Shape'
<1> USE DEF LifeKept, StopKept, WorkKept, SteerKept
<1>1. /\ flow[f].at = "stop" /\ Over(f) /\ flow[f].flushed /\ flush.at # "none"
      /\ flush' = flush /\ proc' = proc /\ turn' = turn
      /\ h'.live = h.live /\ h'.closing = h.closing /\ h'.stopping = h.stopping /\ h'.waiter = h.waiter
      /\ h'.queue = h.queue /\ h'.inFlight = h.inFlight /\ h'.state = h.state
      /\ "steer" \in h'.timers => "steer" \in h.timers
      /\ h'.daemon \in {None, h.daemon}
      /\ \A g \in Flow : g # f => flow'[g] = flow[g]
      /\ flow'[f].at = "flush" /\ flow'[f].op = flow[f].op /\ flow'[f].mine = flow[f].mine
  BY DEF FlushAwaited, FlowOthers
<1>2. ~Quiet
  BY <1>1 DEF Quiet
<1>3. flow[f].mine /\ Torn(f)
  BY <1>1, <1>2 DEF Shape, TearSound, Tearing
<1>4. ~Alive(h.daemon) /\ h.live
  BY <1>1, <1>3 DEF Torn, Over
<1>5. flush.at \in {"spawn", "obsolete"}
  BY <1>1, <1>4 DEF Shape, FlushSound, Typed, FlushStates
<1>6. ~Interrupting /\ h.state # "inFlight" /\ h.queue # <<>> /\ flow["sweep"].at # "prompt" /\ ~h.stopping
  BY <1>5 DEF Shape, FlushSound, ChatSound, Interrupting
<1>7. f = "chat" \/ flow[f].op = "release"
  BY <1>1, <1>3 DEF Torn, Shape, Places, Tearing
<1>8. /\ \A q \in Proc \cup {None} : Alive(q)' <=> Alive(q)
      /\ ~Alive(h.daemon)'
      /\ h'.daemon \in Proc \cup {None}
  BY <1>1, <1>4, ShapeFacts DEF Alive
<1>9. \A g \in Flow : g # f => (Over(g)' <=> Over(g))
  BY <1>1, <1>8, ShapeFacts DEF Over
<1>10. Places'
  BY <1>1, <1>7 DEF Shape, Places, Tearing, Resets
<1>11. Present'
  BY <1>1, <1>4 DEF Present
<1>12. Owned'
  BY <1>1, <1>4 DEF Shape, Owned, Alive
<1>13. FlushSound'
  <2>1. ~Interrupting' /\ flow'["sweep"].at # "prompt"
    BY <1>1, <1>6 DEF Interrupting
  <2> QED BY <1>1, <1>5, <1>6, <1>8, <2>1 DEF Shape, FlushSound
<1>14. ChatSound'
  <2>1. flow'["chat"].at \notin {"interrupt", "stopping"}
    BY <1>1, <1>6 DEF Interrupting
  <2> QED BY <1>1, <1>6, <2>1 DEF ChatSound
<1>15. SweepSound'
  BY <1>1, <1>6 DEF Shape, SweepSound
<1>16. TearSound'
  <2> SUFFICES ASSUME NEW g \in Flow, Tearing(g)'
               PROVE  IF flow'[g].mine THEN Torn(g)' ELSE Quiet'
    BY DEF TearSound
  <2>1. CASE g = f
    <3>1. flow[f].op = "release" => h.closing \/ h.state = "released"
      BY <1>3, <1>5 DEF Torn
    <3>2. ~Interrupting'
      BY <1>1, <1>6 DEF Interrupting
    <3>3. f # "chat" => ~Resets(f)
      BY <1>1, <1>3 DEF Torn
    <3>4. Resets(f) => h.closing
      BY <1>3 DEF Torn
    <3> QED BY <1>1, <1>3, <1>4, <1>8, <2>1, <3>1, <3>2, <3>3, <3>4 DEF Torn, Resets
  <2>2. CASE g # f
    <3>1. flow'[g] = flow[g] /\ Tearing(g)
      BY <1>1, <2>2 DEF Tearing
    <3>2. flow[g].mine /\ Torn(g)
      BY <1>2, <3>1 DEF Shape, TearSound
    <3>3. ~Interrupting'
      BY <1>1, <1>6 DEF Interrupting
    <3>4. flow[g].at = "stop" => Over(g)'
      BY <1>4, <1>9, <2>2, <3>2 DEF Torn, Over
    <3> QED BY <1>1, <1>8, <3>1, <3>2, <3>3, <3>4 DEF Torn, Resets
  <2> QED BY <2>1, <2>2
<1>17. ClosingSound'
  BY <1>1 DEF Shape, ClosingSound, Tearing, Resets
<1>18. TurnSound'
  <2>1. ~Turning /\ flush.at # "send"
    BY <1>4, <1>5, ShapeFacts
  <2>2. flow'["sweep"].at # "prompt"
    BY <1>1, <1>6
  <2> QED BY <1>1, <2>1, <2>2 DEF TurnSound, Turning
<1>19. ReleasedSound'
  BY <1>1, <1>2 DEF Shape, ReleasedSound, Tearing
<1>20. InFlightSound' /\ SteerSound'
  BY <1>1, <1>4, <1>6 DEF InFlightSound, Shape, SteerSound
<1> QED BY <1>10, <1>11, <1>12, <1>13, <1>14, <1>15, <1>16, <1>17, <1>18, <1>19, <1>20 DEF Shape

\* The processes are gone and so is the flush when a reset or a release ends:
\* what the second stop of both operations relies on.
LEMMA TornDownQuiet ==
  ASSUME Typed, Shape, NEW f \in Flow, TornDown(f)
  PROVE  Quiet /\ Tearing(f) /\ \A q \in Proc \cup {None} : ~Alive(q)
<1>1. Tearing(f)
  BY DEF TornDown, Tearing
<1>2. CASE ~flow[f].mine
  <2>1. Quiet
    BY <1>1, <1>2 DEF Shape, TearSound
  <2> QED BY <1>1, <2>1 DEF Quiet, Alive
<1>3. CASE flow[f].mine
  <2>1. Torn(f)
    BY <1>1, <1>3 DEF Shape, TearSound
  <2>2. ~Alive(h.daemon)
    <3>1. CASE flow[f].at = "stop"
      BY <2>1, <3>1 DEF Torn, TornDown, Over
    <3>2. CASE flow[f].at = "flush"
      BY <2>1, <3>2 DEF Torn, TornDown
    <3> QED BY <1>1, <3>1, <3>2 DEF Tearing
  <2>3. flush.at \in {"spawn", "obsolete"} => flush.at = "none"
    BY <2>1 DEF Torn, TornDown
  <2>4. flush.at = "none"
    BY <2>2, <2>3 DEF Shape, FlushSound, Typed, FlushStates
  <2>5. \A q \in Proc \cup {None} : ~Alive(q)
    BY <2>2, <2>4, ShapeFacts
  <2> QED BY <1>1, <2>4, <2>5 DEF Quiet, Alive
<1> QED BY <1>2, <1>3

LEMMA AcknowledgedKeepsShape ==
  ASSUME Typed, Shape, Acknowledged, Typed'
  PROVE  Shape' /\ Quiet
<1> USE DEF LifeKept, StopKept, WorkKept, SteerKept
<1>1. /\ flow["keeper"].op = "release" /\ TornDown("keeper")
      /\ flush' = flush /\ proc' = proc /\ turn' = turn
      /\ h'.live = h.live /\ h'.closing = h.closing /\ h'.stopping = h.stopping /\ h'.waiter = h.waiter
      /\ h'.queue = h.queue /\ h'.inFlight = h.inFlight
      /\ "steer" \in h'.timers => "steer" \in h.timers
      /\ flow'["keeper"].at = "idle"
      /\ flow'["chat"] = flow["chat"] /\ flow'["sweep"] = flow["sweep"]
  BY DEF Acknowledged, FlowOthers
<1>2. \/ flow["keeper"].mine /\ h'.daemon = None /\ h'.state = "released"
      \/ ~flow["keeper"].mine /\ h' = h
  BY Zenon DEF Acknowledged
<1>3. Quiet /\ Tearing("keeper") /\ \A q \in Proc \cup {None} : ~Alive(q)
  BY <1>1, TornDownQuiet
<1>4. Quiet' /\ \A q \in Proc \cup {None} : ~Alive(q)'
  BY <1>1, <1>3 DEF Quiet, Alive
<1>5. h'.daemon \in Proc \cup {None} /\ ~Alive(h.daemon) /\ ~Alive(h.daemon)'
  BY <1>2, <1>3, <1>4, ShapeFacts
<1>6. \A f \in Flow : flow'[f] = flow[f] => Over(f)'
  BY <1>4, ShapeFacts DEF Over
<1>7. flow["chat"].at # "interrupt" /\ flow["sweep"].at # "prompt" /\ ~Turning /\ "steer" \notin h.timers
  BY <1>5, ShapeFacts DEF Shape, ChatSound, SweepSound, SteerSound
<1>8. flow["keeper"].mine => h.live
  BY <1>3 DEF Shape, TearSound, Torn
<1>9. Places'
  BY <1>1 DEF Shape, Places, Tearing, Resets
<1>10. Present'
  BY <1>1, <1>2, <1>8 DEF Shape, Present
<1>11. Owned' /\ FlushSound'
  BY <1>4 DEF Owned, FlushSound, Quiet
<1>12. ChatSound'
  <2>1. flow["chat"].at = "stopping" /\ ~flow["chat"].mine => h'.state # "inFlight"
    BY <1>2 DEF Shape, ChatSound
  <2> QED BY <1>1, <1>4, <1>5, <1>6, <1>7, <2>1 DEF Shape, ChatSound
<1>13. SweepSound'
  BY <1>1, <1>7 DEF Shape, SweepSound
<1>14. TearSound'
  <2> SUFFICES ASSUME NEW g \in Flow, g # "keeper", Tearing(g), flow'[g] = flow[g], flow[g].mine
               PROVE  Torn(g)'
    BY <1>1, <1>4 DEF TearSound, Tearing
  <2>1. Torn(g)
    BY DEF Shape, TearSound
  <2>2. flow[g].op # "release" /\ (Interrupting' <=> Interrupting) /\ flush'.at = "none"
    BY <1>1, <1>4 DEF Shape, Places, Resets, Interrupting, Quiet
  <2> QED BY <1>1, <1>5, <1>6, <2>1, <2>2 DEF Torn, Resets
<1>15. ClosingSound'
  BY <1>1 DEF Shape, ClosingSound, Tearing, Resets
<1>16. TurnSound'
  <2>1. flush'.at = "none"
    BY <1>4 DEF Quiet
  <2> QED BY <1>1, <1>7, <2>1 DEF TurnSound, Turning
<1>17. ReleasedSound' /\ SteerSound'
  BY <1>1, <1>4, <1>7 DEF ReleasedSound, SteerSound
<1>18. InFlightSound'
  BY <1>1, <1>2, <1>5, <1>6 DEF Shape, InFlightSound
<1> QED BY <1>3, <1>9, <1>10, <1>11, <1>12, <1>13, <1>14, <1>15, <1>16, <1>17, <1>18 DEF Shape

LEMMA GoneKeepsShape ==
  ASSUME Typed, Shape, NEW f \in Flow, Gone(f), Typed'
  PROVE  Shape'
<1>1. /\ TornDown(f) /\ flow[f].op = Resetting[f]
      /\ flush' = flush /\ proc' = proc /\ turn' = turn /\ flow'[f].at = "idle"
  BY DEF Gone
<1>2. Quiet /\ Tearing(f) /\ \A q \in Proc \cup {None} : ~Alive(q)
  BY <1>1, TornDownQuiet
<1>3. Quiet' /\ \A q \in Proc \cup {None} : ~Alive(q)'
  BY <1>1, <1>2 DEF Quiet, Alive
<1>4. ~Alive(h.daemon)
  BY <1>2, ShapeFacts
<1>5. flow["chat"].at # "interrupt" /\ flow["sweep"].at # "prompt" /\ ~Turning /\ "steer" \notin h.timers
  BY <1>4, ShapeFacts DEF Shape, ChatSound, SweepSound, SteerSound
<1>6. flush'.at = "none"
  BY <1>3 DEF Quiet
<1>7. \A g \in Flow : g # f => flow'[g].at = flow[g].at /\ flow'[g].op = flow[g].op /\ flow'[g].proc = flow[g].proc
  BY DEF Gone
<1>8. Places'
  BY <1>1, <1>7 DEF Shape, Places, Tearing, Resets
<1>9. Owned' /\ FlushSound' /\ ReleasedSound'
  BY <1>3 DEF Owned, FlushSound, Quiet, ReleasedSound
<1>10. TurnSound'
  BY <1>1, <1>5, <1>6, <1>7 DEF TurnSound, Turning
<1>11. CASE flow[f].mine
  <2>1. h' = NoHandle /\ \A g \in Flow : g # f => ~flow'[g].mine
    BY <1>11 DEF Gone
  <2>2. /\ ~h'.live /\ ~h'.closing /\ h'.state = "idle" /\ h'.daemon = None /\ h'.queue = <<>>
        /\ h'.inFlight = {} /\ h'.timers = {} /\ h'.respawns = 0 /\ h'.retries = 0
        /\ ~h'.stopping /\ ~h'.waiter
    BY <2>1 DEF NoHandle
  <2>3. Present'
    BY <1>6, <2>2 DEF Present, Bare
  <2>4. ChatSound'
    BY <1>1, <1>3, <1>5, <1>7, <2>1, <2>2 DEF ChatSound
  <2>5. SweepSound'
    BY <1>1, <1>5, <1>7, <2>2 DEF SweepSound
  <2>6. TearSound'
    BY <1>1, <1>3, <2>1 DEF TearSound, Tearing
  <2>7. ClosingSound' /\ InFlightSound' /\ SteerSound'
    BY <2>2 DEF ClosingSound, InFlightSound, SteerSound
  <2> QED BY <1>8, <1>9, <1>10, <2>3, <2>4, <2>5, <2>6, <2>7 DEF Shape
<1>12. CASE ~flow[f].mine
  <2>1. h' = h /\ \A g \in Flow : g # f => flow'[g] = flow[g]
    BY <1>12 DEF Gone
  <2>2. \A g \in Flow : flow'[g] = flow[g] => Over(g)'
    BY <1>3, ShapeFacts DEF Over
  <2>3. Present'
    BY <1>6, <2>1 DEF Shape, Present, Bare
  <2>4. ~Alive(h.daemon)'
    BY <1>3, <2>1, ShapeFacts
  <2>5. ChatSound'
    <3>1. f = "chat" => ~h.stopping
      BY <1>2 DEF Shape, ChatSound, Tearing
    <3>2. f # "chat" => flow'["chat"] = flow["chat"]
      BY <2>1
    <3> QED BY <1>1, <1>3, <1>5, <2>1, <2>2, <2>4, <3>1, <3>2 DEF Shape, ChatSound
  <2>6. SweepSound'
    <3>1. f = "sweep" => ~h.waiter
      BY <1>2 DEF Shape, SweepSound, Tearing
    <3>2. f # "sweep" => flow'["sweep"] = flow["sweep"]
      BY <2>1
    <3> QED BY <1>1, <1>5, <2>1, <3>1, <3>2 DEF Shape, SweepSound
  <2>7. TearSound'
    <3> SUFFICES ASSUME NEW g \in Flow, g # f, Tearing(g), flow'[g] = flow[g], flow[g].mine
                 PROVE  Torn(g)'
      BY <1>1, <1>3, <2>1 DEF TearSound, Tearing
    <3>1. Torn(g)
      BY DEF Shape, TearSound
    <3>2. Interrupting' => Interrupting
      BY <1>1, <1>7 DEF Interrupting
    <3> QED BY <1>6, <2>1, <2>2, <2>4, <3>1, <3>2 DEF Torn, Resets
  <2>8. ClosingSound'
    BY <1>12, <2>1 DEF Shape, ClosingSound, Tearing, Resets
  <2>9. InFlightSound'
    <3>1. f = "chat" => flow["chat"].at # "stopping"
      BY <1>2 DEF Tearing
    <3> QED BY <1>4, <2>1, <2>2, <3>1 DEF Shape, InFlightSound
  <2>10. SteerSound'
    BY <1>5, <2>1 DEF SteerSound
  <2> QED BY <1>8, <1>9, <1>10, <2>3, <2>5, <2>6, <2>7, <2>8, <2>9, <2>10 DEF Shape
<1> QED BY <1>11, <1>12

\* The sweep asks for its own turn, and its prompt is written.
LEMMA SweepKeepsShape ==
  ASSUME Typed, Shape, SweepBegun \/ SweepWaits \/ SweepBounced, Typed'
  PROVE  Shape'
<1> USE DEF LifeKept, StopKept, WorkKept, SteerKept
<1>1. /\ flush' = flush /\ proc' = proc
      /\ h'.live = h.live /\ h'.closing = h.closing /\ h'.stopping = h.stopping
      /\ h'.queue = h.queue /\ h'.inFlight = h.inFlight /\ h'.daemon = h.daemon
      /\ "steer" \in h'.timers => "steer" \in h.timers
      /\ flow'["chat"] = flow["chat"] /\ flow'["keeper"] = flow["keeper"]
      /\ flow["sweep"].at \in {"idle", "prompt"}
  BY DEF SweepBegun, SweepWaits, SweepBounced, FlowOthers
<1>2. Alive(h.daemon) /\ h.live /\ h.daemon \in Proc /\ proc[h.daemon] \in {"up", "dying"}
  BY ShapeFacts DEF SweepBegun, SweepWaits, SweepBounced, Shape, SweepSound
<1>3. ~Turning /\ flush.at # "send" /\ flush.at \notin {"spawn", "obsolete"} /\ flush.at = "none"
  <2>1. CASE flow["sweep"].at = "prompt"
    BY <2>1 DEF Shape, TurnSound, FlushSound, Typed, FlushStates
  <2>2. CASE IsIdleEmpty
    BY <2>2 DEF IsIdleEmpty, Shape, TurnSound, FlushSound, Typed, FlushStates
  <2> QED BY <2>1, <2>2 DEF SweepBegun, SweepWaits, SweepBounced
<1>4. /\ \A q \in Proc \cup {None} : Alive(q)' <=> Alive(q)
      /\ Alive(h.daemon)'
  BY <1>1, <1>2 DEF Alive
<1>5. /\ Over("chat")' <=> Over("chat")
      /\ Over("keeper")' <=> Over("keeper")
  BY <1>1, <1>4, ShapeFacts DEF Over
<1>6. ~Quiet
  BY <1>2 DEF Quiet, Alive
<1>7. /\ flow'["sweep"].at \in {"idle", "prompt", "waiting"}
      /\ flow'["sweep"].at = "prompt" => flow'["sweep"].proc = h.daemon
  BY DEF SweepBegun, SweepWaits, SweepBounced
<1>8. h'.waiter => flow'["sweep"].at \in {"prompt", "waiting"}
  BY DEF SweepBegun, SweepWaits, SweepBounced
<1>9. \/ h'.state = h.state
      \/ h'.state = "inFlight" /\ h.state = "idle" /\ h.queue = <<>>
      \/ h'.state = "idle" /\ proc[h.daemon] = "dying"
  BY DEF SweepBegun, SweepWaits, SweepBounced, IsIdleEmpty, Shape, SweepSound
<1>10. Places'
  BY <1>1, <1>7 DEF Shape, Places, Tearing, Resets
<1>11. Present'
  BY <1>1, <1>2 DEF Present
<1>12. Owned'
  BY <1>1 DEF Shape, Owned
<1>13. FlushSound'
  BY <1>1, <1>3 DEF FlushSound
<1>14. ChatSound'
  BY <1>1, <1>2, <1>4, <1>5, <1>6 DEF Shape, ChatSound
<1>15. SweepSound'
  BY <1>1, <1>4, <1>7, <1>8 DEF SweepSound
<1>16. TearSound'
  <2> SUFFICES ASSUME NEW f \in Flow, f # "sweep", Tearing(f), flow'[f] = flow[f]
               PROVE  IF flow[f].mine THEN Torn(f)' ELSE Quiet'
    BY <1>1, <1>7 DEF TearSound, Tearing
  <2>1. flow[f].mine /\ Torn(f)
    BY <1>6 DEF Shape, TearSound
  <2>2. flow[f].at = "stop" /\ flow[f].proc = h.daemon
    BY <1>2, <1>3, <2>1 DEF Torn, Tearing
  <2> QED BY <1>1, <1>3, <1>4, <1>5, <2>1, <2>2 DEF Torn, Resets
<1>17. ClosingSound'
  <2>1. ~Tearing("sweep")
    BY <1>1 DEF Tearing
  <2> QED BY <1>1, <2>1 DEF Shape, ClosingSound, Tearing, Resets
<1>18. TurnSound'
  <2>1. \A q \in Proc : turn'[q] # <<>> =>
          q = h.daemon /\ Len(turn'[q]) = 1 /\ flow'["sweep"].at # "prompt" /\ h'.state = h.state /\ flow["sweep"].at = "prompt"
    <3> SUFFICES ASSUME NEW q \in Proc, turn'[q] # <<>>
                 PROVE  q = h.daemon /\ Len(turn'[q]) = 1 /\ flow'["sweep"].at # "prompt"
                        /\ h'.state = h.state /\ flow["sweep"].at = "prompt"
      OBVIOUS
    <3>1. turn[q] = <<>>
      BY <1>3 DEF Turning
    <3>2. SweepWaits
      BY <3>1 DEF SweepBegun, SweepBounced
    <3>3. q = h.daemon /\ turn'[q] = Append(<<>>, <<>>)
      BY <1>2, <3>1, <3>2 DEF SweepWaits, Typed
    <3>4. Len(Append(<<>>, <<>>)) = 1
      BY Empty, AppendProperties
    <3> QED BY <3>2, <3>3, <3>4 DEF SweepWaits
  <2>2. flow'["sweep"].at = "prompt" => h'.state = "inFlight"
    BY DEF SweepBegun, SweepWaits, SweepBounced
  <2>3. flow["sweep"].at = "prompt" => h.state \in {"inFlight", "released"}
    BY DEF Shape, TurnSound
  <2> QED BY <1>1, <1>2, <1>3, <2>1, <2>2, <2>3 DEF TurnSound, Turning
<1>19. ReleasedSound'
  <2>1. flow["sweep"].at # "stop" /\ flow["sweep"].at # "flush"
    BY <1>1
  <2> QED BY <1>1, <1>6, <1>9 DEF Shape, ReleasedSound, Tearing
<1>20. InFlightSound'
  BY <1>4 DEF InFlightSound
<1>21. SteerSound'
  BY <1>1, <1>4, <1>9 DEF Shape, SteerSound
<1> QED BY <1>10, <1>11, <1>12, <1>13, <1>14, <1>15, <1>16, <1>17, <1>18, <1>19, <1>20, <1>21 DEF Shape

LEMMA InitShape ==
  ASSUME Init
  PROVE  Typed /\ Shape
<1>1. /\ h = NoHandle /\ flush = NoFlush /\ flow = [f \in Flow |-> NoFlow]
      /\ proc = [p \in Proc |-> "none"] /\ turn = [p \in Proc |-> <<>>]
      /\ stray = FALSE /\ held = FALSE /\ receipt = [m \in Message |-> "none"]
      /\ asked = <<>> /\ sent = <<>> /\ ended = {} /\ ops = MaxOps /\ faults = MaxFaults
  BY DEF Init
<1>2. /\ ~h.live /\ ~h.closing /\ h.state = "idle" /\ h.daemon = None /\ h.queue = <<>>
      /\ h.inFlight = {} /\ h.timers = {} /\ h.respawns = 0 /\ h.retries = 0
      /\ ~h.stopping /\ ~h.waiter
  BY <1>1 DEF NoHandle
<1>3. Typed
  BY <1>1, NoHandleType, NoFlushType, NoFlowType, Empty DEF Typed
<1>4. Quiet /\ flush.at = "none" /\ ~Turning /\ \A f \in Flow : flow[f].at = "idle"
  BY <1>1, NoFlushType, NoFlowType DEF Quiet, Turning
<1>5. Places
  BY <1>4 DEF Places, Tearing
<1>6. Present /\ Owned /\ FlushSound /\ ChatSound /\ SweepSound
  BY <1>2, <1>4 DEF Present, Bare, Owned, FlushSound, ChatSound, SweepSound, Quiet
<1>7. TearSound /\ ClosingSound /\ TurnSound /\ ReleasedSound /\ InFlightSound /\ SteerSound
  BY <1>2, <1>4 DEF TearSound, Tearing, ClosingSound, TurnSound, Turning, ReleasedSound, InFlightSound, SteerSound
<1> QED BY <1>3, <1>5, <1>6, <1>7 DEF Shape

\* The steps of Next by what they do.
MildSteps ==
  \/ RespawnFires \/ RetryFires \/ ReleaseExpires \/ Reacquire \/ SteerFires \/ WatchdogFires
  \/ (\E p \in Proc : Exits(p)) \/ ReleaseAbsent \/ TerminalCloses \/ InterruptOk \/ SweepTimesOut
  \/ SweepGivesWay

LEMMA MildStepsMild ==
  ASSUME Typed, Shape, MildSteps
  PROVE  Mild /\ BooksKept
BY RespawnMild, RetryMild, ReleaseExpiresMild, ReacquireMild, SteerMild, WatchdogMild,
   ExitsMild, ReleaseAbsentMild, TerminalClosesMild, InterruptOkMild, SweepTimesOutMild,
   SweepGivesWayMild DEF MildSteps

LEMMA StutterMild ==
  ASSUME Typed, Shape, UNCHANGED vars
  PROVE  Mild /\ BooksKept
<1>1. /\ h' = h /\ flush' = flush /\ flow' = flow /\ proc' = proc /\ turn' = turn
      /\ stray' = stray /\ held' = held /\ receipt' = receipt /\ asked' = asked
      /\ sent' = sent /\ ended' = ended /\ ops' = ops /\ faults' = faults
  BY DEF vars
<1>2. MildHandle
  BY <1>1 DEF Typed, Shape, Present, Bare, MildHandle
<1> QED BY <1>1, <1>2 DEF Typed, Mild, MildHandle, BooksKept

\* Every step, by what it does.
Kinds ==
  \/ Mild /\ BooksKept
  \/ \E m \in Prompt : Mild /\ Entered(m)
  \/ Sends
  \/ ~Ready /\ Spawns
  \/ ~Ready /\ SpawnOk
  \/ SpawnFails
  \/ SendOk \/ SendFails
  \/ \E p \in Proc : TurnEnds(p) \/ Close(p)
  \/ ObsoleteStopped
  \/ ~Ready /\ StopTurn
  \/ InterruptFails \/ Stopped
  \/ \E f \in Flow : Reset(f) /\ flow[f].at \in {"idle", "ended"} /\ (f # "chat" => IsIdleEmpty)
                     /\ ops' \in Nat /\ UNCHANGED <<flush, turn, stray, held, asked, sent, ended, faults>>
  \/ Release
  \/ \E f \in Flow : AwaitsFlush(f) \/ Deleted(f)
  \/ Released
  \/ Sweep \/ SweepSent \/ SweepSendFails

LEMMA NextKinds ==
  ASSUME Typed, Shape, [Next]_vars
  PROVE  Kinds
<1>1. CASE UNCHANGED vars
  BY <1>1, StutterMild DEF Kinds
<1>2. CASE Continue
  <2>1. CASE SweepClears
    <3>1. CASE IsIdleEmpty
      <4>1. /\ Reset("sweep") /\ flow["sweep"].at = "ended" /\ ops' \in Nat
            /\ UNCHANGED <<flush, turn, stray, held, asked, sent, ended, faults>>
        BY <2>1, <3>1 DEF SweepClears, Typed
      <4> QED BY <3>1, <4>1 DEF Kinds
    <3>2. CASE ~IsIdleEmpty
      BY <2>1, <3>2, SweepGivesWayMild DEF SweepGivesWay, Kinds
    <3> QED BY <3>1, <3>2
  <2> QED BY <1>2, <2>1 DEF Continue, Kinds
<1>3. CASE ~Ready /\ Macrotask
  <2>1. CASE Ask
    <3>1. PICK m \in Prompt : EnqueueRefused(m) \/ Enqueue(m) \/ EnqueueExpired(m)
      BY <2>1 DEF Ask
    <3>2. Mild /\ Entered(m)
      BY <1>3, <3>1, EnqueueRefusedMild, EnqueueMild, EnqueueExpiredMild
    <3> QED BY <3>2 DEF Kinds
  <2>2. CASE Spawned \/ Written \/ Interrupted \/ Prompted
    BY <1>3, <2>2, InterruptOkMild DEF Spawned, Written, Interrupted, Prompted, Kinds
  <2>3. CASE \E p \in Proc : TurnEnds(p) \/ Exits(p) \/ Close(p)
    BY <2>3, ExitsMild DEF Kinds
  <2>4. CASE Timers
    <3>1. CASE DebounceFires \/ StrayDebounce
      BY <1>3, <3>1, DebounceCases DEF Kinds
    <3>2. CASE MildSteps
      BY <3>2, MildStepsMild DEF Kinds
    <3> QED BY <2>4, <3>1, <3>2 DEF Timers, MildSteps
  <2>5. CASE Operate
    <3>1. CASE ChatResets
      <4>1. /\ Reset("chat") /\ flow["chat"].at = "idle" /\ ops' \in Nat
            /\ UNCHANGED <<flush, turn, stray, held, asked, sent, ended, faults>>
        BY <3>1 DEF ChatResets, Spend, Typed
      <4> QED BY <4>1 DEF Kinds
    <3>2. CASE Evict
      <4>1. /\ Reset("keeper") /\ flow["keeper"].at = "idle" /\ IsIdleEmpty /\ ops' \in Nat
            /\ UNCHANGED <<flush, turn, stray, held, asked, sent, ended, faults>>
        BY <3>2 DEF Evict, Spend, Typed
      <4> QED BY <4>1 DEF Kinds
    <3>3. CASE MildSteps
      BY <3>3, MildStepsMild DEF Kinds
    <3> QED BY <1>3, <2>5, <3>1, <3>2, <3>3 DEF Operate, MildSteps, Kinds
  <2>6. CASE SweepTimesOut
    BY <2>6, SweepTimesOutMild DEF Kinds
  <2> QED BY <1>3, <2>1, <2>2, <2>3, <2>4, <2>5, <2>6 DEF Macrotask
<1> QED BY <1>1, <1>2, <1>3 DEF Next

LEMMA KindsKeepShape ==
  ASSUME Typed, Shape, Kinds
  PROVE  Typed' /\ Shape'
<1>1. CASE Mild
  BY <1>1, MildKeepsShape DEF Mild
<1>2. CASE Sends
  BY <1>2, SendsKeepsShape DEF Sends
<1>3. CASE ~Ready /\ Spawns
  BY <1>3, SpawnsKeepsShape DEF Spawns
<1>4. CASE ~Ready /\ SpawnOk
  BY <1>4, SpawnOkStep, SpawnOkKeepsShape
<1>5. CASE SpawnFails
  BY <1>5, SpawnFailsStep, SpawnFailsKeepsShape
<1>6. CASE SendOk
  BY <1>6, SendOkStep, DeliveredKeepsShape
<1>7. CASE SendFails
  BY <1>7, SendFailsStep, BouncedKeepsShape
<1>8. ASSUME NEW p \in Proc, TurnEnds(p) PROVE Typed' /\ Shape'
  BY <1>8, TurnEndsStep, TurnOverKeepsShape
<1>9. ASSUME NEW p \in Proc, Close(p) PROVE Typed' /\ Shape'
  BY <1>9, CloseStep, ClosedKeepsShape
<1>10. CASE ObsoleteStopped
  BY <1>10, ObsoleteStoppedStep, ObsoleteStoppedKeepsShape
<1>11. CASE ~Ready /\ StopTurn
  BY <1>11, StopTurnStep, StopBegunKeepsShape
<1>12. CASE InterruptFails
  BY <1>12, InterruptFailsStep, StopForcedKeepsShape
<1>13. CASE Stopped
  BY <1>13, StoppedStep, StopOverKeepsShape
<1>14. ASSUME NEW f \in Flow, Reset(f), flow[f].at \in {"idle", "ended"}, f # "chat" => IsIdleEmpty,
              ops' \in Nat, UNCHANGED <<flush, turn, stray, held, asked, sent, ended, faults>>
       PROVE  Typed' /\ Shape'
  BY <1>14, ResetStep, ResetBegunKeepsShape
<1>15. CASE Release
  BY <1>15, ReleaseStep, ReleaseBegunKeepsShape
<1>16. ASSUME NEW f \in Flow, AwaitsFlush(f) PROVE Typed' /\ Shape'
  BY <1>16, AwaitsFlushStep, FlushAwaitedKeepsShape
<1>17. ASSUME NEW f \in Flow, Deleted(f) PROVE Typed' /\ Shape'
  BY <1>17, DeletedStep, GoneKeepsShape
<1>18. CASE Released
  BY <1>18, ReleasedStep, AcknowledgedKeepsShape
<1>19. CASE Sweep \/ SweepSent \/ SweepSendFails
  BY <1>19, SweepStep, SweepSentStep, SweepSendFailsStep, SweepKeepsShape
<1> QED BY <1>1, <1>2, <1>3, <1>4, <1>5, <1>6, <1>7, <1>8, <1>9, <1>10, <1>11, <1>12, <1>13,
           <1>14, <1>15, <1>16, <1>17, <1>18, <1>19 DEF Kinds

----------------------------------------------------------------------------
(* Order.                                                                  *)

Before(a, x, y) == \E k, l \in DOMAIN a : k < l /\ a[k] = x /\ a[l] = y
InOrder(a, s) == \A i, j \in DOMAIN s : i < j => Before(a, s[i], s[j])
Follows(a, s, t) == \A x \in ToSet(s), y \in ToSet(t) : Before(a, x, y)

LEMMA ConcatInOrder ==
  ASSUME NEW a, NEW s \in Seq(Prompt), NEW t \in Seq(Prompt), InOrder(a, s), InOrder(a, t), Follows(a, s, t)
  PROVE  InOrder(a, s \o t) /\ ToSet(s \o t) = ToSet(s) \cup ToSet(t)
<1> DEFINE r == s \o t
<1>1. /\ Len(s) \in Nat /\ Len(t) \in Nat /\ DOMAIN s = 1..Len(s) /\ DOMAIN t = 1..Len(t)
      /\ DOMAIN r = 1..(Len(s) + Len(t))
      /\ \A i \in 1..(Len(s) + Len(t)) : r[i] = IF i <= Len(s) THEN s[i] ELSE t[i - Len(s)]
  BY ConcatProperties
<1>2. \A i \in DOMAIN s : i \in DOMAIN r /\ r[i] = s[i]
  BY <1>1
<1>3. \A i \in DOMAIN t : i + Len(s) \in DOMAIN r /\ r[i + Len(s)] = t[i]
  BY <1>1
<1>4. \A i \in DOMAIN r : \/ i \in DOMAIN s /\ r[i] = s[i]
                          \/ i > Len(s) /\ i - Len(s) \in DOMAIN t /\ r[i] = t[i - Len(s)]
  BY <1>1
<1> HIDE DEF r
<1>5. InOrder(a, r)
  <2> SUFFICES ASSUME NEW i \in DOMAIN r, NEW j \in DOMAIN r, i < j
               PROVE  Before(a, r[i], r[j])
    BY DEF InOrder
  <2>1. CASE i \in DOMAIN s /\ r[i] = s[i] /\ j \in DOMAIN s /\ r[j] = s[j]
    BY <2>1 DEF InOrder
  <2>2. CASE i \in DOMAIN s /\ r[i] = s[i] /\ j - Len(s) \in DOMAIN t /\ r[j] = t[j - Len(s)]
    BY <2>2 DEF Follows, ToSet
  <2>3. CASE i > Len(s) /\ i - Len(s) \in DOMAIN t /\ r[i] = t[i - Len(s)]
    <3>1. i - Len(s) < j - Len(s) /\ j - Len(s) \in DOMAIN t /\ r[j] = t[j - Len(s)]
      BY <1>1, <1>4, <2>3
    <3> QED BY <2>3, <3>1 DEF InOrder
  <2> QED BY <1>4, <2>1, <2>2, <2>3
<1>6. ToSet(r) = ToSet(s) \cup ToSet(t)
  <2>1. ToSet(s) \cup ToSet(t) \subseteq ToSet(r)
    BY <1>2, <1>3 DEF ToSet
  <2>2. ToSet(r) \subseteq ToSet(s) \cup ToSet(t)
    BY <1>4 DEF ToSet
  <2> QED BY <2>1, <2>2
<1> QED BY <1>5, <1>6 DEF r

LEMMA UntrackedInOrder ==
  ASSUME NEW a, NEW q \in Seq(Prompt), InOrder(a, q)
  PROVE  /\ Untracked(q) \in Seq(Prompt) /\ InOrder(a, Untracked(q))
         /\ ToSet(Untracked(q)) \subseteq ToSet(q) \cap Inject
<1> DEFINE s == Untracked(q)
<1>1. s \in Seq(Prompt)
  BY UntrackedPicks DEF Picked
<1>2. PICK pos \in [1..Len(s) -> 1..Len(q)] :
        /\ \A b, c \in 1..Len(s) : b < c => pos[b] < pos[c]
        /\ \A b \in 1..Len(s) : s[b] = q[pos[b]] /\ s[b] \in Inject
  BY UntrackedPicks DEF Picked
<1> HIDE DEF s
<1>3. DOMAIN s = 1..Len(s) /\ DOMAIN q = 1..Len(q)
  BY <1>1
<1>4. InOrder(a, s)
  BY <1>2, <1>3 DEF InOrder
<1>5. ToSet(s) \subseteq ToSet(q) \cap Inject
  BY <1>2, <1>3 DEF ToSet
<1> QED BY <1>1, <1>4, <1>5 DEF s

\* A prompt just asked for comes after every other.
LEMMA AskedLast ==
  ASSUME NEW a \in Seq(Prompt), NEW m \in Prompt
  PROVE  /\ \A x, y : Before(a, x, y) => Before(Append(a, m), x, y)
         /\ \A x \in ToSet(a) : Before(Append(a, m), x, m)
         /\ ToSet(Append(a, m)) = ToSet(a) \cup {m}
<1> DEFINE b == Append(a, m)
<1>1. /\ DOMAIN a = 1..Len(a) /\ Len(a) \in Nat
      /\ DOMAIN b = 1..(Len(a) + 1)
      /\ \A k \in DOMAIN a : k \in DOMAIN b /\ b[k] = a[k] /\ k < Len(a) + 1
      /\ Len(a) + 1 \in DOMAIN b /\ b[Len(a) + 1] = m
  BY AppendProperties
<1> HIDE DEF b
<1>2. ASSUME NEW x, NEW y, Before(a, x, y) PROVE Before(b, x, y)
  BY <1>1, <1>2 DEF Before
<1>3. ASSUME NEW x \in ToSet(a) PROVE Before(b, x, m)
  BY <1>1, <1>3 DEF Before, ToSet
<1>4. ToSet(b) = ToSet(a) \cup {m}
  <2>1. ToSet(b) \subseteq ToSet(a) \cup {m}
    <3>1. \A k \in DOMAIN b : k \in DOMAIN a \/ k = Len(a) + 1
      BY <1>1
    <3> QED BY <1>1, <3>1 DEF ToSet
  <2>2. ToSet(a) \cup {m} \subseteq ToSet(b)
    BY <1>1 DEF ToSet
  <2> QED BY <2>1, <2>2
<1> QED BY <1>2, <1>3, <1>4 DEF b

LEMMA AppendInOrder ==
  ASSUME NEW a, NEW s \in Seq(Prompt), NEW m \in Prompt, InOrder(a, s), \A x \in ToSet(s) : Before(a, x, m)
  PROVE  InOrder(a, Append(s, m)) /\ ToSet(Append(s, m)) = ToSet(s) \cup {m}
<1> DEFINE r == Append(s, m)
<1>1. /\ DOMAIN s = 1..Len(s) /\ Len(s) \in Nat
      /\ DOMAIN r = 1..(Len(s) + 1)
      /\ \A k \in DOMAIN s : k \in DOMAIN r /\ r[k] = s[k]
      /\ Len(s) + 1 \in DOMAIN r /\ r[Len(s) + 1] = m
  BY AppendProperties
<1> HIDE DEF r
<1>2. \A k \in DOMAIN r : k \in DOMAIN s \/ k = Len(s) + 1
  BY <1>1
<1>3. InOrder(a, r)
  <2> SUFFICES ASSUME NEW i \in DOMAIN r, NEW j \in DOMAIN r, i < j
               PROVE  Before(a, r[i], r[j])
    BY DEF InOrder
  <2>1. i \in DOMAIN s /\ r[i] = s[i] /\ s[i] \in ToSet(s)
    BY <1>1 DEF ToSet
  <2>2. CASE j \in DOMAIN s
    BY <1>1, <2>1, <2>2 DEF InOrder
  <2>3. CASE j = Len(s) + 1
    BY <1>1, <2>1, <2>3
  <2> QED BY <1>2, <2>2, <2>3
<1>4. ToSet(r) = ToSet(s) \cup {m}
  <2>1. ToSet(r) \subseteq ToSet(s) \cup {m}
    BY <1>1, <1>2 DEF ToSet
  <2>2. ToSet(s) \cup {m} \subseteq ToSet(r)
    BY <1>1 DEF ToSet
  <2> QED BY <2>1, <2>2
<1> QED BY <1>3, <1>4 DEF r

----------------------------------------------------------------------------
(* The books: what was asked for, what is sent, and who knows its outcome. *)

BatchSound ==
  /\ flush.at = "send" => h.inFlight \subseteq ToSet(flush.batch)
  /\ \A p \in Proc : turn[p] # <<>> => h.inFlight \subseteq ToSet(Head(turn[p]))
  /\ h.inFlight # {} => flush.at = "send" \/ Turning

Known ==
  /\ ToSet(sent) \cup ToSet(h.queue) \cup h.inFlight \subseteq ToSet(asked)
  /\ flush.at = "send" => ToSet(flush.batch) \subseteq ToSet(asked)
  /\ h.inFlight \cap ToSet(h.queue) = {}
  /\ \A m \in Message : m \notin ToSet(asked) => receipt[m] = "none"

Ordered ==
  /\ InOrder(asked, sent) /\ InOrder(asked, h.queue) /\ Follows(asked, sent, h.queue)
  /\ flush.at = "send" =>
       /\ InOrder(asked, flush.batch) /\ Follows(asked, sent, flush.batch)
       /\ Follows(asked, flush.batch, h.queue)

Told == Known /\ ReceiptsAccounted /\ DoneMeansEnded /\ NotRetried /\ Ordered
Books == BatchSound /\ Told

\* Nothing is asked or sent, and a write stays the one it was.
Untold ==
  /\ UNCHANGED <<asked, sent>>
  /\ flush'.at = "send" => flush.at = "send" /\ flush'.batch = flush.batch

ReceiptsKept ==
  /\ UNCHANGED <<receipt, ended>>
  /\ h'.queue = h.queue /\ h'.inFlight = h.inFlight
  /\ h.live => h'.live
  /\ h'.closing = h.closing

TurnSettled(outcome) ==
  /\ receipt' = Settled(h.inFlight, outcome)
  /\ ended \subseteq ended' /\ (outcome = "done" => h.inFlight \subseteq ended')
  /\ h'.queue = h.queue /\ h'.inFlight = {}
  /\ h.live => h'.live
  /\ h'.closing = h.closing

AllSettled ==
  /\ ended' = ended
  /\ receipt' = Settled(h.inFlight \cup ToSet(h.queue), "failed")
  /\ h'.inFlight = {}
  /\ h'.queue = <<>> \/ (h'.queue = h.queue /\ h'.closing)

LEMMA NoneIn == ToSet(<<>>) = {}
BY DEF ToSet

LEMMA UntoldOrdered ==
  ASSUME Ordered, Untold, h'.queue \in {h.queue, <<>>}
  PROVE  Ordered'
<1>1. asked' = asked /\ sent' = sent
  BY DEF Untold
<1>2. InOrder(asked', sent') /\ InOrder(asked', h'.queue) /\ Follows(asked', sent', h'.queue)
  <2>1. CASE h'.queue = h.queue
    BY <1>1, <2>1 DEF Ordered
  <2>2. CASE h'.queue = <<>>
    BY <1>1, <2>2, NoneIn DEF Ordered, InOrder, Follows
  <2> QED BY <2>1, <2>2
<1>3. ASSUME flush'.at = "send"
      PROVE  /\ InOrder(asked', flush'.batch) /\ Follows(asked', sent', flush'.batch)
             /\ Follows(asked', flush'.batch, h'.queue)
  <2>1. flush.at = "send" /\ flush'.batch = flush.batch
    BY <1>3 DEF Untold
  <2>2. CASE h'.queue = h.queue
    BY <1>1, <2>1, <2>2 DEF Ordered
  <2>3. CASE h'.queue = <<>>
    BY <1>1, <2>1, <2>3, NoneIn DEF Ordered, Follows
  <2> QED BY <2>2, <2>3
<1> QED BY <1>2, <1>3 DEF Ordered

LEMMA ReceiptsKeptTold ==
  ASSUME Told, Untold, ReceiptsKept
  PROVE  Told'
<1>1. /\ asked' = asked /\ sent' = sent /\ receipt' = receipt /\ ended' = ended
      /\ h'.queue = h.queue /\ h'.inFlight = h.inFlight
      /\ h.live => h'.live
      /\ h'.closing = h.closing
  BY DEF Untold, ReceiptsKept
<1>2. Ordered'
  BY <1>1, UntoldOrdered DEF Told
<1>3. Known'
  BY <1>1 DEF Told, Known, Untold
<1>4. ReceiptsAccounted' /\ DoneMeansEnded' /\ NotRetried'
  BY <1>1 DEF Told, ReceiptsAccounted, DoneMeansEnded, NotRetried
<1> QED BY <1>2, <1>3, <1>4 DEF Told

LEMMA TurnSettledTold ==
  ASSUME Typed, Told, Untold, NEW outcome \in {"done", "failed"}, TurnSettled(outcome)
  PROVE  Told'
<1>1. /\ asked' = asked /\ sent' = sent /\ ended \subseteq ended'
      /\ outcome = "done" => h.inFlight \subseteq ended'
      /\ h'.queue = h.queue /\ h'.inFlight = {}
      /\ h.live => h'.live
      /\ h'.closing = h.closing
  BY DEF Untold, TurnSettled
<1>2. \A m \in Message : receipt'[m] = IF m \in h.inFlight /\ receipt[m] = "waiting" THEN outcome ELSE receipt[m]
  BY DEF TurnSettled, Settled
<1>3. Ordered'
  BY <1>1, UntoldOrdered DEF Told
<1>4. Known'
  BY <1>1, <1>2 DEF Told, Known, Untold
<1>5. ReceiptsAccounted'
  BY <1>1, <1>2 DEF Told, ReceiptsAccounted
<1>6. DoneMeansEnded'
  BY <1>1, <1>2 DEF Told, DoneMeansEnded
<1>7. NotRetried'
  BY <1>1, <1>2 DEF Told, Known, NotRetried
<1> QED BY <1>3, <1>4, <1>5, <1>6, <1>7 DEF Told

LEMMA AllSettledTold ==
  ASSUME Typed, Told, Untold, AllSettled
  PROVE  Told'
<1>1. /\ asked' = asked /\ sent' = sent /\ ended' = ended /\ h'.inFlight = {}
      /\ h'.queue = <<>> \/ (h'.queue = h.queue /\ h'.closing)
  BY DEF Untold, AllSettled
<1>2. \A m \in Message :
        receipt'[m] = IF m \in h.inFlight \cup ToSet(h.queue) /\ receipt[m] = "waiting" THEN "failed" ELSE receipt[m]
  BY DEF AllSettled, Settled
<1>3. Ordered'
  BY <1>1, UntoldOrdered DEF Told
<1>4. ToSet(h.queue)' \subseteq ToSet(h.queue)
  BY <1>1, NoneIn
<1>5. Known'
  BY <1>1, <1>2, <1>4 DEF Told, Known, Untold
<1>6. ReceiptsAccounted'
  BY <1>2 DEF Told, ReceiptsAccounted
<1>7. DoneMeansEnded'
  BY <1>1, <1>2 DEF Told, DoneMeansEnded
<1>8. NotRetried'
  BY <1>1, NoneIn DEF NotRetried
<1> QED BY <1>3, <1>5, <1>6, <1>7, <1>8 DEF Told

\* A new prompt: at the end of the queue, or refused.
LEMMA EnteredTold ==
  ASSUME Typed, Typed', Told, Mild, NEW m \in Prompt, Entered(m)
  PROVE  Told'
<1>1. PICK outcome \in {"waiting", "failed"} :
        /\ receipt' = Awaiting(m, outcome)
        /\ IF outcome = "waiting" THEN h'.queue = Append(h.queue, m) /\ h'.live ELSE h'.queue = h.queue
  BY DEF Entered
<1>2. /\ m \notin ToSet(asked) /\ asked' = Append(asked, m) /\ sent' = sent /\ ended' = ended
      /\ flush' = flush /\ h'.inFlight = h.inFlight /\ h'.closing = h.closing
      /\ asked \in Seq(Prompt) /\ h.queue \in Seq(Prompt)
  BY DEF Entered, Mild, Typed, Handle
<1>3. /\ \A x, y : Before(asked, x, y) => Before(asked', x, y)
      /\ \A x \in ToSet(asked) : Before(asked', x, m)
      /\ ToSet(asked') = ToSet(asked) \cup {m}
  BY <1>2, AskedLast
<1>4. \A n \in Message : receipt'[n] = IF n = m THEN outcome ELSE receipt[n]
  BY <1>1, <1>2 DEF Awaiting, Typed
<1>5. ToSet(h.queue) \subseteq ToSet(asked) /\ ToSet(sent) \subseteq ToSet(asked) /\ h.inFlight \subseteq ToSet(asked)
      /\ (flush.at = "send" => ToSet(flush.batch) \subseteq ToSet(asked))
  BY DEF Told, Known
<1>6. InOrder(asked', h.queue) /\ InOrder(asked', sent) /\ Follows(asked', sent, h.queue)
  BY <1>3 DEF Told, Ordered, InOrder, Follows
<1>7. flush.at = "send" => /\ InOrder(asked', flush.batch) /\ Follows(asked', sent, flush.batch)
                           /\ Follows(asked', flush.batch, h.queue)
  BY <1>3 DEF Told, Ordered, InOrder, Follows
<1>8. \/ h'.queue = h.queue
      \/ /\ h'.queue = Append(h.queue, m) /\ outcome = "waiting" /\ h'.live
         /\ InOrder(asked', h'.queue) /\ ToSet(h'.queue) = ToSet(h.queue) \cup {m}
  <2>1. InOrder(asked', Append(h.queue, m)) /\ ToSet(Append(h.queue, m)) = ToSet(h.queue) \cup {m}
    BY <1>2, <1>3, <1>5, <1>6, AppendInOrder
  <2> QED BY <1>1, <2>1
<1>9. Ordered'
  <2>1. CASE h'.queue = h.queue
    BY <1>2, <1>6, <1>7, <2>1 DEF Ordered
  <2>2. CASE ToSet(h'.queue) = ToSet(h.queue) \cup {m} /\ InOrder(asked', h'.queue)
    <3>1. Follows(asked', sent', h'.queue)
      BY <1>2, <1>3, <1>5, <1>6, <2>2 DEF Follows
    <3>2. flush.at = "send" => Follows(asked', flush.batch, h'.queue)
      BY <1>3, <1>5, <1>7, <2>2 DEF Follows
    <3> QED BY <1>2, <1>6, <1>7, <2>2, <3>1, <3>2 DEF Ordered
  <2> QED BY <1>8, <2>1, <2>2
<1>10. Known'
  <2>1. ToSet(h'.queue) \subseteq ToSet(h.queue) \cup {m}
    BY <1>8
  <2>2. h.inFlight \cap ToSet(h.queue) = {} /\ m \notin h.inFlight
    BY <1>2, <1>5 DEF Told, Known
  <2>3. \A n \in Message : n \notin ToSet(asked') => receipt'[n] = "none"
    BY <1>3, <1>4 DEF Told, Known
  <2> QED BY <1>2, <1>3, <1>5, <2>1, <2>2, <2>3 DEF Known
<1>11. ReceiptsAccounted'
  <2> SUFFICES ASSUME NEW n \in Message, receipt'[n] = "waiting"
               PROVE  h'.live /\ (n \in ToSet(h'.queue) \/ n \in h'.inFlight)
    BY DEF ReceiptsAccounted
  <2>1. CASE n = m
    <3>1. outcome = "waiting"
      BY <1>4, <2>1
    <3>2. h'.queue = Append(h.queue, m) /\ h'.live
      BY <1>1, <3>1
    <3>3. m \in ToSet(Append(h.queue, m))
      BY <1>2, <1>3, <1>5, <1>6, AppendInOrder
    <3> QED BY <2>1, <3>2, <3>3
  <2>2. CASE n # m
    <3>1. h.live /\ (n \in ToSet(h.queue) \/ n \in h.inFlight)
      BY <1>4, <2>2 DEF Told, ReceiptsAccounted
    <3>2. h'.live
      BY <3>1 DEF Mild
    <3> QED BY <1>2, <1>8, <3>1, <3>2
  <2> QED BY <2>1, <2>2
<1>12. DoneMeansEnded'
  BY <1>2, <1>4 DEF Told, DoneMeansEnded
<1>13. NotRetried'
  <2> SUFFICES ASSUME NEW n \in ToSet(h'.queue) \cap Message, receipt'[n] = "failed"
               PROVE  h'.closing
    BY DEF NotRetried
  <2>1. n # m
    <3>1. CASE h'.queue = h.queue
      BY <1>2, <1>5, <3>1
    <3>2. CASE outcome = "waiting"
      BY <1>4, <3>2
    <3> QED BY <1>8, <3>1, <3>2
  <2>2. n \in ToSet(h.queue) /\ receipt[n] = "failed"
    BY <1>4, <1>8, <2>1
  <2> QED BY <1>2, <2>2 DEF Told, NotRetried
<1> QED BY <1>9, <1>10, <1>11, <1>12, <1>13 DEF Told

LEMMA NoBatch ==
  ASSUME BatchSound, flush.at # "send", ~Turning
  PROVE  h.inFlight = {}
BY DEF BatchSound

LEMMA BatchGone ==
  ASSUME h'.inFlight = {}
  PROVE  BatchSound'
BY DEF BatchSound

LEMMA BatchStays ==
  ASSUME BatchSound, h'.inFlight = h.inFlight, turn' = turn,
         (flush.at # "send" /\ flush'.at # "send") \/ flush' = flush
  PROVE  BatchSound'
BY DEF BatchSound, Turning

\* The queue becomes the batch.
LEMMA TakenBooks ==
  ASSUME Typed, Books, flush.at # "send", ~Turning, UNCHANGED <<turn, receipt, asked, sent, ended>>,
         NEW p, Taken(p)
  PROVE  Books'
<1>1. h.inFlight = {}
  BY NoBatch DEF Books
<1>2. /\ h'.live = h.live /\ h'.closing = h.closing /\ h'.queue = <<>>
      /\ h'.inFlight = ToSet(h.queue) \cap Message
      /\ flush'.at = "send" /\ flush'.batch = h.queue
      /\ asked' = asked /\ sent' = sent /\ receipt' = receipt /\ ended' = ended /\ turn' = turn
  BY DEF Taken
<1>3. BatchSound'
  BY <1>2 DEF BatchSound, Turning
<1>4. Known'
  BY <1>2, NoneIn DEF Books, Told, Known
<1>5. ReceiptsAccounted'
  BY <1>1, <1>2 DEF Books, Told, ReceiptsAccounted
<1>6. DoneMeansEnded' /\ NotRetried'
  BY <1>2, NoneIn DEF Books, Told, DoneMeansEnded, NotRetried
<1>7. Ordered'
  BY <1>2, NoneIn DEF Books, Told, Ordered, InOrder, Follows
<1> QED BY <1>3, <1>4, <1>5, <1>6, <1>7 DEF Books, Told

\* The batch is a process's turn.
LEMMA DeliveredBooks ==
  ASSUME Typed, Shape, Books, Delivered
  PROVE  Books'
<1>1. /\ flush.at = "send" /\ flush'.at = "none" /\ h.daemon \in Proc /\ flush.proc = h.daemon
      /\ \A q \in Proc : turn[q] = <<>>
      /\ turn' = [turn EXCEPT ![h.daemon] = Append(turn[h.daemon], flush.batch)]
      /\ sent' = sent \o flush.batch
      /\ asked' = asked /\ receipt' = receipt /\ ended' = ended
      /\ h'.live = h.live /\ h'.closing = h.closing /\ h'.queue = h.queue /\ h'.inFlight = h.inFlight
  BY ShapeFacts DEF Delivered, LifeKept, WorkKept, Shape, FlushSound, TurnSound, Turning
<1>2. flush.batch \in Seq(Prompt) /\ sent \in Seq(Prompt)
  BY DEF Typed, FlushStates
<1>3. BatchSound'
  <2>1. /\ \A q \in Proc : q # h.daemon => turn'[q] = <<>>
        /\ turn'[h.daemon] = Append(<<>>, flush.batch)
    BY <1>1 DEF Typed
  <2>2. Append(<<>>, flush.batch) # <<>> /\ Head(Append(<<>>, flush.batch)) = flush.batch
    <3>1. <<>> \in Seq(Seq(Prompt)) /\ Len(Append(<<>>, flush.batch)) = Len(<<>>) + 1
          /\ Append(<<>>, flush.batch)[1] = flush.batch
      BY <1>2, Empty, AppendProperties
    <3>2. Append(<<>>, flush.batch) # <<>>
      BY <3>1
    <3> QED BY <3>1, <3>2
  <2>3. h.inFlight \subseteq ToSet(flush.batch)
    BY <1>1 DEF Books, BatchSound
  <2> QED BY <1>1, <2>1, <2>2, <2>3 DEF BatchSound, Turning
<1>4. /\ InOrder(asked, sent') /\ ToSet(sent') = ToSet(sent) \cup ToSet(flush.batch)
      /\ Follows(asked, sent', h.queue)
  <2>1. InOrder(asked, sent') /\ ToSet(sent') = ToSet(sent) \cup ToSet(flush.batch)
    BY <1>1, <1>2, ConcatInOrder DEF Books, Told, Ordered
  <2> QED BY <1>1, <2>1 DEF Books, Told, Ordered, Follows
<1>5. Ordered'
  BY <1>1, <1>4 DEF Books, Told, Ordered
<1>6. Known'
  BY <1>1, <1>4 DEF Books, Told, Known
<1>7. ReceiptsAccounted' /\ DoneMeansEnded' /\ NotRetried'
  BY <1>1 DEF Books, Told, ReceiptsAccounted, DoneMeansEnded, NotRetried
<1> QED BY <1>3, <1>5, <1>6, <1>7 DEF Books, Told

\* The write failed: the prompts without a receipt wait again, first in line.
LEMMA BouncedBooks ==
  ASSUME Typed, Books, Bounced
  PROVE  Books'
<1>1. /\ flush.at = "send" /\ flush'.at = "none"
      /\ asked' = asked /\ sent' = sent /\ ended' = ended
      /\ receipt' = Settled(h.inFlight, "failed")
      /\ h'.live = h.live /\ h'.closing = h.closing /\ h'.inFlight = {}
      /\ h'.queue = h.queue \/ h'.queue = Requeued(flush.batch, h.queue)
  BY DEF Bounced, LifeKept, TalkKept
<1>2. BatchSound'
  BY <1>1, BatchGone
<1>3. CASE h'.queue = h.queue
  <2>1. Untold /\ TurnSettled("failed")
    BY <1>1, <1>3 DEF Untold, TurnSettled
  <2>2. Told'
    BY <2>1, TurnSettledTold DEF Books
  <2> QED BY <1>2, <2>2 DEF Books
<1>4. CASE h'.queue = Requeued(flush.batch, h.queue)
  <2> DEFINE back == Untracked(flush.batch)
  <2>1. flush.batch \in Seq(Prompt) /\ h.queue \in Seq(Prompt)
    BY DEF Typed, FlushStates, Handle
  <2>2. back \in Seq(Prompt) /\ InOrder(asked, back) /\ ToSet(back) \subseteq ToSet(flush.batch) \cap Inject
    BY <1>1, <2>1, UntrackedInOrder DEF Books, Told, Ordered
  <2>3. h'.queue = back \o h.queue
    BY <1>4 DEF Requeued
  <2> HIDE DEF back
  <2>4. Follows(asked, back, h.queue) /\ Follows(asked, sent, back)
    BY <1>1, <2>2 DEF Books, Told, Ordered, Follows
  <2>5. InOrder(asked, h'.queue) /\ ToSet(h'.queue) = ToSet(back) \cup ToSet(h.queue)
    BY <2>1, <2>2, <2>3, <2>4, ConcatInOrder DEF Books, Told, Ordered
  <2>6. Ordered'
    <3>1. Follows(asked, sent, h'.queue)
      BY <2>4, <2>5 DEF Books, Told, Ordered, Follows
    <3> QED BY <1>1, <2>5, <3>1 DEF Books, Told, Ordered
  <2>7. \A m \in Message : receipt'[m] = IF m \in h.inFlight /\ receipt[m] = "waiting" THEN "failed" ELSE receipt[m]
    BY <1>1 DEF Settled
  <2>8. Known'
    BY <1>1, <2>2, <2>5, <2>7 DEF Books, Told, Known
  <2>9. ReceiptsAccounted'
    BY <1>1, <2>5, <2>7 DEF Books, Told, ReceiptsAccounted
  <2>10. DoneMeansEnded'
    BY <1>1, <2>7 DEF Books, Told, DoneMeansEnded
  <2>11. NotRetried'
    <3> SUFFICES ASSUME NEW m \in ToSet(h'.queue) \cap Message, receipt'[m] = "failed"
                 PROVE  h'.closing
      BY DEF NotRetried
    <3>1. m \in ToSet(h.queue) /\ m \notin h.inFlight
      BY <2>2, <2>5 DEF Books, Told, Known
    <3> QED BY <1>1, <2>7, <3>1 DEF Books, Told, NotRetried
  <2> QED BY <1>2, <2>6, <2>8, <2>9, <2>10, <2>11 DEF Books, Told
<1> QED BY <1>1, <1>3, <1>4

LEMMA KeptBooks ==
  ASSUME Books, UNCHANGED <<turn, asked, sent>>, ReceiptsKept,
         (flush.at # "send" /\ flush'.at # "send") \/ flush' = flush
  PROVE  Books'
<1>1. Untold
  BY DEF Untold
<1>2. BatchSound'
  BY BatchStays DEF Books, ReceiptsKept
<1> QED BY <1>1, <1>2, ReceiptsKeptTold DEF Books

LEMMA SettledBooks ==
  ASSUME Typed, Books, UNCHANGED <<asked, sent>>, flush' = flush \/ flush'.at # "send",
         NEW outcome \in {"done", "failed"}, TurnSettled(outcome) \/ AllSettled
  PROVE  Books'
<1>1. Untold
  BY DEF Untold
<1>2. BatchSound'
  BY BatchGone DEF TurnSettled, AllSettled
<1> QED BY <1>1, <1>2, TurnSettledTold, AllSettledTold DEF Books

LEMMA SpawningBooks ==
  ASSUME Typed, Shape, Books, Typed',
         Sends \/ Spawns \/ SpawnOk \/ SpawnFails
  PROVE  Books'
<1> USE DEF LifeKept, WorkKept, TalkKept
<1>1. CASE Sends
  <2>1. flush.at # "send" /\ ~Turning /\ Taken(h.daemon)
        /\ UNCHANGED <<turn, receipt, asked, sent, ended>>
    BY <1>1 DEF Sends, Shape, TurnSound
  <2> QED BY <2>1, TakenBooks
<1>2. CASE Spawns
  <2>1. ReceiptsKept
    BY <1>2 DEF Spawns, Alike, ReceiptsKept
  <2>2. flush.at # "send" /\ flush'.at # "send" /\ UNCHANGED <<turn, asked, sent>>
    BY <1>2 DEF Spawns
  <2> QED BY <2>1, <2>2, KeptBooks
<1>3. CASE SpawnOk
  <2>1. flush.at = "spawn" /\ UNCHANGED <<turn, receipt, asked, sent, ended>> /\ (SpawnedLate \/ SpawnedUp)
    BY <1>3, SpawnOkStep
  <2>2. CASE SpawnedLate
    <3>1. ReceiptsKept /\ flush'.at # "send"
      BY <2>1, <2>2 DEF SpawnedLate, ReceiptsKept
    <3> QED BY <2>1, <3>1, KeptBooks
  <2>3. CASE SpawnedUp
    <3>1. ~Turning
      BY <2>1, SpawningFacts DEF Turning
    <3> QED BY <2>1, <2>3, <3>1, TakenBooks DEF SpawnedUp
  <2> QED BY <2>1, <2>2, <2>3
<1>4. CASE SpawnFails
  <2>1. /\ flush.at = "spawn" /\ flush'.at = "none" /\ UNCHANGED <<turn, asked, sent, ended>>
        /\ h'.live = h.live /\ h'.closing = h.closing /\ h'.inFlight = h.inFlight
        /\ SpawnGivenUp
    BY <1>4, SpawnFailsStep
  <2>2. CASE h'.queue = h.queue /\ receipt' = receipt
    <3>1. ReceiptsKept
      BY <2>1, <2>2 DEF ReceiptsKept
    <3> QED BY <2>1, <3>1, KeptBooks
  <2>3. CASE h'.queue = <<>> /\ receipt' = Dropped
    <3>1. h.inFlight = {}
      BY <2>1, SpawningFacts, NoBatch DEF Books, Turning
    <3>2. AllSettled
      BY <2>1, <2>3, <3>1 DEF AllSettled, Dropped
    <3> QED BY <2>1, <3>2, SettledBooks
  <2> QED BY <2>1, <2>2, <2>3 DEF SpawnGivenUp
<1> QED BY <1>1, <1>2, <1>3, <1>4

LEMMA EndingsBooks ==
  ASSUME Typed, Shape, Books, Typed',
         (\E p \in Proc : TurnEnds(p) \/ Close(p)) \/ InterruptFails \/ Release
  PROVE  Books'
<1> USE DEF LifeKept, WorkKept, TalkKept
<1>1. ASSUME NEW p \in Proc, TurnEnds(p) PROVE Books'
  <2>1. TurnOverStep(p)
    BY <1>1, TurnEndsStep
  <2>2. h.inFlight \subseteq ToSet(Head(turn[p]))
    BY <2>1 DEF TurnOverStep, Books, BatchSound
  <2>3. TurnSettled("done") /\ flush' = flush /\ UNCHANGED <<asked, sent>>
    BY <2>1, <2>2 DEF TurnOverStep, TurnSettled
  <2> QED BY <2>3, SettledBooks
<1>2. ASSUME NEW p \in Proc, Close(p) PROVE Books'
  <2>1. Closed(p)
    BY <1>2, CloseStep
  <2>2. TurnSettled("failed") /\ flush' = flush /\ UNCHANGED <<asked, sent>>
    BY <2>1 DEF Closed, TurnSettled
  <2> QED BY <2>2, SettledBooks
<1>3. CASE InterruptFails
  <2>1. StopForced
    BY <1>3, InterruptFailsStep
  <2>2. TurnSettled("failed") /\ flush' = flush /\ UNCHANGED <<asked, sent>>
    BY <2>1 DEF StopForced, TurnSettled
  <2> QED BY <2>2, SettledBooks
<1>4. CASE Release
  <2>1. ReleaseBegun
    BY <1>4, ReleaseStep
  <2>2. TurnSettled("failed") /\ flush' = flush /\ UNCHANGED <<asked, sent>>
    BY <2>1 DEF ReleaseBegun, Begun, TurnSettled
  <2> QED BY <2>2, SettledBooks
<1> QED BY <1>1, <1>2, <1>3, <1>4

LEMMA ResetBooks ==
  ASSUME Typed, Books, NEW f \in Flow, ResetBegun(f)
  PROVE  Books'
<1>1. AllSettled /\ flush' = flush /\ UNCHANGED <<asked, sent>>
  BY DEF ResetBegun, Begun, TalkKept, AllSettled
<1> QED BY <1>1, SettledBooks

LEMMA GoneBooks ==
  ASSUME Typed, Books, NEW f \in Flow, Gone(f)
  PROVE  Books'
<1>1. flush' = flush /\ UNCHANGED <<turn, asked, sent, ended>>
  BY DEF Gone, TalkKept
<1>2. CASE flow[f].mine
  <2>1. h' = NoHandle /\ receipt' = Settled(ToSet(h.queue) \cup h.inFlight, "failed")
    BY <1>2 DEF Gone
  <2>2. h'.queue = <<>> /\ h'.inFlight = {}
    BY <2>1 DEF NoHandle
  <2>3. ToSet(h.queue) \cup h.inFlight = h.inFlight \cup ToSet(h.queue)
    OBVIOUS
  <2>4. AllSettled
    BY <1>1, <2>1, <2>2, <2>3 DEF AllSettled
  <2> QED BY <1>1, <2>4, SettledBooks
<1>3. CASE ~flow[f].mine
  <2>1. ReceiptsKept
    BY <1>1, <1>3 DEF Gone, ReceiptsKept
  <2> QED BY <1>1, <2>1, KeptBooks
<1> QED BY <1>2, <1>3

\* The steps that touch no prompt.
LEMMA OtherBooks ==
  ASSUME Typed, Shape, Books, Typed',
         \/ ObsoleteStopped \/ StopTurn \/ Stopped \/ Released
         \/ Sweep \/ SweepSendFails \/ \E f \in Flow : AwaitsFlush(f)
  PROVE  Books'
<1> USE DEF LifeKept, WorkKept, TalkKept, ReceiptsKept
<1>1. CASE ObsoleteStopped
  <2>1. ReceiptsKept /\ flush.at # "send" /\ flush'.at # "send" /\ UNCHANGED <<turn, asked, sent>>
    BY <1>1, ObsoleteStoppedStep
  <2> QED BY <2>1, KeptBooks
<1>2. CASE StopTurn
  <2>1. ReceiptsKept /\ flush' = flush /\ UNCHANGED <<turn, asked, sent>>
    BY <1>2, StopTurnStep DEF StopBegun
  <2> QED BY <2>1, KeptBooks
<1>3. CASE Stopped
  <2>1. ReceiptsKept /\ flush' = flush /\ UNCHANGED <<turn, asked, sent>>
    BY <1>3, StoppedStep DEF StopOver
  <2> QED BY <2>1, KeptBooks
<1>4. CASE Released
  <2>1. ReceiptsKept /\ flush' = flush /\ UNCHANGED <<turn, asked, sent>>
    BY <1>4, ReleasedStep DEF Acknowledged
  <2> QED BY <2>1, KeptBooks
<1>5. CASE Sweep
  <2>1. ReceiptsKept /\ flush' = flush /\ UNCHANGED <<turn, asked, sent>>
    BY <1>5, SweepStep DEF SweepBegun
  <2> QED BY <2>1, KeptBooks
<1>6. CASE SweepSendFails
  <2>1. ReceiptsKept /\ flush' = flush /\ UNCHANGED <<turn, asked, sent>>
    BY <1>6, SweepSendFailsStep DEF SweepBounced
  <2> QED BY <2>1, KeptBooks
<1>7. ASSUME NEW f \in Flow, AwaitsFlush(f) PROVE Books'
  <2>1. ReceiptsKept /\ flush' = flush /\ UNCHANGED <<turn, asked, sent>>
    BY <1>7, AwaitsFlushStep DEF FlushAwaited
  <2> QED BY <2>1, KeptBooks
<1> QED BY <1>1, <1>2, <1>3, <1>4, <1>5, <1>6, <1>7

\* The housekeeping turn carries no prompt with a receipt.
LEMMA SweepSentBooks ==
  ASSUME Typed, Shape, Books, SweepSent
  PROVE  Books'
<1>1. SweepWaits
  BY SweepSentStep
<1>2. ~Turning /\ flush.at # "send"
  BY <1>1 DEF SweepWaits, Shape, TurnSound
<1>3. h.inFlight = {}
  BY <1>2, NoBatch DEF Books
<1>4. /\ flush' = flush /\ UNCHANGED <<receipt, asked, sent, ended>>
      /\ h'.live = h.live /\ h'.closing = h.closing /\ h'.queue = h.queue /\ h'.inFlight = h.inFlight
  BY <1>1 DEF SweepWaits, LifeKept, WorkKept, TalkKept
<1>5. Untold /\ ReceiptsKept
  BY <1>4 DEF Untold, ReceiptsKept
<1>6. BatchSound'
  BY <1>3, <1>4, BatchGone
<1> QED BY <1>5, <1>6, ReceiptsKeptTold DEF Books

LEMMA KindsKeepBooks ==
  ASSUME Typed, Shape, Books, Kinds
  PROVE  Books'
<1> USE KindsKeepShape
<1>1. CASE Mild /\ BooksKept
  <2>1. ReceiptsKept
    BY <1>1 DEF Mild, BooksKept, ReceiptsKept
  <2>2. flush' = flush /\ UNCHANGED <<turn, asked, sent>>
    BY <1>1 DEF Mild, BooksKept
  <2> QED BY <2>1, <2>2, KeptBooks
<1>2. ASSUME NEW m \in Prompt, Mild, Entered(m) PROVE Books'
  <2>1. Told'
    BY <1>2, EnteredTold DEF Books
  <2>2. BatchSound'
    BY <1>2, BatchStays DEF Books, Mild
  <2> QED BY <2>1, <2>2 DEF Books
<1>3. CASE Sends \/ Spawns \/ SpawnOk \/ SpawnFails
  BY <1>3, SpawningBooks
<1>4. CASE SendOk
  BY <1>4, SendOkStep, DeliveredBooks
<1>5. CASE SendFails
  BY <1>5, SendFailsStep, BouncedBooks
<1>6. CASE (\E p \in Proc : TurnEnds(p) \/ Close(p)) \/ InterruptFails \/ Release
  BY <1>6, EndingsBooks
<1>7. ASSUME NEW f \in Flow, Reset(f), ops' \in Nat,
             UNCHANGED <<flush, turn, stray, held, asked, sent, ended, faults>>
      PROVE  Books'
  BY <1>7, ResetStep, ResetBooks
<1>8. ASSUME NEW f \in Flow, Deleted(f) PROVE Books'
  BY <1>8, DeletedStep, GoneBooks
<1>9. CASE SweepSent
  BY <1>9, SweepSentBooks
<1>10. CASE \/ ObsoleteStopped \/ StopTurn \/ Stopped \/ Released
            \/ Sweep \/ SweepSendFails \/ \E f \in Flow : AwaitsFlush(f)
  BY <1>10, OtherBooks
<1> QED BY <1>1, <1>2, <1>3, <1>4, <1>5, <1>6, <1>7, <1>8, <1>9, <1>10 DEF Kinds

LEMMA InitBooks ==
  ASSUME Init
  PROVE  Books
<1>1. /\ h.queue = <<>> /\ h.inFlight = {} /\ flush.at = "none" /\ asked = <<>> /\ sent = <<>>
      /\ \A m \in Message : receipt[m] = "none"
      /\ \A p \in Proc : turn[p] = <<>>
  BY DEF Init, NoHandle, NoFlush
<1>2. BatchSound
  BY <1>1 DEF BatchSound
<1>3. Known /\ ReceiptsAccounted /\ DoneMeansEnded /\ NotRetried
  BY <1>1, NoneIn DEF Known, ReceiptsAccounted, DoneMeansEnded, NotRetried
<1>4. Ordered
  BY <1>1, NoneIn DEF Ordered, InOrder, Follows
<1> QED BY <1>2, <1>3, <1>4 DEF Books, Told

\* The inductive invariant.
Inv == Typed /\ Shape /\ Books

LEMMA InvHolds == Spec => []Inv
<1>1. Init => Inv
  BY InitShape, InitBooks DEF Inv
<1>2. Inv /\ [Next]_vars => Inv'
  <2> SUFFICES ASSUME Inv, [Next]_vars
               PROVE  Inv'
    OBVIOUS
  <2>1. Kinds
    BY NextKinds DEF Inv
  <2> QED BY <2>1, KindsKeepShape, KindsKeepBooks DEF Inv
<1> QED BY <1>1, <1>2, PTL DEF Spec

----------------------------------------------------------------------------
(* The theorems.                                                           *)

\* The handle, the flush, the flows, the processes and the receipts keep to
\* the values the types of claude-daemon-registry.ts allow, in every step.
THEOREM TypeCorrect == Spec => []Typed
<1>1. Inv => Typed
  BY DEF Inv
<1> QED BY <1>1, InvHolds, PTL

\* A topic never has two Claude processes, starting, running or dying, whatever
\* flushes, stops, resets, releases, crashes and stray debounces come together.
THEOREM OneProcess == Spec => []SessionExclusive
<1>1. Inv => SessionExclusive
  <2> SUFFICES ASSUME Shape, NEW p \in Proc, NEW q \in Proc, proc[p] # "none", proc[q] # "none"
               PROVE  p = q
    BY DEF Inv, SessionExclusive
  <2>1. CASE proc[p] = "starting" \/ proc[q] = "starting"
    BY <2>1 DEF Shape, Owned, FlushSound, Alive
  <2>2. CASE proc[p] # "starting" /\ proc[q] # "starting"
    BY <2>2 DEF Shape, Owned
  <2> QED BY <2>1, <2>2
<1> QED BY <1>1, InvHolds, PTL

\* A steer timer armed during a turn has work waiting behind that turn, or the
\* turn's process is going away: it never interrupts a later turn.
THEOREM SteerFits == Spec => []SteerFitsTurn
<1>1. Inv => SteerFitsTurn
  BY DEF Inv, Shape, SteerSound, SteerFitsTurn
<1> QED BY <1>1, InvHolds, PTL

\* A waiting receipt is in the live handle's queue or in its turn, and a receipt
\* resolves only for a prompt whose turn a process reported ended.
THEOREM EveryReceiptSettled == Spec => []ReceiptsSound
<1>1. Inv => ReceiptsSound
  BY DEF Inv, Books, Told, ReceiptsSound
<1> QED BY <1>1, InvHolds, PTL

\* Claude gets the prompts in the order they came, each at most once, and none
\* whose receipt was rejected waits to be sent: through batches, failed writes,
\* requeues, crashes and respawns.
THEOREM SentInOrderOnce == Spec => []SentOnceInOrder
<1>1. Inv => SentOnceInOrder
  BY DEF Inv, Books, Told, Ordered, InOrder, Before, SentOnceInOrder, SentInOrder
<1> QED BY <1>1, InvHolds, PTL

\* Only an acknowledgement gives the terminal the session.
LEMMA HeldByAck ==
  ASSUME [Next]_vars, ~held, held'
  PROVE  Released \/ ReleaseAbsent
<1>1. ~UNCHANGED held
  OBVIOUS
<1>2. CASE UNCHANGED vars
  BY <1>1, <1>2 DEF vars
<1>3. CASE Continue
  BY <1>1, <1>3, Zenon DEF Continue, ObsoleteStopped, Stopped, AwaitsFlush, Deleted, SweepClears
<1>4. CASE Ask
  BY <1>1, <1>4, Zenon DEF Ask, EnqueueRefused, Enqueue, EnqueueExpired
<1>5. CASE Spawned \/ Written \/ Interrupted \/ Prompted
  BY <1>1, <1>5, Zenon DEF Spawned, Written, Interrupted, Prompted, SpawnOk, SpawnFails, SendOk,
     SendFails, InterruptOk, InterruptFails, SweepSent, SweepSendFails
<1>6. CASE \E p \in Proc : TurnEnds(p) \/ Exits(p) \/ Close(p)
  BY <1>1, <1>6, Zenon DEF TurnEnds, Exits, Close
<1>7. CASE Timers
  BY <1>1, <1>7, Zenon DEF Timers, DebounceFires, StrayDebounce, WatchdogFires, SteerFires, RespawnFires,
     RetryFires, ReleaseExpires
<1>8. CASE Operate
  BY <1>1, <1>8, Zenon DEF Operate, StopTurn, ChatResets, Evict, Sweep, Release, Reacquire, TerminalCloses
<1>9. CASE SweepTimesOut
  BY <1>1, <1>9 DEF SweepTimesOut
<1> QED BY <1>2, <1>3, <1>4, <1>5, <1>6, <1>7, <1>8, <1>9 DEF Next, Macrotask

\* `cta open` is told to go ahead only in a state in which no Claude process of
\* the topic is left.
THEOREM AckedWhenQuiet == Spec => AckMeansQuiet
<1>1. Inv /\ [Next]_vars => [~held /\ held' => \A p \in Proc : proc'[p] = "none"]_vars
  <2> SUFFICES ASSUME Inv, [Next]_vars, ~held, held'
               PROVE  \A p \in Proc : proc'[p] = "none"
    OBVIOUS
  <2>1. CASE Released
    <3>1. Typed /\ Shape /\ Kinds
      BY NextKinds DEF Inv
    <3>2. Acknowledged
      BY <2>1, <3>1, ReleasedStep
    <3>3. Quiet /\ proc' = proc
      BY <3>1, <3>2, KindsKeepShape, AcknowledgedKeepsShape DEF Acknowledged
    <3> QED BY <3>3 DEF Quiet
  <2>2. CASE ReleaseAbsent
    <3>1. ~h.live /\ proc' = proc
      BY <2>2 DEF ReleaseAbsent
    <3>2. Typed /\ Shape /\ flush.at = "none" /\ h.daemon = None
      BY <3>1 DEF Inv, Shape, Present
    <3>3. ~Alive(h.daemon)
      BY <3>2 DEF Alive
    <3>4. \A p \in Proc \cup {None} : ~Alive(p)
      BY <3>2, <3>3, ShapeFacts
    <3> QED BY <3>1, <3>4 DEF Alive
  <2> QED BY <2>1, <2>2, HeldByAck
<1> QED BY <1>1, InvHolds, PTL DEF Spec, AckMeansQuiet

----------------------------------------------------------------------------
(* Nobody waits for ever: what moves the topic on.                         *)

Dying == h.daemon \in Proc /\ proc[h.daemon] = "dying"
Releasing == Tearing("keeper") /\ flow["keeper"].mine

\* Receipts in flight have a turn, or a batch on its way.
Manned == h.inFlight # {} => h.state = "inFlight"

\* A process that started too late belongs to a topic that is given away.
Superseded == flush.at = "obsolete" => h.closing \/ h.state = "released"

\* A turn is watched, or about to be, or about to end.
Tended ==
  h.state = "inFlight" /\ ~h.closing =>
    "watchdog" \in h.timers \/ flush.at = "send" \/ flow["sweep"].at = "prompt" \/ Interrupting \/ Dying

\* A queue has something under way that will take it up.
Waited ==
  h.queue # <<>> /\ ~h.closing /\ ~h.stopping =>
    /\ h.state = "idle" => Dying
    /\ h.state = "pending" => "debounce" \in h.timers \/ flush.at = "spawn"
    /\ h.state = "crashed" => h.respawns > 0 \/ h.retries > 0 \/ flush.at = "spawn"
    /\ h.state = "released" => "release" \in h.timers \/ Releasing

Driven == Manned /\ Superseded /\ Tended /\ Waited

LEMMA SteadyDriven ==
  ASSUME Driven,
         h'.state = h.state, h'.closing = h.closing, h'.stopping = h.stopping,
         h'.inFlight \subseteq h.inFlight, h'.queue = h.queue,
         h'.respawns = h.respawns, h'.retries = h.retries,
         \A t \in {"watchdog", "debounce", "release"} : t \in h.timers => t \in h'.timers,
         flush'.at = flush.at,
         Dying => Dying', Interrupting => Interrupting', Releasing => Releasing',
         flow["sweep"].at = "prompt" => flow'["sweep"].at = "prompt"
  PROVE  Driven'
<1>1. Manned' /\ Superseded'
  BY DEF Driven, Manned, Superseded
<1>2. Tended'
  BY DEF Driven, Tended
<1>3. Waited'
  BY DEF Driven, Waited
<1> QED BY <1>1, <1>2, <1>3 DEF Driven

LEMMA RestedDriven ==
  ASSUME NEW hh \in Handle, h' = Rested(hh), hh.inFlight = {}, flush'.at # "obsolete"
  PROVE  Driven'
<1>1. /\ h'.inFlight = {} /\ h'.queue = hh.queue
      /\ \/ h'.queue = <<>> /\ h'.state = "idle"
         \/ h'.state = "pending" /\ "debounce" \in h'.timers
  BY DEF Rested, Handle
<1> QED BY <1>1 DEF Driven, Manned, Superseded, Tended, Waited

\* A released topic is left in peace until the keeper returns to it.
LEMMA ReleasedAtPeace ==
  ASSUME Shape, h.state = "released", flow["keeper"].at = "idle"
  PROVE  flush.at = "none"
BY DEF Shape, ReleasedSound, Tearing, Quiet

LEMMA SteadyStepsDriven ==
  ASSUME Typed, Shape, Driven,
         \/ UNCHANGED vars
         \/ \E p \in Proc : Exits(p)
         \/ ReleaseAbsent \/ TerminalCloses \/ SweepTimesOut \/ SweepGivesWay \/ SteerFires
         \/ \E m \in Prompt : EnqueueRefused(m)
  PROVE  Driven'
<1>1. CASE UNCHANGED vars \/ ReleaseAbsent \/ TerminalCloses \/ \E m \in Prompt : EnqueueRefused(m)
  <2>1. h' = h /\ flush' = flush /\ flow' = flow /\ proc' = proc
    BY <1>1, Zenon DEF vars, ReleaseAbsent, TerminalCloses, EnqueueRefused
  <2>2. Dying' = Dying /\ Interrupting' = Interrupting /\ Releasing' = Releasing
    BY <2>1 DEF Dying, Interrupting, Releasing, Tearing
  <2> QED BY <2>1, <2>2, SteadyDriven
<1>2. ASSUME NEW p \in Proc, Exits(p) PROVE Driven'
  <2>1. h' = h /\ flush' = flush /\ flow' = flow /\ proc' = [proc EXCEPT ![p] = "dying"]
    BY <1>2 DEF Exits
  <2>2. (Dying => Dying') /\ Interrupting' = Interrupting /\ Releasing' = Releasing
    BY <2>1 DEF Dying, Interrupting, Releasing, Tearing, Typed
  <2> QED BY <2>1, <2>2, SteadyDriven
<1>3. CASE SweepTimesOut \/ SweepGivesWay
  <2>1. /\ flow' = [flow EXCEPT !["sweep"] = NoFlow] /\ flow["sweep"].at \in {"waiting", "ended"}
        /\ flush' = flush /\ proc' = proc
    BY <1>3 DEF SweepTimesOut, SweepGivesWay, SweepClears
  <2>2. h' = h \/ h' = [h EXCEPT !.waiter = FALSE]
    BY <1>3 DEF SweepTimesOut, SweepGivesWay, SweepClears
  <2>3. /\ h'.state = h.state /\ h'.closing = h.closing /\ h'.stopping = h.stopping
        /\ h'.inFlight = h.inFlight /\ h'.queue = h.queue /\ h'.timers = h.timers
        /\ h'.respawns = h.respawns /\ h'.retries = h.retries /\ h'.daemon = h.daemon
    BY <2>2 DEF Typed, Handle
  <2>4. flow'["chat"] = flow["chat"] /\ flow'["keeper"] = flow["keeper"]
    BY <2>1 DEF Typed
  <2>5. Dying' = Dying /\ Interrupting' = Interrupting /\ Releasing' = Releasing
    BY <2>1, <2>3, <2>4 DEF Dying, Interrupting, Releasing, Tearing
  <2> QED BY <2>1, <2>3, <2>5, SteadyDriven
<1>4. CASE SteerFires
  <2> DEFINE hh == [h EXCEPT !.timers = @ \ {"steer"}]
             hw == [hh EXCEPT !.timers = @ \cup {"watchdog"}]
             Kept(x) ==
               /\ x \in Handle
               /\ x.state = h.state /\ x.closing = h.closing /\ x.stopping = h.stopping
               /\ x.inFlight = h.inFlight /\ x.queue = h.queue /\ x.daemon = h.daemon
               /\ x.respawns = h.respawns /\ x.retries = h.retries
               /\ \A t \in {"watchdog", "debounce", "release"} : t \in h.timers => t \in x.timers
  <2>1. (h' = hh \/ h' = hw) /\ flush' = flush /\ flow' = flow /\ proc' = proc
    BY <1>4 DEF SteerFires
  <2>2. Kept(hh)
    BY DEF Typed, Handle
  <2> HIDE DEF hh
  <2>3. Kept(hw)
    BY <2>2 DEF Handle
  <2> HIDE DEF hw
  <2>4. Kept(h')
    BY <2>1, <2>2, <2>3
  <2>5. Dying' = Dying /\ Interrupting' = Interrupting /\ Releasing' = Releasing
    BY <2>1, <2>4 DEF Dying, Interrupting, Releasing, Tearing
  <2> QED BY <2>1, <2>4, <2>5, SteadyDriven
<1> QED BY <1>1, <1>2, <1>3, <1>4

LEMMA EnqueueDriven ==
  ASSUME Typed, Shape, Driven, NEW m \in Prompt, Enqueue(m) \/ EnqueueExpired(m)
  PROVE  Driven'
<1> DEFINE q == Queued(m)
<1>1. /\ q \in Handle /\ q.closing = h.closing /\ q.inFlight = h.inFlight /\ q.stopping = h.stopping
      /\ q.state = h.state /\ q.timers = h.timers /\ q.daemon = h.daemon
  BY QueuedHandle DEF Typed
<1> HIDE DEF q
<1>2. CASE EnqueueExpired(m)
  <2> DEFINE qr == [q EXCEPT !.timers = @ \ {"release"}]
  <2>1. h.state = "released" /\ flow["keeper"].at = "idle" /\ h' = Rested(qr) /\ flush' = flush
    BY <1>2 DEF EnqueueExpired, q
  <2>2. qr \in Handle /\ qr.inFlight = h.inFlight
    BY <1>1 DEF Handle
  <2>3. h.inFlight = {}
    BY <2>1 DEF Driven, Manned
  <2>4. flush'.at = "none"
    BY <2>1, ReleasedAtPeace
  <2> HIDE DEF qr
  <2> QED BY <2>1, <2>2, <2>3, <2>4, RestedDriven
<1>3. CASE Enqueue(m)
  <2>1. PICK steers \in AutoSteer :
          h' = CASE h.state = "released" -> [q EXCEPT !.timers = @ \cup {"release"}]
                 [] h.state = "inFlight" -> [q EXCEPT !.timers = IF steers THEN @ \cup {"steer"} ELSE @]
                 [] OTHER -> Rested(q)
    BY <1>3 DEF Enqueue, q
  <2>2. ~h.closing /\ flush' = flush /\ flow' = flow /\ proc' = proc
    BY <1>3 DEF Enqueue
  <2>3. CASE h.state = "released"
    <3>1. h' = [q EXCEPT !.timers = @ \cup {"release"}]
      BY <2>1, <2>3
    <3>2. h'.state = "released" /\ "release" \in h'.timers /\ h'.inFlight = h.inFlight /\ h'.closing = h.closing
      BY <1>1, <2>3, <3>1 DEF Handle
    <3> QED BY <2>2, <2>3, <3>2 DEF Driven, Manned, Superseded, Tended, Waited
  <2>4. CASE h.state = "inFlight"
    <3>1. h' = [q EXCEPT !.timers = IF steers THEN @ \cup {"steer"} ELSE @]
      BY <2>1, <2>4
    <3>2. /\ h'.state = "inFlight" /\ h'.inFlight = h.inFlight /\ h'.closing = h.closing
          /\ "watchdog" \in h.timers => "watchdog" \in h'.timers
          /\ h'.daemon = h.daemon
      BY <1>1, <2>4, <3>1 DEF Handle
    <3>3. Dying' = Dying /\ Interrupting' = Interrupting
      BY <2>2, <3>2 DEF Dying, Interrupting
    <3> QED BY <2>2, <2>4, <3>2, <3>3 DEF Driven, Manned, Superseded, Tended, Waited
  <2>5. CASE h.state \notin {"released", "inFlight"}
    <3>1. h' = Rested(q)
      BY <2>1, <2>5
    <3>2. h.inFlight = {} /\ flush'.at # "obsolete"
      BY <2>2, <2>5 DEF Driven, Manned, Superseded
    <3> QED BY <1>1, <3>1, <3>2, RestedDriven
  <2> QED BY <2>3, <2>4, <2>5
<1> QED BY <1>2, <1>3

LEMMA FlushDriven ==
  ASSUME Typed, Shape, Driven, DebounceFires \/ (StrayDebounce /\ h.live)
  PROVE  Driven'
<1> DEFINE hh == [h EXCEPT !.timers = @ \ {"debounce"}]
<1>1. /\ hh \in Handle
      /\ hh.state = h.state /\ hh.closing = h.closing /\ hh.stopping = h.stopping
      /\ hh.inFlight = h.inFlight /\ hh.queue = h.queue /\ hh.daemon = h.daemon
      /\ hh.respawns = h.respawns /\ hh.retries = h.retries
      /\ \A t \in {"watchdog", "release"} : t \in h.timers => t \in hh.timers
  BY DEF Typed, Handle
<1>2. Flush(hh) /\ flow' = flow
  BY DEF DebounceFires, StrayDebounce
<1> HIDE DEF hh
<1>3. CASE ~Flushable(hh)
  <2>1. h' = hh /\ flush' = flush /\ proc' = proc
    BY <1>2, <1>3 DEF Flush
  <2>2. Dying' = Dying /\ Interrupting' = Interrupting /\ Releasing' = Releasing
    BY <1>1, <1>2, <2>1 DEF Dying, Interrupting, Releasing, Tearing
  <2>3. h.state = "pending" /\ h.queue # <<>> /\ ~h.closing => flush.at = "spawn"
    <3>1. flush.at \in {"none", "spawn", "send", "obsolete"}
      BY DEF Typed, FlushStates
    <3> QED BY <1>1, <1>3, <3>1 DEF Flushable, Shape, TurnSound, Driven, Superseded
  <2> QED BY <1>1, <1>2, <2>1, <2>2, <2>3 DEF Driven, Manned, Superseded, Tended, Waited
<1>4. CASE Flushable(hh) /\ Alive(h.daemon)
  <2>1. h' = BatchTaken(hh) /\ flush' = Sending(h.daemon, hh)
    BY <1>1, <1>2, <1>4 DEF Flush
  <2>2. h'.state = "inFlight" /\ h'.queue = <<>> /\ flush'.at = "send"
    BY <1>1, <2>1, TakenHandle DEF Sending
  <2> QED BY <2>2 DEF Driven, Manned, Superseded, Tended, Waited
<1>5. CASE Flushable(hh) /\ ~Alive(h.daemon)
  <2>1. h' = hh /\ flush'.at = "spawn"
    <3>1. PICK p \in Proc : flush' = [NoFlush EXCEPT !.at = "spawn", !.proc = p] /\ h' = hh
      BY <1>1, <1>2, <1>5 DEF Flush
    <3> QED BY <3>1 DEF NoFlush
  <2>2. h.state \notin {"inFlight", "released"} /\ ~Dying
    BY <1>1, <1>5 DEF Flushable, Dying, Alive
  <2> QED BY <1>1, <2>1, <2>2 DEF Driven, Manned, Superseded, Tended, Waited
<1> QED BY <1>3, <1>4, <1>5

LEMMA StrayDriven ==
  ASSUME Typed, Shape, Driven, StrayDebounce, ~h.live
  PROVE  Driven'
<1>1. h' = h /\ flush' = flush /\ flow' = flow /\ proc' = proc
  BY DEF StrayDebounce
<1>2. Dying' = Dying /\ Interrupting' = Interrupting /\ Releasing' = Releasing
  BY <1>1 DEF Dying, Interrupting, Releasing, Tearing
<1> QED BY <1>1, <1>2, SteadyDriven

LEMMA SpawnOkDriven ==
  ASSUME Typed, Shape, Driven, SpawnOk
  PROVE  Driven'
<1>1. flush.at = "spawn" /\ flow' = flow /\ (SpawnedLate \/ SpawnedUp)
  BY SpawnOkStep
<1>2. CASE SpawnedUp
  <2>1. h'.state = "inFlight" /\ h'.queue = <<>> /\ flush'.at = "send"
    BY <1>2 DEF SpawnedUp, Taken
  <2> QED BY <2>1 DEF Driven, Manned, Superseded, Tended, Waited
<1>3. CASE SpawnedLate
  <2>1. /\ h'.closing = h.closing /\ h'.state = h.state /\ h'.inFlight = h.inFlight /\ h'.queue = h.queue
        /\ h'.stopping = h.stopping
        /\ h.closing \/ h.state = "released"
    BY <1>3 DEF SpawnedLate, LifeKept, StopKept, WorkKept
  <2>2. h'.timers = h.timers
    <3> DEFINE hh == [h EXCEPT !.daemon = flush.proc, !.spawnFailures = 0]
    <3>1. h' = hh
      BY <2>1 DEF SpawnOk
    <3>2. hh.timers = h.timers
      BY DEF Typed, Handle
    <3> QED BY <3>1, <3>2
  <2>3. Releasing' = Releasing
    BY <1>1 DEF Releasing, Tearing
  <2> QED BY <1>1, <2>1, <2>2, <2>3 DEF Driven, Manned, Superseded, Tended, Waited
<1> QED BY <1>1, <1>2, <1>3

LEMMA SpawnFailsDriven ==
  ASSUME Typed, Shape, Driven, SpawnFails
  PROVE  Driven'
<1>1. /\ flush.at = "spawn" /\ flush'.at = "none" /\ flow' = flow
      /\ h'.closing = h.closing /\ h'.stopping = h.stopping /\ h'.inFlight = h.inFlight
      /\ SpawnGivenUp
  BY SpawnFailsStep DEF LifeKept, StopKept
<1>2. h.inFlight = {}
  BY <1>1, SpawningFacts DEF Driven, Manned
<1>3. Releasing' = Releasing
  BY <1>1 DEF Releasing, Tearing
<1>4. CASE h.closing \/ h.state = "released"
  <2>1. h' = [h EXCEPT !.daemon = None]
    BY <1>4 DEF SpawnFails
  <2>2. h'.timers = h.timers /\ h'.state = h.state /\ h'.queue = h.queue
    BY <2>1 DEF Typed, Handle
  <2> QED BY <1>1, <1>2, <1>3, <1>4, <2>2 DEF Driven, Manned, Superseded, Tended, Waited
<1>5. CASE ~h.closing /\ h.state # "released" /\ h.spawnFailures + 1 >= MaxSpawnAttempts
  <2>1. h' = [h EXCEPT !.queue = <<>>, !.state = "idle", !.spawnFailures = MaxSpawnAttempts]
    BY <1>5 DEF SpawnFails
  <2>2. h'.queue = <<>> /\ h'.state = "idle"
    BY <2>1 DEF Typed, Handle
  <2> QED BY <1>1, <1>2, <2>2 DEF Driven, Manned, Superseded, Tended, Waited
<1>6. CASE ~h.closing /\ h.state # "released" /\ ~(h.spawnFailures + 1 >= MaxSpawnAttempts)
  <2>1. h' = [h EXCEPT !.state = "crashed", !.spawnFailures = @ + 1, !.retries = @ + 1]
    BY <1>6 DEF SpawnFails
  <2>2. h'.state = "crashed" /\ h'.retries > 0
    BY <2>1 DEF Typed, Handle
  <2> QED BY <1>1, <1>2, <2>2 DEF Driven, Manned, Superseded, Tended, Waited
<1> QED BY <1>4, <1>5, <1>6

LEMMA SendOkDriven ==
  ASSUME Typed, Shape, Driven, SendOk
  PROVE  Driven'
<1>1. flush.at = "send" /\ flush'.at = "none" /\ flow' = flow /\ h' = [h EXCEPT !.timers = @ \cup {"watchdog"}]
  BY NoFlushType DEF SendOk
<1>2. /\ h'.state = h.state /\ h'.closing = h.closing /\ h'.stopping = h.stopping
      /\ h'.inFlight = h.inFlight /\ h'.queue = h.queue
      /\ "watchdog" \in h'.timers /\ ("release" \in h.timers => "release" \in h'.timers)
  BY <1>1 DEF Typed, Handle
<1>3. h.state \in {"inFlight", "released"}
  BY <1>1 DEF Shape, TurnSound
<1>4. Releasing' = Releasing
  BY <1>1 DEF Releasing, Tearing
<1> QED BY <1>1, <1>2, <1>3, <1>4 DEF Driven, Manned, Superseded, Tended, Waited

LEMMA SendFailsDriven ==
  ASSUME Typed, Shape, Driven, SendFails
  PROVE  Driven'
<1> DEFINE hh == [h EXCEPT !.inFlight = {}]
           q == Requeued(flush.batch, hh.queue)
<1>1. /\ flush.at = "send" /\ flush'.at = "none" /\ flow' = flow
      /\ h' = IF h.closing \/ h.state = "released" THEN hh
              ELSE [hh EXCEPT !.state = "crashed", !.retries = @ + 1, !.queue = q]
  BY NoFlushType DEF SendFails
<1>2. /\ hh.state = h.state /\ hh.closing = h.closing /\ hh.stopping = h.stopping /\ hh.inFlight = {}
      /\ hh.queue = h.queue /\ hh.timers = h.timers /\ hh.retries = h.retries /\ hh \in Handle
  BY DEF Typed, Handle
<1>3. Releasing' = Releasing
  BY <1>1 DEF Releasing, Tearing
<1> HIDE DEF hh, q
<1>4. CASE h.closing \/ h.state = "released"
  BY <1>1, <1>2, <1>3, <1>4 DEF Driven, Manned, Superseded, Tended, Waited
<1>5. CASE ~(h.closing \/ h.state = "released")
  <2>1. h'.state = "crashed" /\ h'.inFlight = {} /\ h'.retries > 0
    BY <1>1, <1>2, <1>5 DEF Handle
  <2> QED BY <1>1, <2>1 DEF Driven, Manned, Superseded, Tended, Waited
<1> QED BY <1>4, <1>5

LEMMA TurnEndsDriven ==
  ASSUME Typed, Shape, Driven, NEW p \in Proc, TurnEnds(p)
  PROVE  Driven'
<1> DEFINE hh == [h EXCEPT !.inFlight = {}, !.timers = @ \ {"watchdog"}]
           hr == [hh EXCEPT !.waiter = FALSE, !.timers = @ \ {"steer"}]
<1>1. /\ hh \in Handle /\ hh.inFlight = {} /\ hh.state = h.state /\ hh.closing = h.closing
      /\ hh.stopping = h.stopping /\ hh.queue = h.queue
      /\ "release" \in h.timers => "release" \in hh.timers
  BY DEF Typed, Handle
<1>2. Turning /\ flush' = flush
  BY DEF TurnEnds, Turning
<1>3. CASE h.state = "released"
  <2>1. h' = hh /\ flow' = flow
    BY <1>3 DEF TurnEnds
  <2>2. Releasing' = Releasing
    BY <2>1 DEF Releasing, Tearing
  <2> HIDE DEF hh
  <2> QED BY <1>1, <1>2, <1>3, <2>1, <2>2 DEF Driven, Manned, Superseded, Tended, Waited
<1>4. CASE h.state # "released"
  <2>1. h' = TurnOver(hh)
    BY <1>4 DEF TurnEnds
  <2>2. h' = Rested(hr)
    BY <2>1 DEF TurnOver
  <2> HIDE DEF hh
  <2>3. hr \in Handle /\ hr.inFlight = {}
    BY <1>1 DEF Handle
  <2>4. flush'.at # "obsolete"
    BY <1>2, <1>4 DEF Shape, TurnSound, FlushSound
  <2> HIDE DEF hr
  <2> QED BY <2>2, <2>3, <2>4, RestedDriven
<1> QED BY <1>3, <1>4

LEMMA CloseDriven ==
  ASSUME Typed, Shape, Driven, NEW p \in Proc, Close(p)
  PROVE  Driven'
<1> DEFINE hh == [h EXCEPT !.inFlight = {}, !.waiter = FALSE, !.timers = @ \ {"watchdog", "steer"}]
<1>1. /\ hh \in Handle /\ hh.inFlight = {} /\ hh.state = h.state /\ hh.closing = h.closing
      /\ hh.stopping = h.stopping /\ hh.queue = h.queue /\ hh.respawns = h.respawns
      /\ "release" \in h.timers => "release" \in hh.timers
  BY DEF Typed, Handle
<1>2. h.daemon = p /\ flush' = flush /\ flow' = flow
  BY CloseStep DEF Closed
<1>3. h' = CASE h.closing -> [hh EXCEPT !.daemon = None]
             [] h.state = "released" /\ ~h.closing -> hh
             [] h.stopping /\ ~h.closing /\ h.state # "released" -> [hh EXCEPT !.daemon = None]
             [] OTHER -> [hh EXCEPT !.daemon = None, !.state = "crashed", !.respawns = @ + 1]
  BY <1>2 DEF Close
<1>4. Releasing' = Releasing /\ Interrupting' = Interrupting
  BY <1>2 DEF Releasing, Tearing, Interrupting
<1> HIDE DEF hh
<1>5. CASE h.closing
  <2>1. h' = [hh EXCEPT !.daemon = None]
    BY <1>3, <1>5
  <2>2. h'.closing /\ h'.inFlight = {}
    BY <1>1, <1>5, <2>1 DEF Handle
  <2> QED BY <2>2 DEF Driven, Manned, Superseded, Tended, Waited
<1>6. CASE ~h.closing /\ h.state = "released"
  <2>1. h' = hh
    BY <1>3, <1>6
  <2> QED BY <1>1, <1>2, <1>4, <1>6, <2>1 DEF Driven, Manned, Superseded, Tended, Waited
<1>7. CASE ~h.closing /\ h.state # "released" /\ h.stopping
  <2>1. h' = [hh EXCEPT !.daemon = None]
    BY <1>3, <1>7
  <2>2. h'.inFlight = {} /\ h'.stopping
    BY <1>1, <1>7, <2>1 DEF Handle
  <2>3. Interrupting
    BY <1>7 DEF Shape, ChatSound, Interrupting
  <2>4. flush'.at # "obsolete"
    BY <1>2, <1>7 DEF Driven, Superseded
  <2> QED BY <1>4, <2>2, <2>3, <2>4 DEF Driven, Manned, Superseded, Tended, Waited
<1>8. CASE ~h.closing /\ h.state # "released" /\ ~h.stopping
  <2>1. h' = [hh EXCEPT !.daemon = None, !.state = "crashed", !.respawns = @ + 1]
    BY <1>3, <1>8
  <2>2. h'.inFlight = {} /\ h'.state = "crashed" /\ h'.respawns > 0
    BY <1>1, <2>1 DEF Handle
  <2>3. flush'.at # "obsolete"
    BY <1>2, <1>8 DEF Driven, Superseded
  <2> QED BY <2>2, <2>3 DEF Driven, Manned, Superseded, Tended, Waited
<1> QED BY <1>5, <1>6, <1>7, <1>8

LEMMA ObsoleteStoppedDriven ==
  ASSUME Typed, Shape, Driven, ObsoleteStopped
  PROVE  Driven'
<1>1. /\ flush.at = "obsolete" /\ flush'.at = "none" /\ flow' = flow
      /\ h'.closing = h.closing /\ h'.state = h.state /\ h'.inFlight = h.inFlight
      /\ h'.stopping = h.stopping /\ h'.queue = h.queue
  BY ObsoleteStoppedStep DEF LifeKept, StopKept, WorkKept
<1>2. h'.timers = h.timers
  <2>1. h' = [h EXCEPT !.daemon = IF @ = flush.proc THEN None ELSE @]
    BY DEF ObsoleteStopped
  <2> QED BY <2>1 DEF Typed, Handle
<1>3. Releasing' = Releasing
  BY <1>1 DEF Releasing, Tearing
<1> QED BY <1>1, <1>2, <1>3 DEF Driven, Manned, Superseded, Tended, Waited

LEMMA WatchdogDriven ==
  ASSUME Typed, Shape, Driven, WatchdogFires
  PROVE  Driven'
<1> DEFINE hh == [h EXCEPT !.timers = @ \ {"watchdog"}]
<1>1. /\ hh.state = h.state /\ hh.closing = h.closing /\ hh.stopping = h.stopping
      /\ hh.inFlight = h.inFlight /\ hh.queue = h.queue /\ hh.daemon = h.daemon
      /\ hh.respawns = h.respawns /\ hh.retries = h.retries
      /\ \A t \in {"debounce", "release"} : t \in h.timers => t \in hh.timers
  BY DEF Typed, Handle
<1>2. /\ h' = hh /\ flush' = flush /\ flow' = flow
      /\ proc' = IF h.state = "inFlight" THEN Signalled(h.daemon) ELSE proc
  BY DEF WatchdogFires
<1> HIDE DEF hh
<1>3. Releasing' = Releasing /\ Interrupting' = Interrupting
  BY <1>2 DEF Releasing, Tearing, Interrupting
<1>4. CASE h.state = "inFlight"
  <2>1. Alive(h.daemon) \/ h.closing \/ Interrupting
    BY <1>4 DEF Shape, InFlightSound, Interrupting
  <2>2. CASE Alive(h.daemon)
    <3>1. h.daemon \in Proc /\ proc' = [proc EXCEPT ![h.daemon] = "dying"]
      BY <1>2, <1>4, <2>2 DEF Signalled, Alive, Typed, Handle
    <3>2. Dying'
      BY <1>1, <1>2, <3>1 DEF Dying, Typed
    <3> QED BY <1>1, <1>2, <1>4, <3>2 DEF Driven, Manned, Superseded, Tended, Waited
  <2>3. CASE h.closing \/ Interrupting
    BY <1>1, <1>2, <1>3, <1>4, <2>3 DEF Driven, Manned, Superseded, Tended, Waited
  <2> QED BY <2>1, <2>2, <2>3
<1>5. CASE h.state # "inFlight"
  <2>1. Dying' = Dying
    BY <1>1, <1>2, <1>5 DEF Dying
  <2> QED BY <1>1, <1>2, <1>3, <1>5, <2>1 DEF Driven, Manned, Superseded, Tended, Waited
<1> QED BY <1>4, <1>5

LEMMA RespawnDriven ==
  ASSUME Typed, Shape, Driven, RespawnFires
  PROVE  Driven'
<1> DEFINE hh == [h EXCEPT !.respawns = @ - 1]
<1>1. /\ hh \in Handle
      /\ hh.state = h.state /\ hh.closing = h.closing /\ hh.stopping = h.stopping
      /\ hh.inFlight = h.inFlight /\ hh.queue = h.queue /\ hh.daemon = h.daemon /\ hh.timers = h.timers
  <2>1. h.respawns - 1 \in Nat
    BY DEF Typed, Handle, RespawnFires
  <2> QED BY <2>1 DEF Typed, Handle
<1>2. /\ h' = IF ~h.closing /\ h.state = "crashed" THEN Rested(hh) ELSE hh
      /\ flush' = flush /\ flow' = flow /\ proc' = proc
  BY DEF RespawnFires
<1> HIDE DEF hh
<1>3. CASE ~h.closing /\ h.state = "crashed"
  <2>1. hh.inFlight = {} /\ flush'.at # "obsolete"
    BY <1>1, <1>2, <1>3 DEF Driven, Manned, Superseded
  <2> QED BY <1>1, <1>2, <1>3, <2>1, RestedDriven
<1>4. CASE ~(~h.closing /\ h.state = "crashed")
  <2>1. h' = hh
    BY <1>2, <1>4
  <2>2. Dying' = Dying /\ Interrupting' = Interrupting /\ Releasing' = Releasing
    BY <1>1, <1>2, <2>1 DEF Dying, Interrupting, Releasing, Tearing
  <2> QED BY <1>1, <1>2, <1>4, <2>1, <2>2 DEF Driven, Manned, Superseded, Tended, Waited
<1> QED BY <1>3, <1>4

LEMMA RetryDriven ==
  ASSUME Typed, Shape, Driven, RetryFires
  PROVE  Driven'
<1> DEFINE hh == [h EXCEPT !.retries = @ - 1]
<1>1. /\ hh \in Handle
      /\ hh.state = h.state /\ hh.closing = h.closing /\ hh.stopping = h.stopping
      /\ hh.inFlight = h.inFlight /\ hh.queue = h.queue /\ hh.daemon = h.daemon /\ hh.timers = h.timers
  <2>1. h.retries - 1 \in Nat
    BY DEF Typed, Handle, RetryFires
  <2> QED BY <2>1 DEF Typed, Handle
<1>2. /\ h' = IF ~h.closing /\ h.state = "crashed" /\ h.queue # <<>> THEN Rested(hh) ELSE hh
      /\ flush' = flush /\ flow' = flow /\ proc' = proc
  BY DEF RetryFires
<1> HIDE DEF hh
<1>3. CASE ~h.closing /\ h.state = "crashed" /\ h.queue # <<>>
  <2>1. hh.inFlight = {} /\ flush'.at # "obsolete"
    BY <1>1, <1>2, <1>3 DEF Driven, Manned, Superseded
  <2> QED BY <1>1, <1>2, <1>3, <2>1, RestedDriven
<1>4. CASE ~(~h.closing /\ h.state = "crashed" /\ h.queue # <<>>)
  <2>1. h' = hh
    BY <1>2, <1>4
  <2>2. Dying' = Dying /\ Interrupting' = Interrupting /\ Releasing' = Releasing
    BY <1>1, <1>2, <2>1 DEF Dying, Interrupting, Releasing, Tearing
  <2> QED BY <1>1, <1>2, <1>4, <2>1, <2>2 DEF Driven, Manned, Superseded, Tended, Waited
<1> QED BY <1>3, <1>4

LEMMA TakenBackDriven ==
  ASSUME Typed, Shape, Driven, ReleaseExpires \/ Reacquire
  PROVE  Driven'
<1> DEFINE hh == [h EXCEPT !.timers = @ \ {"release"}]
<1>1. /\ hh \in Handle
      /\ hh.state = h.state /\ hh.closing = h.closing /\ hh.stopping = h.stopping
      /\ hh.inFlight = h.inFlight /\ hh.queue = h.queue /\ hh.daemon = h.daemon
      /\ hh.respawns = h.respawns /\ hh.retries = h.retries
      /\ \A t \in {"watchdog", "debounce"} : t \in h.timers => t \in hh.timers
  BY DEF Typed, Handle
<1>2. flush' = flush /\ flow' = flow /\ proc' = proc /\ flow["keeper"].at = "idle"
  BY DEF ReleaseExpires, Reacquire
<1>3. \/ h.state = "released" /\ h' = Rested(hh)
      \/ (h.state # "released" \/ h.closing \/ h.queue = <<>>) /\ h' = hh
  BY DEF ReleaseExpires, Reacquire
<1> HIDE DEF hh
<1>4. CASE h.state = "released" /\ h' = Rested(hh)
  <2>1. hh.inFlight = {} /\ flush'.at # "obsolete"
    BY <1>1, <1>2, <1>4, ReleasedAtPeace DEF Driven, Manned
  <2> QED BY <1>1, <1>4, <2>1, RestedDriven
<1>5. CASE (h.state # "released" \/ h.closing \/ h.queue = <<>>) /\ h' = hh
  <2>1. Dying' = Dying /\ Interrupting' = Interrupting /\ Releasing' = Releasing
    BY <1>1, <1>2, <1>5 DEF Dying, Interrupting, Releasing, Tearing
  <2> QED BY <1>1, <1>2, <1>5, <2>1 DEF Driven, Manned, Superseded, Tended, Waited
<1> QED BY <1>3, <1>4, <1>5

\* While a stop waits for its process, nothing of the topic is in flight.
LEMMA StoppingEmpty ==
  ASSUME Typed, Shape, Books, flow["chat"].at = "stopping", Over("chat"), flow["chat"].mine
  PROVE  h.inFlight = {} /\ flush.at # "obsolete"
<1>1. ~Alive(h.daemon)
  BY DEF Shape, ChatSound, Over
<1>2. ~Turning /\ flush.at # "send"
  BY <1>1, ShapeFacts DEF Shape, FlushSound
<1>3. flush.at # "obsolete"
  BY DEF Shape, FlushSound, Interrupting
<1> QED BY <1>2, <1>3, NoBatch DEF Books

LEMMA StopTurnDriven ==
  ASSUME Typed, Shape, Driven, StopTurn
  PROVE  Driven'
<1>1. /\ h.state = "inFlight" /\ h'.state = h.state /\ h'.closing = h.closing /\ h'.inFlight = h.inFlight
      /\ flush' = flush /\ flow'["chat"].at = "interrupt"
  BY StopTurnStep DEF StopBegun, LifeKept, WorkKept
<1>2. Interrupting'
  BY <1>1 DEF Interrupting
<1> QED BY <1>1, <1>2 DEF Driven, Manned, Superseded, Tended, Waited

LEMMA InterruptOkDriven ==
  ASSUME Typed, Shape, Driven, InterruptOk
  PROVE  Driven'
<1> DEFINE hh == [h EXCEPT !.timers = @ \cup {"watchdog"}]
<1>1. /\ hh.state = h.state /\ hh.closing = h.closing /\ hh.stopping = h.stopping
      /\ hh.inFlight = h.inFlight /\ hh.queue = h.queue
      /\ "watchdog" \in hh.timers
  BY DEF Typed, Handle
<1>2. /\ h' = IF h.live /\ h.state = "inFlight" THEN hh ELSE h
      /\ flush' = flush /\ proc' = proc /\ flow' = [flow EXCEPT !["chat"] = NoFlow]
  BY DEF InterruptOk
<1> HIDE DEF hh
<1>3. Releasing' = Releasing
  BY <1>2 DEF Releasing, Tearing, Typed
<1>4. CASE h.live /\ h.state = "inFlight"
  BY <1>1, <1>2, <1>4 DEF Driven, Manned, Superseded, Tended, Waited
<1>5. CASE ~(h.live /\ h.state = "inFlight")
  <2>1. h' = h
    BY <1>2, <1>5
  <2>2. h.state # "inFlight"
    BY <1>5 DEF Shape, Present, Bare
  <2>3. Dying' = Dying
    BY <1>2, <2>1 DEF Dying
  <2> QED BY <1>2, <1>3, <2>1, <2>2, <2>3 DEF Driven, Manned, Superseded, Tended, Waited
<1> QED BY <1>4, <1>5

LEMMA InterruptFailsDriven ==
  ASSUME Typed, Shape, Driven, InterruptFails
  PROVE  Driven'
<1>1. /\ h'.state = h.state /\ h'.closing = h.closing /\ h'.inFlight = {} /\ h'.stopping
      /\ flush' = flush /\ flow'["chat"].at = "stopping"
  BY InterruptFailsStep DEF StopForced, LifeKept
<1>2. Interrupting'
  BY <1>1 DEF Interrupting
<1> QED BY <1>1, <1>2 DEF Driven, Manned, Superseded, Tended, Waited

LEMMA StoppedDriven ==
  ASSUME Typed, Shape, Books, Driven, Stopped
  PROVE  Driven'
<1>1. /\ flow["chat"].at = "stopping" /\ Over("chat") /\ flush' = flush /\ proc' = proc
      /\ flow' = [flow EXCEPT !["chat"] = NoFlow]
  BY DEF Stopped
<1>2. CASE flow["chat"].mine
  <2> DEFINE hh == [h EXCEPT !.daemon = None, !.stopping = FALSE]
  <2>1. hh \in Handle /\ hh.inFlight = h.inFlight
    BY DEF Typed, Handle
  <2>2. h' = Rested(hh)
    BY <1>2 DEF Stopped
  <2> HIDE DEF hh
  <2> QED BY <1>1, <1>2, <2>1, <2>2, StoppingEmpty, RestedDriven
<1>3. CASE ~flow["chat"].mine
  <2>1. h' = h
    BY <1>3 DEF Stopped
  <2>2. h.state # "inFlight"
    BY <1>1, <1>3 DEF Shape, ChatSound
  <2>3. Releasing' = Releasing /\ Dying' = Dying
    BY <1>1, <2>1 DEF Releasing, Tearing, Dying, Typed
  <2> QED BY <1>1, <2>1, <2>2, <2>3 DEF Driven, Manned, Superseded, Tended, Waited
<1> QED BY <1>2, <1>3

LEMMA TearDownDriven ==
  ASSUME Typed, Shape, Driven, Release \/ \E f \in Flow : ResetBegun(f)
  PROVE  Driven'
<1>1. CASE Release
  <2>1. /\ h'.state = "released" /\ h'.inFlight = {} /\ flow'["keeper"].at = "stop" /\ flow'["keeper"].mine
    BY <1>1, ReleaseStep DEF ReleaseBegun, Begun
  <2>2. Releasing'
    BY <2>1 DEF Releasing, Tearing
  <2> QED BY <2>1, <2>2 DEF Driven, Manned, Superseded, Tended, Waited
<1>2. ASSUME NEW f \in Flow, ResetBegun(f) PROVE Driven'
  <2>1. h'.closing /\ h'.inFlight = {}
    BY <1>2 DEF ResetBegun, Begun
  <2> QED BY <2>1 DEF Driven, Manned, Superseded, Tended, Waited
<1> QED BY <1>1, <1>2

LEMMA AwaitsFlushDriven ==
  ASSUME Typed, Shape, Driven, NEW f \in Flow, AwaitsFlush(f)
  PROVE  Driven'
<1>1. /\ flow[f].at = "stop" /\ flush' = flush /\ proc' = proc
      /\ FlowOthers(f) /\ flow'[f].at = "flush" /\ flow'[f].mine = flow[f].mine
      /\ h'.state = h.state /\ h'.closing = h.closing /\ h'.stopping = h.stopping
      /\ h'.queue = h.queue /\ h'.inFlight = h.inFlight
      /\ h'.daemon = IF flow[f].op = "release" /\ flow[f].mine THEN None ELSE h.daemon
      /\ Over(f)
  BY AwaitsFlushStep DEF FlushAwaited, LifeKept, StopKept, WorkKept
<1>2. h'.timers = h.timers /\ h'.respawns = h.respawns /\ h'.retries = h.retries
  <2>1. h' = h \/ h' = [h EXCEPT !.daemon = None]
    BY DEF AwaitsFlush
  <2> QED BY <2>1 DEF Typed, Handle
<1>3. Dying => Dying'
  <2>1. CASE flow[f].op = "release" /\ flow[f].mine
    <3>1. Torn(f)
      BY <1>1, <2>1 DEF Shape, TearSound, Tearing
    <3>2. ~Alive(h.daemon)
      BY <1>1, <3>1 DEF Torn, Over
    <3> QED BY <3>2 DEF Dying, Alive
  <2>2. CASE ~(flow[f].op = "release" /\ flow[f].mine)
    BY <1>1, <2>2 DEF Dying
  <2> QED BY <2>1, <2>2
<1>4. Interrupting => Interrupting'
  BY <1>1 DEF Interrupting, FlowOthers
<1>5. Releasing => Releasing'
  BY <1>1 DEF Releasing, Tearing, FlowOthers
<1>6. flow["sweep"].at = "prompt" => flow'["sweep"].at = "prompt"
  BY <1>1 DEF FlowOthers
<1> QED BY <1>1, <1>2, <1>3, <1>4, <1>5, <1>6, SteadyDriven

LEMMA ReleasedDriven ==
  ASSUME Typed, Shape, Books, Driven, Released
  PROVE  Driven'
<1>1. Acknowledged
  BY ReleasedStep
<1>2. Quiet /\ Tearing("keeper")
  BY <1>1, TornDownQuiet DEF Acknowledged
<1>3. h.inFlight = {}
  <2>1. ~Turning
    BY <1>2, ShapeFacts DEF Quiet, Alive
  <2> QED BY <1>2, <2>1, NoBatch DEF Books, Quiet
<1>4. flush'.at = "none"
  BY <1>1, <1>2 DEF Acknowledged, Quiet
<1>5. CASE flow["keeper"].mine
  <2>1. h' = [h EXCEPT !.daemon = None, !.state = "released",
                       !.timers = IF h.queue = <<>> THEN @ ELSE @ \cup {"release"}]
    BY <1>5 DEF Released
  <2>2. /\ h'.state = "released" /\ h'.inFlight = {} /\ h'.queue = h.queue
        /\ h.queue # <<>> => "release" \in h'.timers
    BY <1>3, <2>1 DEF Typed, Handle
  <2> QED BY <1>4, <2>2 DEF Driven, Manned, Superseded, Tended, Waited
<1>6. CASE ~flow["keeper"].mine
  <2>1. h' = h /\ flush' = flush /\ proc' = proc /\ FlowOthers("keeper")
    BY <1>1, <1>6 DEF Acknowledged
  <2>2. ~Releasing
    BY <1>6 DEF Releasing
  <2>3. Dying' = Dying /\ Interrupting' = Interrupting
        /\ flow'["sweep"] = flow["sweep"]
    BY <2>1 DEF Dying, Interrupting, FlowOthers
  <2> QED BY <2>1, <2>2, <2>3 DEF Driven, Manned, Superseded, Tended, Waited
<1> QED BY <1>5, <1>6

LEMMA DeletedDriven ==
  ASSUME Typed, Shape, Driven, NEW f \in Flow, Deleted(f)
  PROVE  Driven'
<1>1. Gone(f)
  BY DeletedStep
<1>2. Tearing(f) /\ Quiet
  BY <1>1, TornDownQuiet DEF Gone
<1>3. flush' = flush /\ proc' = proc /\ flush'.at = "none"
  BY <1>1, <1>2 DEF Gone, Quiet
<1>4. CASE flow[f].mine
  <2>1. h'.queue = <<>> /\ h'.state = "idle" /\ h'.inFlight = {}
    BY <1>1, <1>4 DEF Gone, NoHandle
  <2> QED BY <1>3, <2>1 DEF Driven, Manned, Superseded, Tended, Waited
<1>5. CASE ~flow[f].mine
  <2>1. h' = h /\ \A g \in Flow \ {f} : flow'[g] = flow[g]
    BY <1>1, <1>5 DEF Gone
  <2>2. Dying' = Dying
    BY <1>3, <2>1 DEF Dying
  <2>3. Interrupting => Interrupting'
    BY <1>2, <2>1 DEF Interrupting, Tearing
  <2>4. Releasing => Releasing'
    BY <1>5, <2>1 DEF Releasing, Tearing
  <2>5. flow["sweep"].at = "prompt" => flow'["sweep"].at = "prompt"
    BY <1>2, <2>1 DEF Tearing
  <2> QED BY <1>3, <2>1, <2>2, <2>3, <2>4, <2>5, SteadyDriven
<1> QED BY <1>4, <1>5

LEMMA SweepDriven ==
  ASSUME Typed, Shape, Books, Driven, Sweep \/ SweepSent \/ SweepSendFails
  PROVE  Driven'
<1>1. CASE Sweep
  <2>1. /\ h'.queue = <<>> /\ h'.state = "inFlight" /\ flush' = flush
        /\ flow'["sweep"].at = "prompt" /\ h.state = "idle" /\ h'.closing = h.closing
    BY <1>1, SweepStep DEF SweepBegun, IsIdleEmpty, WorkKept, LifeKept
  <2> QED BY <2>1 DEF Driven, Manned, Superseded, Tended, Waited
<1>2. CASE SweepSent
  <2>1. /\ flow["sweep"].at = "prompt" /\ flush' = flush
        /\ h'.state = h.state /\ h'.closing = h.closing /\ h'.stopping = h.stopping
        /\ h'.queue = h.queue /\ h'.inFlight = h.inFlight /\ FlowOthers("sweep")
    BY <1>2, SweepSentStep DEF SweepWaits, LifeKept, StopKept, WorkKept
  <2>2. h.state \in {"inFlight", "released"}
    BY <2>1 DEF Shape, TurnSound
  <2>3. "watchdog" \in h'.timers /\ ("release" \in h.timers => "release" \in h'.timers)
    <3>1. h' = [h EXCEPT !.timers = @ \cup {"watchdog"}]
      BY <1>2 DEF SweepSent
    <3> QED BY <3>1 DEF Typed, Handle
  <2>4. Releasing' = Releasing
    BY <2>1 DEF Releasing, Tearing, FlowOthers
  <2> QED BY <2>1, <2>2, <2>3, <2>4 DEF Driven, Manned, Superseded, Tended, Waited
<1>3. CASE SweepSendFails
  <2>1. /\ flow["sweep"].at = "prompt" /\ proc[flow["sweep"].proc] = "dying"
        /\ flush' = flush /\ proc' = proc
        /\ h'.queue = h.queue /\ h'.inFlight = h.inFlight /\ h'.state = "idle" /\ h'.daemon = h.daemon
    BY <1>3, SweepSendFailsStep DEF SweepBounced, WorkKept
  <2>2. Dying'
    BY <2>1, ShapeFacts DEF Dying, Shape, SweepSound
  <2>3. h.inFlight = {} /\ flush.at # "obsolete"
    BY <2>1, NoBatch DEF Shape, TurnSound, FlushSound, Books
  <2> QED BY <2>1, <2>2, <2>3 DEF Driven, Manned, Superseded, Tended, Waited
<1> QED BY <1>1, <1>2, <1>3

LEMMA NextDriven ==
  ASSUME Inv, Driven, [Next]_vars
  PROVE  Driven'
<1> USE DEF Inv
<1>1. CASE UNCHANGED vars
  BY <1>1, SteadyStepsDriven
<1>2. CASE Continue
  <2>1. CASE SweepClears
    <3>1. CASE IsIdleEmpty
      <4>1. /\ Reset("sweep") /\ ops' \in Nat
            /\ UNCHANGED <<flush, turn, stray, held, asked, sent, ended, faults>>
        BY <2>1, <3>1 DEF SweepClears, Typed
      <4> QED BY <4>1, ResetStep, TearDownDriven
    <3>2. CASE ~IsIdleEmpty
      BY <2>1, <3>2, SteadyStepsDriven DEF SweepGivesWay
    <3> QED BY <3>1, <3>2
  <2> QED BY <1>2, <2>1, ObsoleteStoppedDriven, StoppedDriven, AwaitsFlushDriven, DeletedDriven,
             ReleasedDriven DEF Continue
<1>3. CASE ~Ready /\ Macrotask
  <2>1. CASE Ask
    BY <2>1, SteadyStepsDriven, EnqueueDriven DEF Ask
  <2>2. CASE Spawned \/ Written \/ Interrupted \/ Prompted
    BY <2>2, SpawnOkDriven, SpawnFailsDriven, SendOkDriven, SendFailsDriven, InterruptOkDriven,
       InterruptFailsDriven, SweepDriven DEF Spawned, Written, Interrupted, Prompted
  <2>3. CASE \E p \in Proc : TurnEnds(p) \/ Exits(p) \/ Close(p)
    BY <2>3, TurnEndsDriven, CloseDriven, SteadyStepsDriven
  <2>4. CASE Timers
    BY <2>4, FlushDriven, StrayDriven, WatchdogDriven, SteadyStepsDriven, RespawnDriven, RetryDriven,
       TakenBackDriven DEF Timers
  <2>5. CASE Operate
    <3>1. CASE ChatResets
      <4>1. /\ Reset("chat") /\ ops' \in Nat
            /\ UNCHANGED <<flush, turn, stray, held, asked, sent, ended, faults>>
        BY <3>1 DEF ChatResets, Spend, Typed
      <4> QED BY <4>1, ResetStep, TearDownDriven
    <3>2. CASE Evict
      <4>1. /\ Reset("keeper") /\ ops' \in Nat
            /\ UNCHANGED <<flush, turn, stray, held, asked, sent, ended, faults>>
        BY <3>2 DEF Evict, Spend, Typed
      <4> QED BY <4>1, ResetStep, TearDownDriven
    <3> QED BY <2>5, <3>1, <3>2, StopTurnDriven, SweepDriven, TearDownDriven, SteadyStepsDriven,
               TakenBackDriven DEF Operate
  <2>6. CASE SweepTimesOut
    BY <2>6, SteadyStepsDriven
  <2> QED BY <1>3, <2>1, <2>2, <2>3, <2>4, <2>5, <2>6 DEF Macrotask
<1> QED BY <1>1, <1>2, <1>3 DEF Next

LEMMA DrivenHolds == Spec => []Driven
<1>1. Init => Driven
  BY DEF Init, NoHandle, NoFlush, Driven, Manned, Superseded, Tended, Waited
<1>2. Inv /\ Driven /\ [Next]_vars => Driven'
  BY NextDriven
<1> QED BY <1>1, <1>2, InvHolds, PTL DEF Spec

\* When nothing moves the topic by itself, no timer, flush, flow or ending
\* process, then no receipt waits: however a turn ended, hung, crashed, was
\* stopped or released, its receipt is settled without another message.
THEOREM NobodyWaits == Spec => []NothingWaitsAtRest
<1>1. Inv /\ Driven => NothingWaitsAtRest
  <2> SUFFICES ASSUME Inv, Driven, AtRest, NEW m \in Message, receipt[m] = "waiting"
               PROVE  FALSE
    BY DEF NothingWaitsAtRest
  <2>1. h.live /\ (m \in ToSet(h.queue) \/ m \in h.inFlight)
    BY DEF Inv, Books, Told, ReceiptsAccounted
  <2>2. /\ h.timers = {} /\ h.respawns = 0 /\ h.retries = 0 /\ flush.at = "none"
        /\ \A f \in Flow : flow[f].at = "idle"
        /\ \A p \in Proc : proc[p] \in {"none", "up"}
    BY DEF AtRest
  <2>3. ~h.closing /\ ~h.stopping /\ ~Interrupting /\ ~Releasing /\ ~Dying
    BY <2>2 DEF Inv, Shape, ClosingSound, ChatSound, Tearing, Interrupting, Releasing, Dying
  <2>4. h.state # "inFlight"
    BY <2>2, <2>3 DEF Driven, Tended
  <2>5. h.queue # <<>>
    BY <2>1, <2>4, NoneIn DEF Driven, Manned
  <2> QED BY <2>2, <2>3, <2>4, <2>5 DEF Driven, Waited, Inv, Typed, Handle
<1> QED BY <1>1, InvHolds, DrivenHolds, PTL
=============================================================================
