--------------------------- MODULE TaskScheduler ----------------------------
(***************************************************************************)
(* The scheduled tasks of the poller: the tick that hands a task to the    *)
(* agentic executor when it is due (taskDispatch, shouldFireTask), the     *)
(* record of what fired on which day (heartbeat-state.ts), the alert about *)
(* a missed day (detectMissedTaskFire), the run-now flags                  *)
(* (processTaskRunFlags) and the task store that the CLI edits.            *)
(*                                                                         *)
(* Time is a day and a slot of the day, in the one configured time zone.   *)
(* The poller ticks often enough to meet every slot, except those the host *)
(* sleeps through.  A tick takes no time.                                  *)
(***************************************************************************)
EXTENDS Naturals, SequencesExt

CONSTANTS
  Tasks,      \* the tasks in the order of tasks.json
  Time,       \* Time[t]: the slot t is to fire at
  Days,       \* Days[t]: its day spec, a set of days ("fixed") or a distance ("every")
  TopicOf,    \* TopicOf[t]: the topic it fires into
  Checklist,  \* tasks whose prompt is a file, which may be unreadable
  Slots,      \* slots of a day
  MaxDay,     \* bound: days
  QuietStart, \* the quiet window: start inclusive, end exclusive, it may wrap
  QuietEnd,   \*   over midnight; none when both are equal
  MaxNaps,    \* bound: slots the host sleeps through
  MaxTurns,   \* bound: times a due task finds the user in a turn
  MaxEdits,   \* bound: edits of tasks.json and run-now flags
  MaxFaults   \* bound: failed writes, unreadable checklists and restarts

Task == ToSet(Tasks)
Topic == {TopicOf[t] : t \in Task}
Day == 1..MaxDay
Slot == 0..(Slots - 1)

ASSUME SchedulerConstants ==
  /\ Slots \in Nat \ {0} /\ MaxDay \in Nat \ {0}
  /\ \A t \in Task : Time[t] \in Slot /\ Days[t].kind \in {"fixed", "every"}
  /\ QuietStart \in 0..Slots /\ QuietEnd \in 0..Slots
  /\ \A n \in {MaxNaps, MaxTurns, MaxEdits, MaxFaults} : n \in Nat

VARIABLES
  day, slot,   \* the time
  met,         \* whether a tick not cut short has met the present slot
  \* files
  file,        \* file[t]: "on", "off" or "gone" in tasks.json
  touched,     \* whether the file's mtime differs from the one last seen
  disk,        \* disk[t]: the days in t's persisted fired keys
  flags,       \* run-now flags
  \* memory of the poller
  cache,       \* tasksCache: the file as last read
  fired,       \* heartbeatState: fired[t] as disk[t]
  inFlight,    \* topics with a run: agenticInFlight
  todo,        \* tasks the tick under way has still to look at
  handing,     \* the task marked fired and about to be launched, or <<>>
  sweeping,    \* flags the tick under way has still to look at
  \* history
  launched,    \* launched[t]: the days a scheduled run of t started
  told,        \* told[t]: the days whose run the chat was told is not coming
  again,       \* tasks launched or told about twice for one day
  forgot,      \* tasks with a fired key that a restart lost
  cut,         \* cut[t]: days a death fell between the mark and the launch
  steady,      \* steady[t]: the day since which t has been on
  deferred,    \* tasks the quiet window held back
  dropped,     \* those that, after it, were not due any more
  naps, turns, edits, faults   \* what is left of each bound

clock == <<day, slot, met>>
store == <<file, touched, flags>>
memory == <<cache, fired, inFlight, todo, handing, sweeping>>
history == <<launched, told, again, forgot, cut, steady, deferred, dropped>>
bounds == <<naps, turns, edits, faults>>
vars == <<clock, store, disk, memory, history, bounds>>

----------------------------------------------------------------------------
(* quiet-hours.ts and scheduler.ts                                         *)

\* isInQuietHours
Quiet(s) ==
  \/ QuietStart < QuietEnd /\ s >= QuietStart /\ s < QuietEnd
  \/ QuietStart > QuietEnd /\ (s >= QuietStart \/ s < QuietEnd)

TimeReached(t) == slot >= Time[t]

\* lastFiredBefore
Earlier(t) == {d \in fired[t] : d < day}

\* Faulty variant: the distance is one day short.
ScheduledEarly(t, d) ==
  IF Days[t].kind = "fixed" THEN d \in Days[t].on
  ELSE \A e \in Earlier(t) : d - e + 1 >= Days[t].n

\* taskScheduledOn: a fixed day, or n days after the last run, and so after any.
Scheduled(t, d) ==
  IF Days[t].kind = "fixed" THEN d \in Days[t].on
  ELSE \A e \in Earlier(t) : d - e >= Days[t].n

\* shouldFireTask, up to the checks of the topic: why t is passed over, or "due".
Reason(t) ==
  IF day \in fired[t] THEN "already-fired"
  ELSE IF ~Scheduled(t, day) THEN "day-mismatch"
  ELSE IF ~TimeReached(t) THEN "not-yet"
  ELSE IF Quiet(slot) THEN "quiet-hours"
  ELSE "due"

\* Yesterday was a day of t and has no fired key.
NotFiredYesterday(t) ==
  /\ Days[t].kind = "fixed"
  /\ day > 1
  /\ day - 1 \in Days[t].on
  /\ day - 1 \notin fired[t]

\* Faulty variant: the older key must be older by a day than it need be.
MissedOffByOne(t) == NotFiredYesterday(t) /\ \E d \in fired[t] : d < day - 2

\* detectMissedTaskFire: yesterday was missed by a task that had fired before.
Missed(t) == NotFiredYesterday(t) /\ \E d \in fired[t] : d < day - 1

----------------------------------------------------------------------------
SchedInit ==
  /\ day = 1 /\ slot = 0 /\ met = FALSE
  /\ file = [t \in Task |-> "on"]
  /\ touched = FALSE
  /\ disk = [t \in Task |-> {}]
  /\ flags = {}
  /\ cache = file
  /\ fired = disk
  /\ inFlight = {}
  /\ todo = {}
  /\ handing = <<>>
  /\ sweeping = {}
  /\ launched = [t \in Task |-> {}]
  /\ told = [t \in Task |-> {}]
  /\ again = {}
  /\ forgot = {}
  /\ cut = [t \in Task |-> {}]
  /\ steady = [t \in Task |-> 1]
  /\ deferred = {}
  /\ dropped = {}
  /\ naps = MaxNaps /\ turns = MaxTurns /\ edits = MaxEdits /\ faults = MaxFaults

Resting == todo = {} /\ handing = <<>> /\ sweeping = {}

\* The clock moves on once a tick has met the slot, or the host sleeps through it.
Advance ==
  /\ Resting
  /\ ~(day = MaxDay /\ slot = Slots - 1)
  /\ IF met THEN UNCHANGED naps ELSE naps > 0 /\ naps' = naps - 1
  /\ met' = FALSE
  /\ IF slot = Slots - 1 THEN slot' = 0 /\ day' = day + 1 ELSE slot' = slot + 1 /\ UNCHANGED day
  /\ UNCHANGED <<store, disk, memory, history, turns, edits, faults>>

----------------------------------------------------------------------------
(* The tick: refreshTasksIfChanged, taskDispatch, processTaskRunFlags      *)

Enabled(c) == {t \in Task : c[t] = "on"}

\* The tick takes the tasks in the order of the file.
First(t) ==
  /\ t \in todo
  /\ \A i, j \in DOMAIN Tasks : i < j /\ Tasks[j] = t => Tasks[i] \notin todo

\* A changed file is read again; disabled tasks are passed over at once.
TickBegins ==
  /\ Resting
  /\ met' = TRUE
  /\ touched' = FALSE
  /\ cache' = IF touched THEN file ELSE cache
  /\ todo' = Enabled(cache')
  /\ sweeping' = flags
  /\ UNCHANGED <<day, slot, file, disk, flags, fired, inFlight, handing, history, bounds>>

\* A fired key is added; it reaches the disk, with all the others, or it does not.
Mark(t, d) ==
  /\ fired' = [fired EXCEPT ![t] = @ \cup {d}]
  /\ \/ disk' = fired' /\ UNCHANGED faults
     \/ faults > 0 /\ faults' = faults - 1 /\ UNCHANGED disk

Emit(t, d) == again' = IF d \in launched[t] \cup told[t] THEN again \cup {t} ELSE again

\* A missed day is marked, and told about.
AlertMissed(t) ==
  /\ First(t) /\ handing = <<>>
  /\ Missed(t)
  /\ Mark(t, day - 1)
  /\ told' = [told EXCEPT ![t] = @ \cup {day - 1}]
  /\ Emit(t, day - 1)
  /\ UNCHANGED <<clock, store, cache, inFlight, todo, handing, sweeping, launched, forgot, cut,
                 steady, deferred, dropped, naps, turns, edits>>

\* Faulty variant: a topic with a run in flight is not looked at.
BusyIgnored(t) == FALSE

\* The topic already has a run in flight.
Busy(t) == TopicOf[t] \in inFlight

AtHead(t) == First(t) /\ handing = <<>> /\ ~Missed(t)

\* The task is not due, or its topic is busy: it is left to a later tick.
PassOver(t) ==
  /\ AtHead(t)
  /\ \/ Reason(t) # "due" /\ UNCHANGED turns
     \/ Reason(t) = "due" /\ Busy(t) /\ UNCHANGED turns
     \/ Reason(t) = "due" /\ ~Busy(t) /\ turns > 0 /\ turns' = turns - 1   \* isMidTurn
  /\ todo' = todo \ {t}
  /\ deferred' = IF Reason(t) = "quiet-hours" THEN deferred \cup {t}
                 ELSE IF Reason(t) \in {"not-yet", "day-mismatch"} /\ ~Quiet(slot)
                 THEN deferred \ {t} ELSE deferred
  /\ dropped' = IF t \in deferred /\ Reason(t) \in {"not-yet", "day-mismatch"} /\ ~Quiet(slot)
                THEN dropped \cup {t} ELSE dropped
  /\ UNCHANGED <<clock, store, disk, cache, fired, inFlight, handing, sweeping, launched, told,
                 again, forgot, cut, steady, naps, edits, faults>>

\* A due task is marked before it is launched.
MarkDue(t) ==
  /\ AtHead(t)
  /\ Reason(t) = "due" /\ ~Busy(t)
  /\ Mark(t, day)
  /\ todo' = todo \ {t}
  /\ handing' = <<t>>
  /\ deferred' = deferred \ {t}
  /\ UNCHANGED <<clock, store, cache, inFlight, sweeping, launched, told, again, forgot, cut, steady,
                 dropped, naps, turns, edits>>

\* Its checklist cannot be read: it is marked all the same, on disk or (a failed
\* write is ignored) in memory only, and the chat told.
SkipUnreadable(t) ==
  /\ AtHead(t)
  /\ Reason(t) = "due" /\ ~Busy(t) /\ t \in Checklist
  /\ faults > 0 /\ faults' = faults - 1
  /\ fired' = [fired EXCEPT ![t] = @ \cup {day}]
  /\ disk' \in {disk, fired'}
  /\ todo' = todo \ {t}
  /\ told' = [told EXCEPT ![t] = @ \cup {day}]
  /\ Emit(t, day)
  /\ deferred' = deferred \ {t}
  /\ UNCHANGED <<clock, store, cache, inFlight, handing, sweeping, launched, forgot, cut, steady,
                 dropped, naps, turns, edits>>

\* launchAgentic: a topic with a run in flight turns the request away.
LaunchDue(t) ==
  /\ handing = <<t>>
  /\ handing' = <<>>
  /\ IF TopicOf[t] \in inFlight THEN UNCHANGED <<inFlight, launched, again>>
     ELSE /\ inFlight' = inFlight \cup {TopicOf[t]}
          /\ launched' = [launched EXCEPT ![t] = @ \cup {day}]
          /\ Emit(t, day)
  /\ UNCHANGED <<clock, store, disk, cache, fired, todo, sweeping, told, forgot, cut, steady,
                 deferred, dropped, bounds>>

\* A run-now flag is removed, then its task launched whatever its schedule says,
\* unless it is unknown, its checklist unreadable or its topic busy; no fired
\* key is written.
TakeFlag(t) ==
  /\ todo = {} /\ handing = <<>>
  /\ t \in sweeping
  /\ sweeping' = sweeping \ {t}
  /\ flags' = flags \ {t}
  /\ \/ cache[t] = "gone" /\ UNCHANGED <<inFlight, faults>>
     \/ cache[t] # "gone" /\ inFlight' = inFlight \cup {TopicOf[t]} /\ UNCHANGED faults
     \/ cache[t] # "gone" /\ t \in Checklist /\ faults > 0 /\ faults' = faults - 1 /\ UNCHANGED inFlight
  /\ UNCHANGED <<clock, file, touched, disk, cache, fired, todo, handing, history, naps, turns, edits>>

RunEnds(p) ==
  /\ p \in inFlight
  /\ inFlight' = inFlight \ {p}
  /\ UNCHANGED <<clock, store, disk, cache, fired, todo, handing, sweeping, history, bounds>>

\* The poller restarts: it reads back what the disk has.
Restart ==
  /\ faults > 0 /\ faults' = faults - 1
  /\ fired' = disk
  /\ forgot' = forgot \cup {t \in Task : fired[t] # disk[t]}
  /\ cut' = [t \in Task |-> IF handing = <<t>> THEN cut[t] \cup {day} ELSE cut[t]]
  /\ cache' = file /\ touched' = FALSE
  /\ inFlight' = {} /\ todo' = {} /\ handing' = <<>> /\ sweeping' = {}
  /\ met' = (met /\ Resting)
  /\ UNCHANGED <<day, slot, file, disk, flags, launched, told, again, steady, deferred, dropped, naps,
                 turns, edits>>

----------------------------------------------------------------------------
(* The task store as others change it                                      *)

\* `cta task` or /task switches a task on or off, removes it or adds it again,
\* under the store's lock and by a rename.
Edit(t, s) ==
  /\ edits > 0 /\ edits' = edits - 1
  /\ file[t] # s
  /\ s \in {"off", "gone"} \/ (s = "on" /\ file[t] # "on")
  /\ file' = [file EXCEPT ![t] = s]
  /\ touched' = TRUE
  /\ steady' = [steady EXCEPT ![t] = IF s = "on" THEN day ELSE MaxDay + 1]
  /\ deferred' = deferred \ {t}
  /\ UNCHANGED <<clock, disk, flags, memory, launched, told, again, forgot, cut, dropped, naps,
                 turns, faults>>

RaiseFlag(t) ==
  /\ edits > 0 /\ edits' = edits - 1
  /\ flags' = flags \cup {t}
  /\ UNCHANGED <<clock, file, touched, disk, memory, history, naps, turns, faults>>

Next ==
  \/ Advance
  \/ TickBegins
  \/ \E t \in Task : \/ AlertMissed(t) \/ PassOver(t) \/ MarkDue(t) \/ SkipUnreadable(t)
                     \/ LaunchDue(t) \/ TakeFlag(t)
  \/ \E p \in Topic : RunEnds(p)
  \/ Restart
  \/ \E t \in Task, s \in {"on", "off", "gone"} : Edit(t, s)
  \/ \E t \in Task : RaiseFlag(t)

\* The interval timer ticks, a tick runs to its end, and runs end.
Fairness ==
  /\ WF_vars(TickBegins)
  /\ \A t \in Task :
       WF_vars(AlertMissed(t) \/ PassOver(t) \/ MarkDue(t) \/ LaunchDue(t) \/ TakeFlag(t))
  /\ \A p \in Topic : WF_vars(RunEnds(p))

Spec == SchedInit /\ [][Next]_vars /\ Fairness

----------------------------------------------------------------------------
(* Properties                                                              *)

\* Every variable has its type, and the keys on disk are keys in memory.
TypeOK ==
  /\ day \in Day /\ slot \in Slot /\ met \in BOOLEAN
  /\ file \in [Task -> {"on", "off", "gone"}] /\ cache \in [Task -> {"on", "off", "gone"}]
  /\ touched \in BOOLEAN
  /\ flags \subseteq Task /\ sweeping \subseteq flags
  /\ inFlight \subseteq Topic
  /\ todo \subseteq Task /\ handing \in {<<>>} \cup {<<t>> : t \in Task}
  /\ \A days \in {fired, disk, launched, told, cut} : days \in [Task -> SUBSET Day]
  /\ \A t \in Task : disk[t] \subseteq fired[t]
  /\ steady \in [Task -> 1..(MaxDay + 1)]
  /\ \A s \in {again, forgot, deferred, dropped} : s \subseteq Task

\* No day's run of a task is launched twice, no missed day told about twice,
\* and none told about that was launched, and runs of an every:n task are at
\* least n days apart (daysSinceLastFire), across restarts, edits and missed
\* days; only a mark that did not reach the disk and was lost by a restart can
\* break it (markFiredToday before launchAgentic).
OncePerDay ==
  /\ again \subseteq forgot
  /\ \A t \in Task \ forgot : Days[t].kind = "every" =>
       \A a, b \in launched[t] : a < b => b - a >= Days[t].n

\* A task that was on throughout, with a run on an earlier day, does not miss
\* one of its days in silence: once the poller has ticked on the day after, the
\* missed day was launched or told about.  A death between the mark and the
\* launch is the exception (detectMissedTaskFire, taskDispatch).
NoSilentMiss ==
  \A t \in Task \ forgot :
    ( /\ met /\ Resting
      /\ cache[t] = "on" /\ steady[t] < day
      /\ Days[t].kind = "fixed" /\ day - 1 \in Days[t].on
      /\ \E d \in launched[t] : d < day - 1 )
    => day - 1 \in launched[t] \cup told[t] \cup cut[t]

\* A task is wanted now.
Due(t) == cache[t] = "on" /\ file[t] = "on" /\ Scheduled(t, day) /\ TimeReached(t) /\ ~Quiet(slot)

\* A task that stays due is launched, or the chat told that it is not: a topic
\* busy with another run, or with another task of the same tick, only puts it
\* off (the in-flight check of shouldFireTask before the mark).
DeferredLaunched ==
  \A t \in Task :
    []<>(~Due(t) \/ day \in launched[t] \cup told[t] \cup cut[t])

\* A task held back by quiet hours runs once they are over: it is never found
\* not due any more (the header of scheduler.ts).
QuietOnlyDefers == dropped = {}
=============================================================================
