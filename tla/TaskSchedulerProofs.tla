------------------------- MODULE TaskSchedulerProofs --------------------------
(***************************************************************************)
(* Theorems about TaskScheduler, for any tasks, schedules, days, quiet     *)
(* window and bounds.                                                      *)
(*                                                                         *)
(*   TypeCorrect       Spec => []TypeOK                                    *)
(*   FiresOncePerDay   Spec => []OncePerDay                                *)
(*                                                                         *)
(* OncePerDay speaks of what was launched and told; the poller decides by  *)
(* the fired keys.  The inductive invariant ties the two: whatever was     *)
(* launched or told has its key, unless a restart lost one, and the task   *)
(* that is marked but not launched yet has its key and no run.             *)
(***************************************************************************)
EXTENDS TaskScheduler, TLAPS

----------------------------------------------------------------------------
(* Type correctness, one part of the state at a time                       *)

Flagged == met \in BOOLEAN /\ touched \in BOOLEAN

Clocked == day \in Day /\ slot \in Slot

Filed ==
  /\ file \in [Task -> {"on", "off", "gone"}] /\ cache \in [Task -> {"on", "off", "gone"}]
  /\ flags \subseteq Task /\ sweeping \subseteq flags

Working ==
  /\ inFlight \subseteq Topic
  /\ todo \subseteq Task /\ handing \in {<<>>} \cup {<<t>> : t \in Task}

DaySets == [Task -> SUBSET Day]

KeysTyped ==
  /\ fired \in DaySets /\ disk \in DaySets
  /\ \A t \in Task : disk[t] \subseteq fired[t]

PastTyped ==
  /\ launched \in DaySets /\ told \in DaySets /\ cut \in DaySets
  /\ steady \in [Task -> 1..(MaxDay + 1)]
  /\ again \subseteq Task /\ forgot \subseteq Task
  /\ deferred \subseteq Task /\ dropped \subseteq Task

LEMMA Parts ==
  TypeOK <=> Flagged /\ Clocked /\ Filed /\ Working /\ KeysTyped /\ PastTyped
<1>1. (\A days \in {fired, disk, launched, told, cut} : days \in DaySets)
      <=> fired \in DaySets /\ disk \in DaySets /\ launched \in DaySets /\ told \in DaySets
          /\ cut \in DaySets
  OBVIOUS
<1>2. (\A s \in {again, forgot, deferred, dropped} : s \subseteq Task)
      <=> again \subseteq Task /\ forgot \subseteq Task /\ deferred \subseteq Task /\ dropped \subseteq Task
  OBVIOUS
<1> QED
  BY <1>1, <1>2, Zenon DEF TypeOK, DaySets, Flagged, Clocked, Filed, Working, KeysTyped, PastTyped

LEMMA TypeInit == SchedInit => TypeOK
<1> SUFFICES ASSUME SchedInit PROVE TypeOK
  OBVIOUS
<1>1. Flagged
  BY Zenon DEF SchedInit, Flagged
<1>2. Clocked /\ Filed /\ Working /\ KeysTyped /\ PastTyped
  BY SchedulerConstants
     DEF SchedInit, Clocked, Filed, Working, KeysTyped, PastTyped, DaySets, Day, Slot
<1> QED
  BY <1>1, <1>2, Parts

LEMMA FlaggedStep == Flagged /\ [Next]_vars => Flagged'
<1> SUFFICES ASSUME Flagged, [Next]_vars PROVE Flagged'
  OBVIOUS
<1> QED
  BY Zenon DEF Flagged, Next, vars, clock, store, Advance, TickBegins, AlertMissed, PassOver, MarkDue,
     SkipUnreadable, LaunchDue, TakeFlag, RunEnds, Restart, Edit, RaiseFlag

LEMMA ClockedStep == Clocked /\ [Next]_vars => Clocked'
<1> SUFFICES ASSUME Clocked, [Next]_vars PROVE Clocked'
  OBVIOUS
<1>1. CASE Advance
  BY <1>1, SchedulerConstants DEF Clocked, Advance, Day, Slot
<1>2. CASE UNCHANGED <<day, slot>>
  BY <1>2 DEF Clocked
<1> QED
  BY <1>1, <1>2, Zenon DEF Next, vars, clock, TickBegins, AlertMissed, PassOver, MarkDue,
     SkipUnreadable, LaunchDue, TakeFlag, RunEnds, Restart, Edit, RaiseFlag

LEMMA FiledStep == Filed /\ [Next]_vars => Filed'
<1> SUFFICES ASSUME Filed, [Next]_vars PROVE Filed'
  OBVIOUS
<1>1. CASE TickBegins
  BY <1>1 DEF Filed, TickBegins
<1>2. ASSUME NEW t \in Task, TakeFlag(t) PROVE Filed'
  BY <1>2 DEF Filed, TakeFlag
<1>3. CASE Restart
  BY <1>3 DEF Filed, Restart
<1>4. ASSUME NEW t \in Task, NEW s \in {"on", "off", "gone"}, Edit(t, s) PROVE Filed'
  BY <1>4 DEF Filed, Edit, memory
<1>5. ASSUME NEW t \in Task, RaiseFlag(t) PROVE Filed'
  BY <1>5 DEF Filed, RaiseFlag, memory
<1>6. CASE UNCHANGED <<file, cache, flags, sweeping>>
  BY <1>6 DEF Filed
<1> QED
  BY <1>1, <1>2, <1>3, <1>4, <1>5, <1>6, Zenon DEF Next, vars, store, memory, Advance, AlertMissed,
     PassOver, MarkDue, SkipUnreadable, LaunchDue, RunEnds

LEMMA WorkingStep == Working /\ [Next]_vars => Working'
<1> SUFFICES ASSUME Working, [Next]_vars PROVE Working'
  OBVIOUS
<1>1. CASE TickBegins
  BY <1>1 DEF Working, TickBegins, Enabled
<1>2. ASSUME NEW t \in Task,
             \/ AlertMissed(t) \/ PassOver(t) \/ MarkDue(t) \/ SkipUnreadable(t)
             \/ LaunchDue(t) \/ TakeFlag(t)
      PROVE  Working'
  BY <1>2 DEF Working, Topic, AlertMissed, PassOver, MarkDue, SkipUnreadable, LaunchDue, TakeFlag
<1>3. ASSUME NEW p \in Topic, RunEnds(p) PROVE Working'
  BY <1>3 DEF Working, RunEnds
<1>4. CASE Restart
  BY <1>4 DEF Working, Restart
<1>5. CASE UNCHANGED <<inFlight, todo, handing>>
  BY <1>5 DEF Working
<1> QED
  BY <1>1, <1>2, <1>3, <1>4, <1>5, Zenon DEF Next, vars, memory, Advance, Edit, RaiseFlag

\* A key is added in memory and the whole of memory written, or not.
LEMMA KeyAdded ==
  ASSUME KeysTyped, NEW t \in Task, NEW d \in Day,
         fired' = [fired EXCEPT ![t] = @ \cup {d}],
         disk' = fired' \/ disk' = disk
  PROVE  KeysTyped'
<1>1. fired' \in DaySets /\ \A s \in Task : fired[s] \subseteq fired'[s]
  BY DEF KeysTyped, DaySets
<1> QED
  BY <1>1 DEF KeysTyped

LEMMA KeysStep == Clocked /\ KeysTyped /\ [Next]_vars => KeysTyped'
<1> SUFFICES ASSUME Clocked, KeysTyped, [Next]_vars PROVE KeysTyped'
  OBVIOUS
<1>1. ASSUME NEW t \in Task, AlertMissed(t) PROVE KeysTyped'
  <2>1. day - 1 \in Day
    BY <1>1, SchedulerConstants DEF Clocked, AlertMissed, Missed, NotFiredYesterday, Day
  <2> QED
    BY <1>1, <2>1, KeyAdded DEF AlertMissed, Mark
<1>2. ASSUME NEW t \in Task, MarkDue(t) PROVE KeysTyped'
  BY <1>2, KeyAdded DEF Clocked, MarkDue, Mark
<1>3. ASSUME NEW t \in Task, SkipUnreadable(t) PROVE KeysTyped'
  BY <1>3, KeyAdded DEF Clocked, SkipUnreadable
<1>4. CASE Restart
  BY <1>4 DEF KeysTyped, Restart
<1>5. CASE UNCHANGED <<fired, disk>>
  BY <1>5 DEF KeysTyped
<1> QED
  BY <1>1, <1>2, <1>3, <1>4, <1>5, Zenon DEF Next, vars, memory, Advance, TickBegins, PassOver,
     LaunchDue, TakeFlag, RunEnds, Edit, RaiseFlag

LEMMA PastStep == Clocked /\ PastTyped /\ [Next]_vars => PastTyped'
<1> SUFFICES ASSUME Clocked, PastTyped, [Next]_vars PROVE PastTyped'
  OBVIOUS
<1>1. ASSUME NEW t \in Task, AlertMissed(t) PROVE PastTyped'
  <2>1. day - 1 \in Day
    BY <1>1, SchedulerConstants DEF Clocked, AlertMissed, Missed, NotFiredYesterday, Day
  <2> QED
    BY <1>1, <2>1 DEF PastTyped, DaySets, AlertMissed, Emit
<1>2. ASSUME NEW t \in Task, PassOver(t) PROVE PastTyped'
  BY <1>2 DEF PastTyped, PassOver
<1>3. ASSUME NEW t \in Task, MarkDue(t) PROVE PastTyped'
  BY <1>3 DEF PastTyped, MarkDue
<1>4. ASSUME NEW t \in Task, SkipUnreadable(t) PROVE PastTyped'
  BY <1>4 DEF Clocked, PastTyped, DaySets, SkipUnreadable, Emit
<1>5. ASSUME NEW t \in Task, LaunchDue(t) PROVE PastTyped'
  <2>1. UNCHANGED <<told, forgot, cut, steady, deferred, dropped>>
    BY <1>5 DEF LaunchDue
  <2>2. \/ UNCHANGED <<launched, again>>
        \/ launched' = [launched EXCEPT ![t] = @ \cup {day}] /\ Emit(t, day)
    BY <1>5 DEF LaunchDue
  <2>3. launched' \in DaySets /\ again' \subseteq Task
    BY <2>2 DEF Clocked, PastTyped, DaySets, Emit
  <2> QED
    BY <2>1, <2>3 DEF PastTyped
<1>6. CASE Restart
  BY <1>6 DEF Clocked, PastTyped, DaySets, Restart
<1>7. ASSUME NEW t \in Task, NEW s, Edit(t, s) PROVE PastTyped'
  <2>1. day \in 1..(MaxDay + 1) /\ MaxDay + 1 \in 1..(MaxDay + 1)
    BY SchedulerConstants DEF Clocked, Day
  <2> QED
    BY <1>7, <2>1 DEF PastTyped, Edit
<1>8. CASE UNCHANGED history
  BY <1>8 DEF PastTyped, history
<1> QED
  BY <1>1, <1>2, <1>3, <1>4, <1>5, <1>6, <1>7, <1>8, Zenon DEF Next, vars, Advance, TickBegins,
     TakeFlag, RunEnds, RaiseFlag

\* TypeOK holds in every reachable state.
THEOREM TypeCorrect == Spec => []TypeOK
<1>1. TypeOK /\ [Next]_vars => TypeOK'
  <2>1. (Flagged /\ Clocked /\ Filed /\ Working /\ KeysTyped /\ PastTyped => TypeOK)'
    BY Parts, PTL
  <2> QED
    BY <2>1, Parts, FlaggedStep, ClockedStep, FiledStep, WorkingStep, KeysStep, PastStep
<1> QED
  BY <1>1, TypeInit, PTL DEF Spec

----------------------------------------------------------------------------
(* Once per day                                                            *)

Records == [Task -> SUBSET (1..day)]

\* The variables the argument is about, typed.
Shape ==
  /\ day \in Nat \ {0}
  /\ fired \in Records /\ disk \in Records
  /\ launched \in Records /\ told \in Records
  /\ handing \in {<<>>} \cup {<<t>> : t \in Task}

\* What was launched or told about has its fired key, and happened once.
Keyed(t) ==
  /\ t \notin again
  /\ launched[t] \cup told[t] \subseteq fired[t]

\* The runs of an every:n task are far enough apart.
Apart(t) ==
  Days[t].kind = "every" => \A a, b \in launched[t] : a < b => b - a >= Days[t].n

\* The task about to be launched is marked, has not run, and is far from its runs.
Marked(t) ==
  handing = <<t>> =>
    /\ day \in fired[t]
    /\ day \notin launched[t] \cup told[t]
    /\ Days[t].kind = "every" => \A a \in launched[t] : day - a >= Days[t].n

Sound(t) == Keyed(t) /\ Apart(t) /\ Marked(t)

IInv == Shape /\ \A t \in Task \ forgot : Sound(t)

LEMMA IInit == SchedInit => IInv
BY DEF SchedInit, IInv, Shape, Records, Sound, Keyed, Apart, Marked

\* A task that is due has no key for today and is scheduled for today.
LEMMA DueMeans ==
  ASSUME NEW t \in Task, Reason(t) = "due"
  PROVE  day \notin fired[t] /\ Scheduled(t, day)
BY DEF Reason

\* A due task that is well kept is far from all its runs.
LEMMA FarFromRuns ==
  ASSUME Shape, NEW t \in Task, Keyed(t), Reason(t) = "due", Days[t].kind = "every"
  PROVE  \A a \in launched[t] : day - a >= Days[t].n
<1>1. day \notin fired[t] /\ Scheduled(t, day)
  BY DueMeans
<1>2. \A e \in Earlier(t) : day - e >= Days[t].n
  BY <1>1 DEF Scheduled
<1>3. launched[t] \subseteq Earlier(t)
  BY <1>1 DEF Earlier, Shape, Records, Keyed
<1> QED BY <1>2, <1>3

\* Adding days that have come to some records keeps them records.
LEMMA AddDay ==
  ASSUME Shape, NEW f \in Records, NEW t \in Task, NEW d \in 1..day
  PROVE  [f EXCEPT ![t] = @ \cup {d}] \in Records
BY DEF Shape, Records

\* The alert: its day had no key, so it was neither launched nor told about.
LEMMA AlertKeeps ==
  ASSUME IInv, NEW t \in Task, AlertMissed(t)
  PROVE  IInv'
<1>1. /\ Days[t].kind = "fixed" /\ day > 1 /\ day - 1 \notin fired[t]
      /\ handing = <<>> /\ handing' = handing
      /\ UNCHANGED <<day, launched, forgot>>
  BY DEF AlertMissed, Missed, NotFiredYesterday, clock
<1>2. /\ told' = [told EXCEPT ![t] = @ \cup {day - 1}]
      /\ fired' = [fired EXCEPT ![t] = @ \cup {day - 1}]
      /\ disk' = fired' \/ disk' = disk
      /\ again' = IF day - 1 \in launched[t] \cup told[t] THEN again \cup {t} ELSE again
  BY DEF AlertMissed, Mark, Emit
<1>3. day - 1 \in 1..day
  BY <1>1 DEF IInv, Shape
<1>4. Shape'
  <2>1. told' \in Records /\ fired' \in Records
    BY <1>2, <1>3, AddDay DEF IInv, Shape
  <2>2. Records' = Records
    BY <1>1 DEF Records
  <2> QED BY <1>1, <1>2, <2>1, <2>2 DEF IInv, Shape
<1>5. ASSUME NEW s \in Task \ forgot
      PROVE  Sound(s)'
  <2>1. Sound(s) /\ Shape
    BY DEF IInv
  <2>2. Keyed(s)'
    BY <1>1, <1>2, <2>1 DEF Sound, Keyed, Shape, Records
  <2>3. Apart(s)' /\ Marked(s)'
    BY <1>1, <2>1 DEF Sound, Apart, Marked
  <2> QED BY <2>2, <2>3 DEF Sound
<1> QED BY <1>1, <1>4, <1>5 DEF IInv

\* A due task is marked: it is the one about to be launched.
LEMMA MarkKeeps ==
  ASSUME IInv, NEW t \in Task, MarkDue(t)
  PROVE  IInv'
<1>1. /\ Reason(t) = "due"
      /\ handing' = <<t>>
      /\ UNCHANGED <<day, launched, told, again, forgot>>
  BY DEF MarkDue, clock
<1>2. /\ fired' = [fired EXCEPT ![t] = @ \cup {day}]
      /\ disk' = fired' \/ disk' = disk
  BY DEF MarkDue, Mark
<1>3. Shape'
  <2>0. day \in 1..day /\ fired \in Records
    BY DEF IInv, Shape
  <2>1. fired' \in Records
    BY <1>2, <2>0, AddDay DEF IInv
  <2>2. Records' = Records
    BY <1>1 DEF Records
  <2> QED BY <1>1, <1>2, <2>1, <2>2 DEF IInv, Shape
<1>4. ASSUME NEW s \in Task \ forgot
      PROVE  Sound(s)'
  <2>1. Keyed(s) /\ Apart(s) /\ Shape
    BY DEF IInv, Sound
  <2>2. fired[s] \subseteq fired'[s]
    BY <1>2, <2>1 DEF Shape, Records
  <2>5. Keyed(s)'
    BY <1>1, <2>1, <2>2 DEF Keyed
  <2>3. Apart(s)'
    BY <1>1, <2>1 DEF Apart
  <2>4. Marked(s)'
    <3>1. CASE s = t
      <4>1. day \notin fired[t]
        BY <1>1, DueMeans
      <4>2. Days[t].kind = "every" => \A a \in launched[t] : day - a >= Days[t].n
        BY <1>1, <2>1, <3>1, FarFromRuns
      <4> QED BY <1>1, <1>2, <2>1, <3>1, <4>1, <4>2 DEF Marked, Keyed, Shape, Records
    <3>2. CASE s # t
      BY <1>1, <3>2 DEF Marked
    <3> QED BY <3>1, <3>2
  <2> QED BY <2>3, <2>4, <2>5 DEF Sound
<1> QED BY <1>1, <1>3, <1>4 DEF IInv

\* A due task whose checklist is unreadable is marked and told about.
LEMMA SkipKeeps ==
  ASSUME IInv, NEW t \in Task, SkipUnreadable(t)
  PROVE  IInv'
<1>1. /\ Reason(t) = "due"
      /\ handing = <<>> /\ handing' = handing
      /\ UNCHANGED <<day, launched, forgot>>
  BY DEF SkipUnreadable, AtHead, clock
<1>2. /\ told' = [told EXCEPT ![t] = @ \cup {day}]
      /\ fired' = [fired EXCEPT ![t] = @ \cup {day}]
      /\ disk' = fired' \/ disk' = disk
      /\ again' = IF day \in launched[t] \cup told[t] THEN again \cup {t} ELSE again
  BY DEF SkipUnreadable, Emit
<1>3. day \notin fired[t]
  BY <1>1, DueMeans
<1>4. Shape'
  <2>0. day \in 1..day /\ fired \in Records /\ told \in Records
    BY DEF IInv, Shape
  <2>1. told' \in Records /\ fired' \in Records
    BY <1>2, <2>0, AddDay DEF IInv
  <2>2. Records' = Records
    BY <1>1 DEF Records
  <2> QED BY <1>1, <1>2, <2>1, <2>2 DEF IInv, Shape
<1>5. ASSUME NEW s \in Task \ forgot
      PROVE  Sound(s)'
  <2>1. Sound(s) /\ Shape
    BY DEF IInv
  <2>2. Keyed(s)'
    <3>1. CASE s = t
      <4>1. fired'[t] = fired[t] \cup {day} /\ told'[t] = told[t] \cup {day}
        BY <1>2, <2>1 DEF Shape, Records
      <4>2. again' = again
        BY <1>2, <1>3, <2>1, <3>1 DEF Sound, Keyed
      <4> QED BY <1>1, <2>1, <3>1, <4>1, <4>2 DEF Sound, Keyed
    <3>2. CASE s # t
      <4>1. fired'[s] = fired[s] /\ told'[s] = told[s]
        BY <1>2, <2>1, <3>2 DEF Shape, Records
      <4>2. s \in again' => s \in again
        BY <1>2, <3>2
      <4> QED BY <1>1, <2>1, <4>1, <4>2 DEF Sound, Keyed
    <3> QED BY <3>1, <3>2
  <2>3. Apart(s)' /\ Marked(s)'
    BY <1>1, <2>1 DEF Sound, Apart, Marked
  <2> QED BY <2>2, <2>3 DEF Sound
<1> QED BY <1>1, <1>4, <1>5 DEF IInv

\* The marked task is launched, or turned away by its topic.
LEMMA LaunchKeeps ==
  ASSUME IInv, NEW t \in Task, LaunchDue(t)
  PROVE  IInv'
<1>1. /\ handing = <<t>> /\ handing' = <<>>
      /\ UNCHANGED <<day, fired, disk, told, forgot>>
  BY DEF LaunchDue, clock
<1>2. \/ UNCHANGED <<launched, again>>
      \/ /\ launched' = [launched EXCEPT ![t] = @ \cup {day}]
         /\ again' = IF day \in launched[t] \cup told[t] THEN again \cup {t} ELSE again
  BY DEF LaunchDue, Emit
<1>3. Shape'
  <2>1. launched' \in Records
    BY <1>2, AddDay DEF IInv, Shape
  <2>2. Records' = Records
    BY <1>1 DEF Records
  <2> QED BY <1>1, <2>1, <2>2 DEF IInv, Shape
<1>4. ASSUME NEW s \in Task \ forgot
      PROVE  Sound(s)'
  <2>1. Keyed(s) /\ Apart(s) /\ Marked(s) /\ Shape
    BY DEF IInv, Sound
  <2>2. Keyed(s)'
    BY <1>1, <1>2, <2>1 DEF Keyed, Marked, Shape, Records
  <2>3. Apart(s)'
    <3>1. CASE s = t /\ Days[t].kind = "every"
      <4>1. \A a \in launched'[t] : a \in launched[t] \/ a = day
        BY <1>2, <2>1 DEF Shape, Records
      <4>2. \A a \in launched[t] : day - a >= Days[t].n /\ a \in 1..day
        BY <1>1, <2>1, <3>1 DEF Marked, Shape, Records
      <4>3. ASSUME NEW a \in launched'[t], NEW b \in launched'[t], a < b
            PROVE  b - a >= Days[t].n
        <5>1. CASE a \in launched[t] /\ b \in launched[t]
          BY <2>1, <3>1, <4>3, <5>1 DEF Apart
        <5>2. CASE a \in launched[t] /\ b = day
          BY <4>2, <5>2
        <5>3. CASE a = day
          BY <2>1, <4>1, <4>2, <4>3, <5>3 DEF Shape
        <5> QED BY <4>1, <5>1, <5>2, <5>3
      <4> QED BY <3>1, <4>3 DEF Apart
    <3>2. CASE s # t \/ Days[s].kind # "every"
      BY <1>2, <2>1, <3>2 DEF Apart, Shape, Records
    <3> QED BY <3>1, <3>2
  <2>4. Marked(s)'
    BY <1>1 DEF Marked
  <2> QED BY <2>2, <2>3, <2>4 DEF Sound
<1> QED BY <1>1, <1>3, <1>4 DEF IInv

\* Time passes only when no task is about to be launched.
LEMMA AdvanceKeeps ==
  ASSUME IInv, Advance
  PROVE  IInv'
<1>1. /\ handing = <<>>
      /\ day' = day \/ day' = day + 1
      /\ UNCHANGED <<handing, fired, disk, launched, told, again, forgot>>
  BY DEF Advance, Resting, memory, history
<1>2. Shape'
  <2>1. \A f \in Records : f \in Records'
    BY <1>1 DEF IInv, Shape, Records
  <2> QED BY <1>1, <2>1 DEF IInv, Shape
<1>3. \A t \in Task \ forgot' : Sound(t)'
  BY <1>1 DEF IInv, Sound, Keyed, Apart, Marked
<1> QED BY <1>2, <1>3 DEF IInv

\* A restart forgets the launch it interrupts and keeps the keys of every task
\* that it does not count as forgotten.
LEMMA RestartKeeps ==
  ASSUME IInv, Restart
  PROVE  IInv'
<1>1. /\ handing' = <<>>
      /\ fired' = disk
      /\ forgot' = forgot \cup {t \in Task : fired[t] # disk[t]}
      /\ UNCHANGED <<day, disk, launched, told, again>>
  BY DEF Restart
<1>2. Shape'
  BY <1>1 DEF IInv, Shape, Records
<1>3. ASSUME NEW t \in Task \ forgot'
      PROVE  Sound(t)'
  <2>1. fired'[t] = fired[t] /\ Sound(t)
    BY <1>1 DEF IInv
  <2> QED BY <1>1, <2>1 DEF Sound, Keyed, Apart, Marked
<1> QED BY <1>2, <1>3 DEF IInv

\* Every other step leaves the days, the keys and the history of runs alone.
Aside == UNCHANGED <<day, fired, disk, launched, told, again, forgot, handing>>

LEMMA AsideKeeps ==
  ASSUME IInv, Aside
  PROVE  IInv'
BY DEF IInv, Aside, Shape, Records, Sound, Keyed, Apart, Marked

LEMMA IStep == IInv /\ [Next]_vars => IInv'
<1> SUFFICES ASSUME IInv, [Next]_vars
             PROVE  IInv'
  OBVIOUS
<1> USE AsideKeeps
<1>1. CASE Advance
  BY <1>1, AdvanceKeeps
<1>2. CASE TickBegins
  BY <1>2 DEF TickBegins, Aside, history
<1>3. ASSUME NEW t \in Task,
             \/ AlertMissed(t) \/ PassOver(t) \/ MarkDue(t) \/ SkipUnreadable(t)
             \/ LaunchDue(t) \/ TakeFlag(t)
      PROVE  IInv'
  <2>1. CASE PassOver(t)
    BY <2>1 DEF PassOver, Aside, clock
  <2>2. CASE TakeFlag(t)
    BY <2>2 DEF TakeFlag, Aside, clock, history
  <2> QED BY <1>3, <2>1, <2>2, AlertKeeps, MarkKeeps, SkipKeeps, LaunchKeeps
<1>4. ASSUME NEW p \in Topic, RunEnds(p)
      PROVE  IInv'
  BY <1>4 DEF RunEnds, Aside, clock, history
<1>5. CASE Restart
  BY <1>5, RestartKeeps
<1>6. ASSUME NEW t \in Task, NEW s, Edit(t, s)
      PROVE  IInv'
  BY <1>6 DEF Edit, Aside, clock, memory
<1>7. ASSUME NEW t \in Task, RaiseFlag(t)
      PROVE  IInv'
  BY <1>7 DEF RaiseFlag, Aside, clock, memory, history
<1>8. CASE UNCHANGED vars
  BY <1>8 DEF vars, Aside, clock, memory, history
<1> QED BY <1>1, <1>2, <1>3, <1>4, <1>5, <1>6, <1>7, <1>8 DEF Next

\* No day's run of a task is launched twice or both launched and told about, and
\* runs of an every:n task are n days apart, unless a restart lost a fired key.
THEOREM FiresOncePerDay == Spec => []OncePerDay
<1>1. SchedInit => again = {}
  BY DEF SchedInit
<1>2. IInv /\ again \subseteq Task => OncePerDay
  BY DEF IInv, OncePerDay, Sound, Keyed, Apart
<1>3. again \subseteq Task /\ [Next]_vars => (again \subseteq Task)'
  BY DEF Next, vars, Advance, TickBegins, AlertMissed, PassOver, MarkDue, SkipUnreadable, LaunchDue,
     TakeFlag, RunEnds, Restart, Edit, RaiseFlag, Emit, history
<1>4. SchedInit => again \subseteq Task
  BY <1>1
<1> QED BY <1>2, <1>3, <1>4, IInit, IStep, PTL DEF Spec

----------------------------------------------------------------------------
(* No silent miss                                                          *)

\* A file that was not touched is the one last read, and a task that is not on
\* in it counts as on since after the last day.
Alike ==
  /\ ~touched => cache = file
  /\ \A t \in Task : file[t] # "on" => steady[t] = MaxDay + 1

\* The topic of the task about to be launched is free.
Free == \A t \in Task : handing = <<t>> => TopicOf[t] \notin inFlight

\* Every fired key has its launch, its word to the chat or its cut, or is the
\* one whose launch comes next.
Accounted(t) ==
  \A d \in fired[t] : d \in launched[t] \cup told[t] \cup cut[t] \/ (handing = <<t>> /\ d = day)

\* A tick that met the slot has dealt with the missed day, or has still to look.
Seen(t) == met /\ steady[t] < day => t \in todo \/ ~Missed(t)

NInv == Alike /\ Free /\ \A t \in Task \ forgot : Accounted(t) /\ Seen(t)

LEMMA NInit == SchedInit => NInv
BY DEF SchedInit, NInv, Alike, Free, Accounted, Seen

LEMMA TickNoted ==
  ASSUME TypeOK, NInv, TickBegins
  PROVE  NInv'
<1>1. /\ cache' = (IF touched THEN file ELSE cache) /\ ~touched'
      /\ todo' = {t \in Task : cache'[t] = "on"}
      /\ UNCHANGED <<day, file, fired, launched, told, cut, steady, forgot, handing, inFlight>>
  BY DEF TickBegins, Enabled, history, TypeOK
<1>2. cache' = file
  BY <1>1 DEF NInv, Alike
<1>3. Alike' /\ Free'
  BY <1>1, <1>2 DEF NInv, Alike, Free
<1>4. \A t \in Task \ forgot : Accounted(t)'
  BY <1>1 DEF NInv, Accounted
<1>5. ASSUME NEW t \in Task, steady[t] < day
      PROVE  t \in todo'
  <2>1. file[t] = "on"
    BY <1>5, SchedulerConstants DEF NInv, Alike, TypeOK, Day
  <2> QED BY <1>1, <1>2, <2>1
<1>6. \A t \in Task \ forgot : Seen(t)'
  BY <1>1, <1>5 DEF Seen
<1> QED BY <1>1, <1>3, <1>4, <1>6 DEF NInv

\* A day later than yesterday among the keys does not make yesterday missed, and
\* yesterday among them makes it met.
LEMMA KeyMeetsDay ==
  ASSUME TypeOK, NEW t \in Task, NEW s \in Task, NEW d \in {day - 1, day}, d \in Day,
         fired' = [fired EXCEPT ![t] = @ \cup {d}], UNCHANGED day, ~Missed(s)
  PROVE  ~Missed(s)'
<1>1. fired'[s] = IF s = t THEN fired[s] \cup {d} ELSE fired[s]
  BY DEF TypeOK
<1>2. ~(d < day - 1)
  BY DEF TypeOK, Day
<1> QED BY <1>1, <1>2 DEF Missed, NotFiredYesterday

LEMMA AlertNoted ==
  ASSUME TypeOK, NInv, NEW t \in Task, AlertMissed(t)
  PROVE  NInv'
<1>1. /\ day - 1 \in Day
      /\ fired' = [fired EXCEPT ![t] = @ \cup {day - 1}]
      /\ told' = [told EXCEPT ![t] = @ \cup {day - 1}]
      /\ UNCHANGED <<day, met, touched, cache, file, todo, launched, cut, steady, forgot, handing,
                     inFlight>>
  <2>1. day > 1 /\ day \in Day
    BY DEF AlertMissed, Missed, NotFiredYesterday, TypeOK
  <2>2. day - 1 \in Day
    BY <2>1, SchedulerConstants DEF Day
  <2> QED BY <2>2 DEF AlertMissed, Mark, clock, store
<1>2. Alike' /\ Free'
  BY <1>1 DEF NInv, Alike, Free
<1>3. \A s \in Task \ forgot : Accounted(s)'
  BY <1>1 DEF NInv, Accounted, TypeOK
<1>4. \A s \in Task \ forgot : Seen(s)'
  BY <1>1, KeyMeetsDay DEF NInv, Seen
<1> QED BY <1>1, <1>2, <1>3, <1>4 DEF NInv

LEMMA PassNoted ==
  ASSUME NInv, NEW t \in Task, PassOver(t)
  PROVE  NInv'
<1>1. /\ ~Missed(t) /\ todo' = todo \ {t}
      /\ UNCHANGED <<day, met, touched, cache, file, fired, launched, told, cut, steady, forgot,
                     handing, inFlight>>
  BY DEF PassOver, AtHead, clock, store
<1>2. Alike' /\ Free' /\ \A s \in Task \ forgot : Accounted(s)'
  BY <1>1 DEF NInv, Alike, Free, Accounted
<1>3. \A s \in Task \ forgot : Seen(s)'
  BY <1>1 DEF NInv, Seen, Missed, NotFiredYesterday
<1> QED BY <1>1, <1>2, <1>3 DEF NInv

LEMMA MarkNoted ==
  ASSUME TypeOK, NInv, NEW t \in Task, MarkDue(t)
  PROVE  NInv'
<1>1. /\ ~Missed(t) /\ todo' = todo \ {t} /\ ~Busy(t) /\ handing = <<>> /\ handing' = <<t>>
      /\ fired' = [fired EXCEPT ![t] = @ \cup {day}]
      /\ UNCHANGED <<day, met, touched, cache, file, launched, told, cut, steady, forgot, inFlight>>
  BY DEF MarkDue, AtHead, Mark, clock, store
<1>2. Alike' /\ Free'
  BY <1>1 DEF NInv, Alike, Free, Busy
<1>3. \A s \in Task \ forgot : Accounted(s)'
  BY <1>1 DEF NInv, Accounted, TypeOK
<1>4. \A s \in Task \ forgot : Seen(s)'
  BY <1>1, KeyMeetsDay DEF NInv, Seen, TypeOK
<1> QED BY <1>1, <1>2, <1>3, <1>4 DEF NInv

LEMMA SkipNoted ==
  ASSUME TypeOK, NInv, NEW t \in Task, SkipUnreadable(t)
  PROVE  NInv'
<1>1. /\ ~Missed(t) /\ todo' = todo \ {t}
      /\ fired' = [fired EXCEPT ![t] = @ \cup {day}]
      /\ told' = [told EXCEPT ![t] = @ \cup {day}]
      /\ UNCHANGED <<day, met, touched, cache, file, launched, cut, steady, forgot, handing, inFlight>>
  BY DEF SkipUnreadable, AtHead, clock, store
<1>2. Alike' /\ Free'
  BY <1>1 DEF NInv, Alike, Free
<1>3. \A s \in Task \ forgot : Accounted(s)'
  BY <1>1 DEF NInv, Accounted, TypeOK
<1>4. \A s \in Task \ forgot : Seen(s)'
  BY <1>1, KeyMeetsDay DEF NInv, Seen, TypeOK
<1> QED BY <1>1, <1>2, <1>3, <1>4 DEF NInv

\* The marked task finds its topic free, so its key gets its launch.
LEMMA LaunchNoted ==
  ASSUME TypeOK, NInv, NEW t \in Task, LaunchDue(t)
  PROVE  NInv'
<1>1. TopicOf[t] \notin inFlight
  BY DEF NInv, Free, LaunchDue
<1>2. /\ handing = <<t>> /\ handing' = <<>>
      /\ launched' = [launched EXCEPT ![t] = @ \cup {day}]
      /\ UNCHANGED <<day, met, touched, cache, file, fired, todo, told, cut, steady, forgot>>
  BY <1>1 DEF LaunchDue, clock, store
<1>3. Alike' /\ Free'
  BY <1>2 DEF NInv, Alike, Free
<1>4. \A s \in Task \ forgot : Accounted(s)'
  BY <1>2 DEF NInv, Accounted, TypeOK
<1>5. \A s \in Task \ forgot : Seen(s)'
  BY <1>2 DEF NInv, Seen, Missed, NotFiredYesterday
<1> QED BY <1>2, <1>3, <1>4, <1>5 DEF NInv

\* A launch that a death cuts short is cut; a tick cut short has not met its slot.
LEMMA RestartNoted ==
  ASSUME TypeOK, NInv, Restart
  PROVE  NInv'
<1>1. /\ cache' = file /\ fired' = disk /\ handing' = <<>>
      /\ met' = (met /\ Resting)
      /\ cut' = [t \in Task |-> IF handing = <<t>> THEN cut[t] \cup {day} ELSE cut[t]]
      /\ UNCHANGED <<day, file, launched, told, steady>>
  BY DEF Restart
<1>2. Alike' /\ Free'
  BY <1>1 DEF NInv, Alike, Free
<1>3. ASSUME NEW t \in Task \ forgot'
      PROVE  (Accounted(t) /\ Seen(t))'
  <2>1. t \notin forgot /\ fired'[t] = fired[t]
    BY <1>1, <1>3 DEF Restart
  <2>2. Accounted(t) /\ Seen(t)
    BY <2>1 DEF NInv
  <2>3. Accounted(t)'
    BY <1>1, <2>1, <2>2 DEF Accounted
  <2>4. Seen(t)'
    BY <1>1, <2>1, <2>2 DEF Seen, Missed, NotFiredYesterday, Resting
  <2> QED BY <2>3, <2>4
<1> QED BY <1>2, <1>3 DEF NInv

\* An edit touches the file, and a task that it switches on is on since today.
LEMMA EditNoted ==
  ASSUME TypeOK, NInv, NEW t \in Task, NEW s, Edit(t, s)
  PROVE  NInv'
<1>1. /\ touched' /\ file' = [file EXCEPT ![t] = s]
      /\ steady' = [steady EXCEPT ![t] = IF s = "on" THEN day ELSE MaxDay + 1]
      /\ UNCHANGED <<day, met, cache, fired, todo, launched, told, cut, forgot, handing, inFlight>>
  BY DEF Edit, clock, memory
<1>2. Alike' /\ Free'
  BY <1>1 DEF NInv, Alike, Free, TypeOK
<1>3. \A u \in Task \ forgot : Accounted(u)'
  BY <1>1 DEF NInv, Accounted
<1>4. ASSUME NEW u \in Task \ forgot
      PROVE  Seen(u)'
  <2>1. CASE u = t
    <3>1. ~(steady'[u] < day)
      BY <1>1, <2>1, SchedulerConstants DEF TypeOK, Day
    <3> QED BY <1>1, <3>1 DEF Seen
  <2>2. CASE u # t
    <3>1. steady'[u] = steady[u]
      BY <1>1, <2>2 DEF TypeOK
    <3> QED BY <1>1, <3>1 DEF NInv, Seen, Missed, NotFiredYesterday
  <2> QED BY <2>1, <2>2
<1> QED BY <1>1, <1>2, <1>3, <1>4 DEF NInv

\* The steps that change none of this: the clock ends the slot, a run ends.
LEMMA OthersNoted ==
  ASSUME NInv,
         \/ Advance
         \/ \E t \in Task : TakeFlag(t) \/ RaiseFlag(t)
         \/ \E p \in Topic : RunEnds(p)
         \/ UNCHANGED vars
  PROVE  NInv'
<1>1. CASE Advance
  <2>1. /\ ~met' /\ handing = <<>>
        /\ UNCHANGED <<touched, cache, file, fired, launched, told, cut, steady, forgot, handing,
                       inFlight>>
    BY <1>1 DEF Advance, Resting, store, memory, history
  <2> QED BY <2>1 DEF NInv, Alike, Free, Accounted, Seen
<1>2. ASSUME NEW t \in Task, TakeFlag(t)
      PROVE  NInv'
  <2>1. /\ handing = <<>>
        /\ UNCHANGED <<day, met, touched, cache, file, fired, todo, launched, told, cut, steady, forgot,
                       handing>>
    BY <1>2 DEF TakeFlag, clock, history
  <2> QED BY <2>1 DEF NInv, Alike, Free, Accounted, Seen, Missed, NotFiredYesterday
<1>3. ASSUME NEW p \in Topic, RunEnds(p)
      PROVE  NInv'
  <2>1. /\ inFlight' \subseteq inFlight
        /\ UNCHANGED <<day, met, touched, cache, file, fired, todo, launched, told, cut, steady, forgot,
                       handing>>
    BY <1>3 DEF RunEnds, clock, store, history
  <2> QED BY <2>1 DEF NInv, Alike, Free, Accounted, Seen, Missed, NotFiredYesterday
<1>4. CASE (\E t \in Task : RaiseFlag(t)) \/ UNCHANGED vars
  <2>1. UNCHANGED <<day, met, touched, cache, file, fired, todo, launched, told, cut, steady, forgot,
                    handing, inFlight>>
    BY <1>4 DEF RaiseFlag, vars, clock, store, memory, history
  <2> QED BY <2>1 DEF NInv, Alike, Free, Accounted, Seen, Missed, NotFiredYesterday
<1> QED BY <1>1, <1>2, <1>3, <1>4

LEMMA NStep == TypeOK /\ NInv /\ [Next]_vars => NInv'
BY TickNoted, AlertNoted, PassNoted, MarkNoted, SkipNoted, LaunchNoted, RestartNoted, EditNoted,
   OthersNoted DEF Next

\* A task that was on throughout, with a run on an earlier day, has its day of
\* yesterday launched or told about once a tick has met today, unless a death
\* fell between its mark and its launch.
THEOREM MissIsTold == Spec => []NoSilentMiss
<1>1. TypeOK /\ IInv /\ NInv => NoSilentMiss
  <2> SUFFICES ASSUME TypeOK, IInv, NInv, NEW t \in Task \ forgot,
                      met, Resting, steady[t] < day,
                      Days[t].kind = "fixed", day - 1 \in Days[t].on,
                      NEW d \in launched[t], d < day - 1
               PROVE  day - 1 \in launched[t] \cup told[t] \cup cut[t]
    BY DEF NoSilentMiss
  <2>1. d \in fired[t]
    BY DEF IInv, Sound, Keyed
  <2>2. day > 1
    BY DEF IInv, Shape, Records
  <2>3. ~Missed(t)
    BY DEF NInv, Seen, Resting
  <2>4. day - 1 \in fired[t]
    BY <2>1, <2>2, <2>3 DEF Missed, NotFiredYesterday
  <2> QED BY <2>4 DEF NInv, Accounted, Resting
<1> QED BY <1>1, IInit, IStep, NInit, NStep, TypeCorrect, PTL DEF Spec
=============================================================================
