------------------------------ MODULE MountStore ------------------------------
(***************************************************************************)
(* mounts.json and everyone who writes it: the processes that run          *)
(* mount-store.ts for `cta' or Pager, the poller (automatic mounts, button *)
(* taps, pairing) and the mount-store processes the poller starts for      *)
(* /mount, /dm, /unmount and /unpair and waits for.  They exclude each     *)
(* other with a lock file, which a writer that dies leaves behind and      *)
(* which is removed by whoever finds it older than STALE_LOCK_MS.          *)
(* tasks-store.ts has the same lock, line by line, for tasks.json.         *)
(*                                                                         *)
(* The poller routes messages by a copy of the file that it reloads when   *)
(* the file's mtime differs from the one it knows (each write has its own).*)
(***************************************************************************)
EXTENDS Integers, FiniteSets, Sequences

CONSTANTS
  Cli,         \* processes of `cta' and Pager
  Poller,      \* the poller, in calls it makes itself
  Child,       \* the process it starts for a command
  Topic,       \* threads of the chat, "dm" included
  Dir,         \* project directories
  Cwd,         \* CLAUDE_CWD, the default directory
  CliCall,     \* the calls made from outside the poller
  NoLock, NoCard,
  MaxCalls,    \* bound: calls from outside the poller
  MaxInputs,   \* bound: messages, taps and commands the poller receives
  MaxTries,    \* LOCK_RETRY_MAX
  MaxFaults    \* bound: crashes, failing reads, writes and unlinks

Caller == Cli \cup {Poller, Child}
Target == Topic \cup {"*"}
Rows == [target : Target, dir : Dir, digest : BOOLEAN]
Calls == [kind : {"add", "replace", "remove", "digest", "clear"}, target : Target, dir : Dir]

ASSUME StoreConstants ==
  /\ Poller # Child /\ {Poller, Child} \cap Cli = {}
  /\ "*" \notin Topic
  /\ Cwd \in Dir
  /\ NoLock \notin [by : Caller, old : BOOLEAN]
  /\ CliCall \subseteq Calls
  /\ {MaxCalls, MaxInputs, MaxTries, MaxFaults} \subseteq Nat

VARIABLES
  \* the file and its lock
  mounts,       \* the rows of mounts.json
  version,      \* its mtime: counts the writes
  lock,         \* NoLock, or who created the lock file and whether it is old by now
  \* the callers
  pc,           \* "none", "trying", "judged", "locked", "read" or "written"
  call,         \* the call each is making
  snap,         \* the rows each has read
  saw,          \* the lock file each has judged stale
  tries,        \* attempts to create the lock file
  result,       \* how its last call ended
  \* the poller
  stage,        \* "idle", "call", "child", "refresh", "route" or "ask"
  input,        \* what it is handling
  cache,        \* mountsCache
  cacheVersion, \* mountsMtimeMs
  stat,         \* the mtime a reload in progress has seen, or -1
  paired,       \* paired.json exists
  card,         \* the last prompt for a directory: its topic and its buttons
  \* history
  ledger,       \* the rows, had each call been executed in one piece as it wrote
  stolen,       \* a lock file was removed from under a caller by the stale rule
  missed,       \* the mtime up to which the poller may have missed a write: another
                \* process made the last one, or a reload failed to read it
  calls, inputs, faults  \* what is left of each bound

file == <<mounts, version, ledger>>
callers == <<pc, call, snap, saw, tries, result>>
memory == <<cache, cacheVersion, stat, missed>>
handler == <<stage, input, paired, card>>
bounds == <<calls, inputs, faults>>
vars == <<file, lock, stolen, callers, memory, handler, bounds>>

NoInput == [why |-> "none", topic |-> "*", dir |-> Cwd, wild |-> FALSE, seen |-> 0]
Idle == [kind |-> "clear", target |-> "*", dir |-> Cwd]
Wildcard == [target |-> "*", dir |-> Cwd, digest |-> FALSE]

\* install.sh creates the wildcard mount; `cta unpair' takes it away.  A prompt
\* from before may still be in the chat.
Init ==
  /\ mounts \in {<<>>, <<Wildcard>>}
  /\ version = 1
  /\ lock = NoLock
  /\ pc = [c \in Caller |-> "none"]
  /\ call = [c \in Caller |-> Idle]
  /\ snap = [c \in Caller |-> <<>>]
  /\ saw = [c \in Caller |-> NoLock]
  /\ tries = [c \in Caller |-> 0]
  /\ result = [c \in Caller |-> "ok"]
  /\ stage = "idle"
  /\ input = NoInput
  /\ cache = mounts /\ cacheVersion = 1 /\ stat = -1
  /\ paired = (mounts # <<>>)
  /\ card \in {NoCard} \cup {[topic |-> t, choices |-> <<Cwd>>] : t \in Topic}
  /\ ledger = mounts
  /\ stolen = FALSE
  /\ missed = 0
  /\ calls = MaxCalls /\ inputs = MaxInputs /\ faults = MaxFaults

----------------------------------------------------------------------------
(* The operations on the rows                                              *)

Mounted(rows, t) == \E i \in DOMAIN rows : rows[i].target = t

\* The elements of s at the indices in I, in their order.
Picked(s, I) ==
  LET kept[i \in 0..Len(s)] ==
        IF i = 0 THEN <<>> ELSE IF i \in I THEN Append(kept[i - 1], s[i]) ELSE kept[i - 1]
  IN  kept[Len(s)]

Without(rows, t) == Picked(rows, {i \in DOMAIN rows : rows[i].target # t})
NewRow(o) == [target |-> o.target, dir |-> o.dir, digest |-> FALSE]

\* Faulty variant: add does not look for the target.
RefusalUnchecked(o, rows) ==
  IF o.kind \in {"remove", "digest"} /\ ~Mounted(rows, o.target) THEN "absent" ELSE "none"

\* addMount throws on a target it finds mounted, removeMount and setDigest
\* return null for one they do not find.  Neither writes.
Refusal(o, rows) ==
  IF o.kind = "add" /\ Mounted(rows, o.target) THEN "duplicate"
  ELSE IF o.kind \in {"remove", "digest"} /\ ~Mounted(rows, o.target) THEN "absent"
  ELSE "none"

Changed(o, rows) ==
  CASE o.kind = "add"     -> Append(rows, NewRow(o))
    [] o.kind = "replace" -> Append(Without(rows, o.target), NewRow(o))
    [] o.kind = "remove"  -> Without(rows, o.target)
    [] o.kind = "digest"  -> [i \in DOMAIN rows |->
         IF rows[i].target = o.target THEN [rows[i] EXCEPT !.digest = ~@] ELSE rows[i]]
    [] o.kind = "clear"   -> <<>>

----------------------------------------------------------------------------
(* acquireLock, withLock and what runs inside                              *)

Holds(c) == pc[c] \in {"locked", "read", "written"}

Fault == faults > 0 /\ faults' = faults - 1 /\ UNCHANGED <<calls, inputs>>

\* The poller runs one callback at a time: none while a reload is under way.
MayRun(c) == c = Poller => stat = -1

\* Each pass of the loop opens the lock file with O_EXCL ...
OpenLock(c) ==
  /\ MayRun(c)
  /\ pc[c] = "trying"
  /\ tries[c] < MaxTries
  /\ lock = NoLock
  /\ lock' = [by |-> c, old |-> FALSE]
  /\ pc' = [pc EXCEPT ![c] = "locked"]
  /\ UNCHANGED <<file, stolen, call, snap, saw, tries, result, memory, handler, bounds>>

\* Faulty variant: a lock file is stale however young it is.
JudgeAny(c) ==
  /\ MayRun(c)
  /\ pc[c] = "trying"
  /\ tries[c] < MaxTries
  /\ lock # NoLock
  /\ tries' = [tries EXCEPT ![c] = @ + 1]
  /\ pc' = [pc EXCEPT ![c] = "judged"]
  /\ saw' = [saw EXCEPT ![c] = lock]
  /\ UNCHANGED <<file, lock, stolen, call, snap, result, memory, handler, bounds>>

\* Faulty variant: only the attempts that found a stale lock file are counted.
JudgeForever(c) ==
  /\ MayRun(c)
  /\ pc[c] = "trying"
  /\ tries[c] < MaxTries
  /\ lock # NoLock
  /\ IF lock.old
     THEN /\ pc' = [pc EXCEPT ![c] = "judged"]
          /\ saw' = [saw EXCEPT ![c] = lock]
          /\ tries' = [tries EXCEPT ![c] = @ + 1]
     ELSE UNCHANGED <<pc, saw, tries>>
  /\ UNCHANGED <<file, lock, stolen, call, snap, result, memory, handler, bounds>>

\* ... and, if it exists, looks how old it is.  A young one is waited for.
Judge(c) ==
  /\ MayRun(c)
  /\ pc[c] = "trying"
  /\ tries[c] < MaxTries
  /\ lock # NoLock
  /\ tries' = [tries EXCEPT ![c] = @ + 1]
  /\ IF lock.old
     THEN pc' = [pc EXCEPT ![c] = "judged"] /\ saw' = [saw EXCEPT ![c] = lock]
     ELSE UNCHANGED <<pc, saw>>
  /\ UNCHANGED <<file, lock, stolen, call, snap, result, memory, handler, bounds>>

\* Removes the lock file that is there now, which need not be the one it judged:
\* another process may have done the same, and made its own, in between.  Or the
\* old one belongs to a writer that is only slow.
RemoveStale(c) ==
  /\ pc[c] = "judged"
  /\ lock' = NoLock
  /\ stolen' = \/ stolen
               \/ lock # NoLock /\ lock # saw[c]
               \/ lock # NoLock /\ (lock.old /\ Holds(lock.by))
  /\ pc' = [pc EXCEPT ![c] = "trying"]
  /\ saw' = [saw EXCEPT ![c] = NoLock]
  /\ UNCHANGED <<file, call, snap, tries, result, memory, handler, bounds>>

Return(c, how) ==
  /\ pc' = [pc EXCEPT ![c] = "none"]
  /\ call' = [call EXCEPT ![c] = Idle]
  /\ snap' = [snap EXCEPT ![c] = <<>>]
  /\ tries' = [tries EXCEPT ![c] = 0]
  /\ result' = [result EXCEPT ![c] = IF c \in Cli THEN "ok" ELSE how]

\* After LOCK_RETRY_MAX attempts the call throws.
GiveUp(c) ==
  /\ MayRun(c)
  /\ pc[c] = "trying"
  /\ tries[c] = MaxTries
  /\ Return(c, "refused")
  /\ UNCHANGED <<file, lock, stolen, saw, memory, handler, bounds>>

\* Faulty variant: the lock file is removed as soon as the rows are read.
ReadRowsUnlock(c) ==
  /\ pc[c] = "locked"
  /\ pc' = [pc EXCEPT ![c] = "read"]
  /\ snap' = [snap EXCEPT ![c] = mounts]
  /\ lock' = NoLock
  /\ UNCHANGED <<file, stolen, call, saw, tries, result, memory, handler, bounds>>

ReadRows(c) ==
  /\ pc[c] = "locked"
  /\ pc' = [pc EXCEPT ![c] = "read"]
  /\ snap' = [snap EXCEPT ![c] = mounts]
  /\ UNCHANGED <<file, lock, stolen, call, saw, tries, result, memory, handler, bounds>>

\* readMounts or writeMountsAtomic throws.  Nothing in the latter can fail once the
\* rename is done, so the file is as it was; the lock is let go all the same.
ThrowsInside(c) ==
  /\ pc[c] = "locked" \/ (pc[c] = "read" /\ Refusal(call[c], snap[c]) = "none")
  /\ Fault
  /\ pc' = [pc EXCEPT ![c] = "written"]
  /\ result' = [result EXCEPT ![c] = IF c \in Cli THEN "ok" ELSE "failed"]
  /\ UNCHANGED <<file, lock, stolen, call, snap, saw, tries, memory, handler>>

\* The rows are written to a temporary file, which takes the file's place.
WriteRows(c) ==
  /\ pc[c] = "read"
  /\ pc' = [pc EXCEPT ![c] = "written"]
  /\ LET refusal == Refusal(call[c], snap[c]) IN
     /\ result' = [result EXCEPT ![c] = IF c \in Cli THEN "ok"
                                        ELSE IF refusal = "none" THEN "ok" ELSE refusal]
     /\ IF refusal = "none"
        THEN /\ mounts' = Changed(call[c], snap[c])
             /\ ledger' = IF Refusal(call[c], ledger) = "none"
                          THEN Changed(call[c], ledger) ELSE ledger
             /\ version' = version + 1
             /\ missed' = IF c = Poller THEN missed ELSE version'
        ELSE UNCHANGED <<file, missed>>
  /\ UNCHANGED <<lock, stolen, call, snap, saw, tries, cache, cacheVersion, stat, handler, bounds>>

\* The lock file that is there is removed, whoever made it; a failing unlink is
\* passed over, and the lock file left to the stale rule.
Release(c) ==
  /\ pc[c] = "written"
  /\ \/ lock' = NoLock /\ UNCHANGED bounds
     \/ lock' = lock /\ Fault
  /\ Return(c, result[c])
  /\ UNCHANGED <<file, stolen, saw, memory, handler>>

CallStep(c) ==
  \/ OpenLock(c) \/ Judge(c) \/ RemoveStale(c) \/ GiveUp(c)
  \/ ReadRows(c) \/ WriteRows(c) \/ ThrowsInside(c) \/ Release(c)

\* STALE_LOCK_MS passes.  No fairness is asked of it.
LockAges ==
  /\ lock # NoLock
  /\ ~lock.old
  /\ lock' = [lock EXCEPT !.old = TRUE]
  /\ UNCHANGED <<file, stolen, callers, memory, handler, bounds>>

Starts(c, o) ==
  /\ pc[c] = "none"
  /\ pc' = [pc EXCEPT ![c] = "trying"]
  /\ call' = [call EXCEPT ![c] = o]
  /\ UNCHANGED <<snap, saw, tries, result>>

CliStarts(c, o) ==
  /\ calls > 0
  /\ calls' = calls - 1
  /\ Starts(c, o)
  /\ UNCHANGED <<file, lock, stolen, memory, handler, inputs, faults>>

\* A caller dies where it is.  A poller that waits for its process sees it fail.
Dies(c) ==
  /\ pc[c] # "none"
  /\ Fault
  /\ Return(c, "died")
  /\ saw' = [saw EXCEPT ![c] = NoLock]
  /\ UNCHANGED <<file, lock, stolen, memory, handler>>

----------------------------------------------------------------------------
(* The poller                                                              *)

\* mountCandidates: the mounted directories and CLAUDE_CWD, each once (no more
\* than six, which Dir never exceeds here).
Candidates(rows) ==
  LET dirs == Append([i \in DOMAIN rows |-> rows[i].dir], Cwd)
  IN  Picked(dirs, {i \in DOMAIN dirs : \A j \in 1..(i - 1) : dirs[j] # dirs[i]})

DirOf(rows, t) == rows[CHOOSE i \in DOMAIN rows : rows[i].target = t].dir
Add(t, d) == [kind |-> "add", target |-> t, dir |-> d]

Free == stage = "idle" /\ stat = -1
Arrives == Free /\ inputs > 0 /\ inputs' = inputs - 1 /\ UNCHANGED <<calls, faults>>

\* The handler's next stage; its input is forgotten when it ends.
GoesOn(next) ==
  /\ stage' = next
  /\ input' = IF next = "idle" THEN NoInput ELSE input

\* The poller makes the call itself and goes on when it returns.  It has decided
\* so by the copy it has, of the mtime that is noted here.
CallsStore(why, o, wild) ==
  /\ Starts(Poller, o)
  /\ stage' = "call"
  /\ input' = [why |-> why, topic |-> o.target, dir |-> o.dir, wild |-> wild, seen |-> cacheVersion]

\* A message: its topic is mounted, or the wildcard is and gives it a mount of
\* its own (autoSpawnFromWildcard), or it has none.
Message(t) ==
  /\ Arrives
  /\ paired
  /\ IF Mounted(cache, t) THEN UNCHANGED <<callers, stage, input>>
     ELSE IF Mounted(cache, "*") THEN CallsStore("message", Add(t, DirOf(cache, "*")), TRUE)
     ELSE /\ stage' = "ask"
          /\ input' = [NoInput EXCEPT !.why = "message", !.topic = t]
          /\ UNCHANGED callers
  /\ UNCHANGED <<file, lock, stolen, memory, paired, card>>

\* A tap on button i of the prompt: the directory that is the i-th candidate now.
Tap(i) ==
  /\ Arrives
  /\ paired
  /\ card # NoCard
  /\ i \in DOMAIN card.choices
  /\ IF i \in DOMAIN Candidates(cache)
     THEN CallsStore("tap", Add(card.topic, Candidates(cache)[i]), FALSE)
     ELSE UNCHANGED <<callers, stage, input>>
  /\ UNCHANGED <<file, lock, stolen, memory, paired, card>>

\* /pair: paired.json is written, and the wildcard mount made if the file has none.
Pair ==
  /\ Arrives
  /\ paired' = TRUE
  /\ IF Mounted(mounts, "*") THEN UNCHANGED <<callers, stage, input>>
     ELSE CallsStore("pair", Add("*", Cwd), FALSE)
  /\ UNCHANGED <<file, lock, stolen, memory, card>>

\* /mount, /dm, /unmount and /unpair run mount-store.ts and wait for it.
\* /unpair has removed paired.json by then.  (A process that outlived a crash of
\* the poller is let finish before the next one is started.)
Command(why, o) ==
  /\ Arrives
  /\ paired
  /\ pc[Child] = "none"
  /\ Starts(Child, o)
  /\ stage' = "child"
  /\ input' = [NoInput EXCEPT !.why = why, !.topic = o.target, !.dir = o.dir]
  /\ paired' = (why # "unpair")
  /\ UNCHANGED <<file, lock, stolen, memory, card>>

Commands ==
  \/ \E t \in Topic, d \in Dir : Command("mount", Add(t, d))
  \/ \E t \in Topic : Command("unmount", [Add(t, Cwd) EXCEPT !.kind = "remove"])
  \/ Command("unpair", Idle)

\* Faulty variant: nothing is reloaded after an automatic mount.
AfterCallNoReload ==
  CASE input.why = "message" -> IF result[Poller] = "ok" THEN "route" ELSE "ask"
    [] input.why = "tap" -> IF result[Poller] = "ok" THEN "refresh" ELSE "idle"
    [] OTHER -> "idle"

\* What follows a call of the poller's own: the reload if it changed the rows (not
\* after /pair).  A message whose call failed is turned away without another look
\* at the copy.
AfterCall ==
  IF result[Poller] = "ok" /\ input.why # "pair" THEN "refresh"
  ELSE IF input.why = "message" THEN "ask" ELSE "idle"

CallReturned ==
  /\ stage = "call"
  /\ stat = -1
  /\ pc[Poller] = "none"
  /\ GoesOn(AfterCall)
  /\ UNCHANGED <<file, lock, stolen, callers, memory, paired, card, bounds>>

\* After /unpair the poller reloads whatever became of the process.
ChildReturned ==
  /\ stage = "child"
  /\ pc[Child] = "none"
  /\ GoesOn(IF result[Child] = "ok" \/ input.why = "unpair" THEN "refresh" ELSE "idle")
  /\ UNCHANGED <<file, lock, stolen, callers, memory, paired, card, bounds>>

\* Where the handler goes on after its reload.  The buttons of a prompt are gone
\* once a tap took effect.
Resume ==
  /\ GoesOn(IF stage # "refresh" THEN stage ELSE IF input.why = "message" THEN "route" ELSE "idle")
  /\ card' = IF stage = "refresh" /\ input.why = "tap" THEN NoCard ELSE card
  /\ UNCHANGED paired

\* refreshMountsIfChanged, by a handler or by the housekeeping timer, which runs
\* whenever the event loop is free.
MayReload ==
  /\ stat = -1
  /\ stage \in {"idle", "call", "refresh"}
  /\ pc[Poller] \in {"none", "trying"}

\* Faulty variant: the timer does not reload.
LookAtMtimeOwn ==
  /\ MayReload
  /\ stage = "refresh"
  /\ IF version # cacheVersion THEN stat' = version /\ UNCHANGED handler
     ELSE Resume /\ UNCHANGED stat
  /\ UNCHANGED <<file, lock, stolen, callers, cache, cacheVersion, missed, bounds>>

LookAtMtime ==
  /\ MayReload
  /\ version # cacheVersion \/ stage = "refresh"
  /\ IF version # cacheVersion THEN stat' = version /\ UNCHANGED handler
     ELSE Resume /\ UNCHANGED stat
  /\ UNCHANGED <<file, lock, stolen, callers, cache, cacheVersion, missed, bounds>>

\* Another process may have replaced the file since its mtime was read: the mtime
\* that is kept is then the older one, and the next reload sees a difference.  A
\* read that fails leaves copy and mtime as they were.
LoadRows ==
  /\ stat # -1
  /\ stat' = -1
  /\ \/ cache' = mounts /\ cacheVersion' = stat /\ UNCHANGED <<missed, bounds>>
     \/ Fault /\ missed' = version /\ UNCHANGED <<cache, cacheVersion>>
  /\ Resume
  /\ UNCHANGED <<file, lock, stolen, callers>>

\* After its automatic mount a message finds its topic in the copy, or it does not.
TurnedAway == stage = "ask" \/ (stage = "route" /\ ~Mounted(cache, input.topic))

\* The message goes to the daemon of its topic, or the user is asked to choose a
\* directory and to send it again.
Route ==
  /\ stage \in {"route", "ask"}
  /\ stat = -1
  /\ GoesOn("idle")
  /\ card' = IF TurnedAway THEN [topic |-> input.topic, choices |-> Candidates(cache)]
             ELSE card
  /\ UNCHANGED <<file, lock, stolen, callers, memory, paired, bounds>>

\* The poller dies and is started again: it has no copy, and loads the file first.
Restart ==
  /\ Fault
  /\ Return(Poller, "died")
  /\ saw' = [saw EXCEPT ![Poller] = NoLock]
  /\ stage' = "refresh"
  /\ input' = NoInput
  /\ cache' = <<>> /\ cacheVersion' = 0 /\ stat' = -1 /\ missed' = version
  /\ UNCHANGED <<file, lock, stolen, paired, card>>

PollerStep == CallReturned \/ ChildReturned \/ LookAtMtime \/ LoadRows \/ Route

Next ==
  \/ \E c \in Caller : CallStep(c)
  \/ \E c \in Cli, o \in CliCall : CliStarts(c, o)
  \/ \E c \in Caller \ {Poller} : Dies(c)
  \/ LockAges
  \/ \E t \in Topic : Message(t)
  \/ \E i \in 1..Cardinality(Dir) : Tap(i)
  \/ Pair
  \/ Commands
  \/ PollerStep
  \/ Restart

\* The poller and the processes it waits for are given time; nothing is assumed
\* of the other processes, nor of the age a lock file reaches.
Fairness ==
  /\ WF_vars(PollerStep)
  /\ WF_vars(CallStep(Poller))
  /\ WF_vars(CallStep(Child))

Spec == Init /\ [][Next]_vars /\ Fairness

----------------------------------------------------------------------------
(* Properties                                                              *)

\* The variables keep their types; in particular the file never has two rows for
\* one target, whatever calls overlap.
Table(rows) ==
  /\ rows \in Seq(Rows)
  /\ \A i, j \in DOMAIN rows : rows[i].target = rows[j].target => i = j

TypeOK ==
  /\ Table(mounts) /\ Table(cache) /\ \A c \in Caller : Table(snap[c])
  /\ version \in Nat \ {0} /\ missed \in 0..version
  /\ \A k \in {lock} \cup {saw[c] : c \in Caller} : k = NoLock \/ (k.by \in Caller /\ k.old \in BOOLEAN)
  /\ pc \in [Caller -> {"none", "trying", "judged", "locked", "read", "written"}]
  /\ call \in [Caller -> Calls]
  /\ tries \in [Caller -> 0..MaxTries]
  /\ result \in [Caller -> {"ok", "duplicate", "absent", "refused", "failed", "died"}]
  /\ stage \in {"idle", "call", "child", "refresh", "route", "ask"}
  /\ input.why \in {"none", "message", "tap", "pair", "mount", "unmount", "unpair"}
  /\ input.topic \in Target /\ input.dir \in Dir /\ input.wild \in BOOLEAN /\ input.seen \in 0..version
  /\ cacheVersion \in 0..version /\ (stat = -1 \/ stat \in 1..version)
  /\ paired \in BOOLEAN /\ stolen \in BOOLEAN
  /\ card = NoCard \/ (card.topic \in Topic /\ card.choices \in Seq(Dir))

\* Unless the stale rule took a lock file from under somebody, whoever is inside
\* owns the lock file that is there; so there is one of them (mount-store.ts:61-70).
HolderOwnsLock == ~stolen => \A c \in Caller : Holds(c) => lock # NoLock /\ lock.by = c

\* Unless it did, no call's change is lost or undone by another that read the rows
\* before it: the file is what the calls make of it one after the other,
\* also when some of them died half-way.
NoLostChange == ~stolen => mounts = ledger

\* The poller's own writes never turn a message away.  One that found the wildcard
\* mounted is answered with a question for a directory only if its own call got no
\* lock or failed to read or write the file, or if, after the copy that the message
\* found, another process wrote the file (poller.ts:2299-2302: "a concurrent message
\* won") or a reload of the poller failed.
OwnWritesTurnNoneAway ==
  TurnedAway /\ input.wild => result[Poller] \in {"refused", "failed"} \/ missed > input.seen

\* The poller never hangs: each message, tap and command ends, though the holder
\* of the lock be stopped for good.
HandlerReturns == []<>(stage = "idle")

\* Once the file is left alone, the poller routes by what is in it.
CacheCatchesUp == <>[](cache = mounts)
=============================================================================
