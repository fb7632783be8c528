---------------------------- MODULE ApprovalGate ----------------------------
(***************************************************************************)
(* The agentic mode: executor runs started by the poller (agentic-runner,  *)
(* launchAgentic), the gate hook that each of their tool calls goes        *)
(* through (gate-hook.ts), and the approvals directory by which the hook   *)
(* and the poller talk (approval-store.ts): request and decision files.    *)
(*                                                                         *)
(* A hook is a process of its own: it interleaves with the poller, which   *)
(* runs one callback at a time.  A callback that reads a file and then     *)
(* writes one is split into two steps, with `op' holding the poller.       *)
(*                                                                         *)
(* Time: each request is either before its expiresAt or past it; the hook  *)
(* and the poller read the same clock.                                     *)
(***************************************************************************)
EXTENDS AutonomyPolicy, FiniteSets

CONSTANTS
  Topic,       \* topics of the chat
  MaxRuns,     \* bound: executor runs
  MaxCalls,    \* bound: tool calls of all the runs
  Call,        \* the tool calls an executor may propose
  NoCall,      \* stands for no tool call
  Sender,      \* users whose taps and messages reach the poller
  Owner,       \* the paired user
  MaxRestarts, \* bound: restarts of the poller
  MaxFaults    \* bound: failed writes, unlinks and replies

Run == 1..MaxRuns
Id == 1..MaxCalls

ASSUME GateConstants ==
  /\ Owner \in Sender
  /\ NoCall \notin Call
  /\ MaxRuns \in Nat /\ MaxCalls \in Nat
  /\ MaxRestarts \in Nat
  /\ MaxFaults \in Nat

VARIABLES
  \* executor runs
  phase,     \* phase[r]: "idle", "ack", "working" or "over"
  topicOf,   \* topicOf[r]: the topic r works for
  resume,    \* runs that resume the conversation of their topic's session file
  \* gate hooks
  hook,      \* hook[i]: where the hook of call i is
  runOf,     \* runOf[i]: the run that proposed i
  call,      \* call[i]: what was proposed
  answer,    \* answer[i]: what the hook is about to tell the executor
  outcome,   \* outcome[i]: "none", "ran", "refused", or "moot" (nobody was left to tell)
  \* the approvals directory
  request,   \* request[i]: the status in i's request file, or "none"
  decision,  \* decision[i]: the verb in i's decision file, or "none"
  clock,     \* clock[i]: "unset", "open" (before expiresAt) or "past"
  \* the chat
  card,      \* card[i]: "none", "sending" (or given up) or "shown"
  \* memory of the poller
  inFlight,  \* topics held by a run: agenticInFlight
  known,     \* requests it has rendered: approvalsSent
  awaiting,  \* cards whose enqueueTracked has not returned
  stash,     \* the request an edit is awaited for, or 0: pendingAgenticEdit
  op,        \* a callback between its read and its write, or <<>>
  \* history
  consent,   \* consent[i]: the owner's last decision on i, or "none"
  late,      \* requests an edit text was taken for when their hook no longer looked
  leaked,    \* topics left held by an acknowledgement that failed
  orphaned,  \* runs that outlived the poller that launched them
  restarts,  \* restarts left
  faults     \* faults left

runs == <<phase, topicOf, resume>>
hooks == <<hook, runOf, call, answer, outcome>>
files == <<request, decision, clock>>
poller == <<inFlight, known, awaiting, stash, op>>
history == <<consent, late, leaked, orphaned>>
bounds == <<restarts, faults>>
vars == <<runs, hooks, files, card, poller, history, bounds>>

Verb == {"allow", "deny", "edit"}

GateInit ==
  /\ phase = [r \in Run |-> "idle"]
  /\ topicOf = [r \in Run |-> "none"]
  /\ resume = {}
  /\ hook = [i \in Id |-> "idle"]
  /\ runOf = [i \in Id |-> 0]
  /\ call = [i \in Id |-> NoCall]
  /\ answer = [i \in Id |-> "none"]
  /\ outcome = [i \in Id |-> "none"]
  /\ request = [i \in Id |-> "none"]
  /\ decision = [i \in Id |-> "none"]
  /\ clock = [i \in Id |-> "unset"]
  /\ card = [i \in Id |-> "none"]
  /\ inFlight = {}
  /\ known = {}
  /\ awaiting = {}
  /\ stash = 0
  /\ op = <<>>
  /\ consent = [i \in Id |-> "none"]
  /\ late = {}
  /\ leaked = {}
  /\ orphaned = {}
  /\ restarts = MaxRestarts
  /\ faults = MaxFaults

Free == op = <<>>
Fails == faults > 0 /\ faults' = faults - 1

----------------------------------------------------------------------------
(* Executor runs: launchAgentic, runAgentic                                *)

\* The first run of a topic writes its session file, which then stays.
HasSession(t) == \E r \in Run : topicOf[r] = t

\* Faulty variant: a busy topic is not looked at.
LaunchUnchecked(r, t) ==
  /\ Free
  /\ phase[r] = "idle"
  /\ \A q \in Run : q < r => phase[q] # "idle"
  /\ phase' = [phase EXCEPT ![r] = "ack"]
  /\ topicOf' = [topicOf EXCEPT ![r] = t]
  /\ inFlight' = inFlight \cup {t}
  /\ resume' = IF HasSession(t) THEN resume \cup {r} ELSE resume
  /\ UNCHANGED <<hooks, files, card, known, awaiting, stash, op, history, bounds>>

\* A topic with a run in flight is told so and nothing else happens.  The
\* session file is read (the run resumes its conversation), or written anew.
Launch(r, t) == t \notin inFlight /\ LaunchUnchecked(r, t)

AckSent(r) ==
  /\ Free
  /\ phase[r] = "ack"
  /\ phase' = [phase EXCEPT ![r] = "working"]
  /\ UNCHANGED <<topicOf, resume, hooks, files, card, poller, history, bounds>>

\* The acknowledgement throws before the try block: nothing releases the topic.
AckThrows(r) ==
  /\ Free
  /\ phase[r] = "ack"
  /\ Fails
  /\ phase' = [phase EXCEPT ![r] = "over"]
  /\ leaked' = leaked \cup {topicOf[r]}
  /\ UNCHANGED <<topicOf, resume, hooks, files, card, poller, consent, late,
                 orphaned, restarts>>

Proposed(r) == {i \in Id : runOf[i] = r}

\* A resumed conversation proves unusable before any output: one retry, on a
\* fresh session.
Heal(r) ==
  /\ Free
  /\ phase[r] = "working" /\ r \notin orphaned
  /\ r \in resume /\ Proposed(r) = {}
  /\ resume' = resume \ {r}
  /\ UNCHANGED <<phase, topicOf, hooks, files, card, poller, history, bounds>>

\* The executor exits, fails or is killed by the timers (SIGTERM, SIGKILL),
\* whatever its hooks are doing.  The finally block releases the topic, unless
\* the poller that launched it is gone.
RunEnds(r) ==
  /\ Free
  /\ phase[r] = "working"
  /\ phase' = [phase EXCEPT ![r] = "over"]
  /\ inFlight' = IF r \in orphaned THEN inFlight ELSE inFlight \ {topicOf[r]}
  /\ UNCHANGED <<topicOf, resume, hooks, files, card, known, awaiting, stash, op,
                 history, bounds>>

\* The poller restarts: its memory is gone, an executor may survive it.
Restart ==
  /\ restarts > 0
  /\ restarts' = restarts - 1
  /\ \E survivors \in SUBSET {r \in Run : phase[r] = "working"} :
       /\ phase' = [r \in Run |-> IF phase[r] \in {"ack", "working"} /\ r \notin survivors
                                  THEN "over" ELSE phase[r]]
       /\ orphaned' = orphaned \cup survivors
  /\ inFlight' = {} /\ known' = {} /\ awaiting' = {}
  /\ stash' = 0
  /\ op' = <<>>
  /\ leaked' = {}
  /\ UNCHANGED <<topicOf, resume, hooks, files, card, consent, late, faults>>

----------------------------------------------------------------------------
(* The gate hook: decide                                                   *)

Looking(i) == hook[i] \in {"look", "seen"}

\* The executor proposes a tool call and its hook starts.
Propose(i, r, c) ==
  /\ hook[i] = "idle"
  /\ \A j \in Id : j < i => hook[j] # "idle"
  /\ phase[r] = "working"
  /\ hook' = [hook EXCEPT ![i] = "classify"]
  /\ runOf' = [runOf EXCEPT ![i] = r]
  /\ call' = [call EXCEPT ![i] = c]
  /\ UNCHANGED <<runs, answer, outcome, files, card, poller, history, bounds>>

Answers(i, a) ==
  /\ hook' = [hook EXCEPT ![i] = "closing"]
  /\ answer' = [answer EXCEPT ![i] = a]

\* A call that need not be asked about is answered at once.
AnswerByTier(i) ==
  /\ hook[i] = "classify"
  /\ Classify(call[i]) # "ask"
  /\ Answers(i, IF Classify(call[i]) = "silent" THEN "silent" ELSE "policy")
  /\ UNCHANGED <<runs, runOf, call, outcome, files, card, poller, history, bounds>>

WriteRequest(i) ==
  /\ hook[i] = "classify"
  /\ Classify(call[i]) = "ask"
  /\ request' = [request EXCEPT ![i] = "pending"]
  /\ clock' = [clock EXCEPT ![i] = "open"]
  /\ hook' = [hook EXCEPT ![i] = "look"]
  /\ UNCHANGED <<runs, runOf, call, answer, outcome, decision, card, poller, history, bounds>>

WriteRequestFails(i) ==
  /\ hook[i] = "classify"
  /\ Classify(call[i]) = "ask"
  /\ Fails
  /\ Answers(i, "failed")
  /\ UNCHANGED <<runs, runOf, call, outcome, files, card, poller, history, restarts>>

\* One turn of the loop: past expiresAt it gives up without another look.
Look(i) ==
  /\ hook[i] = "look"
  /\ \/ clock[i] = "past" /\ Answers(i, "expired")
     \/ /\ clock[i] = "open" /\ decision[i] # "none"
        /\ hook' = [hook EXCEPT ![i] = "seen"]
        /\ UNCHANGED answer
  /\ UNCHANGED <<runs, runOf, call, outcome, files, card, poller, history, bounds>>

\* Faulty variant: an edit is taken for a rejection.
ReadDecisionNoEdit(i) ==
  /\ hook[i] = "seen"
  /\ IF decision[i] = "none" THEN hook' = [hook EXCEPT ![i] = "look"] /\ UNCHANGED answer
     ELSE Answers(i, IF decision[i] = "allow" THEN "allow" ELSE "deny")
  /\ UNCHANGED <<runs, runOf, call, outcome, files, card, poller, history, bounds>>

\* A decision file that is gone again sends the hook back to its loop.
ReadDecision(i) ==
  /\ hook[i] = "seen"
  /\ IF decision[i] = "none" THEN hook' = [hook EXCEPT ![i] = "look"] /\ UNCHANGED answer
     ELSE Answers(i, decision[i])
  /\ UNCHANGED <<runs, runOf, call, outcome, files, card, poller, history, bounds>>

\* cleanup: both files go; an unlink that fails is passed over.
Cleanup(i) ==
  \/ /\ request' = [request EXCEPT ![i] = "none"]
     /\ decision' = [decision EXCEPT ![i] = "none"]
     /\ UNCHANGED faults
  \/ /\ Fails
     /\ request' \in {request, [request EXCEPT ![i] = "none"]}
     /\ decision' \in {decision, [decision EXCEPT ![i] = "none"]}

Permits(a) == a \in {"silent", "allow", "edit"}

\* The hook cleans up and prints its answer; the executor acts on it if it lives.
Answer(i) ==
  /\ hook[i] = "closing"
  /\ Cleanup(i)
  /\ hook' = [hook EXCEPT ![i] = "done"]
  /\ outcome' = [outcome EXCEPT ![i] =
                   IF phase[runOf[i]] # "working" THEN "moot"
                   ELSE IF Permits(answer[i]) THEN "ran" ELSE "refused"]
  /\ UNCHANGED <<runs, runOf, call, answer, clock, card, poller, history, restarts>>

\* The hook of an executor that is gone may die with it.
HookDies(i) ==
  /\ hook[i] \notin {"idle", "done"}
  /\ phase[runOf[i]] = "over"
  /\ hook' = [hook EXCEPT ![i] = "done"]
  /\ outcome' = [outcome EXCEPT ![i] = "moot"]
  /\ UNCHANGED <<runs, runOf, call, answer, files, card, poller, history, bounds>>

Expire(i) ==
  /\ clock[i] = "open"
  /\ clock' = [clock EXCEPT ![i] = "past"]
  /\ UNCHANGED <<runs, hooks, request, decision, card, poller, history, bounds>>

----------------------------------------------------------------------------
(* The poller: approvalDispatch, onButtonPress, onInboundMessage           *)

\* A pending request gets its card.  The queue knows the delivery key of a card
\* it was given before, so a restart does not show it twice.
RenderCard(i) ==
  /\ Free
  /\ request[i] = "pending" /\ clock[i] = "open" /\ i \notin known
  /\ known' = known \cup {i}
  /\ awaiting' = awaiting \cup {i}
  /\ card' = [card EXCEPT ![i] = IF @ = "none" THEN "sending" ELSE @]
  /\ UNCHANGED <<runs, hooks, files, inFlight, stash, op, history, bounds>>

\* Faulty variant: only requests nobody has rendered yet are reaped.
ReapUnsent(i) ==
  /\ Free
  /\ request[i] = "pending" /\ clock[i] = "past"
  /\ known' = known \ {i}
  /\ Cleanup(i)
  /\ UNCHANGED <<runs, hooks, clock, card, inFlight, awaiting, stash, op, history, restarts>>

\* An expired request is removed, whoever left it there.
Reap(i) ==
  /\ Free
  /\ request[i] # "none" /\ clock[i] = "past"
  /\ known' = known \ {i}
  /\ Cleanup(i)
  /\ UNCHANGED <<runs, hooks, clock, card, inFlight, awaiting, stash, op, history, restarts>>

CardShown(i) ==
  /\ card[i] = "sending"
  /\ card' = [card EXCEPT ![i] = "shown"]
  /\ UNCHANGED <<runs, hooks, files, poller, history, bounds>>

\* enqueueTracked returns, whatever became of the card; markSent reads the request.
EnqueueReturns(i) ==
  /\ Free
  /\ i \in awaiting
  /\ awaiting' = awaiting \ {i}
  /\ op' = IF request[i] = "pending" THEN <<"mark", i>> ELSE <<>>
  /\ UNCHANGED <<runs, hooks, files, card, inFlight, known, stash, history, bounds>>

EnqueueThrows(i) ==
  /\ Free
  /\ i \in awaiting
  /\ Fails
  /\ awaiting' = awaiting \ {i}
  /\ known' = known \ {i}
  /\ card' = [card EXCEPT ![i] = IF @ = "sending" THEN "none" ELSE @]
  /\ UNCHANGED <<runs, hooks, files, inFlight, stash, op, history, restarts>>

\* markSent writes back what it read: a request removed meanwhile is there again.
MarkSent(i) ==
  /\ op = <<"mark", i>>
  /\ op' = <<>>
  /\ request' = [request EXCEPT ![i] = "sent"]
  /\ UNCHANGED <<runs, hooks, decision, clock, card, inFlight, known, awaiting, stash, history,
                 bounds>>

\* Its write fails: the card will be rendered again.
MarkSentFails(i) ==
  /\ op = <<"mark", i>>
  /\ Fails
  /\ op' = <<>>
  /\ known' = known \ {i}
  /\ UNCHANGED <<runs, hooks, files, card, inFlight, awaiting, stash, history, restarts>>

\* A tap of the owner on a request that is there and not expired; any other
\* tap is only answered.  Edit waits for the owner's next message.
Tap(i, verb, u) ==
  /\ Free
  /\ u = Owner
  /\ card[i] = "shown"
  /\ request[i] # "none" /\ clock[i] = "open"
  /\ IF verb = "edit" THEN stash' = i /\ UNCHANGED op
     ELSE op' = <<verb, i, u>> /\ UNCHANGED stash
  /\ UNCHANGED <<runs, hooks, files, card, inFlight, known, awaiting, history, bounds>>

Decides(i, verb, u) ==
  /\ decision' = [decision EXCEPT ![i] = verb]
  /\ consent' = IF u = Owner THEN [consent EXCEPT ![i] = verb] ELSE consent

\* The decision file is written, also when the request went away meanwhile.
WriteDecision(i, verb, u) ==
  /\ op = <<verb, i, u>>
  /\ op' = <<>>
  /\ Decides(i, verb, u)
  /\ UNCHANGED <<runs, hooks, request, clock, card, inFlight, known, awaiting, stash, late,
                 leaked, orphaned, bounds>>

\* The write throws, and so does the callback: the tap decided nothing.
WriteDecisionFails(i, verb, u) ==
  /\ op = <<verb, i, u>>
  /\ Fails
  /\ op' = <<>>
  /\ UNCHANGED <<runs, hooks, files, card, inFlight, known, awaiting, stash, history, restarts>>

\* Faulty variant: a stash that has expired is still used.
TakeEditStale(t, u) ==
  /\ Free
  /\ stash # 0 /\ u = Owner
  /\ topicOf[runOf[stash]] = t
  /\ stash' = 0
  /\ Decides(stash, "edit", u)
  /\ late' = IF Looking(stash) THEN late ELSE late \cup {stash}
  /\ UNCHANGED <<runs, hooks, request, clock, card, inFlight, known, awaiting, op, leaked,
                 orphaned, bounds>>

\* The owner's next plain message in the topic of the stash is the edit.
TakeEdit(t, u) ==
  /\ Free
  /\ stash # 0 /\ u = Owner
  /\ clock[stash] = "open"
  /\ topicOf[runOf[stash]] = t
  /\ stash' = 0
  /\ Decides(stash, "edit", u)
  /\ late' = IF Looking(stash) THEN late ELSE late \cup {stash}
  /\ UNCHANGED <<runs, hooks, request, clock, card, inFlight, known, awaiting, op, leaked,
                 orphaned, bounds>>

\* The write throws before the stash is cleared: the edit is still awaited.
TakeEditFails(t, u) ==
  /\ Free
  /\ stash # 0 /\ u = Owner
  /\ clock[stash] = "open"
  /\ topicOf[runOf[stash]] = t
  /\ Fails
  /\ UNCHANGED <<runs, hooks, files, card, poller, history, restarts>>

\* An expired stash is dropped and the message goes its usual way.
DropStash(u) ==
  /\ Free
  /\ stash # 0 /\ u = Owner
  /\ clock[stash] = "past"
  /\ stash' = 0
  /\ UNCHANGED <<runs, hooks, files, card, inFlight, known, awaiting, op, history, bounds>>

----------------------------------------------------------------------------
Runner ==
  \/ \E r \in Run, t \in Topic : Launch(r, t)
  \/ \E r \in Run : AckSent(r) \/ AckThrows(r) \/ Heal(r) \/ RunEnds(r)
  \/ Restart

Hook ==
  \/ \E i \in Id, r \in Run, c \in Call : Propose(i, r, c)
  \/ \E i \in Id : \/ AnswerByTier(i) \/ WriteRequest(i) \/ WriteRequestFails(i)
                   \/ Look(i) \/ ReadDecision(i) \/ Answer(i) \/ HookDies(i) \/ Expire(i)

Poller ==
  \/ \E i \in Id : \/ RenderCard(i) \/ Reap(i) \/ CardShown(i)
                   \/ EnqueueReturns(i) \/ EnqueueThrows(i) \/ MarkSent(i) \/ MarkSentFails(i)
  \/ \E i \in Id, verb \in Verb, u \in Sender :
       Tap(i, verb, u) \/ WriteDecision(i, verb, u) \/ WriteDecisionFails(i, verb, u)
  \/ \E t \in Topic, u \in Sender : TakeEdit(t, u) \/ TakeEditFails(t, u)
  \/ \E u \in Sender : DropStash(u)

Next == Runner \/ Hook \/ Poller

\* Hooks loop and time passes; the poller's callbacks return, its tick comes
\* round, and its timers end every run it still knows.  Nobody has to tap,
\* write or propose anything.
Fairness ==
  /\ \A r \in Run : WF_vars(AckSent(r)) /\ WF_vars(RunEnds(r))
  /\ \A i \in Id :
       /\ WF_vars(AnswerByTier(i) \/ WriteRequest(i) \/ Look(i) \/ ReadDecision(i) \/ Answer(i))
       /\ WF_vars(Expire(i))
       /\ WF_vars(RenderCard(i)) /\ WF_vars(Reap(i)) /\ WF_vars(EnqueueReturns(i))
       /\ WF_vars(MarkSent(i))
       /\ \A verb \in Verb, u \in Sender : WF_vars(WriteDecision(i, verb, u))

Spec == GateInit /\ [][Next]_vars /\ Fairness

----------------------------------------------------------------------------
(* Properties                                                              *)

\* Every variable has its type, and a run that has begun has a topic.
TypeOK ==
  /\ phase \in [Run -> {"idle", "ack", "working", "over"}]
  /\ topicOf \in [Run -> Topic \cup {"none"}]
  /\ \A r \in Run : phase[r] # "idle" => topicOf[r] \in Topic
  /\ resume \subseteq Run /\ orphaned \subseteq Run
  /\ hook \in [Id -> {"idle", "classify", "look", "seen", "closing", "done"}]
  /\ runOf \in [Id -> Run \cup {0}]
  /\ call \in [Id -> Call \cup {NoCall}]
  /\ answer \in [Id -> Verb \cup {"none", "silent", "policy", "failed", "expired"}]
  /\ outcome \in [Id -> {"none", "ran", "refused", "moot"}]
  /\ request \in [Id -> {"none", "pending", "sent"}]
  /\ decision \in [Id -> Verb \cup {"none"}]
  /\ clock \in [Id -> {"unset", "open", "past"}]
  /\ card \in [Id -> {"none", "sending", "shown"}]
  /\ inFlight \subseteq Topic /\ leaked \subseteq Topic
  /\ known \subseteq Id /\ awaiting \subseteq Id
  /\ late \subseteq Id
  /\ stash \in Id \cup {0}
  /\ op \in {<<>>} \cup ({"mark"} \X Id) \cup ((Verb \ {"edit"}) \X Id \X Sender)
  /\ consent \in [Id -> Verb \cup {"none"}]
  /\ restarts \in 0..MaxRestarts /\ faults \in 0..MaxFaults

\* What must be asked about, said without the classifier: a call is harmless
\* when none of its parts reaches outside the project or the machine.
Harmless ==
  {c \in Call :
     \/ c.tool = "read-only"
     \/ c.tool = "edit" /\ InsideMount(c.path)
     \/ /\ c.tool = "bash" /\ c.words # <<>>
        /\ ~c.destructive /\ ~c.unprovable
        /\ \A k \in DOMAIN c.words : c.words[k] \notin OutwardWord
     \/ /\ c.tool = "mcp" /\ ~c.browser /\ c.shape \in {"draft", "read"}
     \/ /\ c.tool = "mcp" /\ c.browser
        /\ \/ c.shape = "inspect"
           \/ c.shape = "draft"
           \/ c.shape = "navigate" /\ c.publicUrl
           \/ c.shape = "capture" /\ (~c.path.given \/ InsideMount(c.path))}

Stage(i) ==
  IF hook[i] = "idle" THEN "none"
  ELSE IF outcome[i] = "ran" THEN "ran"
  ELSE IF outcome[i] \in {"refused", "moot"} THEN "refused"
  ELSE IF hook[i] = "closing" /\ Permits(answer[i]) THEN "granted" ELSE "open"

Promise == INSTANCE ApprovalPromise WITH stage <- [i \in Id |-> Stage(i)]

\* Across hook, poller, files, restarts and timeouts, a call that is not
\* harmless runs only if the owner's last decision on that very call, when the
\* hook read it, let it (decide, onButtonPress, onInboundMessage).
KeepsPromise == Promise!Spec

\* Until a request expires, the hook answers with nothing but the owner's last
\* word on it: an approval or an edit given in time and found by the hook is
\* never turned into a refusal, and nothing else answers it (decide).
AnswerIsLastWord ==
  [][\A i \in Id : (Looking(i) /\ hook'[i] = "closing" /\ clock[i] = "open")
                     => answer'[i] = consent[i]]_vars

\* A message swallowed as an edit finds the hook still waiting for it, unless
\* another decision had already answered the call or its run was over
\* (onInboundMessage, pendingAgenticEdit).
EditInTime ==
  \A i \in late : answer[i] \in Verb \/ outcome[i] = "moot"

\* Two executors are at work in one topic only if a restart of the poller left
\* the older one behind (agenticInFlight).
OneExecutorPerTopic ==
  \A r, s \in Run :
    (r # s /\ phase[r] = "working" /\ phase[s] = "working" /\ topicOf[r] = topicOf[s])
      => r \in orphaned \/ s \in orphaned

\* Nothing is left behind or waits for ever: every proposed call is answered,
\* whether or not anybody taps, the poller lives or the card is shown (the loop
\* of decide); no request file stays, not even one that markSent wrote back
\* after the hook had removed it (approvalDispatch, cleanup); and no topic stays
\* held by agenticInFlight, unless the acknowledgement of the run that took it
\* failed (launchAgentic).
NothingLeftBehind ==
  /\ Promise!Answered
  /\ \A i \in Id : <>[](request[i] = "none")
  /\ \A t \in Topic : []<>(t \notin inFlight \/ t \in leaked)
=============================================================================
