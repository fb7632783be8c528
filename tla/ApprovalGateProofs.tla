------------------------- MODULE ApprovalGateProofs --------------------------
(***************************************************************************)
(* Theorems about ApprovalGate, for any topics, runs, calls, users and     *)
(* bounds.                                                                 *)
(*                                                                         *)
(*   TypeCorrect   Spec => []TypeOK                                        *)
(*   OneExecutor   Spec => []OneExecutorPerTopic                           *)
(*   EditsInTime   Spec => []EditInTime                                    *)
(*   LastWord      Spec => AnswerIsLastWord                                *)
(*   Implements    Spec => KeepsPromise                                    *)
(***************************************************************************)
EXTENDS ApprovalGate, TLAPS

----------------------------------------------------------------------------
(* Types                                                                   *)

LEMMA TypeInit == GateInit => TypeOK
BY GateConstants DEF GateInit, TypeOK, Run, Id, Verb

\* The poller's own steps and those of the runs keep the types.
LEMMA TypeRunner ==
  ASSUME TypeOK, Runner
  PROVE  TypeOK'
<1> USE DEF TypeOK, runs, hooks, files, poller, history, bounds, Free, Fails
<1>1. ASSUME NEW r \in Run, NEW t \in Topic, Launch(r, t)
      PROVE  TypeOK'
  BY <1>1 DEF Launch, LaunchUnchecked
<1>2. ASSUME NEW r \in Run, AckSent(r)
      PROVE  TypeOK'
  BY <1>2 DEF AckSent
<1>3. ASSUME NEW r \in Run, AckThrows(r)
      PROVE  TypeOK'
  BY <1>3, GateConstants DEF AckThrows
<1>4. ASSUME NEW r \in Run, Heal(r)
      PROVE  TypeOK'
  BY <1>4 DEF Heal
<1>5. ASSUME NEW r \in Run, RunEnds(r)
      PROVE  TypeOK'
  BY <1>5 DEF RunEnds
<1>6. ASSUME Restart
      PROVE  TypeOK'
  BY <1>6, GateConstants DEF Restart
<1> QED BY <1>1, <1>2, <1>3, <1>4, <1>5, <1>6 DEF Runner

\* cleanup touches the files of its own request, and only to remove them.
LEMMA CleanupTypes ==
  ASSUME TypeOK, NEW i \in Id, Cleanup(i)
  PROVE  /\ request' \in [Id -> {"none", "pending", "sent"}]
         /\ decision' \in [Id -> Verb \cup {"none"}]
         /\ faults' \in 0..MaxFaults
         /\ request'[i] \in {request[i], "none"} /\ decision'[i] \in {decision[i], "none"}
         /\ \A j \in Id \ {i} : request'[j] = request[j] /\ decision'[j] = decision[j]
<1> USE GateConstants DEF TypeOK
<1>1. CASE /\ request' = [request EXCEPT ![i] = "none"]
           /\ decision' = [decision EXCEPT ![i] = "none"]
           /\ UNCHANGED faults
  BY <1>1
<1>2. CASE /\ Fails
           /\ request' \in {request, [request EXCEPT ![i] = "none"]}
           /\ decision' \in {decision, [decision EXCEPT ![i] = "none"]}
  BY <1>2 DEF Fails
<1> QED BY <1>1, <1>2 DEF Cleanup

LEMMA TypeHook ==
  ASSUME TypeOK, Hook
  PROVE  TypeOK'
<1> USE DEF TypeOK, runs, hooks, files, poller, history, bounds, Fails, Answers, Verb
<1>1. ASSUME NEW i \in Id, NEW r \in Run, NEW c \in Call, Propose(i, r, c)
      PROVE  TypeOK'
  BY <1>1 DEF Propose
<1>2. ASSUME NEW i \in Id, AnswerByTier(i)
      PROVE  TypeOK'
  BY <1>2 DEF AnswerByTier
<1>3. ASSUME NEW i \in Id, WriteRequest(i)
      PROVE  TypeOK'
  BY <1>3 DEF WriteRequest
<1>4. ASSUME NEW i \in Id, WriteRequestFails(i)
      PROVE  TypeOK'
  BY <1>4, GateConstants DEF WriteRequestFails
<1>5. ASSUME NEW i \in Id, Look(i)
      PROVE  TypeOK'
  <2>1. CASE Answers(i, "expired")
    BY <1>5, <2>1 DEF Look
  <2>2. CASE hook' = [hook EXCEPT ![i] = "seen"] /\ UNCHANGED answer
    BY <1>5, <2>2 DEF Look
  <2> QED BY <1>5, <2>1, <2>2 DEF Look
<1>6. ASSUME NEW i \in Id, ReadDecision(i)
      PROVE  TypeOK'
  <2>1. CASE decision[i] = "none"
    BY <1>6, <2>1 DEF ReadDecision
  <2>2. CASE decision[i] # "none"
    <3>1. decision[i] \in Verb
      BY <2>2
    <3> QED BY <1>6, <2>2, <3>1 DEF ReadDecision
  <2> QED BY <2>1, <2>2
<1>7. ASSUME NEW i \in Id, Answer(i)
      PROVE  TypeOK'
  BY <1>7, CleanupTypes DEF Answer
<1>8. ASSUME NEW i \in Id, HookDies(i)
      PROVE  TypeOK'
  BY <1>8 DEF HookDies
<1>9. ASSUME NEW i \in Id, Expire(i)
      PROVE  TypeOK'
  BY <1>9 DEF Expire
<1> QED BY <1>1, <1>2, <1>3, <1>4, <1>5, <1>6, <1>7, <1>8, <1>9 DEF Hook

LEMMA TypePoller ==
  ASSUME TypeOK, Poller
  PROVE  TypeOK'
<1> USE DEF TypeOK, runs, hooks, files, poller, history, bounds, Free, Fails, Verb
<1>1. ASSUME NEW i \in Id, RenderCard(i)
      PROVE  TypeOK'
  BY <1>1 DEF RenderCard
<1>2. ASSUME NEW i \in Id, Reap(i)
      PROVE  TypeOK'
  BY <1>2, CleanupTypes DEF Reap
<1>3. ASSUME NEW i \in Id, CardShown(i)
      PROVE  TypeOK'
  BY <1>3 DEF CardShown
<1>4. ASSUME NEW i \in Id, EnqueueReturns(i)
      PROVE  TypeOK'
  BY <1>4 DEF EnqueueReturns
<1>5. ASSUME NEW i \in Id, EnqueueThrows(i)
      PROVE  TypeOK'
  BY <1>5, GateConstants DEF EnqueueThrows
<1>6. ASSUME NEW i \in Id, MarkSent(i) \/ MarkSentFails(i)
      PROVE  TypeOK'
  BY <1>6, GateConstants DEF MarkSent, MarkSentFails
<1>7. ASSUME NEW i \in Id, NEW verb \in Verb, NEW u \in Sender, Tap(i, verb, u)
      PROVE  TypeOK'
  BY <1>7 DEF Tap
<1>8. ASSUME NEW i \in Id, NEW verb \in Verb, NEW u \in Sender, WriteDecision(i, verb, u)
      PROVE  TypeOK'
  BY <1>8 DEF WriteDecision, Decides
<1>9. ASSUME NEW t \in Topic, NEW u \in Sender, TakeEdit(t, u)
      PROVE  TypeOK'
  BY <1>9 DEF TakeEdit, Decides
<1>10. ASSUME NEW u \in Sender, DropStash(u)
       PROVE  TypeOK'
  BY <1>10 DEF DropStash
<1>11. ASSUME NEW i \in Id, NEW verb \in Verb, NEW u \in Sender, WriteDecisionFails(i, verb, u)
       PROVE  TypeOK'
  BY <1>11, GateConstants DEF WriteDecisionFails
<1>12. ASSUME NEW t \in Topic, NEW u \in Sender, TakeEditFails(t, u)
       PROVE  TypeOK'
  BY <1>12, GateConstants DEF TakeEditFails
<1> QED BY <1>1, <1>2, <1>3, <1>4, <1>5, <1>6, <1>7, <1>8, <1>9, <1>10, <1>11, <1>12 DEF Poller

LEMMA TypeStep == TypeOK /\ [Next]_vars => TypeOK'
<1> SUFFICES ASSUME TypeOK, [Next]_vars
             PROVE  TypeOK'
  OBVIOUS
<1>1. CASE Next
  BY <1>1, TypeRunner, TypeHook, TypePoller DEF Next
<1>2. CASE UNCHANGED vars
  BY <1>2 DEF TypeOK, vars, runs, hooks, files, poller, history, bounds
<1> QED BY <1>1, <1>2

\* Every reachable state is well typed.
THEOREM TypeCorrect == Spec => []TypeOK
BY TypeInit, TypeStep, PTL DEF Spec

----------------------------------------------------------------------------
(* One executor per topic                                                  *)

\* A run the present poller knows, which it launched and has not seen end.
Known(r) == phase[r] \in {"ack", "working"} /\ r \notin orphaned

\* OneExecutorPerTopic is not inductive: nothing in it says that the topic of a
\* run at work is held, which is what keeps a second run from being launched.
\* What is: a known run holds its topic, and no two hold the same.
Held ==
  /\ \A r \in Run : Known(r) => topicOf[r] \in inFlight
  /\ \A r, s \in Run : r # s /\ Known(r) /\ Known(s) => topicOf[r] # topicOf[s]

LEMMA HeldInit == GateInit => Held
BY DEF GateInit, Held, Known

LEMMA HeldStep == TypeOK /\ Held /\ [Next]_vars => Held'
<1> SUFFICES ASSUME TypeOK, Held, [Next]_vars
             PROVE  Held'
  OBVIOUS
<1> USE DEF Held, Known
<1>1. ASSUME NEW r \in Run, NEW t \in Topic, Launch(r, t)
      PROVE  Held'
  <2>1. t \notin inFlight /\ t \in inFlight' /\ inFlight \subseteq inFlight' /\ orphaned' = orphaned
    BY <1>1 DEF Launch, LaunchUnchecked, history
  <2>2. \A s \in Run : topicOf'[s] = IF s = r THEN t ELSE topicOf[s]
    BY <1>1 DEF Launch, LaunchUnchecked, TypeOK
  <2>3. \A s \in Run \ {r} : phase'[s] = phase[s]
    BY <1>1 DEF Launch, LaunchUnchecked, TypeOK
  <2> QED BY <2>1, <2>2, <2>3
<1>2. ASSUME NEW r \in Run, AckSent(r) \/ AckThrows(r) \/ Heal(r)
      PROVE  Held'
  <2>1. topicOf' = topicOf /\ inFlight' = inFlight /\ orphaned' = orphaned
    BY <1>2 DEF AckSent, AckThrows, Heal, poller, history
  <2>2. \A s \in Run : Known(s)' => Known(s)
    BY <1>2, <2>1 DEF AckSent, AckThrows, Heal, TypeOK
  <2> QED BY <2>1, <2>2
<1>3. ASSUME NEW r \in Run, RunEnds(r)
      PROVE  Held'
  <2>1. topicOf' = topicOf /\ orphaned' = orphaned
    BY <1>3 DEF RunEnds, history
  <2>2. \A s \in Run : Known(s)' => Known(s) /\ s # r
    BY <1>3, <2>1 DEF RunEnds, TypeOK
  <2>3. inFlight' = IF r \in orphaned THEN inFlight ELSE inFlight \ {topicOf[r]}
    BY <1>3 DEF RunEnds
  <2>4. phase[r] = "working"
    BY <1>3 DEF RunEnds
  <2> QED BY <2>1, <2>2, <2>3, <2>4
<1>4. ASSUME Restart
      PROVE  Held'
  <2>1. \A s \in Run : ~Known(s)'
    BY <1>4 DEF Restart, TypeOK
  <2> QED BY <2>1
<1>5. ASSUME Hook \/ Poller \/ UNCHANGED vars
      PROVE  Held'
  <2>1. UNCHANGED <<phase, topicOf, inFlight, orphaned>>
    <3>1. CASE Hook
      BY <3>1 DEF Hook, Propose, AnswerByTier, WriteRequest, WriteRequestFails, Look,
                  ReadDecision, Answer, HookDies, Expire, runs, poller, history
    <3>2. CASE Poller
      BY <3>2 DEF Poller, RenderCard, Reap, CardShown, EnqueueReturns, EnqueueThrows, MarkSent,
                  MarkSentFails, Tap, WriteDecision, WriteDecisionFails, TakeEdit, TakeEditFails,
                  DropStash, runs, poller, history
    <3>3. CASE UNCHANGED vars
      BY <3>3 DEF vars, runs, poller, history
    <3> QED BY <1>5, <3>1, <3>2, <3>3
  <2> QED BY <2>1
<1> QED BY <1>1, <1>2, <1>3, <1>4, <1>5 DEF Next, Runner

\* Two runs at work in one topic: one of them outlived the poller that launched
\* it (agenticInFlight in launchAgentic).
THEOREM OneExecutor == Spec => []OneExecutorPerTopic
<1>1. Held => OneExecutorPerTopic
  BY DEF Held, Known, OneExecutorPerTopic
<1> QED BY <1>1, TypeInit, TypeStep, HeldInit, HeldStep, PTL DEF Spec

----------------------------------------------------------------------------
(* Requests, decisions and answers                                         *)

\* The callback under way, if any, concerns request i.
Names(i) == op = <<"mark", i>> \/ \E verb \in Verb, u \in Sender : op = <<verb, i, u>>

\* What is true of request i, whatever happens to the others: nothing of it
\* exists before its hook asks; an answer says what the clock was; what is
\* decided is the owner's last word; an edit that came late came after the answer.
Sound(i) ==
  /\ hook[i] \in {"idle", "classify"} =>
       /\ request[i] = "none" /\ decision[i] = "none" /\ clock[i] = "unset"
       /\ answer[i] = "none" /\ stash # i /\ ~Names(i)
  /\ hook[i] = "idle" => consent[i] = "none"
  /\ hook[i] # "idle" => call[i] \in Call
  /\ outcome[i] = "none" <=> hook[i] # "done"
  /\ hook[i] = "closing" => answer[i] # "none"
  /\ hook[i] = "done" => answer[i] # "none" \/ outcome[i] = "moot"
  /\ answer[i] = "expired" => clock[i] = "past"
  /\ answer[i] \in {"silent", "policy", "failed"} =>
       request[i] = "none" /\ clock[i] = "unset" /\ stash # i /\ ~Names(i)
  /\ decision[i] \in {"none", consent[i]}
  /\ \A verb \in Verb, u \in Sender : op = <<verb, i, u>> => u = Owner
  /\ i \in late => hook[i] \in {"closing", "done"} /\ (answer[i] \in Verb \/ outcome[i] = "moot")

Gate == \A i \in Id : Sound(i)

LEMMA GateStart == GateInit => Gate
BY GateConstants DEF GateInit, Gate, Sound, Names, Id, Verb

\* Request j is as it was, in its hook, its files and its consent ...
Same(j) ==
  /\ hook'[j] = hook[j] /\ call'[j] = call[j] /\ answer'[j] = answer[j]
  /\ outcome'[j] = outcome[j] /\ consent'[j] = consent[j]
  /\ request'[j] = request[j] /\ decision'[j] = decision[j] /\ clock'[j] = clock[j]

\* ... and the poller has nothing new in hand for it.
LEMMA SameIsSound ==
  ASSUME NEW j \in Id, Sound(j), Same(j),
         stash' = j => stash = j,
         op' = op \/ op' = <<>>,
         j \in late' => j \in late
  PROVE  Sound(j)'
<1>1. \A x \in {"mark"} \cup Verb, u \in Sender : <<>> # <<x, j>> /\ <<>> # <<x, j, u>>
  OBVIOUS
<1>2. Names(j)' => Names(j)
  BY <1>1 DEF Names
<1>3. \A verb \in Verb, u \in Sender : op' = <<verb, j, u>> => u = Owner
  BY <1>1 DEF Sound
<1> QED BY <1>2, <1>3 DEF Sound, Same

\* The steps of a hook.
LEMMA GateHook ==
  ASSUME TypeOK, Gate, Hook
  PROVE  Gate'
<1> USE DEF files, history, bounds, poller, runs, hooks
<1>1. ASSUME NEW i \in Id, NEW r \in Run, NEW c \in Call, Propose(i, r, c)
      PROVE  Gate'
  <2>1. \A j \in Id \ {i} : Same(j)
    BY <1>1 DEF Propose, Same, TypeOK
  <2>2. Sound(i)'
    <3>1. hook'[i] = "classify" /\ call'[i] = c
      BY <1>1 DEF Propose, TypeOK
    <3>2. hook[i] = "idle"
      BY <1>1 DEF Propose
    <3>3. Sound(i)
      BY DEF Gate
    <3>4. UNCHANGED <<answer, outcome, consent, request, decision, clock, stash, op, late>>
      BY <1>1 DEF Propose
    <3> QED BY <3>1, <3>2, <3>3, <3>4 DEF Sound, Names
  <2>3. UNCHANGED <<stash, op, late>>
    BY <1>1 DEF Propose
  <2> QED BY <2>1, <2>2, <2>3, SameIsSound DEF Gate
<1>2. ASSUME NEW i \in Id, AnswerByTier(i) \/ WriteRequestFails(i)
      PROVE  Gate'
  <2>1. \A j \in Id \ {i} : Same(j)
    BY <1>2 DEF AnswerByTier, WriteRequestFails, Answers, Same, TypeOK
  <2>2. UNCHANGED <<call, outcome, consent, request, decision, clock, stash, op, late>>
    BY <1>2 DEF AnswerByTier, WriteRequestFails
  <2>3. Sound(i)'
    <3>1. hook[i] = "classify" /\ hook'[i] = "closing" /\ answer'[i] \in {"silent", "policy", "failed"}
      BY <1>2 DEF AnswerByTier, WriteRequestFails, Answers, TypeOK
    <3>2. Sound(i)
      BY DEF Gate
    <3> QED BY <2>2, <3>1, <3>2 DEF Sound, Names
  <2> QED BY <2>1, <2>2, <2>3, SameIsSound DEF Gate
<1>3. ASSUME NEW i \in Id, WriteRequest(i)
      PROVE  Gate'
  <2>1. \A j \in Id \ {i} : Same(j)
    BY <1>3 DEF WriteRequest, Same, TypeOK
  <2>2. UNCHANGED <<call, answer, outcome, consent, decision, stash, op, late>>
    BY <1>3 DEF WriteRequest
  <2>3. Sound(i)'
    <3>1. hook[i] = "classify" /\ hook'[i] = "look" /\ clock'[i] = "open"
      BY <1>3 DEF WriteRequest, TypeOK
    <3>2. Sound(i)
      BY DEF Gate
    <3> QED BY <2>2, <3>1, <3>2 DEF Sound, Names
  <2> QED BY <2>1, <2>2, <2>3, SameIsSound DEF Gate
<1>4. ASSUME NEW i \in Id, Look(i)
      PROVE  Gate'
  <2>1. UNCHANGED <<call, outcome, consent, request, decision, clock, stash, op, late>>
    BY <1>4 DEF Look
  <2>2. CASE clock[i] = "past" /\ Answers(i, "expired")
    <3>1. \A j \in Id \ {i} : Same(j)
      BY <2>1, <2>2 DEF Answers, Same, TypeOK
    <3>2. Sound(i)'
      <4>1. hook[i] = "look" /\ hook'[i] = "closing" /\ answer'[i] = "expired" /\ clock[i] = "past"
        BY <1>4, <2>2 DEF Look, Answers, TypeOK
      <4>2. Sound(i)
        BY DEF Gate
      <4> QED BY <2>1, <4>1, <4>2 DEF Sound, Names
    <3> QED BY <2>1, <3>1, <3>2, SameIsSound DEF Gate
  <2>3. CASE hook' = [hook EXCEPT ![i] = "seen"] /\ UNCHANGED answer
    <3>1. \A j \in Id \ {i} : Same(j)
      BY <2>1, <2>3 DEF Same, TypeOK
    <3>2. Sound(i)'
      <4>1. hook[i] = "look" /\ hook'[i] = "seen"
        BY <1>4, <2>3 DEF Look, TypeOK
      <4>2. Sound(i)
        BY DEF Gate
      <4> QED BY <2>1, <2>3, <4>1, <4>2 DEF Sound, Names
    <3> QED BY <2>1, <3>1, <3>2, SameIsSound DEF Gate
  <2> QED BY <1>4, <2>2, <2>3 DEF Look
<1>5. ASSUME NEW i \in Id, ReadDecision(i)
      PROVE  Gate'
  <2>1. UNCHANGED <<call, outcome, consent, request, decision, clock, stash, op, late>>
    BY <1>5 DEF ReadDecision
  <2>2. CASE decision[i] = "none"
    <3>1. hook' = [hook EXCEPT ![i] = "look"] /\ answer' = answer /\ hook[i] = "seen"
      BY <1>5, <2>2 DEF ReadDecision
    <3>2. \A j \in Id \ {i} : Same(j)
      BY <2>1, <3>1 DEF Same, TypeOK
    <3>3. Sound(i)'
      <4>1. Sound(i) /\ hook'[i] = "look"
        BY <3>1 DEF Gate, TypeOK
      <4> QED BY <2>1, <3>1, <4>1 DEF Sound, Names
    <3> QED BY <2>1, <3>2, <3>3, SameIsSound DEF Gate
  <2>3. CASE decision[i] # "none"
    <3>1. Answers(i, decision[i]) /\ hook[i] = "seen"
      BY <1>5, <2>3 DEF ReadDecision
    <3>2. \A j \in Id \ {i} : Same(j)
      BY <2>1, <3>1 DEF Same, Answers, TypeOK
    <3>3. Sound(i)'
      <4>1. Sound(i) /\ hook'[i] = "closing" /\ answer'[i] = decision[i]
        BY <3>1 DEF Gate, Answers, TypeOK
      <4>2. decision[i] \in Verb
        BY <2>3 DEF TypeOK
      <4> QED BY <2>1, <3>1, <4>1, <4>2 DEF Sound, Names, Verb
    <3> QED BY <2>1, <3>2, <3>3, SameIsSound DEF Gate
  <2> QED BY <2>2, <2>3
<1>6. ASSUME NEW i \in Id, Answer(i)
      PROVE  Gate'
  <2>1. UNCHANGED <<call, answer, consent, clock, stash, op, late>>
    BY <1>6 DEF Answer
  <2>2. \A j \in Id \ {i} : Same(j)
    BY <1>6, CleanupTypes DEF Answer, Same, TypeOK
  <2>3. Sound(i)'
    <3>1. /\ hook[i] = "closing" /\ hook'[i] = "done"
          /\ request'[i] \in {request[i], "none"} /\ decision'[i] \in {decision[i], "none"}
          /\ outcome'[i] \in {"ran", "refused", "moot"}
      BY <1>6, CleanupTypes DEF Answer, TypeOK
    <3>2. Sound(i)
      BY DEF Gate
    <3> QED BY <2>1, <3>1, <3>2 DEF Sound, Names
  <2> QED BY <2>1, <2>2, <2>3, SameIsSound DEF Gate
<1>7. ASSUME NEW i \in Id, HookDies(i)
      PROVE  Gate'
  <2>1. UNCHANGED <<call, answer, consent, request, decision, clock, stash, op, late>>
    BY <1>7 DEF HookDies
  <2>2. \A j \in Id \ {i} : Same(j)
    BY <1>7 DEF HookDies, Same, TypeOK
  <2>3. Sound(i)'
    <3>1. hook[i] \notin {"idle", "done"} /\ hook'[i] = "done" /\ outcome'[i] = "moot"
      BY <1>7 DEF HookDies, TypeOK
    <3>2. Sound(i)
      BY DEF Gate
    <3> QED BY <2>1, <3>1, <3>2 DEF Sound, Names
  <2> QED BY <2>1, <2>2, <2>3, SameIsSound DEF Gate
<1>8. ASSUME NEW i \in Id, Expire(i)
      PROVE  Gate'
  <2>1. UNCHANGED <<hook, call, answer, outcome, consent, request, decision, stash, op, late>>
    BY <1>8 DEF Expire
  <2>2. \A j \in Id \ {i} : Same(j)
    BY <1>8 DEF Expire, Same, TypeOK
  <2>3. Sound(i)'
    <3>1. clock[i] = "open" /\ clock'[i] = "past"
      BY <1>8 DEF Expire, TypeOK
    <3>2. Sound(i)
      BY DEF Gate
    <3> QED BY <2>1, <3>1, <3>2 DEF Sound, Names
  <2> QED BY <2>1, <2>2, <2>3, SameIsSound DEF Gate
<1> QED BY <1>1, <1>2, <1>3, <1>4, <1>5, <1>6, <1>7, <1>8 DEF Hook

\* The steps of the poller: a tap, an edit or markSent meets only requests whose
\* hook has asked.
LEMMA GatePoller ==
  ASSUME TypeOK, Gate, Poller
  PROVE  Gate'
<1> USE DEF files, history, bounds, poller, runs, hooks
<1>1. ASSUME NEW i \in Id, RenderCard(i) \/ CardShown(i) \/ EnqueueThrows(i)
      PROVE  Gate'
  <2>1. UNCHANGED <<hook, call, answer, outcome, consent, request, decision, clock, stash, op, late>>
    BY <1>1 DEF RenderCard, CardShown, EnqueueThrows
  <2> QED BY <2>1, SameIsSound DEF Gate, Same
<1>2. ASSUME NEW i \in Id, Reap(i)
      PROVE  Gate'
  <2>1. UNCHANGED <<hook, call, answer, outcome, consent, clock, stash, op, late>>
    BY <1>2 DEF Reap
  <2>2. \A j \in Id \ {i} : Same(j)
    BY <1>2, CleanupTypes DEF Reap, Same
  <2>3. Sound(i)'
    <3>1. request'[i] \in {request[i], "none"} /\ decision'[i] \in {decision[i], "none"}
      BY <1>2, CleanupTypes DEF Reap
    <3>2. Sound(i)
      BY DEF Gate
    <3> QED BY <2>1, <3>1, <3>2 DEF Sound, Names
  <2> QED BY <2>1, <2>2, <2>3, SameIsSound DEF Gate
<1>3. ASSUME NEW i \in Id, EnqueueReturns(i)
      PROVE  Gate'
  <2>1. UNCHANGED <<hook, call, answer, outcome, consent, request, decision, clock, stash, late>>
    BY <1>3 DEF EnqueueReturns
  <2>2. \A j \in Id : Same(j) /\ Sound(j)
    BY <2>1 DEF Same, Gate
  <2>3. CASE op' = <<>>
    BY <2>1, <2>2, <2>3, SameIsSound DEF Gate
  <2>4. CASE op' = <<"mark", i>> /\ request[i] = "pending"
    <3>1. \A j \in Id, verb \in Verb, u \in Sender : op' # <<verb, j, u>>
      <4>1. \A j \in Id, verb \in Verb, u \in Sender : <<"mark", i>> # <<verb, j, u>>
        OBVIOUS
      <4> QED BY <2>4, <4>1
    <3>2. \A j \in Id : Names(j)' => j = i
      BY <2>4, <3>1 DEF Names
    <3> QED BY <2>1, <2>2, <2>4, <3>1, <3>2 DEF Gate, Sound
  <2> QED BY <1>3, <2>3, <2>4 DEF EnqueueReturns
<1>4. ASSUME NEW i \in Id, MarkSent(i)
      PROVE  Gate'
  <2>1. UNCHANGED <<hook, call, answer, outcome, consent, decision, clock, stash, late>> /\ op' = <<>>
    BY <1>4 DEF MarkSent
  <2>2. \A j \in Id \ {i} : Same(j)
    BY <1>4 DEF MarkSent, Same, TypeOK
  <2>3. Sound(i)'
    <3>1. Names(i) /\ Sound(i)
      BY <1>4 DEF MarkSent, Names, Gate
    <3>2. \A verb \in Verb, u \in Sender : op' # <<verb, i, u>>
      BY <2>1
    <3> QED BY <2>1, <3>1, <3>2 DEF Sound
  <2> QED BY <2>1, <2>2, <2>3, SameIsSound DEF Gate
<1>5. ASSUME NEW i \in Id, NEW verb \in Verb, NEW u \in Sender, Tap(i, verb, u)
      PROVE  Gate'
  <2>1. UNCHANGED <<hook, call, answer, outcome, consent, request, decision, clock, late>>
    BY <1>5 DEF Tap
  <2>2. \A j \in Id : Same(j) /\ Sound(j)
    BY <2>1 DEF Same, Gate
  <2>3. u = Owner /\ request[i] # "none" /\ op = <<>>
    BY <1>5 DEF Tap, Free
  <2>4. CASE stash' = i /\ op' = op
    BY <2>1, <2>2, <2>3, <2>4 DEF Gate, Sound, Names
  <2>5. CASE op' = <<verb, i, u>> /\ stash' = stash
    <3>1. \A j \in Id : Names(j)' => j = i
      <4>1. \A j \in Id : <<"mark", j>> # <<verb, i, u>>
        OBVIOUS
      <4> QED BY <2>5, <4>1 DEF Names
    <3>2. \A j \in Id, v \in Verb, w \in Sender : op' = <<v, j, w>> => w = Owner
      BY <2>3, <2>5
    <3> QED BY <2>1, <2>2, <2>3, <2>5, <3>1, <3>2 DEF Gate, Sound
  <2> QED BY <1>5, <2>4, <2>5 DEF Tap
<1>6. ASSUME NEW i \in Id, NEW verb \in Verb, NEW u \in Sender, WriteDecision(i, verb, u)
      PROVE  Gate'
  <2>1. UNCHANGED <<hook, call, answer, outcome, request, clock, stash, late>> /\ op' = <<>>
    BY <1>6 DEF WriteDecision
  <2>2. Names(i) /\ Sound(i) /\ u = Owner
    BY <1>6 DEF WriteDecision, Names, Gate, Sound
  <2>3. \A j \in Id \ {i} : Same(j)
    BY <1>6, <2>1 DEF WriteDecision, Decides, Same, TypeOK
  <2>4. Sound(i)'
    <3>1. decision'[i] = verb /\ consent'[i] = verb
      BY <1>6, <2>2 DEF WriteDecision, Decides, TypeOK
    <3>2. \A v \in Verb, w \in Sender : op' # <<v, i, w>>
      BY <2>1
    <3>3. op' # <<"mark", i>>
      BY <2>1
    <3> QED BY <2>1, <2>2, <3>1, <3>2, <3>3 DEF Sound, Names
  <2> QED BY <2>1, <2>3, <2>4, SameIsSound DEF Gate
<1>7. ASSUME NEW t \in Topic, NEW u \in Sender, TakeEdit(t, u)
      PROVE  Gate'
  <2>0. PICK i \in Id : i = stash
    BY <1>7 DEF TakeEdit, TypeOK
  <2>1. /\ UNCHANGED <<hook, call, answer, outcome, request, clock, op>>
        /\ stash' = 0 /\ u = Owner /\ clock[i] = "open"
    BY <1>7, <2>0 DEF TakeEdit
  <2>2. \A j \in Id : stash' # j
    BY <2>1 DEF Id
  <2>3. \A j \in Id \ {i} : Same(j) /\ (j \in late' => j \in late)
    BY <1>7, <2>0, <2>1 DEF TakeEdit, Decides, Same, TypeOK
  <2>4. Sound(i)'
    <3>1. decision'[i] = "edit" /\ consent'[i] = "edit"
      BY <1>7, <2>0, <2>1 DEF TakeEdit, Decides, TypeOK
    <3>2. Sound(i)
      BY DEF Gate
    <3>3. i \in late' => ~Looking(i) \/ i \in late
      BY <1>7, <2>0 DEF TakeEdit
    <3>4. hook[i] \in {"idle", "classify", "look", "seen", "closing", "done"}
          /\ answer[i] \in Verb \cup {"none", "silent", "policy", "failed", "expired"}
      BY DEF TypeOK
    <3>5. i \in late' => hook[i] \in {"closing", "done"} /\ (answer[i] \in Verb \/ outcome[i] = "moot")
      BY <2>0, <2>1, <3>2, <3>3, <3>4 DEF Sound, Looking
    <3> QED BY <2>0, <2>1, <2>2, <3>1, <3>2, <3>5 DEF Sound, Names
  <2> QED BY <2>1, <2>2, <2>3, <2>4, SameIsSound DEF Gate
<1>8. ASSUME NEW u \in Sender, DropStash(u)
      PROVE  Gate'
  <2>1. UNCHANGED <<hook, call, answer, outcome, consent, request, decision, clock, op, late>>
    BY <1>8 DEF DropStash
  <2>2. \A j \in Id : stash' # j
    BY <1>8 DEF DropStash, Id
  <2> QED BY <2>1, <2>2, SameIsSound DEF Gate, Same
<1>9. ASSUME \/ \E i \in Id : MarkSentFails(i)
             \/ \E i \in Id, verb \in Verb, u \in Sender : WriteDecisionFails(i, verb, u)
             \/ \E t \in Topic, u \in Sender : TakeEditFails(t, u)
      PROVE  Gate'
  <2>1. /\ UNCHANGED <<hook, call, answer, outcome, consent, request, decision, clock, stash, late>>
        /\ op' = op \/ op' = <<>>
    BY <1>9 DEF MarkSentFails, WriteDecisionFails, TakeEditFails
  <2> QED BY <2>1, SameIsSound DEF Gate, Same
<1> QED BY <1>1, <1>2, <1>3, <1>4, <1>5, <1>6, <1>7, <1>8, <1>9 DEF Poller

\* The runs touch no request; a restart empties the poller's hands.
LEMMA GateRunner ==
  ASSUME TypeOK, Gate, Runner \/ UNCHANGED vars
  PROVE  Gate'
<1>1. UNCHANGED <<hook, call, answer, outcome, consent, request, decision, clock, late>>
  BY DEF Runner, Launch, LaunchUnchecked, AckSent, AckThrows, Heal, RunEnds, Restart, vars, hooks,
         files, history
<1>2. /\ stash' = stash \/ stash' = 0
      /\ op' = op \/ op' = <<>>
  BY DEF Runner, Launch, LaunchUnchecked, AckSent, AckThrows, Heal, RunEnds, Restart, vars, poller
<1>3. \A j \in Id : j # 0
  BY DEF Id
<1> QED BY <1>1, <1>2, <1>3, SameIsSound DEF Gate, Same

LEMMA GateStep == TypeOK /\ Gate /\ [Next]_vars => Gate'
BY GateHook, GatePoller, GateRunner DEF Next

LEMMA GateHolds == Spec => [](TypeOK /\ Gate)
BY TypeInit, TypeStep, GateStart, GateStep, PTL DEF Spec

\* A message taken as the correction of a card finds the hook still waiting, or
\* the call had been answered by another decision, or its run was over: never a
\* call whose request had merely expired (onInboundMessage, pendingAgenticEdit).
THEOREM EditsInTime == Spec => []EditInTime
<1>1. TypeOK /\ Gate => EditInTime
  BY DEF TypeOK, Gate, Sound, EditInTime
<1> QED BY <1>1, GateHolds, PTL

\* Until a request expires its hook answers with the owner's last word and with
\* nothing else (decide).
THEOREM LastWord == Spec => AnswerIsLastWord
<1>1. TypeOK /\ Gate /\ [Next]_vars =>
        [\A i \in Id : (Looking(i) /\ hook'[i] = "closing" /\ clock[i] = "open")
                         => answer'[i] = consent[i]]_vars
  <2> SUFFICES ASSUME TypeOK, Gate, Next, NEW i \in Id,
                      Looking(i), hook'[i] = "closing", clock[i] = "open"
               PROVE  answer'[i] = consent[i]
    OBVIOUS
  <2>1. hook[i] \in {"look", "seen"} /\ hook' # hook
    BY DEF Looking
  <2>2. Hook
    BY <2>1 DEF Next, Runner, Launch, LaunchUnchecked, AckSent, AckThrows, Heal, RunEnds, Restart,
                hooks, Poller, RenderCard, Reap, CardShown, EnqueueReturns, EnqueueThrows, MarkSent,
                MarkSentFails, Tap, WriteDecision, WriteDecisionFails, TakeEdit, TakeEditFails,
                DropStash
  <2>3. PICK j \in Id : \/ \E r \in Run, c \in Call : Propose(j, r, c)
                        \/ AnswerByTier(j) \/ WriteRequest(j) \/ WriteRequestFails(j)
                        \/ Look(j) \/ ReadDecision(j) \/ Answer(j) \/ HookDies(j) \/ Expire(j)
    BY <2>2 DEF Hook
  <2>4. hook'[i] = "closing" /\ hook[i] # "closing" /\ hook[i] # "classify"
    BY <2>1
  <2>5. ReadDecision(j) /\ j = i
    BY <2>1, <2>3, <2>4 DEF Propose, AnswerByTier, WriteRequest, WriteRequestFails, Look,
       ReadDecision, Answer, HookDies, Expire, hooks, Answers, TypeOK
  <2>6. Answers(i, decision[i]) /\ decision[i] # "none"
    BY <2>5 DEF ReadDecision, TypeOK
  <2> QED BY <2>6 DEF Answers, Gate, Sound, TypeOK
<1> QED BY <1>1, GateHolds, PTL DEF Spec, AnswerIsLastWord

----------------------------------------------------------------------------
(* The gate implements the promise                                         *)

\* What the classifier lets run unasked is harmless: a shell command only when
\* every one of its parts is (classify).
LEMMA SilentIsHarmless ==
  ASSUME NEW c \in Call, Classify(c) = "silent"
  PROVE  c \in Harmless
<1>1. CASE c.tool \in {"read-only", "edit"}
  BY <1>1 DEF Classify, ClassifyEdit, Harmless
<1>2. CASE c.tool = "bash"
  <2>1. c.words # <<>> /\ ~c.destructive /\ ~c.unprovable /\ Strictest(c.words) = "silent"
    BY <1>2 DEF Classify, ClassifyBash
  <2>2. ASSUME NEW k \in DOMAIN c.words, c.words[k] \in OutwardWord
        PROVE  FALSE
    <3> DEFINE tiers == {ClassifySingle(c.words[n]) : n \in DOMAIN c.words}
    <3>1. "ask" \in tiers
      <4>1. c.words[k] \notin LocalWord
        BY <2>2 DEF LocalWord, OutwardWord
      <4> QED BY <4>1 DEF ClassifySingle
    <3>2. tiers \subseteq {"ask", "silent"}
      BY DEF ClassifySingle
    <3>3. \A other \in tiers : Rank[other] <= Rank["ask"]
      BY <3>2 DEF Rank
    <3>4. Rank["ask"] <= Rank[Strictest(c.words)]
      <4> HIDE DEF tiers
      <4>1. Strictest(c.words) = CHOOSE tier \in tiers : \A other \in tiers : Rank[other] <= Rank[tier]
        BY DEF Strictest, tiers
      <4> QED BY <3>1, <3>3, <4>1
    <3> QED BY <2>1, <3>4 DEF Rank
  <2> QED BY <1>2, <2>1, <2>2 DEF Harmless
<1>3. CASE c.tool = "mcp"
  BY <1>3 DEF Classify, ClassifyMcp, ClassifyBrowser, Harmless
<1> QED BY <1>1, <1>2, <1>3 DEF Classify

LEMMA PromiseInit == GateInit => Promise!Init
BY DEF GateInit, Promise!Init, Stage

\* A step that leaves the hooks and the consents alone leaves the promise alone.
LEMMA QuietStutters ==
  ASSUME UNCHANGED <<hook, call, answer, outcome, consent>>
  PROVE  UNCHANGED Promise!vars
BY DEF Promise!vars, Stage

\* A step of one hook changes the stage of its own call only.
LEMMA OneStage ==
  ASSUME TypeOK, NEW i \in Id, \A j \in Id \ {i} : Same(j)
  PROVE  [j \in Id |-> Stage(j)]' = [[j \in Id |-> Stage(j)] EXCEPT ![i] = Stage(i)']
<1>1. \A j \in Id \ {i} : Stage(j)' = Stage(j)
  BY DEF Same, Stage
<1> QED BY <1>1

LEMMA PromiseHook ==
  ASSUME TypeOK, Gate, Hook
  PROVE  Promise!Next \/ UNCHANGED Promise!vars
<1> USE DEF files, history, bounds, poller, runs, hooks
<1>1. ASSUME NEW i \in Id, NEW r \in Run, NEW c \in Call, Propose(i, r, c)
      PROVE  Promise!Next
  <2>1. \A j \in Id \ {i} : Same(j)
    BY <1>1 DEF Propose, Same, TypeOK
  <2>2. Stage(i) = "none" /\ Stage(i)' = "open"
    <3>1. hook[i] = "idle" /\ hook'[i] = "classify" /\ outcome'[i] = outcome[i] /\ outcome[i] = "none"
      BY <1>1 DEF Propose, TypeOK, Gate, Sound
    <3> QED BY <3>1 DEF Stage
  <2>3. Promise!Propose(i, c)
    BY <1>1, <2>1, <2>2, OneStage DEF Propose, Promise!Propose
  <2> QED BY <2>3 DEF Promise!Next
<1>2. ASSUME NEW i \in Id, AnswerByTier(i)
      PROVE  Promise!Next \/ UNCHANGED Promise!vars
  <2>1. \A j \in Id \ {i} : Same(j)
    BY <1>2 DEF AnswerByTier, Answers, Same, TypeOK
  <2>2. /\ hook[i] = "classify" /\ hook'[i] = "closing" /\ outcome'[i] = outcome[i]
        /\ outcome[i] = "none" /\ call[i] \in Call
        /\ answer'[i] = IF Classify(call[i]) = "silent" THEN "silent" ELSE "policy"
        /\ call' = call /\ consent' = consent
    BY <1>2 DEF AnswerByTier, Answers, TypeOK, Gate, Sound
  <2>3. CASE Classify(call[i]) = "silent"
    <3>1. Stage(i) = "open" /\ Stage(i)' = "granted"
      BY <2>2, <2>3 DEF Stage, Permits
    <3>2. Promise!Grant(i)
      BY <2>1, <2>2, <2>3, <3>1, OneStage, SilentIsHarmless DEF Promise!Grant
    <3> QED BY <3>2 DEF Promise!Next
  <2>4. CASE Classify(call[i]) # "silent"
    <3>1. Stage(i)' = Stage(i)
      BY <2>2, <2>4 DEF Stage, Permits
    <3> QED BY <2>1, <2>2, <3>1, OneStage DEF Promise!vars
  <2> QED BY <2>3, <2>4
<1>3. ASSUME NEW i \in Id, WriteRequest(i) \/ WriteRequestFails(i) \/ Look(i) \/ Expire(i)
      PROVE  UNCHANGED Promise!vars
  <2>1. \A j \in Id \ {i} : Same(j)
    BY <1>3 DEF WriteRequest, WriteRequestFails, Look, Expire, Answers, Same, TypeOK
  <2>2. UNCHANGED <<call, outcome, consent>>
    BY <1>3 DEF WriteRequest, WriteRequestFails, Look, Expire
  <2>3. Stage(i)' = Stage(i)
    <3>1. \/ UNCHANGED <<hook, answer>>
          \/ /\ hook[i] \in {"classify", "look"} /\ hook'[i] \in {"look", "seen"}
          \/ /\ hook[i] \in {"classify", "look"} /\ hook'[i] = "closing"
             /\ answer'[i] \in {"failed", "expired"}
      BY <1>3 DEF WriteRequest, WriteRequestFails, Look, Expire, Answers, TypeOK
    <3> QED BY <2>2, <3>1 DEF Stage, Permits
  <2> QED BY <2>1, <2>2, <2>3, OneStage DEF Promise!vars
<1>4. ASSUME NEW i \in Id, ReadDecision(i)
      PROVE  Promise!Next \/ UNCHANGED Promise!vars
  <2>1. UNCHANGED <<call, outcome, consent>> /\ hook[i] = "seen" /\ outcome[i] = "none"
    BY <1>4 DEF ReadDecision, Gate, Sound
  <2>2. CASE decision[i] = "none"
    <3>1. hook' = [hook EXCEPT ![i] = "look"] /\ answer' = answer
      BY <1>4, <2>2 DEF ReadDecision
    <3>2. \A j \in Id : Stage(j)' = Stage(j)
      BY <2>1, <3>1 DEF Stage, TypeOK
    <3> QED BY <2>1, <3>2 DEF Promise!vars
  <2>3. CASE decision[i] # "none"
    <3>1. Answers(i, decision[i])
      BY <1>4, <2>3 DEF ReadDecision
    <3>2. hook'[i] = "closing" /\ answer'[i] = decision[i] /\ decision[i] = consent[i]
      BY <2>3, <3>1 DEF Answers, TypeOK, Gate, Sound
    <3>3. \A j \in Id \ {i} : hook'[j] = hook[j] /\ answer'[j] = answer[j]
      BY <3>1 DEF Answers, TypeOK
    <3>4. \A j \in Id \ {i} : Stage(j)' = Stage(j)
      BY <2>1, <3>3 DEF Stage
    <3>5. CASE decision[i] \in {"allow", "edit"}
      <4>1. Stage(i) = "open" /\ Stage(i)' = "granted"
        BY <2>1, <3>2, <3>5 DEF Stage, Permits
      <4>2. Promise!Grant(i)
        BY <2>1, <3>2, <3>4, <3>5, <4>1 DEF Promise!Grant
      <4> QED BY <4>2 DEF Promise!Next
    <3>6. CASE decision[i] \notin {"allow", "edit"}
      <4>1. decision[i] = "deny"
        BY <2>3, <3>6 DEF TypeOK, Verb
      <4>2. Stage(i)' = Stage(i)
        BY <2>1, <3>2, <4>1 DEF Stage, Permits
      <4> QED BY <2>1, <3>4, <4>2 DEF Promise!vars
    <3> QED BY <3>5, <3>6
  <2> QED BY <2>2, <2>3
<1>5. ASSUME NEW i \in Id, Answer(i) \/ HookDies(i)
      PROVE  Promise!Next
  <2>1. UNCHANGED <<call, consent>> /\ answer' = answer
    BY <1>5 DEF Answer, HookDies
  <2>2. \A j \in Id \ {i} : hook'[j] = hook[j] /\ outcome'[j] = outcome[j]
    BY <1>5 DEF Answer, HookDies, TypeOK
  <2>3. \A j \in Id \ {i} : Stage(j)' = Stage(j)
    BY <2>1, <2>2 DEF Stage
  <2>4. Stage(i) \in {"open", "granted"}
    <3>1. hook[i] \notin {"idle", "done"}
      BY <1>5 DEF Answer, HookDies
    <3>2. outcome[i] = "none"
      BY <3>1 DEF Gate, Sound
    <3> QED BY <3>1, <3>2 DEF Stage
  <2>5. hook'[i] = "done" /\ outcome'[i] \in {"ran", "refused", "moot"}
    BY <1>5 DEF Answer, HookDies, TypeOK
  <2>6. CASE outcome'[i] = "ran"
    <3>1. Answer(i) /\ Permits(answer[i]) /\ hook[i] = "closing"
      BY <1>5, <2>6 DEF Answer, HookDies, TypeOK
    <3>2. Stage(i) = "granted" /\ Stage(i)' = "ran"
      BY <2>4, <2>5, <2>6, <3>1 DEF Stage
    <3>3. Promise!Run(i)
      BY <2>1, <2>3, <3>2 DEF Promise!Run
    <3> QED BY <3>3 DEF Promise!Next
  <2>7. CASE outcome'[i] # "ran"
    <3>1. Stage(i)' = "refused"
      BY <2>5, <2>7 DEF Stage
    <3>2. Promise!Refuse(i)
      BY <2>1, <2>3, <2>4, <3>1 DEF Promise!Refuse
    <3> QED BY <3>2 DEF Promise!Next
  <2> QED BY <2>6, <2>7
<1> QED BY <1>1, <1>2, <1>3, <1>4, <1>5 DEF Hook

\* A tap or an edit is a word of the user's on a call that was proposed.
LEMMA PromiseOthers ==
  ASSUME TypeOK, Gate, Runner \/ Poller \/ UNCHANGED vars
  PROVE  Promise!Next \/ UNCHANGED Promise!vars
<1>1. ASSUME NEW i \in Id, NEW verb \in Verb, hook[i] # "idle",
             consent' = [consent EXCEPT ![i] = verb],
             UNCHANGED <<hook, call, answer, outcome>>
      PROVE  Promise!Next
  <2>1. \A j \in Id : Stage(j)' = Stage(j)
    BY <1>1 DEF Stage
  <2>2. Stage(i) # "none"
    BY <1>1 DEF Stage
  <2>3. Promise!Say(i, verb)
    BY <1>1, <2>1, <2>2 DEF Promise!Say
  <2> QED BY <2>3 DEF Promise!Next, Verb
<1>2. ASSUME NEW i \in Id, NEW verb \in Verb, NEW u \in Sender, WriteDecision(i, verb, u)
      PROVE  Promise!Next
  <2>1. u = Owner /\ hook[i] # "idle"
    BY <1>2 DEF WriteDecision, Gate, Sound, Names
  <2> QED BY <1>1, <1>2, <2>1 DEF WriteDecision, Decides, hooks
<1>3. ASSUME NEW t \in Topic, NEW u \in Sender, TakeEdit(t, u)
      PROVE  Promise!Next
  <2>1. PICK i \in Id : i = stash
    BY <1>3 DEF TakeEdit, TypeOK
  <2>2. hook[i] # "idle"
    BY <2>1 DEF Gate, Sound
  <2>3. consent' = [consent EXCEPT ![i] = "edit"] /\ UNCHANGED <<hook, call, answer, outcome>>
    BY <1>3, <2>1 DEF TakeEdit, Decides, hooks
  <2>4. "edit" \in Verb
    BY DEF Verb
  <2> QED BY <1>1, <2>2, <2>3, <2>4
<1>4. ASSUME \/ Runner \/ UNCHANGED vars
             \/ \E i \in Id : \/ RenderCard(i) \/ Reap(i) \/ CardShown(i)
                              \/ EnqueueReturns(i) \/ EnqueueThrows(i)
                              \/ MarkSent(i) \/ MarkSentFails(i)
             \/ \E i \in Id, verb \in Verb, u \in Sender :
                  Tap(i, verb, u) \/ WriteDecisionFails(i, verb, u)
             \/ \E t \in Topic, u \in Sender : TakeEditFails(t, u)
             \/ \E u \in Sender : DropStash(u)
      PROVE  UNCHANGED Promise!vars
  <2>1. UNCHANGED <<hook, call, answer, outcome, consent>>
    BY <1>4 DEF Runner, Launch, LaunchUnchecked, AckSent, AckThrows, Heal, RunEnds, Restart, vars,
       hooks, history, RenderCard, Reap, CardShown, EnqueueReturns, EnqueueThrows, MarkSent,
       MarkSentFails, Tap, WriteDecisionFails, TakeEditFails, DropStash
  <2> QED BY <2>1, QuietStutters
<1> QED BY <1>2, <1>3, <1>4 DEF Poller

\* Across hooks, files, taps, restarts and timeouts, a call that is not harmless
\* runs only with the owner's consent to that very call (decide, onButtonPress,
\* onInboundMessage).
THEOREM Implements == Spec => KeepsPromise
<1>1. TypeOK /\ Gate /\ [Next]_vars => [Promise!Next]_(Promise!vars)
  BY PromiseHook, PromiseOthers DEF Next
<1> QED BY <1>1, PromiseInit, GateHolds, PTL DEF Spec, KeepsPromise, Promise!Spec
=============================================================================
