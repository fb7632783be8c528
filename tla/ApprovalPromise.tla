-------------------------- MODULE ApprovalPromise ---------------------------
(***************************************************************************)
(* What the agentic mode promises of each tool call the executor proposes: *)
(* a harmless call may run, any other call runs only when the last word    *)
(* the user gave on that very call, at the moment it was decided, allowed  *)
(* it, and in every other case it is refused.  Nothing is said of cards,   *)
(* files, hooks, timeouts or restarts: ApprovalGate implements this.       *)
(***************************************************************************)
CONSTANTS
  Id,       \* the calls proposed, each by its own id
  Call,     \* what may be proposed
  NoCall,   \* what i is before it is proposed
  Harmless  \* the calls, of Call, that need no consent

VARIABLES
  call,     \* call[i]: what i is, once proposed
  stage,    \* stage[i]: how far i is
  consent   \* consent[i]: the user's last word on i, or "none"

vars == <<call, stage, consent>>

Init ==
  /\ call = [i \in Id |-> NoCall]
  /\ stage = [i \in Id |-> "none"]
  /\ consent = [i \in Id |-> "none"]

Propose(i, c) ==
  /\ stage[i] = "none"
  /\ stage' = [stage EXCEPT ![i] = "open"]
  /\ call' = [call EXCEPT ![i] = c]
  /\ UNCHANGED consent

\* The user may have a word at any time, and change it; it may come too late.
Say(i, word) ==
  /\ stage[i] # "none"
  /\ consent' = [consent EXCEPT ![i] = word]
  /\ UNCHANGED <<call, stage>>

Grant(i) ==
  /\ stage[i] = "open"
  /\ call[i] \in Harmless \/ consent[i] \in {"allow", "edit"}
  /\ stage' = [stage EXCEPT ![i] = "granted"]
  /\ UNCHANGED <<call, consent>>

Run(i) ==
  /\ stage[i] = "granted"
  /\ stage' = [stage EXCEPT ![i] = "ran"]
  /\ UNCHANGED <<call, consent>>

Refuse(i) ==
  /\ stage[i] \in {"open", "granted"}
  /\ stage' = [stage EXCEPT ![i] = "refused"]
  /\ UNCHANGED <<call, consent>>

Next ==
  \E i \in Id :
    \/ \E c \in Call : Propose(i, c)
    \/ \E word \in {"allow", "deny", "edit"} : Say(i, word)
    \/ Grant(i)
    \/ Run(i)
    \/ Refuse(i)

Spec == Init /\ [][Next]_vars

\* Every proposed call is answered in the end.
Answered == \A i \in Id : (stage[i] = "open") ~> (stage[i] \in {"ran", "refused"})
=============================================================================
