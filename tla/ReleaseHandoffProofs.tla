------------------------ MODULE ReleaseHandoffProofs --------------------------
(***************************************************************************)
(* TLAPS proofs about ReleaseHandoff, for any number of terminals, opens,   *)
(* messages and faults: its type invariant, and that no daemon works beside *)
(* a TUI whose claim has not been ended.                                    *)
(***************************************************************************)
EXTENDS ReleaseHandoff, TLAPS

----------------------------------------------------------------------------
(* Types                                                                   *)

\* The two halves of TypeOK: its Boolean variables, and the others.
Flags ==
  /\ flag \in BOOLEAN /\ ack \in BOOLEAN /\ backlog \in BOOLEAN
  /\ shared \in BOOLEAN /\ adrift \in BOOLEAN

Rest ==
  /\ term \in [Terminal -> {"none", "cleared", "waiting", "late", "tui"}]
  /\ handle \in {"none", "idle", "released"}
  /\ daemon \in {"none", "up", "stopping"}
  /\ (handle = "none" => daemon = "none" /\ ~backlog)
  /\ tick \in {"idle", "releasing"}
  /\ opens \in 0..MaxOpens /\ messages \in 0..MaxMessages /\ faults \in 0..MaxFaults

LEMMA Halves == TypeOK <=> Flags /\ Rest
  BY DEF TypeOK, Flags, Rest

\* TypeOK holds initially.
LEMMA TypeInit == Init => TypeOK
<1>1. Init => Flags
  BY Zenon DEF Init, Flags
<1>2. Init => Rest
  BY HandoffBounds DEF Init, Rest
<1> QED
  BY <1>1, <1>2, Halves

\* Every step keeps the Boolean variables Boolean.
LEMMA FlagsStep == Flags /\ [Next]_vars => Flags'
<1> SUFFICES ASSUME Flags, [Next]_vars PROVE Flags'
  OBVIOUS
<1> USE DEF Flags, files, topic, history, bounds
<1>1. ASSUME NEW k \in Terminal, Open(k) \/ CtaOpen(k) \/ Close(k) \/ Killed(k)
      PROVE  Flags'
  BY <1>1, Zenon DEF Open, CtaOpen, Ask, SeeAck, GiveUp, Withdraw, Close, Killed,
                     Faulty, TermGoes
<1>2. CASE Poller
  BY <1>2, Zenon DEF Poller, TickLooks, TickGoesOn, Acknowledge, SecondLoop, Reacquire
<1>3. CASE DaemonStopped \/ Message \/ Flush \/ Expire \/ Reset \/ Restart
  BY <1>3, Zenon DEF DaemonStopped, Message, Flush, Expire, Reset, Restart, Reacquire, Faulty
<1>4. CASE UNCHANGED vars
  BY <1>4, Zenon DEF vars
<1> QED
  BY <1>1, <1>2, <1>3, <1>4 DEF Next

\* Every step of cmd_open, the poller and the registry keeps the other types.
LEMMA RestStep == Rest /\ [Next]_vars => Rest'
<1> SUFFICES ASSUME Rest, [Next]_vars PROVE Rest'
  OBVIOUS
<1> USE HandoffBounds DEF Rest, files, topic, history, bounds
<1>1. ASSUME NEW k \in Terminal, Open(k) PROVE Rest'
  BY <1>1 DEF Open
<1>2. ASSUME NEW k \in Terminal, CtaOpen(k) PROVE Rest'
  BY <1>2 DEF CtaOpen, Ask, SeeAck, GiveUp, Withdraw, TermGoes
<1>3. ASSUME NEW k \in Terminal, Close(k) PROVE Rest'
  BY <1>3 DEF Close, TermGoes
<1>4. ASSUME NEW k \in Terminal, Killed(k) PROVE Rest'
  BY <1>4 DEF Killed, Faulty, TermGoes
<1>5. CASE TickLooks
  BY <1>5 DEF TickLooks, Acknowledge, SecondLoop, Reacquire
<1>6. CASE TickGoesOn
  BY <1>6 DEF TickGoesOn, Acknowledge, SecondLoop, Reacquire
<1>7. CASE DaemonStopped \/ Message \/ Flush
  BY <1>7 DEF DaemonStopped, Message, Flush
<1>8. CASE Expire \/ Reset \/ Restart
  BY <1>8 DEF Expire, Reset, Restart, Reacquire, Faulty
<1>9. CASE UNCHANGED vars
  BY <1>9 DEF vars
<1> QED
  BY <1>1, <1>2, <1>3, <1>4, <1>5, <1>6, <1>7, <1>8, <1>9 DEF Next, Poller

LEMMA TypeStep == TypeOK /\ [Next]_vars => TypeOK'
<1>1. (Flags /\ Rest => TypeOK)'
  BY Halves, PTL
<1> QED
  BY <1>1, Halves, FlagsStep, RestStep

\* TypeOK holds in every reachable state.
THEOREM TypeCorrect == Spec => []TypeOK
  BY TypeInit, TypeStep, PTL DEF Spec

----------------------------------------------------------------------------
(* The claim of a terminal                                                 *)

\* While a claim holds there is one terminal; its TUI runs under an ack; and an ack
\* means that the topic is released and its process has ended.
Claim ==
  ~shared =>
    /\ \A j, k \in Terminal : term[j] # "none" /\ term[k] # "none" => j = k
    /\ \A k \in Terminal : term[k] = "tui" => ack
    /\ ~NoTerminal /\ ack => handle = "released" /\ daemon = "none"

\* A release awaits the end of the process without an ack, and nothing else leaves
\* a released topic with a process.
Releasing ==
  /\ tick = "releasing" => ~ack
  /\ handle = "released" => daemon = "none" \/ (daemon = "stopping" /\ tick = "releasing")

IInv == TypeOK /\ Claim /\ Releasing

LEMMA IInvInit == Init => IInv
  BY TypeInit DEF Init, IInv, Claim, Releasing, NoTerminal

\* What a terminal does keeps its claim: only another one's arrival ends it.
LEMMA TerminalStep ==
  ASSUME IInv, NEW k \in Terminal,
         Open(k) \/ CtaOpen(k) \/ Close(k) \/ Killed(k)
  PROVE  Claim' /\ Releasing'
<1> USE DEF IInv, Claim, Releasing, TypeOK, NoTerminal, files, topic, history, bounds
<1>1. CASE Open(k)
  BY <1>1 DEF Open
<1>2. CASE Ask(k)
  BY <1>2 DEF Ask, TermGoes
<1>3. CASE SeeAck(k)
  BY <1>3 DEF SeeAck, TermGoes
<1>4. CASE GiveUp(k)
  BY <1>4 DEF GiveUp, TermGoes
<1>5. CASE Withdraw(k)
  BY <1>5 DEF Withdraw, TermGoes
<1>6. CASE Close(k)
  BY <1>6 DEF Close, TermGoes
<1>7. CASE Killed(k)
  BY <1>7 DEF Killed, Faulty, TermGoes
<1> QED
  BY <1>1, <1>2, <1>3, <1>4, <1>5, <1>6, <1>7 DEF CtaOpen

\* The poller acknowledges a released topic whose process has ended, and takes back
\* only a topic without an ack; the other steps of the topic respect the release or
\* end the claim.
LEMMA TopicStep ==
  ASSUME IInv,
         Poller \/ DaemonStopped \/ Message \/ Flush \/ Expire \/ Reset \/ Restart
  PROVE  Claim' /\ Releasing'
<1> USE DEF IInv, Claim, Releasing, TypeOK, NoTerminal, files, topic, history, bounds
<1>1. CASE TickLooks
  BY <1>1 DEF TickLooks, Acknowledge, SecondLoop, Reacquire
<1>2. CASE TickGoesOn
  BY <1>2 DEF TickGoesOn, Acknowledge, SecondLoop, Reacquire
<1>3. CASE DaemonStopped
  BY <1>3 DEF DaemonStopped
<1>4. CASE Message
  BY <1>4 DEF Message
<1>5. CASE Flush
  BY <1>5 DEF Flush
<1>6. CASE Expire
  BY <1>6 DEF Expire, Reacquire
<1>7. CASE Reset
  BY <1>7 DEF Reset, Faulty
<1>8. CASE Restart
  BY <1>8 DEF Restart, Faulty
<1> QED
  BY <1>1, <1>2, <1>3, <1>4, <1>5, <1>6, <1>7, <1>8 DEF Poller

LEMMA IInvStep == IInv /\ [Next]_vars => IInv'
<1> SUFFICES ASSUME IInv, [Next]_vars PROVE IInv'
  OBVIOUS
<1>1. TypeOK'
  BY TypeStep DEF IInv
<1>2. CASE Next
  <2>1. Claim' /\ Releasing'
    BY <1>2, TerminalStep, TopicStep DEF Next
  <2> QED
    BY <1>1, <2>1 DEF IInv
<1>3. CASE UNCHANGED vars
  BY <1>1, <1>3 DEF vars, files, topic, history, bounds, IInv, Claim, Releasing, NoTerminal
<1> QED
  BY <1>2, <1>3

\* No daemon works beside a TUI whose claim has not been ended by a second terminal,
\* a topic without a handle, a reset, the expiry or a restart (poller.ts:1083-1132,
\* claude-daemon-registry.ts:404-467).
THEOREM TuiIsAlone == Spec => []NoDaemonBesideTui
<1>1. IInv => NoDaemonBesideTui
  BY DEF IInv, Claim, NoDaemonBesideTui, NoTerminal
<1> QED
  BY <1>1, IInvInit, IInvStep, PTL DEF Spec
=============================================================================
