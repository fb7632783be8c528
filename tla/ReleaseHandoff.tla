---------------------------- MODULE ReleaseHandoff ----------------------------
(***************************************************************************)
(* `cta open <thread>': the hand-off of a topic's session to a terminal    *)
(* and back, by files in release-flags/.  The terminal writes <thread>; the *)
(* housekeeping tick of the poller stops the topic's daemon and renames it  *)
(* to <thread>.ack; the terminal starts its TUI and removes <thread>.ack    *)
(* when it ends, which the next tick takes for the order to go on.         *)
(*                                                                         *)
(* One topic.  Its side of the registry is DaemonRegistry, reduced here to *)
(* whether it has a handle, whether that is released and whether its       *)
(* daemon runs.                                                            *)
(***************************************************************************)
EXTENDS Naturals

CONSTANTS
  Terminal,
  MaxOpens,     \* bound: `cta open' commands
  MaxMessages,  \* bound: messages to the topic
  MaxFaults     \* bound: killed terminals, resets of the topic, restarts of the poller

ASSUME HandoffBounds == MaxOpens \in Nat /\ MaxMessages \in Nat /\ MaxFaults \in Nat

VARIABLES
  flag, ack,  \* the files <thread> and <thread>.ack
  term,       \* "none", "cleared", "waiting", "late" or "tui"
  handle,     \* the topic in the registry: "none", "idle" or "released"
  daemon,     \* its Claude process: "none", "up" or "stopping"
  backlog,    \* whether messages are queued
  tick,       \* the housekeeping tick: "idle", or "releasing" while it awaits
  \* history
  shared,     \* a terminal in use has lost its claim to the session
  adrift,     \* a terminal ended without withdrawing what it had asked for
  opens, messages, faults

files == <<flag, ack>>
topic == <<handle, daemon, backlog>>
history == <<shared, adrift>>
bounds == <<opens, messages, faults>>
vars == <<files, term, topic, tick, history, bounds>>

Init ==
  /\ flag = FALSE /\ ack = FALSE
  /\ term = [k \in Terminal |-> "none"]
  /\ handle \in {"none", "idle"}
  /\ daemon \in IF handle = "idle" THEN {"none", "up"} ELSE {"none"}
  /\ backlog = FALSE
  /\ tick = "idle"
  /\ shared = FALSE /\ adrift = FALSE
  /\ opens = MaxOpens /\ messages = MaxMessages /\ faults = MaxFaults

NoTerminal == \A k \in Terminal : term[k] = "none"
Faulty == faults > 0 /\ faults' = faults - 1 /\ UNCHANGED <<opens, messages>>

----------------------------------------------------------------------------
(* The terminal: cmd_open                                                  *)

\* What a terminal does to its own state.  With the last one the claims end.
TermGoes(k, where) ==
  /\ term' = [term EXCEPT ![k] = where]
  /\ shared' = (shared /\ ~(\A j \in Terminal : term'[j] = "none"))

\* A left-over ack is removed.  A second terminal on the same topic takes the
\* first one's.
Open(k) ==
  /\ term[k] = "none"
  /\ opens > 0 /\ opens' = opens - 1
  /\ ack' = FALSE
  /\ term' = [term EXCEPT ![k] = "cleared"]
  /\ shared' = (shared \/ ~NoTerminal)
  /\ adrift' = (adrift \/ ~NoTerminal)
  /\ UNCHANGED <<flag, topic, tick, messages, faults>>

Ask(k) ==
  /\ term[k] = "cleared"
  /\ flag' = TRUE
  /\ TermGoes(k, "waiting")
  /\ UNCHANGED <<ack, topic, tick, adrift, bounds>>

SeeAck(k) ==
  /\ term[k] = "waiting"
  /\ ack
  /\ TermGoes(k, "tui")
  /\ UNCHANGED <<files, topic, tick, adrift, bounds>>

\* 80 seconds have passed: it looks once more, then withdraws the request.
GiveUp(k) ==
  /\ term[k] = "waiting"
  /\ ~ack
  /\ TermGoes(k, "late")
  /\ UNCHANGED <<files, topic, tick, adrift, bounds>>

Withdraw(k) ==
  /\ term[k] = "late"
  /\ flag' = FALSE
  /\ TermGoes(k, "none")
  /\ adrift' = (adrift \/ ack)
  /\ UNCHANGED <<ack, topic, tick, bounds>>

\* The trap of a terminal that ends removes the ack.
Close(k) ==
  /\ term[k] = "tui"
  /\ ack' = FALSE
  /\ TermGoes(k, "none")
  /\ UNCHANGED <<flag, topic, tick, adrift, bounds>>

\* Interrupted before the trap is set, or killed: the files stay.
Killed(k) ==
  /\ term[k] # "none"
  /\ Faulty
  /\ TermGoes(k, "none")
  /\ adrift' = TRUE
  /\ UNCHANGED <<files, topic, tick>>

CtaOpen(k) == Ask(k) \/ SeeAck(k) \/ GiveUp(k) \/ Withdraw(k)

----------------------------------------------------------------------------
(* The poller: processReleaseFlags                                         *)

\* reacquireFromTerminal
Reacquire == handle' = "idle" /\ UNCHANGED <<daemon, backlog>>

\* Faulty variant: only topics that have a file are looked at.
SecondLoopByFiles ==
  IF handle = "released" /\ ~ack /\ flag THEN Reacquire ELSE UNCHANGED topic

\* A released topic without an ack is taken back.
SecondLoop ==
  IF handle = "released" /\ ~ack THEN Reacquire ELSE UNCHANGED topic

\* Faulty variant: the topic just released is not kept out of the second loop,
\* which trusts what the tick saw first: a request and no ack.
AcknowledgeStale ==
  /\ flag' = FALSE /\ ack' = (ack \/ flag)
  /\ IF handle = "released" THEN Reacquire ELSE UNCHANGED topic
  /\ UNCHANGED shared

\* The request becomes the ack, whatever has become of the topic.  If it was
\* withdrawn meanwhile, the rename throws and the second loop takes the topic back.
Acknowledge ==
  IF flag
  THEN /\ flag' = FALSE /\ ack' = TRUE
       /\ shared' = (shared \/ (handle # "released" /\ ~NoTerminal))
       /\ UNCHANGED topic
  ELSE SecondLoop /\ UNCHANGED <<files, shared>>

\* releaseForTerminal up to its first await.  A topic without a handle has nothing
\* to release: its request is acknowledged at once.
TickLooks ==
  /\ tick = "idle"
  /\ \/ /\ flag /\ ~ack /\ handle # "none"
        /\ tick' = "releasing"
        /\ handle' = "released"
        /\ daemon' = IF daemon = "up" THEN "stopping" ELSE daemon
        /\ UNCHANGED <<files, backlog, shared>>
     \/ flag /\ ~ack /\ handle = "none" /\ Acknowledge /\ UNCHANGED tick
     \/ ~(flag /\ ~ack) /\ SecondLoop /\ UNCHANGED <<files, tick, shared>>
  /\ UNCHANGED <<term, adrift, bounds>>

DaemonStopped ==
  /\ daemon = "stopping"
  /\ daemon' = "none"
  /\ UNCHANGED <<files, term, handle, backlog, tick, history, bounds>>

TickGoesOn ==
  /\ tick = "releasing" /\ daemon # "stopping"
  /\ tick' = "idle"
  /\ Acknowledge
  /\ UNCHANGED <<term, adrift, bounds>>

----------------------------------------------------------------------------
(* The topic in the registry                                               *)

Message ==
  /\ messages > 0 /\ messages' = messages - 1
  /\ backlog' = TRUE
  /\ handle' = IF handle = "none" THEN "idle" ELSE handle
  /\ UNCHANGED <<files, term, daemon, tick, history, opens, faults>>

Flush ==
  /\ backlog
  /\ handle = "idle" /\ daemon # "stopping"
  /\ backlog' = FALSE
  /\ daemon' = "up"
  /\ UNCHANGED <<files, term, handle, tick, history, bounds>>

\* Faulty variant: only an arriving message looks at the clock.
ExpireOnMessage ==
  /\ handle = "released" /\ tick = "idle"
  /\ messages > 0 /\ messages' = messages - 1
  /\ backlog' = TRUE /\ handle' = "idle"
  /\ shared' = (shared \/ ~NoTerminal)
  /\ UNCHANGED <<files, term, daemon, tick, adrift, opens, faults>>

\* releaseMaxMs after the release a topic with queued messages is taken back,
\* whatever the terminal is doing.  (Minutes long; a release takes seconds.)
Expire ==
  /\ handle = "released" /\ backlog
  /\ tick = "idle"
  /\ Reacquire
  /\ shared' = (shared \/ ~NoTerminal)
  /\ UNCHANGED <<files, term, tick, adrift, bounds>>

\* resetTopic, for /clear and others: stops the daemon, drops handle and queue.
Reset ==
  /\ handle # "none"
  /\ Faulty
  /\ handle' = "none" /\ daemon' = "none" /\ backlog' = FALSE
  /\ shared' = (shared \/ ~NoTerminal)
  /\ UNCHANGED <<files, term, tick, adrift>>

\* The poller restarts: every file of the directory goes (cleanupStaleReleaseFlags).
Restart ==
  /\ Faulty
  /\ flag' = FALSE /\ ack' = FALSE
  /\ handle' = "none" /\ daemon' = "none" /\ backlog' = FALSE
  /\ tick' = "idle"
  /\ shared' = (shared \/ ~NoTerminal)
  /\ UNCHANGED <<term, adrift>>

Poller == TickLooks \/ TickGoesOn

Next ==
  \/ \E k \in Terminal : Open(k) \/ CtaOpen(k) \/ Close(k) \/ Killed(k)
  \/ Poller \/ DaemonStopped
  \/ Message \/ Flush \/ Expire \/ Reset \/ Restart

\* The tick comes round, a signalled process ends, a debounce and an expiry timer
\* fire, the script goes on.  Nobody is made to close a terminal.
Fairness ==
  /\ WF_vars(Poller) /\ WF_vars(DaemonStopped) /\ WF_vars(Flush) /\ WF_vars(Expire)
  /\ \A k \in Terminal : WF_vars(CtaOpen(k))

Spec == Init /\ [][Next]_vars /\ Fairness

----------------------------------------------------------------------------
(* Properties                                                              *)

\* Every variable has its type, and a daemon belongs to a handle.
TypeOK ==
  /\ flag \in BOOLEAN /\ ack \in BOOLEAN /\ backlog \in BOOLEAN
  /\ shared \in BOOLEAN /\ adrift \in BOOLEAN
  /\ term \in [Terminal -> {"none", "cleared", "waiting", "late", "tui"}]
  /\ handle \in {"none", "idle", "released"}
  /\ daemon \in {"none", "up", "stopping"}
  /\ (handle = "none" => daemon = "none" /\ ~backlog)
  /\ tick \in {"idle", "releasing"}
  /\ opens \in 0..MaxOpens /\ messages \in 0..MaxMessages /\ faults \in 0..MaxFaults

\* No daemon works beside the TUI.  What ends a terminal's claim are a second
\* `cta open' of its topic, a release of a topic without a handle, a reset, the
\* expiry and a restart; requests withdrawn, left behind or answered late, and
\* acks left behind, do not (poller.ts:1120-1127).
NoDaemonBesideTui == ~shared => \A k \in Terminal : term[k] = "tui" => daemon = "none"

\* A topic whose terminals all ended by their trap, or withdrew in time, does not
\* stay released (poller.ts:1083-1132).
TopicComesBack == [](~adrift) /\ <>[]NoTerminal => <>[](handle # "released")

\* Queued messages are taken up in the end, also when a terminal never comes back.
MessagesFlow == backlog ~> ~backlog
=============================================================================
