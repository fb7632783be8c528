--------------------------- MODULE OutboxProofs ----------------------------
(***************************************************************************)
(* Theorems about Outbox, for every set of messages and all limits.        *)
(*                                                                         *)
(*   TypeCorrect      Spec => []TypeOK                                     *)
(*   NeverShownTwice  Spec => []ShownAtMostOnce                            *)
(*   WithinLimits     Spec => []LimitsKept                                 *)
(*   ResolutionStays  Spec => ResolvedForGood                              *)
(***************************************************************************)
EXTENDS Outbox, FiniteSetTheorems, SequenceTheorems, TLAPS

----------------------------------------------------------------------------
(* Directories: a terminal directory lists each of its files once.         *)

Directory(q) == /\ q \in Seq(Message)
                /\ \A i, j \in DOMAIN q : q[i] = q[j] => i = j

\* unlinkSync takes exactly the one file away.
LEMMA UnlinkedFile ==
  ASSUME NEW q, Directory(q), NEW m \in Message
  PROVE  /\ Directory(Unlinked(q, m))
         /\ ToSet(Unlinked(q, m)) = ToSet(q) \ {m}
         /\ Len(Unlinked(q, m)) \in Nat
         /\ Len(Unlinked(q, m)) <= Len(q)
<1>1. q \in Seq(Message) /\ Len(q) \in Nat /\ DOMAIN q = 1..Len(q)
  BY DEF Directory
<1>2. CASE m \notin ToSet(q)
  BY <1>1, <1>2 DEF Unlinked
<1>3. CASE m \in ToSet(q)
  <2> DEFINE i == CHOOSE k \in DOMAIN q : q[k] = m
             r == RemoveAt(q, i)
  <2>1. i \in 1..Len(q) /\ q[i] = m
    BY <1>1, <1>3 DEF ToSet
  <2>2. Unlinked(q, m) = r
    BY <1>3 DEF Unlinked
  <2> HIDE DEF i
  <2>3. /\ r \in Seq(Message) /\ Len(r) = Len(q) - 1 /\ DOMAIN r = 1..(Len(q) - 1)
        /\ \A j \in 1..(Len(q) - 1) : r[j] = IF j < i THEN q[j] ELSE q[j + 1]
    <3>1. /\ SubSeq(q, 1, i - 1) \in Seq(Message) /\ Len(SubSeq(q, 1, i - 1)) = i - 1
          /\ \A j \in 1..(i - 1) : SubSeq(q, 1, i - 1)[j] = q[j]
      BY <1>1, <2>1
    <3>2. /\ SubSeq(q, i + 1, Len(q)) \in Seq(Message)
          /\ Len(SubSeq(q, i + 1, Len(q))) = Len(q) - i
          /\ \A j \in 1..(Len(q) - i) : SubSeq(q, i + 1, Len(q))[j] = q[i + j]
      <4> DEFINE b == SubSeq(q, i + 1, Len(q))
      <4>1. i + 1 \in Int /\ Len(q) \in Int /\ \A j \in (i + 1)..Len(q) : q[j] \in Message
        BY <1>1, <2>1
      <4>2. /\ b \in Seq(Message)
            /\ Len(b) = IF i + 1 <= Len(q) THEN Len(q) - (i + 1) + 1 ELSE 0
            /\ \A j \in 1..(Len(q) - (i + 1) + 1) : b[j] = q[(i + 1) + j - 1]
        BY ONLY <4>1, SubSeqProperties
      <4> HIDE DEF b
      <4>3. /\ (IF i + 1 <= Len(q) THEN Len(q) - (i + 1) + 1 ELSE 0) = Len(q) - i
            /\ Len(q) - (i + 1) + 1 = Len(q) - i
            /\ \A j \in 1..(Len(q) - i) : (i + 1) + j - 1 = i + j
        <5>1. i \in Int /\ Len(q) \in Int /\ i <= Len(q)
          BY <1>1, <2>1
        <5>2. Len(q) - (i + 1) + 1 = Len(q) - i
          BY <5>1
        <5>3. ~(i + 1 <= Len(q)) => Len(q) - i = 0
          BY <5>1
        <5>4. \A j \in Int : (i + 1) + j - 1 = i + j
          BY <5>1
        <5>5. (IF i + 1 <= Len(q) THEN Len(q) - (i + 1) + 1 ELSE 0) = Len(q) - i
          BY <5>2, <5>3
        <5>6. \A j \in 1..(Len(q) - i) : j \in Int
          BY <5>1
        <5> QED BY <5>2, <5>4, <5>5, <5>6
      <4>4. b \in Seq(Message) /\ Len(b) = Len(q) - i /\ \A j \in 1..(Len(q) - i) : b[j] = q[i + j]
        BY <4>2, <4>3
      <4> QED BY <4>4 DEF b
    <3> DEFINE a == SubSeq(q, 1, i - 1)
               b == SubSeq(q, i + 1, Len(q))
    <3>3. r = a \o b
      BY DEF RemoveAt, r
    <3> HIDE DEF a, b
    <3>4. /\ a \in Seq(Message) /\ Len(a) = i - 1 /\ \A j \in 1..(i - 1) : a[j] = q[j]
          /\ b \in Seq(Message) /\ Len(b) = Len(q) - i /\ \A j \in 1..(Len(q) - i) : b[j] = q[i + j]
      BY <3>1, <3>2 DEF a, b
    <3>5. /\ a \o b \in Seq(Message) /\ Len(a \o b) = Len(q) - 1 /\ DOMAIN (a \o b) = 1..(Len(q) - 1)
          /\ \A j \in 1..(Len(q) - 1) : (a \o b)[j] = IF j <= i - 1 THEN a[j] ELSE b[j - (i - 1)]
      <4>1. Len(a) + Len(b) = Len(q) - 1
        BY <1>1, <2>1, <3>4
      <4> QED BY <3>4, <4>1, ConcatProperties
    <3>6. ASSUME NEW j \in 1..(Len(q) - 1)
          PROVE  (a \o b)[j] = IF j < i THEN q[j] ELSE q[j + 1]
      <4>1. CASE j < i
        <5>1. j <= i - 1 /\ j \in 1..(i - 1)
          BY <1>1, <2>1, <4>1
        <5> QED BY <3>4, <3>5, <4>1, <5>1
      <4>2. CASE ~(j < i)
        <5>1. j - (i - 1) \in 1..(Len(q) - i) /\ i + (j - (i - 1)) = j + 1 /\ ~(j <= i - 1)
          BY <1>1, <2>1, <4>2
        <5>2. (a \o b)[j] = b[j - (i - 1)]
          BY <3>5, <5>1
        <5> QED BY <3>4, <4>2, <5>1, <5>2
      <4> QED BY <4>1, <4>2
    <3> QED BY <3>3, <3>5, <3>6
  <2> HIDE DEF r
  <2>4. \A j, k \in 1..(Len(q) - 1) : r[j] = r[k] => j = k
    BY <1>1, <2>1, <2>3 DEF Directory
  <2>5. ToSet(r) = ToSet(q) \ {m}
    <3>1. ASSUME NEW j \in 1..(Len(q) - 1)
          PROVE  r[j] \in ToSet(q) \ {m}
      <4>1. PICK k \in 1..Len(q) : r[j] = q[k] /\ k # i
        <5>1. CASE j < i
          <6>1. j \in 1..Len(q) /\ j # i /\ r[j] = q[j]
            BY <1>1, <2>1, <2>3, <5>1
          <6> QED BY <6>1
        <5>2. CASE ~(j < i)
          <6>1. j + 1 \in 1..Len(q) /\ j + 1 # i /\ r[j] = q[j + 1]
            BY <1>1, <2>1, <2>3, <5>2
          <6> QED BY <6>1
        <5> QED BY <5>1, <5>2
      <4>2. q[k] # m
        BY <1>1, <2>1, <4>1 DEF Directory
      <4> QED BY <1>1, <4>1, <4>2 DEF ToSet
    <3>2. ASSUME NEW k \in 1..Len(q), q[k] # m
          PROVE  \E j \in 1..(Len(q) - 1) : r[j] = q[k]
      <4>1. CASE k < i
        <5>1. k \in 1..(Len(q) - 1)
          BY <1>1, <2>1, <4>1
        <5> QED BY <2>3, <4>1, <5>1
      <4>2. CASE k > i
        <5>1. k - 1 \in 1..(Len(q) - 1) /\ ~(k - 1 < i) /\ (k - 1) + 1 = k
          BY <1>1, <2>1, <4>2
        <5> QED BY <2>3, <5>1
      <4>3. k < i \/ k > i
        BY <1>1, <2>1, <3>2
      <4> QED BY <4>1, <4>2, <4>3
    <3>3. ToSet(r) \subseteq ToSet(q) \ {m}
      BY <2>3, <3>1 DEF ToSet
    <3>4. ToSet(q) \ {m} \subseteq ToSet(r)
      <4> SUFFICES ASSUME NEW x \in ToSet(q), x # m
                   PROVE  x \in ToSet(r)
        OBVIOUS
      <4>1. PICK k \in 1..Len(q) : q[k] = x
        BY <1>1 DEF ToSet
      <4>2. PICK j \in 1..(Len(q) - 1) : r[j] = x
        BY <3>2, <4>1
      <4> QED BY <2>3, <4>2 DEF ToSet
    <3> QED BY <3>3, <3>4
  <2> QED BY <1>1, <2>2, <2>3, <2>4, <2>5 DEF Directory
<1> QED BY <1>2, <1>3

\* retainNewest leaves at most n files and adds none.
LEMMA NewestFiles ==
  ASSUME NEW q, Directory(q), NEW n \in Nat
  PROVE  /\ Directory(Newest(q, n))
         /\ ToSet(Newest(q, n)) \subseteq ToSet(q)
         /\ Len(Newest(q, n)) \in Nat
         /\ Len(Newest(q, n)) <= n
<1>1. q \in Seq(Message) /\ Len(q) \in Nat /\ DOMAIN q = 1..Len(q)
  BY DEF Directory
<1>2. CASE Len(q) <= n
  BY <1>1, <1>2 DEF Newest
<1>3. CASE Len(q) > n
  <2> DEFINE d == Len(q) - n
             r == SubSeq(q, d + 1, Len(q))
  <2>1. d \in Nat /\ d + 1 \in 1..(Len(q) + 1) /\ Len(q) - n + 1 = d + 1 /\ Len(q) - d = n
    BY <1>1, <1>3
  <2>2. Newest(q, n) = r
    BY <1>1, <1>3 DEF Newest
  <2>3. /\ r \in Seq(Message) /\ Len(r) = n /\ DOMAIN r = 1..n
        /\ \A j \in 1..n : r[j] = q[d + j] /\ d + j \in 1..Len(q)
    BY <1>1, <1>3
  <2> HIDE DEF r, d
  <2>4. \A j, k \in 1..n : r[j] = r[k] => j = k
    <3> SUFFICES ASSUME NEW j \in 1..n, NEW k \in 1..n, r[j] = r[k]
                 PROVE  j = k
      OBVIOUS
    <3>1. d + j = d + k
      BY <1>1, <2>3 DEF Directory
    <3> QED BY <2>1, <3>1
  <2>5. ToSet(r) \subseteq ToSet(q)
    BY <1>1, <2>3 DEF ToSet
  <2> QED BY <2>2, <2>3, <2>4, <2>5 DEF Directory
<1> QED BY <1>1, <1>2, <1>3

\* A file renamed into a directory that lacks it is its newest.
LEMMA AppendedFile ==
  ASSUME NEW q, Directory(q), NEW m \in Message, m \notin ToSet(q)
  PROVE  /\ Directory(Append(q, m))
         /\ ToSet(Append(q, m)) = ToSet(q) \cup {m}
         /\ Len(Append(q, m)) = Len(q) + 1
<1>1. /\ q \in Seq(Message) /\ Len(q) \in Nat /\ DOMAIN q = 1..Len(q)
      /\ \A i \in 1..Len(q) : q[i] # m
  BY DEF Directory, ToSet
<1>2. /\ Append(q, m) \in Seq(Message) /\ Len(Append(q, m)) = Len(q) + 1
      /\ DOMAIN Append(q, m) = 1..(Len(q) + 1)
      /\ Append(q, m)[Len(q) + 1] = m
      /\ \A i \in 1..Len(q) : Append(q, m)[i] = q[i]
  BY <1>1
<1> DEFINE r == Append(q, m)
<1> HIDE DEF r
<1>3. /\ r \in Seq(Message) /\ Len(r) = Len(q) + 1 /\ DOMAIN r = 1..(Len(q) + 1)
      /\ r[Len(q) + 1] = m /\ \A i \in 1..Len(q) : r[i] = q[i]
  BY <1>2 DEF r
<1>4. \A i \in 1..(Len(q) + 1) : i \in 1..Len(q) \/ i = Len(q) + 1
  BY <1>1
<1>5. \A i, j \in 1..(Len(q) + 1) : r[i] = r[j] => i = j
  BY <1>1, <1>3, <1>4 DEF Directory
<1>6. ToSet(r) = ToSet(q) \cup {m}
  <2>1. \A i \in 1..(Len(q) + 1) : r[i] \in ToSet(q) \cup {m}
    BY <1>1, <1>3, <1>4 DEF ToSet
  <2>2. \A i \in 1..Len(q) : i \in 1..(Len(q) + 1) /\ Len(q) + 1 \in 1..(Len(q) + 1)
    BY <1>1
  <2>3. Len(q) + 1 \in 1..(Len(q) + 1)
    BY <1>1
  <2> QED BY <1>1, <1>3, <2>1, <2>2, <2>3 DEF ToSet
<1> QED BY <1>3, <1>5, <1>6 DEF Directory, r

----------------------------------------------------------------------------
(* The invariant                                                           *)

Dirs == \A s \in Terminal : Directory(terminal[s]) /\ Len(terminal[s]) <= Limit(s)

\* Flow f has sent m, or has m's answer to save.
InFlight(f, m) ==
  flight[f][m] \in {"sent", "delivered", "retry_wait", "dead_letter", "uncertain"}

\* A message in flight has "sending" on disk and no terminal copy, and only one
\* flow has it.
OneSender(m) ==
  \A f \in Flow : InFlight(f, m) =>
    /\ pending[m] = "sending"
    /\ ~HasTerminal(m)
    /\ \A g \in Flow : InFlight(g, m) => g = f

\* The attempts on disk leave room for every attempt a flow may still make, and
\* are all the sends there were, until the record is pruned or damaged.
Counted(m) ==
  /\ pending[m] = "queued" => attempts[m] = 0
  /\ pending[m] = "retry_wait" => attempts[m] < MaxAttempts
  /\ \A f \in Flow : flight[f][m] = "retry_wait" => attempts[m] < MaxAttempts
  /\ m \notin forgotten => /\ tries[m] = attempts[m]
                           /\ RecordState(m) = "none" => tries[m] = 0

\* What the chat shows is on disk as "sending" at least, or in the flow's hands
\* as an answer that does not lead to another send.
Posted(m) ==
  m \notin forgotten /\ fallbacks[m] = 0 =>
    /\ shown[m] <= 1
    /\ RecordState(m) \in {"none", "queued", "retry_wait"} => shown[m] = 0
    /\ \A f \in Flow : flight[f][m] \in {"sent", "retry_wait", "dead_letter"} => shown[m] = 0

DirectOnly(m) == /\ flight["drain"][m] \notin {"begin", "direct"}
                 /\ flight["caller"][m] = "direct" => fallbacks[m] > 0

Good(m) == OneSender(m) /\ Counted(m) /\ Posted(m) /\ DirectOnly(m)

\* Nothing is in flight when recovery runs, and no stale copy is left.
CleanStart ==
  pc = "start" => \A m \in Message :
    /\ pending[m] # "none" => ~HasTerminal(m)
    /\ \A f \in Flow : flight[f][m] = "none"

Occupied == {m \in Message : pending[m] # "none"}
Room == Cardinality(Occupied) <= MaxPending

Typed == TypeOK /\ Dirs
Inv == Typed /\ CleanStart /\ Room /\ \A m \in Message : Good(m)

\* What ResolvedForGood asks of one message and one step.
Steady(m) ==
  m \notin forgotten' /\ RecordState(m) \in Terminal \cup {"uncertain"}
    => RecordState(m)' = RecordState(m)

PendingState == {"none", "queued", "sending", "retry_wait", "uncertain", "corrupt"}

LEMMA Sizes == /\ MaxAttempts \in Nat \ {0} /\ MaxPending \in Nat \ {0}
               /\ MaxCompleted \in Nat \ {0} /\ MaxDead \in Nat \ {0}
               /\ \A s \in Terminal : Limit(s) \in Nat \ {0}
<1>1. /\ MaxAttempts \in Nat \ {0} /\ MaxPending \in Nat \ {0}
      /\ MaxCompleted \in Nat \ {0} /\ MaxDead \in Nat \ {0}
  BY OutboxConstants
<1> QED BY <1>1 DEF Limit

----------------------------------------------------------------------------
(* What a save does                                                        *)

LEMMA FaultType == ASSUME NEW w, faults \in 0..MaxFaults, Fault(w) PROVE faults' \in 0..MaxFaults
BY OutboxConstants DEF Fault

\* A save in a pending state, of a message without a terminal copy.
LEMMA PendingSaved ==
  ASSUME Typed, NEW m \in Message, NEW s \in PendingState, NEW w, ~HasTerminal(m), SavePending(m, s, w)
  PROVE  /\ pending' = IF w = "ok" THEN [pending EXCEPT ![m] = s] ELSE pending
         /\ pending' \in [Message -> PendingState]
         /\ faults' \in 0..MaxFaults
         /\ Dirs'
         /\ DOMAIN terminal' = Terminal
         /\ \A t \in Terminal : Files(t)' = Files(t) /\ ToSet(terminal'[t]) \subseteq Message
<1>1. /\ pending \in [Message -> PendingState] /\ faults \in 0..MaxFaults
      /\ DOMAIN terminal = Terminal /\ \A t \in Terminal : ToSet(terminal[t]) \subseteq Message
  BY DEF Typed, TypeOK, PendingState
<1>2. /\ pending' = IF w = "ok" THEN [pending EXCEPT ![m] = s] ELSE pending
      /\ terminal' = IF w = "ok" THEN [t \in Terminal |-> Unlinked(terminal[t], m)] ELSE terminal
      /\ UNCHANGED faults \/ Fault(w)
  BY DEF SavePending
<1>3. pending' \in [Message -> PendingState]
  BY <1>1, <1>2
<1>4. faults' \in 0..MaxFaults
  BY <1>1, <1>2, FaultType
<1>5. ASSUME NEW t \in Terminal
      PROVE  /\ Directory(terminal'[t]) /\ Len(terminal'[t]) <= Limit(t)
             /\ ToSet(terminal'[t]) = ToSet(terminal[t])
  <2>1. Directory(terminal[t]) /\ Len(terminal[t]) <= Limit(t) /\ m \notin ToSet(terminal[t])
    BY DEF Typed, Dirs, HasTerminal, Files
  <2>2. terminal'[t] = terminal[t]
    BY <1>2, <2>1 DEF Unlinked
  <2> QED BY <2>1, <2>2
<1>6. DOMAIN terminal' = Terminal
  BY <1>1, <1>2
<1> QED BY <1>1, <1>2, <1>3, <1>4, <1>5, <1>6 DEF Dirs, Files

\* Saving one more file in pending/ stays within maxPendingRecords.
LEMMA RoomKept ==
  ASSUME Inv, NEW m \in Message, pending' \in [Message -> PendingState],
         Occupied' \subseteq Occupied \cup {m}, pending[m] # "none" \/ ~PendingFull(m)
  PROVE  Room'
<1> DEFINE O == {n \in Message \ {m} : pending[n] # "none"}
<1>1. IsFiniteSet(O) /\ Cardinality(O) \in Nat /\ IsFiniteSet(Occupied) /\ Cardinality(Occupied) \in Nat
  <2>1. O \subseteq Message /\ Occupied \subseteq Message
    BY DEF Occupied
  <2> QED BY <2>1, OutboxConstants, FS_Subset, FS_CardinalityType
<1>2. CASE pending[m] # "none"
  <2>1. Occupied' \subseteq Occupied
    BY <1>2 DEF Occupied
  <2>2. Cardinality(Occupied') <= Cardinality(Occupied) /\ Cardinality(Occupied') \in Nat
    BY <1>1, <2>1, FS_Subset, FS_CardinalityType
  <2> QED BY <1>1, <2>2, Sizes DEF Inv, Room
<1>3. CASE pending[m] = "none" /\ ~PendingFull(m)
  <2>1. Occupied' \subseteq O \cup {m}
    BY <1>3 DEF Occupied
  <2>2. IsFiniteSet(O \cup {m}) /\ Cardinality(O \cup {m}) = Cardinality(O) + 1
    BY <1>1, FS_AddElement
  <2>3. Cardinality(Occupied') <= Cardinality(O \cup {m}) /\ Cardinality(Occupied') \in Nat
    BY <2>1, <2>2, FS_Subset, FS_CardinalityType
  <2>4. Cardinality(O) < MaxPending
    BY <1>1, <1>3, Sizes DEF PendingFull
  <2> HIDE DEF O
  <2> QED BY <1>1, <2>2, <2>3, <2>4, Sizes DEF Room
<1> QED BY <1>2, <1>3

LEMMA RoomShrinks ==
  ASSUME Inv, Occupied' \subseteq Occupied
  PROVE  Room'
<1>1. Occupied \subseteq Message
  BY DEF Occupied
<1>2. IsFiniteSet(Occupied) /\ Cardinality(Occupied) \in Nat
  BY <1>1, OutboxConstants, FS_Subset, FS_CardinalityType
<1>3. Cardinality(Occupied') <= Cardinality(Occupied) /\ Cardinality(Occupied') \in Nat
  BY <1>2, FS_Subset, FS_CardinalityType
<1> QED BY <1>2, <1>3, Sizes DEF Inv, Room

\* A save in a terminal state, of a message without a terminal copy: other
\* messages lose a file only by being pruned, and m's is there unless it failed.
LEMMA TerminalSaved ==
  ASSUME Typed, NEW m \in Message, NEW s \in Terminal, NEW w, ~HasTerminal(m), SaveTerminal(m, s, w)
  PROVE  /\ pending' = IF w = "ok" THEN [pending EXCEPT ![m] = "none"] ELSE pending
         /\ pending' \in [Message -> PendingState]
         /\ faults' \in 0..MaxFaults
         /\ Dirs'
         /\ DOMAIN terminal' = Terminal
         /\ \A t \in Terminal : ToSet(terminal'[t]) \subseteq Message
         /\ \A t \in Terminal : Files(t)' \subseteq Files(t) \cup {m}
         /\ \A t \in Terminal : m \in Files(t)' <=> t = s /\ w \in {"ok", "stale"}
         /\ Pruned \subseteq Message
         /\ \A t \in Terminal : Files(t) \ Files(t)' \subseteq Pruned
<1> DEFINE room == IF m \in Files(s) THEN terminal[s] ELSE Newest(terminal[s], Limit(s) - 1)
<1>1. /\ pending \in [Message -> PendingState] /\ faults \in 0..MaxFaults
      /\ DOMAIN terminal = Terminal /\ \A t \in Terminal : ToSet(terminal[t]) \subseteq Message
  BY DEF Typed, TypeOK, PendingState
<1>2. /\ w \in {"ok", "lost", "pruned", "stale"}
      /\ Fault(w)
      /\ pending' = IF w = "ok" THEN [pending EXCEPT ![m] = "none"] ELSE pending
      /\ terminal' = [t \in Terminal |->
           IF t # s THEN IF w = "ok" THEN Unlinked(terminal[t], m) ELSE terminal[t]
           ELSE IF w = "lost" THEN terminal[s]
           ELSE IF w = "pruned" THEN room
           ELSE Append(Unlinked(room, m), m)]
  BY DEF SaveTerminal
<1>3. pending' \in [Message -> PendingState] /\ faults' \in 0..MaxFaults
  BY <1>1, <1>2, FaultType DEF PendingState
<1>4. \A t \in Terminal : Directory(terminal[t]) /\ Len(terminal[t]) <= Limit(t) /\ m \notin ToSet(terminal[t])
  BY DEF Typed, Dirs, HasTerminal, Files
<1>5. /\ Directory(room) /\ ToSet(room) \subseteq ToSet(terminal[s]) /\ m \notin ToSet(room)
      /\ Len(room) \in Nat /\ Len(room) <= Limit(s) - 1
  <2>1. Limit(s) - 1 \in Nat /\ m \notin Files(s)
    BY <1>4, Sizes DEF Files
  <2> QED BY <1>4, <2>1, NewestFiles
<1> HIDE DEF room
<1>6. /\ Directory(Append(room, m)) /\ ToSet(Append(room, m)) = ToSet(room) \cup {m}
      /\ Len(Append(room, m)) <= Limit(s)
  <2>1. Len(Append(room, m)) = Len(room) + 1
    BY <1>5, AppendedFile
  <2>2. Limit(s) \in Nat
    BY Sizes
  <2>3. Len(room) + 1 <= Limit(s)
    BY <1>5, <2>2
  <2> QED BY <1>5, <2>1, <2>3, AppendedFile
<1>7. /\ \A t \in Terminal \ {s} : terminal'[t] = terminal[t]
      /\ w = "lost" => terminal'[s] = terminal[s]
      /\ w = "pruned" => terminal'[s] = room
      /\ w \in {"ok", "stale"} => terminal'[s] = Append(room, m)
  BY <1>2, <1>4, <1>5 DEF Unlinked
<1>8. ASSUME NEW t \in Terminal
      PROVE  /\ Directory(terminal'[t]) /\ Len(terminal'[t]) <= Limit(t)
             /\ ToSet(terminal'[t]) \subseteq ToSet(terminal[t]) \cup {m}
             /\ m \in ToSet(terminal'[t]) <=> t = s /\ w \in {"ok", "stale"}
  <2>1. CASE t # s \/ w = "lost"
    BY <1>4, <1>7, <2>1
  <2>2. CASE t = s /\ w = "pruned"
    <3>1. Len(room) <= Limit(s)
      BY <1>5, Sizes
    <3> QED BY <1>4, <1>5, <1>7, <2>2, <3>1
  <2>3. CASE t = s /\ w \in {"ok", "stale"}
    BY <1>4, <1>5, <1>6, <1>7, <2>3
  <2> QED BY <1>2, <2>1, <2>2, <2>3
<1>9. DOMAIN terminal' = Terminal
  BY <1>2
<1>10. Pruned \subseteq Message /\ \A t \in Terminal : Files(t) \ Files(t)' \subseteq Pruned
  BY <1>1 DEF Pruned, Files
<1> QED BY <1>1, <1>2, <1>3, <1>8, <1>9, <1>10 DEF Dirs, Files

----------------------------------------------------------------------------
(* Messages a step does not work on                                        *)

\* The record of m is untouched, but for a copy in pending/ that no reader would
\* take for the record, and for the pruning of its terminal copy.
RecordUntouched(m) ==
  /\ \/ pending'[m] = pending[m]
     \/ pending'[m] = "none" /\ (HasTerminal(m) \/ pending[m] = "corrupt")
  /\ \A t \in Terminal : /\ m \in Files(t)' => m \in Files(t)
                         /\ m \in Files(t) /\ m \notin Files(t)' => m \in forgotten'
  /\ forgotten \subseteq forgotten'

\* The flows have at most let go of m, or sent it past the journal.
FlowsLetGo(m) ==
  /\ \A f \in Flow : \/ flight'[f][m] \in {flight[f][m], "none"}
                     \/ f = "caller" /\ flight'[f][m] = "direct" /\ fallbacks'[m] > 0
  /\ fallbacks[m] \in Nat /\ fallbacks'[m] \in Nat /\ fallbacks'[m] >= fallbacks[m]

CountsSame(m) == attempts'[m] = attempts[m] /\ tries'[m] = tries[m] /\ shown'[m] = shown[m]

\* An untouched record reads the same unless its terminal copy was pruned.
LEMMA ReadsTheSame ==
  ASSUME NEW m \in Message, RecordUntouched(m), m \notin forgotten'
  PROVE  RecordState(m)' = RecordState(m)
<1>1. \A t \in Terminal : m \in Files(t)' <=> m \in Files(t)
  BY DEF RecordUntouched
<1>2. /\ m \in Files("delivered")' <=> m \in Files("delivered")
      /\ m \in Files("dead_letter")' <=> m \in Files("dead_letter")
  BY <1>1 DEF Terminal
<1>3. HasTerminal(m) <=> m \in Files("delivered") \/ m \in Files("dead_letter")
  BY DEF HasTerminal, Terminal
<1> QED BY <1>2, <1>3 DEF RecordUntouched, RecordState

LEMMA UntouchedStaysGood ==
  ASSUME NEW m \in Message, Good(m), RecordUntouched(m), FlowsLetGo(m), CountsSame(m)
  PROVE  Good(m)' /\ Steady(m)
<1>1. Steady(m)
  BY ReadsTheSame DEF Steady
<1>2. \A f \in Flow : InFlight(f, m)' => InFlight(f, m)
  BY DEF InFlight, FlowsLetGo
<1>3. HasTerminal(m)' => HasTerminal(m)
  BY DEF HasTerminal, RecordUntouched
<1>4. OneSender(m)'
  BY <1>2, <1>3 DEF Good, OneSender, RecordUntouched
<1>5. Counted(m)'
  <2>1. /\ pending'[m] = "queued" => attempts'[m] = 0
        /\ pending'[m] = "retry_wait" => attempts'[m] < MaxAttempts
        /\ \A f \in Flow : flight'[f][m] = "retry_wait" => attempts'[m] < MaxAttempts
    BY DEF Good, Counted, RecordUntouched, FlowsLetGo, CountsSame
  <2>2. ASSUME m \notin forgotten'
        PROVE  tries'[m] = attempts'[m] /\ (RecordState(m)' = "none" => tries'[m] = 0)
    <3>1. m \notin forgotten
      BY <2>2 DEF RecordUntouched
    <3> QED BY <2>2, <3>1, ReadsTheSame DEF Good, Counted, CountsSame
  <2> QED BY <2>1, <2>2 DEF Counted
<1>6. Posted(m)'
  <2> SUFFICES ASSUME m \notin forgotten', fallbacks'[m] = 0
               PROVE  /\ shown'[m] <= 1
                      /\ RecordState(m)' \in {"none", "queued", "retry_wait"} => shown'[m] = 0
                      /\ \A f \in Flow : flight'[f][m] \in {"sent", "retry_wait", "dead_letter"}
                                           => shown'[m] = 0
    BY DEF Posted
  <2>1. m \notin forgotten /\ fallbacks[m] = 0
    BY DEF RecordUntouched, FlowsLetGo
  <2> QED BY <2>1, ReadsTheSame DEF Good, Posted, CountsSame, FlowsLetGo
<1>7. DirectOnly(m)'
  BY DEF Good, DirectOnly, FlowsLetGo, Flow
<1> QED BY <1>1, <1>4, <1>5, <1>6, <1>7 DEF Good

\* A flow that throws lets go of its message, or sends it directly.
LEMMA ThrowLetsGo ==
  ASSUME Typed, NEW f \in Flow, NEW m \in Message, Throws(f, m), pc \in {"up"}
  PROVE  /\ \A n \in Message : FlowsLetGo(n)
         /\ flight' \in [Flow -> [Message -> Step]]
         /\ fallbacks' \in [Message -> Nat]
         /\ pc' \in {"up", "down"} /\ draining' \in BOOLEAN /\ todo' \subseteq Message
<1>1. /\ flight \in [Flow -> [Message -> Step]] /\ fallbacks \in [Message -> Nat]
      /\ draining \in BOOLEAN /\ todo \subseteq Message
  BY DEF Typed, TypeOK
<1>2. "none" \in Step /\ "direct" \in Step /\ f \in {"caller", "drain"}
  BY DEF Step, Flow
<1>3. CASE f = "caller" /\ mode = "shadow"
  <2>1. /\ flight' = [flight EXCEPT ![f][m] = "direct"]
        /\ fallbacks' = [fallbacks EXCEPT ![m] = @ + 1]
        /\ UNCHANGED <<pc, draining, todo>>
    BY <1>3 DEF Throws
  <2> QED BY <1>1, <1>2, <1>3, <2>1 DEF FlowsLetGo
<1>4. CASE ~(f = "caller" /\ mode = "shadow")
  <2>1. flight' = [flight EXCEPT ![f][m] = "none"] /\ fallbacks' = fallbacks
    BY <1>2, <1>4 DEF Throws
  <2>2. \/ UNCHANGED <<pc, draining, todo>>
        \/ draining' = FALSE /\ todo' = {} /\ pc' \in {"up", "down"}
    BY <1>2, <1>4 DEF Throws
  <2>3. pc' \in {"up", "down"} /\ todo' \subseteq Message
    BY <1>1, <2>2
  <2>4. draining' \in BOOLEAN
    BY <1>1, <2>2, Zenon
  <2> QED BY <1>1, <1>2, <2>1, <2>3, <2>4 DEF FlowsLetGo
<1> QED BY <1>3, <1>4

\* What every step owes: the next state is good, and resolved records stay.
Owed == Inv' /\ \A m \in Message : Steady(m)

\* A step that leaves every record untouched and the flows at most let go.
LEMMA QuietStep ==
  ASSUME Inv, TypeOK', Dirs', CleanStart',
         \A m \in Message : RecordUntouched(m) /\ FlowsLetGo(m) /\ CountsSame(m)
  PROVE  Owed
<1>1. \A m \in Message : Good(m)' /\ Steady(m)
  BY UntouchedStaysGood DEF Inv
<1>2. Occupied' \subseteq Occupied
  BY DEF Occupied, RecordUntouched
<1>3. Room'
  BY <1>2, RoomShrinks
<1> QED BY <1>1, <1>3 DEF Owed, Inv, Typed

\* A step that works on one message only.
LEMMA OneMessageStep ==
  ASSUME Inv, TypeOK', Dirs', CleanStart', Room', NEW m \in Message,
         Good(m)' /\ Steady(m),
         \A n \in Message \ {m} : RecordUntouched(n) /\ FlowsLetGo(n) /\ CountsSame(n)
  PROVE  Owed
<1>1. \A n \in Message \ {m} : Good(n)' /\ Steady(n)
  BY UntouchedStaysGood DEF Inv
<1>2. \A n \in Message : Good(n)' /\ Steady(n)
  BY <1>1
<1> QED BY <1>2 DEF Owed, Inv, Typed

LEMMA FlightSet ==
  ASSUME flight \in [Flow -> [Message -> Step]], NEW f \in Flow, NEW m \in Message, NEW v \in Step,
         flight' = [flight EXCEPT ![f][m] = v]
  PROVE  /\ flight' \in [Flow -> [Message -> Step]]
         /\ flight'[f][m] = v
         /\ \A g \in Flow, n \in Message : g # f \/ n # m => flight'[g][n] = flight[g][n]
OBVIOUS

\* What get returns for a message without a terminal copy, and what it tells.
LEMMA Reading ==
  ASSUME NEW m \in Message
  PROVE  /\ ~HasTerminal(m) => RecordState(m) = IF pending[m] = "corrupt" THEN "none" ELSE pending[m]
         /\ RecordState(m) \notin Terminal => ~HasTerminal(m)
         /\ HasTerminal(m) => RecordState(m) \in Terminal
         /\ RecordState(m) = "none" => pending[m] \in {"none", "corrupt"} /\ ~HasTerminal(m)
BY DEF HasTerminal, RecordState, Terminal

LEMMA ReadingNext ==
  ASSUME NEW m \in Message
  PROVE  /\ ~HasTerminal(m)' => RecordState(m)' = IF pending'[m] = "corrupt" THEN "none" ELSE pending'[m]
         /\ HasTerminal(m)' => RecordState(m)' \in Terminal
BY DEF HasTerminal, RecordState, Terminal

LEMMA SameFiles ==
  ASSUME NEW m \in Message, \A t \in Terminal : Files(t)' = Files(t)
  PROVE  HasTerminal(m)' <=> HasTerminal(m)
BY DEF HasTerminal

\* Where a message is in flight its record reads "sending".
LEMMA FlyingReads ==
  ASSUME NEW m \in Message, Good(m), NEW f \in Flow, InFlight(f, m)
  PROVE  /\ pending[m] = "sending" /\ ~HasTerminal(m) /\ RecordState(m) = "sending"
         /\ \A g \in Flow : InFlight(g, m) => g = f
BY Reading DEF Good, OneSender

\* Steps that keep the files of every message in their directories.
LEMMA OthersUntouched ==
  ASSUME Typed, NEW m \in Message, \A t \in Terminal : Files(t)' = Files(t),
         \A n \in Message \ {m} : pending'[n] = pending[n] /\ CountsSame(n),
         \A g \in Flow, n \in Message : n # m => flight'[g][n] = flight[g][n],
         fallbacks' = fallbacks, forgotten \subseteq forgotten'
  PROVE  \A n \in Message \ {m} : RecordUntouched(n) /\ FlowsLetGo(n) /\ CountsSame(n)
BY DEF RecordUntouched, FlowsLetGo, Typed, TypeOK

----------------------------------------------------------------------------
(* enqueue                                                                 *)

LEMMA EnqueueNewOwed ==
  ASSUME Inv, NEW m \in Message, EnqueueNew(m)
  PROVE  Owed
<1>1. Typed /\ TypeOK /\ Good(m)
  BY DEF Inv, Typed
<1>2. /\ pc = "up" /\ pc' = pc /\ ~PendingFull(m)
      /\ RecordState(m) = "none" /\ ~HasTerminal(m) /\ pending[m] \in {"none", "corrupt"}
      /\ flight["caller"][m] = "none" /\ calls[m] < MaxCalls
      /\ calls' = [calls EXCEPT ![m] = @ + 1]
      /\ SavePending(m, "queued", "ok")
      /\ attempts' = [attempts EXCEPT ![m] = 0]
      /\ waiting' = waiting \ {m}
      /\ flight' = [flight EXCEPT !["caller"][m] = "begin"]
      /\ UNCHANGED <<mode, draining, todo, tries, fallbacks, shown, pruned, damaged>>
  BY Reading DEF EnqueueNew, Called
<1>3. /\ pending' = [pending EXCEPT ![m] = "queued"]
      /\ pending' \in [Message -> PendingState] /\ faults' \in 0..MaxFaults
      /\ Dirs' /\ DOMAIN terminal' = Terminal
      /\ \A t \in Terminal : Files(t)' = Files(t) /\ ToSet(terminal'[t]) \subseteq Message
  BY <1>1, <1>2, PendingSaved DEF PendingState
<1>4. /\ flight' \in [Flow -> [Message -> Step]]
      /\ flight'["caller"][m] = "begin" /\ flight'["drain"][m] = flight["drain"][m]
      /\ \A g \in Flow, n \in Message : n # m => flight'[g][n] = flight[g][n]
  <2>1. flight \in [Flow -> [Message -> Step]] /\ "begin" \in Step
    BY <1>1 DEF TypeOK, Step
  <2>2. "caller" \in Flow /\ "drain" \in Flow
    BY DEF Flow
  <2> QED BY <1>2, <2>1, <2>2, FlightSet
<1>5. /\ attempts' \in [Message -> 0..MaxAttempts] /\ attempts'[m] = 0
      /\ \A n \in Message \ {m} : attempts'[n] = attempts[n]
  <2>1. 0 \in 0..MaxAttempts
    BY Sizes
  <2> QED BY <1>1, <1>2, <2>1 DEF TypeOK
<1>6. calls' \in [Message -> 0..MaxCalls]
  BY <1>1, <1>2, OutboxConstants DEF TypeOK
<1>7. TypeOK'
  <2>1. (draining \in BOOLEAN)'
    BY <1>1, <1>2, Zenon DEF TypeOK
  <2> QED BY <1>1, <1>2, <1>3, <1>4, <1>5, <1>6, <2>1 DEF TypeOK, Dirs, PendingState
<1>8. ~HasTerminal(m)' /\ RecordState(m)' = "queued" /\ pending'[m] = "queued"
  <2>1. pending'[m] = "queued"
    BY <1>1, <1>3 DEF TypeOK
  <2> QED BY <1>2, <1>3, <2>1, SameFiles, ReadingNext
<1>9. \A f \in Flow : flight'[f][m] \in {"none", "begin"}
  <2>1. ~InFlight("drain", m)
    BY <1>1, <1>2, FlyingReads DEF Flow
  <2>2. flight["drain"][m] \in Step \ {"begin", "direct"}
    BY <1>1 DEF TypeOK, Good, DirectOnly, Flow
  <2>3. flight["drain"][m] = "none"
    BY <2>1, <2>2 DEF InFlight, Step
  <2> QED BY <1>4, <2>3 DEF Flow
<1>10. Good(m)' /\ Steady(m)
  <2>1. OneSender(m)'
    BY <1>9 DEF OneSender, InFlight
  <2>2. m \notin forgotten' => tries'[m] = 0
    BY <1>1, <1>2 DEF Good, Counted, forgotten
  <2>3. Counted(m)'
    BY <1>5, <1>8, <1>9, <2>2 DEF Counted
  <2>4. m \notin forgotten' /\ fallbacks'[m] = 0 => shown'[m] = 0
    BY <1>1, <1>2 DEF Good, Posted, forgotten
  <2>5. Posted(m)'
    BY <2>4 DEF Posted
  <2>6. DirectOnly(m)'
    BY <1>1, <1>4 DEF Good, DirectOnly
  <2>7. Steady(m)
    BY <1>2 DEF Steady, Terminal
  <2> QED BY <2>1, <2>3, <2>5, <2>6, <2>7 DEF Good
<1>11. CleanStart'
  BY <1>2 DEF CleanStart
<1>12. Room'
  <2>1. Occupied' \subseteq Occupied \cup {m}
    BY <1>1, <1>3 DEF Occupied, TypeOK
  <2> QED BY <1>2, <1>3, <2>1, RoomKept
<1>13. \A n \in Message \ {m} : RecordUntouched(n) /\ FlowsLetGo(n) /\ CountsSame(n)
  <2>1. forgotten \subseteq forgotten'
    BY <1>2 DEF forgotten
  <2>2. \A n \in Message \ {m} : pending'[n] = pending[n] /\ CountsSame(n)
    BY <1>1, <1>2, <1>3, <1>5 DEF CountsSame, TypeOK
  <2> QED BY <1>1, <1>2, <1>3, <1>4, <2>1, <2>2, OthersUntouched
<1> QED BY <1>3, <1>7, <1>10, <1>11, <1>12, <1>13, OneMessageStep

LEMMA EnqueueOtherOwed ==
  ASSUME Inv, NEW m \in Message, EnqueueKnown(m) \/ EnqueueFails(m)
  PROVE  Owed
<1>1. Typed /\ TypeOK /\ Dirs
  BY DEF Inv, Typed
<1>2. pc = "up" /\ calls' = [calls EXCEPT ![m] = @ + 1] /\ calls[m] < MaxCalls
  BY DEF EnqueueKnown, EnqueueFails, Called
<1>3. calls' \in [Message -> 0..MaxCalls]
  BY <1>1, <1>2, OutboxConstants DEF TypeOK
<1>4. CASE EnqueueKnown(m)
  <2>1. UNCHANGED <<files, memory, tries, fallbacks, shown, pruned, damaged, faults>>
    BY <1>4 DEF EnqueueKnown
  <2>2. TypeOK'
    <3>1. (draining \in BOOLEAN)'
      BY <1>1, <2>1, Zenon DEF TypeOK, memory
    <3> QED BY <1>1, <1>3, <2>1, <3>1 DEF TypeOK, files, memory, Files
  <2>3. Dirs' /\ CleanStart'
    BY <1>1, <1>2, <2>1 DEF Dirs, CleanStart, files, memory
  <2>4. \A n \in Message : RecordUntouched(n) /\ FlowsLetGo(n) /\ CountsSame(n)
    BY <1>1, <2>1 DEF RecordUntouched, FlowsLetGo, CountsSame, files, memory, forgotten, Files, TypeOK
  <2> QED BY <2>2, <2>3, <2>4, QuietStep
<1>5. CASE EnqueueFails(m)
  <2>1. /\ RecordState(m) = "none" /\ pending[m] \in {"none", "corrupt"}
        /\ UNCHANGED faults \/ Fault("lost")
        /\ pending' = [pending EXCEPT ![m] = "none"]
        /\ Throws("caller", m)
        /\ UNCHANGED <<terminal, attempts, waiting, mode, tries, shown, pruned, damaged>>
    BY <1>5, Reading DEF EnqueueFails
  <2>2. /\ \A n \in Message : FlowsLetGo(n)
        /\ flight' \in [Flow -> [Message -> Step]] /\ fallbacks' \in [Message -> Nat]
        /\ pc' \in {"up", "down"} /\ draining' \in BOOLEAN /\ todo' \subseteq Message
    BY <1>1, <1>2, <2>1, ThrowLetsGo DEF Flow
  <2>3. faults' \in 0..MaxFaults
    BY <1>1, <2>1, FaultType DEF TypeOK
  <2>4. pending' \in [Message -> PendingState]
    BY <1>1, <2>1 DEF TypeOK, PendingState
  <2>5. TypeOK'
    BY <1>1, <1>3, <2>1, <2>2, <2>3, <2>4 DEF TypeOK, PendingState
  <2>6. Dirs' /\ CleanStart'
    BY <1>1, <2>1, <2>2 DEF Dirs, CleanStart
  <2>7. \A n \in Message : RecordUntouched(n) /\ CountsSame(n)
    BY <1>1, <2>1 DEF RecordUntouched, CountsSame, forgotten, Files, TypeOK
  <2> QED BY <2>2, <2>5, <2>6, <2>7, QuietStep
<1> QED BY <1>4, <1>5

----------------------------------------------------------------------------
(* attempt                                                                 *)

LEMMA AttemptOwed ==
  ASSUME Inv, NEW f \in Flow, NEW m \in Message, Attempt(f, m)
  PROVE  Owed
<1>1. Typed /\ TypeOK /\ Good(m)
  BY DEF Inv, Typed
<1>2. /\ pc = "up" /\ pc' = pc
      /\ todo' \in {todo, todo \ {m}}
      /\ RecordState(m) \in {"queued", "retry_wait"}
      /\ SavePending(m, "sending", "ok")
      /\ attempts' = [attempts EXCEPT ![m] = @ + 1]
      /\ flight' = [flight EXCEPT ![f][m] = "sent"]
      /\ tries' = [tries EXCEPT ![m] = @ + 1]
      /\ UNCHANGED <<waiting, mode, draining, fallbacks, shown, calls, pruned, damaged>>
  BY DEF Attempt, Turn, TurnTaken, Sendable
<1>3. ~HasTerminal(m) /\ pending[m] = RecordState(m) /\ attempts[m] < MaxAttempts
  <2>1. ~HasTerminal(m) /\ pending[m] = RecordState(m)
    BY <1>2, Reading DEF Terminal
  <2> QED BY <1>1, <1>2, <2>1, Sizes DEF Good, Counted
<1>4. /\ pending' = [pending EXCEPT ![m] = "sending"]
      /\ pending' \in [Message -> PendingState] /\ faults' \in 0..MaxFaults
      /\ Dirs' /\ DOMAIN terminal' = Terminal
      /\ \A t \in Terminal : Files(t)' = Files(t) /\ ToSet(terminal'[t]) \subseteq Message
  BY <1>1, <1>2, <1>3, PendingSaved DEF PendingState
<1>5. /\ flight' \in [Flow -> [Message -> Step]]
      /\ flight'[f][m] = "sent"
      /\ \A g \in Flow, n \in Message : g # f \/ n # m => flight'[g][n] = flight[g][n]
  <2>1. flight \in [Flow -> [Message -> Step]] /\ "sent" \in Step
    BY <1>1 DEF TypeOK, Step
  <2> QED BY <1>2, <2>1, FlightSet
<1>6. /\ attempts' \in [Message -> 0..MaxAttempts] /\ attempts'[m] = attempts[m] + 1
      /\ tries' \in [Message -> Nat] /\ tries'[m] = tries[m] + 1
      /\ \A n \in Message \ {m} : attempts'[n] = attempts[n] /\ tries'[n] = tries[n]
  <2>1. attempts[m] + 1 \in 0..MaxAttempts /\ tries[m] + 1 \in Nat
    BY <1>1, <1>3, Sizes DEF TypeOK
  <2> QED BY <1>1, <1>2, <2>1 DEF TypeOK
<1>7. TypeOK'
  <2>1. (draining \in BOOLEAN)'
    BY <1>1, <1>2, Zenon DEF TypeOK
  <2>2. todo' \subseteq Message
    BY <1>1, <1>2 DEF TypeOK
  <2> QED BY <1>1, <1>2, <1>4, <1>5, <1>6, <2>1, <2>2 DEF TypeOK, Dirs, PendingState
<1>8. ~HasTerminal(m)' /\ RecordState(m)' = "sending" /\ pending'[m] = "sending"
  <2>1. pending'[m] = "sending"
    BY <1>1, <1>4 DEF TypeOK
  <2> QED BY <1>3, <1>4, <2>1, SameFiles, ReadingNext
<1>9. \A g \in Flow : ~InFlight(g, m)
  BY <1>1, <1>2, FlyingReads
<1>10. \A g \in Flow : InFlight(g, m)' => g = f
  BY <1>5, <1>9 DEF InFlight
<1>11. Good(m)' /\ Steady(m)
  <2>1. OneSender(m)'
    BY <1>8, <1>10 DEF OneSender
  <2>2. m \notin forgotten' => tries'[m] = attempts'[m]
    BY <1>1, <1>2, <1>6 DEF Good, Counted, forgotten
  <2>3. \A g \in Flow : flight'[g][m] # "retry_wait"
    BY <1>5, <1>10 DEF InFlight
  <2>4. Counted(m)'
    BY <1>8, <2>2, <2>3 DEF Counted
  <2>5. m \notin forgotten' /\ fallbacks'[m] = 0 => shown'[m] = 0
    BY <1>1, <1>2 DEF Good, Posted, forgotten
  <2>6. Posted(m)'
    BY <2>5 DEF Posted
  <2>7. DirectOnly(m)'
    BY <1>1, <1>2, <1>5 DEF Good, DirectOnly, Flow
  <2>8. Steady(m)
    BY <1>2 DEF Steady, Terminal
  <2> QED BY <2>1, <2>4, <2>6, <2>7, <2>8 DEF Good
<1>12. CleanStart'
  BY <1>2 DEF CleanStart
<1>13. Room'
  <2>1. Occupied' \subseteq Occupied \cup {m}
    BY <1>1, <1>4 DEF Occupied, TypeOK
  <2> QED BY <1>2, <1>3, <1>4, <2>1, RoomKept
<1>14. \A n \in Message \ {m} : RecordUntouched(n) /\ FlowsLetGo(n) /\ CountsSame(n)
  <2>1. forgotten \subseteq forgotten'
    BY <1>2 DEF forgotten
  <2>2. \A n \in Message \ {m} : pending'[n] = pending[n] /\ CountsSame(n)
    BY <1>1, <1>2, <1>4, <1>6 DEF CountsSame, TypeOK
  <2>3. fallbacks' = fallbacks /\ \A g \in Flow, n \in Message : n # m => flight'[g][n] = flight[g][n]
    BY <1>2, <1>5
  <2> QED BY <1>1, <1>4, <2>1, <2>2, <2>3, OthersUntouched
<1> QED BY <1>4, <1>7, <1>11, <1>12, <1>13, <1>14, OneMessageStep

LEMMA AttemptSkipsOwed ==
  ASSUME Inv, NEW f \in Flow, NEW m \in Message, AttemptSkips(f, m)
  PROVE  Owed
<1>1. Typed /\ TypeOK /\ Dirs
  BY DEF Inv, Typed
<1>2. /\ pc = "up" /\ todo' \in {todo, todo \ {m}}
      /\ flight' = [flight EXCEPT ![f][m] = "none"]
      /\ UNCHANGED <<files, mode, pc, draining, history, faults>>
  BY DEF AttemptSkips, Turn, TurnTaken
<1>3. /\ flight' \in [Flow -> [Message -> Step]] /\ flight'[f][m] = "none"
      /\ \A g \in Flow, n \in Message : g # f \/ n # m => flight'[g][n] = flight[g][n]
  <2>1. flight \in [Flow -> [Message -> Step]] /\ "none" \in Step
    BY <1>1 DEF TypeOK, Step
  <2> QED BY <1>2, <2>1, FlightSet
<1>4. TypeOK'
  <2>1. (draining \in BOOLEAN)'
    BY <1>1, <1>2, Zenon DEF TypeOK
  <2>2. todo' \subseteq Message
    BY <1>1, <1>2 DEF TypeOK
  <2> QED BY <1>1, <1>2, <1>3, <2>1, <2>2 DEF TypeOK, files, history
<1>5. Dirs' /\ CleanStart'
  BY <1>1, <1>2 DEF Dirs, CleanStart, files
<1>6. \A n \in Message : RecordUntouched(n) /\ CountsSame(n)
  BY <1>2 DEF RecordUntouched, CountsSame, forgotten, Files, files, history
<1>7. \A n \in Message : FlowsLetGo(n)
  BY <1>1, <1>2, <1>3 DEF FlowsLetGo, history, TypeOK
<1> QED BY <1>4, <1>5, <1>6, <1>7, QuietStep

LEMMA AttemptThrowsOwed ==
  ASSUME Inv, NEW f \in Flow, NEW m \in Message, AttemptThrows(f, m)
  PROVE  Owed
<1>1. Typed /\ TypeOK /\ Dirs
  BY DEF Inv, Typed
<1>2. /\ pc = "up" /\ Throws(f, m)
      /\ UNCHANGED <<attempts, waiting, mode, tries, shown, calls, pruned, damaged>>
  BY DEF AttemptThrows, Turn
<1>3. /\ \A n \in Message : FlowsLetGo(n)
      /\ flight' \in [Flow -> [Message -> Step]] /\ fallbacks' \in [Message -> Nat]
      /\ pc' \in {"up", "down"} /\ draining' \in BOOLEAN /\ todo' \subseteq Message
  BY <1>1, <1>2, ThrowLetsGo
<1>4. /\ pending' \in [Message -> PendingState] /\ faults' \in 0..MaxFaults
      /\ Dirs' /\ DOMAIN terminal' = Terminal
      /\ \A t \in Terminal : Files(t)' = Files(t) /\ ToSet(terminal'[t]) \subseteq Message
      /\ \A n \in Message : \/ pending'[n] = pending[n]
                            \/ pending'[n] = "none" /\ pending[n] = "corrupt"
  <2>1. CASE /\ RecordState(m) = "none"
             /\ pending' = [pending EXCEPT ![m] = "none"]
             /\ UNCHANGED <<terminal, faults>>
    <3>1. pending[m] \in {"none", "corrupt"}
      BY <2>1, Reading
    <3>2. pending \in [Message -> PendingState]
      BY <1>1 DEF TypeOK, PendingState
    <3>3. /\ pending' \in [Message -> PendingState]
          /\ \A n \in Message : \/ pending'[n] = pending[n]
                                \/ pending'[n] = "none" /\ pending[n] = "corrupt"
      BY <2>1, <3>1, <3>2 DEF PendingState
    <3> QED BY <1>1, <2>1, <3>3 DEF TypeOK, Dirs, Files
  <2>2. CASE Sendable(m) /\ SavePending(m, "sending", "lost")
    <3>1. ~HasTerminal(m) /\ "sending" \in PendingState
      BY <2>2, Reading DEF Sendable, Terminal, PendingState
    <3> QED BY <1>1, <2>2, <3>1, PendingSaved
  <2> QED BY <2>1, <2>2 DEF AttemptThrows
<1>5. TypeOK'
  BY <1>1, <1>2, <1>3, <1>4 DEF TypeOK, Dirs, PendingState
<1>6. CleanStart'
  BY <1>3 DEF CleanStart
<1>7. \A n \in Message : RecordUntouched(n) /\ CountsSame(n)
  BY <1>2, <1>4 DEF RecordUntouched, CountsSame, forgotten
<1> QED BY <1>3, <1>4, <1>5, <1>6, <1>7, QuietStep

----------------------------------------------------------------------------
(* Answers                                                                 *)

LEMMA AnswerOwed ==
  ASSUME Inv, NEW f \in Flow, NEW m \in Message, Answer(f, m)
  PROVE  Owed
<1>1. Typed /\ TypeOK /\ Dirs /\ Good(m)
  BY DEF Inv, Typed
<1>2. /\ pc = "up" /\ flight[f][m] = "sent"
      /\ UNCHANGED <<files, mode, pc, draining, todo, tries, fallbacks, calls, pruned, damaged, faults>>
  BY DEF Answer
<1>3. PICK next \in {"delivered", RetryableState(m), "dead_letter", "uncertain"}, posted \in {0, 1} :
        /\ next = "delivered" => posted = 1
        /\ next \in {"retry_wait", "dead_letter"} => posted = 0
        /\ shown' = [shown EXCEPT ![m] = @ + posted]
        /\ flight' = [flight EXCEPT ![f][m] = next]
  BY DEF Answer
<1>4. /\ next \in {"delivered", "retry_wait", "dead_letter", "uncertain"}
      /\ next = "retry_wait" => attempts[m] < MaxAttempts
  BY DEF RetryableState
<1>5. /\ flight' \in [Flow -> [Message -> Step]] /\ flight'[f][m] = next
      /\ \A g \in Flow, n \in Message : g # f \/ n # m => flight'[g][n] = flight[g][n]
  <2>1. flight \in [Flow -> [Message -> Step]] /\ next \in Step
    BY <1>1, <1>4 DEF TypeOK, Step
  <2> QED BY <1>3, <2>1, FlightSet
<1>6. /\ shown' \in [Message -> Nat] /\ shown'[m] = shown[m] + posted
      /\ \A n \in Message \ {m} : shown'[n] = shown[n]
  <2>1. shown[m] + posted \in Nat
    BY <1>1 DEF TypeOK
  <2> QED BY <1>1, <1>3, <2>1 DEF TypeOK
<1>7. TypeOK'
  <2>1. (draining \in BOOLEAN)'
    BY <1>1, <1>2, Zenon DEF TypeOK
  <2> QED BY <1>1, <1>2, <1>5, <1>6, <2>1 DEF TypeOK, files
<1>8. /\ InFlight(f, m) /\ pending[m] = "sending" /\ ~HasTerminal(m) /\ RecordState(m) = "sending"
      /\ \A g \in Flow : InFlight(g, m) => g = f
  <2>1. InFlight(f, m)
    BY <1>2 DEF InFlight
  <2> QED BY <1>1, <2>1, FlyingReads
<1>9. pending'[m] = "sending" /\ ~HasTerminal(m)' /\ RecordState(m)' = "sending"
  BY <1>2, <1>8 DEF files, HasTerminal, Files, RecordState
<1>10. \A g \in Flow : InFlight(g, m)' => g = f
  BY <1>5, <1>8 DEF InFlight
<1>11. Good(m)' /\ Steady(m)
  <2>1. OneSender(m)'
    BY <1>9, <1>10 DEF OneSender
  <2>2. \A g \in Flow : flight'[g][m] = "retry_wait" => attempts'[m] < MaxAttempts
    BY <1>2, <1>4, <1>5, <1>10 DEF InFlight, files
  <2>3. m \notin forgotten' => tries'[m] = attempts'[m]
    BY <1>1, <1>2 DEF Good, Counted, forgotten, files
  <2>4. Counted(m)'
    BY <1>9, <2>2, <2>3 DEF Counted
  <2>5. m \notin forgotten' /\ fallbacks'[m] = 0 => shown[m] = 0
    BY <1>1, <1>2 DEF Good, Posted, forgotten
  <2>6. Posted(m)'
    <3> SUFFICES ASSUME m \notin forgotten', fallbacks'[m] = 0
                 PROVE  /\ shown'[m] <= 1
                        /\ \A g \in Flow : flight'[g][m] \in {"sent", "retry_wait", "dead_letter"}
                                             => shown'[m] = 0
      BY <1>9 DEF Posted
    <3>1. shown'[m] = posted
      BY <1>6, <2>5
    <3>2. ASSUME NEW g \in Flow, flight'[g][m] \in {"sent", "retry_wait", "dead_letter"}
          PROVE  shown'[m] = 0
      <4>1. g = f
        BY <1>10, <3>2 DEF InFlight
      <4> QED BY <1>3, <1>4, <1>5, <3>1, <3>2, <4>1
    <3> QED BY <3>1, <3>2
  <2>7. DirectOnly(m)'
    BY <1>1, <1>2, <1>4, <1>5 DEF Good, DirectOnly, Flow
  <2>8. Steady(m)
    BY <1>8 DEF Steady, Terminal
  <2> QED BY <2>1, <2>4, <2>6, <2>7, <2>8 DEF Good
<1>12. CleanStart' /\ Dirs'
  BY <1>1, <1>2 DEF CleanStart, Dirs, files
<1>13. Room'
  BY <1>2, RoomShrinks DEF Occupied, files
<1>14. \A n \in Message \ {m} : RecordUntouched(n) /\ FlowsLetGo(n) /\ CountsSame(n)
  <2>1. forgotten \subseteq forgotten' /\ \A t \in Terminal : Files(t)' = Files(t)
    BY <1>2 DEF forgotten, files, Files
  <2>2. \A n \in Message \ {m} : pending'[n] = pending[n] /\ CountsSame(n)
    BY <1>2, <1>6 DEF CountsSame, files
  <2> QED BY <1>1, <1>2, <1>5, <2>1, <2>2, OthersUntouched
<1> QED BY <1>7, <1>11, <1>12, <1>13, <1>14, OneMessageStep

\* The direct send of shadow mode counts in shown only where fallbacks excuses it.
LEMMA DirectAnswerOwed ==
  ASSUME Inv, NEW m \in Message, DirectAnswer(m)
  PROVE  Owed
<1>1. Typed /\ TypeOK /\ Dirs /\ Good(m)
  BY DEF Inv, Typed
<1>2. /\ pc = "up" /\ flight["caller"][m] = "direct"
      /\ flight' = [flight EXCEPT !["caller"][m] = "none"]
      /\ UNCHANGED <<files, mode, pc, draining, todo, tries, fallbacks, calls, pruned, damaged, faults>>
  BY DEF DirectAnswer
<1>3. PICK posted \in {0, 1} : shown' = [shown EXCEPT ![m] = @ + posted]
  BY DEF DirectAnswer
<1>4. /\ flight' \in [Flow -> [Message -> Step]] /\ flight'["caller"][m] = "none"
      /\ \A g \in Flow, n \in Message : g # "caller" \/ n # m => flight'[g][n] = flight[g][n]
  <2>1. flight \in [Flow -> [Message -> Step]] /\ "none" \in Step /\ "caller" \in Flow
    BY <1>1 DEF TypeOK, Step, Flow
  <2> QED BY <1>2, <2>1, FlightSet
<1>5. shown' \in [Message -> Nat] /\ \A n \in Message \ {m} : shown'[n] = shown[n]
  <2>1. shown[m] + posted \in Nat
    BY <1>1 DEF TypeOK
  <2> QED BY <1>1, <1>3, <2>1 DEF TypeOK
<1>6. TypeOK'
  <2>1. (draining \in BOOLEAN)'
    BY <1>1, <1>2, Zenon DEF TypeOK
  <2> QED BY <1>1, <1>2, <1>4, <1>5, <2>1 DEF TypeOK, files
<1>7. fallbacks'[m] > 0 /\ fallbacks'[m] \in Nat
  BY <1>1, <1>2 DEF Good, DirectOnly, TypeOK
<1>8. Good(m)' /\ Steady(m)
  <2>1. RecordState(m)' = RecordState(m) /\ (HasTerminal(m)' <=> HasTerminal(m))
    BY <1>2 DEF RecordState, HasTerminal, Files, files
  <2>2. \A g \in Flow : InFlight(g, m)' => InFlight(g, m)
    BY <1>4 DEF InFlight
  <2>3. OneSender(m)'
    BY <1>1, <1>2, <2>1, <2>2 DEF Good, OneSender, files
  <2>4. Counted(m)'
    BY <1>1, <1>2, <1>4, <2>1 DEF Good, Counted, files, forgotten
  <2>5. Posted(m)'
    BY <1>7 DEF Posted
  <2>6. DirectOnly(m)'
    BY <1>1, <1>4, <1>7 DEF Good, DirectOnly, Flow
  <2> QED BY <2>1, <2>3, <2>4, <2>5, <2>6 DEF Good, Steady
<1>9. CleanStart' /\ Dirs'
  BY <1>1, <1>2 DEF CleanStart, Dirs, files
<1>10. Room'
  BY <1>2, RoomShrinks DEF Occupied, files
<1>11. \A n \in Message \ {m} : RecordUntouched(n) /\ FlowsLetGo(n) /\ CountsSame(n)
  <2>1. forgotten \subseteq forgotten' /\ \A t \in Terminal : Files(t)' = Files(t)
    BY <1>2 DEF forgotten, files, Files
  <2>2. \A n \in Message \ {m} : pending'[n] = pending[n] /\ CountsSame(n)
    BY <1>2, <1>5 DEF CountsSame, files
  <2> QED BY <1>1, <1>2, <1>4, <2>1, <2>2, OthersUntouched
<1> QED BY <1>6, <1>8, <1>9, <1>10, <1>11, OneMessageStep

\* What a flow may do with an answer: the save of its state, with whatever end.
Saving(f, m, w) ==
  /\ flight[f][m] \in {"delivered", "retry_wait", "dead_letter", "uncertain"}
  /\ IF flight[f][m] \in Terminal THEN SaveTerminal(m, flight[f][m], w)
     ELSE SavePending(m, flight[f][m], w)
  /\ pruned' = pruned \cup Pruned
  /\ damaged' = damaged

LEMMA SavingEffect ==
  ASSUME Inv, NEW f \in Flow, NEW m \in Message, NEW w, Saving(f, m, w)
  PROVE  /\ pending[m] = "sending" /\ ~HasTerminal(m) /\ RecordState(m) = "sending"
         /\ \A g \in Flow : InFlight(g, m) => g = f
         /\ pending' \in [Message -> PendingState] /\ faults' \in 0..MaxFaults
         /\ Dirs' /\ DOMAIN terminal' = Terminal
         /\ \A t \in Terminal : ToSet(terminal'[t]) \subseteq Message
         /\ (pruned \cup damaged)' \subseteq Message /\ forgotten \subseteq forgotten'
         /\ \A n \in Message \ {m} : pending'[n] = pending[n]
         /\ \A t \in Terminal : /\ Files(t)' \subseteq Files(t) \cup {m}
                                /\ Files(t) \ Files(t)' \subseteq forgotten'
                                /\ m \in Files(t)' <=> t = flight[f][m] /\ w \in {"ok", "stale"}
         /\ flight[f][m] \in Terminal => pending'[m] \in {"none", "sending"}
         /\ flight[f][m] \in Terminal /\ w # "ok" => pending'[m] = "sending"
         /\ flight[f][m] \notin Terminal =>
              pending'[m] = IF w = "ok" THEN flight[f][m] ELSE "sending"
<1>1. Typed /\ TypeOK /\ Good(m)
  BY DEF Inv, Typed
<1>2. /\ pending[m] = "sending" /\ ~HasTerminal(m) /\ RecordState(m) = "sending"
      /\ \A g \in Flow : InFlight(g, m) => g = f
  <2>1. InFlight(f, m)
    BY DEF InFlight, Saving
  <2> QED BY <1>1, <2>1, FlyingReads
<1>3. pruned \cup damaged \subseteq Message /\ pending \in [Message -> PendingState]
  BY <1>1 DEF TypeOK, PendingState
<1>4. forgotten \subseteq forgotten' /\ Pruned \subseteq forgotten'
  BY DEF Saving, forgotten
<1>5. CASE flight[f][m] \in Terminal
  <2>1. SaveTerminal(m, flight[f][m], w)
    BY <1>5 DEF Saving
  <2>2. /\ pending' = IF w = "ok" THEN [pending EXCEPT ![m] = "none"] ELSE pending
        /\ pending' \in [Message -> PendingState] /\ faults' \in 0..MaxFaults
        /\ Dirs' /\ DOMAIN terminal' = Terminal
        /\ \A t \in Terminal : ToSet(terminal'[t]) \subseteq Message
        /\ \A t \in Terminal : Files(t)' \subseteq Files(t) \cup {m}
        /\ \A t \in Terminal : m \in Files(t)' <=> t = flight[f][m] /\ w \in {"ok", "stale"}
        /\ Pruned \subseteq Message
        /\ \A t \in Terminal : Files(t) \ Files(t)' \subseteq Pruned
    BY <1>1, <1>2, <1>5, <2>1, TerminalSaved
  <2>3. (pruned \cup damaged)' \subseteq Message
    BY <1>3, <2>2 DEF Saving
  <2>4. /\ \A n \in Message \ {m} : pending'[n] = pending[n]
        /\ pending'[m] \in {"none", "sending"} /\ (w # "ok" => pending'[m] = "sending")
    BY <1>2, <1>3, <2>2
  <2> QED BY <1>2, <1>4, <1>5, <2>2, <2>3, <2>4
<1>6. CASE flight[f][m] \notin Terminal
  <2>1. SavePending(m, flight[f][m], w) /\ flight[f][m] \in {"retry_wait", "uncertain"}
    BY <1>6 DEF Saving, Terminal
  <2>2. /\ pending' = IF w = "ok" THEN [pending EXCEPT ![m] = flight[f][m]] ELSE pending
        /\ pending' \in [Message -> PendingState] /\ faults' \in 0..MaxFaults
        /\ Dirs' /\ DOMAIN terminal' = Terminal
        /\ \A t \in Terminal : Files(t)' = Files(t) /\ ToSet(terminal'[t]) \subseteq Message
    BY <1>1, <1>2, <2>1, PendingSaved DEF PendingState
  <2>3. Pruned = {}
    BY <2>2 DEF Pruned, Files
  <2>4. (pruned \cup damaged)' \subseteq Message
    BY <1>3, <2>3 DEF Saving
  <2>5. \A t \in Terminal : m \notin Files(t)
    BY <1>2 DEF HasTerminal
  <2>6. /\ \A n \in Message \ {m} : pending'[n] = pending[n]
        /\ pending'[m] = IF w = "ok" THEN flight[f][m] ELSE "sending"
    BY <1>2, <1>3, <2>2
  <2> QED BY <1>2, <1>4, <1>6, <2>2, <2>4, <2>5, <2>6
<1> QED BY <1>5, <1>6

LEMMA SaveOthers ==
  ASSUME Inv, NEW f \in Flow, NEW m \in Message, NEW w, Saving(f, m, w),
         UNCHANGED <<attempts, tries, shown>>
  PROVE  \A n \in Message \ {m} : RecordUntouched(n) /\ CountsSame(n)
BY SavingEffect DEF RecordUntouched, CountsSame

LEMMA SaveAnswerOwed ==
  ASSUME Inv, NEW f \in Flow, NEW m \in Message, NEW w, SaveAnswer(f, m, w)
  PROVE  Owed
<1>1. Typed /\ TypeOK /\ Good(m)
  BY DEF Inv, Typed
<1> DEFINE s == flight[f][m]
<1>2. /\ pc = "up" /\ w \in {"ok", "stale"} /\ Saving(f, m, w)
      /\ s \notin Terminal => w = "ok"
      /\ waiting' = IF s = "retry_wait" THEN waiting \cup {m} ELSE waiting
      /\ flight' = [flight EXCEPT ![f][m] = "none"]
      /\ UNCHANGED <<attempts, mode, pc, draining, todo, tries, fallbacks, shown, calls, damaged>>
  BY DEF SaveAnswer, Saving, SavePending
<1>3. /\ s \in {"delivered", "retry_wait", "dead_letter", "uncertain"}
      /\ pending[m] = "sending" /\ ~HasTerminal(m) /\ RecordState(m) = "sending"
      /\ \A g \in Flow : InFlight(g, m) => g = f
      /\ pending' \in [Message -> PendingState] /\ faults' \in 0..MaxFaults
      /\ Dirs' /\ DOMAIN terminal' = Terminal
      /\ \A t \in Terminal : ToSet(terminal'[t]) \subseteq Message
      /\ (pruned \cup damaged)' \subseteq Message /\ forgotten \subseteq forgotten'
      /\ \A n \in Message \ {m} : pending'[n] = pending[n]
      /\ \A t \in Terminal : m \in Files(t)' <=> t = s
      /\ s \in Terminal => pending'[m] \in {"none", "sending"}
      /\ s \notin Terminal => pending'[m] = s
  <2>1. s \in {"delivered", "retry_wait", "dead_letter", "uncertain"}
    BY <1>2 DEF Saving
  <2>2. /\ pending[m] = "sending" /\ ~HasTerminal(m) /\ RecordState(m) = "sending"
        /\ \A g \in Flow : InFlight(g, m) => g = f
        /\ pending' \in [Message -> PendingState] /\ faults' \in 0..MaxFaults
        /\ Dirs' /\ DOMAIN terminal' = Terminal
        /\ \A t \in Terminal : ToSet(terminal'[t]) \subseteq Message
        /\ (pruned \cup damaged)' \subseteq Message /\ forgotten \subseteq forgotten'
        /\ \A n \in Message \ {m} : pending'[n] = pending[n]
        /\ \A t \in Terminal : m \in Files(t)' <=> t = s /\ w \in {"ok", "stale"}
        /\ s \in Terminal => pending'[m] \in {"none", "sending"}
        /\ s \notin Terminal => pending'[m] = IF w = "ok" THEN s ELSE "sending"
    BY <1>2, SavingEffect
  <2> HIDE DEF s
  <2> QED BY <1>2, <2>1, <2>2
<1> HIDE DEF s
<1>4. /\ flight' \in [Flow -> [Message -> Step]] /\ flight'[f][m] = "none"
      /\ \A g \in Flow, n \in Message : g # f \/ n # m => flight'[g][n] = flight[g][n]
  <2>1. flight \in [Flow -> [Message -> Step]] /\ "none" \in Step
    BY <1>1 DEF TypeOK, Step
  <2> QED BY <1>2, <2>1, FlightSet
<1>5. TypeOK'
  <2>1. (draining \in BOOLEAN)'
    BY <1>1, <1>2, Zenon DEF TypeOK
  <2>2. waiting' \subseteq Message
    BY <1>1, <1>2 DEF TypeOK
  <2> QED BY <1>1, <1>2, <1>3, <1>4, <2>1, <2>2 DEF TypeOK, Dirs, PendingState
<1>6. \A g \in Flow : ~InFlight(g, m)'
  BY <1>3, <1>4 DEF InFlight
<1>7. /\ HasTerminal(m)' <=> s \in Terminal
      /\ s \in Terminal => RecordState(m)' \in Terminal
      /\ s \notin Terminal => RecordState(m)' = s
  <2>1. HasTerminal(m)' <=> s \in Terminal
    BY <1>3 DEF HasTerminal
  <2>2. s \in Terminal => RecordState(m)' \in Terminal
    BY <2>1, ReadingNext
  <2>3. s \notin Terminal => pending'[m] = s /\ s # "corrupt"
    BY <1>3
  <2> QED BY <2>1, <2>2, <2>3, ReadingNext
<1>8. Good(m)' /\ Steady(m)
  <2>1. OneSender(m)'
    BY <1>6 DEF OneSender
  <2>2. \A g \in Flow : flight'[g][m] \notin {"retry_wait", "sent", "dead_letter"}
    BY <1>6 DEF InFlight
  <2>3. m \notin forgotten' => tries'[m] = attempts'[m]
    BY <1>1, <1>2, <1>3 DEF Good, Counted
  <2>4. RecordState(m)' # "none" /\ RecordState(m)' # "queued" /\ pending'[m] # "queued"
    BY <1>3, <1>7 DEF Terminal
  <2>5. s = "retry_wait" => attempts[m] < MaxAttempts
    BY <1>1 DEF Good, Counted, s
  <2>6. pending'[m] = "retry_wait" => s = "retry_wait"
    BY <1>3
  <2>7. Counted(m)'
    BY <1>2, <2>2, <2>3, <2>4, <2>5, <2>6 DEF Counted
  <2>8. Posted(m)'
    <3> SUFFICES ASSUME m \notin forgotten', fallbacks'[m] = 0
                 PROVE  shown'[m] <= 1 /\ (RecordState(m)' = "retry_wait" => shown'[m] = 0)
      BY <2>2, <2>4 DEF Posted
    <3>1. m \notin forgotten /\ fallbacks[m] = 0
      BY <1>2, <1>3
    <3>2. shown[m] <= 1 /\ (s = "retry_wait" => shown[m] = 0)
      BY <1>1, <3>1 DEF Good, Posted, s
    <3>3. RecordState(m)' = "retry_wait" => s = "retry_wait"
      BY <1>3, <1>7 DEF Terminal
    <3> QED BY <1>2, <3>2, <3>3
  <2>9. DirectOnly(m)'
    BY <1>1, <1>2, <1>4 DEF Good, DirectOnly, Flow
  <2>10. Steady(m)
    BY <1>3 DEF Steady, Terminal
  <2> QED BY <2>1, <2>7, <2>8, <2>9, <2>10 DEF Good
<1>9. CleanStart'
  BY <1>2 DEF CleanStart
<1>10. Room'
  <2>1. Occupied' \subseteq Occupied
    BY <1>3 DEF Occupied
  <2> QED BY <2>1, RoomShrinks
<1>11. \A n \in Message \ {m} : RecordUntouched(n) /\ FlowsLetGo(n) /\ CountsSame(n)
  <2>1. \A n \in Message \ {m} : RecordUntouched(n) /\ CountsSame(n)
    BY <1>2, SaveOthers
  <2>2. \A n \in Message \ {m} : FlowsLetGo(n)
    BY <1>1, <1>2, <1>4 DEF FlowsLetGo, TypeOK
  <2> QED BY <2>1, <2>2
<1> QED BY <1>3, <1>5, <1>8, <1>9, <1>10, <1>11, OneMessageStep

LEMMA SaveAnswerFailsOwed ==
  ASSUME Inv, NEW f \in Flow, NEW m \in Message, NEW w, SaveAnswerFails(f, m, w)
  PROVE  Owed
<1>1. Typed /\ TypeOK /\ Good(m)
  BY DEF Inv, Typed
<1>2. /\ pc = "up" /\ w \in {"lost", "pruned"} /\ Saving(f, m, w)
      /\ \/ /\ flight[f][m] = "delivered"
            /\ flight' = [flight EXCEPT ![f][m] = "uncertain"]
            /\ UNCHANGED <<pc, draining, todo, fallbacks>>
         \/ Throws(f, m)
      /\ UNCHANGED <<attempts, waiting, mode, tries, shown, calls, damaged>>
  BY DEF SaveAnswerFails, Saving
<1>3. /\ pending[m] = "sending" /\ ~HasTerminal(m) /\ RecordState(m) = "sending"
      /\ \A g \in Flow : InFlight(g, m) => g = f
      /\ pending' \in [Message -> PendingState] /\ faults' \in 0..MaxFaults
      /\ Dirs' /\ DOMAIN terminal' = Terminal
      /\ \A t \in Terminal : ToSet(terminal'[t]) \subseteq Message
      /\ (pruned \cup damaged)' \subseteq Message /\ forgotten \subseteq forgotten'
      /\ \A n \in Message \ {m} : pending'[n] = pending[n]
      /\ \A t \in Terminal : m \notin Files(t)'
      /\ pending'[m] = "sending"
  BY <1>2, SavingEffect
<1>4. \A n \in Message : RecordUntouched(n) /\ CountsSame(n)
  <2>1. \A n \in Message \ {m} : RecordUntouched(n) /\ CountsSame(n)
    BY <1>2, SaveOthers
  <2>2. RecordUntouched(m) /\ CountsSame(m)
    BY <1>2, <1>3 DEF RecordUntouched, CountsSame, HasTerminal
  <2> QED BY <2>1, <2>2
<1>5. CASE /\ flight[f][m] = "delivered"
           /\ flight' = [flight EXCEPT ![f][m] = "uncertain"]
           /\ UNCHANGED <<pc, draining, todo, fallbacks>>
  <2>1. /\ flight' \in [Flow -> [Message -> Step]] /\ flight'[f][m] = "uncertain"
        /\ \A g \in Flow, n \in Message : g # f \/ n # m => flight'[g][n] = flight[g][n]
    <3>1. flight \in [Flow -> [Message -> Step]] /\ "uncertain" \in Step
      BY <1>1 DEF TypeOK, Step
    <3> QED BY <1>5, <3>1, FlightSet
  <2>2. TypeOK'
    <3>1. (draining \in BOOLEAN)'
      BY <1>1, <1>5, Zenon DEF TypeOK
    <3> QED BY <1>1, <1>2, <1>3, <1>5, <2>1, <3>1 DEF TypeOK, Dirs, PendingState
  <2>3. ~HasTerminal(m)' /\ RecordState(m)' = "sending"
    BY <1>3, ReadingNext DEF HasTerminal
  <2>4. \A g \in Flow : InFlight(g, m)' => g = f
    BY <1>3, <2>1 DEF InFlight
  <2>5. Good(m)' /\ Steady(m)
    <3>1. OneSender(m)'
      BY <1>3, <2>3, <2>4 DEF OneSender
    <3>2. \A g \in Flow : flight'[g][m] \notin {"retry_wait", "sent", "dead_letter"}
      BY <2>1, <2>4 DEF InFlight
    <3>3. m \notin forgotten' => tries'[m] = attempts'[m]
      BY <1>1, <1>2, <1>3 DEF Good, Counted
    <3>4. Counted(m)'
      BY <1>3, <2>3, <3>2, <3>3 DEF Counted
    <3>5. Posted(m)'
      BY <1>1, <1>2, <1>3, <1>5, <2>3, <3>2 DEF Good, Posted
    <3>6. DirectOnly(m)'
      BY <1>1, <1>5, <2>1 DEF Good, DirectOnly, Flow
    <3>7. Steady(m)
      BY <1>3 DEF Steady, Terminal
    <3> QED BY <3>1, <3>4, <3>5, <3>6, <3>7 DEF Good
  <2>6. CleanStart'
    BY <1>2, <1>5 DEF CleanStart
  <2>7. Room'
    <3>1. Occupied' \subseteq Occupied
      BY <1>3 DEF Occupied
    <3> QED BY <3>1, RoomShrinks
  <2>8. \A n \in Message \ {m} : FlowsLetGo(n)
    BY <1>1, <1>5, <2>1 DEF FlowsLetGo, TypeOK
  <2> QED BY <1>3, <1>4, <2>2, <2>5, <2>6, <2>7, <2>8, OneMessageStep
<1>6. CASE Throws(f, m)
  <2>1. /\ \A n \in Message : FlowsLetGo(n)
        /\ flight' \in [Flow -> [Message -> Step]] /\ fallbacks' \in [Message -> Nat]
        /\ pc' \in {"up", "down"} /\ draining' \in BOOLEAN /\ todo' \subseteq Message
    BY <1>1, <1>2, <1>6, ThrowLetsGo
  <2>2. TypeOK'
    BY <1>1, <1>2, <1>3, <2>1 DEF TypeOK, Dirs, PendingState
  <2>3. CleanStart'
    BY <2>1 DEF CleanStart
  <2> QED BY <1>3, <1>4, <2>1, <2>2, <2>3, QuietStep
<1> QED BY <1>2, <1>5, <1>6

----------------------------------------------------------------------------
(* The drain loop, time, and process death                                 *)

\* listPending removes only copies that no reader takes for the record.
LEMMA TidyLeavesRecords ==
  ASSUME Typed, pending' = Tidied, UNCHANGED <<terminal, pruned, damaged>>
  PROVE  /\ \A n \in Message : RecordUntouched(n)
         /\ pending' \in [Message -> PendingState]
         /\ \A n \in Message : pending'[n] # "none" => ~HasTerminal(n)'
<1>1. pending \in [Message -> PendingState]
  BY DEF Typed, TypeOK, PendingState
<1>2. \A n \in Message :
        pending'[n] = IF HasTerminal(n) \/ pending[n] = "corrupt" THEN "none" ELSE pending[n]
  BY DEF Tidied
<1>3. pending' \in [Message -> PendingState]
  BY <1>1 DEF Tidied, PendingState
<1>4. \A n \in Message : HasTerminal(n)' <=> HasTerminal(n)
  BY DEF HasTerminal, Files
<1>5. \A n \in Message : RecordUntouched(n)
  BY <1>2 DEF RecordUntouched, forgotten, Files
<1> QED BY <1>2, <1>3, <1>4, <1>5

LEMMA LoopOwed ==
  ASSUME Inv, DrainDue \/ DrainEnds \/ Depth
  PROVE  Owed
<1>1. Typed /\ TypeOK /\ Dirs
  BY DEF Inv, Typed
<1>2. CASE DrainDue \/ Depth
  <2>1. /\ pc = "up" /\ pc' = pc /\ pending' = Tidied
        /\ todo' \subseteq Message \/ todo' = todo
        /\ draining' = TRUE \/ draining' = draining
        /\ UNCHANGED <<terminal, attempts, waiting, mode, flight, history, faults>>
    BY <1>2 DEF DrainDue, Depth, memory
  <2>2. /\ \A n \in Message : RecordUntouched(n)
        /\ pending' \in [Message -> PendingState]
    BY <1>1, <2>1, TidyLeavesRecords DEF history
  <2>3. TypeOK'
    <3>1. (draining \in BOOLEAN)'
      BY <1>1, <2>1, Zenon DEF TypeOK
    <3>2. todo' \subseteq Message
      BY <1>1, <2>1 DEF TypeOK
    <3> QED BY <1>1, <2>1, <2>2, <3>1, <3>2 DEF TypeOK, history, PendingState
  <2>4. Dirs' /\ CleanStart'
    BY <1>1, <2>1 DEF Dirs, CleanStart
  <2>5. \A n \in Message : FlowsLetGo(n) /\ CountsSame(n)
    BY <1>1, <2>1 DEF FlowsLetGo, CountsSame, history, TypeOK
  <2> QED BY <2>2, <2>3, <2>4, <2>5, QuietStep
<1>3. CASE DrainEnds
  <2>1. draining' = FALSE /\ UNCHANGED <<files, mode, pc, todo, flight, history, faults>>
    BY <1>3 DEF DrainEnds
  <2>2. TypeOK'
    BY <1>1, <2>1 DEF TypeOK, files, history
  <2>3. Dirs'
    BY <1>1, <2>1 DEF Dirs, files
  <2>4. CleanStart'
    BY <2>1 DEF Inv, CleanStart, files, HasTerminal, Files
  <2>5. \A n \in Message : RecordUntouched(n) /\ FlowsLetGo(n) /\ CountsSame(n)
    BY <1>1, <2>1 DEF RecordUntouched, FlowsLetGo, CountsSame, history, files, forgotten, Files, TypeOK
  <2> QED BY <2>2, <2>3, <2>4, <2>5, QuietStep
<1> QED BY <1>2, <1>3

LEMMA DamageOwed ==
  ASSUME Inv, NEW m \in Message, Damage(m)
  PROVE  Owed
<1>1. Typed /\ TypeOK /\ Dirs /\ Good(m)
  BY DEF Inv, Typed
<1>2. /\ \A f \in Flow : flight[f][m] = "none"
      /\ faults > 0 /\ faults' = faults - 1
      /\ pending[m] # "none"
      /\ pending' = [pending EXCEPT ![m] = "corrupt"]
      /\ damaged' = damaged \cup {m}
      /\ UNCHANGED <<terminal, attempts, waiting, memory, tries, fallbacks, shown, calls, pruned>>
  BY DEF Damage
<1>3. /\ pending' \in [Message -> PendingState] /\ pending'[m] = "corrupt"
      /\ \A n \in Message \ {m} : pending'[n] = pending[n]
  BY <1>1, <1>2 DEF TypeOK, PendingState
<1>4. faults' \in 0..MaxFaults
  BY <1>1, <1>2, OutboxConstants DEF TypeOK
<1>5. TypeOK'
  <2>1. (draining \in BOOLEAN)'
    BY <1>1, <1>2, Zenon DEF TypeOK, memory
  <2>2. (pruned \cup damaged)' \subseteq Message
    BY <1>1, <1>2 DEF TypeOK
  <2> QED BY <1>1, <1>2, <1>3, <1>4, <2>1, <2>2 DEF TypeOK, memory, PendingState
<1>6. m \in forgotten' /\ forgotten \subseteq forgotten'
  BY <1>2 DEF forgotten
<1>7. \A f \in Flow : flight'[f][m] = "none"
  BY <1>2 DEF memory
<1>8. Good(m)' /\ Steady(m)
  BY <1>3, <1>6, <1>7 DEF Good, Steady, OneSender, InFlight, Counted, Posted, DirectOnly, Flow
<1>9. Dirs'
  BY <1>1, <1>2 DEF Dirs
<1>10. CleanStart'
  <2>1. \A n \in Message : HasTerminal(n)' <=> HasTerminal(n)
    BY <1>2 DEF HasTerminal, Files
  <2>2. \A n \in Message : pending'[n] # "none" => pending[n] # "none"
    BY <1>2, <1>3
  <2>3. CleanStart
    BY DEF Inv
  <2> QED BY <1>2, <2>1, <2>2, <2>3 DEF CleanStart, memory
<1>11. Room'
  <2>1. Occupied' \subseteq Occupied
    BY <1>2, <1>3 DEF Occupied
  <2> QED BY <2>1, RoomShrinks
<1>12. \A n \in Message \ {m} : RecordUntouched(n) /\ FlowsLetGo(n) /\ CountsSame(n)
  <2>1. /\ \A t \in Terminal : Files(t)' = Files(t)
        /\ \A n \in Message \ {m} : pending'[n] = pending[n] /\ CountsSame(n)
        /\ \A g \in Flow, n \in Message : n # m => flight'[g][n] = flight[g][n]
        /\ fallbacks' = fallbacks
    BY <1>2, <1>3 DEF Files, CountsSame, memory
  <2> QED BY <1>1, <1>6, <2>1, OthersUntouched
<1> QED BY <1>5, <1>8, <1>9, <1>10, <1>11, <1>12, OneMessageStep

\* Time, crashes and the end of a start change no record.
LEMMA IdleOwed ==
  ASSUME Inv, \/ \E m \in Message : RetryComesDue(m)
              \/ Crash \/ Started \/ UNCHANGED vars
  PROVE  Owed
<1>1. Typed /\ TypeOK /\ Dirs
  BY DEF Inv, Typed
<1>2. /\ waiting' \subseteq waiting
      /\ faults' \in 0..MaxFaults
      /\ pc' = pc \/ pc' \in {"up", "down"}
      /\ UNCHANGED <<pending, terminal, attempts, mode, draining, todo, flight, history>>
  <2>1. CASE \E m \in Message : RetryComesDue(m)
    BY <1>1, <2>1 DEF RetryComesDue, memory, TypeOK
  <2>2. CASE Crash
    BY <1>1, <2>2, OutboxConstants DEF Crash, files, TypeOK
  <2>3. CASE Started \/ UNCHANGED vars
    BY <1>1, <2>3 DEF Started, vars, files, memory, TypeOK
  <2> QED BY <2>1, <2>2, <2>3
<1>3. TypeOK'
  <2>1. (draining \in BOOLEAN)'
    BY <1>1, <1>2, Zenon DEF TypeOK
  <2>2. pc' \in {"start", "up", "down"}
    BY <1>1, <1>2 DEF TypeOK
  <2> QED BY <1>1, <1>2, <2>1, <2>2 DEF TypeOK, history
<1>4. Dirs'
  BY <1>1, <1>2 DEF Dirs
<1>5. CleanStart'
  <2>1. \A n \in Message : HasTerminal(n)' <=> HasTerminal(n)
    BY <1>2 DEF HasTerminal, Files
  <2> QED BY <1>2, <2>1 DEF Inv, CleanStart
<1>6. \A n \in Message : RecordUntouched(n) /\ FlowsLetGo(n) /\ CountsSame(n)
  BY <1>1, <1>2 DEF RecordUntouched, FlowsLetGo, CountsSame, history, forgotten, Files, TypeOK
<1> QED BY <1>3, <1>4, <1>5, <1>6, QuietStep

\* A start forgets the flows and tidies pending/ before recovery begins.
LEMMA StartOwed ==
  ASSUME Inv, Start
  PROVE  Owed
<1>1. Typed /\ TypeOK /\ Dirs
  BY DEF Inv, Typed
<1>2. /\ pc' = "start" /\ mode' \in Modes /\ draining' = FALSE /\ todo' = {}
      /\ flight' = [f \in Flow |-> [m \in Message |-> "none"]]
      /\ pending' = Tidied
      /\ UNCHANGED <<terminal, attempts, waiting, history, faults>>
  BY DEF Start
<1>3. /\ \A n \in Message : RecordUntouched(n)
      /\ pending' \in [Message -> PendingState]
      /\ \A n \in Message : pending'[n] # "none" => ~HasTerminal(n)'
  BY <1>1, <1>2, TidyLeavesRecords DEF history
<1>4. flight' \in [Flow -> [Message -> Step]] /\ \A f \in Flow, n \in Message : flight'[f][n] = "none"
  BY <1>2 DEF Step
<1>5. TypeOK'
  BY <1>1, <1>2, <1>3, <1>4 DEF TypeOK, history, PendingState
<1>6. Dirs' /\ CleanStart'
  BY <1>1, <1>2, <1>3, <1>4 DEF Dirs, CleanStart
<1>7. \A n \in Message : FlowsLetGo(n) /\ CountsSame(n)
  BY <1>1, <1>2, <1>4 DEF FlowsLetGo, CountsSame, history, TypeOK
<1> QED BY <1>3, <1>5, <1>6, <1>7, QuietStep

LEMMA RecoverOneOwed ==
  ASSUME Inv, NEW m \in Message, NEW w \in {"ok", "lost"}, RecoverOne(m, w)
  PROVE  Owed
<1>1. Typed /\ TypeOK /\ Good(m)
  BY DEF Inv, Typed
<1>2. /\ pc = "start" /\ pending[m] = "sending" /\ SavePending(m, "uncertain", w)
      /\ pc' = IF w = "ok" THEN "start" ELSE "down"
      /\ UNCHANGED <<attempts, waiting, mode, draining, todo, flight, history>>
  BY DEF RecoverOne
<1>3. /\ ~HasTerminal(m) /\ RecordState(m) = "sending"
      /\ \A n \in Message : /\ pending[n] # "none" => ~HasTerminal(n)
                            /\ \A f \in Flow : flight[f][n] = "none"
  BY <1>2, Reading DEF Inv, CleanStart
<1>4. /\ pending' = IF w = "ok" THEN [pending EXCEPT ![m] = "uncertain"] ELSE pending
      /\ pending' \in [Message -> PendingState] /\ faults' \in 0..MaxFaults
      /\ Dirs' /\ DOMAIN terminal' = Terminal
      /\ \A t \in Terminal : Files(t)' = Files(t) /\ ToSet(terminal'[t]) \subseteq Message
  BY <1>1, <1>2, <1>3, PendingSaved DEF PendingState
<1>5. /\ \A n \in Message \ {m} : pending'[n] = pending[n]
      /\ pending'[m] \in {"sending", "uncertain"} /\ (w = "lost" => pending'[m] = "sending")
  BY <1>1, <1>2, <1>4 DEF TypeOK
<1>6. TypeOK'
  <2>1. (draining \in BOOLEAN)'
    BY <1>1, <1>2, Zenon DEF TypeOK
  <2> QED BY <1>1, <1>2, <1>4, <2>1 DEF TypeOK, Dirs, history, PendingState
<1>7. CleanStart'
  <2>1. \A n \in Message : HasTerminal(n)' <=> HasTerminal(n)
    BY <1>4, SameFiles
  <2> QED BY <1>2, <1>3, <1>5, <2>1 DEF CleanStart
<1>8. Room'
  <2>1. Occupied' \subseteq Occupied
    BY <1>2, <1>5 DEF Occupied
  <2> QED BY <2>1, RoomShrinks
<1>9. Good(m)' /\ Steady(m)
  <2>1. ~HasTerminal(m)' /\ RecordState(m)' = pending'[m]
    BY <1>3, <1>4, <1>5, SameFiles, ReadingNext
  <2>2. \A f \in Flow : flight'[f][m] = "none"
    BY <1>2, <1>3
  <2>3. OneSender(m)' /\ DirectOnly(m)'
    BY <2>2 DEF OneSender, InFlight, DirectOnly, Flow
  <2>4. m \notin forgotten' => tries'[m] = attempts'[m]
    BY <1>1, <1>2 DEF Good, Counted, forgotten, history
  <2>5. Counted(m)'
    BY <1>5, <2>1, <2>2, <2>4 DEF Counted
  <2>6. Posted(m)'
    BY <1>1, <1>2, <1>5, <2>1, <2>2 DEF Good, Posted, forgotten, history
  <2>7. Steady(m)
    BY <1>3 DEF Steady, Terminal
  <2> QED BY <2>3, <2>5, <2>6, <2>7 DEF Good
<1>10. \A n \in Message \ {m} : RecordUntouched(n) /\ FlowsLetGo(n) /\ CountsSame(n)
  <2>1. /\ forgotten \subseteq forgotten' /\ fallbacks' = fallbacks
        /\ \A g \in Flow, n \in Message : n # m => flight'[g][n] = flight[g][n]
        /\ \A n \in Message \ {m} : pending'[n] = pending[n] /\ CountsSame(n)
    BY <1>2, <1>5 DEF forgotten, history, CountsSame
  <2> QED BY <1>1, <1>4, <2>1, OthersUntouched
<1> QED BY <1>4, <1>6, <1>7, <1>8, <1>9, <1>10, OneMessageStep

----------------------------------------------------------------------------
(* Theorems                                                                *)

LEMMA InvInit == Init => Inv
<1> SUFFICES ASSUME Init
             PROVE  Inv
  OBVIOUS
<1>1. /\ terminal = [s \in Terminal |-> <<>>]
      /\ \A n \in Message : pending[n] = "none"
      /\ \A f \in Flow, n \in Message : flight[f][n] = "none"
  BY DEF Init
<1>2. <<>> \in Seq(Message) /\ Len(<<>>) = 0 /\ DOMAIN <<>> = {} /\ ToSet(<<>>) = {}
  BY DEF ToSet
<1>3. \A s \in Terminal : terminal[s] = <<>> /\ Files(s) = {} /\ Limit(s) \in Nat
  BY <1>1, <1>2, Sizes DEF Files
<1>4. Dirs
  <2>1. Directory(<<>>)
    BY <1>2 DEF Directory
  <2>2. \A s \in Terminal : Len(terminal[s]) = 0 /\ Directory(terminal[s])
    BY <1>2, <1>3, <2>1
  <2>3. \A s \in Terminal : 0 <= Limit(s)
    BY <1>3
  <2> QED BY <2>2, <2>3 DEF Dirs
<1>5. \A n \in Message : ~HasTerminal(n) /\ RecordState(n) = "none"
  <2>1. \A n \in Message : ~HasTerminal(n)
    BY <1>3 DEF HasTerminal
  <2> QED BY <1>1, <2>1, Reading
<1>6. TypeOK
  <2>1. 0 \in 0..MaxAttempts /\ 0 \in 0..MaxCalls /\ MaxFaults \in 0..MaxFaults
    BY Sizes, OutboxConstants
  <2>2. \A s \in Terminal : ToSet(terminal[s]) \subseteq Message /\ Len(terminal[s]) <= Limit(s)
    BY <1>2, <1>3
  <2> QED BY <2>1, <2>2 DEF Init, TypeOK, Step
<1>7. CleanStart
  BY <1>1 DEF CleanStart
<1>8. Room
  <2>1. Occupied = {}
    BY <1>1 DEF Occupied
  <2> QED BY <2>1, FS_EmptySet, Sizes DEF Room
<1>9. ASSUME NEW m \in Message
      PROVE  Good(m)
  <2>1. OneSender(m) /\ DirectOnly(m)
    BY <1>1 DEF OneSender, InFlight, DirectOnly, Flow
  <2>2. Counted(m) /\ Posted(m)
    BY <1>1 DEF Init, Counted, Posted
  <2> QED BY <2>1, <2>2 DEF Good
<1> QED BY <1>4, <1>6, <1>7, <1>8, <1>9 DEF Inv, Typed

LEMMA EveryStep == Inv /\ [Next]_vars => Owed
<1> SUFFICES ASSUME Inv, [Next]_vars
             PROVE  Owed
  OBVIOUS
<1>1. ASSUME NEW m \in Message, Enqueue(m) \/ DirectAnswer(m) \/ RetryComesDue(m) \/ Damage(m)
      PROVE  Owed
  BY <1>1, EnqueueNewOwed, EnqueueOtherOwed, DirectAnswerOwed, IdleOwed, DamageOwed DEF Enqueue
<1>2. ASSUME NEW f \in Flow, NEW m \in Message, Sending(f, m)
      PROVE  Owed
  BY <1>2, AttemptOwed, AttemptSkipsOwed, AttemptThrowsOwed, AnswerOwed,
     SaveAnswerOwed, SaveAnswerFailsOwed DEF Sending
<1>3. CASE DrainDue \/ DrainEnds \/ Depth
  BY <1>3, LoopOwed
<1>4. CASE Crash \/ UNCHANGED vars
  BY <1>4, IdleOwed
<1>5. CASE Boot
  BY <1>5, StartOwed, RecoverOneOwed, IdleOwed DEF Boot
<1> QED BY <1>1, <1>2, <1>3, <1>4, <1>5 DEF Next

LEMMA Invariant == Spec => []Inv
<1>1. Inv /\ [Next]_vars => Inv'
  BY EveryStep DEF Owed
<1> QED BY InvInit, <1>1, PTL DEF Spec

\* The type invariant: no record has more than maxAttempts attempts, and the
\* terminal directories stay within their limits.
THEOREM TypeCorrect == Spec => []TypeOK
<1>1. Inv => TypeOK
  BY DEF Inv, Typed
<1> QED BY Invariant, <1>1, PTL

\* A journaled message is shown at most once, whatever fails, restarts or
\* overlaps, as long as its record was neither pruned nor damaged.
THEOREM NeverShownTwice == Spec => []ShownAtMostOnce
<1>1. Inv => ShownAtMostOnce
  BY DEF Inv, Good, Posted, ShownAtMostOnce
<1> QED BY Invariant, <1>1, PTL

\* No record is sent more often than maxAttempts allows, and pending/ never
\* outgrows maxPendingRecords.
THEOREM WithinLimits == Spec => []LimitsKept
<1>1. Inv => LimitsKept
  <2> SUFFICES ASSUME Inv
               PROVE  LimitsKept
    OBVIOUS
  <2>1. \A m \in Message : m \notin forgotten => tries[m] <= MaxAttempts
    BY Sizes DEF Inv, Typed, TypeOK, Good, Counted
  <2> QED BY <2>1 DEF Inv, Room, Occupied, LimitsKept
<1> QED BY Invariant, <1>1, PTL

\* A resolved record keeps its state, through crashes and stale copies, until it
\* is pruned or damaged.
THEOREM ResolutionStays == Spec => ResolvedForGood
<1>1. Inv /\ [Next]_vars =>
        [\A m \in Message : m \notin forgotten' =>
           /\ RecordState(m) \in Terminal \cup {"uncertain"} => RecordState(m)' = RecordState(m)]_vars
  BY EveryStep DEF Owed, Steady
<1> QED BY Invariant, <1>1, PTL DEF Spec, ResolvedForGood
=============================================================================
