--------------------------- MODULE MountStoreProofs ---------------------------
(***************************************************************************)
(* Theorems about MountStore, for any processes, threads, directories and  *)
(* bounds.                                                                 *)
(*                                                                         *)
(*   LockOwned          Spec => []HolderOwnsLock                           *)
(*   NoneLost           Spec => []NoLostChange                             *)
(*   TypeCorrect        Spec => []TypeOK                                   *)
(*   OwnWritesHarmless  Spec => []OwnWritesTurnNoneAway                    *)
(*                                                                         *)
(* The first two rest on one inductive invariant.  A lock file may be      *)
(* removed by a caller that judged it stale, so besides who owns the lock  *)
(* file it says that what was judged was old: if nothing was taken from    *)
(* anybody, the lock file that is removed is the judged one, and nobody    *)
(* inside owns it.  The last two hold whether lock files are taken or not. *)
(***************************************************************************)
EXTENDS MountStore, SequenceTheorems, WellFoundedInduction, TLAPS

Locks == [by : Caller, old : BOOLEAN]

\* What the steps need to know of the types: which variables are functions on
\* the callers, and what a lock file is.
Shape ==
  /\ pc = [c \in Caller |-> pc[c]]
  /\ saw = [c \in Caller |-> saw[c]]
  /\ snap = [c \in Caller |-> snap[c]]
  /\ lock \in Locks \cup {NoLock}
  /\ \A c \in Caller : pc[c] = "judged" => saw[c] \in Locks /\ saw[c].old

\* A caller that has read the rows has the rows of the file.
Current == \A c \in Caller : pc[c] = "read" => snap[c] = mounts

IInv == Shape /\ HolderOwnsLock /\ NoLostChange /\ (~stolen => Current)

LEMMA IInit == Init => IInv
BY DEF Init, IInv, Shape, HolderOwnsLock, NoLostChange, Current, Holds

\* Opening, judging and removing a lock file.
LEMMA LockSteps ==
  ASSUME IInv, NEW c \in Caller, OpenLock(c) \/ Judge(c) \/ RemoveStale(c)
  PROVE  IInv'
<1> USE StoreConstants DEF IInv, Shape, HolderOwnsLock, NoLostChange, Current, Holds, Locks,
      file, callers, memory, handler, bounds
<1>1. CASE OpenLock(c)
  <2>1. lock = NoLock /\ lock' = [by |-> c, old |-> FALSE] /\ lock' \in Locks
    BY <1>1 DEF OpenLock
  <2>0. lock' # NoLock
    BY <2>1, StoreConstants
  <2>2. pc' = [pc EXCEPT ![c] = "locked"] /\ UNCHANGED <<mounts, ledger, stolen, saw, snap>>
    BY <1>1 DEF OpenLock
  <2>3. Shape'
    BY <2>1, <2>2
  <2>4. HolderOwnsLock'
    BY <2>0, <2>1, <2>2
  <2>5. NoLostChange' /\ (~stolen' => Current')
    BY <2>2
  <2> QED BY <2>3, <2>4, <2>5
<1>2. CASE Judge(c)
  <2>1. CASE lock.old
    BY <1>2, <2>1 DEF Judge
  <2>2. CASE ~lock.old
    BY <1>2, <2>2 DEF Judge
  <2> QED BY <2>1, <2>2
<1>3. CASE RemoveStale(c)
  <2>1. ASSUME ~stolen', NEW d \in Caller, Holds(d)
        PROVE  FALSE
    BY <1>3, <2>1 DEF RemoveStale
  <2>2. \A d \in Caller : Holds(d)' <=> Holds(d)
    BY <1>3 DEF RemoveStale
  <2>3. Shape'
    BY <1>3 DEF RemoveStale
  <2>4. ~stolen' => ~stolen
    BY <1>3 DEF RemoveStale
  <2> QED BY <1>3, <2>1, <2>2, <2>3, <2>4 DEF RemoveStale
<1> QED BY <1>1, <1>2, <1>3

\* Reading, writing and letting go of the lock.
LEMMA InsideSteps ==
  ASSUME IInv, NEW c \in Caller,
         GiveUp(c) \/ ReadRows(c) \/ WriteRows(c) \/ ThrowsInside(c) \/ Release(c)
  PROVE  IInv'
<1> USE StoreConstants DEF IInv, Shape, HolderOwnsLock, NoLostChange, Current, Holds, Locks,
      file, callers, memory, handler, bounds
<1>1. CASE GiveUp(c)
  BY <1>1 DEF GiveUp, Return
<1>2. CASE ReadRows(c)
  BY <1>2 DEF ReadRows
<1>3. CASE WriteRows(c)
  <2>1. ~stolen => snap[c] = mounts /\ mounts = ledger
    BY <1>3 DEF WriteRows
  <2>2. ~stolen => (mounts = ledger)'
    BY <1>3, <2>1 DEF WriteRows
  <2>3. ~stolen => \A d \in Caller : pc'[d] # "read"
    BY <1>3 DEF WriteRows
  <2>4. Shape' /\ HolderOwnsLock' /\ stolen' = stolen
    BY <1>3 DEF WriteRows
  <2> QED BY <2>2, <2>3, <2>4
<1>4. CASE ThrowsInside(c)
  BY <1>4 DEF ThrowsInside
<1>5. CASE Release(c)
  BY <1>5 DEF Release, Return
<1> QED BY <1>1, <1>2, <1>3, <1>4, <1>5

\* A step that moves no caller and touches neither file nor lock.
Aside == UNCHANGED <<file, lock, stolen, pc, snap, saw>>

LEMMA AsideKeeps ==
  ASSUME IInv, Aside
  PROVE  IInv'
BY DEF IInv, Aside, Shape, HolderOwnsLock, NoLostChange, Current, Holds, file

\* A caller that starts or dies is not inside afterwards.
LEMMA CallKeeps ==
  ASSUME IInv, NEW c \in Caller, NEW p \in {"none", "trying"},
         pc' = [pc EXCEPT ![c] = p], saw' = [d \in Caller |-> saw'[d]],
         \A d \in Caller \ {c} : saw'[d] = saw[d],
         snap' = [d \in Caller |-> snap'[d]],
         \A d \in Caller \ {c} : snap'[d] = snap[d],
         UNCHANGED <<file, lock, stolen>>
  PROVE  IInv'
BY DEF IInv, Shape, HolderOwnsLock, NoLostChange, Current, Holds, file

LEMMA StartKeeps ==
  ASSUME IInv, NEW c \in Caller, NEW o, Starts(c, o), UNCHANGED <<file, lock, stolen>>
  PROVE  IInv'
<1>1. pc' = [pc EXCEPT ![c] = "trying"] /\ snap' = snap /\ saw' = saw
  BY DEF Starts
<1>2. saw = [d \in Caller |-> saw[d]] /\ snap = [d \in Caller |-> snap[d]]
  BY DEF IInv, Shape
<1> QED BY <1>1, <1>2, CallKeeps

LEMMA DeathKeeps ==
  ASSUME IInv, NEW c \in Caller, Return(c, "died"), saw' = [saw EXCEPT ![c] = NoLock],
         UNCHANGED <<file, lock, stolen>>
  PROVE  IInv'
<1>1. pc' = [pc EXCEPT ![c] = "none"] /\ snap' = [snap EXCEPT ![c] = <<>>]
  BY DEF Return
<1>2. saw = [d \in Caller |-> saw[d]] /\ snap = [d \in Caller |-> snap[d]]
  BY DEF IInv, Shape
<1>3. /\ saw' = [d \in Caller |-> saw'[d]]
      /\ \A d \in Caller \ {c} : saw'[d] = saw[d]
      /\ snap' = [d \in Caller |-> snap'[d]]
      /\ \A d \in Caller \ {c} : snap'[d] = snap[d]
  BY <1>1, <1>2
<1> QED BY <1>1, <1>3, CallKeeps

\* The poller's handlers only start calls.
LEMMA InputSteps ==
  ASSUME IInv,
         \/ \E t \in Topic : Message(t)
         \/ \E i \in 1..Cardinality(Dir) : Tap(i)
         \/ Pair
         \/ Commands
  PROVE  IInv'
<1> USE DEF CallsStore, callers, Caller
<1>1. ASSUME NEW t \in Topic, Message(t)
      PROVE  IInv'
  <2>1. Aside \/ (Starts(Poller, Add(t, DirOf(cache, "*"))) /\ UNCHANGED <<file, lock, stolen>>)
    BY <1>1 DEF Message, Aside
  <2> QED BY <2>1, StartKeeps, AsideKeeps
<1>2. ASSUME NEW i \in 1..Cardinality(Dir), Tap(i)
      PROVE  IInv'
  <2>1. \/ Aside
        \/ Starts(Poller, Add(card.topic, Candidates(cache)[i])) /\ UNCHANGED <<file, lock, stolen>>
    BY <1>2 DEF Tap, Aside
  <2> QED BY <2>1, StartKeeps, AsideKeeps
<1>3. CASE Pair
  <2>1. Aside \/ (Starts(Poller, Add("*", Cwd)) /\ UNCHANGED <<file, lock, stolen>>)
    BY <1>3 DEF Pair, Aside
  <2> QED BY <2>1, StartKeeps, AsideKeeps
<1>4. ASSUME NEW why, NEW o, Command(why, o)
      PROVE  IInv'
  <2>1. Starts(Child, o) /\ UNCHANGED <<file, lock, stolen>>
    BY <1>4 DEF Command
  <2> QED BY <2>1, StartKeeps
<1>5. CASE Commands
  BY <1>4, <1>5 DEF Commands
<1> QED BY <1>1, <1>2, <1>3, <1>5

LEMMA IStep == IInv /\ [Next]_vars => IInv'
<1> SUFFICES ASSUME IInv, [Next]_vars
             PROVE  IInv'
  OBVIOUS
<1>1. ASSUME NEW c \in Caller, CallStep(c)
      PROVE  IInv'
  BY <1>1, LockSteps, InsideSteps DEF CallStep
<1>2. ASSUME NEW c \in Cli, NEW o \in CliCall, CliStarts(c, o)
      PROVE  IInv'
  BY <1>2, StartKeeps DEF CliStarts, Caller
<1>3. ASSUME NEW c \in Caller \ {Poller}, Dies(c)
      PROVE  IInv'
  BY <1>3, DeathKeeps DEF Dies
<1>4. CASE LockAges
  BY <1>4, StoreConstants DEF LockAges, IInv, Shape, HolderOwnsLock, NoLostChange, Current, Holds,
     Locks, file, callers
<1>5. CASE PollerStep
  <2>1. Aside
    BY <1>5 DEF PollerStep, CallReturned, ChildReturned, LookAtMtime, LoadRows, Route, Aside, callers
  <2> QED BY <2>1, AsideKeeps
<1>6. CASE Restart
  BY <1>6, DeathKeeps DEF Restart, Caller
<1>7. CASE UNCHANGED vars
  <2>1. Aside
    BY <1>7 DEF vars, Aside, callers
  <2> QED BY <2>1, AsideKeeps
<1> QED BY <1>1, <1>2, <1>3, <1>4, <1>5, <1>6, <1>7, InputSteps DEF Next

THEOREM Inductive == Spec => []IInv
BY IInit, IStep, PTL DEF Spec

\* Unless the stale rule took a lock file from under somebody, whoever is inside
\* withLock owns the lock file that is there.
THEOREM LockOwned == Spec => []HolderOwnsLock
<1>1. IInv => HolderOwnsLock
  BY DEF IInv
<1> QED BY <1>1, Inductive, PTL

\* Unless it did, the file is what the calls make of it one after the other.
THEOREM NoneLost == Spec => []NoLostChange
<1>1. IInv => NoLostChange
  BY DEF IInv
<1> QED BY <1>1, Inductive, PTL

----------------------------------------------------------------------------
(* What Picked returns.  Induction over the length of the sequence, without *)
(* the theorems that take an operator: a set of naturals has a least element.*)

LEMMA Least ==
  ASSUME NEW T \in SUBSET Nat, T # {}
  PROVE  \E x \in T : \A y \in T : ~(y < x)
<1>1. IsWellFoundedOn(OpToRel(<, Nat), Nat)
  BY NatLessThanWellFounded
<1>2. \E x \in T : \A y \in T : ~ (<<y, x>> \in OpToRel(<, Nat))
  BY ONLY <1>1, WFMin, T \in SUBSET Nat, T # {}
<1> QED BY <1>2 DEF OpToRel

\* One step of the recursion, and the recursive function up to n.
Sifted(s, I, i, p) == IF i \in I THEN Append(p, s[i]) ELSE p
Sifting(s, I, n, f) == f = [i \in 0..n |-> IF i = 0 THEN <<>> ELSE Sifted(s, I, i, f[i - 1])]

LEMMA SiftingExists ==
  ASSUME NEW s, NEW I
  PROVE  \A n \in Nat : \E f : Sifting(s, I, n, f)
<1> DEFINE T == {n \in Nat : ~ \E f : Sifting(s, I, n, f)}
<1> SUFFICES ASSUME T # {} PROVE FALSE
  OBVIOUS
<1>1. PICK n \in T : \A y \in T : ~(y < n)
  BY Least
<1>2. n \in Nat /\ ~ \E f : Sifting(s, I, n, f)
  OBVIOUS
<1>3. n # 0
  <2> DEFINE f == [i \in 0..0 |-> <<>>]
  <2>1. f = [i \in 0..0 |-> IF i = 0 THEN <<>> ELSE Sifted(s, I, i, f[i - 1])]
    OBVIOUS
  <2>2. Sifting(s, I, 0, f)
    BY <2>1 DEF Sifting
  <2> QED BY <1>2, <2>2
<1>4. n - 1 \in Nat /\ n - 1 < n /\ n - 1 \notin T
  BY <1>1, <1>2, <1>3
<1>5. PICK f : Sifting(s, I, n - 1, f)
  BY <1>4
<1> DEFINE g == [i \in 0..n |-> IF i < n THEN f[i] ELSE Sifted(s, I, n, f[n - 1])]
<1>6. \A i \in 0..n : g[i] = IF i = 0 THEN <<>> ELSE Sifted(s, I, i, g[i - 1])
  <2> TAKE i \in 0..n
  <2>1. CASE i = 0
    BY <1>2, <1>3, <1>4, <1>5, <2>1 DEF Sifting
  <2>2. CASE i # 0 /\ i < n
    <3>1. i \in 0..(n - 1) /\ i - 1 \in 0..n /\ i - 1 < n
      BY <1>2, <2>2
    <3>2. g[i] = f[i] /\ g[i - 1] = f[i - 1]
      BY <2>2, <3>1
    <3> QED BY <1>5, <2>2, <3>1, <3>2 DEF Sifting
  <2>3. CASE i = n
    <3>1. i - 1 \in 0..n /\ i - 1 < n
      BY <1>2, <1>3, <2>3
    <3>2. g[i] = Sifted(s, I, n, f[n - 1]) /\ g[i - 1] = f[i - 1]
      BY <1>2, <2>3, <3>1
    <3> QED BY <1>3, <2>3, <3>2
  <2> QED BY <1>2, <2>1, <2>2, <2>3
<1>7. g = [i \in 0..n |-> g[i]]
  OBVIOUS
<1>8. Sifting(s, I, n, g)
  BY <1>6, <1>7 DEF Sifting
<1> QED BY <1>2, <1>8

\* p holds elements of s, at increasing indices that are in I and at most n.
Drawn(p, s, I, n) ==
  \E pos \in [1..Len(p) -> 1..n] :
    /\ \A a, b \in 1..Len(p) : a < b => pos[a] < pos[b]
    /\ \A a \in 1..Len(p) : pos[a] \in I /\ p[a] = s[pos[a]]

LEMMA DrawnNone ==
  ASSUME NEW s, NEW I
  PROVE  Drawn(<<>>, s, I, 0)
<1> DEFINE pos == [a \in 1..0 |-> a]
<1>1. pos \in [1..0 -> 1..0] /\ 1..Len(<<>>) = 1..0 /\ \A a \in 1..0 : FALSE
  OBVIOUS
<1> HIDE DEF pos
<1> QED BY <1>1 DEF Drawn

LEMMA DrawnStep ==
  ASSUME NEW S, NEW s \in Seq(S), NEW I, NEW i \in 1..Len(s), NEW p \in Seq(S), Drawn(p, s, I, i - 1)
  PROVE  Sifted(s, I, i, p) \in Seq(S) /\ Drawn(Sifted(s, I, i, p), s, I, i)
<1>1. Len(p) \in Nat /\ i \in Nat /\ i - 1 \in Nat /\ s[i] \in S
  OBVIOUS
<1>2. \A k \in 1..(i - 1) : k \in 1..i /\ k < i
  BY <1>1
<1>3. PICK pos \in [1..Len(p) -> 1..(i - 1)] :
        /\ \A a, b \in 1..Len(p) : a < b => pos[a] < pos[b]
        /\ \A a \in 1..Len(p) : pos[a] \in I /\ p[a] = s[pos[a]]
  BY DEF Drawn
<1>4. CASE i \notin I
  <2>1. pos \in [1..Len(p) -> 1..i]
    BY <1>1, <1>3
  <2>2. Drawn(p, s, I, i)
    BY <1>3, <2>1 DEF Drawn
  <2> QED BY <1>4, <2>2 DEF Sifted
<1>5. CASE i \in I
  <2> DEFINE t == Append(p, s[i])
             to == [a \in 1..(Len(p) + 1) |-> IF a = Len(p) + 1 THEN i ELSE pos[a]]
  <2>1. /\ t \in Seq(S) /\ Len(t) = Len(p) + 1
        /\ \A a \in 1..Len(p) : t[a] = p[a]
        /\ t[Len(p) + 1] = s[i]
    BY <1>1
  <2> HIDE DEF t
  <2>2. to \in [1..Len(t) -> 1..i]
    <3>1. ASSUME NEW a \in 1..(Len(p) + 1), a # Len(p) + 1
          PROVE  pos[a] \in 1..i
      <4>1. a \in 1..Len(p)
        BY <1>1, <3>1
      <4>2. pos[a] \in 1..(i - 1)
        BY <1>3, <4>1
      <4> QED BY <1>2, <4>2
    <3>2. i \in 1..i /\ 1..Len(t) = 1..(Len(p) + 1)
      BY <1>1, <2>1
    <3> QED BY <3>1, <3>2
  <2>3. \A a \in 1..Len(t) : to[a] = IF a = Len(p) + 1 THEN i ELSE pos[a]
    BY <2>1
  <2> HIDE DEF to
  <2>4. ASSUME NEW a \in 1..Len(t), NEW b \in 1..Len(t), a < b
        PROVE  to[a] < to[b]
    <3>1. a \in 1..Len(p) /\ to[a] = pos[a] /\ pos[a] \in 1..(i - 1)
      BY <1>1, <1>3, <2>1, <2>3, <2>4
    <3>2. CASE b = Len(p) + 1
      <4>1. to[b] = i
        BY <2>3, <3>2
      <4>2. pos[a] < i
        BY <1>2, <3>1
      <4> QED BY <3>1, <4>1, <4>2
    <3>3. CASE b # Len(p) + 1
      <4>1. b \in 1..Len(p) /\ to[b] = pos[b]
        BY <1>1, <2>1, <2>3, <3>3
      <4> QED BY <1>3, <2>4, <3>1, <4>1
    <3> QED BY <3>2, <3>3
  <2>5. ASSUME NEW a \in 1..Len(t)
        PROVE  to[a] \in I /\ t[a] = s[to[a]]
    <3>1. CASE a = Len(p) + 1
      BY <1>1, <1>5, <2>1, <2>3, <3>1
    <3>2. CASE a # Len(p) + 1
      <4>1. a \in 1..Len(p) /\ to[a] = pos[a]
        BY <1>1, <2>1, <2>3, <3>2
      <4> QED BY <1>3, <2>1, <4>1
    <3> QED BY <3>1, <3>2
  <2>6. Drawn(t, s, I, i)
    BY <2>2, <2>4, <2>5 DEF Drawn
  <2>7. Sifted(s, I, i, p) = t
    BY <1>5 DEF Sifted, t
  <2> QED BY <2>1, <2>6, <2>7
<1> QED BY <1>4, <1>5

\* Picked returns elements of the sequence, at increasing indices in the set.
LEMMA PickedDraws ==
  ASSUME NEW S, NEW s \in Seq(S), NEW I
  PROVE  Picked(s, I) \in Seq(S) /\ Drawn(Picked(s, I), s, I, Len(s))
<1> DEFINE n == Len(s)
           kept == CHOOSE f : Sifting(s, I, n, f)
           Ok(i) == kept[i] \in Seq(S) /\ Drawn(kept[i], s, I, i)
<1>1. n \in Nat
  OBVIOUS
<1>2. Sifting(s, I, n, kept)
  <2>1. \E f : Sifting(s, I, n, f)
    BY <1>1, SiftingExists
  <2> QED BY <2>1
<1>3. Picked(s, I) = kept[n]
  BY DEF Picked, Sifting, Sifted
<1> HIDE DEF kept
<1>4. kept[0] = <<>> /\ \A i \in 1..n : kept[i] = Sifted(s, I, i, kept[i - 1])
  <2>1. \A i \in 0..n : kept[i] = IF i = 0 THEN <<>> ELSE Sifted(s, I, i, kept[i - 1])
    BY <1>2 DEF Sifting
  <2> QED BY <1>1, <2>1
<1> DEFINE T == {i \in 0..n : ~Ok(i)}
<1>5. T = {}
  <2> SUFFICES ASSUME T # {} PROVE FALSE
    OBVIOUS
  <2>1. T \in SUBSET Nat
    BY <1>1
  <2>2. PICK i \in T : \A y \in T : ~(y < i)
    BY <2>1, Least
  <2>3. i \in 0..n /\ ~Ok(i)
    OBVIOUS
  <2>4. CASE i = 0
    <3>1. <<>> \in Seq(S)
      OBVIOUS
    <3> QED BY <1>4, <2>3, <2>4, <3>1, DrawnNone
  <2>5. CASE i # 0
    <3>1. i \in 1..n /\ i - 1 \in 0..n /\ i - 1 < i
      BY <1>1, <2>3, <2>5
    <3>2. Ok(i - 1)
      BY <2>2, <3>1
    <3> QED BY <1>4, <2>3, <3>1, <3>2, DrawnStep
  <2> QED BY <2>4, <2>5
<1>6. n \in 0..n
  BY <1>1
<1> QED BY <1>3, <1>5, <1>6

----------------------------------------------------------------------------
(* The rows that a call leaves have one row for each target at most.       *)

LEMMA WithoutTable ==
  ASSUME NEW rows, Table(rows), NEW t
  PROVE  Table(Without(rows, t)) /\ ~Mounted(Without(rows, t), t)
<1> DEFINE I == {i \in DOMAIN rows : rows[i].target # t}
           p == Without(rows, t)
<1>1. rows \in Seq(Rows) /\ Len(rows) \in Nat /\ DOMAIN rows = 1..Len(rows)
  BY DEF Table
<1>2. p \in Seq(Rows) /\ Drawn(p, rows, I, Len(rows))
  BY <1>1, PickedDraws DEF Without
<1> HIDE DEF p
<1>3. PICK pos \in [1..Len(p) -> 1..Len(rows)] :
        /\ \A a, b \in 1..Len(p) : a < b => pos[a] < pos[b]
        /\ \A a \in 1..Len(p) : pos[a] \in I /\ p[a] = rows[pos[a]]
  BY <1>2 DEF Drawn
<1>4. DOMAIN p = 1..Len(p) /\ Len(p) \in Nat
  BY <1>2
<1>5. ASSUME NEW a \in 1..Len(p), NEW b \in 1..Len(p), p[a].target = p[b].target
      PROVE  a = b
  <2>1. pos[a] = pos[b]
    BY <1>1, <1>3, <1>5 DEF Table
  <2>2. pos[a] \in Nat
    BY <1>1, <1>3
  <2> QED BY <1>3, <1>4, <2>1, <2>2
<1>6. \A a \in 1..Len(p) : p[a].target # t
  BY <1>3
<1> QED BY <1>2, <1>4, <1>5, <1>6 DEF Table, Mounted, p

LEMMA AppendTable ==
  ASSUME NEW rows, Table(rows), NEW row \in Rows, ~Mounted(rows, row.target)
  PROVE  Table(Append(rows, row))
<1> DEFINE p == Append(rows, row)
<1>1. rows \in Seq(Rows) /\ Len(rows) \in Nat /\ DOMAIN rows = 1..Len(rows)
  BY DEF Table
<1>2. /\ p \in Seq(Rows) /\ DOMAIN p = 1..(Len(rows) + 1)
      /\ \A i \in 1..Len(rows) : p[i] = rows[i]
      /\ p[Len(rows) + 1] = row
  BY <1>1
<1> HIDE DEF p
<1>3. ASSUME NEW i \in DOMAIN p, NEW j \in DOMAIN p, p[i].target = p[j].target
      PROVE  i = j
  <2>1. CASE i \in 1..Len(rows) /\ j \in 1..Len(rows)
    BY <1>1, <1>2, <1>3, <2>1 DEF Table
  <2>2. \A k \in 1..Len(rows) : p[k].target # row.target
    BY <1>1, <1>2 DEF Mounted
  <2> QED BY <1>1, <1>2, <1>3, <2>1, <2>2
<1>4. Table(p)
  BY <1>2, <1>3 DEF Table
<1> QED BY <1>4 DEF p

LEMMA AppendMounts ==
  ASSUME NEW rows, Table(rows), NEW row \in Rows
  PROVE  \A t : Mounted(Append(rows, row), t) <=> Mounted(rows, t) \/ t = row.target
<1> DEFINE p == Append(rows, row)
<1>1. rows \in Seq(Rows) /\ Len(rows) \in Nat /\ DOMAIN rows = 1..Len(rows)
  BY DEF Table
<1>2. /\ DOMAIN p = 1..(Len(rows) + 1)
      /\ \A i \in 1..Len(rows) : p[i] = rows[i]
      /\ p[Len(rows) + 1] = row
  BY <1>1
<1> HIDE DEF p
<1>3. \A t : Mounted(p, t) <=> Mounted(rows, t) \/ t = row.target
  <2> TAKE t
  <2>1. ASSUME Mounted(rows, t)
        PROVE  Mounted(p, t)
    <3>1. PICK i \in 1..Len(rows) : rows[i].target = t
      BY <1>1, <2>1 DEF Mounted
    <3>2. i \in 1..(Len(rows) + 1)
      BY <1>1
    <3> QED BY <1>2, <3>1, <3>2 DEF Mounted
  <2>2. ASSUME t = row.target
        PROVE  Mounted(p, t)
    <3>1. Len(rows) + 1 \in 1..(Len(rows) + 1)
      BY <1>1
    <3> QED BY <1>2, <2>2, <3>1 DEF Mounted
  <2>3. ASSUME Mounted(p, t), t # row.target
        PROVE  Mounted(rows, t)
    <3>1. PICK i \in 1..(Len(rows) + 1) : p[i].target = t
      BY <1>2, <2>3 DEF Mounted
    <3>2. i \in 1..Len(rows)
      BY <1>1, <1>2, <2>3, <3>1
    <3> QED BY <1>1, <1>2, <3>1, <3>2 DEF Mounted
  <2> QED BY <2>1, <2>2, <2>3
<1> QED BY <1>3 DEF p

LEMMA EmptyTable == Table(<<>>)
BY DEF Table

LEMMA NewRowIsRow ==
  ASSUME NEW o \in Calls
  PROVE  NewRow(o) \in Rows /\ NewRow(o).target = o.target
BY DEF Calls, Rows, NewRow

LEMMA ChangedTable ==
  ASSUME NEW o \in Calls, NEW rows, Table(rows), Refusal(o, rows) = "none"
  PROVE  Table(Changed(o, rows))
<1>1. CASE o.kind = "add"
  <2>1. ~Mounted(rows, o.target)
    BY <1>1 DEF Refusal
  <2> QED BY <1>1, <2>1, NewRowIsRow, AppendTable DEF Changed
<1>2. CASE o.kind = "replace"
  BY <1>2, WithoutTable, NewRowIsRow, AppendTable DEF Changed
<1>3. CASE o.kind = "remove"
  BY <1>3, WithoutTable DEF Changed
<1>4. CASE o.kind = "digest"
  <2> DEFINE flip(i) == IF rows[i].target = o.target THEN [rows[i] EXCEPT !.digest = ~@] ELSE rows[i]
             p == [i \in DOMAIN rows |-> flip(i)]
  <2>1. rows \in Seq(Rows) /\ Len(rows) \in Nat /\ DOMAIN rows = 1..Len(rows)
    BY DEF Table
  <2>2. \A i \in 1..Len(rows) : flip(i) \in Rows /\ flip(i).target = rows[i].target
    <3> TAKE i \in 1..Len(rows)
    <3>1. rows[i] \in Rows
      BY <2>1
    <3> QED BY <3>1 DEF Rows
  <2> HIDE DEF flip
  <2>3. p \in [1..Len(rows) -> Rows]
    BY <2>1, <2>2
  <2>4. p \in Seq(Rows)
    BY <2>1, <2>3, SeqDef
  <2>5. Table(p)
    BY <2>1, <2>2, <2>4 DEF Table
  <2> QED BY <1>4, <2>5 DEF Changed, flip
<1>5. CASE o.kind = "clear"
  BY <1>5, EmptyTable DEF Changed
<1> QED BY <1>1, <1>2, <1>3, <1>4, <1>5 DEF Calls

LEMMA CandidatesAreDirs ==
  ASSUME NEW rows, Table(rows)
  PROVE  Candidates(rows) \in Seq(Dir)
<1> DEFINE d == [i \in DOMAIN rows |-> rows[i].dir]
           dirs == Append(d, Cwd)
<1>1. rows \in Seq(Rows) /\ Len(rows) \in Nat /\ DOMAIN rows = 1..Len(rows)
  BY DEF Table
<1>2. \A i \in 1..Len(rows) : rows[i].dir \in Dir
  <2> TAKE i \in 1..Len(rows)
  <2>1. rows[i] \in Rows
    BY <1>1
  <2> QED BY <2>1 DEF Rows
<1>3. d \in [1..Len(rows) -> Dir]
  BY <1>1, <1>2
<1>4. d \in Seq(Dir)
  BY <1>1, <1>3, SeqDef
<1> HIDE DEF d
<1>5. dirs \in Seq(Dir)
  BY <1>4, StoreConstants
<1> HIDE DEF dirs
<1>6. \A I : Picked(dirs, I) \in Seq(Dir)
  BY <1>5, PickedDraws
<1> QED BY <1>6 DEF Candidates, dirs, d

----------------------------------------------------------------------------
(* The types, one part of the state at a time                              *)

RowsTyped == Table(mounts) /\ Table(cache) /\ \A c \in Caller : Table(snap[c])

TimesTyped ==
  /\ version \in Nat \ {0} /\ missed \in 0..version
  /\ input.seen \in 0..version
  /\ cacheVersion \in 0..version /\ (stat = -1 \/ stat \in 1..version)

LocksTyped ==
  \A k \in {lock} \cup {saw[c] : c \in Caller} : k = NoLock \/ (k.by \in Caller /\ k.old \in BOOLEAN)

CallersTyped ==
  /\ pc \in [Caller -> {"none", "trying", "judged", "locked", "read", "written"}]
  /\ call \in [Caller -> Calls]
  /\ tries \in [Caller -> 0..MaxTries]
  /\ result \in [Caller -> {"ok", "duplicate", "absent", "refused", "failed", "died"}]

HandlerTyped ==
  /\ stage \in {"idle", "call", "child", "refresh", "route", "ask"}
  /\ input.why \in {"none", "message", "tap", "pair", "mount", "unmount", "unpair"}
  /\ input.topic \in Target /\ input.dir \in Dir /\ input.wild \in BOOLEAN
  /\ input.why = "message" => input.topic \in Topic
  /\ stage \in {"route", "ask"} => input.why = "message"
  /\ paired \in BOOLEAN /\ stolen \in BOOLEAN
  /\ card = NoCard \/ (card.topic \in Topic /\ card.choices \in Seq(Dir))

Typed == RowsTyped /\ TimesTyped /\ LocksTyped /\ CallersTyped /\ HandlerTyped

LEMMA TypedMeans == Typed => TypeOK
BY DEF Typed, TypeOK, RowsTyped, TimesTyped, LocksTyped, CallersTyped, HandlerTyped

LEMMA IdleIsCall == Idle \in Calls
BY StoreConstants DEF Idle, Calls, Target

LEMMA AddIsCall ==
  ASSUME NEW t \in Target, NEW d \in Dir
  PROVE  Add(t, d) \in Calls
BY DEF Add, Calls

LEMMA DirOfIsDir ==
  ASSUME NEW rows, Table(rows), NEW t, Mounted(rows, t)
  PROVE  DirOf(rows, t) \in Dir
<1> DEFINE i == CHOOSE k \in DOMAIN rows : rows[k].target = t
<1>1. i \in DOMAIN rows
  BY DEF Mounted
<1>2. rows[i] \in Rows
  BY <1>1 DEF Table
<1> QED BY <1>2 DEF DirOf, Rows

LEMMA ShapeFunctions ==
  ASSUME IInv
  PROVE  snap = [c \in Caller |-> snap[c]] /\ saw = [c \in Caller |-> saw[c]]
BY DEF IInv, Shape

LEMMA TypeInit == Init => Typed
<1> SUFFICES ASSUME Init PROVE Typed
  OBVIOUS
<1>1. Table(mounts)
  <2>1. Wildcard \in Rows
    BY StoreConstants DEF Wildcard, Rows, Target
  <2>2. Table(<<Wildcard>>)
    <3>1. <<Wildcard>> \in Seq(Rows) /\ DOMAIN <<Wildcard>> = 1..1
      BY <2>1
    <3> QED BY <3>1 DEF Table
  <2> QED BY <2>2, EmptyTable DEF Init
<1>2. RowsTyped
  BY <1>1, EmptyTable DEF Init, RowsTyped
<1>3. TimesTyped
  BY DEF Init, TimesTyped, NoInput
<1>4. LocksTyped
  BY DEF Init, LocksTyped
<1>5. CallersTyped
  BY IdleIsCall, StoreConstants DEF Init, CallersTyped
<1>6. HandlerTyped
  <2>1. <<Cwd>> \in Seq(Dir)
    BY StoreConstants
  <2>2. card = NoCard \/ (card.topic \in Topic /\ card.choices \in Seq(Dir))
    <3>1. ASSUME NEW t \in Topic, card = [topic |-> t, choices |-> <<Cwd>>]
          PROVE  card.topic \in Topic /\ card.choices \in Seq(Dir)
      <4>1. card.topic = t /\ card.choices = <<Cwd>>
        BY <3>1
      <4> QED BY <2>1, <4>1
    <3> QED BY <3>1 DEF Init
  <2> QED BY <2>2, StoreConstants DEF Init, HandlerTyped, NoInput, Target
<1> QED BY <1>2, <1>3, <1>4, <1>5, <1>6 DEF Typed

\* Who is asked to end, dies, or is refused has no call any more.
LEMMA ReturnTyped ==
  ASSUME IInv, RowsTyped, CallersTyped, NEW c \in Caller,
         NEW how \in {"ok", "duplicate", "absent", "refused", "failed", "died"}, Return(c, how),
         UNCHANGED <<mounts, cache>>
  PROVE  RowsTyped' /\ CallersTyped'
<1>1. RowsTyped'
  BY EmptyTable, ShapeFunctions DEF RowsTyped, Return
<1>2. CallersTyped'
  BY IdleIsCall, StoreConstants DEF CallersTyped, Return
<1> QED BY <1>1, <1>2

LEMMA StartsTyped ==
  ASSUME CallersTyped, RowsTyped, NEW c \in Caller, NEW o \in Calls, Starts(c, o),
         UNCHANGED <<mounts, cache>>
  PROVE  RowsTyped' /\ CallersTyped'
BY DEF CallersTyped, RowsTyped, Starts

LEMMA SawCleared ==
  ASSUME IInv, LocksTyped, NEW c \in Caller, saw' = [saw EXCEPT ![c] = NoLock],
         lock' = lock \/ lock' = NoLock
  PROVE  LocksTyped'
BY ShapeFunctions DEF LocksTyped

LEMMA LockTypeSteps ==
  ASSUME IInv, Typed, NEW c \in Caller, OpenLock(c) \/ Judge(c) \/ RemoveStale(c) \/ GiveUp(c)
  PROVE  Typed'
<1> USE DEF Typed
<1>1. CASE OpenLock(c)
  <2>1. LocksTyped' /\ CallersTyped'
    <3>1. lock' = [by |-> c, old |-> FALSE] /\ saw' = saw
      BY <1>1 DEF OpenLock
    <3>2. lock'.by \in Caller /\ lock'.old \in BOOLEAN
      BY <3>1
    <3>3. LocksTyped'
      BY <3>1, <3>2 DEF LocksTyped
    <3> QED BY <1>1, <3>3 DEF OpenLock, CallersTyped
  <2>2. RowsTyped' /\ TimesTyped' /\ HandlerTyped'
    BY <1>1 DEF OpenLock, file, memory, handler, RowsTyped, TimesTyped, HandlerTyped
  <2> QED BY <2>1, <2>2
<1>2. CASE Judge(c)
  <2>1. LocksTyped'
    BY <1>2, ShapeFunctions DEF Judge, LocksTyped
  <2>2. CallersTyped'
    <3>1. tries[c] + 1 \in 0..MaxTries
      BY <1>2, StoreConstants DEF Judge, CallersTyped
    <3> QED BY <1>2, <3>1 DEF Judge, CallersTyped
  <2>3. RowsTyped' /\ TimesTyped' /\ HandlerTyped'
    BY <1>2 DEF Judge, file, memory, handler, RowsTyped, TimesTyped, HandlerTyped
  <2> QED BY <2>1, <2>2, <2>3
<1>3. CASE RemoveStale(c)
  <2>1. LocksTyped'
    BY <1>3, SawCleared DEF RemoveStale
  <2>2. CallersTyped'
    BY <1>3 DEF RemoveStale, CallersTyped
  <2>3. RowsTyped' /\ TimesTyped'
    BY <1>3 DEF RemoveStale, file, memory, handler, RowsTyped, TimesTyped
  <2>4. HandlerTyped'
    <3>1. stolen' \in BOOLEAN
      BY <1>3 DEF RemoveStale
    <3> QED BY <1>3, <3>1 DEF RemoveStale, handler, HandlerTyped
  <2> QED BY <2>1, <2>2, <2>3, <2>4
<1>4. CASE GiveUp(c)
  <2>1. RowsTyped' /\ CallersTyped'
    BY <1>4, ReturnTyped DEF GiveUp, file, memory
  <2>2. TimesTyped' /\ LocksTyped' /\ HandlerTyped'
    BY <1>4 DEF GiveUp, file, memory, handler, TimesTyped, LocksTyped, HandlerTyped
  <2> QED BY <2>1, <2>2
<1> QED BY <1>1, <1>2, <1>3, <1>4

LEMMA WriteTyped ==
  ASSUME Typed, NEW c \in Caller, WriteRows(c)
  PROVE  Typed'
<1> USE DEF Typed
<1> DEFINE refusal == Refusal(call[c], snap[c])
<1>1. refusal \in {"none", "duplicate", "absent"}
  BY DEF Refusal
<1>2. /\ pc' = [pc EXCEPT ![c] = "written"]
      /\ result' = [result EXCEPT ![c] = IF c \in Cli THEN "ok"
                                         ELSE IF refusal = "none" THEN "ok" ELSE refusal]
      /\ UNCHANGED <<lock, stolen, call, snap, saw, tries, cache, cacheVersion, stat, stage, input,
                     paired, card>>
      /\ IF refusal = "none"
         THEN /\ mounts' = Changed(call[c], snap[c]) /\ version' = version + 1
              /\ missed' = IF c = Poller THEN missed ELSE version'
         ELSE UNCHANGED <<mounts, version, missed>>
  BY DEF WriteRows, memory, handler, file
<1> HIDE DEF refusal
<1>3. CallersTyped'
  BY <1>1, <1>2 DEF CallersTyped
<1>4. LocksTyped' /\ HandlerTyped'
  BY <1>2 DEF LocksTyped, HandlerTyped
<1>5. TimesTyped'
  BY <1>2 DEF TimesTyped
<1>6. RowsTyped'
  <2>1. CASE refusal = "none"
    <3>1. Table(Changed(call[c], snap[c]))
      BY <2>1, ChangedTable DEF refusal, RowsTyped, CallersTyped
    <3> QED BY <1>2, <2>1, <3>1 DEF RowsTyped
  <2>2. CASE refusal # "none"
    BY <1>2, <2>2 DEF RowsTyped
  <2> QED BY <2>1, <2>2
<1> QED BY <1>3, <1>4, <1>5, <1>6

LEMMA InsideTyped ==
  ASSUME IInv, Typed, NEW c \in Caller,
         ReadRows(c) \/ WriteRows(c) \/ ThrowsInside(c) \/ Release(c)
  PROVE  Typed'
<1> USE DEF Typed
<1>1. CASE ReadRows(c)
  <2>1. RowsTyped'
    BY <1>1, ShapeFunctions DEF ReadRows, RowsTyped, file, memory
  <2>2. CallersTyped' /\ TimesTyped' /\ LocksTyped' /\ HandlerTyped'
    BY <1>1 DEF ReadRows, CallersTyped, TimesTyped, LocksTyped, HandlerTyped, file, memory, handler
  <2> QED BY <2>1, <2>2
<1>2. CASE WriteRows(c)
  BY <1>2, WriteTyped
<1>3. CASE Release(c)
  <2>1. RowsTyped' /\ CallersTyped'
    BY <1>3, ReturnTyped DEF Release, CallersTyped, file, memory
  <2>2. TimesTyped' /\ LocksTyped' /\ HandlerTyped'
    BY <1>3 DEF Release, file, memory, handler, TimesTyped, LocksTyped, HandlerTyped
  <2> QED BY <2>1, <2>2
<1>4. CASE ThrowsInside(c)
  BY <1>4 DEF ThrowsInside, RowsTyped, TimesTyped, LocksTyped, CallersTyped, HandlerTyped,
     file, memory, handler
<1> QED BY <1>1, <1>2, <1>3, <1>4

LEMMA OutsideTyped ==
  ASSUME IInv, Typed,
         \/ \E c \in Cli, o \in CliCall : CliStarts(c, o)
         \/ \E c \in Caller \ {Poller} : Dies(c)
         \/ LockAges
         \/ Restart
  PROVE  Typed'
<1> USE DEF Typed
<1>1. ASSUME NEW c \in Cli, NEW o \in CliCall, CliStarts(c, o)
      PROVE  Typed'
  <2>1. c \in Caller /\ o \in Calls
    BY StoreConstants DEF Caller
  <2>2. RowsTyped' /\ CallersTyped' /\ saw' = saw
    BY <1>1, <2>1, StartsTyped DEF CliStarts, Starts, file, memory
  <2>3. TimesTyped' /\ LocksTyped' /\ HandlerTyped'
    BY <1>1, <2>2 DEF CliStarts, file, memory, handler, TimesTyped, LocksTyped, HandlerTyped
  <2> QED BY <2>2, <2>3
<1>2. ASSUME NEW c \in Caller \ {Poller}, Dies(c)
      PROVE  Typed'
  <2>1. RowsTyped' /\ CallersTyped'
    BY <1>2, ReturnTyped DEF Dies, file, memory
  <2>2. LocksTyped'
    BY <1>2, SawCleared DEF Dies
  <2>3. TimesTyped' /\ HandlerTyped'
    BY <1>2 DEF Dies, file, memory, handler, TimesTyped, HandlerTyped
  <2> QED BY <2>1, <2>2, <2>3
<1>3. CASE LockAges
  <2>1. lock \in Locks /\ lock' = [lock EXCEPT !.old = TRUE] /\ saw' = saw
    BY <1>3 DEF LockAges, callers, IInv, Shape
  <2>2. lock'.by \in Caller /\ lock'.old \in BOOLEAN
    BY <2>1 DEF Locks
  <2>3. LocksTyped'
    BY <2>1, <2>2 DEF LocksTyped
  <2>4. RowsTyped' /\ TimesTyped' /\ CallersTyped' /\ HandlerTyped'
    BY <1>3 DEF LockAges, file, callers, memory, handler, RowsTyped, TimesTyped, CallersTyped, HandlerTyped
  <2> QED BY <2>3, <2>4
<1>4. CASE Restart
  <2>1. Poller \in Caller
    BY DEF Caller
  <2>2. RowsTyped'
    BY <1>4, <2>1, EmptyTable, ShapeFunctions DEF Restart, Return, RowsTyped, file
  <2>3. CallersTyped'
    BY <1>4, <2>1, IdleIsCall, StoreConstants DEF Restart, Return, CallersTyped
  <2>4. LocksTyped'
    BY <1>4, <2>1, SawCleared DEF Restart
  <2>5. TimesTyped'
    BY <1>4 DEF Restart, TimesTyped, NoInput, file
  <2>6. HandlerTyped'
    BY <1>4, StoreConstants DEF Restart, HandlerTyped, NoInput, Target
  <2> QED BY <2>2, <2>3, <2>4, <2>5, <2>6
<1> QED BY <1>1, <1>2, <1>3, <1>4

\* A handler that calls the store, or lets a process call it.
LEMMA CallsStoreTyped ==
  ASSUME Typed, NEW why \in {"message", "tap", "pair"}, NEW t \in Target, NEW d \in Dir,
         why = "message" => t \in Topic,
         NEW wild \in BOOLEAN, CallsStore(why, Add(t, d), wild),
         paired' \in BOOLEAN, UNCHANGED <<file, lock, stolen, memory, card>>
  PROVE  Typed'
<1> USE DEF Typed
<1>1. Poller \in Caller /\ Add(t, d) \in Calls
  BY AddIsCall DEF Caller
<1>2. RowsTyped' /\ CallersTyped' /\ saw' = saw
  BY <1>1, StartsTyped DEF CallsStore, Starts, file, memory
<1>3. TimesTyped' /\ LocksTyped' /\ HandlerTyped'
  BY <1>2 DEF CallsStore, Add, file, memory, TimesTyped, LocksTyped, HandlerTyped
<1> QED BY <1>2, <1>3

LEMMA CommandTyped ==
  ASSUME Typed, NEW why \in {"mount", "unmount", "unpair"}, NEW o \in Calls, Command(why, o)
  PROVE  Typed'
<1> USE DEF Typed
<1>1. Child \in Caller
  BY DEF Caller
<1>2. RowsTyped' /\ CallersTyped' /\ saw' = saw
  BY <1>1, StartsTyped DEF Command, Starts, file, memory
<1>3. o.target \in Target /\ o.dir \in Dir
  BY DEF Calls
<1>4. input' = [NoInput EXCEPT !.why = why, !.topic = o.target, !.dir = o.dir]
  BY DEF Command
<1>5. input'.why = why /\ input'.topic = o.target /\ input'.dir = o.dir /\ input'.wild = FALSE /\ input'.seen = 0
  BY <1>4 DEF NoInput
<1>6. TimesTyped' /\ LocksTyped'
  BY <1>2, <1>5 DEF Command, file, memory, TimesTyped, LocksTyped
<1>7. paired' \in BOOLEAN /\ stage' = "child" /\ UNCHANGED <<stolen, card>>
  BY DEF Command
<1>8. HandlerTyped'
  BY <1>3, <1>5, <1>7 DEF HandlerTyped
<1> QED BY <1>2, <1>6, <1>8

LEMMA InputTyped ==
  ASSUME Typed,
         \/ \E t \in Topic : Message(t)
         \/ \E i \in 1..Cardinality(Dir) : Tap(i)
         \/ Pair
         \/ Commands
  PROVE  Typed'
<1>1. ASSUME NEW t \in Topic, Message(t)
      PROVE  Typed'
  <2>0. t \in Target /\ paired' \in BOOLEAN
    BY <1>1 DEF Message, Target, Typed, HandlerTyped
  <2>1. CASE Mounted(cache, t)
    BY <1>1, <2>1 DEF Message, Typed, RowsTyped, TimesTyped, LocksTyped, CallersTyped, HandlerTyped,
       file, memory, callers
  <2>2. CASE ~Mounted(cache, t) /\ Mounted(cache, "*")
    <3>1. DirOf(cache, "*") \in Dir
      BY <2>2, DirOfIsDir DEF Typed, RowsTyped
    <3>2. CallsStore("message", Add(t, DirOf(cache, "*")), TRUE)
      BY <1>1, <2>2 DEF Message
    <3>3. UNCHANGED <<file, lock, stolen, memory, card>>
      BY <1>1 DEF Message
    <3> QED BY <2>0, <3>1, <3>2, <3>3, CallsStoreTyped
  <2>3. CASE ~Mounted(cache, t) /\ ~Mounted(cache, "*")
    <3>1. /\ stage' = "ask" /\ input' = [NoInput EXCEPT !.why = "message", !.topic = t]
          /\ UNCHANGED <<callers, file, lock, stolen, memory, paired, card>>
      BY <1>1, <2>3 DEF Message
    <3>2. input'.why = "message" /\ input'.topic = t /\ input'.dir = Cwd /\ input'.wild = FALSE /\ input'.seen = 0
      BY <3>1 DEF NoInput
    <3>3. RowsTyped' /\ LocksTyped' /\ CallersTyped'
      BY <3>1 DEF Typed, RowsTyped, LocksTyped, CallersTyped, file, memory, callers
    <3>4. TimesTyped'
      BY <3>1, <3>2 DEF Typed, TimesTyped, file, memory
    <3>5. HandlerTyped'
      BY <2>0, <3>1, <3>2, StoreConstants DEF Typed, HandlerTyped
    <3> QED BY <3>3, <3>4, <3>5 DEF Typed
  <2> QED BY <2>1, <2>2, <2>3
<1>2. ASSUME NEW i \in 1..Cardinality(Dir), Tap(i)
      PROVE  Typed'
  <2>1. CASE i \in DOMAIN Candidates(cache)
    <3>1. Candidates(cache) \in Seq(Dir)
      BY CandidatesAreDirs DEF Typed, RowsTyped
    <3>2. Candidates(cache)[i] \in Dir
      BY <2>1, <3>1
    <3>3. card.topic \in Target /\ paired' \in BOOLEAN
      BY <1>2 DEF Tap, Typed, HandlerTyped, Target
    <3> QED BY <1>2, <2>1, <3>2, <3>3, CallsStoreTyped DEF Tap
  <2>2. CASE i \notin DOMAIN Candidates(cache)
    BY <1>2, <2>2 DEF Tap, Typed, RowsTyped, TimesTyped, LocksTyped, CallersTyped, HandlerTyped,
       file, memory, callers
  <2> QED BY <2>1, <2>2
<1>3. CASE Pair
  <2>1. CASE Mounted(mounts, "*")
    BY <1>3, <2>1 DEF Pair, Typed, RowsTyped, TimesTyped, LocksTyped, CallersTyped, HandlerTyped,
       file, memory, callers
  <2>2. CASE ~Mounted(mounts, "*")
    <3>1. "*" \in Target /\ Cwd \in Dir
      BY StoreConstants DEF Target
    <3> QED BY <1>3, <2>2, <3>1, CallsStoreTyped DEF Pair
  <2> QED BY <2>1, <2>2
<1>4. CASE Commands
  <2>1. ASSUME NEW t \in Topic, NEW d \in Dir, Command("mount", Add(t, d))
        PROVE  Typed'
    BY <2>1, AddIsCall, CommandTyped DEF Target
  <2>2. ASSUME NEW t \in Topic, Command("unmount", [Add(t, Cwd) EXCEPT !.kind = "remove"])
        PROVE  Typed'
    <3>1. [Add(t, Cwd) EXCEPT !.kind = "remove"] \in Calls
      BY StoreConstants DEF Add, Calls, Target
    <3> QED BY <2>2, <3>1, CommandTyped
  <2>3. CASE Command("unpair", Idle)
    BY <2>3, IdleIsCall, CommandTyped
  <2> QED BY <1>4, <2>1, <2>2, <2>3 DEF Commands
<1> QED BY <1>1, <1>2, <1>3, <1>4

\* The handler goes on, or is done and forgets its input.
LEMMA GoesOnTyped ==
  ASSUME TimesTyped, HandlerTyped, NEW next \in {"idle", "call", "child", "refresh", "route", "ask"}, GoesOn(next),
         next \in {"route", "ask"} => input.why = "message"
  PROVE  /\ stage' \in {"idle", "call", "child", "refresh", "route", "ask"}
         /\ input'.why \in {"none", "message", "tap", "pair", "mount", "unmount", "unpair"}
         /\ input'.topic \in Target /\ input'.dir \in Dir /\ input'.wild \in BOOLEAN
         /\ input'.why = "message" => input'.topic \in Topic
         /\ stage' \in {"route", "ask"} => input'.why = "message"
         /\ input'.seen \in 0..version
<1>1. CASE next = "idle"
  <2>1. stage' = "idle" /\ input' = NoInput
    BY <1>1 DEF GoesOn
  <2> QED BY <2>1, StoreConstants DEF NoInput, Target, TimesTyped
<1>2. CASE next # "idle"
  <2>1. stage' = next /\ input' = input
    BY <1>2 DEF GoesOn
  <2> QED BY <2>1 DEF TimesTyped, HandlerTyped
<1> QED BY <1>1, <1>2

LEMMA ResumeTyped ==
  ASSUME TimesTyped, HandlerTyped, Resume, UNCHANGED <<version, stolen>>
  PROVE  HandlerTyped' /\ input'.seen \in 0..version
<1> DEFINE next == IF stage # "refresh" THEN stage ELSE IF input.why = "message" THEN "route" ELSE "idle"
<1>1. /\ next \in {"idle", "call", "child", "refresh", "route", "ask"} /\ GoesOn(next)
      /\ next \in {"route", "ask"} => input.why = "message"
  BY DEF Resume, HandlerTyped
<1> HIDE DEF next
<1> QED BY <1>1, GoesOnTyped DEF Resume, HandlerTyped

LEMMA PollerTyped ==
  ASSUME Typed, PollerStep
  PROVE  Typed'
<1> USE DEF Typed
<1>1. CASE CallReturned \/ ChildReturned
  <2>1. UNCHANGED <<file, lock, stolen, callers, memory, paired, card>>
    BY <1>1 DEF CallReturned, ChildReturned
  <2>2. \E next \in {"idle", "call", "child", "refresh", "route", "ask"} :
          GoesOn(next) /\ (next \in {"route", "ask"} => input.why = "message")
    BY <1>1 DEF CallReturned, ChildReturned, AfterCall
  <2>3. TimesTyped' /\ HandlerTyped'
    BY <2>1, <2>2, GoesOnTyped DEF TimesTyped, HandlerTyped, file, memory
  <2>4. RowsTyped' /\ LocksTyped' /\ CallersTyped'
    BY <2>1 DEF RowsTyped, LocksTyped, CallersTyped, file, callers, memory
  <2> QED BY <2>3, <2>4
<1>2. CASE LookAtMtime
  <2>1. UNCHANGED <<file, lock, stolen, callers, cache, cacheVersion, missed>>
    BY <1>2 DEF LookAtMtime
  <2>2. RowsTyped' /\ LocksTyped' /\ CallersTyped'
    BY <2>1 DEF RowsTyped, LocksTyped, CallersTyped, file, callers
  <2>3. CASE version # cacheVersion
    <3>1. stat' = version /\ UNCHANGED handler
      BY <1>2, <2>3 DEF LookAtMtime
    <3> QED BY <2>1, <2>2, <3>1 DEF TimesTyped, HandlerTyped, file, handler
  <2>4. CASE version = cacheVersion
    <3>1. Resume /\ stat' = stat
      BY <1>2, <2>4 DEF LookAtMtime
    <3>2. HandlerTyped' /\ input'.seen \in 0..version
      BY <2>1, <3>1, ResumeTyped DEF file
    <3> QED BY <2>1, <2>2, <3>1, <3>2 DEF TimesTyped, file
  <2> QED BY <2>3, <2>4
<1>3. CASE LoadRows
  <2>1. /\ stat # -1 /\ stat' = -1 /\ Resume
        /\ UNCHANGED <<file, lock, stolen, callers>>
        /\ \/ cache' = mounts /\ cacheVersion' = stat /\ missed' = missed
           \/ cache' = cache /\ cacheVersion' = cacheVersion /\ missed' = version
    BY <1>3 DEF LoadRows
  <2>2. RowsTyped' /\ LocksTyped' /\ CallersTyped'
    BY <2>1 DEF RowsTyped, LocksTyped, CallersTyped, file, callers
  <2>3. HandlerTyped' /\ input'.seen \in 0..version
    BY <2>1, ResumeTyped DEF file
  <2> QED BY <2>1, <2>2, <2>3 DEF TimesTyped, file
<1>4. CASE Route
  <2>1. GoesOn("idle") /\ UNCHANGED <<file, lock, stolen, callers, memory, paired>>
    BY <1>4 DEF Route
  <2>2. RowsTyped' /\ LocksTyped' /\ CallersTyped'
    BY <2>1 DEF RowsTyped, LocksTyped, CallersTyped, file, callers, memory
  <2>3. TimesTyped'
    BY <2>1, GoesOnTyped DEF TimesTyped, file, memory
  <2>4. card' = NoCard \/ (card'.topic \in Topic /\ card'.choices \in Seq(Dir))
    <3>1. input.topic \in Topic /\ Candidates(cache) \in Seq(Dir)
      BY <1>4, CandidatesAreDirs DEF Route, HandlerTyped, RowsTyped
    <3>2. card' = card \/ card' = [topic |-> input.topic, choices |-> Candidates(cache)]
      BY <1>4 DEF Route
    <3> QED BY <3>1, <3>2 DEF HandlerTyped
  <2>5. HandlerTyped'
    BY <2>1, <2>4, GoesOnTyped DEF HandlerTyped
  <2> QED BY <2>2, <2>3, <2>5
<1> QED BY <1>1, <1>2, <1>3, <1>4 DEF PollerStep

LEMMA TypeStep == IInv /\ Typed /\ [Next]_vars => Typed'
<1> SUFFICES ASSUME IInv, Typed, [Next]_vars
             PROVE  Typed'
  OBVIOUS
<1>1. ASSUME NEW c \in Caller, CallStep(c)
      PROVE  Typed'
  BY <1>1, LockTypeSteps, InsideTyped DEF CallStep
<1>2. CASE UNCHANGED vars
  BY <1>2 DEF vars, file, callers, memory, handler, Typed, RowsTyped, TimesTyped, LocksTyped,
     CallersTyped, HandlerTyped
<1> QED BY <1>1, <1>2, OutsideTyped, InputTyped, PollerTyped DEF Next

LEMMA TypedHolds == Spec => []Typed
BY Inductive, TypeInit, TypeStep, PTL DEF Spec

\* Every variable has its type; in particular neither the file nor a copy of it
\* ever has two rows for one target, whatever calls overlap or die half-way.
THEOREM TypeCorrect == Spec => []TypeOK
BY TypedHolds, TypedMeans, PTL

----------------------------------------------------------------------------
(* No message is turned away by the poller's own writes                    *)

\* A call of the poller belongs to its handler, a reload to none that writes; the
\* copy is the file while the mtimes agree.
Linked ==
  /\ pc[Poller] # "none" =>
       stage = "call" /\ call[Poller].kind = "add" /\ call[Poller].target = input.topic
  /\ stat # -1 =>
       pc[Poller] \in {"none", "trying"} /\ stage \in {"idle", "call", "refresh"} /\ cacheVersion < stat
  /\ cacheVersion = version => cache = mounts
  /\ input.wild => input.why = "message" /\ stage # "child" /\ input.seen <= cacheVersion
  /\ input.why = "pair" => input.topic = "*"

\* The poller has written t itself and will reload.
Fresh(t) ==
  /\ input.topic = t
  /\ \/ stage = "refresh"
     \/ stage = "call" /\ pc[Poller] \in {"none", "written"} /\ result[Poller] = "ok"

\* What the poller cannot have missed, the copy has or the reload will bring.
Own ==
  missed <= cacheVersion =>
    /\ \A t \in Topic : Mounted(mounts, t) => Mounted(cache, t) \/ Fresh(t)
    /\ pc[Poller] = "read" => snap[Poller] = mounts

\* So the call for a message that found the wildcard finds no mount of its topic,
\* makes it, and the reload brings it.
Heard ==
  input.wild /\ missed <= input.seen =>
    /\ stage = "call" /\ pc[Poller] \notin {"none", "written"} => ~Mounted(mounts, input.topic)
    /\ stage = "call" /\ pc[Poller] \in {"none", "written"} =>
         \/ result[Poller] \in {"refused", "failed"}
         \/ result[Poller] = "ok" /\ Mounted(mounts, input.topic)
    /\ stage = "refresh" => Mounted(mounts, input.topic)
    /\ stage = "route" => Mounted(cache, input.topic)
    /\ stage = "ask" => result[Poller] \in {"refused", "failed"}

HInv == Linked /\ Own /\ Heard

LEMMA HInit == Init => HInv
BY DEF Init, HInv, Linked, Own, Heard, NoInput, Caller

\* A step that leaves the poller, its copy and the file alone.
Apart == UNCHANGED <<mounts, version, missed, pc[Poller], call[Poller], snap[Poller], result[Poller],
                     memory, stage, input>>

LEMMA ApartKeeps ==
  ASSUME HInv, Apart
  PROVE  HInv'
BY DEF HInv, Linked, Own, Heard, Fresh, Apart, memory

\* A write by another process is later than any copy.
LEMMA ForeignWriteKeeps ==
  ASSUME Typed, HInv, NEW c \in Caller \ {Poller}, WriteRows(c)
  PROVE  HInv'
<1>1. UNCHANGED <<pc[Poller], call[Poller], snap[Poller], result[Poller], cache, cacheVersion, stat,
                  stage, input>>
  BY DEF WriteRows, handler, Typed, CallersTyped
<1>2. CASE UNCHANGED <<file, missed>>
  BY <1>1, <1>2, ApartKeeps DEF Apart, file, memory
<1>3. CASE ~ UNCHANGED <<file, missed>>
  <2>1. version' = version + 1 /\ missed' = version + 1
    BY <1>3 DEF WriteRows
  <2>2. ~(missed' <= cacheVersion') /\ ~(missed' <= input'.seen) /\ version' # cacheVersion'
    BY <1>1, <2>1 DEF Typed, TimesTyped
  <2>3. Linked'
    BY <1>1, <2>2 DEF HInv, Linked
  <2> QED BY <2>2, <2>3 DEF HInv, Own, Heard
<1> QED BY <1>2, <1>3

LEMMA OthersApart ==
  ASSUME IInv, Typed, HInv, NEW c \in Caller \ {Poller}, CallStep(c) \/ Dies(c)
  PROVE  HInv'
<1>1. CASE WriteRows(c)
  BY <1>1, ForeignWriteKeeps
<1>2. /\ c # Poller /\ Poller \in Caller
      /\ pc = [d \in Caller |-> pc[d]] /\ call = [d \in Caller |-> call[d]]
      /\ snap = [d \in Caller |-> snap[d]] /\ result = [d \in Caller |-> result[d]]
  BY ShapeFunctions DEF Typed, CallersTyped, Caller
<1>3. CASE OpenLock(c) \/ Judge(c) \/ RemoveStale(c)
  <2>1. pc'[Poller] = pc[Poller] /\ UNCHANGED <<file, call, snap, result, memory, handler>>
    BY <1>2, <1>3 DEF OpenLock, Judge, RemoveStale
  <2> QED BY <2>1, ApartKeeps DEF Apart, memory, file, handler
<1>4. CASE ReadRows(c)
  <2>1. /\ pc'[Poller] = pc[Poller] /\ snap'[Poller] = snap[Poller]
        /\ UNCHANGED <<file, call, result, memory, handler>>
    BY <1>2, <1>4 DEF ReadRows
  <2> QED BY <2>1, ApartKeeps DEF Apart, memory, file, handler
<1>5. ASSUME NEW how, Return(c, how), UNCHANGED <<file, memory, handler>>
      PROVE  HInv'
  <2>1. /\ pc'[Poller] = pc[Poller] /\ call'[Poller] = call[Poller]
        /\ snap'[Poller] = snap[Poller] /\ result'[Poller] = result[Poller]
    BY <1>2, <1>5 DEF Return
  <2> QED BY <1>5, <2>1, ApartKeeps DEF Apart, memory, file, handler
<1>6. CASE GiveUp(c) \/ Release(c) \/ Dies(c)
  BY <1>5, <1>6 DEF GiveUp, Release, Dies
<1>7. CASE ThrowsInside(c)
  <2>1. /\ pc'[Poller] = pc[Poller] /\ result'[Poller] = result[Poller]
        /\ UNCHANGED <<file, call, snap, memory, handler>>
    BY <1>2, <1>7 DEF ThrowsInside
  <2> QED BY <2>1, ApartKeeps DEF Apart, memory, file, handler
<1> QED BY <1>1, <1>3, <1>4, <1>6, <1>7 DEF CallStep

\* The poller's own call.
LEMMA OwnLockKeeps ==
  ASSUME IInv, Typed, HInv, OpenLock(Poller) \/ Judge(Poller) \/ RemoveStale(Poller)
  PROVE  HInv'
<1>1. /\ pc[Poller] \in {"trying", "judged"} /\ pc'[Poller] \in {"trying", "judged", "locked"}
      /\ stat = -1 \/ pc'[Poller] = "trying"
      /\ UNCHANGED <<file, call, snap, result, memory, handler>>
  BY DEF OpenLock, Judge, RemoveStale, MayRun, Typed, CallersTyped, HInv, Linked, Caller
<1>2. Linked'
  BY <1>1 DEF HInv, Linked, file, memory, handler
<1>3. Own'
  BY <1>1 DEF HInv, Own, Fresh, file, memory, handler
<1>4. Heard'
  BY <1>1 DEF HInv, Heard, file, memory, handler
<1> QED BY <1>2, <1>3, <1>4 DEF HInv

LEMMA OwnReadKeeps ==
  ASSUME IInv, Typed, HInv, ReadRows(Poller)
  PROVE  HInv'
<1>1. /\ pc[Poller] = "locked" /\ pc'[Poller] = "read" /\ snap'[Poller] = mounts
      /\ UNCHANGED <<file, call, result, memory, handler>>
  BY ShapeFunctions DEF ReadRows, Typed, CallersTyped, Caller
<1>2. Linked'
  BY <1>1 DEF HInv, Linked, file, memory, handler
<1>3. Own'
  BY <1>1 DEF HInv, Own, Fresh, file, memory, handler
<1>4. Heard'
  BY <1>1 DEF HInv, Heard, file, memory, handler
<1> QED BY <1>2, <1>3, <1>4 DEF HInv

LEMMA OwnReturnKeeps ==
  ASSUME IInv, Typed, HInv, GiveUp(Poller) \/ ThrowsInside(Poller) \/ Release(Poller)
  PROVE  HInv'
<1>1. /\ \/ pc[Poller] = "trying" /\ result'[Poller] = "refused" /\ pc'[Poller] = "none"
         \/ /\ pc[Poller] \in {"locked", "read"} /\ result'[Poller] = "failed"
            /\ pc'[Poller] = "written" /\ call' = call
         \/ pc[Poller] = "written" /\ result'[Poller] = result[Poller] /\ pc'[Poller] = "none"
      /\ UNCHANGED <<file, memory, handler>>
  BY StoreConstants DEF GiveUp, ThrowsInside, Release, Return, Typed, CallersTyped, Caller
<1>2. Linked'
  BY <1>1 DEF HInv, Linked, file, memory, handler
<1>3. Own'
  BY <1>1 DEF HInv, Own, Fresh, file, memory, handler
<1>4. Heard'
  BY <1>1 DEF HInv, Heard, file, memory, handler
<1> QED BY <1>2, <1>3, <1>4 DEF HInv

LEMMA OwnWriteKeeps ==
  ASSUME IInv, Typed, HInv, WriteRows(Poller)
  PROVE  HInv'
<1> DEFINE o == call[Poller]
           refusal == Refusal(o, snap[Poller])
<1>1. /\ pc[Poller] = "read" /\ pc'[Poller] = "written"
      /\ result'[Poller] = IF refusal = "none" THEN "ok" ELSE refusal
      /\ UNCHANGED <<call, snap, memory, handler>>
      /\ IF refusal = "none"
         THEN mounts' = Changed(o, snap[Poller]) /\ version' = version + 1
         ELSE UNCHANGED <<mounts, version>>
  BY StoreConstants DEF WriteRows, file, memory, Typed, CallersTyped, Caller
<1>2. stage = "call" /\ o.kind = "add" /\ o.target = input.topic /\ o \in Calls /\ Table(snap[Poller])
  BY <1>1 DEF HInv, Linked, Typed, CallersTyped, RowsTyped, Caller
<1>3. refusal = IF Mounted(snap[Poller], input.topic) THEN "duplicate" ELSE "none"
  BY <1>2 DEF Refusal
<1>4. Changed(o, snap[Poller]) = Append(snap[Poller], NewRow(o))
  BY <1>2 DEF Changed
<1>5. \A t : Mounted(Changed(o, snap[Poller]), t) <=> Mounted(snap[Poller], t) \/ t = input.topic
  BY <1>2, <1>4, NewRowIsRow, AppendMounts
<1> HIDE DEF o, refusal
<1>6. missed' = missed /\ missed \in Nat /\ cacheVersion \in Nat /\ input.seen \in Nat
  BY <1>1 DEF memory, Typed, TimesTyped
<1>7. Linked'
  <2>1. UNCHANGED <<mounts, version>> \/ version' = version + 1
    BY <1>1
  <2>2. version + 1 # cacheVersion
    BY DEF Typed, TimesTyped
  <2>3. cacheVersion' = version' => cache' = mounts'
    BY <1>1, <2>1, <2>2 DEF HInv, Linked, memory
  <2> QED BY <1>1, <2>3 DEF HInv, Linked, memory, handler, o
<1>8. missed <= cacheVersion =>
        snap[Poller] = mounts /\ \A t \in Topic : Mounted(mounts, t) => Mounted(cache, t)
  BY <1>1 DEF HInv, Own, Fresh, Linked
<1>9. Own'
  <2>1. SUFFICES ASSUME missed <= cacheVersion, NEW t \in Topic, Mounted(mounts', t), ~Mounted(cache, t)
                 PROVE  Fresh(t)'
    BY <1>1, <1>6 DEF Own, memory
  <2>2. refusal = "none" /\ t = input.topic
    BY <1>1, <1>3, <1>5, <1>8, <2>1
  <2> QED BY <1>1, <1>2, <2>2 DEF Fresh, handler
<1>10. Heard'
  <2>1. SUFFICES ASSUME input.wild, missed <= input.seen
                 PROVE  result'[Poller] = "ok" /\ Mounted(mounts', input.topic)
    BY <1>1, <1>2, <1>6 DEF Heard, memory, handler
  <2>2. missed <= cacheVersion
    BY <1>6, <2>1 DEF HInv, Linked
  <2>3. ~Mounted(snap[Poller], input.topic)
    BY <1>1, <1>2, <1>8, <2>1, <2>2 DEF HInv, Heard
  <2> QED BY <1>1, <1>3, <1>5, <2>3
<1> QED BY <1>7, <1>9, <1>10 DEF HInv

\* The handlers and the reload.
LEMMA CallsStoreKeeps ==
  ASSUME Typed, HInv, NEW why \in {"message", "tap", "pair"}, NEW o, NEW wild \in BOOLEAN,
         pc[Poller] = "none", stat = -1, stage = "idle",
         CallsStore(why, o, wild), o.kind = "add",
         why = "pair" => o.target = "*", wild => why = "message",
         wild => o.target \in Topic /\ ~Mounted(cache, o.target),
         UNCHANGED <<file, memory>>
  PROVE  HInv'
<1>1. /\ pc'[Poller] = "trying" /\ call'[Poller] = o /\ stage' = "call" /\ UNCHANGED <<snap, result>>
      /\ input' = [why |-> why, topic |-> o.target, dir |-> o.dir, wild |-> wild, seen |-> cacheVersion]
  BY DEF CallsStore, Starts, Typed, CallersTyped, Caller
<1>2. /\ input'.why = why /\ input'.topic = o.target /\ input'.wild = wild /\ input'.seen = cacheVersion
      /\ cacheVersion \in Nat
  BY <1>1 DEF Typed, TimesTyped
<1>3. Linked'
  BY <1>1, <1>2 DEF HInv, Linked, file, memory
<1>4. \A t : ~Fresh(t)
  BY DEF Fresh
<1>5. Own'
  BY <1>1, <1>4 DEF HInv, Own, file, memory
<1>6. Heard'
  <2>1. wild /\ missed <= cacheVersion => ~Mounted(mounts, o.target)
    BY <1>4 DEF HInv, Own
  <2> QED BY <1>1, <1>2, <2>1 DEF Heard, file, memory
<1> QED BY <1>3, <1>5, <1>6 DEF HInv

\* A handler that does not call the store has no wildcard to go by.
LEMMA AsideHeard ==
  ASSUME Typed, HInv, stat = -1, stage = "idle",
         stage' \in {"child", "ask"}, input'.wild = FALSE, input'.why # "pair",
         UNCHANGED <<file, memory, pc[Poller], call[Poller], snap[Poller], result[Poller]>>
  PROVE  HInv'
<1>1. \A t : ~Fresh(t)
  BY DEF Fresh
<1>2. Linked'
  BY DEF HInv, Linked, file, memory
<1>3. Own'
  BY <1>1 DEF HInv, Own, file, memory
<1>4. Heard'
  BY DEF Heard
<1> QED BY <1>2, <1>3, <1>4 DEF HInv

LEMMA InputKeeps ==
  ASSUME Typed, HInv,
         \/ \E t \in Topic : Message(t)
         \/ \E i \in 1..Cardinality(Dir) : Tap(i)
         \/ Pair
         \/ Commands
  PROVE  HInv'
<1>0. \A t, d : Add(t, d).kind = "add" /\ Add(t, d).target = t
  BY DEF Add
<1>1. ASSUME NEW t \in Topic, Message(t)
      PROVE  HInv'
  <2>1. stage = "idle" /\ stat = -1 /\ UNCHANGED <<file, memory>>
    BY <1>1 DEF Message, Arrives, Free
  <2>2. CASE UNCHANGED <<callers, stage, input>>
    BY <2>1, <2>2, ApartKeeps DEF Apart, memory, file, callers
  <2>3. CASE CallsStore("message", Add(t, DirOf(cache, "*")), TRUE)
    <3>1. pc[Poller] = "none"
      BY <2>3 DEF CallsStore, Starts
    <3>2. ~Mounted(cache, t)
      BY <1>1, <2>3 DEF Message, CallsStore, Free, Arrives
    <3> QED BY <1>0, <2>1, <2>3, <3>1, <3>2, CallsStoreKeeps
  <2>4. CASE stage' = "ask" /\ input' = [NoInput EXCEPT !.why = "message", !.topic = t] /\ UNCHANGED callers
    <3>1. input'.wild = FALSE /\ input'.why = "message"
      BY <2>4 DEF NoInput
    <3> QED BY <2>1, <2>4, <3>1, AsideHeard DEF callers
  <2> QED BY <1>1, <2>2, <2>3, <2>4 DEF Message
<1>2. ASSUME NEW i \in 1..Cardinality(Dir), Tap(i)
      PROVE  HInv'
  <2>1. stage = "idle" /\ stat = -1 /\ UNCHANGED <<file, memory>>
    BY <1>2 DEF Tap, Arrives, Free
  <2>2. CASE UNCHANGED <<callers, stage, input>>
    BY <2>1, <2>2, ApartKeeps DEF Apart, memory, file, callers
  <2>3. CASE CallsStore("tap", Add(card.topic, Candidates(cache)[i]), FALSE)
    <3>1. pc[Poller] = "none"
      BY <2>3 DEF CallsStore, Starts
    <3> QED BY <1>0, <2>1, <2>3, <3>1, CallsStoreKeeps
  <2> QED BY <1>2, <2>2, <2>3 DEF Tap
<1>3. CASE Pair
  <2>1. stage = "idle" /\ stat = -1 /\ UNCHANGED <<file, memory>>
    BY <1>3 DEF Pair, Arrives, Free
  <2>2. CASE UNCHANGED <<callers, stage, input>>
    BY <2>1, <2>2, ApartKeeps DEF Apart, memory, file, callers
  <2>3. CASE CallsStore("pair", Add("*", Cwd), FALSE)
    <3>1. pc[Poller] = "none"
      BY <2>3 DEF CallsStore, Starts
    <3> QED BY <1>0, <2>1, <2>3, <3>1, CallsStoreKeeps
  <2> QED BY <1>3, <2>2, <2>3 DEF Pair
<1>4. ASSUME NEW why \in {"mount", "unmount", "unpair"}, NEW o, Command(why, o)
      PROVE  HInv'
  <2>1. /\ stage = "idle" /\ stat = -1 /\ stage' = "child" /\ UNCHANGED <<file, memory>>
        /\ input' = [NoInput EXCEPT !.why = why, !.topic = o.target, !.dir = o.dir]
        /\ Starts(Child, o)
    BY <1>4 DEF Command, Arrives, Free
  <2>2. input'.wild = FALSE /\ input'.why = why
    BY <2>1 DEF NoInput
  <2>3. UNCHANGED <<pc[Poller], call[Poller], snap[Poller], result[Poller]>>
    BY <2>1, StoreConstants DEF Starts, Typed, CallersTyped, Caller
  <2> QED BY <2>1, <2>2, <2>3, AsideHeard
<1>5. CASE Commands
  BY <1>4, <1>5 DEF Commands
<1> QED BY <1>1, <1>2, <1>3, <1>5

LEMMA ReturnedKeeps ==
  ASSUME Typed, HInv, CallReturned \/ ChildReturned
  PROVE  HInv'
<1>1. UNCHANGED <<file, callers, memory>>
  BY DEF CallReturned, ChildReturned
<1>2. /\ input'.wild => input' = input
      /\ input' = input \/ (stage' = "idle" /\ input' = NoInput)
      /\ NoInput.wild = FALSE /\ NoInput.why = "none"
  BY DEF CallReturned, ChildReturned, GoesOn, NoInput
<1>3. CASE CallReturned
  <2>1. /\ stage = "call" /\ stat = -1 /\ pc[Poller] = "none" /\ stage' = AfterCall
        /\ stage' # "idle" => input' = input
    BY <1>3 DEF CallReturned, GoesOn
  <2>2. Linked'
    <3>1. stage' # "child"
      BY <2>1 DEF AfterCall
    <3> QED BY <1>1, <1>2, <2>1, <3>1 DEF HInv, Linked, file, callers, memory
  <2>3. ASSUME NEW t \in Topic, Fresh(t)
        PROVE  Fresh(t)'
    <3>1. input.why # "pair" /\ result[Poller] = "ok"
      BY <2>1, <2>3, StoreConstants DEF Fresh, HInv, Linked
    <3>2. stage' = "refresh" /\ input' = input
      BY <2>1, <3>1 DEF AfterCall
    <3> QED BY <2>3, <3>2 DEF Fresh
  <2>4. Own'
    BY <1>1, <2>1, <2>3 DEF HInv, Own, file, callers, memory
  <2>5. Heard'
    <3>1. SUFFICES ASSUME input'.wild, missed <= input.seen
                   PROVE  /\ stage' = "refresh" => Mounted(mounts, input.topic)
                          /\ stage' = "ask" => result[Poller] \in {"refused", "failed"}
      BY <1>1, <1>2, <2>1 DEF Heard, AfterCall, file, callers, memory
    <3>2. input.wild
      BY <1>2, <3>1
    <3> QED BY <2>1, <3>1, <3>2 DEF HInv, Heard, AfterCall
  <2> QED BY <2>2, <2>4, <2>5 DEF HInv
<1>4. CASE ChildReturned
  <2>1. stage = "child" /\ stage' \in {"refresh", "idle"} /\ ~input.wild
    BY <1>4 DEF ChildReturned, GoesOn, HInv, Linked
  <2>2. Linked'
    BY <1>1, <1>2, <2>1 DEF HInv, Linked, file, callers, memory
  <2>3. Own'
    BY <1>1, <2>1 DEF HInv, Own, Fresh, file, callers, memory
  <2>4. Heard'
    BY <1>2, <2>1 DEF Heard
  <2> QED BY <2>2, <2>3, <2>4 DEF HInv
<1> QED BY <1>3, <1>4

\* Where the handler goes after its reload.
LEMMA ResumeGoes ==
  ASSUME HInv, Resume
  PROVE  /\ input' = input \/ (stage' = "idle" /\ input' = NoInput /\ ~input'.wild /\ input'.why = "none")
         /\ stage # "refresh" => stage' = stage /\ (stage # "idle" => input' = input)
         /\ stage = "refresh" => stage' = IF input.why = "message" THEN "route" ELSE "idle"
BY DEF Resume, GoesOn, NoInput

\* A reload that is over: the copy is the file.
LEMMA ReloadedKeeps ==
  ASSUME Typed, HInv, Resume, stage \notin {"route", "ask", "child"}, pc[Poller] \in {"none", "trying"},
         cache' = mounts, stat' = -1, cacheVersion' \in 0..version, cacheVersion <= cacheVersion',
         missed' = missed,
         UNCHANGED <<file, callers>>
  PROVE  HInv'
<1>1. stage' # "child"
  BY ResumeGoes
<1>2. Linked'
  <2>1. input'.wild => input' = input /\ input.seen <= cacheVersion'
    BY ResumeGoes DEF HInv, Linked, Typed, TimesTyped
  <2>2. pc'[Poller] # "none" => stage' = stage /\ input' = input
    BY ResumeGoes DEF HInv, Linked, callers
  <2> QED BY <1>1, <2>1, <2>2, ResumeGoes DEF HInv, Linked, file, callers
<1>3. Own'
  BY DEF Own, file, callers
<1>4. Heard'
  <2>1. SUFFICES ASSUME input'.wild, missed <= input'.seen
                 PROVE  /\ stage' = "call" /\ pc[Poller] \notin {"none", "written"} =>
                             ~Mounted(mounts, input'.topic)
                        /\ stage' = "call" /\ pc[Poller] \in {"none", "written"} =>
                             \/ result[Poller] \in {"refused", "failed"}
                             \/ result[Poller] = "ok" /\ Mounted(mounts, input'.topic)
                        /\ stage' \in {"refresh", "route"} => Mounted(mounts, input'.topic)
                        /\ stage' = "ask" => result[Poller] \in {"refused", "failed"}
    BY DEF Heard, file, callers
  <2>2. input' = input
    BY <2>1, ResumeGoes
  <2>3. CASE stage = "refresh"
    BY <2>1, <2>2, <2>3, ResumeGoes DEF HInv, Heard
  <2>4. CASE stage # "refresh"
    BY <2>1, <2>2, <2>4, ResumeGoes DEF HInv, Heard
  <2> QED BY <2>3, <2>4
<1> QED BY <1>2, <1>3, <1>4 DEF HInv

\* A reload that failed may have missed anything.
LEMMA UnreadKeeps ==
  ASSUME Typed, HInv, Resume, stage \notin {"route", "ask", "child"}, pc[Poller] \in {"none", "trying"},
         stat # -1, stat' = -1, missed' = version, UNCHANGED <<file, callers, cache, cacheVersion>>
  PROVE  HInv'
<1>1. /\ cacheVersion < version /\ version' = version /\ cacheVersion \in Nat /\ version \in Nat
      /\ input'.wild => input' = input /\ input.seen <= cacheVersion /\ input.seen \in Nat
  BY ResumeGoes DEF HInv, Linked, Typed, TimesTyped, file
<1>2. Linked'
  <2>1. pc'[Poller] # "none" => stage' = stage /\ input' = input
    BY ResumeGoes DEF HInv, Linked, callers
  <2>2. stage' # "child"
    BY ResumeGoes
  <2> QED BY <1>1, <2>1, <2>2, ResumeGoes DEF HInv, Linked, file, callers
<1>3. ~(missed' <= cacheVersion') /\ (input'.wild => ~(missed' <= input'.seen))
  BY <1>1
<1> QED BY <1>2, <1>3 DEF HInv, Own, Heard

LEMMA PollerKeeps ==
  ASSUME Typed, HInv, PollerStep
  PROVE  HInv'
<1>1. CASE CallReturned \/ ChildReturned
  BY <1>1, ReturnedKeeps
<1>2. CASE LookAtMtime
  <2>1. /\ stat = -1 /\ stage \in {"idle", "call", "refresh"} /\ pc[Poller] \in {"none", "trying"}
        /\ UNCHANGED <<file, callers, cache, cacheVersion, missed>>
    BY <1>2 DEF LookAtMtime, MayReload
  <2>2. CASE version # cacheVersion
    <3>1. stat' = version /\ stat' # -1 /\ UNCHANGED <<stage, input>> /\ cacheVersion < version
      BY <1>2, <2>2 DEF LookAtMtime, handler, Typed, TimesTyped
    <3>2. Linked'
      BY <2>1, <3>1 DEF HInv, Linked, file, callers
    <3>3. Own' /\ Heard'
      BY <2>1, <3>1 DEF HInv, Own, Heard, Fresh, file, callers
    <3> QED BY <3>2, <3>3 DEF HInv
  <2>3. CASE version = cacheVersion
    <3>1. Resume /\ stat' = stat
      BY <1>2, <2>3 DEF LookAtMtime
    <3>2. cache' = mounts
      BY <2>1, <2>3 DEF HInv, Linked
    <3>3. cacheVersion' \in 0..version /\ cacheVersion <= cacheVersion'
      BY <2>1 DEF Typed, TimesTyped
    <3> QED BY <2>1, <3>1, <3>2, <3>3, ReloadedKeeps
  <2> QED BY <2>2, <2>3
<1>3. CASE LoadRows
  <2>1. /\ stat # -1 /\ stat' = -1 /\ Resume /\ UNCHANGED <<file, callers>>
        /\ \/ cache' = mounts /\ cacheVersion' = stat /\ missed' = missed
           \/ UNCHANGED <<cache, cacheVersion>> /\ missed' = version
    BY <1>3 DEF LoadRows
  <2>2. /\ stage \notin {"route", "ask", "child"} /\ pc[Poller] \in {"none", "trying"}
        /\ stat \in 0..version /\ cacheVersion < stat
    BY <2>1 DEF HInv, Linked, Typed, TimesTyped
  <2>3. CASE cache' = mounts /\ cacheVersion' = stat /\ missed' = missed
    BY <2>1, <2>2, <2>3, ReloadedKeeps DEF Typed, TimesTyped
  <2>4. CASE UNCHANGED <<cache, cacheVersion>> /\ missed' = version
    BY <2>1, <2>2, <2>4, UnreadKeeps
  <2> QED BY <2>1, <2>3, <2>4
<1>4. CASE Route
  <2>1. /\ stage \in {"route", "ask"} /\ stat = -1 /\ stage' = "idle" /\ input' = NoInput
        /\ UNCHANGED <<file, callers, memory>>
    BY <1>4 DEF Route, GoesOn
  <2>2. ~input'.wild /\ input'.why = "none"
    BY <2>1 DEF NoInput
  <2>3. Linked'
    BY <2>1, <2>2 DEF HInv, Linked, file, callers, memory
  <2>4. Own'
    BY <2>1 DEF HInv, Own, Fresh, file, callers, memory
  <2>5. Heard'
    BY <2>2 DEF Heard
  <2> QED BY <2>3, <2>4, <2>5 DEF HInv
<1> QED BY <1>1, <1>2, <1>3, <1>4 DEF PollerStep

LEMMA RestartHeard ==
  ASSUME Typed, Restart
  PROVE  HInv'
<1>1. /\ pc'[Poller] = "none" /\ stage' = "refresh" /\ input' = NoInput
      /\ cacheVersion' = 0 /\ stat' = -1 /\ missed' = version /\ UNCHANGED file
  BY DEF Restart, Return, Typed, CallersTyped, Caller
<1>2. ~input'.wild /\ input'.why = "none" /\ version' # 0 /\ ~(missed' <= cacheVersion')
  BY <1>1 DEF NoInput, Typed, TimesTyped, file
<1> QED BY <1>1, <1>2 DEF HInv, Linked, Own, Heard

LEMMA HStep == IInv /\ Typed /\ HInv /\ [Next]_vars => HInv'
<1> SUFFICES ASSUME IInv, Typed, HInv, [Next]_vars
             PROVE  HInv'
  OBVIOUS
<1>1. ASSUME NEW c \in Caller, CallStep(c) \/ (c # Poller /\ Dies(c))
      PROVE  HInv'
  <2>1. CASE c = Poller
    BY <1>1, <2>1, OwnLockKeeps, OwnReadKeeps, OwnReturnKeeps, OwnWriteKeeps DEF CallStep
  <2>2. CASE c # Poller
    BY <1>1, <2>2, OthersApart
  <2> QED BY <2>1, <2>2
<1>2. ASSUME NEW c \in Cli, NEW o \in CliCall, CliStarts(c, o)
      PROVE  HInv'
  <2>1. c # Poller /\ Starts(c, o) /\ UNCHANGED <<file, memory, handler>>
    BY <1>2, StoreConstants DEF CliStarts
  <2>2. UNCHANGED <<pc[Poller], call[Poller], snap[Poller], result[Poller]>>
    BY <2>1 DEF Starts, Typed, CallersTyped, Caller
  <2> QED BY <2>1, <2>2, ApartKeeps DEF Apart, memory, file, handler
<1>3. CASE LockAges \/ UNCHANGED vars
  <2>1. UNCHANGED <<file, callers, memory, handler>>
    BY <1>3 DEF LockAges, vars
  <2> QED BY <2>1, ApartKeeps DEF Apart, memory, file, callers, handler
<1> QED BY <1>1, <1>2, <1>3, InputKeeps, PollerKeeps, RestartHeard DEF Next

\* The poller's own writes never turn a message away, lock files taken or not: one
\* that found the wildcard is, only if its own call got no lock or failed, or if
\* another process wrote the file, or a reload failed, after its copy.
THEOREM OwnWritesHarmless == Spec => []OwnWritesTurnNoneAway
<1>1. Typed /\ HInv => OwnWritesTurnNoneAway
  BY DEF Typed, TimesTyped, HInv, Heard, OwnWritesTurnNoneAway, TurnedAway
<1> QED BY <1>1, Inductive, TypedHolds, HInit, HStep, PTL DEF Spec
=============================================================================
