--------------------------- MODULE FileLockProofs ---------------------------
(***************************************************************************)
(* Proofs about FileLock, for any set of processes, any subset of them     *)
(* mortal, and any limits.                                                 *)
(***************************************************************************)
EXTENDS FileLock, TLAPS

\* Until a lock file grows stale: who takes itself for the holder owns the file,
\* nobody is about to steal, and the file is young.
Orderly ==
    /\ \A p \in Procs : pc[p] \in Holding => lock # NoFile /\ lock.owner = p
    /\ \A p \in Procs : pc[p] # "rename"
    /\ lock # NoFile => lock.age <= Stale

\* The inductive invariant.
Inv == TypeOK /\ (everStale \/ Orderly)

USE LimitsAssumption

LEMMA NoFileIsNoFile == NoFile \notin File
BY FileAssumption DEF File

LEMMA AtMostType ==
    ASSUME NEW n \in Nat, NEW m \in Nat, n <= m + 1
    PROVE  AtMost(n + 1, m + 1) \in 0..(m + 1)
BY DEF AtMost

\* The files the protocol makes of a name and of a file.
LEMMA NewFile ==
    ASSUME NEW p \in Procs
    PROVE  [owner |-> p, written |-> FALSE, age |-> 0] \in File
BY DEF File

LEMMA WrittenFile ==
    ASSUME NEW f \in File
    PROVE  LET g == [f EXCEPT !.written = TRUE, !.age = 0]
           IN  g \in File /\ g.owner = f.owner /\ g.age = 0
<1>1. [f EXCEPT !.written = TRUE] \in File
  BY DEF File
<1>2. \A h \in File : [h EXCEPT !.age = 0] \in File
  BY DEF File
<1>3. [f EXCEPT !.written = TRUE, !.age = 0].owner = f.owner
  BY DEF File
<1>4. [f EXCEPT !.written = TRUE, !.age = 0].age = 0
  BY <1>1 DEF File
<1>5. QED BY <1>1, <1>2, <1>3, <1>4

LEMMA AgedFile ==
    ASSUME NEW f \in File, NEW n \in 0..(Stale + 1)
    PROVE  LET g == [f EXCEPT !.age = n]
           IN  g \in File /\ g.owner = f.owner /\ g.age = n
BY DEF File

LEMMA InitInv == Init => Inv
<1> SUFFICES ASSUME Init PROVE Inv
  OBVIOUS
<1>1. everStale \in BOOLEAN
  BY DEF Init
<1>2. TypeOK
  BY <1>1 DEF Init, TypeOK, Steps
<1>3. Orderly
  BY DEF Init, Orderly, Holding
<1>4. QED BY <1>2, <1>3 DEF Inv

LEMMA TypeStep == TypeOK /\ [Next]_vars => TypeOK'
<1> SUFFICES ASSUME TypeOK, [Next]_vars PROVE TypeOK'
  OBVIOUS
<1> USE NoFileIsNoFile DEF TypeOK, Goto, Steps
<1>1. CASE \E p \in Procs : Call(p)
  BY <1>1 DEF Call
<1>2. ASSUME NEW p \in Procs, Open(p) PROVE TypeOK'
  <2>1. lock' \in File \cup {NoFile}
    BY <1>2, NewFile DEF Open
  <2>2. QED BY <1>2, <2>1 DEF Open
<1>3. ASSUME NEW p \in Procs, Write(p) PROVE TypeOK'
  <2>1. lock' \in File \cup {NoFile}
    <3>1. CASE lock # NoFile /\ lock.owner = p
      <4>1. lock \in File /\ lock' = [lock EXCEPT !.written = TRUE, !.age = 0]
        BY <1>3, <3>1 DEF Write
      <4>2. QED BY <4>1, WrittenFile
    <3>2. CASE ~(lock # NoFile /\ lock.owner = p)
      BY <1>3, <3>2 DEF Write
    <3>3. QED BY <3>1, <3>2
  <2>2. QED BY <1>3, <2>1 DEF Write
<1>4. CASE \E p \in Procs : \/ CreateFails(p) \/ Stat(p) \/ Wait(p) \/ Fn(p)
                           \/ ReadBack(p) \/ Crash(p)
  BY <1>4 DEF CreateFails, Stat, Wait, Fn, ReadBack, Crash
<1>5. CASE \E p \in Procs : Rename(p) \/ Unlink(p)
  BY <1>5 DEF Rename, Unlink
<1>6. CASE Tick
  <2>1. lock' \in File \cup {NoFile}
    <3>1. CASE lock = NoFile
      BY <1>6, <3>1 DEF Tick
    <3>2. CASE lock # NoFile
      <4>1. lock \in File /\ lock.age \in 0..(Stale + 1)
        BY <3>2 DEF File
      <4>2. lock' = [lock EXCEPT !.age = AtMost(lock.age + 1, Stale + 1)]
        BY <1>6, <3>2, <4>1 DEF Tick, File
      <4>3. AtMost(lock.age + 1, Stale + 1) \in 0..(Stale + 1)
        BY <4>1, AtMostType
      <4>4. QED BY <4>1, <4>2, <4>3, AgedFile
    <3>3. QED BY <3>1, <3>2
  <2>2. waited' \in [Procs -> 0..(Timeout + 1)]
    <3>1. \A p \in Procs : AtMost(waited[p] + 1, Timeout + 1) \in 0..(Timeout + 1)
      BY AtMostType
    <3>2. QED BY <1>6, <3>1 DEF Tick
  <2>3. QED BY <1>6, <2>1, <2>2 DEF Tick
<1>7. CASE UNCHANGED vars
  BY <1>7 DEF vars
<1>8. QED BY <1>1, <1>2, <1>3, <1>4, <1>5, <1>6, <1>7 DEF Next, Work

LEMMA OrderlyStep == TypeOK /\ Orderly /\ [Next]_vars => everStale' \/ Orderly'
<1> SUFFICES ASSUME TypeOK, Orderly, [Next]_vars PROVE everStale' \/ Orderly'
  OBVIOUS
<1> USE NoFileIsNoFile DEF TypeOK, Orderly, Goto, Holding
<1>1. CASE \E p \in Procs : Call(p)
  BY <1>1 DEF Call
<1>2. ASSUME NEW p \in Procs, Open(p) PROVE Orderly'
  \* Whoever finds no file finds no holder either.
  <2>1. CASE lock = NoFile
    <3>1. /\ pc' = [pc EXCEPT ![p] = "write"]
          /\ lock' = [owner |-> p, written |-> FALSE, age |-> 0]
      BY <1>2, <2>1 DEF Open
    <3>2. \A q \in Procs : pc[q] \notin Holding
      BY <2>1
    <3>3. lock' \in File /\ lock' # NoFile /\ lock'.owner = p /\ lock'.age = 0
      BY <3>1, NewFile
    <3>4. QED BY <3>1, <3>2, <3>3
  <2>2. CASE lock # NoFile
    BY <1>2, <2>2 DEF Open
  <2>3. QED BY <2>1, <2>2
<1>3. ASSUME NEW p \in Procs, Write(p) PROVE Orderly'
  <2>1. lock \in File /\ lock.owner = p
    BY <1>3 DEF Write
  <2>2. lock' = [lock EXCEPT !.written = TRUE, !.age = 0]
    BY <1>3, <2>1 DEF Write
  <2>3. lock' \in File /\ lock'.owner = p /\ lock'.age = 0
    BY <2>1, <2>2, WrittenFile
  <2>4. QED BY <1>3, <2>1, <2>3 DEF Write
\* No file is stale, so nobody goes on to steal.
<1>4. CASE \E p \in Procs : Stat(p)
  BY <1>4 DEF Stat, File
<1>5. CASE \E p \in Procs : CreateFails(p) \/ Wait(p) \/ Fn(p) \/ ReadBack(p) \/ Crash(p)
  BY <1>5 DEF CreateFails, Wait, Fn, ReadBack, Crash
<1>6. CASE \E p \in Procs : Rename(p)
  BY <1>6 DEF Rename
\* Who unlinks owns the file, so nobody else holds the lock.
<1>7. ASSUME NEW p \in Procs, Unlink(p) PROVE Orderly'
  <2>1. \A q \in Procs : pc[q] \in Holding => q = p
    BY <1>7 DEF Unlink
  <2>2. QED BY <1>7, <2>1 DEF Unlink
<1>8. CASE Tick
  <2>1. CASE lock = NoFile
    BY <1>8, <2>1 DEF Tick
  <2>2. CASE lock # NoFile /\ lock.age >= Stale
    BY <1>8, <2>2 DEF Tick
  <2>3. CASE lock # NoFile /\ lock.age < Stale
    <3>1. lock \in File
      BY <2>3
    <3>2. lock' = [lock EXCEPT !.age = AtMost(lock.age + 1, Stale + 1)] /\ pc' = pc
      BY <1>8, <2>3, <3>1 DEF Tick, File
    <3>3. AtMost(lock.age + 1, Stale + 1) = lock.age + 1
      BY <2>3, <3>1 DEF AtMost, File
    <3>4. lock.age + 1 \in 0..(Stale + 1) /\ lock.age + 1 <= Stale
      BY <2>3, <3>1 DEF File
    <3>5. lock' \in File /\ lock'.owner = lock.owner /\ lock'.age <= Stale
      BY <3>1, <3>2, <3>3, <3>4, AgedFile
    <3>6. QED BY <2>3, <3>2, <3>5
  <2>4. QED BY <2>1, <2>2, <2>3 DEF File
<1>9. CASE UNCHANGED vars
  BY <1>9 DEF vars
<1>10. QED BY <1>1, <1>2, <1>3, <1>4, <1>5, <1>6, <1>7, <1>8, <1>9 DEF Next, Work

\* Once a file has been stale it has been: nothing resets the history.
LEMMA StaleStays == everStale /\ [Next]_vars => everStale'
BY DEF Next, Work, Call, Open, Write, CreateFails, Stat, Rename, Wait, Fn, ReadBack,
       Unlink, Crash, Tick, vars

LEMMA NextInv == Inv /\ [Next]_vars => Inv'
BY TypeStep, OrderlyStep, StaleStays DEF Inv

\* The inductive invariant holds in every reachable state.
THEOREM Invariance == Spec => []Inv
<1>1. QED BY InitInv, NextInv, PTL DEF Spec

\* Type correctness of the lock protocol.
THEOREM TypeCorrect == Spec => []TypeOK
<1>1. Inv => TypeOK
  BY DEF Inv
<1>2. QED BY <1>1, Invariance, PTL

\* Mutual exclusion for any number of processes, live or dying: two holders
\* require that some lock file has outlived lockStaleMs (file-lock.mjs:42-89).
THEOREM Exclusion == Spec => []ExcludesUntilStale
<1>1. Inv => ExcludesUntilStale
  BY DEF Inv, Orderly, ExcludesUntilStale, MutualExclusion
<1>2. QED BY <1>1, Invariance, PTL

=============================================================================
