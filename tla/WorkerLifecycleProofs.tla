------------------------ MODULE WorkerLifecycleProofs ------------------------
(***************************************************************************)
(* Proofs about WorkerLifecycle, for any number of starters, stoppers and  *)
(* daemons and any timing constants.                                       *)
(***************************************************************************)
EXTENDS WorkerLifecycle, FiniteSetTheorems, TLAPS

USE TimesAssumption, BoundAssumption, NoneAssumption

LEMMA BeatRange == OldestBeat \in Nat /\ 0 \in 0..OldestBeat
BY DEF OldestBeat

-----------------------------------------------------------------------------
(* What a step does to the daemons.                                        *)

\* E is a well-formed table of daemons, in which whoever was born in D is born.
Grows(D, E) ==
    /\ E \in [Daemons -> Daemon]
    /\ \A v \in Daemons : D[v].life # "unborn" => E[v].life # "unborn"

Born(w) == daemon[w].life # "unborn"

LEMMA NoDaemonIsNone == None \notin Daemons
BY DEF Daemons

LEMMA GrowsRefl ==
    ASSUME NEW D \in [Daemons -> Daemon]
    PROVE  Grows(D, D)
BY DEF Grows

\* A change of one daemon.
LEMMA GrowsAt ==
    ASSUME NEW D \in [Daemons -> Daemon], NEW w \in Daemons, NEW d \in Daemon,
           D[w].life # "unborn" => d.life # "unborn"
    PROVE  Grows(D, [D EXCEPT ![w] = d])
BY DEF Grows

LEMMA RemovedGrows ==
    ASSUME NEW D \in [Daemons -> Daemon], NEW w \in Daemons
    PROVE  Grows(D, Removed(D, w)) /\ \A v \in Daemons : Removed(D, w)[v].life = D[v].life
<1>1. D[w] \in Daemon /\ 0 \in 0..OldestBeat
  BY BeatRange DEF Daemon
<1>2. Removed(D, w) =
        [D EXCEPT ![w] = [D[w] EXCEPT !.file = FALSE,
                                      !.beatAge = IF D[w].life = "up" THEN D[w].beatAge ELSE 0]]
  BY <1>1 DEF Removed, Daemon
<1>3. [D[w] EXCEPT !.file = FALSE,
                   !.beatAge = IF D[w].life = "up" THEN D[w].beatAge ELSE 0] \in Daemon
  BY <1>1 DEF Daemon
<1>4. QED BY <1>1, <1>2, <1>3 DEF Grows, Daemon

LEMMA SignalledGrows ==
    ASSUME TypeOK, NEW w \in Daemons, NEW l \in Lives \ {"unborn"}
    PROVE  Grows(daemon, Signalled(w, l))
<1>1. daemon[w] \in Daemon /\ 0 \in 0..OldestBeat
  BY BeatRange DEF Daemon, TypeOK
<1> DEFINE age == IF l = daemon[w].life THEN daemon[w].age ELSE 0
<1> DEFINE beat == IF daemon[w].file THEN daemon[w].beatAge ELSE 0
<1>2. age \in Nat /\ beat \in 0..OldestBeat
  BY <1>1 DEF Daemon
<1>3. Signalled(w, l) =
        [daemon EXCEPT ![w] = [daemon[w] EXCEPT !.life = l, !.age = age, !.beatAge = beat]]
  BY <1>1 DEF Signalled, Daemon, TypeOK
<1> HIDE DEF age, beat
<1>4. [daemon[w] EXCEPT !.life = l, !.age = age, !.beatAge = beat] \in Daemon
  BY <1>1, <1>2 DEF Daemon
<1>5. [daemon[w] EXCEPT !.life = l, !.age = age, !.beatAge = beat].life # "unborn"
  BY <1>1 DEF Daemon
<1> DEFINE d == [daemon[w] EXCEPT !.life = l, !.age = age, !.beatAge = beat]
<1>6. d \in Daemon /\ d.life # "unborn" /\ daemon \in [Daemons -> Daemon]
  BY <1>4, <1>5 DEF TypeOK
<1>7. Signalled(w, l) = [daemon EXCEPT ![w] = d]
  BY <1>3
<1> HIDE DEF d
<1>8. Grows(daemon, [daemon EXCEPT ![w] = d])
  BY <1>6, GrowsAt
<1>9. QED BY <1>7, <1>8

\* A signal to nobody.
LEMMA SignalledUnborn ==
    ASSUME TypeOK, NEW w \in Daemons
    PROVE  Grows(daemon, Signalled(w, daemon[w].life))
<1>1. daemon[w] \in Daemon /\ 0 \in 0..OldestBeat
  BY BeatRange DEF Daemon, TypeOK
<1> DEFINE d == [daemon[w] EXCEPT !.beatAge = IF daemon[w].file THEN daemon[w].beatAge ELSE 0]
<1>2. d \in Daemon /\ d.life = daemon[w].life
  BY <1>1 DEF Daemon
<1>3. Signalled(w, daemon[w].life) = [daemon EXCEPT ![w] = d]
  BY <1>1 DEF Signalled, Daemon, TypeOK
<1> HIDE DEF d
<1>4. daemon \in [Daemons -> Daemon]
  BY DEF TypeOK
<1>5. QED BY <1>2, <1>3, <1>4, GrowsAt

LEMMA TermedGrows ==
    ASSUME TypeOK, NEW w \in Daemons, Born(w), NEW l \in Termed(w)
    PROVE  Grows(daemon, Signalled(w, l))
<1>1. l \in Lives \ {"unborn"}
  BY DEF Termed, Born, TypeOK, Daemon, Lives
<1>2. QED BY <1>1, SignalledGrows

LEMMA KilledGrows ==
    ASSUME TypeOK, NEW w \in Daemons
    PROVE  Grows(daemon, Killed(w))
BY SignalledGrows, GrowsRefl DEF Killed, Lives, TypeOK

LEMMA SpawnedGrows ==
    ASSUME TypeOK, NEW w \in Daemons, NEW wants \in BOOLEAN,
           NEW l \in Lives \ {"unborn"}
    PROVE  /\ Grows(daemon, Spawned(w, wants, l))
           /\ Spawned(w, wants, l)[w].life = l
<1>1. Cleared \in [Daemons -> Daemon] /\ Grows(daemon, Cleared)
  BY RemovedGrows, GrowsRefl DEF Cleared, TypeOK, Grows, StateFile, Opt
<1>2. Cleared[w] \in Daemon
  BY <1>1
<1> DEFINE d == [Cleared[w] EXCEPT !.life = l, !.writes = wants]
<1>3. d \in Daemon /\ d.life = l
  <2>1. [Cleared[w] EXCEPT !.life = l] \in Daemon
    BY <1>2 DEF Daemon
  <2>2. \A e \in Daemon : [e EXCEPT !.writes = wants] \in Daemon
    BY DEF Daemon
  <2>3. d = [[Cleared[w] EXCEPT !.life = l] EXCEPT !.writes = wants]
    BY <1>2 DEF Daemon
  <2>4. d.life = l
    BY <1>2 DEF Daemon
  <2>5. QED BY <2>1, <2>2, <2>3, <2>4
<1>4. Spawned(w, wants, l) = [Cleared EXCEPT ![w] = d]
  BY DEF Spawned
<1> HIDE DEF d
<1>5. Grows(Cleared, Spawned(w, wants, l))
  <2>1. Cleared \in [Daemons -> Daemon] /\ d \in Daemon /\ d.life # "unborn"
    BY <1>1, <1>3
  <2>2. Grows(Cleared, [Cleared EXCEPT ![w] = d])
    BY <2>1, GrowsAt
  <2>3. QED BY <1>4, <2>2
<1>6. Grows(daemon, Spawned(w, wants, l))
  BY <1>1, <1>5 DEF Grows
<1>7. Spawned(w, wants, l)[w] = d
  BY <1>1, <1>4
<1>8. Spawned(w, wants, l)[w].life = l
  BY <1>3, <1>7
<1>9. QED BY <1>6, <1>8


LEMMA BeatGrows ==
    ASSUME TypeOK, NEW w \in Daemons, Beat(w)
    PROVE  Grows(daemon, daemon')
<1>1. daemon[w] \in Daemon /\ 0 \in 0..OldestBeat
  BY BeatRange DEF Daemon, TypeOK
<1> DEFINE d == [daemon[w] EXCEPT !.life = "up", !.age = 0, !.file = TRUE, !.beatAge = 0]
<1>2. d \in Daemon /\ d.life # "unborn"
  BY <1>1 DEF Daemon, Lives
<1>3. daemon' = [daemon EXCEPT ![w] = d]
  BY <1>1 DEF Beat, Daemon, TypeOK
<1> HIDE DEF d
<1>4. daemon \in [Daemons -> Daemon]
  BY DEF TypeOK
<1>5. QED BY <1>2, <1>3, <1>4, GrowsAt

LEMMA RecycleGrows ==
    ASSUME TypeOK, NEW w \in Daemons, Recycle(w)
    PROVE  Grows(daemon, daemon')
<1>1. daemon[w] \in Daemon
  BY DEF TypeOK
<1> DEFINE d == [daemon[w] EXCEPT !.life = "recycled", !.age = 0]
<1>2. d \in Daemon /\ d.life # "unborn"
  BY <1>1 DEF Daemon, Lives
<1>3. daemon' = [daemon EXCEPT ![w] = d]
  BY <1>1 DEF Recycle, Daemon, TypeOK
<1> HIDE DEF d
<1>4. daemon \in [Daemons -> Daemon]
  BY DEF TypeOK
<1>5. QED BY <1>2, <1>3, <1>4, GrowsAt

LEMMA OlderType ==
    ASSUME NEW n \in Nat, NEW running, NEW limit \in Nat
    PROVE  /\ Older(n, running, limit) \in Nat
           /\ n <= limit => Older(n, running, limit) <= limit
BY DEF Older

LEMMA TickGrows ==
    ASSUME TypeOK, Tick
    PROVE  Grows(daemon, daemon')
<1> DEFINE age(v) == IF daemon[v].life = "booting" THEN daemon[v].age + 1
                     ELSE Older(daemon[v].age, daemon[v].life = "dead", RecycleTime)
<1> DEFINE beat(v) == Older(daemon[v].beatAge, daemon[v].life = "up" \/ daemon[v].file,
                            OldestBeat)
<1>1. daemon' = [v \in Daemons |-> [daemon[v] EXCEPT !.age = age(v), !.beatAge = beat(v)]]
  BY DEF Tick, TypeOK, Daemon
<1>2. ASSUME NEW v \in Daemons
      PROVE  daemon'[v] \in Daemon /\ daemon'[v].life = daemon[v].life
  <2>1. daemon[v] \in Daemon
    BY DEF TypeOK
  <2>2. age(v) \in Nat
    BY <2>1, OlderType DEF Daemon
  <2>3. beat(v) \in 0..OldestBeat
    <3>1. daemon[v].beatAge \in Nat /\ daemon[v].beatAge <= OldestBeat
      BY <2>1 DEF Daemon
    <3>2. beat(v) \in Nat /\ beat(v) <= OldestBeat
      BY <3>1, BeatRange, OlderType
    <3> HIDE DEF beat
    <3>3. QED BY <3>2, BeatRange
  <2>4. daemon'[v] = [daemon[v] EXCEPT !.age = age(v), !.beatAge = beat(v)]
    BY <1>1
  <2> HIDE DEF age, beat
  <2>5. QED BY <2>1, <2>2, <2>3, <2>4 DEF Daemon
<1>3. QED BY <1>1, <1>2 DEF Grows

-----------------------------------------------------------------------------
(* Type correctness.                                                       *)

\* TypeOK after a step follows from the types and the three cross conditions.
LEMMA TypeFrom ==
    ASSUME TypeOK, Grows(daemon, daemon'),
           state' \in Opt(StateFile),
           state' # None => state' = state \/ daemon'[state'.worker].life # "unborn"
                            \/ (state # None /\ state'.worker = state.worker),
           starter' \in [Starters -> Ensuring],
           \A p \in Starters : starter'[p].at # "idle" => starter'[p].child # None,
           stopper' \in [Stoppers -> Stopping],
           \A q \in Stoppers : stopper'[q].at # "idle" => stopper'[q].worker # None,
           handedOut' \subseteq Daemons, abandoned' \subseteq Daemons
    PROVE  TypeOK' /\ Grows(daemon, daemon')
<1>1. state' # None => daemon'[state'.worker].life # "unborn"
  <2>1. CASE state' # None /\ state # None /\ state'.worker = state.worker
    <3>1. state.worker \in Daemons
      BY <2>1 DEF TypeOK, Opt, StateFile
    <3>2. QED BY <2>1, <3>1 DEF Grows, TypeOK
  <2>2. QED BY <2>1
<1>2. QED BY <1>1 DEF TypeOK, Grows

\* The steps of an ensure change one record of `starter`.
LEMMA EnsuringAt ==
    ASSUME TypeOK, NEW p \in Starters, NEW e \in Ensuring,
           e.at # "idle" => e.child # None,
           starter' = [starter EXCEPT ![p] = e]
    PROVE  /\ starter' \in [Starters -> Ensuring]
           /\ \A o \in Starters : starter'[o].at # "idle" => starter'[o].child # None
BY DEF TypeOK

LEMMA StoppingAt ==
    ASSUME TypeOK, NEW q \in Stoppers, NEW e \in Stopping,
           e.at # "idle" => e.worker # None,
           stopper' = [stopper EXCEPT ![q] = e]
    PROVE  /\ stopper' \in [Stoppers -> Stopping]
           /\ \A o \in Stoppers : stopper'[o].at # "idle" => stopper'[o].worker # None
BY DEF TypeOK

LEMMA IdleEnsuring == [at |-> "idle", child |-> None, age |-> 0] \in Ensuring
BY DEF Ensuring, Opt

LEMMA ReturnedType ==
    ASSUME TypeOK, NEW p \in Starters, NEW D \in SUBSET Daemons, Returned(p, D)
    PROVE  /\ starter' \in [Starters -> Ensuring]
           /\ \A o \in Starters : starter'[o].at # "idle" => starter'[o].child # None
           /\ handedOut' \subseteq Daemons
<1>1. starter' = [starter EXCEPT ![p] = [at |-> "idle", child |-> None, age |-> 0]]
  BY DEF Returned
<1>2. QED BY <1>1, IdleEnsuring, EnsuringAt DEF Returned, TypeOK

\* One that moves on keeps its child.
LEMMA EnsuringMoves ==
    ASSUME TypeOK, NEW p \in Starters, starter[p].at # "idle",
           NEW at \in {"ready", "late", "kill", "killing"},
           \/ starter' = [starter EXCEPT ![p].at = at]
           \/ starter' = [starter EXCEPT ![p].at = at, ![p].age = 0]
    PROVE  /\ starter' \in [Starters -> Ensuring]
           /\ \A o \in Starters : starter'[o].at # "idle" => starter'[o].child # None
<1>1. starter[p] \in Ensuring /\ starter[p].child # None
  BY DEF TypeOK
<1>2. CASE starter' = [starter EXCEPT ![p].at = at]
  <2>1. [starter[p] EXCEPT !.at = at] \in Ensuring
    BY <1>1 DEF Ensuring
  <2>2. [starter[p] EXCEPT !.at = at].child = starter[p].child
    BY <1>1 DEF Ensuring
  <2>3. starter' = [starter EXCEPT ![p] = [starter[p] EXCEPT !.at = at]]
    BY <1>2 DEF TypeOK
  <2>4. QED BY <1>1, <2>1, <2>2, <2>3, EnsuringAt
<1>3. CASE starter' = [starter EXCEPT ![p].at = at, ![p].age = 0]
  <2>1. [starter[p] EXCEPT !.at = at, !.age = 0] \in Ensuring
    BY <1>1 DEF Ensuring
  <2>2. [starter[p] EXCEPT !.at = at, !.age = 0].child = starter[p].child
    BY <1>1 DEF Ensuring
  <2>3. starter' = [starter EXCEPT ![p] = [starter[p] EXCEPT !.at = at, !.age = 0]]
    BY <1>3, <1>1 DEF TypeOK, Ensuring
  <2> DEFINE e == [starter[p] EXCEPT !.at = at, !.age = 0]
  <2> HIDE DEF e
  <2>4. e \in Ensuring /\ e.child = starter[p].child /\ starter' = [starter EXCEPT ![p] = e]
    BY <2>1, <2>2, <2>3 DEF e
  <2>5. QED BY <1>1, <2>4, EnsuringAt
<1>4. QED BY <1>2, <1>3

LEMMA StoppingMoves ==
    ASSUME TypeOK, NEW q \in Stoppers, stopper[q].at # "idle",
           NEW at \in {"grace", "unlink", "rm"}, Goes(q, at)
    PROVE  /\ stopper' \in [Stoppers -> Stopping]
           /\ \A o \in Stoppers : stopper'[o].at # "idle" => stopper'[o].worker # None
<1>1. stopper[q] \in Stopping /\ stopper[q].worker # None
  BY DEF TypeOK
<1> DEFINE e == [stopper[q] EXCEPT !.at = at, !.sample = 0, !.age = 0]
<1>2. e \in Stopping /\ e.worker = stopper[q].worker
  <2>1. 0 \in 0..OldestBeat
    BY BeatRange
  <2>2. e \in Stopping
    BY <1>1, <2>1 DEF Stopping
  <2>3. e.worker = stopper[q].worker
    BY <1>1 DEF Stopping
  <2>4. QED BY <2>2, <2>3
<1>3. stopper' = [stopper EXCEPT ![q] = e]
  BY <1>1 DEF Goes, TypeOK, Stopping
<1> HIDE DEF e
<1>4. QED BY <1>1, <1>2, <1>3, StoppingAt

LEMMA StateWorker ==
    ASSUME TypeOK, state # None
    PROVE  state \in StateFile /\ state.worker \in Daemons /\ Born(state.worker)
BY DEF TypeOK, Opt, StateFile, Born

LEMMA Child ==
    ASSUME TypeOK, NEW p \in Starters, starter[p].at # "idle"
    PROVE  starter[p].child \in Daemons
BY DEF TypeOK, Ensuring, Opt

LEMMA StopWorker ==
    ASSUME TypeOK, NEW q \in Stoppers, stopper[q].at # "idle"
    PROVE  stopper[q].worker \in Daemons
BY DEF TypeOK, Stopping, Opt

LEMMA SameDaemons ==
    ASSUME TypeOK, UNCHANGED daemon
    PROVE  Grows(daemon, daemon')
BY GrowsRefl DEF TypeOK

LEMMA RunningState ==
    ASSUME TypeOK, state # None, state' = [state EXCEPT !.status = "running", !.age = 0]
    PROVE  state' \in StateFile /\ state'.worker = state.worker /\ state'.status = "running"
<1>1. state \in StateFile /\ 0 \in 0..StartStale
  BY StateWorker
<1>2. QED BY <1>1 DEF StateFile

LEMMA CallType ==
    ASSUME TypeOK, NEW p \in Starters, NEW wants \in BOOLEAN,
           Reuse(p, wants) \/ BackOff(p, wants) \/ Adopt(p, wants)
    PROVE  TypeOK' /\ Grows(daemon, daemon')
<1>1. CASE Reuse(p, wants)
  <2>1. state # None /\ \E D \in SUBSET Daemons : Returned(p, D)
    BY <1>1, StateWorker DEF Reuse, Serves
  <2>2. UNCHANGED <<state, daemon, stopper, abandoned>>
    BY <1>1 DEF Reuse
  <2>3. QED BY <2>1, <2>2, SameDaemons, ReturnedType, TypeFrom DEF TypeOK
<1>2. CASE BackOff(p, wants)
  <2>1. Returned(p, {}) /\ UNCHANGED <<state, daemon, stopper, abandoned>>
    BY <1>2 DEF BackOff
  <2>2. {} \in SUBSET Daemons
    OBVIOUS
  <2>3. QED BY <2>1, <2>2, SameDaemons, ReturnedType, TypeFrom DEF TypeOK
<1>3. CASE Adopt(p, wants)
  <2>1. state # None /\ {state.worker} \in SUBSET Daemons /\ Returned(p, {state.worker})
    BY <1>3, StateWorker DEF Adopt, Adoptable
  <2>2. /\ state' = [state EXCEPT !.status = "running", !.age = 0]
        /\ UNCHANGED <<daemon, stopper, abandoned>>
    BY <1>3 DEF Adopt
  <2>3. state' \in Opt(StateFile) /\ state'.worker = state.worker
    BY <2>1, <2>2, RunningState DEF Opt
  <2>4. QED BY <2>1, <2>2, <2>3, SameDaemons, ReturnedType, TypeFrom DEF TypeOK
<1>4. QED BY <1>1, <1>2, <1>3

LEMMA SpawnType ==
    ASSUME TypeOK, NEW p \in Starters, NEW w \in Daemons, NEW wants \in BOOLEAN,
           Spawn(p, w, wants) \/ SpawnUnrecorded(p, w, wants)
    PROVE  TypeOK' /\ Grows(daemon, daemon')
<1>1. CASE Spawn(p, w, wants)
  <2>1. daemon' = Spawned(w, wants, "booting")
    BY <1>1 DEF Spawn
  <2>2. Grows(daemon, daemon') /\ daemon'[w].life = "booting"
    BY <2>1, SpawnedGrows DEF Lives
  <2>3. state' \in Opt(StateFile) /\ state'.worker = w
    BY <1>1 DEF Spawn, Opt, StateFile
  <2>4. [at |-> "waiting", child |-> w, age |-> 0] \in Ensuring /\ w # None
    BY NoDaemonIsNone DEF Ensuring, Opt
  <2>5. /\ starter' \in [Starters -> Ensuring]
        /\ \A o \in Starters : starter'[o].at # "idle" => starter'[o].child # None
    BY <1>1, <2>4, EnsuringAt DEF Spawn
  <2>6. UNCHANGED <<stopper, handedOut, abandoned>>
    BY <1>1 DEF Spawn
  <2>7. QED BY <2>2, <2>3, <2>5, <2>6, TypeFrom DEF TypeOK
<1>2. CASE SpawnUnrecorded(p, w, wants)
  <2>1. daemon' = Spawned(w, wants, "booting") \/ daemon' = Spawned(w, wants, "dead")
    BY <1>2 DEF SpawnUnrecorded
  <2>2. Grows(daemon, daemon')
    BY <2>1, SpawnedGrows DEF Lives
  <2>3. Returned(p, {}) /\ UNCHANGED <<state, stopper>> /\ abandoned' \subseteq Daemons
    BY <1>2 DEF SpawnUnrecorded, TypeOK
  <2>4. {} \in SUBSET Daemons
    OBVIOUS
  <2>5. QED BY <2>2, <2>3, <2>4, ReturnedType, TypeFrom DEF TypeOK
<1>3. QED BY <1>1, <1>2

\* What the steps after the spawn do to the files.
LEMMA FinishType ==
    ASSUME TypeOK, NEW p \in Starters,
           Finish(p) \/ EnsureLockTimeout(p) \/ StarterCrashes(p)
    PROVE  TypeOK' /\ Grows(daemon, daemon')
<1> DEFINE c == starter[p].child
<1>0. starter[p].at # "idle" /\ c \in Daemons
  <2>1. starter[p].at # "idle"
    BY DEF Finish, AwaitReady, MarkRunning, CleanUp, KillChild, Escalate, ChildExited,
           EnsureLockTimeout, StarterCrashes
  <2>2. QED BY <2>1, Child
<1>e. {} \in SUBSET Daemons /\ {c} \in SUBSET Daemons
  BY <1>0
<1>1. CASE AwaitReady(p)
  <2>1. \/ starter' = [starter EXCEPT ![p].at = "ready"]
        \/ starter' = [starter EXCEPT ![p].at = "late"]
    BY <1>1 DEF AwaitReady
  <2>2. UNCHANGED <<state, daemon, stopper, handedOut, abandoned>>
    BY <1>1 DEF AwaitReady
  <2>3. QED BY <1>0, <2>1, <2>2, SameDaemons, EnsuringMoves, TypeFrom DEF TypeOK
<1>2. CASE MarkRunning(p)
  <2>1. UNCHANGED <<daemon, stopper, abandoned>>
    BY <1>2 DEF MarkRunning
  <2>2. CASE StillStarting(p)
    <3>1. /\ state # None /\ state' = [state EXCEPT !.status = "running", !.age = 0]
          /\ Returned(p, {c})
      BY <1>2, <2>2 DEF MarkRunning, StillStarting
    <3>2. state' \in Opt(StateFile) /\ state'.worker = state.worker
      BY <3>1, RunningState DEF Opt
    <3>3. QED BY <1>e, <2>1, <3>1, <3>2, SameDaemons, ReturnedType, TypeFrom DEF TypeOK
  <2>3. CASE ~StillStarting(p)
    <3>1. Returned(p, {}) /\ UNCHANGED state
      BY <1>2, <2>3 DEF MarkRunning
    <3>2. QED BY <1>e, <2>1, <3>1, SameDaemons, ReturnedType, TypeFrom DEF TypeOK
  <2>4. QED BY <2>2, <2>3
<1>3. CASE CleanUp(p)
  <2>1. UNCHANGED <<daemon, stopper, abandoned>>
    BY <1>3 DEF CleanUp
  <2>2. CASE StillStarting(p)
    <3>1. /\ state' = None /\ starter' = [starter EXCEPT ![p].at = "kill"]
          /\ UNCHANGED handedOut
      BY <1>3, <2>2 DEF CleanUp
    <3>2. state' \in Opt(StateFile)
      BY <3>1 DEF Opt
    <3>3. QED BY <1>0, <2>1, <3>1, <3>2, SameDaemons, EnsuringMoves, TypeFrom DEF TypeOK
  <2>3. CASE ~StillStarting(p)
    <3>1. Returned(p, {}) /\ UNCHANGED state
      BY <1>3, <2>3 DEF CleanUp
    <3>2. QED BY <1>e, <2>1, <3>1, SameDaemons, ReturnedType, TypeFrom DEF TypeOK
  <2>4. QED BY <2>2, <2>3
<1>4. CASE KillChild(p)
  <2>1. UNCHANGED <<state, stopper, handedOut, abandoned>>
    BY <1>4 DEF KillChild
  <2>2. starter' = [starter EXCEPT ![p].at = "killing", ![p].age = 0]
    BY <1>4 DEF KillChild
  <2>3. PICK l \in Termed(c) : daemon' = Signalled(c, l)
    BY <1>4 DEF KillChild
  <2>4. CASE Born(c)
    BY <1>0, <2>1, <2>2, <2>3, <2>4, TermedGrows, EnsuringMoves, TypeFrom DEF TypeOK
  <2>5. CASE ~Born(c)
    <3>1. l = daemon[c].life
      BY <2>5 DEF Termed, Born
    <3>2. Grows(daemon, Signalled(c, l))
      BY <1>0, <2>5, <3>1, SignalledUnborn
    <3>3. QED BY <1>0, <2>1, <2>2, <2>3, <3>2, EnsuringMoves, TypeFrom DEF TypeOK
  <2>6. QED BY <2>4, <2>5
<1>5. CASE Escalate(p)
  <2>1. UNCHANGED <<state, starter, stopper, handedOut, abandoned>>
    BY <1>5 DEF Escalate
  <2>2. Grows(daemon, daemon')
    BY <1>0, <1>5, KilledGrows DEF Escalate
  <2>3. QED BY <2>1, <2>2, TypeFrom DEF TypeOK
<1>6. CASE ChildExited(p)
  <2>1. Returned(p, {}) /\ UNCHANGED <<state, stopper, abandoned>>
    BY <1>6 DEF ChildExited
  <2>2. Grows(daemon, daemon')
    BY <1>0, <1>6, RemovedGrows DEF ChildExited, TypeOK
  <2>3. QED BY <1>e, <2>1, <2>2, ReturnedType, TypeFrom DEF TypeOK
<1>7. CASE EnsureLockTimeout(p)
  <2>1. Returned(p, {}) /\ UNCHANGED <<state, daemon, stopper, abandoned>>
    BY <1>7 DEF EnsureLockTimeout
  <2>2. QED BY <1>e, <2>1, SameDaemons, ReturnedType, TypeFrom DEF TypeOK
<1>8. CASE StarterCrashes(p)
  <2>1. /\ Returned(p, {}) /\ UNCHANGED <<state, daemon, stopper>>
        /\ abandoned' \subseteq Daemons
    BY <1>0, <1>8 DEF StarterCrashes, TypeOK
  <2>2. QED BY <1>e, <2>1, SameDaemons, ReturnedType, TypeFrom DEF TypeOK
<1>9. QED BY <1>1, <1>2, <1>3, <1>4, <1>5, <1>6, <1>7, <1>8 DEF Finish

LEMMA StopType ==
    ASSUME TypeOK, NEW q \in Stoppers, Stop(q) \/ StopFails(q)
    PROVE  TypeOK' /\ Grows(daemon, daemon')
<1> DEFINE w == stopper[q].worker
<1>0. UNCHANGED <<starter, handedOut>>
  BY DEF Stop, StopRead, StopProbe, StopSample, StopKill, StopUnlink, StopRemoveBeat, StopFails
<1>w. stopper[q].at # "idle" => w \in Daemons
  BY StopWorker
<1>i. [at |-> "idle", worker |-> None, sample |-> 0, age |-> 0] \in Stopping
  <2>1. 0 \in 0..OldestBeat
    BY BeatRange
  <2>2. QED BY <2>1 DEF Stopping, Opt
<1>g. stopper[q] \in Stopping
  BY DEF TypeOK
<1>1. CASE StopRead(q)
  <2>1. state # None /\ UNCHANGED <<state, daemon, abandoned>>
    BY <1>1 DEF StopRead
  <2> DEFINE e == [stopper[q] EXCEPT !.at = "probe", !.worker = state.worker]
  <2>2. e \in Stopping /\ e.worker = state.worker
    BY <1>g, <2>1, StateWorker DEF Stopping, Opt
  <2>3. stopper' = [stopper EXCEPT ![q] = e]
    BY <1>1, <1>g DEF StopRead, TypeOK, Stopping
  <2> HIDE DEF e
  <2>4. e.worker # None
    BY <2>1, <2>2, StateWorker, NoDaemonIsNone
  <2>5. QED BY <1>0, <2>1, <2>2, <2>3, <2>4, StoppingAt, SameDaemons, TypeFrom DEF TypeOK
<1>2. CASE StopProbe(q)
  <2>1. stopper[q].at # "idle" /\ UNCHANGED <<state, daemon, abandoned>>
    BY <1>2 DEF StopProbe
  <2>2. CASE Goes(q, "unlink")
    BY <1>0, <2>1, <2>2, StoppingMoves, SameDaemons, TypeFrom DEF TypeOK
  <2>3. CASE stopper' = [stopper EXCEPT ![q].at = "sampled", ![q].age = 0,
                                        ![q].sample = daemon[w].beatAge]
    <3> DEFINE b == daemon[w].beatAge
    <3>1. b \in 0..OldestBeat
      BY <1>w, <2>1 DEF TypeOK, Daemon
    <3> DEFINE e == [stopper[q] EXCEPT !.at = "sampled", !.age = 0, !.sample = b]
    <3>2. stopper' = [stopper EXCEPT ![q] = e]
      BY <1>g, <2>3 DEF TypeOK, Stopping
    <3> HIDE DEF b
    <3>3. e \in Stopping
      BY <1>g, <3>1 DEF Stopping
    <3>4. e.worker = w
      BY <1>g DEF Stopping
    <3> HIDE DEF e
    <3>5. e.worker # None
      BY <1>w, <2>1, <3>4, NoDaemonIsNone
    <3>6. QED BY <1>0, <2>1, <3>2, <3>3, <3>5, StoppingAt, SameDaemons, TypeFrom DEF TypeOK
  <2>4. QED BY <1>2, <2>2, <2>3 DEF StopProbe
<1>3. CASE StopSample(q)
  <2>1. stopper[q].at # "idle" /\ UNCHANGED <<state, abandoned>>
    BY <1>3 DEF StopSample
  <2>2. CASE Proven(q)
    <3>1. PICK l \in Termed(w) : daemon' = Signalled(w, l)
      BY <1>3, <2>2 DEF StopSample
    <3>2. Born(w) /\ Goes(q, "grace")
      BY <1>3, <2>2 DEF StopSample, Proven, PidAlive, Alive, Born
    <3>3. QED BY <1>0, <1>w, <2>1, <3>1, <3>2, StoppingMoves, TermedGrows, TypeFrom DEF TypeOK
  <2>3. CASE ~Proven(q)
    <3>1. Goes(q, "unlink") /\ UNCHANGED daemon
      BY <1>3, <2>3 DEF StopSample
    <3>2. QED BY <1>0, <2>1, <3>1, StoppingMoves, SameDaemons, TypeFrom DEF TypeOK
  <2>4. QED BY <2>2, <2>3
<1>4. CASE StopKill(q)
  <2>1. /\ stopper[q].at # "idle" /\ Goes(q, "unlink")
        /\ daemon' = Killed(w) /\ UNCHANGED <<state, abandoned>>
    BY <1>4 DEF StopKill
  <2>2. QED BY <1>0, <1>w, <2>1, StoppingMoves, KilledGrows, TypeFrom DEF TypeOK
<1>5. CASE StopUnlink(q)
  <2>1. stopper[q].at # "idle" /\ Goes(q, "rm") /\ UNCHANGED daemon
    BY <1>5 DEF StopUnlink
  <2>2. (state' = state \/ state' = None) /\ abandoned' \subseteq Daemons
    BY <1>5, <1>w, <2>1 DEF StopUnlink, TypeOK
  <2>3. state' \in Opt(StateFile)
    BY <2>2 DEF TypeOK, Opt
  <2>4. QED BY <1>0, <2>1, <2>2, <2>3, StoppingMoves, SameDaemons, TypeFrom DEF TypeOK
<1>6. CASE StopRemoveBeat(q)
  <2>1. /\ stopper[q].at # "idle" /\ daemon' = Removed(daemon, w)
        /\ UNCHANGED <<state, abandoned>>
    BY <1>6 DEF StopRemoveBeat
  <2>2. /\ stopper' \in [Stoppers -> Stopping]
        /\ \A o \in Stoppers : stopper'[o].at # "idle" => stopper'[o].worker # None
    BY <1>6, <1>i, StoppingAt DEF StopRemoveBeat, StopEnds
  <2>3. Grows(daemon, daemon')
    BY <1>w, <2>1, RemovedGrows DEF TypeOK
  <2>4. QED BY <1>0, <2>1, <2>2, <2>3, TypeFrom DEF TypeOK
<1>7. CASE StopFails(q)
  <2>1. UNCHANGED <<state, daemon, abandoned>>
    BY <1>7 DEF StopFails
  <2>2. /\ stopper' \in [Stoppers -> Stopping]
        /\ \A o \in Stoppers : stopper'[o].at # "idle" => stopper'[o].worker # None
    BY <1>7, <1>i, StoppingAt DEF StopFails, StopEnds
  <2>3. QED BY <1>0, <2>1, <2>2, SameDaemons, TypeFrom DEF TypeOK
<1>8. QED BY <1>1, <1>2, <1>3, <1>4, <1>5, <1>6, <1>7 DEF Stop

LEMMA DaemonType ==
    ASSUME TypeOK, NEW w \in Daemons, Beat(w) \/ Die(w) \/ Recycle(w)
    PROVE  TypeOK' /\ Grows(daemon, daemon')
<1>1. UNCHANGED <<state, starter, stopper, handedOut, abandoned>>
  BY DEF Beat, Die, Recycle
<1>2. Grows(daemon, daemon')
  <2>1. CASE Die(w)
    <3>1. "dead" \in Lives \ {"unborn"} /\ daemon' = Signalled(w, "dead")
      BY <2>1 DEF Die, Lives
    <3>2. QED BY <3>1, SignalledGrows
  <2>2. QED BY <2>1, BeatGrows, RecycleGrows
<1>3. QED BY <1>1, <1>2, TypeFrom DEF TypeOK

\* Time changes nothing but ages.
LEMMA TickState ==
    ASSUME TypeOK, Tick, state # None
    PROVE  state' \in StateFile /\ state'.worker = state.worker /\ state'.status = state.status
<1> DEFINE age == Older(state.age, state.status = "starting", StartStale)
<1>1. state \in StateFile
  BY StateWorker
<1>2. age \in 0..StartStale
  <2>1. state.age \in Nat /\ state.age <= StartStale
    BY <1>1 DEF StateFile
  <2>2. age \in Nat /\ age <= StartStale
    BY <2>1, OlderType
  <2>3. QED BY <2>2
<1>3. state' = [state EXCEPT !.age = age]
  BY <1>1 DEF Tick, StateFile
<1> HIDE DEF age
<1>4. QED BY <1>1, <1>2, <1>3 DEF StateFile

LEMMA TickStarter ==
    ASSUME TypeOK, Tick
    PROVE  /\ starter' \in [Starters -> Ensuring]
           /\ \A p \in Starters : /\ starter'[p].at = starter[p].at
                                  /\ starter'[p].child = starter[p].child
<1> DEFINE age(p) == CASE starter[p].at = "waiting" -> Older(starter[p].age, TRUE, ReadyTimeout)
                       [] starter[p].at = "killing" -> Older(starter[p].age, TRUE, KillGrace)
                       [] OTHER -> starter[p].age
<1>1. starter' = [p \in Starters |-> [starter[p] EXCEPT !.age = age(p)]]
  BY DEF Tick, TypeOK, Ensuring
<1>2. ASSUME NEW p \in Starters
      PROVE  /\ starter'[p] \in Ensuring
             /\ starter'[p].at = starter[p].at /\ starter'[p].child = starter[p].child
  <2>1. starter[p] \in Ensuring /\ starter[p].age \in Nat
    BY DEF TypeOK, Ensuring
  <2>2. age(p) \in Nat
    BY <2>1, OlderType
  <2>3. starter'[p] = [starter[p] EXCEPT !.age = age(p)]
    BY <1>1
  <2> HIDE DEF age
  <2>4. QED BY <2>1, <2>2, <2>3 DEF Ensuring
<1>3. QED BY <1>1, <1>2

LEMMA TickStopper ==
    ASSUME TypeOK, Tick
    PROVE  /\ stopper' \in [Stoppers -> Stopping]
           /\ \A q \in Stoppers : /\ stopper'[q].at = stopper[q].at
                                  /\ stopper'[q].worker = stopper[q].worker
<1> DEFINE age(q) == Older(stopper[q].age, stopper[q].at \in {"sampled", "grace"},
                           SampleGap + KillGrace)
<1>1. stopper' = [q \in Stoppers |-> [stopper[q] EXCEPT !.age = age(q)]]
  BY DEF Tick, TypeOK, Stopping
<1>2. ASSUME NEW q \in Stoppers
      PROVE  /\ stopper'[q] \in Stopping
             /\ stopper'[q].at = stopper[q].at /\ stopper'[q].worker = stopper[q].worker
  <2>1. stopper[q] \in Stopping /\ stopper[q].age \in Nat
    BY DEF TypeOK, Stopping
  <2>2. age(q) \in Nat
    BY <2>1, OlderType
  <2>3. stopper'[q] = [stopper[q] EXCEPT !.age = age(q)]
    BY <1>1
  <2> HIDE DEF age
  <2>4. QED BY <2>1, <2>2, <2>3 DEF Stopping
<1>3. QED BY <1>1, <1>2

LEMMA TickType ==
    ASSUME TypeOK, Tick
    PROVE  TypeOK' /\ Grows(daemon, daemon')
<1>1. state' \in Opt(StateFile)
      /\ (state' # None => state # None /\ state'.worker = state.worker)
  <2>1. CASE state = None
    BY <2>1 DEF Tick, Opt
  <2>2. CASE state # None
    BY <2>2, TickState DEF Opt
  <2>3. QED BY <2>1, <2>2
<1>2. UNCHANGED <<handedOut, abandoned>>
  BY DEF Tick
<1>3. QED BY <1>1, <1>2, TickGrows, TickStarter, TickStopper, TypeFrom DEF TypeOK

LEMMA InitType == Init => TypeOK
<1>1. 0 \in 0..OldestBeat /\ "unborn" \in Lives
  BY BeatRange DEF Lives
<1>2. [life |-> "unborn", writes |-> FALSE, age |-> 0, file |-> FALSE, beatAge |-> 0] \in Daemon
  BY <1>1 DEF Daemon
<1>3. [at |-> "idle", worker |-> None, sample |-> 0, age |-> 0] \in Stopping
  BY <1>1 DEF Stopping, Opt
<1>4. QED BY <1>2, <1>3, IdleEnsuring DEF Init, TypeOK, Opt

LEMMA StepType ==
    ASSUME TypeOK, [Next]_vars
    PROVE  TypeOK' /\ Grows(daemon, daemon')
<1>1. CASE \E p \in Starters :
             Ensure(p) \/ Finish(p) \/ EnsureLockTimeout(p) \/ StarterCrashes(p)
  <2>1. PICK p \in Starters :
          Ensure(p) \/ Finish(p) \/ EnsureLockTimeout(p) \/ StarterCrashes(p)
    BY <1>1
  <2>2. CASE Ensure(p)
    BY <2>2, CallType, SpawnType, WantsAssumption DEF Ensure
  <2>3. QED BY <2>1, <2>2, FinishType
<1>2. CASE \E q \in Stoppers : Stop(q) \/ StopFails(q)
  BY <1>2, StopType
<1>3. CASE \E w \in Daemons : Beat(w) \/ Die(w) \/ Recycle(w)
  BY <1>3, DaemonType
<1>4. CASE Tick
  BY <1>4, TickType
<1>5. CASE UNCHANGED vars
  <2>1. UNCHANGED daemon
    BY <1>5 DEF vars
  <2>2. TypeOK'
    BY <1>5 DEF vars, TypeOK
  <2>3. QED BY <2>1, <2>2, SameDaemons
<1>6. QED BY <1>1, <1>2, <1>3, <1>4, <1>5 DEF Next

\* The state files, the daemons and the calls under way keep their shape, and
\* what a file or a call names is a daemon that was spawned.
THEOREM TypeCorrect == Spec => []TypeOK
<1>1. TypeOK /\ [Next]_vars => TypeOK'
  BY StepType
<1>2. QED BY InitType, <1>1, PTL DEF Spec

-----------------------------------------------------------------------------
(* Nobody kills a daemon that was handed out.                              *)

Doing(p) == starter[p].at \in {"kill", "killing"}

\* Why a starter that is about to kill its child cannot have it handed out: the
\* child is no longer recorded, only a recorded daemon is ever handed out, and one
\* that was handed out is never "starting" again, so nobody goes on to kill it.
Separate ==
    /\ \A p \in Starters : starter[p].child # None => Born(starter[p].child)
    /\ \A w \in handedOut : Born(w)
    /\ state # None /\ state.status = "starting" => state.worker \notin handedOut
    /\ \A p \in Starters : Doing(p) =>
         /\ starter[p].child \notin handedOut
         /\ state # None => state.worker # starter[p].child

Inv == TypeOK /\ Separate

\* Most steps: starters go on or return, the recorded daemon may begin to run, and
\* then may be handed out, or its record may go.
Settles(p) ==
    \/ starter'[p].child = starter[p].child /\ (Doing(p)' => Doing(p))
    \/ starter'[p].child = None /\ ~Doing(p)'
Records ==
    \/ state' = None
    \/ /\ state # None /\ state'.worker = state.worker
       /\ state'.status \in {state.status, "running"}
Hands ==
    \/ handedOut' = handedOut
    \/ /\ state # None /\ state'.status = "running"
       /\ handedOut' = handedOut \cup {state.worker}

LEMMA SeparateFrom ==
    ASSUME Inv, Grows(daemon, daemon'), \A p \in Starters : Settles(p), Records, Hands
    PROVE  Separate'
<1> USE DEF Inv, Separate, Settles, Records, Hands
<1>0. \A w \in Daemons : Born(w) => Born(w)'
  BY DEF Grows, Born
<1>c. /\ \A p \in Starters : starter[p].child # None => starter[p].child \in Daemons
      /\ handedOut \subseteq Daemons
      /\ state # None => state.worker \in Daemons /\ Born(state.worker)
  BY StateWorker DEF TypeOK, Ensuring, Opt
<1>1. ASSUME NEW p \in Starters, starter'[p].child # None
      PROVE  Born(starter[p].child)'
  BY <1>0, <1>1, <1>c
<1>2. ASSUME NEW w \in handedOut'
      PROVE  Born(w)'
  BY <1>0, <1>2, <1>c
<1>3. state' # None /\ state'.status = "starting" => state'.worker \notin handedOut'
  OBVIOUS
<1>4. ASSUME NEW p \in Starters, Doing(p)'
      PROVE  /\ starter'[p].child \notin handedOut'
             /\ state' # None => state'.worker # starter'[p].child
  <2>1. Doing(p) /\ starter'[p].child = starter[p].child
    BY <1>4
  <2>2. QED BY <2>1
<1>5. QED BY <1>1, <1>2, <1>3, <1>4

LEMMA SettlesReturned ==
    ASSUME TypeOK, NEW p \in Starters, NEW D, Returned(p, D)
    PROVE  \A o \in Starters : Settles(o)
BY DEF Returned, Settles, Doing, TypeOK

LEMMA SettlesSame ==
    ASSUME UNCHANGED starter
    PROVE  \A o \in Starters : Settles(o)
BY DEF Settles, Doing

LEMMA SettlesMoves ==
    ASSUME TypeOK, NEW p \in Starters, NEW at,
           at \in {"kill", "killing"} => Doing(p),
           \/ starter' = [starter EXCEPT ![p].at = at]
           \/ starter' = [starter EXCEPT ![p].at = at, ![p].age = 0]
    PROVE  \A o \in Starters : Settles(o)
<1>1. ASSUME NEW o \in Starters
      PROVE  /\ starter'[o].child = starter[o].child
             /\ starter'[o].at = IF o = p THEN at ELSE starter[o].at
  <2>1. starter[o] \in Ensuring /\ starter[p] \in Ensuring
    BY DEF TypeOK
  <2>2. QED BY <2>1 DEF TypeOK, Ensuring
<1>2. QED BY <1>1 DEF Settles, Doing

LEMMA SameRecord ==
    ASSUME UNCHANGED state
    PROVE  Records
BY DEF Records

LEMMA CallSeparate ==
    ASSUME Inv, NEW p \in Starters, NEW wants \in BOOLEAN, Grows(daemon, daemon'),
           Reuse(p, wants) \/ BackOff(p, wants) \/ Adopt(p, wants)
    PROVE  Separate'
<1>0. TypeOK
  BY DEF Inv
<1>1. CASE Reuse(p, wants)
  <2>1. /\ state # None /\ state.status = "running" /\ UNCHANGED state
        /\ handedOut' = handedOut \/ handedOut' = handedOut \cup {state.worker}
    BY <1>1 DEF Reuse, Serves, Returned
  <2>2. \A o \in Starters : Settles(o)
    BY <1>0, <1>1, SettlesReturned DEF Reuse
  <2>3. QED BY <2>1, <2>2, SeparateFrom, SameRecord DEF Hands
<1>2. CASE BackOff(p, wants)
  <2>1. UNCHANGED <<state, handedOut>>
    BY <1>2 DEF BackOff, Returned
  <2>2. \A o \in Starters : Settles(o)
    BY <1>0, <1>2, SettlesReturned DEF BackOff
  <2>3. QED BY <2>1, <2>2, SeparateFrom, SameRecord DEF Hands
<1>3. CASE Adopt(p, wants)
  <2>1. /\ state # None /\ state' = [state EXCEPT !.status = "running", !.age = 0]
        /\ handedOut' = handedOut \cup {state.worker}
    BY <1>3 DEF Adopt, Adoptable, Returned
  <2>2. state' \in StateFile /\ state'.worker = state.worker /\ state'.status = "running"
    BY <1>0, <2>1, RunningState
  <2>3. \A o \in Starters : Settles(o)
    BY <1>0, <1>3, SettlesReturned DEF Adopt
  <2>4. QED BY <2>1, <2>2, <2>3, SeparateFrom DEF Hands, Records
<1>4. QED BY <1>1, <1>2, <1>3

\* A daemon that is spawned was nobody's child and in nobody's hands.
LEMMA SpawnSeparate ==
    ASSUME Inv, NEW p \in Starters, NEW w \in Daemons, NEW wants \in BOOLEAN,
           Grows(daemon, daemon'), Spawn(p, w, wants) \/ SpawnUnrecorded(p, w, wants)
    PROVE  Separate'
<1>0. TypeOK
  BY DEF Inv
<1>1. CASE Spawn(p, w, wants)
  <2>1. /\ ~Born(w) /\ state' = [worker |-> w, status |-> "starting", age |-> 0]
        /\ starter' = [starter EXCEPT ![p] = [at |-> "waiting", child |-> w, age |-> 0]]
        /\ daemon' = Spawned(w, wants, "booting") /\ UNCHANGED handedOut
    BY <1>1 DEF Spawn, IsNext, Born
  <2>2. Born(w)'
    BY <1>0, <2>1, SpawnedGrows DEF Born, Lives
  <2>3. \A v \in Daemons : Born(v) => Born(v)'
    BY DEF Grows, Born
  <2>4. \A o \in Starters : o # p => starter'[o] = starter[o]
    BY <1>0, <2>1 DEF TypeOK
  <2>5. starter'[p].at = "waiting" /\ starter'[p].child = w
    BY <1>0, <2>1 DEF TypeOK
  <2>6. ASSUME NEW o \in Starters, starter'[o].child # None
        PROVE  Born(starter[o].child)'
    <3>1. CASE o = p
      BY <2>2, <2>5, <3>1
    <3>2. CASE o # p
      <4>1. starter[o].child \in Daemons /\ Born(starter[o].child)
        BY <1>0, <2>4, <2>6, <3>2 DEF TypeOK, Ensuring, Opt, Inv, Separate
      <4>2. QED BY <2>3, <2>4, <3>2, <4>1
    <3>3. QED BY <3>1, <3>2
  <2>7. \A v \in handedOut : v \in Daemons /\ Born(v)
    BY <1>0 DEF TypeOK, Inv, Separate
  <2>8. ASSUME NEW o \in Starters, Doing(o)'
        PROVE  starter'[o].child \notin handedOut' /\ starter'[o].child # w
    <3>1. o # p
      BY <2>5, <2>8 DEF Doing
    <3>2. Doing(o) /\ starter'[o].child = starter[o].child
      BY <2>4, <2>8, <3>1 DEF Doing
    <3>3. starter[o].child # None
      BY <1>0, <3>2 DEF TypeOK, Doing
    <3>4. QED BY <2>1, <3>2, <3>3 DEF Inv, Separate
  <2>9. QED BY <2>1, <2>3, <2>6, <2>7, <2>8 DEF Separate
<1>2. CASE SpawnUnrecorded(p, w, wants)
  <2>1. UNCHANGED <<state, handedOut>>
    BY <1>2 DEF SpawnUnrecorded, Returned
  <2>2. \A o \in Starters : Settles(o)
    BY <1>0, <1>2, SettlesReturned DEF SpawnUnrecorded
  <2>3. QED BY <2>1, <2>2, SeparateFrom, SameRecord DEF Hands
<1>3. QED BY <1>1, <1>2

LEMMA FinishSeparate ==
    ASSUME Inv, NEW p \in Starters, Grows(daemon, daemon'),
           Finish(p) \/ EnsureLockTimeout(p) \/ StarterCrashes(p)
    PROVE  Separate'
<1>0. TypeOK
  BY DEF Inv
<1>1. CASE AwaitReady(p)
  <2>1. \/ starter' = [starter EXCEPT ![p].at = "ready"]
        \/ starter' = [starter EXCEPT ![p].at = "late"]
    BY <1>1 DEF AwaitReady
  <2>2. UNCHANGED <<state, handedOut>>
    BY <1>1 DEF AwaitReady
  <2>3. \A o \in Starters : Settles(o)
    <3>1. CASE starter' = [starter EXCEPT ![p].at = "ready"]
      <4>1. "ready" \notin {"kill", "killing"}
        OBVIOUS
      <4>2. QED BY <1>0, <3>1, <4>1, SettlesMoves
    <3>2. CASE starter' = [starter EXCEPT ![p].at = "late"]
      <4>1. "late" \notin {"kill", "killing"}
        OBVIOUS
      <4>2. QED BY <1>0, <3>2, <4>1, SettlesMoves
    <3>3. QED BY <2>1, <3>1, <3>2
  <2>4. QED BY <2>2, <2>3, SeparateFrom, SameRecord DEF Hands
<1>2. CASE MarkRunning(p)
  <2>1. \A o \in Starters : Settles(o)
    BY <1>0, <1>2, SettlesReturned DEF MarkRunning
  <2>2. CASE StillStarting(p)
    <3>1. /\ state # None /\ state' = [state EXCEPT !.status = "running", !.age = 0]
          /\ handedOut' = handedOut \cup {state.worker}
      BY <1>2, <2>2 DEF MarkRunning, StillStarting, Returned
    <3>2. state' \in StateFile /\ state'.worker = state.worker /\ state'.status = "running"
      BY <1>0, <3>1, RunningState
    <3>3. QED BY <2>1, <3>1, <3>2, SeparateFrom DEF Hands, Records
  <2>3. CASE ~StillStarting(p)
    <3>1. UNCHANGED <<state, handedOut>>
      BY <1>2, <2>3 DEF MarkRunning, Returned
    <3>2. QED BY <2>1, <3>1, SeparateFrom, SameRecord DEF Hands
  <2>4. QED BY <2>2, <2>3
<1>3. CASE CleanUp(p)
  <2>1. CASE StillStarting(p)
    <3>1. /\ state' = None /\ UNCHANGED handedOut
          /\ starter' = [starter EXCEPT ![p].at = "kill"]
      BY <1>3, <2>1 DEF CleanUp
    <3>2. /\ starter[p].child \notin handedOut
      BY <2>1 DEF StillStarting, Inv, Separate
    <3>3. ASSUME NEW o \in Starters
          PROVE  /\ starter'[o].child = starter[o].child
                 /\ Doing(o)' => o = p \/ Doing(o)
      <4>1. starter[o] \in Ensuring /\ starter[p] \in Ensuring
        BY <1>0 DEF TypeOK
      <4>2. QED BY <1>0, <3>1, <4>1 DEF TypeOK, Ensuring, Doing
    <3>4. \A v \in Daemons : Born(v) => Born(v)'
      BY DEF Grows, Born
    <3>5. ASSUME NEW o \in Starters, starter'[o].child # None
          PROVE  Born(starter[o].child)'
      <4>1. starter[o].child \in Daemons /\ Born(starter[o].child)
        BY <1>0, <3>3, <3>5 DEF TypeOK, Ensuring, Opt, Inv, Separate
      <4>2. QED BY <3>3, <3>4, <4>1
    <3>6. \A v \in handedOut : v \in Daemons /\ Born(v)
      BY <1>0 DEF TypeOK, Inv, Separate
    <3>7. ASSUME NEW o \in Starters, Doing(o)'
          PROVE  starter'[o].child \notin handedOut'
      BY <3>1, <3>2, <3>3, <3>7 DEF Inv, Separate
    <3>8. QED BY <3>1, <3>4, <3>5, <3>6, <3>7 DEF Separate
  <2>2. CASE ~StillStarting(p)
    <3>1. UNCHANGED <<state, handedOut>> /\ Returned(p, {})
      BY <1>3, <2>2 DEF CleanUp, Returned
    <3>2. QED BY <1>0, <3>1, SettlesReturned, SeparateFrom, SameRecord DEF Hands
  <2>3. QED BY <2>1, <2>2
<1>4. CASE KillChild(p)
  <2>1. /\ Doing(p) /\ UNCHANGED <<state, handedOut>>
        /\ starter' = [starter EXCEPT ![p].at = "killing", ![p].age = 0]
    BY <1>4 DEF KillChild, Doing
  <2>2. \A o \in Starters : Settles(o)
    BY <1>0, <2>1, SettlesMoves
  <2>3. QED BY <2>1, <2>2, SeparateFrom, SameRecord DEF Hands
<1>5. CASE Escalate(p)
  BY <1>5, SettlesSame, SeparateFrom, SameRecord DEF Escalate, Hands
<1>6. CASE ChildExited(p) \/ EnsureLockTimeout(p) \/ StarterCrashes(p)
  <2>1. Returned(p, {}) /\ UNCHANGED <<state, handedOut>>
    BY <1>6 DEF ChildExited, EnsureLockTimeout, StarterCrashes, Returned
  <2>2. QED BY <1>0, <2>1, SettlesReturned, SeparateFrom, SameRecord DEF Hands
<1>7. QED BY <1>1, <1>2, <1>3, <1>4, <1>5, <1>6 DEF Finish

LEMMA StepSeparate ==
    ASSUME Inv, [Next]_vars
    PROVE  Separate'
<1>0. TypeOK /\ Grows(daemon, daemon')
  BY StepType DEF Inv
<1>1. CASE \E p \in Starters :
             Ensure(p) \/ Finish(p) \/ EnsureLockTimeout(p) \/ StarterCrashes(p)
  <2>1. PICK p \in Starters :
          Ensure(p) \/ Finish(p) \/ EnsureLockTimeout(p) \/ StarterCrashes(p)
    BY <1>1
  <2>2. CASE Ensure(p)
    BY <1>0, <2>2, CallSeparate, SpawnSeparate, WantsAssumption DEF Ensure
  <2>3. QED BY <1>0, <2>1, <2>2, FinishSeparate
<1>2. CASE \E q \in Stoppers : Stop(q) \/ StopFails(q)
  <2>1. UNCHANGED <<starter, handedOut>> /\ (state' = state \/ state' = None)
    BY <1>2 DEF Stop, StopRead, StopProbe, StopSample, StopKill, StopUnlink,
                StopRemoveBeat, StopFails
  <2>2. Records
    BY <2>1, SameRecord DEF Records
  <2>3. QED BY <1>0, <2>1, <2>2, SettlesSame, SeparateFrom DEF Hands
<1>3. CASE \E w \in Daemons : Beat(w) \/ Die(w) \/ Recycle(w)
  <2>1. UNCHANGED <<state, starter, handedOut>>
    BY <1>3 DEF Beat, Die, Recycle
  <2>2. QED BY <1>0, <2>1, SettlesSame, SameRecord, SeparateFrom DEF Hands
<1>4. CASE Tick
  <2>1. \A p \in Starters : Settles(p)
    BY <1>0, <1>4, TickStarter DEF Settles, Doing
  <2>2. Records /\ Hands
    BY <1>0, <1>4, TickState DEF Tick, Records, Hands
  <2>3. QED BY <1>0, <2>1, <2>2, SeparateFrom
<1>5. CASE UNCHANGED vars
  <2>1. UNCHANGED <<state, starter, handedOut>>
    BY <1>5 DEF vars
  <2>2. QED BY <1>0, <2>1, SettlesSame, SameRecord, SeparateFrom DEF Hands
<1>6. QED BY <1>1, <1>2, <1>3, <1>4, <1>5 DEF Next

\* Calls under way and records stay apart: who is to be killed is not recorded.
THEOREM Invariance == Spec => []Inv
<1>1. Init => Inv
  BY InitType DEF Init, Inv, Separate, Doing
<1>2. Inv /\ [Next]_vars => Inv'
  BY StepType, StepSeparate DEF Inv
<1>3. QED BY <1>1, <1>2, PTL DEF Spec

\* A starter that gave up on its daemon never kills one that another process was
\* told is running: clean-up takes the record away under the lock before it kills,
\* and only a recorded daemon is ever reused, adopted or marked running.
THEOREM Spared == Spec => []SparesAdopted
<1>1. Inv => SparesAdopted
  BY DEF Inv, Separate, SparesAdopted, Doing
<1>2. QED BY Invariance, <1>1, PTL

-----------------------------------------------------------------------------
(* One daemon: what is recorded is what serves.                            *)

Life(w) == daemon[w].life
Running == {"booting", "up"}

\* Daemons are punctual, and have no heartbeat file before their first heartbeat.
Ages == \A w \in Daemons :
    /\ Life(w) = "unborn" => ~daemon[w].file /\ daemon[w].age = 0
    /\ Life(w) = "booting" => ~daemon[w].file /\ daemon[w].age <= BootLag
    /\ Life(w) = "up" => daemon[w].beatAge <= BeatLag

\* The recorded daemon has its heartbeat file, or is still starting and not late.
Recording == state # None =>
    /\ Life(state.worker) = "up" => daemon[state.worker].file
    /\ Life(state.worker) = "booting" =>
         state.status = "starting" /\ state.age <= daemon[state.worker].age

\* A child that answered has booted; one that is being killed winds down.
Children == \A p \in Starters :
    /\ starter[p].at = "ready" => Life(starter[p].child) # "booting"
    /\ starter[p].at = "killing" => Life(starter[p].child) \notin Running

\* A stop that is about to remove a heartbeat file has left its daemon unrecorded.
Targets == \A q \in Stoppers :
    /\ stopper[q].worker # None => Born(stopper[q].worker)
    /\ stopper[q].at = "rm" => state = None \/ state.worker # stopper[q].worker

OnlyRecorded == \A w \in Serving : state # None /\ state.worker = w

Fit == Inv /\ Ages /\ Recording /\ Children /\ Targets

\* What a step may do to a daemon d, that becomes e.
Cleans(d, e) ==
    /\ e.life = d.life /\ e.age = d.age /\ e.file = FALSE
    /\ d.life = "up" => e.beatAge = d.beatAge
Winds(d, e) ==
    /\ d.life \in {"booting", "up", "stopping"} /\ e.life \in {"stopping", "dead"}
    /\ e.life = "dead" => e.age = 0
    /\ e.file = d.file
Starts(d, e) ==
    /\ d.life = "unborn" /\ e.life \in {"booting", "dead"}
    /\ e.file = d.file /\ e.age = d.age
Beats(d, e) ==
    /\ d.life \in Running /\ e.life = "up"
    /\ e.file = TRUE /\ e.beatAge = 0
Recycles(d, e) ==
    /\ d.life = "dead" /\ d.age >= RecycleTime /\ e.life = "recycled"
    /\ e.file = d.file /\ e.beatAge = d.beatAge
Ticks(d, e) ==
    /\ d.life = "up" => d.beatAge < BeatLag
    /\ d.life = "booting" => d.age < BootLag
    /\ e.life = d.life /\ e.file = d.file
    /\ e.age = IF d.life = "booting" THEN d.age + 1
               ELSE Older(d.age, d.life = "dead", RecycleTime)
    /\ e.beatAge = Older(d.beatAge, d.life = "up" \/ d.file, OldestBeat)

Fresh(v) == [worker |-> v, status |-> "starting", age |-> 0]
\* No daemon that is up and recorded loses its heartbeat file, and one that is spawned
\* is recorded or abandoned.
Kind(v) ==
    LET d == daemon[v]
        e == daemon'[v]
    IN  \/ e = d
        \/ Cleans(d, e) /\ (d.life = "up" => state' = None \/ state'.worker # v)
        \/ Starts(d, e) /\ (e.life = "booting" => state' = Fresh(v) \/ v \in abandoned')
        \/ Winds(d, e) \/ Beats(d, e) \/ Recycles(d, e)
        \/ Ticks(d, e) /\ Tick

LEMMA RemovedAt ==
    ASSUME NEW D \in [Daemons -> Daemon], NEW w \in Daemons
    PROVE  /\ \A v \in Daemons : v # w => Removed(D, w)[v] = D[v]
           /\ Cleans(D[w], Removed(D, w)[w])
           /\ Removed(D, w) \in [Daemons -> Daemon]
<1>1. D[w] \in Daemon
  OBVIOUS
<1> DEFINE beat == IF D[w].life = "up" THEN D[w].beatAge ELSE 0
           d == [D[w] EXCEPT !.file = FALSE, !.beatAge = beat]
<1>2. Removed(D, w) = [D EXCEPT ![w] = d]
  BY <1>1 DEF Removed, Daemon
<1>3. d.life = D[w].life /\ d.age = D[w].age /\ d.file = FALSE /\ d.beatAge = beat
  BY <1>1 DEF Daemon
<1> HIDE DEF d
<1>4. Removed(D, w)[w] = d /\ \A v \in Daemons : v # w => Removed(D, w)[v] = D[v]
  BY <1>2
<1>5. QED BY <1>3, <1>4, RemovedGrows DEF Cleans, Grows

LEMMA SignalledAt ==
    ASSUME TypeOK, NEW w \in Daemons, NEW l
    PROVE  /\ \A v \in Daemons : v # w => Signalled(w, l)[v] = daemon[v]
           /\ Signalled(w, l)[w].life = l
           /\ Signalled(w, l)[w].file = daemon[w].file
           /\ l # daemon[w].life => Signalled(w, l)[w].age = 0
<1>1. daemon[w] \in Daemon
  BY DEF TypeOK
<1> DEFINE age == IF l = daemon[w].life THEN daemon[w].age ELSE 0
           beat == IF daemon[w].file THEN daemon[w].beatAge ELSE 0
           d == [daemon[w] EXCEPT !.life = l, !.age = age, !.beatAge = beat]
<1>2. Signalled(w, l) = [daemon EXCEPT ![w] = d]
  BY <1>1 DEF Signalled, Daemon, TypeOK
<1>3. d.life = l /\ d.file = daemon[w].file /\ (l # daemon[w].life => d.age = 0)
  BY <1>1 DEF Daemon
<1> HIDE DEF d
<1>4. Signalled(w, l)[w] = d /\ \A v \in Daemons : v # w => Signalled(w, l)[v] = daemon[v]
  BY <1>2 DEF TypeOK
<1>5. QED BY <1>3, <1>4

\* A signal to a daemon that lives ends it, sooner or later.
LEMMA TermedAt ==
    ASSUME TypeOK, NEW w \in Daemons, Alive(w), NEW l \in Termed(w)
    PROVE  /\ Winds(daemon[w], Signalled(w, l)[w])
           /\ \A v \in Daemons : v # w => Signalled(w, l)[v] = daemon[v]
<1>1. l \in {"stopping", "dead"} /\ (l = "dead" => l # daemon[w].life)
  BY DEF Termed, Alive
<1>2. QED BY <1>1, SignalledAt DEF Winds, Alive

LEMMA KilledAt ==
    ASSUME TypeOK, NEW w \in Daemons
    PROVE  /\ Alive(w) => Winds(daemon[w], Killed(w)[w])
           /\ ~Alive(w) => Killed(w) = daemon
           /\ \A v \in Daemons : v # w => Killed(w)[v] = daemon[v]
<1>1. CASE Alive(w)
  <2>1. "dead" # daemon[w].life /\ Killed(w) = Signalled(w, "dead")
    BY <1>1 DEF Killed, Alive
  <2>2. QED BY <1>1, <2>1, SignalledAt DEF Winds, Alive
<1>2. CASE ~Alive(w)
  BY <1>2 DEF Killed
<1>3. QED BY <1>1, <1>2

\* Whom a spawn replaces is gone: a daemon that is up beats and is adopted, one
\* that boots is waited for.
LEMMA Replaceable ==
    ASSUME Fit, MustSpawn, state # None
    PROVE  Life(state.worker) \notin Running
<1> DEFINE w == state.worker
<1>1. w \in Daemons /\ state \in StateFile /\ daemon[w] \in Daemon
  BY StateWorker DEF Fit, Inv, TypeOK
<1>2. CASE Life(w) = "up"
  <2>1. daemon[w].file /\ daemon[w].beatAge <= BeatLag
    BY <1>1, <1>2 DEF Fit, Ages, Recording
  <2>2. daemon[w].beatAge \in Nat /\ daemon[w].beatAge < BeatStale
    BY <1>1, <2>1, BeatRange, PunctualAssumption DEF Daemon
  <2>3. LooksAlive(w)
    BY <1>2, <2>1, <2>2 DEF LooksAlive, PidAlive, Alive, Life
  <2>4. state.status \in {"starting", "running"}
    BY <1>1 DEF StateFile
  <2>5. QED BY <2>3, <2>4 DEF MustSpawn, Serves, FreshStart, Adoptable
<1>3. CASE Life(w) = "booting"
  <2>1. state.status = "starting" /\ state.age <= daemon[w].age /\ daemon[w].age <= BootLag
    BY <1>1, <1>3 DEF Fit, Ages, Recording
  <2>2. state.age \in Nat /\ daemon[w].age \in Nat
    BY <1>1 DEF StateFile, Daemon
  <2>3. state.age < StartStale
    BY <2>1, <2>2, PunctualAssumption
  <2>4. QED BY <2>1, <2>3 DEF MustSpawn, FreshStart
<1>4. QED BY <1>2, <1>3 DEF Running

LEMMA SpawnedAt ==
    ASSUME TypeOK, NEW w \in Daemons, ~Born(w), NEW wants, NEW l \in {"booting", "dead"}
    PROVE  /\ Spawned(w, wants, l)[w].life = l /\ Starts(daemon[w], Spawned(w, wants, l)[w])
           /\ \A v \in Daemons : v # w =>
                \/ Spawned(w, wants, l)[v] = daemon[v]
                \/ /\ state # None /\ v = state.worker
                   /\ Cleans(daemon[v], Spawned(w, wants, l)[v])
<1>1. Cleared \in [Daemons -> Daemon] /\ Cleared[w] = daemon[w]
  <2>1. CASE state = None
    BY <2>1 DEF Cleared, TypeOK
  <2>2. CASE state # None
    <3>1. state.worker \in Daemons /\ state.worker # w /\ Cleared = Removed(daemon, state.worker)
      BY <2>2, StateWorker DEF Cleared
    <3>2. QED BY <3>1, RemovedAt DEF TypeOK
  <2>3. QED BY <2>1, <2>2
<1>2. \A v \in Daemons : \/ Cleared[v] = daemon[v]
                         \/ state # None /\ v = state.worker /\ Cleans(daemon[v], Cleared[v])
  <2>1. CASE state = None
    BY <2>1 DEF Cleared
  <2>2. CASE state # None
    <3>1. state.worker \in Daemons /\ Cleared = Removed(daemon, state.worker)
      BY <2>2, StateWorker DEF Cleared
    <3>2. QED BY <2>2, <3>1, RemovedAt DEF TypeOK
  <2>3. QED BY <2>1, <2>2
<1> DEFINE d == [Cleared[w] EXCEPT !.life = l, !.writes = wants]
<1>3. d.life = l /\ d.file = daemon[w].file /\ d.age = daemon[w].age
  BY <1>1 DEF Daemon
<1>4. Spawned(w, wants, l) = [Cleared EXCEPT ![w] = d]
  BY DEF Spawned
<1> HIDE DEF d
<1>5. /\ Spawned(w, wants, l)[w] = d
      /\ \A v \in Daemons : v # w => Spawned(w, wants, l)[v] = Cleared[v]
  BY <1>1, <1>4
<1>6. QED BY <1>2, <1>3, <1>5 DEF Starts, Born

\* A signal to one that does not live changes nothing that matters.
LEMMA SignalledAgain ==
    ASSUME TypeOK, NEW w \in Daemons, ~Alive(w)
    PROVE  /\ LET e == Signalled(w, daemon[w].life)[w]
              IN  e = daemon[w] \/ Cleans(daemon[w], e)
           /\ \A v \in Daemons : v # w => Signalled(w, daemon[w].life)[v] = daemon[v]
<1>1. daemon[w] \in Daemon
  BY DEF TypeOK
<1> DEFINE beat == IF daemon[w].file THEN daemon[w].beatAge ELSE 0
           d == [daemon[w] EXCEPT !.beatAge = beat]
<1>2. Signalled(w, daemon[w].life) = [daemon EXCEPT ![w] = d]
  BY <1>1 DEF Signalled, Daemon, TypeOK
<1>3. CASE daemon[w].file
  <2>1. d = daemon[w]
    BY <1>1, <1>3 DEF Daemon
  <2> HIDE DEF d
  <2>2. QED BY <1>2, <2>1 DEF TypeOK
<1>4. CASE ~daemon[w].file
  <2>1. d.life = daemon[w].life /\ d.age = daemon[w].age /\ d.file = FALSE
    BY <1>1, <1>4 DEF Daemon
  <2> HIDE DEF d
  <2>2. Signalled(w, daemon[w].life)[w] = d
        /\ \A v \in Daemons : v # w => Signalled(w, daemon[w].life)[v] = daemon[v]
    BY <1>2 DEF TypeOK
  <2>3. QED BY <2>1, <2>2 DEF Cleans, Alive
<1>5. QED BY <1>3, <1>4

LEMMA TickAt ==
    ASSUME TypeOK, Tick, NEW v \in Daemons
    PROVE  Ticks(daemon[v], daemon'[v])
<1> DEFINE age == IF daemon[v].life = "booting" THEN daemon[v].age + 1
                  ELSE Older(daemon[v].age, daemon[v].life = "dead", RecycleTime)
           beat == Older(daemon[v].beatAge, daemon[v].life = "up" \/ daemon[v].file, OldestBeat)
<1>1. daemon[v] \in Daemon
  BY DEF TypeOK
<1>2. daemon'[v] = [daemon[v] EXCEPT !.age = age, !.beatAge = beat]
  BY <1>1 DEF Tick, Daemon
<1> HIDE DEF age, beat
<1>3. /\ daemon'[v].life = daemon[v].life /\ daemon'[v].file = daemon[v].file
      /\ daemon'[v].age = age /\ daemon'[v].beatAge = beat
  BY <1>1, <1>2 DEF Daemon
<1>4. Punctual(v)
  BY DEF Tick
<1>5. QED BY <1>3, <1>4 DEF Ticks, Punctual, age, beat

LEMMA DaemonAt ==
    ASSUME TypeOK, NEW w \in Daemons, Beat(w) \/ Die(w) \/ Recycle(w), NEW v \in Daemons
    PROVE  \/ daemon'[v] = daemon[v] \/ Winds(daemon[v], daemon'[v])
           \/ Beats(daemon[v], daemon'[v]) \/ Recycles(daemon[v], daemon'[v])
<1>1. daemon[w] \in Daemon /\ daemon \in [Daemons -> Daemon]
  BY DEF TypeOK
<1>2. CASE Beat(w)
  <2> DEFINE d == [daemon[w] EXCEPT !.life = "up", !.age = 0, !.file = TRUE, !.beatAge = 0]
  <2>1. daemon' = [daemon EXCEPT ![w] = d] /\ daemon[w].life \in Running
    BY <1>1, <1>2 DEF Beat, Daemon, Running
  <2>2. d.life = "up" /\ d.file = TRUE /\ d.beatAge = 0
    BY <1>1 DEF Daemon
  <2> HIDE DEF d
  <2>3. QED BY <1>1, <2>1, <2>2 DEF Beats
<1>3. CASE Die(w)
  <2>1. Alive(w) /\ daemon' = Signalled(w, "dead") /\ daemon[w].life # "dead"
    BY <1>3 DEF Die, Alive
  <2>2. QED BY <2>1, SignalledAt DEF Winds, Alive
<1>4. CASE Recycle(w)
  <2> DEFINE d == [daemon[w] EXCEPT !.life = "recycled", !.age = 0]
  <2>1. /\ daemon' = [daemon EXCEPT ![w] = d]
        /\ daemon[w].life = "dead" /\ daemon[w].age >= RecycleTime
    BY <1>1, <1>4 DEF Recycle, Daemon
  <2>2. d.life = "recycled" /\ d.file = daemon[w].file /\ d.beatAge = daemon[w].beatAge
    BY <1>1 DEF Daemon
  <2> HIDE DEF d
  <2>3. QED BY <1>1, <2>1, <2>2 DEF Recycles
<1>5. QED BY <1>2, <1>3, <1>4

\* A starter signals its own child, which was spawned.
LEMMA OwnChild ==
    ASSUME Inv, NEW p \in Starters, starter[p].at # "idle"
    PROVE  starter[p].child \in Daemons /\ Born(starter[p].child)
BY Child, NoDaemonIsNone DEF Inv, Separate

LEMMA StarterKinds ==
    ASSUME Fit, NEW p \in Starters,
           Ensure(p) \/ Finish(p) \/ EnsureLockTimeout(p) \/ StarterCrashes(p), NEW v \in Daemons
    PROVE  Kind(v)
<1>0. TypeOK /\ daemon \in [Daemons -> Daemon]
  BY DEF Fit, Inv, TypeOK
<1>1. ASSUME NEW w \in Daemons, NEW wants \in Wants,
             Spawn(p, w, wants) \/ SpawnUnrecorded(p, w, wants)
      PROVE  Kind(v)
  <2>1. ~Born(w) /\ MustSpawn
    BY <1>1 DEF Spawn, SpawnUnrecorded, IsNext, Born
  <2>2. PICK l \in {"booting", "dead"} : daemon' = Spawned(w, wants, l)
    BY <1>1 DEF Spawn, SpawnUnrecorded
  <2>3. CASE v = w
    <3>1. Starts(daemon[w], daemon'[w]) /\ daemon'[w].life = l
      BY <1>0, <2>1, <2>2, SpawnedAt
    <3>2. CASE Spawn(p, w, wants)
      BY <2>3, <3>1, <3>2 DEF Spawn, Fresh, Kind
    <3>3. CASE SpawnUnrecorded(p, w, wants) /\ daemon' = Spawned(w, wants, "dead")
      <4>1. daemon'[w].life = "dead"
        BY <1>0, <2>1, <3>3, SpawnedAt
      <4>2. QED BY <2>3, <3>1, <4>1 DEF Kind
    <3>4. CASE SpawnUnrecorded(p, w, wants) /\ w \in abandoned'
      BY <2>3, <3>1, <3>4 DEF Kind
    <3>5. QED BY <1>1, <3>2, <3>3, <3>4 DEF SpawnUnrecorded
  <2>4. CASE v # w /\ daemon'[v] = daemon[v]
    BY <2>4 DEF Kind
  <2>5. CASE v # w /\ daemon'[v] # daemon[v]
    <3>1. state # None /\ v = state.worker /\ Cleans(daemon[v], daemon'[v])
      BY <1>0, <2>1, <2>2, <2>5, SpawnedAt
    <3>2. daemon[v].life # "up"
      BY <2>1, <3>1, Replaceable DEF Life, Running
    <3>3. QED BY <3>1, <3>2 DEF Kind
  <2>6. QED BY <2>3, <2>4, <2>5
<1>2. CASE KillChild(p)
  <2>1. starter[p].child \in Daemons /\ Born(starter[p].child)
    BY <1>2, OwnChild DEF KillChild, Fit
  <2>2. PICK l \in Termed(starter[p].child) : daemon' = Signalled(starter[p].child, l)
    BY <1>2 DEF KillChild
  <2>3. CASE Alive(starter[p].child)
    BY <1>0, <2>1, <2>2, <2>3, TermedAt DEF Kind
  <2>4. CASE ~Alive(starter[p].child)
    <3>1. /\ daemon' = Signalled(starter[p].child, daemon[starter[p].child].life)
          /\ daemon[starter[p].child].life # "up"
      BY <2>1, <2>2, <2>4 DEF Termed, Alive
    <3>2. QED BY <1>0, <2>1, <2>2, <2>4, <3>1, SignalledAgain DEF Kind
  <2>5. QED BY <2>3, <2>4
<1>3. CASE Escalate(p)
  <2>1. starter[p].child \in Daemons
    BY <1>0, <1>3, Child DEF Escalate
  <2>2. QED BY <1>0, <1>3, <2>1, KilledAt DEF Escalate, Kind
<1>4. CASE ChildExited(p)
  <2>1. starter[p].child \in Daemons
    BY <1>0, <1>4, Child DEF ChildExited
  <2>2. daemon' = Removed(daemon, starter[p].child) /\ daemon[starter[p].child].life # "up"
    BY <1>4 DEF ChildExited, Alive
  <2>3. QED BY <1>0, <2>1, <2>2, RemovedAt DEF Kind
<1>5. CASE UNCHANGED daemon
  BY <1>5 DEF Kind
<1>6. QED BY <1>1, <1>2, <1>3, <1>4, <1>5 DEF Ensure, Finish, Reuse, BackOff, Adopt, AwaitReady,
             MarkRunning, CleanUp, EnsureLockTimeout, StarterCrashes

LEMMA StopperKinds ==
    ASSUME Fit, NEW q \in Stoppers, Stop(q) \/ StopFails(q), NEW v \in Daemons
    PROVE  Kind(v)
<1> DEFINE w == stopper[q].worker
<1>0. TypeOK /\ daemon \in [Daemons -> Daemon]
  BY DEF Fit, Inv, TypeOK
<1>1. stopper[q].at # "idle" => w \in Daemons
  BY <1>0, StopWorker
<1>2. CASE StopSample(q) /\ Proven(q)
  <2>1. PICK l \in Termed(w) : daemon' = Signalled(w, l)
    BY <1>2 DEF StopSample
  <2>2. w \in Daemons /\ PidAlive(w)
    BY <1>1, <1>2 DEF StopSample, Proven
  <2>3. CASE Alive(w)
    BY <1>0, <2>1, <2>2, <2>3, TermedAt DEF Kind
  <2>4. CASE ~Alive(w)
    <3>1. daemon' = Signalled(w, daemon[w].life) /\ daemon[w].life # "up"
      BY <2>1, <2>2, <2>4 DEF Termed, Alive
    <3>2. QED BY <1>0, <2>1, <2>2, <2>4, <3>1, SignalledAgain DEF Kind
  <2>5. QED BY <2>3, <2>4
<1>3. CASE StopKill(q)
  <2>1. w \in Daemons /\ daemon' = Killed(w)
    BY <1>1, <1>3 DEF StopKill
  <2>2. QED BY <1>0, <2>1, KilledAt DEF Kind
<1>4. CASE StopRemoveBeat(q)
  <2>1. w \in Daemons /\ daemon' = Removed(daemon, w) /\ state' = state
    BY <1>1, <1>4 DEF StopRemoveBeat
  <2>2. state = None \/ state.worker # w
    BY <1>4 DEF StopRemoveBeat, Fit, Targets
  <2>3. QED BY <1>0, <2>1, <2>2, RemovedAt DEF Kind
<1>5. CASE UNCHANGED daemon
  BY <1>5 DEF Kind
<1>6. QED BY <1>2, <1>3, <1>4, <1>5 DEF Stop, StopRead, StopProbe, StopSample, StopUnlink, StopFails

\* Every step, for every daemon, is one of the kinds above.
LEMMA StepKind ==
    ASSUME Fit, [Next]_vars, NEW v \in Daemons
    PROVE  Kind(v)
<1>0. TypeOK
  BY DEF Fit, Inv
<1>1. CASE \E w \in Daemons : Beat(w) \/ Die(w) \/ Recycle(w)
  BY <1>0, <1>1, DaemonAt DEF Kind
<1>2. CASE Tick
  BY <1>0, <1>2, TickAt DEF Kind
<1>3. CASE UNCHANGED vars
  BY <1>3 DEF vars, Kind
<1>4. QED BY <1>1, <1>2, <1>3, StarterKinds, StopperKinds DEF Next

LEMMA DaemonFields ==
    ASSUME TypeOK, NEW v \in Daemons
    PROVE  /\ daemon[v].life \in Lives /\ daemon[v].file \in BOOLEAN
           /\ daemon[v].age \in Nat /\ daemon[v].beatAge \in Nat
           /\ daemon[v].beatAge <= OldestBeat
BY BeatRange DEF TypeOK, Daemon

LEMMA OlderIs ==
    ASSUME NEW n \in Nat, NEW limit \in Nat
    PROVE  /\ Older(n, FALSE, limit) = n
           /\ Older(n, TRUE, limit) = IF n < limit THEN n + 1 ELSE n
BY DEF Older

LEMMA AgesStep ==
    ASSUME Fit, [Next]_vars
    PROVE  Ages'
<1> SUFFICES ASSUME NEW v \in Daemons
             PROVE  /\ Life(v)' = "unborn" => ~daemon'[v].file /\ daemon'[v].age = 0
                    /\ Life(v)' = "booting" => ~daemon'[v].file /\ daemon'[v].age <= BootLag
                    /\ Life(v)' = "up" => daemon'[v].beatAge <= BeatLag
  BY DEF Ages
<1> DEFINE d == daemon[v]
           e == daemon'[v]
<1>1. /\ d.life = "unborn" => ~d.file /\ d.age = 0
      /\ d.life = "booting" => ~d.file /\ d.age <= BootLag
      /\ d.life = "up" => d.beatAge <= BeatLag
  BY DEF Fit, Ages, Life
<1>2. d.life \in Lives /\ d.file \in BOOLEAN /\ d.age \in Nat /\ d.beatAge \in Nat
  BY DaemonFields DEF Fit, Inv
<1>3. Kind(v)
  BY StepKind
<1>4. CASE e = d
  BY <1>1, <1>4 DEF Life
<1>5. CASE Cleans(d, e) \/ Winds(d, e) \/ Starts(d, e) \/ Beats(d, e) \/ Recycles(d, e)
  BY <1>1, <1>2, <1>5, TimesAssumption DEF Life, Cleans, Winds, Starts, Beats, Recycles
<1>6. CASE Ticks(d, e)
  <2>1. CASE d.life = "unborn"
    <3>1. e.age = Older(d.age, FALSE, RecycleTime)
      BY <1>6, <2>1 DEF Ticks
    <3>2. QED BY <1>1, <1>2, <1>6, <2>1, <3>1, OlderIs DEF Life, Ticks
  <2>2. CASE d.life = "booting"
    BY <1>1, <1>2, <1>6, <2>2 DEF Life, Ticks
  <2>3. CASE d.life = "up"
    <3>1. e.beatAge = Older(d.beatAge, TRUE, OldestBeat) /\ d.beatAge < BeatLag
      BY <1>6, <2>3 DEF Ticks
    <3>2. e.beatAge \in {d.beatAge, d.beatAge + 1}
      BY <3>1 DEF Older
    <3>3. d.beatAge \in Nat /\ d.beatAge < BeatLag
      BY <1>2, <3>1
    <3>4. e.beatAge <= BeatLag
      BY <3>2, <3>3
    <3>5. QED BY <1>6, <2>3, <3>4 DEF Life, Ticks
  <2>4. CASE d.life \notin {"unborn", "booting", "up"}
    BY <1>6, <2>4 DEF Life, Ticks
  <2>5. QED BY <2>1, <2>2, <2>3, <2>4
<1>7. QED BY <1>3, <1>4, <1>5, <1>6 DEF Kind

\* What a step may do to the record.
RecordKind ==
    \/ state' = None
    \/ state' = state
    \/ state # None /\ Tick
    \/ /\ state # None /\ state'.worker = state.worker /\ Life(state.worker) # "booting"
       /\ UNCHANGED daemon
    \/ \E w \in Daemons : /\ ~Born(w) /\ state' = Fresh(w) /\ daemon'[w].life = "booting"
                          /\ state # None => Life(state.worker) \notin Running

LEMMA RecordStep ==
    ASSUME Fit, [Next]_vars
    PROVE  RecordKind
<1>0. TypeOK
  BY DEF Fit, Inv
<1>1. ASSUME NEW p \in Starters, NEW wants \in Wants, Adopt(p, wants) PROVE RecordKind
  <2>1. /\ state # None /\ state' = [state EXCEPT !.status = "running", !.age = 0]
        /\ UNCHANGED daemon
        /\ daemon[state.worker].file
    BY <1>1 DEF Adopt, Adoptable, LooksAlive
  <2>2. state.worker \in Daemons /\ state'.worker = state.worker
    BY <1>0, <2>1, StateWorker, RunningState
  <2>3. QED BY <2>1, <2>2 DEF RecordKind, Fit, Ages
<1>2. ASSUME NEW p \in Starters, NEW wants \in Wants, NEW w \in Daemons, Spawn(p, w, wants)
      PROVE  RecordKind
  <2>1. ~Born(w) /\ state' = Fresh(w) /\ daemon' = Spawned(w, wants, "booting") /\ MustSpawn
    BY <1>2 DEF Spawn, IsNext, Born, Fresh
  <2>2. daemon'[w].life = "booting"
    BY <1>0, <2>1, SpawnedAt
  <2>3. QED BY <2>1, <2>2, Replaceable DEF RecordKind
<1>3. ASSUME NEW p \in Starters, MarkRunning(p) PROVE RecordKind
  <2>1. CASE StillStarting(p)
    <3>1. /\ state # None /\ state' = [state EXCEPT !.status = "running", !.age = 0]
          /\ UNCHANGED daemon /\ starter[p].at = "ready" /\ state.worker = starter[p].child
      BY <1>3, <2>1 DEF MarkRunning, StillStarting
    <3>2. state'.worker = state.worker
      BY <1>0, <3>1, RunningState
    <3>3. QED BY <3>1, <3>2 DEF RecordKind, Fit, Children
  <2>2. CASE ~StillStarting(p)
    BY <1>3, <2>2 DEF MarkRunning, RecordKind
  <2>3. QED BY <2>1, <2>2
<1>4. ASSUME NEW p \in Starters, Ensure(p) \/ Finish(p) \/ EnsureLockTimeout(p) \/ StarterCrashes(p)
      PROVE  RecordKind
  BY <1>1, <1>2, <1>3, <1>4 DEF Ensure, Finish, Reuse, BackOff, SpawnUnrecorded, AwaitReady,
              CleanUp, KillChild, Escalate, ChildExited, EnsureLockTimeout, StarterCrashes, RecordKind
<1>5. ASSUME NEW q \in Stoppers, Stop(q) \/ StopFails(q) PROVE RecordKind
  BY <1>5 DEF Stop, StopRead, StopProbe, StopSample, StopKill, StopUnlink, StopRemoveBeat,
              StopFails, RecordKind
<1>6. ASSUME NEW w \in Daemons, Beat(w) \/ Die(w) \/ Recycle(w) PROVE RecordKind
  BY <1>6 DEF Beat, Die, Recycle, RecordKind
<1>7. CASE Tick
  BY <1>7 DEF Tick, RecordKind
<1>8. QED BY <1>4, <1>5, <1>6, <1>7 DEF Next, vars, RecordKind

LEMMA RecordingStep ==
    ASSUME Fit, [Next]_vars
    PROVE  Recording'
<1> SUFFICES ASSUME state' # None
             PROVE  /\ daemon'[state'.worker].life = "up" => daemon'[state'.worker].file
                    /\ daemon'[state'.worker].life = "booting" =>
                         /\ state'.status = "starting"
                         /\ state'.age <= daemon'[state'.worker].age
  BY DEF Recording, Life
<1>0. TypeOK /\ TypeOK'
  BY StepType DEF Fit, Inv
<1> DEFINE w == state'.worker
<1>1. w \in Daemons /\ state' \in StateFile
  BY <1>0 DEF TypeOK, Opt, StateFile
<1>2. Kind(w)
  BY <1>1, StepKind
<1>3. ASSUME state # None, state'.worker = state.worker, daemon'[w].life = "up"
      PROVE  daemon'[w].file
  <2>1. daemon[w].life = "up" => daemon[w].file
    BY <1>3 DEF Fit, Recording, Life
  <2>2. QED BY <1>2, <1>3, <2>1 DEF Kind, Cleans, Winds, Starts, Beats, Recycles, Ticks
<1>4. ASSUME state # None, state'.worker = state.worker, daemon'[w].life = "booting"
      PROVE  daemon[w].life = "booting"
  <2>1. daemon[w].life # "unborn"
    BY <1>0, <1>4, StateWorker DEF Born
  <2>2. QED BY <1>2, <1>4, <2>1 DEF Kind, Cleans, Winds, Starts, Beats, Recycles, Ticks
<1>5. ASSUME state # None, state.worker = w, daemon[w].life = "booting"
      PROVE  state.status = "starting" /\ state.age <= daemon[w].age
  BY <1>5 DEF Fit, Recording, Life
<1>6. state # None => state.age \in Nat
  BY <1>0 DEF TypeOK, Opt, StateFile
<1>7. daemon[w].age \in Nat /\ daemon'[w].age \in Nat
  BY <1>0, <1>1 DEF TypeOK, Daemon
<1>8. CASE state' = state
  <2>1. ASSUME daemon'[w].life = "booting" PROVE daemon[w].age <= daemon'[w].age
    <3>1. daemon[w].life = "booting"
      BY <1>4, <1>8, <2>1
    <3>2. QED BY <1>2, <1>7, <2>1, <3>1
              DEF Kind, Cleans, Winds, Starts, Beats, Recycles, Ticks
  <2>2. QED BY <1>3, <1>4, <1>5, <1>6, <1>7, <1>8, <2>1
<1>9. CASE state # None /\ Tick
  <2>1. state'.worker = state.worker /\ state'.status = state.status
    BY <1>0, <1>9, TickState
  <2>2. state'.age = Older(state.age, state.status = "starting", StartStale)
    BY <1>0, <1>9 DEF Tick, TypeOK, Opt, StateFile
  <2>3. state'.age <= state.age + 1
    BY <1>6, <1>9, <2>2 DEF Older
  <2>4. daemon'[w].life = daemon[w].life
        /\ (daemon[w].life = "booting" => daemon'[w].age = daemon[w].age + 1)
    BY <1>0, <1>1, <1>9, TickAt DEF Ticks
  <2>5. state'.age \in Nat
    BY <1>1 DEF StateFile
  <2>6. QED BY <1>3, <1>5, <1>6, <1>7, <1>9, <2>1, <2>3, <2>4, <2>5
<1>10. CASE /\ state # None /\ state'.worker = state.worker /\ Life(state.worker) # "booting"
            /\ UNCHANGED daemon
  BY <1>3, <1>10 DEF Life
<1>11. CASE \E v \in Daemons : /\ ~Born(v) /\ state' = Fresh(v) /\ daemon'[v].life = "booting"
  BY <1>7, <1>11 DEF Fresh
<1>12. QED BY <1>8, <1>9, <1>10, <1>11, RecordStep DEF RecordKind

\* What a step may do to an ensure: it stays where it is, or its child has answered, or is
\* signalled, or it leaves.  One that leaves a doomed child leaves no live one.
StarterKind(p) ==
    \/ starter'[p].at = starter[p].at /\ starter'[p].child = starter[p].child
    \/ /\ starter'[p].at = "ready" /\ starter'[p].child = starter[p].child
       /\ starter[p].at = "waiting" /\ daemon[starter[p].child].file /\ UNCHANGED daemon
    \/ /\ starter'[p].at = "killing" /\ starter'[p].child = starter[p].child
       /\ KillChild(p)
    \/ /\ starter'[p].at \notin {"ready", "killing"}
       /\ Doing(p) => Life(starter[p].child) \notin Running \/ starter[p].child \in abandoned'

LEMMA ReturnedAt ==
    ASSUME TypeOK, NEW o \in Starters, NEW D, Returned(o, D)
    PROVE  starter'[o].at = "idle" /\ \A p \in Starters : p # o => starter'[p] = starter[p]
BY DEF Returned, TypeOK

LEMMA MovedAt ==
    ASSUME TypeOK, NEW o \in Starters, NEW at,
           \/ starter' = [starter EXCEPT ![o].at = at]
           \/ starter' = [starter EXCEPT ![o].at = at, ![o].age = 0]
    PROVE  /\ starter'[o].at = at /\ starter'[o].child = starter[o].child
           /\ \A p \in Starters : p # o => starter'[p] = starter[p]
<1>1. starter[o] \in Ensuring
  BY DEF TypeOK
<1>2. QED BY <1>1 DEF TypeOK, Ensuring

LEMMA StarterStep ==
    ASSUME Fit, [Next]_vars, NEW p \in Starters
    PROVE  StarterKind(p)
<1>0. TypeOK
  BY DEF Fit, Inv
<1>1. ASSUME NEW o \in Starters, Ensure(o) \/ Finish(o) \/ EnsureLockTimeout(o) \/ StarterCrashes(o)
      PROVE  StarterKind(p)
  <2>1. CASE (\E D : Returned(o, D)) /\ (~Doing(o) \/ Life(starter[o].child) \notin Running
                                           \/ starter[o].child \in abandoned')
    BY <1>0, <2>1, ReturnedAt DEF StarterKind
  <2>2. CASE Ensure(o)
    <3>1. starter[o].at = "idle"
      BY <2>2 DEF Ensure, Reuse, BackOff, Adopt, Spawn, SpawnUnrecorded, MayCall
    <3>2. CASE \E D : Returned(o, D)
      BY <2>1, <3>1, <3>2 DEF Doing
    <3>3. CASE \E w \in Daemons, wants \in Wants : Spawn(o, w, wants)
      <4>1. PICK w \in Daemons :
              starter' = [starter EXCEPT ![o] = [at |-> "waiting", child |-> w, age |-> 0]]
        BY <3>3 DEF Spawn
      <4>2. starter'[o].at = "waiting" /\ \A v \in Starters : v # o => starter'[v] = starter[v]
        BY <1>0, <4>1 DEF TypeOK
      <4>3. QED BY <3>1, <4>2 DEF StarterKind, Doing
    <3>4. QED BY <2>2, <3>2, <3>3 DEF Ensure, Reuse, BackOff, Adopt, SpawnUnrecorded
  <2>3. CASE AwaitReady(o)
    <3>1. CASE starter' = [starter EXCEPT ![o].at = "ready"] /\ daemon[starter[o].child].file
      <4>1. starter'[o].at = "ready" /\ starter'[o].child = starter[o].child
            /\ \A v \in Starters : v # o => starter'[v] = starter[v]
        BY <1>0, <3>1, MovedAt
      <4>2. QED BY <2>3, <3>1, <4>1 DEF AwaitReady, StarterKind
    <3>2. CASE starter' = [starter EXCEPT ![o].at = "late"]
      <4>1. starter'[o].at = "late" /\ \A v \in Starters : v # o => starter'[v] = starter[v]
        BY <1>0, <3>2, MovedAt
      <4>2. QED BY <2>3, <4>1 DEF AwaitReady, StarterKind, Doing
    <3>3. QED BY <2>3, <3>1, <3>2 DEF AwaitReady, Answers
  <2>4. CASE MarkRunning(o) \/ EnsureLockTimeout(o)
    BY <2>1, <2>4 DEF MarkRunning, EnsureLockTimeout, Doing
  <2>5. CASE CleanUp(o)
    <3>1. CASE starter' = [starter EXCEPT ![o].at = "kill"]
      <4>1. starter'[o].at = "kill" /\ \A v \in Starters : v # o => starter'[v] = starter[v]
        BY <1>0, <3>1, MovedAt
      <4>2. QED BY <2>5, <4>1 DEF CleanUp, StarterKind, Doing
    <3>2. CASE Returned(o, {})
      BY <2>1, <2>5, <3>2 DEF CleanUp, Doing
    <3>3. QED BY <2>5, <3>1, <3>2 DEF CleanUp
  <2>6. CASE KillChild(o)
    <3>1. starter' = [starter EXCEPT ![o].at = "killing", ![o].age = 0]
      BY <2>6 DEF KillChild
    <3>2. starter'[o].at = "killing" /\ starter'[o].child = starter[o].child
          /\ \A v \in Starters : v # o => starter'[v] = starter[v]
      BY <1>0, <3>1, MovedAt
    <3>3. QED BY <2>6, <3>2 DEF StarterKind
  <2>7. CASE Escalate(o)
    BY <2>7 DEF Escalate, StarterKind
  <2>8. CASE ChildExited(o)
    <3>1. Life(starter[o].child) \notin Running /\ Returned(o, {})
      BY <2>8 DEF ChildExited, Alive, Life, Running
    <3>2. QED BY <2>1, <3>1
  <2>9. CASE StarterCrashes(o)
    <3>1. /\ Returned(o, {})
          /\ starter[o].at = "kill" => starter[o].child \in abandoned'
          /\ starter[o].at = "killing" => Life(starter[o].child) \notin Running
      BY <2>9 DEF StarterCrashes, Fit, Children
    <3>2. QED BY <2>1, <3>1 DEF Doing
  <2>10. QED BY <1>1, <2>2, <2>3, <2>4, <2>5, <2>6, <2>7, <2>8, <2>9 DEF Finish
<1>2. CASE Tick
  BY <1>0, <1>2, TickStarter DEF StarterKind
<1>3. CASE UNCHANGED starter
  BY <1>3 DEF StarterKind
<1>4. QED BY <1>1, <1>2, <1>3 DEF Next, vars, Stop, StopRead, StopProbe, StopSample, StopKill,
             StopUnlink, StopRemoveBeat, StopFails, Beat, Die, Recycle

\* Nobody is reborn.
LEMMA BornStep ==
    ASSUME Fit, [Next]_vars, NEW v \in Daemons, Born(v)
    PROVE  /\ daemon'[v].life = "booting" => Life(v) = "booting"
           /\ daemon'[v].life \in Running => Life(v) \in Running
<1>1. Kind(v) /\ daemon[v].life # "unborn"
  BY StepKind DEF Born
<1>2. QED BY <1>1 DEF Kind, Cleans, Winds, Starts, Beats, Recycles, Ticks, Life, Running

LEMMA ChildrenStep ==
    ASSUME Fit, [Next]_vars
    PROVE  Children'
<1> SUFFICES ASSUME NEW p \in Starters
             PROVE  /\ starter'[p].at = "ready" => daemon'[starter'[p].child].life # "booting"
                    /\ starter'[p].at = "killing" => daemon'[starter'[p].child].life \notin Running
  BY DEF Children, Life
<1> DEFINE c == starter[p].child
<1>0. TypeOK /\ Inv /\ Ages
  BY DEF Fit, Inv
<1>1. CASE starter'[p].at \notin {"ready", "killing"}
  BY <1>1
<1>2. CASE starter'[p].at = starter[p].at /\ starter'[p].child = c /\ starter[p].at # "idle"
  <2>1. c \in Daemons /\ Born(c)
    BY <1>0, <1>2, OwnChild
  <2>2. /\ daemon'[c].life = "booting" => Life(c) = "booting"
        /\ daemon'[c].life \in Running => Life(c) \in Running
    BY <2>1, BornStep
  <2>3. QED BY <1>2, <2>2 DEF Fit, Children, Life
<1>3. CASE /\ starter'[p].at = "ready" /\ starter'[p].child = c
           /\ starter[p].at = "waiting" /\ daemon[c].file /\ UNCHANGED daemon
  <2>1. c \in Daemons
    BY <1>0, <1>3, Child
  <2>2. QED BY <1>0, <1>3, <2>1 DEF Ages, Life
<1>4. CASE starter'[p].at = "killing" /\ starter'[p].child = c /\ KillChild(p)
  <2>1. c \in Daemons
    BY <1>0, <1>4, Child DEF KillChild
  <2>2. PICK l \in Termed(c) : daemon' = Signalled(c, l)
    BY <1>4 DEF KillChild
  <2>3. l \notin Running /\ daemon'[c].life = l
    BY <1>0, <2>1, <2>2, SignalledAt DEF Termed, Running
  <2>4. QED BY <1>4, <2>3
<1>5. QED BY <1>1, <1>2, <1>3, <1>4, StarterStep DEF StarterKind

\* What a step may do to a stop.
StopperKind(q) ==
    LET s == stopper[q]
        t == stopper'[q]
    IN  \/ t = s
        \/ /\ Tick /\ t.at = s.at /\ t.worker = s.worker /\ t.sample = s.sample
           /\ t.age = Older(s.age, s.at \in {"sampled", "grace"}, SampleGap + KillGrace)
        \/ t.at = "idle" /\ t.worker = None
        \/ t.at = "probe" /\ state # None /\ t.worker = state.worker
        \/ /\ t.worker = s.worker /\ s.at # "idle"
           /\ \/ t.at = "unlink"
              \/ /\ t.at = "sampled" /\ t.age = 0 /\ t.sample = daemon[s.worker].beatAge
                 /\ LooksAlive(s.worker) /\ UNCHANGED daemon
              \/ /\ t.at = "grace" /\ t.age = 0
                 /\ s.at = "sampled" /\ Proven(q) /\ StopSample(q)
                 /\ \E l \in Termed(s.worker) : daemon' = Signalled(s.worker, l)
              \/ t.at = "rm" /\ (state' = None \/ (state' = state /\ state.worker # s.worker))

LEMMA StopperEnds ==
    ASSUME TypeOK, NEW o \in Stoppers, StopEnds(o)
    PROVE  /\ stopper'[o].at = "idle" /\ stopper'[o].worker = None
           /\ \A q \in Stoppers : q # o => stopper'[q] = stopper[q]
BY DEF StopEnds, TypeOK

LEMMA StopperGoes ==
    ASSUME TypeOK, NEW o \in Stoppers, NEW at, Goes(o, at)
    PROVE  /\ stopper'[o].at = at /\ stopper'[o].worker = stopper[o].worker /\ stopper'[o].age = 0
           /\ \A q \in Stoppers : q # o => stopper'[q] = stopper[q]
<1>1. stopper[o] \in Stopping
  BY DEF TypeOK
<1>2. QED BY <1>1 DEF Goes, TypeOK, Stopping

LEMMA StopperStep ==
    ASSUME Fit, [Next]_vars, NEW q \in Stoppers
    PROVE  StopperKind(q)
<1>0. TypeOK
  BY DEF Fit, Inv
<1>1. ASSUME NEW o \in Stoppers, Stop(o) \/ StopFails(o)
      PROVE  StopperKind(q)
  <2>1. stopper[o] \in Stopping
    BY <1>0 DEF TypeOK
  <2>2. CASE StopRead(o)
    <3>1. /\ stopper'[o].at = "probe" /\ stopper'[o].worker = state.worker /\ state # None
          /\ \A v \in Stoppers : v # o => stopper'[v] = stopper[v]
      BY <1>0, <2>1, <2>2 DEF StopRead, TypeOK, Stopping
    <3>2. QED BY <3>1 DEF StopperKind
  <2>3. CASE StopProbe(o)
    <3>1. CASE LooksAlive(stopper[o].worker)
      <4>1. stopper' = [stopper EXCEPT ![o].at = "sampled", ![o].age = 0,
                                       ![o].sample = daemon[stopper[o].worker].beatAge]
        BY <2>3, <3>1 DEF StopProbe
      <4>2. /\ stopper'[o].at = "sampled" /\ stopper'[o].worker = stopper[o].worker
            /\ stopper'[o].age = 0 /\ stopper'[o].sample = daemon[stopper[o].worker].beatAge
            /\ \A v \in Stoppers : v # o => stopper'[v] = stopper[v]
        BY <1>0, <2>1, <4>1 DEF TypeOK, Stopping
      <4>3. QED BY <2>3, <3>1, <4>2 DEF StopperKind, StopProbe
    <3>2. CASE Goes(o, "unlink")
      BY <1>0, <2>3, <3>2, StopperGoes DEF StopperKind, StopProbe
    <3>3. QED BY <2>3, <3>1, <3>2 DEF StopProbe
  <2>4. CASE StopSample(o)
    <3>1. CASE Proven(o)
      <4>1. /\ Goes(o, "grace") /\ stopper[o].at = "sampled"
            /\ \E l \in Termed(stopper[o].worker) : daemon' = Signalled(stopper[o].worker, l)
        BY <2>4, <3>1 DEF StopSample
      <4>2. QED BY <1>0, <2>4, <3>1, <4>1, StopperGoes DEF StopperKind
    <3>2. CASE ~Proven(o)
      <4>1. Goes(o, "unlink") /\ stopper[o].at = "sampled"
        BY <2>4, <3>2 DEF StopSample
      <4>2. QED BY <1>0, <4>1, StopperGoes DEF StopperKind
    <3>3. QED BY <3>1, <3>2
  <2>5. CASE StopKill(o)
    BY <1>0, <2>5, StopperGoes DEF StopperKind, StopKill
  <2>6. CASE StopUnlink(o)
    <3>1. /\ Goes(o, "rm") /\ stopper[o].at = "unlink"
          /\ state' = None \/ (state' = state /\ Recorded # stopper[o].worker)
      BY <2>6 DEF StopUnlink
    <3>2. state' = None \/ (state' = state /\ state.worker # stopper[o].worker)
      BY <3>1 DEF Recorded
    <3>3. QED BY <1>0, <3>1, <3>2, StopperGoes DEF StopperKind
  <2>7. CASE StopRemoveBeat(o) \/ StopFails(o)
    BY <1>0, <2>7, StopperEnds DEF StopRemoveBeat, StopFails, StopperKind
  <2>8. QED BY <1>1, <2>2, <2>3, <2>4, <2>5, <2>6, <2>7 DEF Stop
<1>2. CASE Tick
  <2> DEFINE age == Older(stopper[q].age, stopper[q].at \in {"sampled", "grace"},
                          SampleGap + KillGrace)
  <2>1. stopper[q] \in Stopping /\ stopper'[q] = [stopper[q] EXCEPT !.age = age]
    BY <1>0, <1>2 DEF Tick, TypeOK, Stopping
  <2> HIDE DEF age
  <2>2. /\ stopper'[q].at = stopper[q].at /\ stopper'[q].worker = stopper[q].worker
        /\ stopper'[q].sample = stopper[q].sample /\ stopper'[q].age = age
    BY <2>1 DEF Stopping
  <2>3. QED BY <1>2, <2>2 DEF StopperKind, age
<1>3. CASE UNCHANGED stopper
  BY <1>3 DEF StopperKind
<1>4. QED BY <1>1, <1>2, <1>3 DEF Next, vars, Ensure, Reuse, BackOff, Adopt, Spawn, SpawnUnrecorded,
             Finish, AwaitReady, MarkRunning, CleanUp, KillChild, Escalate, ChildExited,
             EnsureLockTimeout, StarterCrashes, Beat, Die, Recycle

LEMMA TargetsStep ==
    ASSUME Fit, [Next]_vars
    PROVE  Targets'
<1> SUFFICES ASSUME NEW q \in Stoppers
             PROVE  /\ stopper'[q].worker # None => daemon'[stopper'[q].worker].life # "unborn"
                    /\ stopper'[q].at = "rm" => state' = None \/ state'.worker # stopper'[q].worker
  BY DEF Targets, Born
<1> DEFINE w == stopper[q].worker
<1>0. TypeOK /\ Grows(daemon, daemon')
  BY StepType DEF Fit, Inv
<1>1. w \in Opt(Daemons) /\ (w # None => w \in Daemons /\ daemon[w].life # "unborn")
  BY <1>0 DEF Fit, Targets, Born, TypeOK, Stopping, Opt
<1>2. stopper'[q].worker # None => daemon'[stopper'[q].worker].life # "unborn"
  <2>1. CASE stopper'[q].worker = w
    BY <1>0, <1>1, <2>1 DEF Grows
  <2>2. CASE state # None /\ stopper'[q].worker = state.worker
    BY <1>0, <2>2, StateWorker DEF Grows, Born
  <2>3. QED BY <2>1, <2>2, StopperStep DEF StopperKind
<1>3. ASSUME stopper'[q].at = "rm", stopper[q].at = "rm", stopper'[q].worker = w
      PROVE  state' = None \/ state'.worker # w
  <2>1. state = None \/ state.worker # w
    BY <1>3 DEF Fit, Targets
  <2>2. w # None
    BY <1>0, <1>3 DEF TypeOK
  <2>3. CASE \E v \in Daemons : ~Born(v) /\ state' = Fresh(v)
    BY <1>1, <2>2, <2>3 DEF Born, Fresh
  <2>4. CASE state # None /\ Tick
    BY <1>0, <2>1, <2>4, TickState
  <2>5. QED BY <2>1, <2>3, <2>4, RecordStep DEF RecordKind
<1>4. QED BY <1>2, <1>3, StopperStep DEF StopperKind

LEMMA NotAFile == None \notin StateFile /\ \A w \in Daemons : Fresh(w) # None
BY NoFileAssumption DEF StateFile, Daemons, Fresh

\* Only by a clean-up, which dooms its child, or a stop, which abandons it, does a live
\* daemon lose its record.
LEMMA RecordKept ==
    ASSUME Fit, [Next]_vars, NEW w \in Daemons,
           state # None, state.worker = w, Life(w) \in Running
    PROVE  \/ state' # None /\ state'.worker = w
           \/ w \in abandoned' \/ Doomed(w)'
<1>0. TypeOK
  BY DEF Fit, Inv
<1>1. ASSUME state' = None
      PROVE  w \in abandoned' \/ Doomed(w)'
  <2>1. ASSUME NEW p \in Starters, CleanUp(p)
        PROVE  Doomed(w)'
    <3>1. starter' = [starter EXCEPT ![p].at = "kill"] /\ starter[p].child = w
      BY <1>1, <2>1 DEF CleanUp, StillStarting
    <3>2. starter'[p].at = "kill" /\ starter'[p].child = w
      BY <1>0, <3>1, MovedAt
    <3>3. \E o \in Starters : starter'[o].at \in {"kill", "killing"}
                              /\ starter'[o].child = w
      BY <3>2
    <3>4. QED BY <1>0, <3>3 DEF Doomed
  <2>2. ASSUME NEW q \in Stoppers, StopUnlink(q)
        PROVE  w \in abandoned'
    BY <1>1, <2>2 DEF StopUnlink, Recorded, Alive, Life, Running
  <2>3. ~Tick
    BY <1>0, <1>1, TickState, NotAFile
  <2>4. ASSUME NEW p \in Starters, Ensure(p)
        PROVE  FALSE
    <3>1. CASE \E v \in Daemons, wants \in Wants : Spawn(p, v, wants)
      BY <1>1, <3>1, NotAFile DEF Spawn, Fresh
    <3>2. CASE \E wants \in Wants : Adopt(p, wants)
      BY <1>0, <1>1, <3>2, StateWorker, RunningState, NotAFile DEF Adopt
    <3>3. QED BY <1>1, <2>4, <3>1, <3>2 DEF Ensure, Reuse, BackOff, SpawnUnrecorded
  <2>5. ASSUME NEW p \in Starters, MarkRunning(p)
        PROVE  FALSE
    BY <1>0, <1>1, <2>5, StateWorker, RunningState, NotAFile DEF MarkRunning
  <2>6. QED BY <1>1, <2>1, <2>2, <2>3, <2>4, <2>5 DEF Next, vars, Finish,
               AwaitReady, KillChild, Escalate,
               ChildExited, EnsureLockTimeout, StarterCrashes, Stop, StopRead, StopProbe,
               StopSample, StopKill, StopRemoveBeat, StopFails, Beat, Die, Recycle
<1>2. CASE state # None /\ Tick
  BY <1>0, <1>2, TickState, NotAFile
<1>3. ASSUME NEW v \in Daemons, state' = Fresh(v), ~(Life(state.worker) \in Running)
      PROVE  FALSE
  BY <1>3
<1>4. QED BY <1>1, <1>2, <1>3, RecordStep DEF RecordKind

LEMMA AbandonedGrows ==
    ASSUME [Next]_vars
    PROVE  abandoned \subseteq abandoned'
<1>1. ASSUME NEW p \in Starters, Ensure(p) \/ Finish(p) \/ EnsureLockTimeout(p) \/ StarterCrashes(p)
      PROVE  abandoned \subseteq abandoned'
  BY <1>1 DEF Ensure, Finish, Reuse, BackOff, Adopt, Spawn, SpawnUnrecorded, AwaitReady,
              MarkRunning, CleanUp, KillChild, Escalate, ChildExited, EnsureLockTimeout, StarterCrashes
<1>2. ASSUME NEW q \in Stoppers, Stop(q) \/ StopFails(q)
      PROVE  abandoned \subseteq abandoned'
  BY <1>2 DEF Stop, StopRead, StopProbe, StopSample, StopKill, StopUnlink, StopRemoveBeat, StopFails
<1>3. QED BY <1>1, <1>2 DEF Next, vars, Beat, Die, Recycle, Tick

\* A daemon that is doomed stays so until it is down or given up.
LEMMA DoomedStays ==
    ASSUME Fit, [Next]_vars, NEW v \in Daemons, Doomed(v), Life(v) \in Running
    PROVE  v \in abandoned' \/ Doomed(v)'
<1>1. PICK p \in Starters : starter[p].at \in {"kill", "killing"} /\ starter[p].child = v
  BY DEF Doomed
<1>2. Doing(p)
  BY <1>1 DEF Doing
<1>3. CASE starter'[p].at = starter[p].at /\ starter'[p].child = starter[p].child
  BY <1>1, <1>3 DEF Doomed
<1>4. CASE starter'[p].at = "killing" /\ starter'[p].child = starter[p].child
  BY <1>1, <1>4 DEF Doomed
<1>5. QED BY <1>1, <1>2, <1>3, <1>4, StarterStep DEF StarterKind

LEMMA OnlyRecordedStep ==
    ASSUME Fit, OnlyRecorded, [Next]_vars
    PROVE  OnlyRecorded'
<1> SUFFICES ASSUME NEW v \in Daemons, daemon'[v].life \in Running,
                    v \notin abandoned', ~Doomed(v)'
             PROVE  state' # None /\ state'.worker = v
  BY DEF OnlyRecorded, Serving, Running
<1>1. CASE Born(v)
  <2>1. Life(v) \in Running
    BY <1>1, BornStep
  <2>2. v \notin abandoned /\ ~Doomed(v)
    BY <2>1, AbandonedGrows, DoomedStays
  <2>3. state # None /\ state.worker = v
    BY <2>1, <2>2 DEF OnlyRecorded, Serving, Life, Running
  <2>4. QED BY <2>1, <2>3, RecordKept
<1>2. CASE ~Born(v)
  <2>1. Kind(v) /\ daemon[v].life = "unborn"
    BY <1>2, StepKind DEF Born
  <2>2. state' = Fresh(v)
    BY <2>1 DEF Kind, Cleans, Starts, Winds, Beats, Recycles, Ticks, Running
  <2>3. QED BY <2>2, NotAFile DEF Fresh
<1>3. QED BY <1>1, <1>2

LEMMA InitFit == Init => Fit /\ OnlyRecorded
<1> SUFFICES ASSUME Init
             PROVE  Fit /\ OnlyRecorded
  OBVIOUS
<1>1. Inv
  BY InitType DEF Init, Inv, Separate, Doing
<1>2. \A w \in Daemons : Life(w) = "unborn" /\ daemon[w].file = FALSE /\ daemon[w].age = 0
  BY DEF Init, Life
<1>3. Ages /\ Recording /\ OnlyRecorded
  BY <1>2 DEF Init, Ages, Recording, OnlyRecorded, Serving, Life
<1>4. Children /\ Targets
  BY DEF Init, Children, Targets
<1>5. QED BY <1>1, <1>3, <1>4 DEF Fit

\* Daemons, records and calls fit together, and whoever serves is recorded.
THEOREM Recorder == Spec => [](Fit /\ OnlyRecorded)
<1>1. Fit /\ OnlyRecorded /\ [Next]_vars => (Fit /\ OnlyRecorded)'
  <2>1. ASSUME Fit, OnlyRecorded, [Next]_vars
        PROVE  Fit' /\ OnlyRecorded'
    <3>1. Inv'
      BY <2>1, StepType, StepSeparate DEF Fit, Inv
    <3>2. QED BY <2>1, <3>1, AgesStep, RecordingStep, ChildrenStep, TargetsStep, OnlyRecordedStep
              DEF Fit
  <2>2. QED BY <2>1
<1>2. QED BY InitFit, <1>1, PTL DEF Spec

\* However many processes ensure, stop and crash, at most one daemon serves that no
\* crash and no unproven stop has left behind (worker-lifecycle.mjs:8-10).
THEOREM OneServes == Spec => []OneDaemon
<1>1. Fit /\ OnlyRecorded => OneDaemon
  <2> SUFFICES ASSUME OnlyRecorded
               PROVE  Cardinality(Serving) <= 1
    BY DEF OneDaemon
  <2>1. CASE Serving = {}
    BY <2>1, FS_EmptySet
  <2>2. CASE Serving # {}
    <3>1. Serving = {state.worker}
      BY <2>2 DEF OnlyRecorded
    <3>2. Cardinality({state.worker}) = 1
      BY FS_Singleton, Zenon
    <3>3. QED BY <3>1, <3>2
  <2>3. QED BY <2>1, <2>2
<1>2. QED BY Recorder, <1>1, PTL

-----------------------------------------------------------------------------
(* A stop signals its own daemon.                                          *)

\* While a stop has a daemon in hand, one that dies has not been dead for longer than
\* the stop has been waiting, so its pid is not handed out before the stop is done; and
\* a pid that was another's from the start has a heartbeat that only gets older.
Watched == \A q \in Stoppers :
    LET s == stopper[q]
        d == daemon[s.worker]
    IN  /\ s.at \in {"sampled", "grace"} /\ d.life = "dead" => d.age <= s.age
        /\ s.at = "sampled" =>
             /\ s.age <= SampleGap /\ s.sample < BeatStale
             /\ d.life = "recycled" /\ d.file => d.beatAge >= s.sample + s.age
        /\ s.at = "grace" => s.age <= KillGrace /\ d.life # "recycled"

LEMMA StopperFields ==
    ASSUME TypeOK, NEW q \in Stoppers
    PROVE  /\ stopper[q].age \in Nat /\ stopper[q].sample \in Nat
           /\ stopper[q].at # "idle" => stopper[q].worker \in Daemons
BY BeatRange, StopWorker DEF TypeOK, Stopping

LEMMA TickStop ==
    ASSUME TypeOK, Tick, NEW q \in Stoppers
    PROVE  /\ stopper'[q].at = stopper[q].at /\ stopper'[q].worker = stopper[q].worker
           /\ stopper'[q].sample = stopper[q].sample
           /\ stopper'[q].age = Older(stopper[q].age, stopper[q].at \in {"sampled", "grace"},
                                      SampleGap + KillGrace)
<1> DEFINE age == Older(stopper[q].age, stopper[q].at \in {"sampled", "grace"},
                        SampleGap + KillGrace)
<1>1. stopper[q] \in Stopping /\ stopper'[q] = [stopper[q] EXCEPT !.age = age]
  BY DEF Tick, TypeOK, Stopping
<1> HIDE DEF age
<1>2. /\ stopper'[q].at = stopper[q].at /\ stopper'[q].worker = stopper[q].worker
      /\ stopper'[q].sample = stopper[q].sample /\ stopper'[q].age = age
  BY <1>1 DEF Stopping
<1>3. QED BY <1>2 DEF age

\* The second sample proves a daemon that lives.
LEMMA ProvenLives ==
    ASSUME TypeOK, Watched, NEW q \in Stoppers, stopper[q].at = "sampled", Proven(q)
    PROVE  stopper[q].worker \in Daemons /\ Alive(stopper[q].worker)
<1> DEFINE s == stopper[q]
           d == daemon[s.worker]
<1>1. s.worker \in Daemons /\ s.age \in Nat /\ s.sample \in Nat
  BY StopperFields
<1>2. d.file /\ PidAlive(s.worker) /\ d.beatAge < s.sample + s.age /\ d.beatAge \in Nat
  BY <1>1, DaemonFields DEF Proven
<1>3. d.life # "recycled"
  <2>1. d.life = "recycled" => d.beatAge >= s.sample + s.age
    BY <1>2 DEF Watched
  <2>2. QED BY <1>1, <1>2, <2>1
<1>4. QED BY <1>1, <1>2, <1>3 DEF PidAlive

LEMMA WatchedStep ==
    ASSUME Fit, Watched, [Next]_vars
    PROVE  Watched'
<1> SUFFICES ASSUME NEW q \in Stoppers, stopper'[q].at \in {"sampled", "grace"}
             PROVE  LET t == stopper'[q]
                        e == daemon'[t.worker]
                    IN  /\ e.life = "dead" => e.age <= t.age
                        /\ t.at = "sampled" =>
                             /\ t.age <= SampleGap /\ t.sample < BeatStale
                             /\ e.life = "recycled" /\ e.file => e.beatAge >= t.sample + t.age
                        /\ t.at = "grace" => t.age <= KillGrace /\ e.life # "recycled"
  BY DEF Watched
<1> DEFINE s == stopper[q]
           t == stopper'[q]
           d == daemon[s.worker]
           e == daemon'[s.worker]
<1>0. TypeOK
  BY DEF Fit, Inv
<1>1. s.age \in Nat /\ s.sample \in Nat /\ (s.at # "idle" => s.worker \in Daemons)
  BY <1>0, StopperFields
<1>2. /\ s.at \in {"sampled", "grace"} /\ d.life = "dead" => d.age <= s.age
      /\ s.at = "sampled" =>
           /\ s.age <= SampleGap /\ s.sample < BeatStale
           /\ d.life = "recycled" /\ d.file => d.beatAge >= s.sample + s.age
      /\ s.at = "grace" => s.age <= KillGrace /\ d.life # "recycled"
  BY DEF Watched
<1>3. CASE Tick
  <2>1. /\ t.at = s.at /\ t.worker = s.worker /\ t.sample = s.sample
        /\ t.age = Older(s.age, s.at \in {"sampled", "grace"}, SampleGap + KillGrace)
    BY <1>0, <1>3, TickStop
  <2>2. s.worker \in Daemons
    BY <1>1, <2>1
  <2>3. d.age \in Nat /\ d.beatAge \in Nat /\ d.beatAge <= OldestBeat /\ Ticks(d, e)
    BY <1>0, <1>3, <2>2, DaemonFields, TickAt
  <2>4. /\ s.at = "sampled" => s.age < SampleGap
        /\ s.at = "grace" => s.age < KillGrace
    BY <1>3 DEF Tick, OnTime
  <2>5. t.age = s.age + 1
    <3>1. s.age < SampleGap + KillGrace
      BY <1>1, <2>1, <2>4
    <3>2. (s.at \in {"sampled", "grace"}) = TRUE
      BY <2>1
    <3>3. QED BY <1>1, <2>1, <3>1, <3>2 DEF Older
  <2>6. ASSUME e.life = "dead"
        PROVE  e.age <= t.age
    <3>1. d.life = "dead" /\ e.age = Older(d.age, TRUE, RecycleTime)
      BY <2>3, <2>6 DEF Ticks
    <3>2. e.age = IF d.age < RecycleTime THEN d.age + 1 ELSE d.age
      BY <3>1 DEF Older
    <3>3. e.age \in Nat /\ e.age <= d.age + 1
      BY <2>3, <3>2
    <3>4. d.age <= s.age
      BY <1>2, <2>1, <3>1
    <3>5. QED
      <4> HIDE DEF s, t, d, e
      <4>1. QED BY <1>1, <2>3, <2>5, <3>3, <3>4
  <2>7. ASSUME s.at = "sampled", e.life = "recycled", e.file
        PROVE  e.beatAge >= s.sample + s.age + 1
    <3>1. d.life = "recycled" /\ d.file /\ e.beatAge = Older(d.beatAge, TRUE, OldestBeat)
      <4>1. d.life = "recycled" /\ d.file
        BY <2>3, <2>7 DEF Ticks
      <4>2. (d.life = "up" \/ d.file) = TRUE
        BY <4>1
      <4>3. QED BY <2>3, <4>1, <4>2 DEF Ticks
    <3>2. e.beatAge = IF d.beatAge < OldestBeat THEN d.beatAge + 1 ELSE d.beatAge
      BY <2>3, <3>1, BeatRange, OlderIs
    <3>3. d.beatAge >= s.sample + s.age /\ s.sample < BeatStale /\ s.age < SampleGap
      BY <1>2, <2>4, <2>7, <3>1
    <3>4. s.sample + s.age + 1 <= OldestBeat
      BY <1>1, <3>3 DEF OldestBeat
    <3>5. QED BY <1>1, <2>3, <3>2, <3>3, <3>4, BeatRange
  <2>8. t.at = "sampled" => t.age <= SampleGap /\ t.sample < BeatStale
    BY <1>1, <1>2, <2>1, <2>4, <2>5
  <2>9. t.at = "grace" => t.age <= KillGrace /\ e.life # "recycled"
    BY <1>1, <1>2, <2>1, <2>3, <2>4, <2>5 DEF Ticks
  <2>10. t.sample + t.age = s.sample + s.age + 1
    BY <1>1, <2>1, <2>5
  <2>11. QED BY <2>1, <2>6, <2>7, <2>8, <2>9, <2>10
<1>4. CASE ~Tick /\ t = s
  <2>1. s.worker \in Daemons /\ s.at \in {"sampled", "grace"}
    BY <1>1, <1>4
  <2>2. Kind(s.worker)
    BY <2>1, StepKind
  <2>3. d.life # "unborn"
    BY <1>0, <2>1, NoDaemonIsNone DEF Fit, Targets, Born
  <2>4. d.life = "dead" => d.age < RecycleTime
    BY <1>0, <1>1, <1>2, <2>1, DaemonFields, PunctualAssumption
  <2>5. ~Recycles(d, e)
    BY <1>0, <2>1, <2>4, DaemonFields DEF Recycles
  <2>6. \/ e = d
        \/ e.life = d.life /\ e.age = d.age /\ e.file = FALSE
        \/ e.life \in {"stopping", "up"}
        \/ e.life = "dead" /\ e.age = 0
    BY <1>4, <2>2, <2>3, <2>5 DEF Kind, Cleans, Winds, Starts, Beats
  <2>7. CASE e = d
    BY <1>2, <1>4, <2>7
  <2>8. CASE e.life = d.life /\ e.age = d.age /\ e.file = FALSE
    BY <1>2, <1>4, <2>8
  <2>9. CASE e.life \in {"stopping", "up"}
    BY <1>2, <1>4, <2>9
  <2>10. CASE e.life = "dead" /\ e.age = 0
    BY <1>1, <1>2, <1>4, <2>10
  <2>11. QED BY <2>6, <2>7, <2>8, <2>9, <2>10
<1>5. CASE /\ t.worker = s.worker /\ s.at # "idle" /\ t.at = "sampled" /\ t.age = 0
           /\ t.sample = d.beatAge /\ LooksAlive(s.worker) /\ UNCHANGED daemon
  <2>1. d.life # "dead" /\ d.beatAge < BeatStale /\ d.beatAge \in Nat
    BY <1>0, <1>1, <1>5, DaemonFields DEF LooksAlive, PidAlive, Alive
  <2>2. QED BY <1>5, <2>1
<1>6. CASE /\ t.worker = s.worker /\ t.at = "grace" /\ t.age = 0
           /\ s.at = "sampled" /\ Proven(q)
           /\ \E l \in Termed(s.worker) : daemon' = Signalled(s.worker, l)
  <2>1. s.worker \in Daemons /\ Alive(s.worker)
    BY <1>0, <1>6, ProvenLives
  <2>2. Winds(d, e)
    BY <1>0, <1>6, <2>1, TermedAt
  <2>3. QED BY <1>6, <2>2 DEF Winds
<1>7. QED BY <1>3, <1>4, <1>5, <1>6, StopperStep DEF StopperKind

\* A stop signals the daemon it proved to be there, never the process that has got its
\* pid since, provided pids rest for longer than the sample gap and the kill grace
\* (worker-lifecycle.mjs:144-146).
THEOREM StopsOwnDaemon == Spec => StopsOnlyOurs
<1> DEFINE Signals(q) == StopKill(q) \/ (StopSample(q) /\ stopper'[q].at = "grace")
<1> DEFINE Spares ==
      \A q \in Stoppers :
        StopKill(q) \/ (StopSample(q) /\ stopper'[q].at = "grace")
        => daemon[stopper[q].worker].life # "recycled"
<1>1. Init => Watched
  BY DEF Init, Watched
<1>2. Fit /\ Watched /\ [Next]_vars => Watched'
  BY WatchedStep
<1>3. Fit /\ Watched => Spares
  <2> SUFFICES ASSUME Fit, Watched, NEW q \in Stoppers, Signals(q)
               PROVE  daemon[stopper[q].worker].life # "recycled"
    OBVIOUS
  <2>0. TypeOK
    BY DEF Fit, Inv
  <2>1. CASE StopKill(q)
    BY <2>1 DEF StopKill, Watched
  <2>2. CASE StopSample(q) /\ stopper'[q].at = "grace"
    <3>1. stopper[q].at = "sampled"
      BY <2>2 DEF StopSample
    <3>2. Proven(q)
      BY <2>0, <2>2, StopperGoes DEF StopSample
    <3>3. QED BY <2>0, <3>1, <3>2, ProvenLives DEF Alive
  <2>3. QED BY <2>1, <2>2
<1>4. Fit /\ Watched /\ [Next]_vars => [Spares]_vars
  BY <1>3
<1> HIDE DEF Spares
<1>5. Spec => [](Fit /\ Watched)
  BY <1>1, <1>2, Recorder, PTL DEF Spec
<1>6. Spec => [][Spares]_vars
  BY <1>4, <1>5, PTL DEF Spec
<1>7. QED BY <1>6 DEF StopsOnlyOurs, Spares

=============================================================================
