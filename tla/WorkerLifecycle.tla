--------------------------- MODULE WorkerLifecycle ---------------------------
(***************************************************************************)
(* lib/worker-lifecycle.mjs for one agent: processes that ensure there is  *)
(* a worker daemon (starters), processes that stop it (stoppers), and the  *)
(* daemons themselves with the heartbeat worker.mjs writes.                *)
(*                                                                         *)
(* Every section under the lifecycle lock is one action: it is short and   *)
(* synchronous, and FileLock is about the lock.  What runs outside it (the *)
(* readiness wait, the two heartbeat samples, signals, unlinking a         *)
(* heartbeat file) is interleaved freely.  A process may crash between any *)
(* two steps (another may then take its place), and a locked section may   *)
(* end in a lock timeout instead.                                          *)
(*                                                                         *)
(* Daemons are numbered in the order they were spawned; the number stands  *)
(* for pid and token.  Signals go to pids: the pid of a dead daemon may    *)
(* belong to an unrelated process ("recycled") after a while.              *)
(*                                                                         *)
(* The code only ever compares differences of Date.now() with thresholds,  *)
(* so a time is kept as an age, which grows with every Tick and stops at   *)
(* the largest value a threshold can tell apart: time is not bounded.      *)
(***************************************************************************)
EXTENDS Integers, FiniteSets

CONSTANTS
    Starters,       \* processes that call ensureWorkerSession (one call at a time
                    \* each: further calls in one process share its promise)
    Stoppers,       \* processes that call stopWorker
    None,           \* JavaScript's null
    Wants,          \* the values of allowWrites that starters ask for
    ReadyTimeout,   \* timeoutMs of the readiness wait
    KillGrace,      \* KILL_GRACE_MS
    StartStale,     \* startingStaleMs: when a "starting" state is abandoned
    BeatStale,      \* staleMsFor: when a heartbeat is too old
    SampleGap,      \* the pause of provenLiveAndOurs between its two samples
    BeatLag,        \* assumption: a daemon that is up beats at least this often
    BootLag,        \* assumption: a spawned daemon beats or dies within this time
    RecycleTime,    \* assumption: a pid is not handed out again before this time
    MaxDaemons      \* bound: daemons spawned

ASSUME NoneAssumption == None \notin Nat
ASSUME NoFileAssumption ==
    None \notin [worker : Nat, status : {"starting", "running"}, age : Nat]
ASSUME TimesAssumption ==
    /\ ReadyTimeout \in Nat /\ KillGrace \in Nat /\ StartStale \in Nat
    /\ BeatStale \in Nat /\ SampleGap \in Nat \ {0} /\ BeatLag \in Nat
    /\ BootLag \in Nat /\ RecycleTime \in Nat
ASSUME WantsAssumption == Wants \subseteq BOOLEAN
ASSUME BoundAssumption == MaxDaemons \in Nat
ASSUME OrderAssumption == ReadyTimeout + KillGrace < StartStale
\* A daemon that lives is not taken for dead, and a dead one's pid rests for as long
\* as a stop has it in hand.
ASSUME PunctualAssumption ==
    /\ BeatLag < BeatStale /\ BootLag < StartStale
    /\ SampleGap < RecycleTime /\ KillGrace < RecycleTime

VARIABLES
    state,      \* the state file: which daemon, and "starting" or "running"
    daemon,     \* what is true of each daemon, and its heartbeat file
    starter,    \* where each ensure is, and the daemon it spawned
    stopper,    \* where each stop is
    handedOut,  \* history: daemons some ensure returned as running
    abandoned   \* history: daemons a crash or an unproven stop left behind

vars == <<state, daemon, starter, stopper, handedOut, abandoned>>

Daemons == 1..MaxDaemons
\* The greatest age of a heartbeat that a second sample can still tell from another.
OldestBeat == BeatStale + SampleGap - 1
Opt(X) == X \cup {None}

Alive(w) == daemon[w].life \in {"booting", "up", "stopping"}
PidAlive(w) == Alive(w) \/ daemon[w].life = "recycled"

Init ==
    /\ state = None
    /\ daemon = [w \in Daemons |->
         [life |-> "unborn", writes |-> FALSE, age |-> 0, file |-> FALSE, beatAge |-> 0]]
    /\ starter = [p \in Starters |->
         [at |-> "idle", child |-> None, age |-> 0]]
    /\ stopper = [q \in Stoppers |->
         [at |-> "idle", worker |-> None, sample |-> 0, age |-> 0]]
    /\ handedOut = {}
    /\ abandoned = {}

-----------------------------------------------------------------------------
(* What can be read off the files.                                         *)

\* isAliveAndOurs: one read of the pid table and of the heartbeat file.
LooksAlive(w) == PidAlive(w) /\ daemon[w].file /\ daemon[w].beatAge < BeatStale

Slip_FreshStart == /\ state # None /\ state.status = "starting"
                   /\ state.age < ReadyTimeout
Serves == state # None /\ state.status = "running" /\ LooksAlive(state.worker)
FreshStart == /\ state # None /\ state.status = "starting"
              /\ state.age < StartStale
Adoptable == /\ state # None /\ state.status = "starting"
             /\ ~FreshStart /\ LooksAlive(state.worker)

\* beatAge is the age of a daemon's last heartbeat as long as that matters: while
\* the daemon is up or its heartbeat file exists.
Removed(D, w) == [D EXCEPT ![w].file = FALSE,
                           ![w].beatAge = IF D[w].life = "up" THEN @ ELSE 0]

\* process.kill(-pid): a daemon that is up handles SIGTERM by winding down, one
\* that is not may not have its handler yet.
Termed(w) == IF daemon[w].life = "booting" THEN {"stopping", "dead"}
             ELSE IF daemon[w].life = "up" THEN {"stopping"}
             ELSE {daemon[w].life}
Signalled(w, l) == [daemon EXCEPT ![w].life = l,
                                  ![w].age = IF l = daemon[w].life THEN @ ELSE 0,
                                  ![w].beatAge = IF daemon[w].file THEN @ ELSE 0]
Killed(w) == IF Alive(w) THEN Signalled(w, "dead") ELSE daemon

-----------------------------------------------------------------------------
(* ensureWorkerSession.                                                    *)

Returned(p, running) ==
    /\ starter' = [starter EXCEPT ![p] = [at |-> "idle", child |-> None, age |-> 0]]
    /\ handedOut' = handedOut \cup running
MayCall(p) == starter[p].at = "idle"

\* The daemon serves: it is reused, or refused if its write capability is not the
\* one asked for.
Reuse(p, wants) ==
    /\ MayCall(p) /\ Serves
    /\ Returned(p, IF daemon[state.worker].writes = wants THEN {state.worker} ELSE {})
    /\ UNCHANGED <<state, daemon, stopper, abandoned>>

\* Another starter is at it.
BackOff(p, wants) ==
    /\ MayCall(p) /\ ~Serves /\ FreshStart
    /\ Returned(p, {})
    /\ UNCHANGED <<state, daemon, stopper, abandoned>>

\* The starter is gone, its daemon came up.
Adopt(p, wants) ==
    /\ MayCall(p) /\ Adoptable
    /\ state' = [state EXCEPT !.status = "running", !.age = 0]
    /\ Returned(p, {state.worker})
    /\ UNCHANGED <<daemon, stopper, abandoned>>

\* Nobody there.  The state file names the new daemon, unless writing it fails
\* (then the child is killed at once) or this process dies first.
MustSpawn == ~Serves /\ ~FreshStart /\ ~Adoptable
IsNext(w) == /\ daemon[w].life = "unborn"
             /\ \A v \in Daemons : v < w => daemon[v].life # "unborn"
Cleared == IF state = None THEN daemon ELSE Removed(daemon, state.worker)
Spawned(w, wants, l) ==
    [Cleared EXCEPT ![w] = [@ EXCEPT !.life = l, !.writes = wants]]

Spawn(p, w, wants) ==
    /\ MayCall(p) /\ MustSpawn /\ IsNext(w)
    /\ daemon' = Spawned(w, wants, "booting")
    /\ state' = [worker |-> w, status |-> "starting", age |-> 0]
    /\ starter' = [starter EXCEPT ![p] = [at |-> "waiting", child |-> w, age |-> 0]]
    /\ UNCHANGED <<stopper, handedOut, abandoned>>

SpawnUnrecorded(p, w, wants) ==
    /\ MayCall(p) /\ MustSpawn /\ IsNext(w)
    /\ \/ /\ daemon' = Spawned(w, wants, "dead")
          /\ UNCHANGED abandoned
       \/ /\ daemon' = Spawned(w, wants, "booting")
          /\ abandoned' = abandoned \cup {w}
    /\ Returned(p, {})
    /\ UNCHANGED <<state, stopper>>

\* waitForReady: a heartbeat of our token and a live pid, or the deadline.
Answers(w) == daemon[w].file /\ PidAlive(w)
AwaitReady(p) ==
    LET s == starter[p] IN
    /\ s.at = "waiting"
    /\ \/ Answers(s.child) /\ starter' = [starter EXCEPT ![p].at = "ready"]
       \/ /\ ~Answers(s.child) /\ s.age >= ReadyTimeout
          /\ starter' = [starter EXCEPT ![p].at = "late"]
    /\ UNCHANGED <<state, daemon, stopper, handedOut, abandoned>>

\* The state file still says that our child is starting.
StillStarting(p) ==
    state # None /\ state.worker = starter[p].child /\ state.status = "starting"
Recorded == IF state = None THEN None ELSE state.worker

MarkRunning(p) ==
    /\ starter[p].at = "ready"
    /\ IF StillStarting(p)
       THEN /\ state' = [state EXCEPT !.status = "running", !.age = 0]
            /\ Returned(p, {starter[p].child})
       ELSE /\ Returned(p, {})
            /\ UNCHANGED state
    /\ UNCHANGED <<daemon, stopper, abandoned>>

Slip_CleanUp(p) ==
    /\ starter[p].at = "late"
    /\ IF state # None /\ state.worker = starter[p].child
       THEN /\ state' = None
            /\ starter' = [starter EXCEPT ![p].at = "kill"]
            /\ UNCHANGED handedOut
       ELSE /\ Returned(p, {})
            /\ UNCHANGED state
    /\ UNCHANGED <<daemon, stopper, abandoned>>

\* Too late: under the lock, either take the state file away and kill the child,
\* or leave it to whoever adopted it.
CleanUp(p) ==
    /\ starter[p].at = "late"
    /\ IF StillStarting(p)
       THEN /\ state' = None
            /\ starter' = [starter EXCEPT ![p].at = "kill"]
            /\ UNCHANGED handedOut
       ELSE /\ Returned(p, {})
            /\ UNCHANGED state
    /\ UNCHANGED <<daemon, stopper, abandoned>>

Slip_KillChild(p) ==
    LET w == starter[p].child IN
    /\ starter[p].at = "kill"
    /\ \E l \in Termed(w) : daemon' = Signalled(w, l)
    /\ starter' = [starter EXCEPT ![p].at = "killing", ![p].child = None, ![p].age = 0]
    /\ UNCHANGED <<state, stopper, handedOut, abandoned>>

KillChild(p) ==
    LET w == starter[p].child IN
    /\ starter[p].at = "kill"
    /\ \E l \in Termed(w) : daemon' = Signalled(w, l)
    /\ starter' = [starter EXCEPT ![p].at = "killing", ![p].age = 0]
    /\ UNCHANGED <<state, stopper, handedOut, abandoned>>

Escalate(p) ==
    /\ starter[p].at = "killing" /\ starter[p].age >= KillGrace
    /\ daemon' = Killed(starter[p].child)
    /\ UNCHANGED <<state, starter, stopper, handedOut, abandoned>>

\* onceExit, then the heartbeat file goes.
ChildExited(p) ==
    /\ starter[p].at = "killing" /\ ~Alive(starter[p].child)
    /\ daemon' = Removed(daemon, starter[p].child)
    /\ Returned(p, {})
    /\ UNCHANGED <<state, stopper, abandoned>>

\* The lock of the second section is not to be had: ensure rejects.
EnsureLockTimeout(p) ==
    /\ starter[p].at \in {"ready", "late"}
    /\ Returned(p, {})
    /\ UNCHANGED <<state, daemon, stopper, abandoned>>

StarterCrashes(p) ==
    /\ starter[p].at # "idle"
    /\ Returned(p, {})
    /\ abandoned' = IF starter[p].at = "kill" THEN abandoned \cup {starter[p].child}
                    ELSE abandoned
    /\ UNCHANGED <<state, daemon, stopper>>

-----------------------------------------------------------------------------
(* stopWorker.                                                             *)

Goes(q, at) ==
    stopper' = [stopper EXCEPT ![q].at = at, ![q].sample = 0, ![q].age = 0]

StopRead(q) ==
    /\ stopper[q].at = "idle" /\ state # None
    /\ stopper' = [stopper EXCEPT ![q].at = "probe", ![q].worker = state.worker]
    /\ UNCHANGED <<state, daemon, starter, handedOut, abandoned>>

\* provenLiveAndOurs, first sample.
StopProbe(q) ==
    LET w == stopper[q].worker IN
    /\ stopper[q].at = "probe"
    /\ IF LooksAlive(w)
       THEN stopper' = [stopper EXCEPT ![q].at = "sampled", ![q].age = 0,
                                       ![q].sample = daemon[w].beatAge]
       ELSE Goes(q, "unlink")
    /\ UNCHANGED <<state, daemon, starter, handedOut, abandoned>>

Slip_Proven(q) == Answers(stopper[q].worker)
Proven(q) == LET w == stopper[q].worker IN
    /\ daemon[w].file /\ PidAlive(w)
    /\ daemon[w].beatAge < stopper[q].sample + stopper[q].age

\* The second sample; SIGTERM follows in the same synchronous stretch.
StopSample(q) ==
    LET w == stopper[q].worker IN
    /\ stopper[q].at = "sampled" /\ stopper[q].age >= SampleGap
    /\ IF Proven(q)
       THEN /\ Goes(q, "grace")
            /\ \E l \in Termed(w) : daemon' = Signalled(w, l)
       ELSE /\ Goes(q, "unlink")
            /\ UNCHANGED daemon
    /\ UNCHANGED <<state, starter, handedOut, abandoned>>

StopKill(q) ==
    /\ stopper[q].at = "grace" /\ stopper[q].age >= KillGrace
    /\ Goes(q, "unlink")
    /\ daemon' = Killed(stopper[q].worker)
    /\ UNCHANGED <<state, starter, handedOut, abandoned>>

\* Under the lock: the state file goes if it still names the daemon.
StopUnlink(q) ==
    LET w == stopper[q].worker IN
    /\ stopper[q].at = "unlink"
    /\ Goes(q, "rm")
    /\ IF Recorded = w
       THEN state' = None /\ abandoned' = abandoned \cup (IF Alive(w) THEN {w} ELSE {})
       ELSE UNCHANGED <<state, abandoned>>
    /\ UNCHANGED <<daemon, starter, handedOut>>

StopEnds(q) ==
    stopper' = [stopper EXCEPT ![q] = [at |-> "idle", worker |-> None, sample |-> 0, age |-> 0]]

StopRemoveBeat(q) ==
    /\ stopper[q].at = "rm"
    /\ daemon' = Removed(daemon, stopper[q].worker)
    /\ StopEnds(q)
    /\ UNCHANGED <<state, starter, handedOut, abandoned>>

\* The lock is not to be had, or the process dies.
StopFails(q) ==
    /\ stopper[q].at # "idle"
    /\ StopEnds(q)
    /\ UNCHANGED <<state, daemon, starter, handedOut, abandoned>>

-----------------------------------------------------------------------------
(* The daemons: worker.mjs.                                                *)

\* The first heartbeat, at start, and one per interval.
Beat(w) ==
    /\ \/ daemon[w].life = "booting"
       \/ daemon[w].life = "up" /\ (daemon[w].beatAge > 0 \/ ~daemon[w].file)
    /\ daemon' = [daemon EXCEPT ![w].life = "up", ![w].age = 0,
                                ![w].file = TRUE, ![w].beatAge = 0]
    /\ UNCHANGED <<state, starter, stopper, handedOut, abandoned>>

\* A daemon crashes, or has wound down after SIGTERM.
Die(w) ==
    /\ Alive(w)
    /\ daemon' = Signalled(w, "dead")
    /\ UNCHANGED <<state, starter, stopper, handedOut, abandoned>>

Recycle(w) ==
    /\ daemon[w].life = "dead" /\ daemon[w].age >= RecycleTime
    /\ daemon' = [daemon EXCEPT ![w].life = "recycled", ![w].age = 0]
    /\ UNCHANGED <<state, starter, stopper, handedOut, abandoned>>

\* Time: daemons are as punctual as BeatLag and BootLag say, and the timers of a
\* stop fire when they are due.
Punctual(w) ==
    /\ daemon[w].life = "up" => daemon[w].beatAge < BeatLag
    /\ daemon[w].life = "booting" => daemon[w].age < BootLag
OnTime(q) ==
    /\ stopper[q].at # "probe"
    /\ stopper[q].at = "sampled" => stopper[q].age < SampleGap
    /\ stopper[q].at = "grace" => stopper[q].age < KillGrace

Older(n, running, limit) == IF running /\ n < limit THEN n + 1 ELSE n
Tick ==
    /\ \A w \in Daemons : Punctual(w)
    /\ \A q \in Stoppers : OnTime(q)
    /\ state' = IF state = None THEN None
                ELSE [state EXCEPT !.age = Older(@, state.status = "starting", StartStale)]
    /\ daemon' = [w \in Daemons |-> LET d == daemon[w] IN
         [d EXCEPT !.age = IF d.life = "booting" THEN @ + 1
                           ELSE Older(@, d.life = "dead", RecycleTime),
                   !.beatAge = Older(@, d.life = "up" \/ d.file, OldestBeat)]]
    /\ starter' = [p \in Starters |-> LET s == starter[p] IN
         [s EXCEPT !.age = CASE s.at = "waiting" -> Older(@, TRUE, ReadyTimeout)
                             [] s.at = "killing" -> Older(@, TRUE, KillGrace)
                             [] OTHER -> @]]
    /\ stopper' = [q \in Stoppers |-> LET s == stopper[q] IN
         [s EXCEPT !.age = Older(@, s.at \in {"sampled", "grace"}, SampleGap + KillGrace)]]
    /\ UNCHANGED <<handedOut, abandoned>>

-----------------------------------------------------------------------------

Ensure(p) == \E wants \in Wants :
    \/ Reuse(p, wants) \/ BackOff(p, wants) \/ Adopt(p, wants)
    \/ \E w \in Daemons : Spawn(p, w, wants) \/ SpawnUnrecorded(p, w, wants)
Finish(p) == AwaitReady(p) \/ MarkRunning(p) \/ CleanUp(p) \/ KillChild(p)
               \/ Escalate(p) \/ ChildExited(p)
Stop(q) == StopRead(q) \/ StopProbe(q) \/ StopSample(q) \/ StopKill(q)
             \/ StopUnlink(q) \/ StopRemoveBeat(q)

Next ==
    \/ \E p \in Starters :
         Ensure(p) \/ Finish(p) \/ EnsureLockTimeout(p) \/ StarterCrashes(p)
    \/ \E q \in Stoppers : Stop(q) \/ StopFails(q)
    \/ \E w \in Daemons : Beat(w) \/ Die(w) \/ Recycle(w)
    \/ Tick

Spec == Init /\ [][Next]_vars

-----------------------------------------------------------------------------
(* Properties.                                                             *)

Lives == {"unborn", "booting", "up", "stopping", "dead", "recycled"}
StateFile == [worker : Daemons, status : {"starting", "running"}, age : 0..StartStale]
Daemon == [life : Lives, writes : BOOLEAN, age : Nat, file : BOOLEAN,
           beatAge : 0..OldestBeat]
Ensuring == [at : {"idle", "waiting", "ready", "late", "kill", "killing"},
             child : Opt(Daemons), age : Nat]
Stopping == [at : {"idle", "probe", "sampled", "grace", "unlink", "rm"},
             worker : Opt(Daemons), sample : 0..OldestBeat, age : Nat]

\* The shape of the state: what is named exists.
TypeOK ==
    /\ state \in Opt(StateFile)
    /\ daemon \in [Daemons -> Daemon]
    /\ starter \in [Starters -> Ensuring]
    /\ stopper \in [Stoppers -> Stopping]
    /\ handedOut \subseteq Daemons /\ abandoned \subseteq Daemons
    /\ state # None => daemon[state.worker].life # "unborn"
    /\ \A p \in Starters : starter[p].at # "idle" => starter[p].child # None
    /\ \A q \in Stoppers : stopper[q].at # "idle" => stopper[q].worker # None

\* The child of a starter that has given up on it: the clean-up has taken its record
\* away, the SIGTERM or SIGKILL is still to come.
Doomed(w) == \E p \in Starters : starter[p].at \in {"kill", "killing"} /\ starter[p].child = w
Serving == {w \in Daemons : daemon[w].life \in {"booting", "up"}
                            /\ w \notin abandoned /\ ~Doomed(w)}

\* However many processes ensure, stop and crash, no two daemons drain the queue of
\* the agent (worker-lifecycle.mjs:8-10), apart from those a crash in the middle of a
\* spawn or of a clean-up, or an unproven stop, has left behind (`abandoned`), and
\* from a child its starter is about to kill (`Doomed`): from the end of the locked
\* clean-up until the signal arrives (lines 363-369) such a child may still be up
\* while another ensure has spawned its successor.
OneDaemon == Cardinality(Serving) <= 1

\* A starter that gave up on its daemon never kills one that another process
\* was told is running: adoption and clean-up exclude each other
\* (worker-lifecycle.mjs:14-15).
SparesAdopted ==
    \A p \in Starters : starter[p].at \in {"kill", "killing"} => starter[p].child \notin handedOut

\* A stop signals the daemon it proved to be there, never the process that has
\* got its pid since, provided pids are not handed out again within the sample
\* gap and the kill grace (worker-lifecycle.mjs:144-146).
StopsOnlyOurs ==
    [][\A q \in Stoppers :
         StopKill(q) \/ (StopSample(q) /\ stopper'[q].at = "grace")
         => daemon[stopper[q].worker].life # "recycled"]_vars

\* worker-lifecycle.mjs:341, "adopted/replaced by someone else; relinquish
\* ownership", and 374, "Another process adopted this child": a starter that finds
\* its live child no longer recorded as starting gives it up to somebody.
RelinquishesToSuccessor ==
    [][\A p \in Starters :
         (MarkRunning(p) \/ CleanUp(p)) /\ ~StillStarting(p) /\ Alive(starter[p].child)
         => state # None]_vars

=============================================================================
