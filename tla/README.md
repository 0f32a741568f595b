# A verification model of the agent relay

TLA+ specifications of the relay in `src/`: a job queue in a shared file, the file
itself and the lock around it, the worker daemons that drain it and their life cycle,
the processes that dispatch and wait, and the server and the stop hooks that tell a
session what became of its jobs. TLC checks the modules on small instances; TLAPS proves
the most important properties for every value of the constants.

1. [The system](#1-the-system) (inventory)
2. [Modules and how they relate to the code](#2-modules-and-code)
3. [Runs: what is checked, bounds, fairness](#3-runs)
4. [What the runs found](#4-findings)
5. [Proofs](#5-proofs)
6. [What is not modelled, and the plan](#6-not-modelled-and-plan)

`tlc -config X.cfg MCModule` repeats a run, `tlapm XProofs.tla` a proof. `PROJECT.json`
lists components, runs, mutants, hazards, findings, theorems, and, for every definition,
the lines of source it translates.

---------------------------------------------------------------------------

## 1. The system

Several OS processes share one directory. MCP servers (one per editor session) enqueue
jobs, worker daemons claim and run them, stop hooks and operators' CLIs read and settle
them. Nothing but files connects them: there is no broker and no server that owns the
queue.

| component | state | operations | with whom, and how |
|---|---|---|---|
| **job store API** `lib/relay-jobs.mjs` | list of jobs, agents (`store.json`) | `enqueue claim startRunning heartbeat release complete fail cancel park recover needsReview resolveReview registerAgent resetStore`, reads | called by every process; every call is lock, load, **sweep**, operation, persist |
| **store file** same | `store.json`, temp file, `events.ndjson` | load, persist (temp, fsync, rename), append | the file system; crashes |
| **file lock** `lib/file-lock.mjs` | one lock file with a nonce | `withFileLock` | around every store transaction and every life cycle decision |
| **job worker** `lib/relay-worker.mjs` | loop position, claim in hand, abort signal | `runWorkerLoop drainOnce processJob dispatchAndWait` | store calls; the executor's turn; heartbeat timer; shutdown signal |
| **worker lifecycle** `lib/worker-lifecycle.mjs`, `worker.mjs` | state file, heartbeat file, pids | `ensureWorkerSession stopWorker`, heartbeat | servers start and stop daemons they share; signals to process groups |
| **stop hook, ownership** `relay-hook.mjs relay-owned.mjs` | owned ids per session, ids already announced | record, claim, announce | server writes, hook and channel read |
| **MCP server** `server.mjs` | waiters, subscribers, watcher | tools `dispatch`, `dispatch_wait`, `status`... | store calls, `ensureWorkerSession`, file watcher |
| **executors** `codex-executor claude-executor executor-registry` | child process | `runTurn` | the worker |
| **worktree runner** `worktree-runner.mjs` | a git worktree | create, run, remove | git |
| **review CLI** `bin/relay-review.mjs` | none | list, approve, reject | store calls |
| **paths, installer, launcher** | none shared | | |

### What is hard, and what makes each part correct

**Store API.** No timer frees anything: leases and TTLs end because *somebody's* next
call sweeps first. Callers are late, repeated, out of date. The clock is read *before*
the lock is waited for, so a transaction may work with an old time. The same job is
settled, revived by an operator, settled again. Right means: one retained job per
request id; a result only from the last claim; bounded retries; nothing left of an
earlier end; leases neither cut short nor outlived; only finished jobs are dropped, the
oldest first; work with possible side effects never goes back to the queue by itself;
every transaction is a step of the state machine in the file's header.

**File lock.** Create, write, stat, rename, read-back and unlink are separate system
calls of processes that may die or be paused between any two. Right means: it excludes;
a dead holder does not block the others for ever; a wait ends.

**Worker.** While a turn runs the job can be cancelled, expire, be claimed by somebody
else; the worker may be told to stop or die. Right means: a write turn never runs twice
without an operator's decision in between; nothing that requires review runs unreviewed;
turns start owned; results are stored by the owner; lost turns are aborted; open jobs
end.

**Life cycle.** Decisions are made under a lock, but the waits, the probes and the
signals are not. Pids are reused. Right means: one daemon per agent, no daemon that
somebody was told is running is killed by a starter, no stranger is signalled.

**Store file.** Creating, writing, syncing and renaming a temporary file, syncing the
directory and appending the events are separate calls of a process that may die between
any two, and so may the machine. Right means: whoever reads the file finds an old store
or a new one, with everything that was reported; a damaged file is never mistaken for an
empty queue.

**Dispatcher.** It owns the claim like a worker but does not wait for its turn for ever.
Right means: the call returns; a write turn it abandons is not run again by itself; what
it leaves behind is settled.

**Hook and ownership, server.** Three ways lead to one session (the answer of a
`dispatch_wait`, the channel, the next stop), over three files with no common lock; each
way marks before it tells. Right means: a session is told of its own jobs, of each end
at most once, and is not left without; a wait ends and a subscriber hears of changes
although the watch comes and goes and events of the file system may be missed.

`PROJECT.json` lists the hazards at their lines, with the properties that cover each and
a note on those nothing covers yet.

---------------------------------------------------------------------------

## 2. Modules and code

```
JobLifecycle      <-- refinement --   RelayJobs  (jobs agents now lastJob lastToken)
                                         | EXTENDS
                                      JobStore   (operators on a store value)
RelayWorker   -- EXTENDS --> RelayJobs           (workers, clients, operators over the store)
RelayDispatch -- EXTENDS --> RelayWorker         (dispatchAndWait next to them)
RelayTurns    -- EXTENDS --> RelayWorker         (with a record of each job's last turn)
FileLock                                         (the lock, system call by system call)
AtomicStore       <-- refinement --   StoreFile  (the file under the lock, call by call)
                                         | EXTENDS
                                      FileLock
WorkerLifecycle                                  (ensure, stop, daemons)
RelayServer                                      (the server of one session)
RelaySession  -- EXTENDS --> RelayServer         (and the stop hooks of that session)
XProofs      -- EXTENDS --> X, TLAPS             (RelayJobs, FileLock, StoreFile,
                                                  WorkerLifecycle, RelaySession)
RelayJobsSteps      -- EXTENDS --> RelayJobsProofs
RelayWorkerProofs   -- EXTENDS --> RelayDispatch, RelayTurns, RelayJobsSteps
StoreFileProofs     -- EXTENDS --> FileLockProofs
StoreFileRefinement -- EXTENDS --> StoreFileProofs
MCX          -- EXTENDS --> X                    (what TLC runs; X.cfg gives the constants)
```

**Slips.** A definition `Slip_X` sits before `X` and is `X` with a plausible bug in it
(a boundary off by one, a field not reset, a dropped check). No specification uses it.
Each is paired with a property that must fail when `X` is replaced by it
(`PROJECT.json`, "mutants"): it shows that the property can notice that bug.

### JobStore, RelayJobs: `relay-jobs.mjs`

A store is a function from job id to job record. Ids grow and jobs are only appended or
filtered, so the order of ids is the order of `store.jobs`. The index is rebuilt from
the jobs at each load and so is not state. Every code function is an operator of the
same name on the store value (`Sweep`, `EnqueueIn`, `CompleteIn`, ...); `Sweep` is one
pass over all jobs (`TtlOver`, `LeaseOver`, `Requeued` ...) followed by retention and
the hard cap. `RelayJobs` has one action per exported function: pick a clock reading at
most `LockWait` old, sweep, apply, with guards from the code's early returns. A refused
call still sweeps, because the code persists the sweep.

Callers are not processes here: any call may come with any job and any token ever handed
out, at any time. That includes every late, duplicated and forged call.

Abstracted: results are named by the claim whose turn produced them, an error message by
its presence, payloads are opaque, event lines are left out. `fail` and `park` leave a
job without one if their caller passes none (`errorMessage` is null by default); every
caller in the repository passes one, and the half of `NothingLeftOfEarlierEnds` that says
a failed job shows an error rests on that. `maxAttempts` and `maxJobs`
are constants (the code keeps `maxAttempts` per job and `maxJobs` per caller). `recover`
is modelled because it is exported; no tool or CLI calls it today.

### JobLifecycle: the header of `relay-jobs.mjs` (lines 37-48)

The state machine alone: no clock, tokens or cap. One step moves every job by what time
may do to it and then at most one job by what a call may do.
`RelayJobs!ImplementsLifecycle` maps a retained job to its state and a dropped one to
`"gone"`. It says, among other things, that a job with policy `park` never leaves
`claimed`/`running` for `queued` by time, and that what waits for an operator is never
dropped.

### FileLock: `file-lock.mjs`

One action per file-system call of `withFileLock`: `Open` (`wx`), `Write` (nonce),
`Stat`, `Rename` (steal), `Wait`, `Fn`, `ReadBack`, `Unlink`; plus `Crash` and `Tick`.
The write of the nonce, or its fsync, may fail (`CreateFails`): the call throws and
leaves a lock file behind that nobody holds, like one of a dead process. A process
stands for its nonce. Time is kept as the age of the file and the time each call has
waited, cut off just past the limits, so it is unbounded. `Prompt` adds the assumption
the code documents (`relay-jobs.mjs:32-35`): no live holder outstays `lockStaleMs`.
`everStale` remembers that some file has grown stale.

### StoreFile: `withStore`, `resetStore` of `relay-jobs.mjs`

`FileLock` with the function that runs under the lock refined into its calls: `Load`
(with the sweep and the operation), `Archive` (of `resetStore`), `WriteTmp`, `FsyncTmp`,
`Swap` (the rename), `SyncDir`, `Emit` (the event append); any of the calls of
`persistStore` may fail (`PersistFails`). A transaction is a number, a store the set of
transactions it shows: that is all that tells a lost update from a kept one. Next to the
file as processes see it, `disk` is the set of contents it may have after a power
failure: an unsynced file may be garbage, an unsynced rename may be undone. `dirSync`
says whether the platform can sync a directory (the code ignores the error if not).
`Damage` is a program that is not this one writing to the file.

### AtomicStore: the header of `relay-jobs.mjs` (lines 17-35)

The promise alone. A transaction starts from the store in place, if that can be read,
and only while no other is under way (`Begin`, `BeginReset`); it takes effect whole
(`Commit`) or not at all (`Abandon`). `possible` are the stores a power failure may
leave: what has been in place since `Sync` last made one durable. A transaction is
reported once it is in all of them (`Report`). What else writes to the file is `Damage`;
a damaged file serves nobody until a reset, or until a transaction that had read it
before takes effect. Two things void the promise, and both are documented: two holders
of the lock at once (`broken`, after which a writer may `Overwrite` what another did),
and a power failure where directories cannot be synced (`~durable`), which may take back
what was reported.

`StoreFile!ImplementsAtomicStore` maps the file to the store (a missing one to the empty
store), the contents of `disk` to `possible`, and what the process in `persistStore` is
about to put in place to `pending`. So `Load` begins a transaction, `Swap` commits it,
`SyncDir` syncs and `Emit` reports; `PersistFails` and `Die` abandon it.

### RelayWorker: `relay-worker.mjs`, `worker.mjs`

Every store call of a worker is one `RelayJobs` transaction; other processes run between
any two. `Drain` and `ClaimNext` are `drainOnce`; `Refuse HoldForReview Start BeginTurn
TickCheck TickRenew EndTurn Decide Settle` are `processJob` in order, including the two
transactions of a heartbeat tick and the check of the store after the turn. Whether a
call was granted is read off the store it leaves. `Stop` is SIGTERM, `Leave` the end of
the loop (an idle timeout is the same), `Crash` a kill or an uncaught `LOCK_TIMEOUT`. A
worker may stall anywhere. Next to the workers are a client (enqueue, cancel) and an
operator (recover, approve, reject).

A turn is an action that ends in one of three ways: a result, a result the model flags
for review, an error.

### RelayTurns: the turns of `processJob`

`RelayWorker` with a history variable: `lastTurn[i]` is the claim under which the last
turn of job i began, and what became of it. The turn is *open* until it returns
something that may be stored (`Returns`, *good*) or its claim is lost (`LosesClaim`,
*void*), whoever takes it away and whenever. `ResultsOfLastTurn` compares the results in
the store with that record, which the code does not have.

### RelayDispatch: `dispatchAndWait` of `relay-worker.mjs`

A dispatcher is a worker that does not drain the queue. Its `processJob` is that of
`RelayWorker`; `call` is the coroutine that waits for it: `DispatchEnqueue`,
`DispatchClaim` (or observe), `Timeout` (aborts the turn), `RaceEnds` (processJob is
done, or the grace time is over), `ForceSettle` (park or release, fenced by the token).
The two share one thread, so `processJob` rests while the call settles by force. A store
call may throw in either of them (`Throw`, `CallThrows`), and the process may die. The
executor of a dispatcher may never end its turn, abort or not. The read loop of a
dispatcher that only observes changes no more than any other read.

### RelayServer: `server.mjs`, `relay-owned.mjs`, `channelKeys` of `relay-hook.mjs`

The server of one session. It has one thread, so `busy` says at which of its effects on
files or output a handler is, and a `dispatch_wait` that waits gives the thread back
(`wait`). `Dispatch`, `DispatchWait`, `Own`, `Look`, `Note`, `Reply`, `FallbackTimer`,
`Deadline` are the two tools; `StartWatching`, `WatchEvent` (spurious, late or never),
`PollTick` and the end of a call are the watch; `EmitUpdates`, `EmitKey`, `Push` are
what subscribers and the channel get; `Initialized`, `Subscribe`, `Unsubscribe`, `Boot`
and `Exit` the client and the process. The store around it is reduced to one state per
job and the number of times it has settled: what siblings, workers, operators and the
sweep do to a job is the business of `RelayJobs`. A key `<<j, n>>` stands for
`id:state:terminalAtMs`.

Every write of the ownership file may fail, because the code swallows lock timeouts and
errors.

### RelaySession: `relay-stop-hook.mjs`, `relay-hook.mjs`

`RelayServer` and, one at a time, the hooks of the same session: `StartHook` reads the
ownership file, `Seed` marks what is old, `CheckStop` reads the seen-set and the store,
`PollJobs` and `Reload` are one round of the long poll (first the store, then the
ownership file), `MarkSeen` and `Block` are the last two lines. A hook may be killed
anywhere (`KillHook`), the seen-set may fail to be written and the store to be read.
`Observe` keeps what the properties remember of the steps of the server, `lost` the keys
that were marked or recorded by a process that then died before it told them.

### WorkerLifecycle: `worker-lifecycle.mjs`, the heartbeat of `worker.mjs`

Starters run `ensureWorkerSession`: `Reuse` (or refuse), `BackOff`, `Adopt`, `Spawn`,
`AwaitReady`, `MarkRunning`, `CleanUp`, `KillChild`, `Escalate`, `ChildExited`. Stoppers
run `stopWorker`: `StopRead`, the two samples (`StopProbe`, `StopSample` with SIGTERM),
`StopKill`, `StopUnlink`, `StopRemoveBeat`. Daemons boot, beat, wind down and die; the
pid of a dead one may be handed to a stranger (`Recycle`). Each section under the
lifecycle lock is one action; everything outside it interleaves. Any process may crash
between two actions, and a locked section may end in a lock timeout.

Times are ages that grow with `Tick` and stop at the largest value a threshold can tell
apart, so time is unbounded. (The age of a heartbeat stops at `OldestBeat`, a sample gap
past the staleness limit: a stop compares two samples taken `SampleGap` apart, and two
looks at the frozen heartbeat of a dead daemon must not seem to differ because the first
was below the cap and the second at it.) Daemons are numbered; the number stands for pid
and token. A crashed starter's place can be taken by another process.

*Assumptions about timing*, each a constant. `OrderAssumption` is the code's own:
`ReadyTimeout + KillGrace < StartStale`. `PunctualAssumption` is about the machine: a
daemon that is up beats at least every `BeatLag < BeatStale`; a spawned daemon beats or
dies within `BootLag < StartStale`; a pid is not reused before `RecycleTime`, which is
longer than `SampleGap` and than `KillGrace`. The two samples of a stop are at least a
time unit apart, and its timers fire when due. A machine that violates one of them is
outside the model: if a daemon takes longer to come up than `StartStale`, for example,
the next ensure will start a second one beside it.

---------------------------------------------------------------------------

## 3. Runs

Deadlock is checked in every run.

| run | instance | properties | question |
|---|---|---|---|
| **JobsCalls** | 1 job, 3 claims, leases {none, 1}, TTL {none, 2}, calls to 4, clock to 7, readings up to 1 old | `TypeOK ResultsFenced NothingLeftOfEarlierEnds RetriesBounded NoEarlyExpiry SettlesWithinLease LimitsEnd ImplementsLifecycle` | every call with every token at every time; with nobody but readers left, does what must end, end? |
| **JobsStore** | 2 requests, room for 1 job | `OneJobPerRequest GrowsOnlyWithLiveWork EvictsOldestWhenFull ImplementsLifecycle` | sweeps that move both jobs at once |
| **FileLock** | 3 processes, 2 mortal, all may fail to write, Stale 2, Timeout 1 | `TypeOK ExcludesUntilStale DeadLocksVanish WaitsEnd` | what holds of the lock, system call by system call |
| **StoreFile** | 2 processes, 2 transactions and any number of resets; stale holders, one power failure, one damage (3 million states) | `NeverTorn ReportedStays ImplementsAtomicStore` | what deaths, power failures, full disks and double writers do to the file |
| **Worker** | 2 workers (1 mortal), a job of each kind (read, write, gated, blank), 5 claims | `WriteRunsOncePerDecision ReviewBeforeTurn TurnsStartOwned ResultsOfLastTurn` | what stops, crashes, lost leases and operators do to a turn |
| **Dispatch** | 1 worker, 1 mortal dispatcher, read and write jobs, 4 claims | `ForcedWritesPark LostTurnsAbort JobsSettle DispatchReturns` | does the call return, and who settles what it leaves? |
| **Lifecycle** | 2 starters, 1 stopper, 2 daemons | `TypeOK OneDaemon SparesAdopted StopsOnlyOurs` | overlapping ensures and stops that crash and time out (1.3 million states) |
| **Server** | 1 job, 2 waiting calls, 1 subscription, channel on or off | `RTypeOK ChannelTellsOnce AnswersCome UpdatesReach ChannelTells` | whatever starts and stops the watch, do calls end and changes reach? |
| **Session** | 1 job, 1 waiting call, hooks one after the other (4.6 million states) | `OwnJobsOnly HookRepeatsNothing HookTellsOnce NothingForgotten` | is each end of an own job told once, and of a sibling's never? |
| **FileLockSteal**, **JobsApprovedDead**, **LifecycleOrphan** | small | one each, violated | see [findings](#4-findings) |

### Bounds and why they are enough

*JobsCalls.* `MaxAttempts = 2` with three tokens lets the last attempt be used up by
expiry and by `fail` in either order, be revived by an operator and claimed again.
`LockWait = 1` with a lease of 1 and a clock up to 4 puts readings before, at and after
each boundary, including a stale reading after a fresh one. With one job, `resetStore`
and eviction look the same to the abstract life cycle (the job is gone either way),
which is why JobsStore checks `ImplementsLifecycle` too, with two.

The calls stop at 4 and the clock goes on to 7, so that whatever lease or TTL the last
call leaves has room to end (`LimitsEnd`).

*JobsStore.* Two requests and `MaxJobs = 1` is the smallest store that overflows.
`LockWait` is 0 there to keep the run short; what a stale reading does to eviction was
looked at with `LockWait = 1` once and the properties held as well. `Horizon` ends the
calls (reads and time go on), `MaxTime` stops the clock.

*FileLock.* Three processes: one dead holder and two that compete for its lock is the
smallest interesting case, and the proof covers any number.

*StoreFile.* Two writers are what it takes to lose an update or to write into each
other's temporary file; the first transaction gives the second something to lose.
`Stale` is 0 and `Prompt` FALSE, so that a live holder can be stolen from at any time:
the properties say what holds up to that moment (`broken`) and what holds even then. A
second power failure finds nothing on the disk that the first does not.

*Worker.* One request id, enqueued again whenever dedup allows it, is what two workers
can fight over; `MaxToken = 5` leaves a claim for every retry after the last client or
operator call (`ClaimsLeft`). `Retention` is out of reach so that histories are not
confused by a job that disappears; JobsStore is about that.

*Dispatch.* One dispatcher that dies or is left with a turn that never ends, and one
worker that claims after it; the dispatcher's next call stands for that of another
process. `LockWait` is 0: late readings are JobsCalls' matter. `Horizon = 1` ends calls
and deaths early, `MaxTime = 3` leaves each lease time to run out. Review is left to the
Worker run.

*Server.* Two calls, because the end of one must not stop the watch of the other; a
subscription that may outlast both or neither; one job that settles before, during and
after. The job is also addressed to this agent, so the channel has news of both kinds.
`MaxEnds = 1`: a second settlement has another key and is nothing new to the code.
`Revivable` is empty here; the Session run has an operator put settled jobs back.

*Session.* One job of this session or of a sibling is enough for every property (they
speak of one key each), with one call to deliver it inline. Subscriptions change nothing
that is told.

*Lifecycle.* `ReadyTimeout + KillGrace < StartStale` as in the code's comment.
`KillGrace = 0` means "shorter than a time unit": the kill may come at any moment after
the SIGTERM, the daemon may die before or after. Two daemons suffice to see a second one
beside the first. `OneDaemon` leaves out daemons nobody can know of (`abandoned`): those
of a starter that died between spawn and state file, or between clean-up and kill, and
those a stop could not prove and took the state file from. The code has no remedy for
either, and the second is a finding. It also leaves out a child its starter has given up
on (`Doomed`): from the moment the clean-up has taken its record away, under the lock,
until the signal reaches it, outside the lock (`worker-lifecycle.mjs:363-369`), another
ensure may have spawned the next daemon. With `KillGrace = 0` TLC does not exercise a
stop's second signal coming after a grace; the theorem `StopsOwnDaemon` covers it.
`Wants` is {FALSE}: write capability plays no part in the properties of this run.

### Fairness and why the code justifies it

- `RelayJobs!FairSpec`: time passes and somebody keeps *reading*. Every worker polls its
  inbox on an interval and servers poll while they wait. Nobody is assumed to call
  anything else.
- `FileLock!FairSpec`: a process that lives carries on with its call and calls again,
  time passes, and the disk is not full again and again for ever (a waiter that steals
  one left-over file after another never looks at its timeout). Dead processes do
  nothing. `Prompt` is needed for `WaitsEnd`: on the
  stale path the loop `continue`s before it reaches the timeout check
  (`file-lock.mjs:64` and 69), so with holders that go stale again and again a waiter
  could be kept stealing and losing past its timeout.
- `RelayDispatch!DFairSpec`: a living worker goes on with its loop and its timers (weak
  fairness on all its store steps together), and time passes. A worker's turn ends as
  long as its job is its own or it is aborted: *strong* fairness, because heartbeat
  ticks interrupt it for ever without ending it; the executor's process runs regardless
  of them. It is *not* assumed that a turn notices by itself that the job is lost: that
  is what `LostTurnsAbort` is about. (An executor that never ends keeps its job for
  ever: `processJob` has no timeout of its own.) Of the executor of a *dispatcher*
  nothing is assumed at all. Its timers fire, although ticks interrupt them (strong).
- `RelayServer!RFairSpec`: a process that lives finishes its handlers; its event loop
  gets to every expired timer and every message, however many others keep it busy
  (strong: each is disabled whenever a handler runs); the deadline of a call comes; the
  client completes the handshake. Nothing is assumed of `fs.watch`, of workers, or of
  any further call.

---------------------------------------------------------------------------

## 4. Findings

**FileLockSteal** (`file-lock.mjs:62`). `stat` and `rename` are two calls. Of two
processes that both find stale a lock that was left behind (its holder died, or could
not write its nonce), the second renames away the fresh
lock the first has created since; a third can then enter beside it.
`file-lock.mjs:56-57` says only the process whose rename succeeds removes it,
`relay-jobs.mjs:21-24` that a process can never delete another's lock. No live holder
outstays `lockStaleMs` in the run.

**JobsApprovedDead** (`relay-jobs.mjs:794`). An approved job returns to the queue with
its old `enqueuedAtMs`. If its TTL passed while it waited for review, the next sweep
expires it and it never runs, although the comment says "Approved to RUN: back to the
queue".

**LifecycleOrphan** (`worker-lifecycle.mjs:341`). A stop that meets a daemon before its
first heartbeat cannot prove it, takes only the state file away and leaves. The daemon
comes up, its starter sees it is no longer recorded and "relinquishes" it
("adopted/replaced by someone else"), but there is nobody else. The next ensure starts a
second one beside it.

### Divergences seen, stated as exceptions of properties

These have no run of their own; the property that would say what the comment says does
not hold, and the one that is checked names the exception.

- *A failed record makes a session hear less.* `recordOwned` swallows its errors because
  the "fallback for the hook is always 'behave like today'" (`relay-owned.mjs:63`,
  and `relay-hook.mjs:36-39`: "never a way to notify LESS"). Since `ensureOwnedFile`
  creates an empty file at start-up, a dispatch whose record fails leaves a file that
  does not list the job: the session takes its own job for a sibling's and is never
  told. `NothingForgotten` excepts `unowned`.
- *One end may be told twice*, by a dispatch_wait or the channel and by a hook, if the
  record of the delivery fails, or if it is made after the hook has read
  the ownership file. `HookRepeatsNothing` is about what was recorded before,
  `ChannelTellsOnce` excepts `unrecorded`.
- *A marked key may never be told*: the hook marks before it blocks, the channel records
  before it notifies. `NothingForgotten` excepts `lost`.
- *A forced settlement believes the caller* (`relay-worker.mjs:424` and 478): a
  dispatcher whose read task was deduplicated onto a write job releases that job at its
  ceiling, and a write turn that may still be running is run again, although lines 12-16
  say that such a job is parked. `ForcedWritesPark` excepts `misjudged`.
- *dispatchAndWait may throw after the ceiling* (`relay-worker.mjs:472`, LOCK_TIMEOUT):
  the job is then not settled by force, and the heartbeat of the turn left behind keeps
  renewing its lease for as long as the process lives. `JobsSettle` excepts `forsaken`.

---------------------------------------------------------------------------

## 5. Proofs

Everything below is proved by TLAPS to the last leaf, for every number of processes,
jobs, daemons, transactions, and every timing, from the named ASSUMEs of the modules
only: the constants are numbers, and `None`, `NoKey`, `NoFile` are none of the things
they stand beside; `MaxAttempts`, `InboxLimit` and `MaxEnds` are positive; workers claim
with a lease and for an agent that callers address; dispatchers are processes; times are
ordered as the code orders its defaults, and daemons and pids keep to the timing above;
a missing, a broken and a good file differ. TLC evaluates those assumptions in each run.

Every invariant and every action property of a passing run, and both refinements, is
stated by a theorem; only liveness is not.

**RelayJobsProofs** - `TypeCorrect`, `Dedup` (`OneJobPerRequest`), `Fencing`
(`ResultsFenced`), `Settlement` (`NothingLeftOfEarlierEnds`), `BoundedRetries`. `Inv` is
`StoreInv(jobs, lastJob) /\ AgentsInv` and the types of the counters; the inductive
invariant is a predicate of the *store value*: every job is well formed and each of
`ClaimInForce`, `ResultOfLastClaim`, `SettledConsistently`, `AttemptsLeft` holds of it,
ids lie below the counter, request ids differ. The argument has two halves, as the code
has: lemmas that the sweep preserves it for any clock reading, and one lemma per
operation that applying it to a swept store does. No part is inductive alone: that a
stored result stems from the last claim needs that a job in flight carries the token
handed out last; that an error is there exactly on failed jobs needs the settle time and
the claim to agree with the state; that the sweep does not requeue a job without
attempts needs that jobs in flight have one left.

**RelayJobsSteps** - `JobsFollowLifecycle` (`ImplementsLifecycle`), `LimitsHonoured`
(`NoEarlyExpiry`), `OutcomesWithinLease` (`SettlesWithinLease`), `CapIsHard`
(`GrowsOnlyWithLiveWork`), `OldestLeaveFirst` (`EvictsOldestWhenFull`). The refinement is
a step simulation under the mapping `Life`, `PolicyOf`. What the sweep does to one job
(`SweepMoves`: nothing, one of the moves of `ByTime`, or out of the store once it is
finished) is a step of `AfterTime`; and a call, whichever it is, is refused, keeps the
state of the one job it touches, or moves that job as `AfterCall` says (`CallKind`), so
that the fourteen operations become three cases. The limits follow from the clock: a
reading is never in the future, so what is over at the reading is over now, and it is at
most `LockWait` old. The two properties of eviction are arithmetic of the order "settled
earlier, then older": it is strict and total, so a job has fewer jobs before it than one
that comes later (`OlderHasFewerBefore`), the surplus is a prefix of that order, and what
is left beside it counts at most `MaxJobs`, or nothing finished is left (`CapHolds`).

These theorems, and the invariant of RelayJobsProofs, are proved of `Transacting`: a
store that is changed by transactions only, whoever decides when. `Spec` is one way to
get there; the next module shows two others.

**RelayWorkerProofs** - about any number of workers, clients and operators:
`WritesRunOnce` (`WriteRunsOncePerDecision`), `ReviewsComeFirst` (`ReviewBeforeTurn`),
`TurnsAreOwned` (`TurnsStartOwned`), `ResultsAreEarned` (`ResultsOfLastTurn`); with
dispatchers among them, `ForcedWritesWait` (`ForcedWritesPark`) and
`DispatchReviewsComeFirst`. `WInv` relates the store to what the workers hold: a busy
worker's claim was handed out, no two hold the same one, and its copy of the job agrees
with the store on the payload, with the history on approvals. That a write job has run
at most once since an operator decided is not inductive; what is (`Once`) is that it has
not run *at all* as long as a turn of it may start (`AboutToRun`): it is queued, it waits
for its first review, or an owner of it is between claim and turn. Everything that would
take a job that has run back there is excluded for the policy `park`, except the
operator, who resets the count. For dispatchers the same holds of all jobs but the ones
they misjudged. Most steps are *calm* (`Calm`: nothing is claimed or approved, and no job
but the one that is settled comes closer to a turn), and one lemma serves them all.

That a result is that of the job's last turn needs two facts about claims. A turn whose
claim is in force is the last of its job, open while it runs and good once it has
returned a result (`TurnsKnown`); and a claim that is gone never comes back
(`ClaimsFollow`: a job in flight keeps its claim or loses it for good, and a new one has
a new token), so a turn that was made void stays so. No call but the settling one stores
a result, and that one only for an owner (`OperationsKeepResults`, `ResultsKept`).

The module also composes: `WorkersKeepStoreSound`, `WorkersFollowLifecycle`,
`DispatchersKeepStoreSound`, `DispatchersFollowLifecycle`. Whatever a worker does with
the claim it holds, and a dispatcher with the one it remembers, is a call of the API with
a job that exists and a token that was handed out, or it is refused and only sweeps; so
both systems are `Transacting`, and all that is proved of the store, its refinement
included, holds in their hands.

**RelaySessionProofs** - `ServerSound` (`RTypeOK`), `ChannelOnce` (`ChannelTellsOnce`) of
the server by itself; `OwnOnly` (`OwnJobsOnly`), `NoRepeats` (`HookRepeatsNothing`),
`StopsTellOnce` (`HookTellsOnce`), `NoneForgotten` (`NothingForgotten`) of server and
hooks together. The server's invariant says why a key it is telling is still news: what
was told is in memory or in the ownership file or could not be written (`ToldInv`), and
what is being told was in neither when its handler began, which no other handler can have
changed since (`NewsInv`). The session's adds what the hook has read and how old it may
be: the keys it knows are in the file, the jobs it has read have settled no more often
than those in the store; whatever was told names jobs of the ownership file (`OwnInv`);
whatever a hook told is in its seen-set or over (`OnceInv`); whatever is marked was told
or its teller died (`HeardInv`).

**FileLockProofs** - `TypeCorrect`, `Exclusion` (`ExcludesUntilStale`). The invariant
adds `Orderly`, unless a file has ever been stale: whoever is in a holding step owns the
file, nobody is about to rename, and the file is not older than `Stale`. Exclusion alone
is not inductive: it does not say that a process about to unlink still owns the file,
nor that nobody is on the way to stealing it.

**WorkerLifecycleProofs** - `TypeCorrect`, `Spared` (`SparesAdopted`), `OneServes`
(`OneDaemon`), `StopsOwnDaemon` (`StopsOnlyOurs`). The invariant `Separate` says why a
starter that is about to kill cannot hit a daemon that was handed out: its child is no
longer recorded; only a recorded daemon is ever handed out; one that was handed out is
never recorded as "starting" again, so no clean-up begins on it; and a daemon that is
spawned is new. The last needs the type invariant: whatever a file or a call names was
born.

That one daemon serves is proved from something stronger, `OnlyRecorded`: every serving
daemon is the one in the state file. It is kept because the file is replaced only when
the daemon in it does not serve (any more), and there the timing enters (`Fit`): a
recorded daemon that is up has its heartbeat file, which is never stale, and the record
of one that still boots is no older than the daemon, so its start is still fresh
(`Ages`, `Recording`); a starter that finds the record unproven and no longer fresh has
found a dead one. A child that is being killed runs no more (`Children`), and a stop that
is about to remove a heartbeat file has left its daemon unrecorded (`Targets`).

That a stop signals its own daemon needs `Watched`: while a stop has a daemon in hand,
one that dies has been dead no longer than the stop has waited, and both gaps are shorter
than `RecycleTime`; a pid that was a stranger's from the start has a heartbeat that only
gets older, and by the second sample it is older than the first by the gap. The attempt
showed that the model's cap on heartbeat ages was wrong for gaps of two units or more (a
frozen heartbeat near the limit looked renewed): hence `OldestBeat`.

**StoreFileProofs** - `Whole` (`NeverTorn`), `Durable` (`ReportedStays`). That nothing
is torn holds whatever the lock does: what is renamed is whole and synced, because it
was written under a name of its own (`Ready`). That nothing reported is lost needs more
(`Kept`), and holds while no two processes were in the lock: the file, and where
directories can be synced *everything the disk may hold after a power failure*, shows
what was reported; what a process is about to write shows it too; and a transaction
whose report is next is already in all of them. The lock enters as one lemma: whoever is
not in the lock is not in the function either, so a process that writes is alone.
`StoreExcludes` (`ExcludesUntilStale`) and `NothingLost` put lock and store together:
every step of `StoreFile` but a power failure is one of `FileLock` or a stutter of it,
and a power failure leaves nobody in the lock, so the invariant of the lock holds here
too; two processes in it at once mean that a lock file has outlived `lockStaleMs`, and
until that happens what was reported stays, with no premise about the lock left.

**StoreFileRefinement** - `Refinement` (`ImplementsAtomicStore`). The load of a
transaction that writes begins it, the rename commits it, a death or a failed write
abandons it, the sync of the directory makes it durable and the append of the events
reports it; writing and syncing the temporary file are stutters. That only one is under
way rests on the lock (`OwnPending`: while no two processes were in it, what is pending
is what the process inside is about to write), that it is new on the numbering of
transactions (`Numbered`), and that only an empty store takes reports back on `Emptied`
(what a reset persists is empty). Once two processes have been in the lock every write
is an `Overwrite` (`VoidSim`). One power failure and one damage are bounds of both
specifications (`lost`, `damaged`).

**Only model-checked**: liveness, because fairness and ENABLED are out of the prover's
reach here (`LimitsEnd`, `DeadLocksVanish`, `WaitsEnd`, `LostTurnsAbort`, `JobsSettle`,
`DispatchReturns`, `AnswersCome`, `UpdatesReach`, `ChannelTells`). The properties of the
three violation runs are false and have nothing to prove.

---------------------------------------------------------------------------

## 6. Not modelled, and plan

*Plan for the model.*

1. Adoption and write capability: `Adopt` does not compare `allowWrites` where `Reuse`
   does; `WorkerLifecycle` has both actions, a property about it is to be stated. So is
   one about an ensure that reuses a daemon a stop has already signalled, which needs
   the queue next to the daemons.
2. A run of its own for the first divergence above.

*Proofs to come*: that a transaction of `RelayJobs` may be one step rests on the lock and
on `StoreFile`, where a transaction is a number; that the two levels fit is an argument
in prose. A clock that is read before the lock is waited for (`LockWait`) is where it
would have to begin. Safety parts of the liveness properties (what a fair behaviour can
still be waiting for) are the other candidate.

*Left out of the modelled parts*:

- store file: the rotation of the event log, the spelling of the JSON;
- dispatcher: the observing loop (only reads), a second call while an old turn still
  runs in the same process (another dispatcher stands for it);
- server: pruning of jobs (`RelayJobs` has it), `CHANNEL_SEEN_CAP`, an enqueue that
  throws in its handler (nothing has happened then), read-only tools and resources,
  validation of arguments, the framing of stdin, the spawn of a worker
  (`WorkerLifecycle`);
- ownership and hook: the trim of the ownership file from 2000 entries to the last 1000,
  which makes a session forget its oldest jobs; two hooks of one session at once;
  diverging session ids; sessions without a session id.

*Left out for good*: the worktree runner (a straight sequence of git commands around a
turn); the executors' child processes and the parsing of their streams; file names, id
generation, the installer and launcher (no shared state); the wording of events, hook
output and tool results; git itself.
