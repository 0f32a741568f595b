------------------------------ MODULE RelayJobs ------------------------------
(***************************************************************************)
(* The public API of lib/relay-jobs.mjs, called by any number of processes.*)
(* Every call is one transaction: withStore reads the clock, then takes    *)
(* the file lock, loads the store, sweeps it and applies the operation     *)
(* with that one clock reading.  The lock makes the transactions atomic    *)
(* with respect to each other (FileLock models the lock itself); the clock *)
(* is read before the lock is waited for, so a transaction may run with a  *)
(* reading that is up to LockWait old.                                     *)
(*                                                                         *)
(* Callers are not modelled as processes: a call may name any job and any  *)
(* token ever issued, so a token that is out of date is used at any time.  *)
(***************************************************************************)
EXTENDS JobStore

CONSTANTS
    Addressees,     \* the `to` callers pass to enqueue
    LeaseTimes,     \* the leaseMs callers pass
    Ttls,           \* the ttlMs callers pass
    LockWait,       \* lockTimeoutMs: how long a caller waits for the lock
    MaxJobId,       \* bound: jobs created
    MaxToken,       \* bound: claims handed out
    Horizon,        \* bound: no call but a read after this time
    MaxTime         \* bound: the clock stops here

ASSUME AddresseeAssumption == Addressees \subseteq Opt(Agents)
ASSUME LeaseAssumption == LeaseTimes \subseteq Opt(Nat)
ASSUME TtlAssumption == Ttls \subseteq Opt(Nat)
ASSUME LockWaitAssumption == LockWait \in Nat
ASSUME BoundsAssumption ==
    MaxJobId \in Nat /\ MaxToken \in Nat /\ Horizon \in Nat /\ MaxTime \in Nat

VARIABLES
    jobs,       \* store.jobs
    agents,     \* store.agents: when each registered, and was last seen
    now,        \* Date.now()
    lastJob,    \* how many job ids were generated
    lastToken   \* how many claim tokens were generated

vars == <<jobs, agents, now, lastJob, lastToken>>

JobIds == 1..MaxJobId
Tokens == 1..lastToken

\* nowMs() runs before withLock: the readings a transaction may work with.
Readings == {t \in 0..now : now - t <= LockWait}

Init ==
    /\ jobs = [i \in {} |-> None]
    /\ agents = [a \in {} |-> None]
    /\ now = 0
    /\ lastJob = 0
    /\ lastToken = 0

-----------------------------------------------------------------------------

Slip_Enqueue(r, to, p, pol, ttl) == \E t \in Readings :
    LET S == Sweep(jobs, t) IN
    /\ HasRequest(S, r) \/ lastJob < MaxJobId
    /\ jobs' = EnqueueIn(S, lastJob + 1, r, to, p, pol, ttl, t)
    /\ UNCHANGED <<agents, now, lastJob, lastToken>>

Enqueue(r, to, p, pol, ttl) == \E t \in Readings :
    LET S == Sweep(jobs, t) IN
    /\ HasRequest(S, r) \/ lastJob < MaxJobId
    /\ jobs' = EnqueueIn(S, lastJob + 1, r, to, p, pol, ttl, t)
    /\ lastJob' = IF HasRequest(S, r) THEN lastJob ELSE lastJob + 1
    /\ UNCHANGED <<agents, now, lastToken>>

Claim(i, ms) == \E t \in Readings :
    LET S == Sweep(jobs, t) IN
    /\ CanClaim(S, i) => lastToken < MaxToken
    /\ jobs' = ClaimIn(S, i, lastToken + 1, ms, t)
    /\ lastToken' = IF CanClaim(S, i) THEN lastToken + 1 ELSE lastToken
    /\ UNCHANGED <<agents, now, lastJob>>

StartRunning(i, k) == \E t \in Readings :
    /\ jobs' = StartIn(Sweep(jobs, t), i, k)
    /\ UNCHANGED <<agents, now, lastJob, lastToken>>

Heartbeat(i, k, ms) == \E t \in Readings :
    /\ jobs' = HeartbeatIn(Sweep(jobs, t), i, k, ms, t)
    /\ UNCHANGED <<agents, now, lastJob, lastToken>>

Release(i, k) == \E t \in Readings :
    /\ jobs' = ReleaseIn(Sweep(jobs, t), i, k)
    /\ UNCHANGED <<agents, now, lastJob, lastToken>>

Slip_Complete(i, k) == \E t \in Readings :
    /\ jobs' = CompleteIn(jobs, i, k, t)
    /\ UNCHANGED <<agents, now, lastJob, lastToken>>

Complete(i, k) == \E t \in Readings :
    /\ jobs' = CompleteIn(Sweep(jobs, t), i, k, t)
    /\ UNCHANGED <<agents, now, lastJob, lastToken>>

Fail(i, k, retry) == \E t \in Readings :
    /\ jobs' = FailIn(Sweep(jobs, t), i, k, retry, t)
    /\ UNCHANGED <<agents, now, lastJob, lastToken>>

Cancel(i) == \E t \in Readings :
    /\ jobs' = CancelIn(Sweep(jobs, t), i, t)
    /\ UNCHANGED <<agents, now, lastJob, lastToken>>

Park(i, k) == \E t \in Readings :
    /\ jobs' = ParkIn(Sweep(jobs, t), i, k, t)
    /\ UNCHANGED <<agents, now, lastJob, lastToken>>

Recover(i) == \E t \in Readings :
    /\ jobs' = RecoverIn(Sweep(jobs, t), i)
    /\ UNCHANGED <<agents, now, lastJob, lastToken>>

NeedsReview(i, k, kind) == \E t \in Readings :
    /\ jobs' = ReviewIn(Sweep(jobs, t), i, k, kind, t)
    /\ UNCHANGED <<agents, now, lastJob, lastToken>>

ResolveReview(i, approve) == \E t \in Readings :
    /\ jobs' = ResolveIn(Sweep(jobs, t), i, approve, t)
    /\ UNCHANGED <<agents, now, lastJob, lastToken>>

\* getJob, findByRequestId, list, listAgents, inboxFor: reads, which sweep.
Read == \E t \in Readings :
    /\ jobs' = Sweep(jobs, t)
    /\ UNCHANGED <<agents, now, lastJob, lastToken>>

RegisterAgent(a) == \E t \in Readings :
    /\ jobs' = Sweep(jobs, t)
    /\ agents' = [b \in DOMAIN agents \cup {a} |->
                    IF b # a THEN agents[b]
                    ELSE [registeredAt |-> IF a \in DOMAIN agents
                                           THEN agents[a].registeredAt ELSE t,
                          lastSeen |-> t]]
    /\ UNCHANGED <<now, lastJob, lastToken>>

\* An operator archives the store file and starts an empty one.
ResetStore ==
    /\ jobs' = [i \in {} |-> None]
    /\ agents' = [a \in {} |-> None]
    /\ UNCHANGED <<now, lastJob, lastToken>>

Tick ==
    /\ now < MaxTime
    /\ now' = now + 1
    /\ UNCHANGED <<jobs, agents, lastJob, lastToken>>

Call ==
    \/ \E r \in RequestIds, to \in Addressees, p \in Payloads, pol \in Policies,
         ttl \in Ttls : Enqueue(r, to, p, pol, ttl)
    \/ \E i \in JobIds, ms \in LeaseTimes : Claim(i, ms)
    \/ \E i \in JobIds, k \in Tokens : StartRunning(i, k)
    \/ \E i \in JobIds, k \in Tokens, ms \in LeaseTimes : Heartbeat(i, k, ms)
    \/ \E i \in JobIds, k \in Tokens : Release(i, k)
    \/ \E i \in JobIds, k \in Tokens : Complete(i, k)
    \/ \E i \in JobIds, k \in Tokens, retry \in BOOLEAN : Fail(i, k, retry)
    \/ \E i \in JobIds : Cancel(i)
    \/ \E i \in JobIds, k \in Tokens : Park(i, k)
    \/ \E i \in JobIds : Recover(i)
    \/ \E i \in JobIds, k \in Tokens, kind \in ReviewKinds : NeedsReview(i, k, kind)
    \/ \E i \in JobIds, approve \in BOOLEAN : ResolveReview(i, approve)
    \/ \E a \in Agents : RegisterAgent(a)
    \/ ResetStore

Next == (now <= Horizon /\ Call) \/ Read \/ Tick

Spec == Init /\ [][Next]_vars

\* Time passes, and somebody keeps reading the store: every worker and every
\* waiting server polls it on an interval (relay-worker.mjs runWorkerLoop).
FairSpec == Spec /\ WF_vars(Tick) /\ WF_vars(Read)

-----------------------------------------------------------------------------
(* Invariants.                                                             *)

\* The shape of the state: retained jobs are jobs that were created.
TypeOK ==
    /\ DOMAIN jobs \subseteq 1..lastJob
    /\ \A i \in DOMAIN jobs : jobs[i] \in Job
    /\ DOMAIN agents \subseteq Agents
    /\ \A a \in DOMAIN agents : agents[a] \in [registeredAt : Nat, lastSeen : Nat]
    /\ now \in Nat /\ lastJob \in Nat /\ lastToken \in Nat

\* Dedup: no two retained jobs have the same request id, so the index
\* (one id per request) never hides a job (relay-jobs.mjs:50-52, 138-147).
OneJobPerRequest ==
    \A i, j \in DOMAIN jobs : jobs[i].requestId = jobs[j].requestId => i = j

\* Fencing: the result of a job was produced under the last claim handed out
\* for it, however late an earlier owner calls complete or needsReview
\* (relay-jobs.mjs:25-26).
ResultsFenced ==
    \A i \in DOMAIN jobs : ClaimInForce(jobs[i]) /\ ResultOfLastClaim(jobs[i])

\* An operator who revives a job (recover, resolveReview) leaves nothing of
\* its earlier end behind: settle time and error are there exactly when the
\* state says so, so retention and pollers never see half a transition.
NothingLeftOfEarlierEnds ==
    \A i \in DOMAIN jobs : SettledConsistently(jobs[i])

\* Retries are bounded: lease expiry, fail(retry) and release in any order
\* never put a job back in the queue with its attempts used up.
RetriesBounded == \A i \in DOMAIN jobs : AttemptsLeft(jobs[i])

-----------------------------------------------------------------------------
(* What a step may never do.                                               *)

Dropped == DOMAIN jobs \ DOMAIN jobs'
Kept == DOMAIN jobs \cap DOMAIN jobs'
Finished(i) == jobs[i].state \in Prunable

\* Only a reset throws jobs away for any other reason than age or the cap.
\* Before its retention has passed a job is dropped only from a store over the
\* cap, and no job that settled earlier is kept in its place; one that settles in
\* the very sweep that drops it makes room only for jobs that settled just now too
\* (relay-jobs.mjs:314-341).
EvictsOldestWhenFull ==
    [][ResetStore \/ \A d \in Dropped :
         /\ \/ Finished(d) /\ now - jobs[d].terminalAt > Retention
            \/ Cardinality(DOMAIN jobs) > MaxJobs
         /\ \A i \in Kept : Finished(i) =>
              \/ Finished(d) /\ jobs[d].terminalAt <= jobs[i].terminalAt
              \/ ~Finished(d) /\ now - jobs[i].terminalAt <= LockWait]_vars

\* The hard cap: what a read leaves is within maxJobs, unless all of it is live
\* or waits for an operator; then the store may grow (relay-jobs.mjs:326-329).
GrowsOnlyWithLiveWork ==
    [][Read => \/ Cardinality(DOMAIN jobs') <= MaxJobs
               \/ \A i \in DOMAIN jobs' : jobs'[i].state \notin Prunable]_vars

\* A lease or a TTL that is still running at the present time is honoured: a
\* read, whatever clock reading it works with, takes no claim away early.
NoEarlyExpiry ==
    [][Read => \A i \in DOMAIN jobs : jobs[i].state \in InFlight =>
         \/ i \in Kept /\ jobs'[i] = jobs[i]
         \/ jobs[i].lease # None /\ jobs[i].lease < now
         \/ jobs[i].ttl # None /\ jobs[i].enqueuedAt + jobs[i].ttl < now]_vars

\* Because the sweep runs in the same transaction as the call, an owner whose
\* lease is over can still settle the job only during the time its call may
\* have waited for the lock.
SettlesWithinLease ==
    [][\A i \in Kept :
         jobs[i].lease # None /\ jobs'[i].state = "completed"
         => now - jobs[i].lease <= LockWait]_vars

-----------------------------------------------------------------------------
(* The abstract specification, and liveness.                               *)

Life == [i \in JobIds |-> IF i > lastJob THEN "unborn"
                          ELSE IF i \in DOMAIN jobs THEN jobs[i].state ELSE "gone"]
PolicyOf == [i \in JobIds |-> IF i \in DOMAIN jobs THEN jobs[i].policy ELSE "requeue"]

Lifecycle == INSTANCE JobLifecycle WITH Ids <- JobIds, life <- Life, policy <- PolicyOf

\* Every behaviour of the store is a behaviour of the documented state machine
\* (relay-jobs.mjs:37-48): one sweep and at most one call per transaction.
ImplementsLifecycle == Lifecycle!Spec

\* A claim with a lease does not outlive its owner: unless renewed it ends, and a
\* job with a TTL is not queued or in flight for ever, although the store has no
\* timer of its own and nobody but readers may be left (relay-jobs.mjs:27-28).
Leased(i) == i \in DOMAIN jobs /\ jobs[i].lease # None
Pending(i) == i \in DOMAIN jobs /\ jobs[i].ttl # None /\ jobs[i].state \notin Terminal
LimitsEnd ==
    \A i \in JobIds : (Leased(i) ~> ~Leased(i)) /\ (Pending(i) ~> ~Pending(i))

-----------------------------------------------------------------------------
(* What comments say and the code does not do (violation run).             *)

\* relay-jobs.mjs:795: "Approved to RUN: back to the queue".  A job whose run an
\* operator approves can still be claimed: it is not already past its TTL.
ApprovedCanRun ==
    [][\A i \in Kept : jobs[i].state = "needs_review" /\ jobs'[i].state = "queued"
         => ~TtlOver(jobs'[i], now)]_vars

=============================================================================
