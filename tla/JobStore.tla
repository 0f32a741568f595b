------------------------------ MODULE JobStore ------------------------------
(***************************************************************************)
(* The job list of lib/relay-jobs.mjs as a value, and the functions the    *)
(* public API applies to it.  A store is a function from the ids of the    *)
(* retained jobs to job records: ids are handed out in increasing order    *)
(* and jobs are only ever appended or filtered out, so the order of ids is *)
(* the order of the array `store.jobs`.  The index of the code is derived  *)
(* from the jobs on every load (rebuildIndex), so it has no state here.    *)
(*                                                                         *)
(* Every operator takes the store it works on: the modules that keep a     *)
(* store in a variable (RelayJobs, RelayWorker) compose them.              *)
(*                                                                         *)
(* A definition named Slip_... is the one after it with a plausible bug in *)
(* it.  The specifications use none of them: each is there to show that a  *)
(* property notices that bug (PROJECT.json, "mutants").                    *)
(***************************************************************************)
EXTENDS Integers, FiniteSets

CONSTANTS
    RequestIds,     \* the idempotency keys callers use
    Agents,         \* agent ids a job can be addressed to
    Payloads,       \* what a job carries; opaque to the store
    None,           \* JavaScript's null
    MaxAttempts,    \* job.maxAttempts
    MaxJobs,        \* opts.maxJobs, the hard cap of the store
    Retention       \* opts.retentionMs

ASSUME NoneAssumption == None \notin Nat \cup {"predeclared", "selfflagged"}
ASSUME AttemptsAssumption == MaxAttempts \in Nat \ {0}
ASSUME CapAssumption == MaxJobs \in Nat
ASSUME RetentionAssumption == Retention \in Nat

-----------------------------------------------------------------------------
(* Job records.                                                            *)

InFlight == {"claimed", "running"}
Prunable == {"completed", "failed", "cancelled", "expired"}
Awaiting == {"needs_recovery", "needs_review"}
Terminal == Prunable \cup Awaiting
States == {"queued"} \cup InFlight \cup Terminal

Policies == {"requeue", "park"}
ReviewKinds == {"predeclared", "selfflagged"}
Opt(X) == X \cup {None}

(***************************************************************************)
(* A job.  `token` and `lease` are job.claim.claimToken and                *)
(* job.claim.leaseExpiresAtMs (both None when job.claim is null), `result` *)
(* names a result by the claim whose turn produced it, `error` is          *)
(* "errorMessage is not null".  `lastClaim` is a history field: the last   *)
(* token claim() handed out for the job.                                   *)
(***************************************************************************)
Job == [ requestId : RequestIds, to : Opt(Agents), payload : Payloads,
         state : States, policy : Policies, ttl : Opt(Nat),
         attempts : Nat, token : Opt(Nat), lease : Opt(Nat),
         enqueuedAt : Nat, terminalAt : Opt(Nat),
         completedBy : Opt(Nat), result : Opt(Nat),
         reviewKind : Opt(ReviewKinds), cleared : BOOLEAN,
         error : BOOLEAN, lastClaim : Opt(Nat) ]

NewJob(r, to, p, pol, ttl, t) ==
    [ requestId |-> r, to |-> to, payload |-> p, state |-> "queued",
      policy |-> pol, ttl |-> ttl, attempts |-> 0, token |-> None,
      lease |-> None, enqueuedAt |-> t, terminalAt |-> None,
      completedBy |-> None, result |-> None, reviewKind |-> None,
      cleared |-> FALSE, error |-> FALSE, lastClaim |-> None ]

\* leaseMs != null ? now + leaseMs : null
LeaseUntil(t, ms) == IF ms = None THEN None ELSE t + ms

\* job.claim = null, then the new state: not terminal / terminal at t.
BackToQueue(j) == [j EXCEPT !.state = "queued", !.token = None, !.lease = None]
Settled(j, st, err, t) ==
    [j EXCEPT !.state = st, !.token = None, !.lease = None,
              !.terminalAt = t, !.error = IF err THEN TRUE ELSE @]

-----------------------------------------------------------------------------
(* The sweep that precedes every operation.                                *)

TtlOver(j, t) == j.ttl # None /\ t - j.enqueuedAt > j.ttl
Slip_LeaseOver(j, t) == j.state \in InFlight /\ j.lease # None /\ t >= j.lease
Slip_LeaseOverRunning(j, t) == j.state = "running" /\ j.lease # None /\ t > j.lease
LeaseOver(j, t) == j.state \in InFlight /\ j.lease # None /\ t > j.lease

SweptJob(j, t) ==
    CASE j.state \in Terminal -> j
      [] j.state \notin Terminal /\ TtlOver(j, t) ->
           IF j.state \in InFlight /\ j.policy = "park"
           THEN Settled(j, "needs_recovery", TRUE, t)
           ELSE Settled(j, "expired", FALSE, t)
      [] j.state \notin Terminal /\ ~TtlOver(j, t) /\ LeaseOver(j, t) ->
           LET bumped == [j EXCEPT !.attempts = @ + 1] IN
           IF j.policy = "park" THEN Settled(j, "needs_recovery", TRUE, t)
           ELSE IF bumped.attempts >= MaxAttempts
                THEN Settled(bumped, "failed", TRUE, t)
                ELSE BackToQueue(bumped)
      [] OTHER -> j

SweptJobs(S, t) == [i \in DOMAIN S |-> SweptJob(S[i], t)]

Slip_WithinRetention(S, t) ==
    {i \in DOMAIN S : S[i].state \in Terminal =>
        S[i].terminalAt # None /\ t - S[i].terminalAt <= Retention}

\* Jobs that stay inside the retention window, or are not prunable at all.
WithinRetention(S, t) ==
    {i \in DOMAIN S : S[i].state \in Prunable =>
        S[i].terminalAt # None /\ t - S[i].terminalAt <= Retention}

\* sort by terminalAtMs ?? 0; the sort is stable, so ties keep array order.
SettledAt(j) == IF j.terminalAt = None THEN 0 ELSE j.terminalAt
Slip_Older(S, i, j) ==
    \/ SettledAt(S[i]) > SettledAt(S[j])
    \/ SettledAt(S[i]) = SettledAt(S[j]) /\ i < j
Older(S, i, j) ==
    \/ SettledAt(S[i]) < SettledAt(S[j])
    \/ SettledAt(S[i]) = SettledAt(S[j]) /\ i < j

Slip_Overflow(S, R) ==
    LET prunable == {i \in R : S[i].state \in Prunable}
    IN  {i \in prunable : Cardinality({j \in prunable : Older(S, j, i)})
                            < Cardinality(R) - MaxJobs - 1}

\* The oldest prunable jobs of R, as many as R is above the cap.
Overflow(S, R) ==
    LET prunable == {i \in R : S[i].state \in Prunable}
    IN  {i \in prunable : Cardinality({j \in prunable : Older(S, j, i)})
                            < Cardinality(R) - MaxJobs}

Restricted(S, D) == [i \in D |-> S[i]]

Pruned(S, t) ==
    LET R == WithinRetention(S, t) IN Restricted(S, R \ Overflow(S, R))

Sweep(S, t) == Pruned(SweptJobs(S, t), t)

-----------------------------------------------------------------------------
(* The operations.  Each takes the swept store and returns the store the   *)
(* call leaves; a call that is refused leaves it as it was.                *)

Put(S, i, j) == [S EXCEPT ![i] = j]
Found(S, i) == i \in DOMAIN S

\* The fence: the caller's token is the token of the claim in force.
Owns(S, i, k) == Found(S, i) /\ S[i].state \in InFlight /\ S[i].token = k

Slip_HasRequest(S, r) ==
    \E i \in DOMAIN S : S[i].requestId = r /\ S[i].state \notin Terminal
HasRequest(S, r) == \E i \in DOMAIN S : S[i].requestId = r

\* enqueue: the job with this request id if one is retained, else a new one.
EnqueueIn(S, id, r, to, p, pol, ttl, t) ==
    IF HasRequest(S, r) THEN S
    ELSE [i \in DOMAIN S \cup {id} |->
            IF i = id THEN NewJob(r, to, p, pol, ttl, t) ELSE S[i]]

CanClaim(S, i) == Found(S, i) /\ S[i].state = "queued"
ClaimIn(S, i, k, ms, t) ==
    IF CanClaim(S, i)
    THEN Put(S, i, [S[i] EXCEPT !.state = "claimed", !.token = k,
                                !.lease = LeaseUntil(t, ms), !.lastClaim = k])
    ELSE S

CanStart(S, i, k) == Owns(S, i, k) /\ S[i].state = "claimed"
StartIn(S, i, k) ==
    IF CanStart(S, i, k) THEN Put(S, i, [S[i] EXCEPT !.state = "running"]) ELSE S

HeartbeatIn(S, i, k, ms, t) ==
    IF Owns(S, i, k) THEN Put(S, i, [S[i] EXCEPT !.lease = LeaseUntil(t, ms)])
    ELSE S

ReleaseIn(S, i, k) ==
    IF Owns(S, i, k) THEN Put(S, i, BackToQueue(S[i])) ELSE S

Slip_CompleteIn(S, i, k, t) ==
    IF Found(S, i) /\ S[i].state \in InFlight
    THEN Put(S, i, [Settled(S[i], "completed", FALSE, t)
                      EXCEPT !.result = k, !.completedBy = k])
    ELSE S

\* A repeated complete() by the same claim answers ok and changes nothing.
CompleteIn(S, i, k, t) ==
    IF Owns(S, i, k)
    THEN Put(S, i, [Settled(S[i], "completed", FALSE, t)
                      EXCEPT !.result = k, !.completedBy = k])
    ELSE S

Slip_FailIn(S, i, k, retry, t) ==
    IF Owns(S, i, k)
    THEN LET bumped == [S[i] EXCEPT !.attempts = @ + 1] IN
         Put(S, i, IF retry /\ bumped.attempts <= MaxAttempts
                   THEN BackToQueue(bumped)
                   ELSE Settled(bumped, "failed", TRUE, t))
    ELSE S

\* errorMessage is the caller's and null by default: that a failed job shows an error
\* rests on the callers, all of which pass a message (relay-worker.mjs:199-212, 325, 360).
FailIn(S, i, k, retry, t) ==
    IF Owns(S, i, k)
    THEN LET bumped == [S[i] EXCEPT !.attempts = @ + 1] IN
         Put(S, i, IF retry /\ bumped.attempts < MaxAttempts
                   THEN BackToQueue(bumped)
                   ELSE Settled(bumped, "failed", TRUE, t))
    ELSE S

CancelIn(S, i, t) ==
    IF Found(S, i) /\ S[i].state \notin Terminal
    THEN Put(S, i, Settled(S[i], "cancelled", FALSE, t)) ELSE S

ParkIn(S, i, k, t) ==
    IF Owns(S, i, k) THEN Put(S, i, Settled(S[i], "needs_recovery", TRUE, t))
    ELSE S

Slip_CanRecover(S, i) == Found(S, i) /\ S[i].error
CanRecover(S, i) == Found(S, i) /\ S[i].state = "needs_recovery"
Slip_Requeued(j) == [BackToQueue(j) EXCEPT !.error = FALSE, !.attempts = 0]
Requeued(j) ==
    [BackToQueue(j) EXCEPT !.terminalAt = None, !.error = FALSE, !.attempts = 0]
RecoverIn(S, i) == IF CanRecover(S, i) THEN Put(S, i, Requeued(S[i])) ELSE S

\* predeclared gates a claim before it runs, selfflagged gates its result.
CanReview(S, i, k, kind) ==
    /\ Owns(S, i, k)
    /\ kind = "predeclared" => S[i].state = "claimed"
    /\ kind = "selfflagged" => S[i].state = "running"
ReviewIn(S, i, k, kind, t) ==
    IF CanReview(S, i, k, kind)
    THEN Put(S, i, [Settled(S[i], "needs_review", FALSE, t) EXCEPT
                      !.reviewKind = kind,
                      !.result = IF kind = "selfflagged" THEN k ELSE None])
    ELSE S

CanResolve(S, i) == Found(S, i) /\ S[i].state = "needs_review"
ResolveIn(S, i, approve, t) ==
    IF ~CanResolve(S, i) THEN S
    ELSE IF ~approve THEN Put(S, i, Settled(S[i], "failed", TRUE, t))
    ELSE IF S[i].reviewKind = "predeclared"
         THEN Put(S, i, [Requeued(S[i]) EXCEPT !.cleared = TRUE])
         ELSE Put(S, i, Settled(S[i], "completed", FALSE, t))

-----------------------------------------------------------------------------
(* What every retained job satisfies, whoever called what and when.        *)

\* A claim exists exactly while the job is in flight, and it is the last one.
ClaimInForce(j) ==
    /\ j.state \in InFlight <=> j.token # None
    /\ j.token # None => j.token = j.lastClaim
    /\ j.lease # None => j.token # None

\* Results come from the last claim of the job, and only finished turns have one.
ResultOfLastClaim(j) ==
    /\ j.state = "completed" => j.result # None
    /\ j.state = "needs_review" =>
         j.reviewKind # None /\ (j.reviewKind = "selfflagged" <=> j.result # None)
    /\ j.result # None =>
         j.result = j.lastClaim /\ j.state \in {"completed", "failed", "needs_review"}
    /\ j.completedBy # None => j.state = "completed" /\ j.completedBy = j.result

\* Terminal jobs, and only they, carry the time they settled; an error is
\* shown exactly on jobs that failed or wait for recovery.
SettledConsistently(j) ==
    /\ j.state \in Terminal <=> j.terminalAt # None
    /\ j.error <=> j.state \in {"failed", "needs_recovery"}

\* A job that can still run has an attempt left.
AttemptsLeft(j) ==
    /\ j.attempts <= MaxAttempts
    /\ j.state \notin Terminal => j.attempts < MaxAttempts

JobConsistent(j) ==
    /\ ClaimInForce(j)
    /\ ResultOfLastClaim(j)
    /\ SettledConsistently(j)
    /\ AttemptsLeft(j)

=============================================================================
