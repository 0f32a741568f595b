--------------------------- MODULE RelayJobsSteps ---------------------------
(***************************************************************************)
(* Proofs about the steps of RelayJobs: what the sweep and each operation  *)
(* do to one job, and from that what a transaction may do to the store.    *)
(***************************************************************************)
EXTENDS RelayJobsProofs, FiniteSetTheorems

\* The fields of a job that are fixed when it is enqueued.
Kin(j, c) ==
    /\ c.requestId = j.requestId /\ c.to = j.to /\ c.payload = j.payload
    /\ c.policy = j.policy /\ c.ttl = j.ttl /\ c.enqueuedAt = j.enqueuedAt

\* j becomes c: its state and token change, its review does not.
Becomes(j, c, st, tok) ==
    /\ Kin(j, c)
    /\ c.state = st /\ c.token = tok
    /\ c.cleared = j.cleared /\ c.reviewKind = j.reviewKind

\* S and T differ in the job i at most.
OneMoves(S, T, i) ==
    /\ i \in DOMAIN S /\ DOMAIN T = DOMAIN S
    /\ \A m \in DOMAIN S : m # i => T[m] = S[m]

-----------------------------------------------------------------------------
(* The sweep, job by job.                                                  *)

\* j becomes c, which settled at t.
SettlesAs(j, c, st, t) == Becomes(j, c, st, None) /\ c.terminalAt = t

LEMMA SettledFields ==
    ASSUME NEW j \in Job, NEW st \in States, NEW t \in Nat
    PROVE  /\ SettlesAs(j, Settled(j, st, TRUE, t), st, t)
           /\ SettlesAs(j, Settled(j, st, FALSE, t), st, t)
BY DEF Settled, Job, Becomes, Kin, SettlesAs

LEMMA BackToQueueFields ==
    ASSUME NEW j \in Job
    PROVE  Becomes(j, BackToQueue(j), "queued", None)
BY DEF BackToQueue, Job, Becomes, Kin

LEMMA BumpedFields ==
    ASSUME NEW j \in Job
    PROVE  LET b == [j EXCEPT !.attempts = @ + 1] IN
           b \in Job /\ Becomes(j, b, j.state, j.token)
BY DEF Job, Becomes, Kin

\* Where the passing of time takes a job that is not settled.
ByTime(j) ==
    IF j.state = "queued" THEN {"expired"}
    ELSE IF j.policy = "park" THEN {"needs_recovery"} ELSE {"queued", "failed", "expired"}

LEMMA SweptJobMoves ==
    ASSUME NEW j, JobInv(j), NEW t \in Nat
    PROVE  LET c == SweptJob(j, t) IN
           \/ c = j /\ (j.state \in Terminal \/ ~(TtlOver(j, t) \/ LeaseOver(j, t)))
           \/ /\ j.state \notin Terminal /\ (TtlOver(j, t) \/ LeaseOver(j, t))
              /\ Becomes(j, c, c.state, None) /\ c.state \in ByTime(j)
              /\ c.state \in Terminal => c.terminalAt = t
<1> DEFINE c == SweptJob(j, t)
           b == [j EXCEPT !.attempts = @ + 1]
<1>0. j \in Job /\ j.state \in States
  BY DEF JobInv, Job
<1>1. CASE j.state \in Terminal
  BY <1>1 DEF SweptJob
<1>2. CASE j.state \notin Terminal /\ TtlOver(j, t)
  <2>1. CASE j.state \in InFlight /\ j.policy = "park"
    <3>1. c = Settled(j, "needs_recovery", TRUE, t) /\ "needs_recovery" \in ByTime(j)
      BY <1>2, <2>1 DEF SweptJob, ByTime, InFlight
    <3>2. SettlesAs(j, c, "needs_recovery", t)
      BY <1>0, <3>1, SettledFields, StateNames
    <3>3. QED BY <1>2, <3>1, <3>2 DEF Becomes, SettlesAs
  <2>2. CASE ~(j.state \in InFlight /\ j.policy = "park")
    <3>1. c = Settled(j, "expired", FALSE, t) /\ "expired" \in ByTime(j)
      BY <1>0, <1>2, <2>2 DEF SweptJob, ByTime, InFlight, States
    <3>2. SettlesAs(j, c, "expired", t)
      BY <1>0, <3>1, SettledFields, StateNames
    <3>3. QED BY <1>2, <3>1, <3>2 DEF Becomes, SettlesAs
  <2>3. QED BY <2>1, <2>2
<1>3. CASE j.state \notin Terminal /\ ~TtlOver(j, t) /\ LeaseOver(j, t)
  <2>0. j.state # "queued"
    BY <1>3 DEF LeaseOver, InFlight
  <2>1. CASE j.policy = "park"
    <3>1. c = Settled(j, "needs_recovery", TRUE, t) /\ "needs_recovery" \in ByTime(j)
      BY <1>3, <2>0, <2>1 DEF SweptJob, ByTime
    <3>2. SettlesAs(j, c, "needs_recovery", t)
      BY <1>0, <3>1, SettledFields, StateNames
    <3>3. QED BY <1>3, <3>1, <3>2 DEF Becomes, SettlesAs
  <2>2. CASE j.policy # "park" /\ b.attempts >= MaxAttempts
    <3>1. c = Settled(b, "failed", TRUE, t) /\ "failed" \in ByTime(j)
      BY <1>3, <2>0, <2>2 DEF SweptJob, ByTime
    <3>2. b \in Job /\ Becomes(j, b, j.state, j.token)
      BY <1>0, BumpedFields
    <3> HIDE DEF b
    <3>3. SettlesAs(b, c, "failed", t)
      BY <3>1, <3>2, SettledFields, StateNames
    <3>4. QED BY <1>3, <3>1, <3>2, <3>3 DEF Becomes, Kin, SettlesAs
  <2>3. CASE j.policy # "park" /\ ~(b.attempts >= MaxAttempts)
    <3>1. c = BackToQueue(b) /\ "queued" \in ByTime(j) /\ "queued" \notin Terminal
      BY <1>3, <2>0, <2>3 DEF SweptJob, ByTime, Terminal, Prunable, Awaiting
    <3>2. b \in Job /\ Becomes(j, b, j.state, j.token)
      BY <1>0, BumpedFields
    <3> HIDE DEF b
    <3>3. Becomes(b, c, "queued", None)
      BY <3>1, <3>2, BackToQueueFields
    <3>4. QED BY <1>3, <3>1, <3>2, <3>3 DEF Becomes, Kin
  <2>4. QED BY <2>1, <2>2, <2>3
<1>4. CASE j.state \notin Terminal /\ ~TtlOver(j, t) /\ ~LeaseOver(j, t)
  BY <1>4 DEF SweptJob
<1>5. QED BY <1>1, <1>2, <1>3, <1>4

\* The jobs a sweep leaves are swept jobs, and those it drops are prunable ones.
LEMMA SweepKeeps ==
    ASSUME NEW S, NEW t
    PROVE  /\ DOMAIN Sweep(S, t) \subseteq DOMAIN S
           /\ \A m \in DOMAIN Sweep(S, t) : Sweep(S, t)[m] = SweptJob(S[m], t)
           /\ \A m \in DOMAIN S \ DOMAIN Sweep(S, t) : SweptJob(S[m], t).state \in Prunable
BY DEF Sweep, Pruned, Restricted, WithinRetention, Overflow, SweptJobs

LEMMA SweepMoves ==
    ASSUME NEW S, NEW n, StoreInv(S, n), NEW t \in Nat, NEW m \in DOMAIN Sweep(S, t)
    PROVE  /\ m \in DOMAIN S /\ JobInv(S[m])
           /\ \/ Sweep(S, t)[m] = S[m]
              \/ /\ S[m].state \notin Terminal /\ (TtlOver(S[m], t) \/ LeaseOver(S[m], t))
                 /\ Becomes(S[m], Sweep(S, t)[m], Sweep(S, t)[m].state, None)
                 /\ Sweep(S, t)[m].state \in ByTime(S[m])
BY SweepKeeps, SweptJobMoves DEF StoreInv

-----------------------------------------------------------------------------
(* The operations: each leaves the store alone or moves the job it names.  *)

LEMMA PutMoves ==
    ASSUME NEW S, NEW n, StoreInv(S, n), NEW i \in DOMAIN S, NEW j
    PROVE  OneMoves(S, Put(S, i, j), i) /\ Put(S, i, j)[i] = j
BY DEF StoreInv, Put, OneMoves

LEMMA ClaimMoves ==
    ASSUME NEW S, NEW n, StoreInv(S, n), NEW i, NEW k, NEW ms, NEW t
    PROVE  LET T == ClaimIn(S, i, k, ms, t) IN
           \/ ~CanClaim(S, i) /\ T = S
           \/ /\ CanClaim(S, i) /\ OneMoves(S, T, i) /\ JobInv(S[i])
              /\ Becomes(S[i], T[i], "claimed", k)
<1> DEFINE c == [S[i] EXCEPT !.state = "claimed", !.token = k,
                             !.lease = LeaseUntil(t, ms), !.lastClaim = k]
<1>1. CASE ~CanClaim(S, i)
  BY <1>1 DEF ClaimIn
<1>2. CASE CanClaim(S, i)
  <2>1. i \in DOMAIN S /\ JobInv(S[i])
    BY <1>2 DEF CanClaim, Found, StoreInv
  <2>2. Becomes(S[i], c, "claimed", k)
    BY <2>1 DEF Becomes, Kin, JobInv, Job
  <2>3. ClaimIn(S, i, k, ms, t) = Put(S, i, c)
    BY <1>2 DEF ClaimIn
  <2> HIDE DEF c
  <2>4. QED BY <1>2, <2>1, <2>2, <2>3, PutMoves
<1>3. QED BY <1>1, <1>2

LEMMA StartMoves ==
    ASSUME NEW S, NEW n, StoreInv(S, n), NEW i, NEW k
    PROVE  LET T == StartIn(S, i, k) IN
           \/ ~CanStart(S, i, k) /\ T = S
           \/ /\ CanStart(S, i, k) /\ OneMoves(S, T, i) /\ JobInv(S[i])
              /\ Becomes(S[i], T[i], "running", k)
<1> DEFINE c == [S[i] EXCEPT !.state = "running"]
<1>1. CASE ~CanStart(S, i, k)
  BY <1>1 DEF StartIn
<1>2. CASE CanStart(S, i, k)
  <2>1. i \in DOMAIN S /\ JobInv(S[i]) /\ S[i].token = k
    BY <1>2, OwnedJob DEF CanStart
  <2>2. Becomes(S[i], c, "running", k)
    BY <2>1 DEF Becomes, Kin, JobInv, Job
  <2>3. StartIn(S, i, k) = Put(S, i, c)
    BY <1>2 DEF StartIn
  <2> HIDE DEF c
  <2>4. QED BY <1>2, <2>1, <2>2, <2>3, PutMoves
<1>3. QED BY <1>1, <1>2

LEMMA HeartbeatMoves ==
    ASSUME NEW S, NEW n, StoreInv(S, n), NEW i, NEW k, NEW ms, NEW t
    PROVE  LET T == HeartbeatIn(S, i, k, ms, t) IN
           \/ ~Owns(S, i, k) /\ T = S
           \/ /\ Owns(S, i, k) /\ OneMoves(S, T, i) /\ JobInv(S[i])
              /\ Becomes(S[i], T[i], S[i].state, k) /\ T[i].lease = LeaseUntil(t, ms)
<1> DEFINE c == [S[i] EXCEPT !.lease = LeaseUntil(t, ms)]
<1>1. CASE ~Owns(S, i, k)
  BY <1>1 DEF HeartbeatIn
<1>2. CASE Owns(S, i, k)
  <2>1. i \in DOMAIN S /\ JobInv(S[i]) /\ S[i].token = k
    BY <1>2, OwnedJob
  <2>2. Becomes(S[i], c, S[i].state, k) /\ c.lease = LeaseUntil(t, ms)
    BY <2>1 DEF Becomes, Kin, JobInv, Job
  <2>3. HeartbeatIn(S, i, k, ms, t) = Put(S, i, c)
    BY <1>2 DEF HeartbeatIn
  <2> HIDE DEF c
  <2>4. QED BY <1>2, <2>1, <2>2, <2>3, PutMoves
<1>3. QED BY <1>1, <1>2

LEMMA ReleaseMoves ==
    ASSUME NEW S, NEW n, StoreInv(S, n), NEW i, NEW k
    PROVE  LET T == ReleaseIn(S, i, k) IN
           \/ ~Owns(S, i, k) /\ T = S
           \/ /\ Owns(S, i, k) /\ OneMoves(S, T, i) /\ JobInv(S[i])
              /\ Becomes(S[i], T[i], "queued", None)
<1>1. CASE ~Owns(S, i, k)
  BY <1>1 DEF ReleaseIn
<1>2. CASE Owns(S, i, k)
  <2>1. i \in DOMAIN S /\ JobInv(S[i]) /\ S[i] \in Job
    BY <1>2, OwnedJob DEF JobInv
  <2>2. ReleaseIn(S, i, k) = Put(S, i, BackToQueue(S[i]))
    BY <1>2 DEF ReleaseIn
  <2>3. QED BY <1>2, <2>1, <2>2, BackToQueueFields, PutMoves
<1>3. QED BY <1>1, <1>2

LEMMA CompleteMoves ==
    ASSUME NEW S, NEW n, StoreInv(S, n), NEW i, NEW k, NEW t
    PROVE  LET T == CompleteIn(S, i, k, t) IN
           \/ ~Owns(S, i, k) /\ T = S
           \/ /\ Owns(S, i, k) /\ OneMoves(S, T, i) /\ JobInv(S[i])
              /\ Becomes(S[i], T[i], "completed", None) /\ T[i].completedBy = k
<1> DEFINE c == [Settled(S[i], "completed", FALSE, t) EXCEPT !.result = k, !.completedBy = k]
<1>1. CASE ~Owns(S, i, k)
  BY <1>1 DEF CompleteIn
<1>2. CASE Owns(S, i, k)
  <2>1. i \in DOMAIN S /\ JobInv(S[i])
    BY <1>2, OwnedJob
  <2>2. Becomes(S[i], c, "completed", None) /\ c.completedBy = k
    BY <2>1 DEF Becomes, Kin, JobInv, Job, Settled
  <2>3. CompleteIn(S, i, k, t) = Put(S, i, c)
    BY <1>2 DEF CompleteIn
  <2> HIDE DEF c
  <2>4. QED BY <1>2, <2>1, <2>2, <2>3, PutMoves
<1>3. QED BY <1>1, <1>2

LEMMA FailMoves ==
    ASSUME NEW S, NEW n, StoreInv(S, n), NEW i, NEW k, NEW retry \in BOOLEAN, NEW t \in Nat
    PROVE  LET T == FailIn(S, i, k, retry, t) IN
           \/ ~Owns(S, i, k) /\ T = S
           \/ /\ Owns(S, i, k) /\ OneMoves(S, T, i) /\ JobInv(S[i])
              /\ \/ Becomes(S[i], T[i], "failed", None)
                 \/ retry /\ Becomes(S[i], T[i], "queued", None)
<1> DEFINE b == [S[i] EXCEPT !.attempts = @ + 1]
<1>1. CASE ~Owns(S, i, k)
  BY <1>1 DEF FailIn
<1>2. CASE Owns(S, i, k)
  <2>1. i \in DOMAIN S /\ JobInv(S[i]) /\ S[i] \in Job
    BY <1>2, OwnedJob DEF JobInv
  <2>2. b \in Job /\ Becomes(S[i], b, S[i].state, S[i].token)
    BY <2>1, BumpedFields
  <2>3. CASE retry /\ b.attempts < MaxAttempts
    <3>1. FailIn(S, i, k, retry, t) = Put(S, i, BackToQueue(b))
      BY <1>2, <2>3 DEF FailIn
    <3> HIDE DEF b
    <3>2. Becomes(b, BackToQueue(b), "queued", None)
      BY <2>2, BackToQueueFields
    <3>3. Becomes(S[i], BackToQueue(b), "queued", None)
      BY <2>2, <3>2 DEF Becomes, Kin
    <3> DEFINE T == FailIn(S, i, k, retry, t)
    <3>4. OneMoves(S, T, i) /\ T[i] = BackToQueue(b)
      BY <2>1, <3>1, PutMoves
    <3>5. Becomes(S[i], T[i], "queued", None)
      BY <3>3, <3>4
    <3> HIDE DEF T
    <3>6. QED BY <1>2, <2>1, <2>3, <3>4, <3>5, Zenon DEF T
  <2>4. CASE ~(retry /\ b.attempts < MaxAttempts)
    <3> DEFINE f == Settled(b, "failed", TRUE, t)
    <3>1. FailIn(S, i, k, retry, t) = Put(S, i, f)
      BY <1>2, <2>4 DEF FailIn
    <3> HIDE DEF b
    <3>2. SettlesAs(b, f, "failed", t)
      BY <2>2, SettledFields, StateNames
    <3>3. Becomes(S[i], f, "failed", None)
      BY <2>2, <3>2 DEF Becomes, Kin, SettlesAs
    <3> HIDE DEF f
    <3>4. QED BY <1>2, <2>1, <3>1, <3>3, PutMoves
  <2>5. QED BY <2>3, <2>4
<1>3. QED BY <1>1, <1>2

LEMMA CancelMoves ==
    ASSUME NEW S, NEW n, StoreInv(S, n), NEW i, NEW t \in Nat
    PROVE  LET T == CancelIn(S, i, t) IN
           \/ T = S
           \/ /\ OneMoves(S, T, i) /\ JobInv(S[i]) /\ S[i].state \notin Terminal
              /\ Becomes(S[i], T[i], "cancelled", None)
<1>1. CASE ~(Found(S, i) /\ S[i].state \notin Terminal)
  BY <1>1 DEF CancelIn
<1>2. CASE Found(S, i) /\ S[i].state \notin Terminal
  <2>1. i \in DOMAIN S /\ JobInv(S[i]) /\ S[i] \in Job
    BY <1>2 DEF Found, StoreInv, JobInv
  <2> DEFINE c == Settled(S[i], "cancelled", FALSE, t)
  <2>2. CancelIn(S, i, t) = Put(S, i, c)
    BY <1>2 DEF CancelIn
  <2>3. Becomes(S[i], c, "cancelled", None)
    BY <2>1, SettledFields, StateNames DEF SettlesAs
  <2> HIDE DEF c
  <2>4. QED BY <1>2, <2>1, <2>2, <2>3, PutMoves
<1>3. QED BY <1>1, <1>2

LEMMA ParkMoves ==
    ASSUME NEW S, NEW n, StoreInv(S, n), NEW i, NEW k, NEW t \in Nat
    PROVE  LET T == ParkIn(S, i, k, t) IN
           \/ ~Owns(S, i, k) /\ T = S
           \/ /\ Owns(S, i, k) /\ OneMoves(S, T, i) /\ JobInv(S[i])
              /\ Becomes(S[i], T[i], "needs_recovery", None)
<1>1. CASE ~Owns(S, i, k)
  BY <1>1 DEF ParkIn
<1>2. CASE Owns(S, i, k)
  <2>1. i \in DOMAIN S /\ JobInv(S[i]) /\ S[i] \in Job
    BY <1>2, OwnedJob DEF JobInv
  <2> DEFINE c == Settled(S[i], "needs_recovery", TRUE, t)
  <2>2. ParkIn(S, i, k, t) = Put(S, i, c)
    BY <1>2 DEF ParkIn
  <2>3. Becomes(S[i], c, "needs_recovery", None)
    BY <2>1, SettledFields, StateNames DEF SettlesAs
  <2> HIDE DEF c
  <2>4. QED BY <1>2, <2>1, <2>2, <2>3, PutMoves
<1>3. QED BY <1>1, <1>2

LEMMA RequeuedFields ==
    ASSUME NEW j \in Job
    PROVE  /\ Becomes(j, Requeued(j), "queued", None)
           /\ LET c == [Requeued(j) EXCEPT !.cleared = TRUE]
              IN  Kin(j, c) /\ c.state = "queued" /\ c.token = None
BY DEF Requeued, BackToQueue, Job, Becomes, Kin

LEMMA RecoverMoves ==
    ASSUME NEW S, NEW n, StoreInv(S, n), NEW i
    PROVE  LET T == RecoverIn(S, i) IN
           \/ ~CanRecover(S, i) /\ T = S
           \/ /\ CanRecover(S, i) /\ OneMoves(S, T, i) /\ JobInv(S[i])
              /\ Becomes(S[i], T[i], "queued", None)
<1>1. CASE ~CanRecover(S, i)
  BY <1>1 DEF RecoverIn
<1>2. CASE CanRecover(S, i)
  <2>1. i \in DOMAIN S /\ JobInv(S[i]) /\ S[i] \in Job
    BY <1>2 DEF CanRecover, Found, StoreInv, JobInv
  <2> DEFINE c == Requeued(S[i])
  <2>2. RecoverIn(S, i) = Put(S, i, c)
    BY <1>2 DEF RecoverIn
  <2>3. Becomes(S[i], c, "queued", None)
    BY <2>1, RequeuedFields
  <2> HIDE DEF c
  <2>4. QED BY <1>2, <2>1, <2>2, <2>3, PutMoves
<1>3. QED BY <1>1, <1>2

LEMMA ReviewMoves ==
    ASSUME NEW S, NEW n, StoreInv(S, n), NEW i, NEW k, NEW kind, NEW t
    PROVE  LET T == ReviewIn(S, i, k, kind, t) IN
           \/ ~CanReview(S, i, k, kind) /\ T = S
           \/ /\ CanReview(S, i, k, kind) /\ OneMoves(S, T, i) /\ JobInv(S[i])
              /\ Kin(S[i], T[i]) /\ T[i].state = "needs_review" /\ T[i].token = None
              /\ T[i].cleared = S[i].cleared /\ T[i].reviewKind = kind
<1> DEFINE c == [Settled(S[i], "needs_review", FALSE, t) EXCEPT
                   !.reviewKind = kind,
                   !.result = IF kind = "selfflagged" THEN k ELSE None]
<1>1. CASE ~CanReview(S, i, k, kind)
  BY <1>1 DEF ReviewIn
<1>2. CASE CanReview(S, i, k, kind)
  <2>1. i \in DOMAIN S /\ JobInv(S[i])
    BY <1>2, OwnedJob DEF CanReview
  <2>2. /\ Kin(S[i], c) /\ c.state = "needs_review" /\ c.token = None
        /\ c.cleared = S[i].cleared /\ c.reviewKind = kind
    BY <2>1 DEF Kin, JobInv, Job, Settled
  <2>3. ReviewIn(S, i, k, kind, t) = Put(S, i, c)
    BY <1>2 DEF ReviewIn
  <2> HIDE DEF c
  <2>4. QED BY <1>2, <2>1, <2>2, <2>3, PutMoves
<1>3. QED BY <1>1, <1>2

LEMMA ResolveMoves ==
    ASSUME NEW S, NEW n, StoreInv(S, n), NEW i, NEW approve \in BOOLEAN, NEW t \in Nat
    PROVE  LET T == ResolveIn(S, i, approve, t) IN
           \/ ~CanResolve(S, i) /\ T = S
           \/ /\ CanResolve(S, i) /\ OneMoves(S, T, i) /\ JobInv(S[i])
              /\ \/ Becomes(S[i], T[i], "failed", None)
                 \/ /\ approve /\ S[i].reviewKind = "predeclared"
                    /\ Kin(S[i], T[i]) /\ T[i].state = "queued" /\ T[i].token = None
                 \/ Becomes(S[i], T[i], "completed", None)
<1>1. CASE ~CanResolve(S, i)
  BY <1>1 DEF ResolveIn
<1>2. CASE CanResolve(S, i)
  <2>1. i \in DOMAIN S /\ JobInv(S[i]) /\ S[i] \in Job
    BY <1>2 DEF CanResolve, Found, StoreInv, JobInv
  <2>2. CASE ~approve
    <3> DEFINE c == Settled(S[i], "failed", TRUE, t)
    <3>1. ResolveIn(S, i, approve, t) = Put(S, i, c)
      BY <1>2, <2>2 DEF ResolveIn
    <3>2. Becomes(S[i], c, "failed", None)
      BY <2>1, SettledFields, StateNames DEF SettlesAs
    <3> HIDE DEF c
    <3>3. QED BY <1>2, <2>1, <3>1, <3>2, PutMoves
  <2>3. CASE approve /\ S[i].reviewKind = "predeclared"
    <3> DEFINE c == [Requeued(S[i]) EXCEPT !.cleared = TRUE]
    <3>1. ResolveIn(S, i, approve, t) = Put(S, i, c)
      BY <1>2, <2>3 DEF ResolveIn
    <3>2. Kin(S[i], c) /\ c.state = "queued" /\ c.token = None
      BY <2>1, RequeuedFields
    <3> DEFINE T == ResolveIn(S, i, approve, t)
    <3> HIDE DEF c
    <3>3. OneMoves(S, T, i) /\ T[i] = c
      BY <2>1, <3>1, PutMoves
    <3>4. Kin(S[i], T[i]) /\ T[i].state = "queued" /\ T[i].token = None
      BY <3>2, <3>3
    <3> HIDE DEF T
    <3>5. QED BY <1>2, <2>1, <2>3, <3>3, <3>4, Zenon DEF T
  <2>4. CASE approve /\ S[i].reviewKind # "predeclared"
    <3> DEFINE c == Settled(S[i], "completed", FALSE, t)
    <3>1. ResolveIn(S, i, approve, t) = Put(S, i, c)
      BY <1>2, <2>4 DEF ResolveIn
    <3>2. Becomes(S[i], c, "completed", None)
      BY <2>1, SettledFields, StateNames DEF SettlesAs
    <3> HIDE DEF c
    <3>3. QED BY <1>2, <2>1, <3>1, <3>2, PutMoves
  <2>5. QED BY <2>2, <2>3, <2>4
<1>3. QED BY <1>1, <1>2

-----------------------------------------------------------------------------
(* The abstract life of a job: one sweep and at most one call per step.    *)

\* The life of the job i in the store S after n jobs were created.
LifeIn(S, n, i) == IF i > n THEN "unborn" ELSE IF i \in DOMAIN S THEN S[i].state ELSE "gone"
PolicyIn(S, i) == IF i \in DOMAIN S THEN S[i].policy ELSE "requeue"

LEMMA LifeValues ==
    ASSUME NEW i \in JobIds
    PROVE  /\ Life[i] = LifeIn(jobs, lastJob, i) /\ PolicyOf[i] = PolicyIn(jobs, i)
           /\ Life'[i] = LifeIn(jobs', lastJob', i) /\ PolicyOf'[i] = PolicyIn(jobs', i)
BY DEF Life, PolicyOf, LifeIn, PolicyIn

\* The sweep is the passing of time.
LEMMA SweepIsTime ==
    ASSUME Inv, NEW t \in Readings, NEW i \in JobIds
    PROVE  /\ LifeIn(Sweep(jobs, t), lastJob, i) \in Lifecycle!AfterTime(i)
           /\ PolicyIn(Sweep(jobs, t), i) =
                IF LifeIn(Sweep(jobs, t), lastJob, i) = "gone" THEN "requeue"
                ELSE PolicyOf[i]
<1> DEFINE U == Sweep(jobs, t)
<1>1. t \in Nat /\ StoreInv(jobs, lastJob) /\ lastJob \in Nat /\ i \in Nat
  BY ReadingsAreTimes, BoundsAssumption DEF Inv, JobIds
<1>2. Life[i] = LifeIn(jobs, lastJob, i) /\ PolicyOf[i] = PolicyIn(jobs, i)
  BY LifeValues
<1>3. CASE i \notin DOMAIN jobs
  <2>1. i \notin DOMAIN U
    BY <1>3, SweepKeeps
  <2>2. LifeIn(U, lastJob, i) = Life[i] /\ PolicyIn(U, i) = "requeue" /\ PolicyOf[i] = "requeue"
    BY <1>2, <1>3, <2>1 DEF LifeIn, PolicyIn
  <2>3. QED BY <2>2 DEF Lifecycle!AfterTime
<1>4. CASE i \in DOMAIN jobs
  <2> DEFINE c == SweptJob(jobs[i], t)
  <2>1. JobInv(jobs[i]) /\ i <= lastJob /\ jobs[i].state \in States
    BY <1>1, <1>4 DEF StoreInv, JobInv, Job
  <2>2. Life[i] = jobs[i].state /\ PolicyOf[i] = jobs[i].policy
    BY <1>1, <1>2, <1>4, <2>1 DEF LifeIn, PolicyIn
  <2>3. /\ c.policy = jobs[i].policy
        /\ \/ c.state = jobs[i].state
           \/ jobs[i].state \notin Terminal /\ c.state \in ByTime(jobs[i])
    <3>1. \/ c = jobs[i]
          \/ /\ jobs[i].state \notin Terminal /\ c.state \in ByTime(jobs[i])
             /\ Becomes(jobs[i], c, c.state, None)
      BY <1>1, <2>1, SweptJobMoves
    <3> HIDE DEF c
    <3>2. QED BY <3>1 DEF Becomes, Kin
  <2> HIDE DEF c
  <2>4. c.state \in Lifecycle!AfterTime(i)
        /\ (c.state \in Prunable => "gone" \in Lifecycle!AfterTime(i))
    <3>1. CASE c.state = jobs[i].state
      BY <2>2, <3>1 DEF Lifecycle!AfterTime, Lifecycle!Finished, Prunable
    <3>2. CASE jobs[i].state = "queued" /\ c.state = "expired"
      BY <2>2, <3>2 DEF Lifecycle!AfterTime, Lifecycle!Finished, Prunable
    <3>3. CASE jobs[i].state \in InFlight /\ c.state \in ByTime(jobs[i])
      BY <2>2, <3>3 DEF Lifecycle!AfterTime, Lifecycle!Finished, Lifecycle!Working,
                        Prunable, InFlight, ByTime
    <3>4. QED BY <2>1, <2>3, <3>1, <3>2, <3>3 DEF States, ByTime
  <2>5. CASE i \in DOMAIN U
    <3>1. U[i] = c
      BY <2>5, SweepKeeps DEF c
    <3>2. LifeIn(U, lastJob, i) = c.state /\ PolicyIn(U, i) = PolicyOf[i]
      BY <1>1, <2>1, <2>2, <2>3, <2>5, <3>1 DEF LifeIn, PolicyIn
    <3>3. c.state # "gone"
      BY <2>1, <2>3 DEF States, InFlight, Terminal, Prunable, Awaiting, ByTime
    <3>4. QED BY <2>4, <3>2, <3>3
  <2>6. CASE i \notin DOMAIN U
    <3>1. c.state \in Prunable
      BY <1>4, <2>6, SweepKeeps DEF c
    <3>2. LifeIn(U, lastJob, i) = "gone" /\ PolicyIn(U, i) = "requeue"
      BY <1>1, <2>1, <2>6 DEF LifeIn, PolicyIn
    <3>3. QED BY <2>4, <3>1, <3>2
  <2>7. QED BY <2>5, <2>6
<1>5. QED BY <1>3, <1>4

\* A transaction that only sweeps.
LEMMA TimeStep ==
    ASSUME Inv, NEW t \in Readings, jobs' = Sweep(jobs, t), lastJob' = lastJob
    PROVE  Lifecycle!Transaction
<1>1. ASSUME NEW i \in JobIds
      PROVE  Life'[i] \in Lifecycle!AfterTime(i) /\ Lifecycle!PolicyStep(i)
  <2>1. Life'[i] \in Lifecycle!AfterTime(i)
        /\ PolicyOf'[i] = IF Life'[i] = "gone" THEN "requeue" ELSE PolicyOf[i]
    BY SweepIsTime, LifeValues
  <2>2. ~(Life[i] = "unborn" /\ Life'[i] = "queued")
    BY <2>1 DEF Lifecycle!AfterTime, Lifecycle!Working, Lifecycle!Finished
  <2>3. QED BY <2>1, <2>2 DEF Lifecycle!PolicyStep
<1>2. \A i \in JobIds :
        Life'[i] \in (IF i \in {} THEN Lifecycle!Called(i) ELSE Lifecycle!AfterTime(i))
  BY <1>1
<1>3. {} \in SUBSET JobIds /\ \A i, j \in {} : i = j
  OBVIOUS
<1>4. QED BY <1>1, <1>2, <1>3 DEF Lifecycle!Transaction

\* A transaction in which the operation takes the job i from the state the sweep
\* left it in to one the call may take it to.
LEMMA MoveStep ==
    ASSUME Inv, NEW t \in Readings, NEW i, OneMoves(Sweep(jobs, t), jobs', i),
           jobs'[i].policy = Sweep(jobs, t)[i].policy,
           jobs'[i].state \in Lifecycle!AfterCall(Sweep(jobs, t)[i].state),
           jobs'[i].state # "gone",
           lastJob' = lastJob, lastJob <= MaxJobId
    PROVE  Lifecycle!Transaction
<1> DEFINE U == Sweep(jobs, t)
<1>1. StoreInv(U, lastJob) /\ lastJob \in Nat
  BY SweptStoreInv DEF Inv
<1>2. /\ i \in DOMAIN U /\ DOMAIN jobs' = DOMAIN U
      /\ \A m \in DOMAIN U : m # i => jobs'[m] = U[m]
      /\ i \in JobIds /\ i <= lastJob
  BY <1>1, BoundsAssumption DEF OneMoves, StoreInv, JobIds
<1>3. /\ Life'[i] = jobs'[i].state /\ PolicyOf'[i] = jobs'[i].policy
      /\ LifeIn(U, lastJob, i) = U[i].state /\ PolicyIn(U, i) = U[i].policy
  BY <1>1, <1>2, LifeValues DEF LifeIn, PolicyIn, JobIds
<1>4. U[i].state \in Lifecycle!AfterTime(i) /\ U[i].state # "gone"
      /\ U[i].policy = PolicyOf[i]
  <2>1. U[i].state \in States
    BY <1>1, <1>2 DEF StoreInv, JobInv, Job
  <2>2. U[i].state # "gone"
    BY <2>1 DEF States, InFlight, Terminal, Prunable, Awaiting
  <2>3. QED BY <1>2, <1>3, <2>2, SweepIsTime
<1>5. Life'[i] \in Lifecycle!Called(i)
  BY <1>3, <1>4 DEF Lifecycle!Called
<1>6. Life[i] # "unborn"
  BY <1>1, <1>2, <1>4, LifeValues
  DEF LifeIn, JobIds, Inv, StoreInv, JobInv, Job, States, InFlight, Terminal, Prunable, Awaiting
<1>7. Lifecycle!PolicyStep(i)
  BY <1>3, <1>4, <1>6 DEF Lifecycle!PolicyStep
<1>8. ASSUME NEW m \in JobIds, m # i
      PROVE  Life'[m] \in Lifecycle!AfterTime(m) /\ Lifecycle!PolicyStep(m)
  <2>1. Life'[m] = LifeIn(U, lastJob, m) /\ PolicyOf'[m] = PolicyIn(U, m)
    BY <1>2, <1>8, LifeValues DEF LifeIn, PolicyIn
  <2>2. /\ Life'[m] \in Lifecycle!AfterTime(m)
        /\ PolicyOf'[m] = IF Life'[m] = "gone" THEN "requeue" ELSE PolicyOf[m]
    BY <2>1, SweepIsTime
  <2>3. ~(Life[m] = "unborn" /\ Life'[m] = "queued")
    BY <2>2 DEF Lifecycle!AfterTime, Lifecycle!Working, Lifecycle!Finished
  <2>4. QED BY <2>2, <2>3 DEF Lifecycle!PolicyStep
<1>9. \A m \in JobIds :
        Life'[m] \in (IF m \in {i} THEN Lifecycle!Called(m) ELSE Lifecycle!AfterTime(m))
  BY <1>5, <1>8
<1>10. {i} \in SUBSET JobIds /\ \A m, n \in {i} : m = n
  BY <1>2
<1>11. \A m \in JobIds : Lifecycle!PolicyStep(m)
  BY <1>7, <1>8
<1>12. QED BY <1>9, <1>10, <1>11 DEF Lifecycle!Transaction

LEMMA EnqueueStep ==
    ASSUME Inv, lastJob <= MaxJobId, NEW r \in RequestIds, NEW to, NEW p,
           NEW pol \in Policies, NEW ttl, Enqueue(r, to, p, pol, ttl)
    PROVE  Lifecycle!Transaction
<1>1. PICK t \in Readings :
        /\ HasRequest(Sweep(jobs, t), r) \/ lastJob < MaxJobId
        /\ jobs' = EnqueueIn(Sweep(jobs, t), lastJob + 1, r, to, p, pol, ttl, t)
        /\ lastJob' = IF HasRequest(Sweep(jobs, t), r) THEN lastJob ELSE lastJob + 1
  BY DEF Enqueue
<1> DEFINE U == Sweep(jobs, t)
<1>2. CASE HasRequest(U, r)
  BY <1>1, <1>2, TimeStep DEF EnqueueIn
<1>3. CASE ~HasRequest(U, r)
  <2>1. PICK n : n = lastJob + 1
    OBVIOUS
  <2>2. /\ StoreInv(U, lastJob) /\ lastJob \in Nat /\ lastJob < MaxJobId
        /\ n \in JobIds /\ n \notin DOMAIN U /\ n \notin DOMAIN jobs
    BY <1>1, <1>3, <2>1, SweptStoreInv, BoundsAssumption DEF Inv, StoreInv, JobIds
  <2>3. /\ jobs' = [m \in DOMAIN U \cup {n} |->
                      IF m = n THEN NewJob(r, to, p, pol, ttl, t) ELSE U[m]]
        /\ lastJob' = n
    BY <1>1, <1>3, <2>1 DEF EnqueueIn
  <2>4. n \in DOMAIN jobs' /\ jobs'[n].state = "queued" /\ jobs'[n].policy = pol
    BY <2>3 DEF NewJob
  <2>5. Life[n] = "unborn" /\ Life'[n] = "queued" /\ PolicyOf'[n] = pol
    BY <2>1, <2>2, <2>3, <2>4, LifeValues DEF LifeIn, PolicyIn, JobIds
  <2>6. Life'[n] \in Lifecycle!Called(n) /\ Lifecycle!PolicyStep(n)
    BY <2>5 DEF Lifecycle!Called, Lifecycle!AfterTime, Lifecycle!AfterCall,
                Lifecycle!PolicyStep, Policies
  <2>7. ASSUME NEW m \in JobIds, m # n
        PROVE  Life'[m] \in Lifecycle!AfterTime(m) /\ Lifecycle!PolicyStep(m)
    <3>1. Life'[m] = LifeIn(U, lastJob, m) /\ PolicyOf'[m] = PolicyIn(U, m)
      BY <2>1, <2>2, <2>3, <2>7, LifeValues DEF LifeIn, PolicyIn, JobIds
    <3>2. /\ Life'[m] \in Lifecycle!AfterTime(m)
          /\ PolicyOf'[m] = IF Life'[m] = "gone" THEN "requeue" ELSE PolicyOf[m]
      BY <3>1, SweepIsTime
    <3>3. ~(Life[m] = "unborn" /\ Life'[m] = "queued")
      BY <3>2 DEF Lifecycle!AfterTime, Lifecycle!Working, Lifecycle!Finished
    <3>4. QED BY <3>2, <3>3 DEF Lifecycle!PolicyStep
  <2>8. \A m \in JobIds :
          Life'[m] \in (IF m \in {n} THEN Lifecycle!Called(m) ELSE Lifecycle!AfterTime(m))
    BY <2>6, <2>7
  <2>9. {n} \in SUBSET JobIds /\ \A l, m \in {n} : l = m
    BY <2>2
  <2>10. \A m \in JobIds : Lifecycle!PolicyStep(m)
    BY <2>6, <2>7
  <2>11. QED BY <2>8, <2>9, <2>10 DEF Lifecycle!Transaction
<1>4. QED BY <1>2, <1>3

\* A heartbeat moves no job.
LEMMA StandStep ==
    ASSUME Inv, NEW t \in Readings, NEW i, OneMoves(Sweep(jobs, t), jobs', i),
           jobs'[i].state = Sweep(jobs, t)[i].state,
           jobs'[i].policy = Sweep(jobs, t)[i].policy, lastJob' = lastJob
    PROVE  Lifecycle!Transaction
<1> DEFINE U == Sweep(jobs, t)
<1>1. ASSUME NEW m \in JobIds
      PROVE  Life'[m] \in Lifecycle!AfterTime(m) /\ Lifecycle!PolicyStep(m)
  <2>1. Life'[m] = LifeIn(U, lastJob, m) /\ PolicyOf'[m] = PolicyIn(U, m)
    BY LifeValues DEF LifeIn, PolicyIn, OneMoves
  <2>2. /\ Life'[m] \in Lifecycle!AfterTime(m)
        /\ PolicyOf'[m] = IF Life'[m] = "gone" THEN "requeue" ELSE PolicyOf[m]
    BY <2>1, SweepIsTime
  <2>3. ~(Life[m] = "unborn" /\ Life'[m] = "queued")
    BY <2>2 DEF Lifecycle!AfterTime, Lifecycle!Working, Lifecycle!Finished
  <2>4. QED BY <2>2, <2>3 DEF Lifecycle!PolicyStep
<1>2. \A m \in JobIds :
        Life'[m] \in (IF m \in {} THEN Lifecycle!Called(m) ELSE Lifecycle!AfterTime(m))
  BY <1>1
<1>3. {} \in SUBSET JobIds /\ \A m, n \in {} : m = n
  OBVIOUS
<1>4. QED BY <1>1, <1>2, <1>3 DEF Lifecycle!Transaction

\* What a call does to the store the sweep left: nothing, or it moves one job the
\* way the abstract life allows.
Refused(t) == jobs' = Sweep(jobs, t)
MovesTo(t, i) ==
    /\ OneMoves(Sweep(jobs, t), jobs', i)
    /\ Kin(Sweep(jobs, t)[i], jobs'[i])
    /\ jobs'[i].state \in Lifecycle!AfterCall(Sweep(jobs, t)[i].state)

Stands(t, i) ==
    /\ OneMoves(Sweep(jobs, t), jobs', i)
    /\ Kin(Sweep(jobs, t)[i], jobs'[i])
    /\ jobs'[i].state = Sweep(jobs, t)[i].state

LEMMA CalledStep ==
    ASSUME Inv, lastJob <= MaxJobId, NEW t \in Readings, NEW i, lastJob' = lastJob,
           Refused(t) \/ Stands(t, i) \/ MovesTo(t, i)
    PROVE  Lifecycle!Transaction
<1>1. CASE Refused(t)
  BY <1>1, TimeStep DEF Refused
<1>2. CASE MovesTo(t, i)
  <2>1. jobs'[i].policy = Sweep(jobs, t)[i].policy
    BY <1>2 DEF MovesTo, Kin
  <2>2. jobs'[i].state # "gone"
    BY <1>2 DEF MovesTo, Lifecycle!AfterCall
  <2>3. QED BY <1>2, <2>1, <2>2, MoveStep DEF MovesTo
<1>3. CASE Stands(t, i)
  BY <1>3, StandStep DEF Stands, Kin
<1>4. QED BY <1>1, <1>2, <1>3

LEMMA SweptReading ==
    ASSUME Inv, NEW t \in Readings
    PROVE  t \in Nat /\ StoreInv(Sweep(jobs, t), lastJob)
BY SweptStoreInv, ReadingsAreTimes

\* What a call is, whichever it is.
CallKind ==
    \/ \E r \in RequestIds, to \in Addressees, p \in Payloads, pol \in Policies,
          ttl \in Ttls : Enqueue(r, to, p, pol, ttl)
    \/ \E t \in Readings : \E i :
          lastJob' = lastJob /\ (Refused(t) \/ Stands(t, i) \/ MovesTo(t, i))
    \/ ResetStore

LEMMA CallKinds ==
    ASSUME Inv, Call
    PROVE  CallKind
<1>1. CASE \E r \in RequestIds, to \in Addressees, p \in Payloads, pol \in Policies,
              ttl \in Ttls : Enqueue(r, to, p, pol, ttl)
  BY <1>1 DEF CallKind
<1>2. CASE \E i \in JobIds, ms \in LeaseTimes : Claim(i, ms)
  <2>1. PICK i \in JobIds, ms \in LeaseTimes, t \in Readings :
          jobs' = ClaimIn(Sweep(jobs, t), i, lastToken + 1, ms, t) /\ lastJob' = lastJob
    BY <1>2 DEF Claim
  <2>2. t \in Nat /\ StoreInv(Sweep(jobs, t), lastJob)
    BY SweptReading
  <2>3. Refused(t) \/ MovesTo(t, i)
    BY <2>1, <2>2, ClaimMoves
    DEF Refused, MovesTo, Becomes, CanClaim, Lifecycle!AfterCall
  <2>4. QED BY <2>1, <2>3 DEF CallKind
<1>3. CASE \E i \in JobIds, k \in Tokens : StartRunning(i, k)
  <2>1. PICK i \in JobIds, k \in Tokens, t \in Readings :
          jobs' = StartIn(Sweep(jobs, t), i, k) /\ lastJob' = lastJob
    BY <1>3 DEF StartRunning
  <2>2. t \in Nat /\ StoreInv(Sweep(jobs, t), lastJob)
    BY SweptReading
  <2>3. Refused(t) \/ MovesTo(t, i)
    BY <2>1, <2>2, StartMoves
    DEF Refused, MovesTo, Becomes, CanStart, Lifecycle!AfterCall
  <2>4. QED BY <2>1, <2>3 DEF CallKind
<1>4. CASE \E i \in JobIds, k \in Tokens, ms \in LeaseTimes : Heartbeat(i, k, ms)
  <2>1. PICK i \in JobIds, k \in Tokens, ms \in LeaseTimes, t \in Readings :
          jobs' = HeartbeatIn(Sweep(jobs, t), i, k, ms, t) /\ lastJob' = lastJob
    BY <1>4 DEF Heartbeat
  <2>2. t \in Nat /\ StoreInv(Sweep(jobs, t), lastJob)
    BY SweptReading
  <2>3. Refused(t) \/ Stands(t, i)
    BY <2>1, <2>2, HeartbeatMoves DEF Refused, Stands, Becomes
  <2>4. QED BY <2>1, <2>3 DEF CallKind
<1>5. CASE \E i \in JobIds, k \in Tokens : Release(i, k)
  <2>1. PICK i \in JobIds, k \in Tokens, t \in Readings :
          jobs' = ReleaseIn(Sweep(jobs, t), i, k) /\ lastJob' = lastJob
    BY <1>5 DEF Release
  <2>2. t \in Nat /\ StoreInv(Sweep(jobs, t), lastJob)
    BY SweptReading
  <2>3. Refused(t) \/ MovesTo(t, i)
    BY <2>1, <2>2, ReleaseMoves
    DEF Refused, MovesTo, Becomes, Owns, InFlight, Lifecycle!AfterCall
  <2>4. QED BY <2>1, <2>3 DEF CallKind
<1>6. CASE \E i \in JobIds, k \in Tokens : Complete(i, k)
  <2>1. PICK i \in JobIds, k \in Tokens, t \in Readings :
          jobs' = CompleteIn(Sweep(jobs, t), i, k, t) /\ lastJob' = lastJob
    BY <1>6 DEF Complete
  <2>2. t \in Nat /\ StoreInv(Sweep(jobs, t), lastJob)
    BY SweptReading
  <2>3. Refused(t) \/ MovesTo(t, i)
    BY <2>1, <2>2, CompleteMoves
    DEF Refused, MovesTo, Becomes, Owns, InFlight, Lifecycle!AfterCall
  <2>4. QED BY <2>1, <2>3 DEF CallKind
<1>7. CASE \E i \in JobIds, k \in Tokens, retry \in BOOLEAN : Fail(i, k, retry)
  <2>1. PICK i \in JobIds, k \in Tokens, retry \in BOOLEAN, t \in Readings :
          jobs' = FailIn(Sweep(jobs, t), i, k, retry, t) /\ lastJob' = lastJob
    BY <1>7 DEF Fail
  <2>2. t \in Nat /\ StoreInv(Sweep(jobs, t), lastJob)
    BY SweptReading
  <2>3. Refused(t) \/ MovesTo(t, i)
    BY <2>1, <2>2, FailMoves
    DEF Refused, MovesTo, Becomes, Owns, InFlight, Lifecycle!AfterCall
  <2>4. QED BY <2>1, <2>3 DEF CallKind
<1>8. CASE \E i \in JobIds : Cancel(i)
  <2>1. PICK i \in JobIds, t \in Readings :
          jobs' = CancelIn(Sweep(jobs, t), i, t) /\ lastJob' = lastJob
    BY <1>8 DEF Cancel
  <2>2. t \in Nat /\ StoreInv(Sweep(jobs, t), lastJob)
    BY SweptReading
  <2>3. Refused(t) \/ MovesTo(t, i)
    BY <2>1, <2>2, CancelMoves
    DEF Refused, MovesTo, Becomes, JobInv, Job, States, InFlight, Lifecycle!AfterCall
  <2>4. QED BY <2>1, <2>3 DEF CallKind
<1>9. CASE \E i \in JobIds, k \in Tokens : Park(i, k)
  <2>1. PICK i \in JobIds, k \in Tokens, t \in Readings :
          jobs' = ParkIn(Sweep(jobs, t), i, k, t) /\ lastJob' = lastJob
    BY <1>9 DEF Park
  <2>2. t \in Nat /\ StoreInv(Sweep(jobs, t), lastJob)
    BY SweptReading
  <2>3. Refused(t) \/ MovesTo(t, i)
    BY <2>1, <2>2, ParkMoves
    DEF Refused, MovesTo, Becomes, Owns, InFlight, Lifecycle!AfterCall
  <2>4. QED BY <2>1, <2>3 DEF CallKind
<1>10. CASE \E i \in JobIds : Recover(i)
  <2>1. PICK i \in JobIds, t \in Readings :
          jobs' = RecoverIn(Sweep(jobs, t), i) /\ lastJob' = lastJob
    BY <1>10 DEF Recover
  <2>2. t \in Nat /\ StoreInv(Sweep(jobs, t), lastJob)
    BY SweptReading
  <2>3. Refused(t) \/ MovesTo(t, i)
    BY <2>1, <2>2, RecoverMoves
    DEF Refused, MovesTo, Becomes, CanRecover, Lifecycle!AfterCall
  <2>4. QED BY <2>1, <2>3 DEF CallKind
<1>11. CASE \E i \in JobIds, k \in Tokens, kind \in ReviewKinds : NeedsReview(i, k, kind)
  <2>1. PICK i \in JobIds, k \in Tokens, kind \in ReviewKinds, t \in Readings :
          jobs' = ReviewIn(Sweep(jobs, t), i, k, kind, t) /\ lastJob' = lastJob
    BY <1>11 DEF NeedsReview
  <2>2. t \in Nat /\ StoreInv(Sweep(jobs, t), lastJob)
    BY SweptReading
  <2>3. Refused(t) \/ MovesTo(t, i)
    BY <2>1, <2>2, ReviewMoves
    DEF Refused, MovesTo, Becomes, CanReview, Owns, InFlight, Lifecycle!AfterCall
  <2>4. QED BY <2>1, <2>3 DEF CallKind
<1>12. CASE \E i \in JobIds, approve \in BOOLEAN : ResolveReview(i, approve)
  <2>1. PICK i \in JobIds, approve \in BOOLEAN, t \in Readings :
          jobs' = ResolveIn(Sweep(jobs, t), i, approve, t) /\ lastJob' = lastJob
    BY <1>12 DEF ResolveReview
  <2>2. t \in Nat /\ StoreInv(Sweep(jobs, t), lastJob)
    BY SweptReading
  <2>3. Refused(t) \/ MovesTo(t, i)
    BY <2>1, <2>2, ResolveMoves
    DEF Refused, MovesTo, Becomes, CanResolve, Lifecycle!AfterCall
  <2>4. QED BY <2>1, <2>3 DEF CallKind
<1>13. CASE \E a \in Agents : RegisterAgent(a)
  BY <1>13 DEF RegisterAgent, Refused, CallKind
<1>14. CASE ResetStore
  BY <1>14 DEF CallKind
<1>15. QED BY <1>1, <1>2, <1>3, <1>4, <1>5, <1>6, <1>7, <1>8,
             <1>9, <1>10, <1>11, <1>12, <1>13, <1>14 DEF Call

LEMMA CallsAreSteps ==
    ASSUME Inv, lastJob <= MaxJobId, Call
    PROVE  Lifecycle!Transaction \/ Lifecycle!Reset
<1>1. CASE ResetStore
  <2>1. Life' = [i \in JobIds |-> IF Life[i] = "unborn" THEN "unborn" ELSE "gone"]
    <3>1. \A i \in JobIds : Life[i] = "unborn" <=> i > lastJob
      BY DEF Life, Inv, StoreInv, JobInv, Job, States, InFlight, Terminal, Prunable, Awaiting
    <3>2. QED BY <1>1, <3>1 DEF ResetStore, Life
  <2>2. PolicyOf' = [i \in JobIds |-> "requeue"]
    BY <1>1 DEF ResetStore, PolicyOf
  <2>3. QED BY <2>1, <2>2 DEF Lifecycle!Reset
<1>2. QED BY <1>1, CallKinds, EnqueueStep, CalledStep DEF CallKind

\* The bound on the jobs created, which the abstract ids stand for.
Bounded == Inv /\ lastJob <= MaxJobId

LEMMA InitBounded == Init => Bounded
BY InitInv, BoundsAssumption DEF Init, Bounded

LEMMA BoundedStep ==
    ASSUME Bounded, [Transacts]_vars
    PROVE  Bounded'
<1>1. Inv'
  BY TransactsInv DEF Bounded
<1>2. CASE \E r \in RequestIds, to \in Addressees, p \in Payloads, pol \in Policies,
              ttl \in Ttls : Enqueue(r, to, p, pol, ttl)
  <2>1. PICK S, r : /\ HasRequest(S, r) \/ lastJob < MaxJobId
                    /\ lastJob' = IF HasRequest(S, r) THEN lastJob ELSE lastJob + 1
    BY <1>2 DEF Enqueue
  <2>2. QED BY <1>1, <2>1, BoundsAssumption DEF Bounded, Inv
<1>3. CASE lastJob' = lastJob
  BY <1>1, <1>3 DEF Bounded
<1>4. QED BY <1>2, <1>3
  DEF Transacts, Call, Claim, StartRunning, Heartbeat, Release, Complete, Fail, Cancel, Park,
      Recover, NeedsReview, ResolveReview, RegisterAgent, ResetStore, Read, Tick, vars

LEMMA LifecycleInit == Init => Lifecycle!Init
<1> SUFFICES ASSUME Init PROVE Lifecycle!Init
  OBVIOUS
<1>1. lastJob = 0 /\ DOMAIN jobs = {}
  BY DEF Init
<1>2. Life = [i \in JobIds |-> "unborn"] /\ PolicyOf = [i \in JobIds |-> "requeue"]
  BY <1>1, BoundsAssumption DEF Life, PolicyOf, JobIds
<1>3. QED BY <1>2 DEF Lifecycle!Init

\* Every step of the store is a step of the documented state machine.
LEMMA LifecycleStep ==
    ASSUME Bounded, [Transacts]_vars
    PROVE  [Lifecycle!Transaction \/ Lifecycle!Reset]_Lifecycle!lifeVars
<1>1. CASE Call
  BY <1>1, CallsAreSteps DEF Bounded
<1>2. CASE Read
  BY <1>2, TimeStep DEF Read, Bounded
<1>3. CASE Tick \/ UNCHANGED vars
  <2>1. UNCHANGED <<jobs, lastJob>>
    BY <1>3 DEF Tick, vars
  <2>2. Life' = Life /\ PolicyOf' = PolicyOf
    BY <2>1 DEF Life, PolicyOf
  <2>3. QED BY <2>2 DEF Lifecycle!lifeVars
<1>4. QED BY <1>1, <1>2, <1>3 DEF Transacts

LEMMA TransactsFollowLifecycle == Transacting => ImplementsLifecycle
<1>1. Bounded /\ [Transacts]_vars =>
        Bounded' /\ [Lifecycle!Transaction \/ Lifecycle!Reset]_Lifecycle!lifeVars
  BY BoundedStep, LifecycleStep
<1>2. QED BY <1>1, InitBounded, LifecycleInit, PTL
          DEF Transacting, ImplementsLifecycle, Lifecycle!Spec

\* The store implements the documented state machine of a job, for any number of
\* jobs, owners and claims: every locked transaction is a sweep that moves jobs as
\* time may, and at most one call that moves one job as that call may
\* (relay-jobs.mjs:37-48).
THEOREM JobsFollowLifecycle == Spec => ImplementsLifecycle
BY TransactsFollowLifecycle, SpecTransacts, PTL

-----------------------------------------------------------------------------
(* What a transaction may do to claims in force.                           *)

LEMMA InForceOver ==
    ASSUME NEW j, JobInv(j), j.state \in InFlight, NEW t \in Nat,
           TtlOver(j, t) \/ LeaseOver(j, t)
    PROVE  SweptJob(j, t).state \in ByTime(j)
<1>1. j.state \notin Terminal
  BY DEF InFlight, Terminal, Prunable, Awaiting
<1>2. QED BY <1>1, SweptJobMoves

\* A claim that is in force either survives the sweep unchanged, or a limit of
\* the job was over at the reading the sweep worked with.
LEMMA SweepHonours ==
    ASSUME Inv, NEW t \in Readings, NEW i \in DOMAIN jobs, jobs[i].state \in InFlight
    PROVE  LET U == Sweep(jobs, t) IN
           \/ i \in DOMAIN U /\ U[i] = jobs[i] /\ ~LeaseOver(jobs[i], t)
           \/ /\ TtlOver(jobs[i], t) \/ LeaseOver(jobs[i], t)
              /\ i \in DOMAIN U => U[i].state \in ByTime(jobs[i])
<1> DEFINE c == SweptJob(jobs[i], t)
<1>1. JobInv(jobs[i]) /\ t \in Nat
  BY ReadingsAreTimes DEF Inv, StoreInv
<1>2. jobs[i].state \notin Terminal /\ jobs[i].state \notin Prunable
  BY DEF InFlight, Terminal, Prunable, Awaiting
<1>3. CASE TtlOver(jobs[i], t) \/ LeaseOver(jobs[i], t)
  <2>1. c.state \in ByTime(jobs[i])
    BY <1>1, <1>2, <1>3, InForceOver
  <2>2. QED BY <1>3, <2>1, SweepKeeps
<1>4. CASE ~TtlOver(jobs[i], t) /\ ~LeaseOver(jobs[i], t)
  <2>1. c = jobs[i]
    BY <1>2, <1>4 DEF SweptJob
  <2>2. QED BY <1>2, <1>4, <2>1, SweepKeeps
<1>5. QED BY <1>3, <1>4

LEMMA ReadHonours ==
    ASSUME Inv, Read, NEW i \in DOMAIN jobs, jobs[i].state \in InFlight
    PROVE  \/ i \in Kept /\ jobs'[i] = jobs[i]
           \/ jobs[i].lease # None /\ jobs[i].lease < now
           \/ jobs[i].ttl # None /\ jobs[i].enqueuedAt + jobs[i].ttl < now
<1>1. PICK t \in Readings : jobs' = Sweep(jobs, t)
  BY DEF Read
<1>2. t \in Nat /\ t <= now /\ now \in Nat
  BY ReadingsAreTimes DEF Readings, Inv
<1>3. jobs[i] \in Job
  BY DEF Inv, StoreInv, JobInv
<1>4. /\ jobs[i].lease # None => jobs[i].lease \in Nat
      /\ jobs[i].ttl # None => jobs[i].ttl \in Nat
      /\ jobs[i].enqueuedAt \in Nat
  BY <1>3 DEF Job, Opt
<1>5. CASE i \in DOMAIN jobs' /\ jobs'[i] = jobs[i]
  BY <1>5 DEF Kept
<1>6. CASE TtlOver(jobs[i], t)
  BY <1>2, <1>4, <1>6 DEF TtlOver
<1>7. CASE LeaseOver(jobs[i], t)
  BY <1>2, <1>4, <1>7 DEF LeaseOver
<1>8. QED BY <1>1, <1>5, <1>6, <1>7, SweepHonours

LEMMA TransactsHonour == Transacting => NoEarlyExpiry
<1> DEFINE Honoured == Read => \A i \in DOMAIN jobs : jobs[i].state \in InFlight =>
                         \/ i \in Kept /\ jobs'[i] = jobs[i]
                         \/ jobs[i].lease # None /\ jobs[i].lease < now
                         \/ jobs[i].ttl # None /\ jobs[i].enqueuedAt + jobs[i].ttl < now
<1>1. Inv /\ [Transacts]_vars => [Honoured]_vars
  BY ReadHonours
<1>2. QED BY <1>1, Invariance, PTL DEF Transacting, NoEarlyExpiry

\* A lease or a TTL that is still running at the present time is honoured: a read,
\* whatever clock reading it works with, takes no claim away early.
THEOREM LimitsHonoured == Spec => NoEarlyExpiry
BY TransactsHonour, SpecTransacts, PTL

\* What a job may be after a transaction that leaves it completed.
LEMMA CompletedHow ==
    ASSUME Inv, [Transacts]_vars, NEW i \in Kept, jobs[i].state \in InFlight,
           jobs'[i].state = "completed"
    PROVE  \E t \in Readings : ~LeaseOver(jobs[i], t)
<1>1. ASSUME NEW t \in Readings, NEW m, Refused(t) \/ Stands(t, m) \/ MovesTo(t, m)
      PROVE  ~LeaseOver(jobs[i], t)
  <2> DEFINE U == Sweep(jobs, t)
  <2>1. i \in DOMAIN U
    BY <1>1 DEF Refused, Stands, MovesTo, OneMoves, Kept
  <2>2. U[i].state \in ByTime(jobs[i])
          => U[i].state \in {"expired", "needs_recovery", "queued", "failed"}
    BY DEF ByTime
  <2>3. U[i].state # "completed"
    BY <2>1, <2>2, SweepHonours DEF Kept, InFlight
  <2>4. m = i /\ MovesTo(t, i)
    BY <1>1, <2>1, <2>3 DEF Refused, Stands, MovesTo, OneMoves
  <2>5. U[i].state \notin {"expired", "needs_recovery", "queued", "failed"}
    BY <2>4 DEF MovesTo, Lifecycle!AfterCall
  <2>6. QED BY <2>1, <2>2, <2>5, SweepHonours DEF Kept
<1>2. ASSUME NEW r \in RequestIds, NEW to, NEW p, NEW pol, NEW ttl, Enqueue(r, to, p, pol, ttl)
      PROVE  FALSE
  <2>1. PICK t \in Readings :
          jobs' = EnqueueIn(Sweep(jobs, t), lastJob + 1, r, to, p, pol, ttl, t)
    BY <1>2 DEF Enqueue
  <2> DEFINE U == Sweep(jobs, t)
  <2>2. i # lastJob + 1
    BY DEF Kept, Inv, StoreInv
  <2>3. i \in DOMAIN U /\ jobs'[i] = U[i]
    BY <2>1, <2>2 DEF EnqueueIn, Kept
  <2>4. U[i].state \in ByTime(jobs[i]) => U[i].state # "completed"
    BY DEF ByTime
  <2>5. QED BY <2>3, <2>4, SweepHonours DEF Kept, InFlight
<1>3. CASE Call
  <2>1. CallKind
    BY <1>3, CallKinds
  <2>2. CASE ResetStore
    BY <2>2 DEF ResetStore, Kept
  <2>3. QED BY <1>1, <1>2, <2>1, <2>2 DEF CallKind
<1>4. CASE Read
  BY <1>1, <1>4 DEF Read, Refused
<1>5. CASE UNCHANGED jobs
  BY <1>5 DEF InFlight
<1>6. QED BY <1>3, <1>4, <1>5 DEF Transacts, Tick, vars

LEMMA SettledInLease ==
    ASSUME Inv, [Transacts]_vars, NEW i \in Kept, jobs[i].lease # None,
           jobs'[i].state = "completed"
    PROVE  now - jobs[i].lease <= LockWait
<1>1. JobInv(jobs[i])
  BY DEF Kept, Inv, StoreInv
<1>2. jobs[i].state \in InFlight /\ jobs[i].lease \in Nat
  BY <1>1 DEF JobInv, JobConsistent, ClaimInForce, Job, Opt
<1>3. PICK t \in Readings : ~LeaseOver(jobs[i], t)
  BY <1>2, CompletedHow
<1>4. t \in Nat /\ now \in Nat /\ now - t <= LockWait
  BY DEF Readings, Inv
<1>5. t <= jobs[i].lease
  BY <1>2, <1>3, <1>4 DEF LeaseOver
<1>6. QED BY <1>2, <1>4, <1>5, LockWaitAssumption

LEMMA TransactsWithinLease == Transacting => SettlesWithinLease
<1> DEFINE InTime == \A i \in Kept :
                       jobs[i].lease # None /\ jobs'[i].state = "completed"
                       => now - jobs[i].lease <= LockWait
<1>1. Inv /\ [Transacts]_vars => [InTime]_vars
  BY SettledInLease
<1>2. QED BY <1>1, Invariance, PTL DEF Transacting, SettlesWithinLease

\* An owner whose lease is over can settle the job only during the time its call
\* may have waited for the lock, because the sweep runs in the same transaction.
THEOREM OutcomesWithinLease == Spec => SettlesWithinLease
BY TransactsWithinLease, SpecTransacts, PTL

-----------------------------------------------------------------------------
(* Which jobs the sweep throws away.                                       *)

\* The finished jobs of R, and those among P that go before i.
FinishedIn(S, R) == {i \in R : S[i].state \in Prunable}
Before(S, P, i) == {j \in P : Older(S, j, i)}

\* A store whose jobs are jobs, with numbers as ids: the order of Older on it is a
\* strict total order, so each job has more jobs before it than those before it.
LEMMA OlderHasFewerBefore ==
    ASSUME NEW S, NEW P, IsFiniteSet(P), P \subseteq Nat,
           \A i \in P : S[i] \in Job,
           NEW i \in P, NEW d \in P, Older(S, i, d)
    PROVE  /\ Before(S, P, i) \in SUBSET Before(S, P, d)
           /\ Before(S, P, i) # Before(S, P, d)
           /\ Cardinality(Before(S, P, i)) \in Nat
           /\ Cardinality(Before(S, P, d)) \in Nat
           /\ Cardinality(Before(S, P, i)) < Cardinality(Before(S, P, d))
<1> DEFINE s(m) == SettledAt(S[m])
<1>1. \A m \in P : s(m) \in Nat
  BY DEF SettledAt, Job, Opt
<1>2. \A m \in P : Older(S, m, i) => Older(S, m, d)
  <2>1. \A m \in P : Older(S, m, i) <=> \/ s(m) < s(i)
                                        \/ s(m) = s(i) /\ m < i
    BY DEF Older
  <2>2. \A m \in P : Older(S, m, d) <=> \/ s(m) < s(d)
                                        \/ s(m) = s(d) /\ m < d
    BY DEF Older
  <2> HIDE DEF s
  <2>3. QED BY <1>1, <2>1, <2>2
<1>3. ~Older(S, i, i)
  BY <1>1 DEF Older
<1>4. i \in Before(S, P, d) /\ i \notin Before(S, P, i)
  BY <1>3 DEF Before
<1>5. Before(S, P, i) \in SUBSET Before(S, P, d)
  BY <1>2 DEF Before
<1>6. Before(S, P, d) \in SUBSET P
  BY DEF Before
<1>7. IsFiniteSet(Before(S, P, d)) /\ IsFiniteSet(Before(S, P, i))
  BY <1>5, <1>6, FS_Subset
<1>8. QED BY <1>4, <1>5, <1>7, FS_Subset, FS_CardinalityType

\* What a sweep leaves is within the cap, unless every finished job goes.
LEMMA CapHolds ==
    ASSUME NEW S, NEW R, IsFiniteSet(R), R \subseteq Nat,
           \A i \in R : S[i] \in Job
    PROVE  \/ Cardinality(R \ Overflow(S, R)) <= MaxJobs
           \/ FinishedIn(S, R) \subseteq Overflow(S, R)
<1> DEFINE P == FinishedIn(S, R)
           O == Overflow(S, R)
           T == {Before(S, P, i) : i \in P \ O}
<1>1. P \in SUBSET R /\ O \in SUBSET R
  BY DEF FinishedIn, Overflow
<1>2. IsFiniteSet(P) /\ IsFiniteSet(O)
  BY <1>1, FS_Subset
<1>3. CASE P \ O = {}
  BY <1>3
<1>4. CASE P \ O # {}
  <2>1. IsWellFoundedOn(StrictSubsetOrdering(P), SUBSET P)
    BY <1>2, FS_StrictSubsetOrderingWellFounded, FS_FiniteSubsetsOfFinite
  <2>2. T \subseteq SUBSET P /\ T # {}
    BY <1>4 DEF Before
  <2>3. PICK B \in T : \A C \in T : <<C, B>> \notin StrictSubsetOrdering(P)
    BY <2>1, <2>2, WFMin
  <2>4. PICK m \in P \ O : B = Before(S, P, m)
    BY <2>3
  <2>5. B \subseteq O
    <3> SUFFICES ASSUME NEW j \in B, j \notin O PROVE FALSE
      OBVIOUS
    <3>1. j \in P \ O /\ Older(S, j, m)
      BY <2>4 DEF Before
    <3>2. /\ Before(S, P, j) \in SUBSET Before(S, P, m)
          /\ Before(S, P, j) # Before(S, P, m)
      BY <1>1, <1>2, <2>4, <3>1, OlderHasFewerBefore
    <3>3. Before(S, P, j) \in T
      BY <3>1
    <3>4. <<Before(S, P, j), B>> \in StrictSubsetOrdering(P)
      BY <2>2, <2>3, <2>4, <3>2, <3>3 DEF StrictSubsetOrdering
    <3>5. QED BY <2>3, <3>3, <3>4
  <2>6. Cardinality(B) <= Cardinality(O) /\ Cardinality(B) \in Nat /\ Cardinality(O) \in Nat
    <3>1. B \in SUBSET O
      BY <2>5
    <3>2. QED BY <1>2, <3>1, FS_Subset, FS_CardinalityType
  <2>7. ~(Cardinality(B) < Cardinality(R) - MaxJobs)
    BY <2>4 DEF Overflow, FinishedIn, Before
  <2>8. Cardinality(R) \in Nat /\ MaxJobs \in Nat
    BY FS_CardinalityType, CapAssumption
  <2>9. Cardinality(R \ O) = Cardinality(R) - Cardinality(O)
    <3>1. R \cap O = O
      BY <1>1
    <3>2. QED BY <3>1, FS_Difference
  <2> HIDE DEF P, O, T
  <2>10. Cardinality(R \ O) <= MaxJobs
    BY <2>6, <2>7, <2>8, <2>9
  <2>11. QED BY <2>10 DEF O
<1>5. QED BY <1>3, <1>4

\* The parts of a sweep.
LEMMA SweepParts ==
    ASSUME Inv, NEW t \in Readings
    PROVE  LET S == SweptJobs(jobs, t)
               R == WithinRetention(S, t)
           IN  /\ t \in Nat
               /\ DOMAIN S = DOMAIN jobs /\ R \subseteq DOMAIN jobs
               /\ DOMAIN jobs \subseteq Nat /\ IsFiniteSet(DOMAIN jobs) /\ IsFiniteSet(R)
               /\ \A m \in DOMAIN jobs : S[m] = SweptJob(jobs[m], t) /\ JobInv(S[m])
               /\ DOMAIN Sweep(jobs, t) = R \ Overflow(S, R)
               /\ \A m \in DOMAIN Sweep(jobs, t) : Sweep(jobs, t)[m] = S[m]
<1> DEFINE S == SweptJobs(jobs, t)
           R == WithinRetention(S, t)
<1>1. t \in Nat
  BY ReadingsAreTimes DEF Inv
<1>2. DOMAIN S = DOMAIN jobs /\ \A m \in DOMAIN jobs : S[m] = SweptJob(jobs[m], t)
  BY DEF SweptJobs
<1>3. \A m \in DOMAIN jobs : JobInv(S[m])
  BY <1>1, <1>2, SweptJobInv DEF Inv, StoreInv
<1>4. R \in SUBSET DOMAIN jobs
  BY <1>2 DEF WithinRetention
<1>5. DOMAIN jobs \subseteq Nat /\ IsFiniteSet(DOMAIN jobs)
  <2>1. lastJob \in Nat /\ DOMAIN jobs \in SUBSET (1..lastJob)
    BY DEF Inv, StoreInv
  <2>2. IsFiniteSet(1..lastJob)
    BY <2>1, FS_Interval
  <2>3. QED BY <2>1, <2>2, FS_Subset
<1>6. IsFiniteSet(R)
  BY <1>4, <1>5, FS_Subset
<1>7. /\ DOMAIN Sweep(jobs, t) = R \ Overflow(S, R)
      /\ \A m \in DOMAIN Sweep(jobs, t) : Sweep(jobs, t)[m] = S[m]
  BY DEF Sweep, Pruned, Restricted
<1>8. QED BY <1>1, <1>2, <1>3, <1>4, <1>5, <1>6, <1>7

LEMMA ReadCaps ==
    ASSUME Inv, Read
    PROVE  \/ Cardinality(DOMAIN jobs') <= MaxJobs
           \/ \A i \in DOMAIN jobs' : jobs'[i].state \notin Prunable
<1>1. PICK t \in Readings : jobs' = Sweep(jobs, t)
  BY DEF Read
<1> DEFINE S == SweptJobs(jobs, t)
           R == WithinRetention(S, t)
<1>2. /\ IsFiniteSet(R) /\ R \subseteq Nat /\ \A m \in R : S[m] \in Job
      /\ DOMAIN jobs' = R \ Overflow(S, R)
      /\ \A m \in DOMAIN jobs' : jobs'[m] = S[m]
  BY <1>1, SweepParts DEF JobInv
<1> HIDE DEF S, R
<1>3. \/ Cardinality(R \ Overflow(S, R)) <= MaxJobs
      \/ FinishedIn(S, R) \subseteq Overflow(S, R)
  BY <1>2, CapHolds
<1>4. QED BY <1>2, <1>3 DEF FinishedIn

LEMMA TransactsCap == Transacting => GrowsOnlyWithLiveWork
<1> DEFINE Capped == Read => \/ Cardinality(DOMAIN jobs') <= MaxJobs
                             \/ \A i \in DOMAIN jobs' : jobs'[i].state \notin Prunable
<1>1. Inv /\ [Transacts]_vars => [Capped]_vars
  BY ReadCaps
<1>2. QED BY <1>1, Invariance, PTL DEF Transacting, GrowsOnlyWithLiveWork

\* The hard cap, for every number of jobs: what a read leaves is within maxJobs unless
\* all of it is live or waits for an operator (relay-jobs.mjs:326-341).
THEOREM CapIsHard == Spec => GrowsOnlyWithLiveWork
BY TransactsCap, SpecTransacts, PTL

\* What a sweep drops: jobs past their retention, or the oldest of a store over its cap.
LEMMA SweepDrops ==
    ASSUME Inv, NEW t \in Readings, NEW d \in DOMAIN jobs \ DOMAIN Sweep(jobs, t)
    PROVE  /\ \/ Finished(d) /\ now - jobs[d].terminalAt > Retention
              \/ Cardinality(DOMAIN jobs) > MaxJobs
           /\ \A i \in DOMAIN jobs \cap DOMAIN Sweep(jobs, t) : Finished(i) =>
                \/ Finished(d) /\ jobs[d].terminalAt <= jobs[i].terminalAt
                \/ ~Finished(d) /\ now - jobs[i].terminalAt <= LockWait
<1> DEFINE S == SweptJobs(jobs, t)
           R == WithinRetention(S, t)
           O == Overflow(S, R)
           P == FinishedIn(S, R)
<1>1. /\ t \in Nat /\ DOMAIN S = DOMAIN jobs /\ R \subseteq DOMAIN jobs
      /\ DOMAIN jobs \subseteq Nat /\ IsFiniteSet(DOMAIN jobs) /\ IsFiniteSet(R)
      /\ \A m \in DOMAIN jobs : S[m] = SweptJob(jobs[m], t) /\ JobInv(S[m])
      /\ DOMAIN Sweep(jobs, t) = R \ O
  BY SweepParts
<1>2. now \in Nat /\ t <= now /\ now - t <= LockWait
  BY DEF Inv, Readings
<1>3. \A m \in DOMAIN jobs : JobInv(jobs[m])
  BY DEF Inv, StoreInv
<1>4. ASSUME NEW m \in DOMAIN jobs, Finished(m)
      PROVE  S[m] = jobs[m] /\ jobs[m].terminalAt \in Nat /\ S[m].state \in Prunable
  <2>1. S[m] = jobs[m]
    BY <1>1, <1>4 DEF SweptJob, Finished, Terminal
  <2>2. jobs[m].terminalAt \in Nat
    BY <1>3, <1>4 DEF Finished, Terminal, JobInv, JobConsistent, SettledConsistently, Job, Opt
  <2>3. QED BY <1>4, <2>1, <2>2 DEF Finished
<1>5. ASSUME NEW m \in DOMAIN jobs, S[m].state \in Prunable
      PROVE  /\ S[m].terminalAt \in Nat
             /\ \/ Finished(m) /\ S[m] = jobs[m]
                \/ ~Finished(m) /\ S[m].terminalAt = t
  <2>1. JobInv(S[m]) /\ S[m].state \in Terminal
    BY <1>1, <1>5 DEF Terminal
  <2>2. S[m].terminalAt \in Nat
    BY <2>1 DEF JobInv, JobConsistent, SettledConsistently, Job, Opt
  <2>3. S[m] = jobs[m] \/ (jobs[m].state \notin Terminal /\ S[m].terminalAt = t)
    BY <1>1, <1>3, <2>1, SweptJobMoves
  <2>4. QED BY <1>5, <2>2, <2>3 DEF Finished, Terminal
<1> HIDE DEF S, O, P
<1>6. CASE d \notin R
  <2>1. S[d].state \in Prunable /\ ~(S[d].terminalAt # None /\ t - S[d].terminalAt <= Retention)
    BY <1>1, <1>6 DEF R, WithinRetention
  <2>2. /\ S[d].terminalAt \in Nat
        /\ \/ Finished(d) /\ S[d] = jobs[d]
           \/ ~Finished(d) /\ S[d].terminalAt = t
    BY <1>5, <2>1
  <2>3. t - S[d].terminalAt > Retention
    BY <1>1, <2>1, <2>2, NoneAssumption, RetentionAssumption
  <2>4. Finished(d) /\ S[d] = jobs[d]
    BY <1>1, <2>2, <2>3, RetentionAssumption
  <2>5. now - jobs[d].terminalAt > Retention
    BY <1>1, <1>2, <2>2, <2>3, <2>4, RetentionAssumption
  <2>6. ASSUME NEW i \in DOMAIN jobs \cap DOMAIN Sweep(jobs, t), Finished(i)
        PROVE  jobs[d].terminalAt <= jobs[i].terminalAt
    <3>1. i \in R /\ S[i] = jobs[i] /\ jobs[i].terminalAt \in Nat /\ S[i].state \in Prunable
      BY <1>1, <1>4, <2>6
    <3>2. t - jobs[i].terminalAt <= Retention
      BY <3>1 DEF R, WithinRetention
    <3>3. QED BY <1>1, <2>2, <2>3, <2>4, <3>1, <3>2, RetentionAssumption
  <2>7. QED BY <2>4, <2>5, <2>6
<1>7. CASE d \in O
  <2> HIDE DEF R
  <2>1. /\ d \in P /\ d \in R /\ P \subseteq R
        /\ Cardinality(Before(S, P, d)) < Cardinality(R) - MaxJobs
    BY <1>7 DEF O, P, Overflow, FinishedIn, Before
  <2>2. S[d].state \in Prunable
    BY <2>1 DEF P, FinishedIn
  <2>3. IsFiniteSet(P) /\ P \subseteq Nat /\ \A m \in P : S[m] \in Job
    <3>1. P \in SUBSET R
      BY <2>1
    <3>2. QED BY <1>1, <3>1, FS_Subset DEF JobInv
  <2>4. Cardinality(DOMAIN jobs) > MaxJobs
    <3>1. R \in SUBSET DOMAIN jobs /\ Before(S, P, d) \in SUBSET P
      BY <1>1 DEF Before
    <3>2. /\ Cardinality(R) <= Cardinality(DOMAIN jobs)
          /\ Cardinality(R) \in Nat /\ Cardinality(DOMAIN jobs) \in Nat
          /\ Cardinality(Before(S, P, d)) \in Nat
      BY <1>1, <2>3, <3>1, FS_Subset, FS_CardinalityType
    <3>3. QED BY <2>1, <3>2, CapAssumption
  <2>5. ASSUME NEW i \in DOMAIN jobs \cap DOMAIN Sweep(jobs, t), Finished(i)
        PROVE  \/ Finished(d) /\ jobs[d].terminalAt <= jobs[i].terminalAt
               \/ ~Finished(d) /\ now - jobs[i].terminalAt <= LockWait
    <3>1. i \in R \ O /\ S[i] = jobs[i] /\ jobs[i].terminalAt \in Nat /\ S[i].state \in Prunable
      BY <1>1, <1>4, <2>5
    <3>2. i \in P /\ ~(Cardinality(Before(S, P, i)) < Cardinality(R) - MaxJobs)
      BY <3>1 DEF O, P, Overflow, FinishedIn, Before
    <3>3. ~Older(S, i, d)
      <4>1. SUFFICES ASSUME Older(S, i, d) PROVE FALSE
        OBVIOUS
      <4>2. /\ Cardinality(Before(S, P, i)) \in Nat /\ Cardinality(Before(S, P, d)) \in Nat
            /\ Cardinality(Before(S, P, i)) < Cardinality(Before(S, P, d))
        BY <2>1, <2>3, <3>2, <4>1, OlderHasFewerBefore
      <4>3. Cardinality(R) - MaxJobs \in Int
        BY <1>1, FS_CardinalityType, CapAssumption
      <4>4. QED BY <2>1, <3>2, <4>2, <4>3
    <3>4. S[d].terminalAt \in Nat
      BY <1>1, <1>5, <2>1, <2>2
    <3>5. S[d].terminalAt <= jobs[i].terminalAt
      BY <3>1, <3>3, <3>4, NoneAssumption DEF Older, SettledAt
    <3>6. CASE Finished(d) /\ S[d] = jobs[d]
      BY <3>5, <3>6
    <3>7. CASE ~Finished(d) /\ S[d].terminalAt = t
      BY <1>1, <1>2, <3>1, <3>5, <3>7, LockWaitAssumption
    <3>8. QED BY <1>5, <2>2, <3>6, <3>7
  <2>6. QED BY <2>4, <2>5
<1>8. QED BY <1>1, <1>6, <1>7

LEMMA DropsOldest ==
    ASSUME Inv, [Transacts]_vars, ~ResetStore, NEW d \in Dropped
    PROVE  /\ \/ Finished(d) /\ now - jobs[d].terminalAt > Retention
              \/ Cardinality(DOMAIN jobs) > MaxJobs
           /\ \A i \in Kept : Finished(i) =>
                \/ Finished(d) /\ jobs[d].terminalAt <= jobs[i].terminalAt
                \/ ~Finished(d) /\ now - jobs[i].terminalAt <= LockWait
<1>1. \E t \in Readings : /\ d \notin DOMAIN Sweep(jobs, t)
                          /\ Kept \subseteq DOMAIN Sweep(jobs, t)
  <2>1. ASSUME NEW t \in Readings, NEW m, Refused(t) \/ Stands(t, m) \/ MovesTo(t, m)
        PROVE  DOMAIN jobs' = DOMAIN Sweep(jobs, t)
    BY <2>1 DEF Refused, Stands, MovesTo, OneMoves
  <2>2. ASSUME NEW r, NEW to, NEW p, NEW pol, NEW ttl, Enqueue(r, to, p, pol, ttl)
        PROVE  \E t \in Readings :
                 \/ DOMAIN jobs' = DOMAIN Sweep(jobs, t)
                 \/ DOMAIN jobs' = DOMAIN Sweep(jobs, t) \cup {lastJob + 1}
    BY <2>2 DEF Enqueue, EnqueueIn
  <2>3. lastJob + 1 \notin DOMAIN jobs
    BY DEF Inv, StoreInv
  <2>4. CASE Call
    <3>1. CallKind
      BY <2>4, CallKinds
    <3>2. \E t \in Readings :
                 \/ DOMAIN jobs' = DOMAIN Sweep(jobs, t)
                 \/ DOMAIN jobs' = DOMAIN Sweep(jobs, t) \cup {lastJob + 1}
      BY <2>1, <2>2, <3>1 DEF CallKind
    <3>3. QED BY <2>3, <3>2 DEF Dropped, Kept
  <2>5. CASE Read
    BY <2>5 DEF Read, Dropped, Kept
  <2>6. CASE UNCHANGED jobs
    BY <2>6 DEF Dropped
  <2>7. QED BY <2>4, <2>5, <2>6 DEF Transacts, Tick, vars
<1>2. PICK t \in Readings : /\ d \in DOMAIN jobs \ DOMAIN Sweep(jobs, t)
                            /\ Kept \subseteq DOMAIN jobs \cap DOMAIN Sweep(jobs, t)
  BY <1>1 DEF Dropped, Kept
<1>3. QED BY <1>2, SweepDrops

LEMMA TransactsEvict == Transacting => EvictsOldestWhenFull
<1> DEFINE Fair == ResetStore \/ \A d \in Dropped :
              /\ \/ Finished(d) /\ now - jobs[d].terminalAt > Retention
                 \/ Cardinality(DOMAIN jobs) > MaxJobs
              /\ \A i \in Kept : Finished(i) =>
                   \/ Finished(d) /\ jobs[d].terminalAt <= jobs[i].terminalAt
                   \/ ~Finished(d) /\ now - jobs[i].terminalAt <= LockWait
<1>1. Inv /\ [Transacts]_vars => [Fair]_vars
  BY DropsOldest
<1>2. QED BY <1>1, Invariance, PTL DEF Transacting, EvictsOldestWhenFull

\* Jobs leave the store only by age or by the cap, the ones that settled first before
\* the others, whichever calls and sweeps follow each other; only a reset throws
\* anything else away (relay-jobs.mjs:314-341).
THEOREM OldestLeaveFirst == Spec => EvictsOldestWhenFull
BY TransactsEvict, SpecTransacts, PTL

=============================================================================
