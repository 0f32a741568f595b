--------------------------- MODULE RelayJobsProofs ---------------------------
(***************************************************************************)
(* Proofs about RelayJobs, for every number of jobs, requests, tokens and  *)
(* every clock.  The invariant is one about a store as a value: the sweep  *)
(* keeps it, and every operation keeps it on the store the sweep leaves.   *)
(***************************************************************************)
EXTENDS RelayJobs, TLAPS

\* A job record with nothing contradictory in it.
JobInv(j) == j \in Job /\ JobConsistent(j)

\* A store whose ids are among the first n, one job per request.
StoreInv(S, n) ==
    /\ S = [i \in DOMAIN S |-> S[i]]
    /\ DOMAIN S \subseteq 1..n
    /\ \A i \in DOMAIN S : JobInv(S[i])
    /\ \A i, j \in DOMAIN S : S[i].requestId = S[j].requestId => i = j

AgentsInv ==
    /\ DOMAIN agents \subseteq Agents
    /\ \A a \in DOMAIN agents : agents[a] \in [registeredAt : Nat, lastSeen : Nat]

\* The inductive invariant of the specification.
Inv ==
    /\ StoreInv(jobs, lastJob)
    /\ AgentsInv
    /\ now \in Nat /\ lastJob \in Nat /\ lastToken \in Nat

-----------------------------------------------------------------------------
(* Jobs.                                                                   *)

\* The states a call or the sweep names are states.
LEMMA StateNames ==
    {"queued", "claimed", "running", "completed", "failed", "cancelled", "expired",
     "needs_recovery", "needs_review"} = States
BY DEF States, InFlight, Terminal, Prunable, Awaiting

LEMMA SettledType ==
    ASSUME NEW j, j \in Job, NEW st \in States, NEW t \in Nat
    PROVE  Settled(j, st, TRUE, t) \in Job /\ Settled(j, st, FALSE, t) \in Job
BY DEF Settled, Job, Opt

LEMMA BackToQueueType == ASSUME NEW j, j \in Job PROVE BackToQueue(j) \in Job
<1>1. "queued" \in States /\ None \in Opt(Nat)
  BY StateNames DEF Opt
<1>2. QED BY <1>1 DEF BackToQueue, Job

\* Settling a live job keeps it consistent: without an error ...
LEMMA SettledQuietlyInv ==
    ASSUME NEW j, JobInv(j), j.state \notin Terminal, NEW t \in Nat,
           NEW st \in {"cancelled", "expired"}
    PROVE  /\ JobInv(Settled(j, st, FALSE, t))
           /\ Settled(j, st, FALSE, t).requestId = j.requestId
<1>1. Settled(j, st, FALSE, t) \in Job
  BY SettledType, StateNames DEF JobInv
<1>2. JobConsistent(Settled(j, st, FALSE, t))
  BY NoneAssumption, AttemptsAssumption
  DEF JobInv, JobConsistent, ClaimInForce, ResultOfLastClaim, SettledConsistently,
      AttemptsLeft, Settled, Job, Terminal, Prunable, Awaiting, InFlight, Opt
<1>3. Settled(j, st, FALSE, t).requestId = j.requestId
  BY DEF JobInv, Job, Settled
<1>4. QED BY <1>1, <1>2, <1>3 DEF JobInv

\* ... or with one.
LEMMA SettledWithErrorInv ==
    ASSUME NEW j, JobInv(j), j.state \notin Terminal, NEW t \in Nat,
           NEW st \in {"failed", "needs_recovery"}
    PROVE  /\ JobInv(Settled(j, st, TRUE, t))
           /\ Settled(j, st, TRUE, t).requestId = j.requestId
<1>1. Settled(j, st, TRUE, t) \in Job
  BY SettledType, StateNames DEF JobInv
<1>2. JobConsistent(Settled(j, st, TRUE, t))
  BY NoneAssumption, AttemptsAssumption
  DEF JobInv, JobConsistent, ClaimInForce, ResultOfLastClaim, SettledConsistently,
      AttemptsLeft, Settled, Job, Terminal, Prunable, Awaiting, InFlight, Opt
<1>3. Settled(j, st, TRUE, t).requestId = j.requestId
  BY DEF JobInv, Job, Settled
<1>4. QED BY <1>1, <1>2, <1>3 DEF JobInv

\* So does one more attempt that is not the last.
LEMMA BumpedInv ==
    ASSUME NEW j, JobInv(j), j.state \notin Terminal, j.attempts + 1 < MaxAttempts
    PROVE  /\ JobInv([j EXCEPT !.attempts = @ + 1])
           /\ [j EXCEPT !.attempts = @ + 1].state = j.state
           /\ [j EXCEPT !.attempts = @ + 1].requestId = j.requestId
<1> DEFINE b == [j EXCEPT !.attempts = @ + 1]
<1>1. b \in Job
  BY DEF JobInv, Job
<1>2. JobConsistent(b)
  BY NoneAssumption, AttemptsAssumption
  DEF JobInv, JobConsistent, ClaimInForce, ResultOfLastClaim, SettledConsistently,
      AttemptsLeft, Job, Terminal, Prunable, Awaiting, InFlight, Opt
<1>3. b.state = j.state /\ b.requestId = j.requestId
  BY DEF JobInv, Job
<1>4. QED BY <1>1, <1>2, <1>3 DEF JobInv

LEMMA BackToQueueInv ==
    ASSUME NEW j, JobInv(j), j.state \notin Terminal
    PROVE  JobInv(BackToQueue(j)) /\ BackToQueue(j).requestId = j.requestId
<1>1. BackToQueue(j) \in Job
  BY BackToQueueType DEF JobInv
<1>2. JobConsistent(BackToQueue(j))
  BY NoneAssumption, AttemptsAssumption
  DEF JobInv, JobConsistent, ClaimInForce, ResultOfLastClaim, SettledConsistently,
      AttemptsLeft, BackToQueue, Job, Terminal, Prunable, Awaiting, InFlight, Opt
<1>3. BackToQueue(j).requestId = j.requestId
  BY DEF JobInv, Job, BackToQueue
<1>4. QED BY <1>1, <1>2, <1>3 DEF JobInv

\* The last attempt: the job fails with its attempts used up.
LEMMA ExhaustedInv ==
    ASSUME NEW j, JobInv(j), j.state \notin Terminal, NEW t \in Nat
    PROVE  LET b == [j EXCEPT !.attempts = @ + 1] IN
           /\ JobInv(Settled(b, "failed", TRUE, t))
           /\ Settled(b, "failed", TRUE, t).requestId = j.requestId
<1> DEFINE b == [j EXCEPT !.attempts = @ + 1]
           f == Settled(b, "failed", TRUE, t)
<1>1. b \in Job
  BY DEF JobInv, Job
<1>2. f \in Job
  BY <1>1, SettledType, StateNames
<1>3. JobConsistent(f)
  BY NoneAssumption, AttemptsAssumption
  DEF JobInv, JobConsistent, ClaimInForce, ResultOfLastClaim, SettledConsistently,
      AttemptsLeft, Settled, Job, Terminal, Prunable, Awaiting, InFlight, Opt
<1>4. f.requestId = j.requestId
  BY DEF JobInv, Job, Settled
<1>5. QED BY <1>2, <1>3, <1>4 DEF JobInv

\* The sweep moves one job: every branch of it is one of the steps above.
LEMMA SweptJobInv ==
    ASSUME NEW j, JobInv(j), NEW t \in Nat
    PROVE  JobInv(SweptJob(j, t)) /\ SweptJob(j, t).requestId = j.requestId
<1>1. CASE j.state \in Terminal
  BY <1>1 DEF SweptJob
<1>2. CASE j.state \notin Terminal /\ TtlOver(j, t)
  <2>1. CASE j.state \in InFlight /\ j.policy = "park"
    BY <1>2, <2>1, SettledWithErrorInv DEF SweptJob
  <2>2. CASE ~(j.state \in InFlight /\ j.policy = "park")
    BY <1>2, <2>2, SettledQuietlyInv DEF SweptJob
  <2>3. QED BY <2>1, <2>2
<1>3. CASE j.state \notin Terminal /\ ~TtlOver(j, t) /\ LeaseOver(j, t)
  <2> DEFINE b == [j EXCEPT !.attempts = @ + 1]
  <2>1. CASE j.policy = "park"
    BY <1>3, <2>1, SettledWithErrorInv DEF SweptJob
  <2>2. CASE j.policy # "park" /\ b.attempts >= MaxAttempts
    <3>1. SweptJob(j, t) = Settled(b, "failed", TRUE, t)
      BY <1>3, <2>2 DEF SweptJob
    <3>2. QED BY <1>3, <3>1, ExhaustedInv
  <2>3. CASE j.policy # "park" /\ ~(b.attempts >= MaxAttempts)
    <3>1. SweptJob(j, t) = BackToQueue(b)
      BY <1>3, <2>3 DEF SweptJob
    <3>2. j.attempts + 1 < MaxAttempts
      BY <2>3, AttemptsAssumption DEF JobInv, Job
    <3>3. JobInv(b) /\ b.state \notin Terminal /\ b.requestId = j.requestId
      BY <1>3, <3>2, BumpedInv
    <3>4. QED BY <3>1, <3>3, BackToQueueInv
  <2>4. QED BY <2>1, <2>2, <2>3
<1>4. CASE j.state \notin Terminal /\ ~TtlOver(j, t) /\ ~LeaseOver(j, t)
  BY <1>4 DEF SweptJob
<1>5. QED BY <1>1, <1>2, <1>3, <1>4

\* A claim hands out a token and remembers it as the last one.
LEMMA ClaimedInv ==
    ASSUME NEW j, JobInv(j), j.state = "queued", NEW k \in Nat, NEW l \in Opt(Nat)
    PROVE  LET c == [j EXCEPT !.state = "claimed", !.token = k, !.lease = l, !.lastClaim = k]
           IN  JobInv(c) /\ c.requestId = j.requestId
<1> DEFINE c == [j EXCEPT !.state = "claimed", !.token = k, !.lease = l, !.lastClaim = k]
<1>0. k \in Opt(Nat) /\ "claimed" \in States
  BY StateNames DEF Opt
<1>1. c \in Job
  BY <1>0 DEF JobInv, Job
<1>2. JobConsistent(c)
  BY NoneAssumption, AttemptsAssumption
  DEF JobInv, JobConsistent, ClaimInForce, ResultOfLastClaim, SettledConsistently,
      AttemptsLeft, Job, Terminal, Prunable, Awaiting, InFlight, Opt
<1>3. c.requestId = j.requestId
  BY DEF JobInv, Job
<1>4. QED BY <1>1, <1>2, <1>3 DEF JobInv

LEMMA StartedInv ==
    ASSUME NEW j, JobInv(j), j.state = "claimed"
    PROVE  LET r == [j EXCEPT !.state = "running"]
           IN  JobInv(r) /\ r.requestId = j.requestId
<1> DEFINE c == [j EXCEPT !.state = "running"]
<1>1. c \in Job
  BY StateNames DEF JobInv, Job
<1>2. JobConsistent(c)
  BY NoneAssumption, AttemptsAssumption
  DEF JobInv, JobConsistent, ClaimInForce, ResultOfLastClaim, SettledConsistently,
      AttemptsLeft, Job, Terminal, Prunable, Awaiting, InFlight, Opt
<1>3. c.requestId = j.requestId
  BY DEF JobInv, Job
<1>4. QED BY <1>1, <1>2, <1>3 DEF JobInv

LEMMA RenewedInv ==
    ASSUME NEW j, JobInv(j), j.state \in InFlight, NEW l \in Opt(Nat)
    PROVE  LET r == [j EXCEPT !.lease = l]
           IN  JobInv(r) /\ r.requestId = j.requestId
<1> DEFINE c == [j EXCEPT !.lease = l]
<1>1. c \in Job
  BY DEF JobInv, Job
<1>2. JobConsistent(c)
  BY NoneAssumption, AttemptsAssumption
  DEF JobInv, JobConsistent, ClaimInForce, ResultOfLastClaim, SettledConsistently,
      AttemptsLeft, Job, Terminal, Prunable, Awaiting, InFlight, Opt
<1>3. c.requestId = j.requestId
  BY DEF JobInv, Job
<1>4. QED BY <1>1, <1>2, <1>3 DEF JobInv

\* Here the fence matters: k is the token in force, hence the last claim.
LEMMA CompletedInv ==
    ASSUME NEW j, JobInv(j), j.state \in InFlight, NEW k \in Nat, j.token = k, NEW t \in Nat
    PROVE  LET c == [Settled(j, "completed", FALSE, t) EXCEPT !.result = k, !.completedBy = k]
           IN  JobInv(c) /\ c.requestId = j.requestId
<1> DEFINE c == [Settled(j, "completed", FALSE, t) EXCEPT !.result = k, !.completedBy = k]
<1>0. k \in Opt(Nat) /\ Settled(j, "completed", FALSE, t) \in Job
  BY StateNames, SettledType DEF JobInv, Opt
<1>1. c \in Job
  BY <1>0 DEF Job
<1>2. JobConsistent(c)
  BY NoneAssumption, AttemptsAssumption
  DEF JobInv, JobConsistent, ClaimInForce, ResultOfLastClaim, SettledConsistently,
      AttemptsLeft, Settled, Job, Terminal, Prunable, Awaiting, InFlight, Opt
<1>3. c.requestId = j.requestId
  BY DEF JobInv, Job, Settled
<1>4. QED BY <1>1, <1>2, <1>3 DEF JobInv

\* A claim parked for review before its turn has no result.
LEMMA HeldForReviewInv ==
    ASSUME NEW j, JobInv(j), j.state \in InFlight, NEW t \in Nat
    PROVE  LET c == [Settled(j, "needs_review", FALSE, t) EXCEPT
                       !.reviewKind = "predeclared", !.result = None]
           IN  JobInv(c) /\ c.requestId = j.requestId
<1> DEFINE c == [Settled(j, "needs_review", FALSE, t) EXCEPT
                   !.reviewKind = "predeclared", !.result = None]
<1>0. /\ None \in Opt(Nat) /\ "predeclared" \in Opt(ReviewKinds)
      /\ Settled(j, "needs_review", FALSE, t) \in Job
  BY StateNames, SettledType DEF JobInv, Opt, ReviewKinds
<1>1. c \in Job
  BY <1>0 DEF Job
<1>2. JobConsistent(c)
  BY NoneAssumption, AttemptsAssumption
  DEF JobInv, JobConsistent, ClaimInForce, ResultOfLastClaim, SettledConsistently,
      AttemptsLeft, Settled, ReviewKinds, Job, Terminal, Prunable, Awaiting, InFlight, Opt
<1>3. c.requestId = j.requestId
  BY DEF JobInv, Job, Settled
<1>4. QED BY <1>1, <1>2, <1>3 DEF JobInv

\* One parked after its turn keeps the result of the claim in force.
LEMMA FlaggedInv ==
    ASSUME NEW j, JobInv(j), j.state \in InFlight, NEW k \in Nat, j.token = k, NEW t \in Nat
    PROVE  LET c == [Settled(j, "needs_review", FALSE, t) EXCEPT
                       !.reviewKind = "selfflagged", !.result = k]
           IN  JobInv(c) /\ c.requestId = j.requestId
<1> DEFINE c == [Settled(j, "needs_review", FALSE, t) EXCEPT
                   !.reviewKind = "selfflagged", !.result = k]
<1>0. /\ k \in Opt(Nat) /\ "selfflagged" \in Opt(ReviewKinds)
      /\ Settled(j, "needs_review", FALSE, t) \in Job
  BY StateNames, SettledType DEF JobInv, Opt, ReviewKinds
<1>1. c \in Job
  BY <1>0 DEF Job
<1>2. JobConsistent(c)
  BY NoneAssumption, AttemptsAssumption
  DEF JobInv, JobConsistent, ClaimInForce, ResultOfLastClaim, SettledConsistently,
      AttemptsLeft, Settled, ReviewKinds, Job, Terminal, Prunable, Awaiting, InFlight, Opt
<1>3. c.requestId = j.requestId
  BY DEF JobInv, Job, Settled
<1>4. QED BY <1>1, <1>2, <1>3 DEF JobInv

\* An operator's answers.
LEMMA RequeuedInv ==
    ASSUME NEW j, JobInv(j), j.state \in Awaiting, j.result = None
    PROVE  /\ JobInv(Requeued(j))
           /\ JobInv([Requeued(j) EXCEPT !.cleared = TRUE])
           /\ Requeued(j).requestId = j.requestId
           /\ [Requeued(j) EXCEPT !.cleared = TRUE].requestId = j.requestId
<1> DEFINE q == Requeued(j)
           c == [q EXCEPT !.cleared = TRUE]
<1>1. q \in Job /\ c \in Job
  <2>1. BackToQueue(j) \in Job
    BY BackToQueueType DEF JobInv
  <2>2. None \in Opt(Nat)
    BY DEF Opt
  <2>3. q \in Job
    BY <2>1, <2>2 DEF Job, Requeued
  <2>4. \A x \in Job : [x EXCEPT !.cleared = TRUE] \in Job
    BY DEF Job
  <2>5. QED BY <2>3, <2>4
<1>2. JobConsistent(q)
  BY NoneAssumption, AttemptsAssumption
  DEF JobInv, JobConsistent, ClaimInForce, ResultOfLastClaim, SettledConsistently,
      AttemptsLeft, Requeued, BackToQueue, Job, Terminal, Prunable, Awaiting, InFlight, Opt
<1>3. JobConsistent(c)
  BY NoneAssumption, AttemptsAssumption
  DEF JobInv, JobConsistent, ClaimInForce, ResultOfLastClaim, SettledConsistently,
      AttemptsLeft, Requeued, BackToQueue, Job, Terminal, Prunable, Awaiting, InFlight, Opt
<1>4. q.requestId = j.requestId /\ c.requestId = j.requestId
  BY DEF JobInv, Job, Requeued, BackToQueue
<1>5. QED BY <1>1, <1>2, <1>3, <1>4 DEF JobInv

LEMMA RejectedInv ==
    ASSUME NEW j, JobInv(j), j.state = "needs_review", NEW t \in Nat
    PROVE  /\ JobInv(Settled(j, "failed", TRUE, t))
           /\ Settled(j, "failed", TRUE, t).requestId = j.requestId
<1> DEFINE c == Settled(j, "failed", TRUE, t)
<1>1. c \in Job
  BY StateNames, SettledType DEF JobInv
<1>2. JobConsistent(c)
  BY NoneAssumption, AttemptsAssumption
  DEF JobInv, JobConsistent, ClaimInForce, ResultOfLastClaim, SettledConsistently,
      AttemptsLeft, Settled, Job, Terminal, Prunable, Awaiting, InFlight, Opt
<1>3. c.requestId = j.requestId
  BY DEF JobInv, Job, Settled
<1>4. QED BY <1>1, <1>2, <1>3 DEF JobInv

LEMMA AcceptedInv ==
    ASSUME NEW j, JobInv(j), j.state = "needs_review", j.reviewKind = "selfflagged",
           NEW t \in Nat
    PROVE  /\ JobInv(Settled(j, "completed", FALSE, t))
           /\ Settled(j, "completed", FALSE, t).requestId = j.requestId
<1> DEFINE c == Settled(j, "completed", FALSE, t)
<1>1. c \in Job
  BY StateNames, SettledType DEF JobInv
<1>2. JobConsistent(c)
  BY NoneAssumption, AttemptsAssumption
  DEF JobInv, JobConsistent, ClaimInForce, ResultOfLastClaim, SettledConsistently,
      AttemptsLeft, Settled, Job, Terminal, Prunable, Awaiting, InFlight, Opt
<1>3. c.requestId = j.requestId
  BY DEF JobInv, Job, Settled
<1>4. QED BY <1>1, <1>2, <1>3 DEF JobInv

-----------------------------------------------------------------------------
(* Stores.                                                                 *)

LEMMA PutInv ==
    ASSUME NEW S, NEW n, StoreInv(S, n), NEW i \in DOMAIN S, NEW j, JobInv(j),
           j.requestId = S[i].requestId
    PROVE  StoreInv(Put(S, i, j), n)
BY DEF StoreInv, Put

LEMMA RestrictedInv ==
    ASSUME NEW S, NEW n, StoreInv(S, n), NEW D \in SUBSET DOMAIN S
    PROVE  StoreInv(Restricted(S, D), n)
BY DEF StoreInv, Restricted

\* The sweep changes jobs and drops some; it never adds or merges any.
LEMMA SweepInv ==
    ASSUME NEW S, NEW n, StoreInv(S, n), NEW t \in Nat
    PROVE  StoreInv(Sweep(S, t), n)
<1> DEFINE P == SweptJobs(S, t)
<1>1. StoreInv(P, n)
  <2>1. DOMAIN P = DOMAIN S /\ P = [i \in DOMAIN P |-> P[i]]
    BY DEF SweptJobs
  <2>2. \A i \in DOMAIN S : JobInv(P[i]) /\ P[i].requestId = S[i].requestId
    BY SweptJobInv DEF StoreInv, SweptJobs
  <2>3. QED BY <2>1, <2>2 DEF StoreInv
<1>2. WithinRetention(P, t) \ Overflow(P, WithinRetention(P, t)) \in SUBSET DOMAIN P
  BY DEF WithinRetention
<1>3. QED BY <1>1, <1>2, RestrictedInv DEF Sweep, Pruned

LEMMA EnqueueInv ==
    ASSUME NEW S, NEW n \in Nat, StoreInv(S, n), NEW r \in RequestIds,
           NEW to \in Opt(Agents), NEW p \in Payloads, NEW pol \in Policies,
           NEW ttl \in Opt(Nat), NEW t \in Nat
    PROVE  /\ HasRequest(S, r) => StoreInv(EnqueueIn(S, n + 1, r, to, p, pol, ttl, t), n)
           /\ StoreInv(EnqueueIn(S, n + 1, r, to, p, pol, ttl, t), n + 1)
<1> DEFINE E == EnqueueIn(S, n + 1, r, to, p, pol, ttl, t)
           j == NewJob(r, to, p, pol, ttl, t)
<1>1. CASE HasRequest(S, r)
  BY <1>1 DEF EnqueueIn, StoreInv
<1>2. CASE ~HasRequest(S, r)
  <2>1. JobInv(j) /\ j.requestId = r
    <3>1. None \in Opt(Nat) /\ None \in Opt(ReviewKinds) /\ "queued" \in States
      BY StateNames DEF Opt
    <3>2. j \in Job
      BY <3>1 DEF NewJob, Job
    <3>3. JobConsistent(j) /\ j.requestId = r
      BY NoneAssumption, AttemptsAssumption
      DEF JobConsistent, ClaimInForce, ResultOfLastClaim, SettledConsistently,
          AttemptsLeft, NewJob, Terminal, Prunable, Awaiting, InFlight
    <3>4. QED BY <3>2, <3>3 DEF JobInv
  <2>2. n + 1 \notin DOMAIN S /\ DOMAIN S \cup {n + 1} \subseteq 1..(n + 1)
    BY DEF StoreInv
  <2>3. E = [i \in DOMAIN S \cup {n + 1} |-> IF i = n + 1 THEN j ELSE S[i]]
    BY <1>2 DEF EnqueueIn
  <2>4. \A i \in DOMAIN S : S[i].requestId # r
    BY <1>2 DEF HasRequest
  <2>5. QED BY <1>2, <2>1, <2>2, <2>3, <2>4 DEF StoreInv
<1>3. QED BY <1>1, <1>2

LEMMA ClaimInv ==
    ASSUME NEW S, NEW n, StoreInv(S, n), NEW i, NEW k \in Nat, NEW ms \in Opt(Nat),
           NEW t \in Nat
    PROVE  StoreInv(ClaimIn(S, i, k, ms, t), n)
<1> DEFINE c == [S[i] EXCEPT !.state = "claimed", !.token = k,
                             !.lease = LeaseUntil(t, ms), !.lastClaim = k]
<1>1. CASE CanClaim(S, i)
  <2>1. LeaseUntil(t, ms) \in Opt(Nat)
    BY DEF LeaseUntil, Opt
  <2>2. i \in DOMAIN S /\ JobInv(S[i]) /\ S[i].state = "queued"
    BY <1>1 DEF CanClaim, Found, StoreInv
  <2>3. JobInv(c) /\ c.requestId = S[i].requestId
    BY <2>1, <2>2, ClaimedInv
  <2>4. ClaimIn(S, i, k, ms, t) = Put(S, i, c)
    BY <1>1 DEF ClaimIn
  <2> HIDE DEF c
  <2>5. StoreInv(Put(S, i, c), n)
    BY <2>2, <2>3, PutInv
  <2>6. QED BY <2>4, <2>5
<1>2. CASE ~CanClaim(S, i)
  BY <1>2 DEF ClaimIn
<1>3. QED BY <1>1, <1>2

\* What an owner knows about the job it owns.
LEMMA OwnedJob ==
    ASSUME NEW S, NEW n, StoreInv(S, n), NEW i, NEW k, Owns(S, i, k)
    PROVE  /\ i \in DOMAIN S /\ JobInv(S[i])
           /\ S[i].state \in InFlight /\ S[i].state \notin Terminal /\ S[i].token = k
BY DEF Owns, Found, StoreInv, InFlight, Terminal, Prunable, Awaiting

LEMMA StartInv ==
    ASSUME NEW S, NEW n, StoreInv(S, n), NEW i, NEW k
    PROVE  StoreInv(StartIn(S, i, k), n)
<1>1. CASE CanStart(S, i, k)
  <2> DEFINE c == [S[i] EXCEPT !.state = "running"]
  <2>1. i \in DOMAIN S /\ JobInv(S[i]) /\ S[i].state = "claimed"
    BY <1>1, OwnedJob DEF CanStart
  <2>2. JobInv(c) /\ c.requestId = S[i].requestId
    BY <2>1, StartedInv
  <2>3. StartIn(S, i, k) = Put(S, i, c)
    BY <1>1 DEF StartIn
  <2> HIDE DEF c
  <2>4. StoreInv(Put(S, i, c), n)
    BY <2>1, <2>2, PutInv
  <2>5. QED BY <2>3, <2>4
<1>2. CASE ~CanStart(S, i, k)
  BY <1>2 DEF StartIn
<1>3. QED BY <1>1, <1>2

LEMMA HeartbeatInv ==
    ASSUME NEW S, NEW n, StoreInv(S, n), NEW i, NEW k, NEW ms \in Opt(Nat), NEW t \in Nat
    PROVE  StoreInv(HeartbeatIn(S, i, k, ms, t), n)
<1>1. CASE Owns(S, i, k)
  <2> DEFINE c == [S[i] EXCEPT !.lease = LeaseUntil(t, ms)]
  <2>1. LeaseUntil(t, ms) \in Opt(Nat)
    BY DEF LeaseUntil, Opt
  <2>2. i \in DOMAIN S /\ JobInv(S[i]) /\ S[i].state \in InFlight
    BY <1>1, OwnedJob
  <2>3. JobInv(c) /\ c.requestId = S[i].requestId
    BY <2>1, <2>2, RenewedInv
  <2>4. HeartbeatIn(S, i, k, ms, t) = Put(S, i, c)
    BY <1>1 DEF HeartbeatIn
  <2> HIDE DEF c
  <2>5. StoreInv(Put(S, i, c), n)
    BY <2>2, <2>3, PutInv
  <2>6. QED BY <2>4, <2>5
<1>2. CASE ~Owns(S, i, k)
  BY <1>2 DEF HeartbeatIn
<1>3. QED BY <1>1, <1>2

LEMMA ReleaseInv ==
    ASSUME NEW S, NEW n, StoreInv(S, n), NEW i, NEW k
    PROVE  StoreInv(ReleaseIn(S, i, k), n)
<1>1. CASE Owns(S, i, k)
  <2>1. i \in DOMAIN S /\ JobInv(S[i]) /\ S[i].state \notin Terminal
    BY <1>1, OwnedJob
  <2>2. ReleaseIn(S, i, k) = Put(S, i, BackToQueue(S[i]))
    BY <1>1 DEF ReleaseIn
  <2>3. StoreInv(Put(S, i, BackToQueue(S[i])), n)
    BY <2>1, BackToQueueInv, PutInv
  <2>4. QED BY <2>2, <2>3
<1>2. CASE ~Owns(S, i, k)
  BY <1>2 DEF ReleaseIn
<1>3. QED BY <1>1, <1>2

LEMMA CompleteInv ==
    ASSUME NEW S, NEW n, StoreInv(S, n), NEW i, NEW k \in Nat, NEW t \in Nat
    PROVE  StoreInv(CompleteIn(S, i, k, t), n)
<1>1. CASE Owns(S, i, k)
  <2> DEFINE c == [Settled(S[i], "completed", FALSE, t) EXCEPT !.result = k, !.completedBy = k]
  <2>1. i \in DOMAIN S /\ JobInv(S[i]) /\ S[i].state \in InFlight /\ S[i].token = k
    BY <1>1, OwnedJob
  <2>2. JobInv(c) /\ c.requestId = S[i].requestId
    BY <2>1, CompletedInv
  <2>3. CompleteIn(S, i, k, t) = Put(S, i, c)
    BY <1>1 DEF CompleteIn
  <2> HIDE DEF c
  <2>4. StoreInv(Put(S, i, c), n)
    BY <2>1, <2>2, PutInv
  <2>5. QED BY <2>3, <2>4
<1>2. CASE ~Owns(S, i, k)
  BY <1>2 DEF CompleteIn
<1>3. QED BY <1>1, <1>2

LEMMA FailInv ==
    ASSUME NEW S, NEW n, StoreInv(S, n), NEW i, NEW k, NEW retry \in BOOLEAN, NEW t \in Nat
    PROVE  StoreInv(FailIn(S, i, k, retry, t), n)
<1> DEFINE b == [S[i] EXCEPT !.attempts = @ + 1]
<1>1. CASE Owns(S, i, k) /\ retry /\ b.attempts < MaxAttempts
  <2>1. i \in DOMAIN S /\ JobInv(S[i]) /\ S[i].state \notin Terminal
    BY <1>1, OwnedJob
  <2>2. S[i].attempts + 1 < MaxAttempts
    BY <1>1, <2>1 DEF JobInv, Job
  <2>3. JobInv(b) /\ b.state \notin Terminal /\ b.requestId = S[i].requestId
    BY <2>1, <2>2, BumpedInv
  <2>4. JobInv(BackToQueue(b)) /\ BackToQueue(b).requestId = S[i].requestId
    BY <2>3, BackToQueueInv
  <2>5. FailIn(S, i, k, retry, t) = Put(S, i, BackToQueue(b))
    BY <1>1 DEF FailIn
  <2>6. StoreInv(Put(S, i, BackToQueue(b)), n)
    BY <2>1, <2>4, PutInv
  <2>7. QED BY <2>5, <2>6
<1>2. CASE Owns(S, i, k) /\ ~(retry /\ b.attempts < MaxAttempts)
  <2>1. i \in DOMAIN S /\ JobInv(S[i]) /\ S[i].state \notin Terminal
    BY <1>2, OwnedJob
  <2> DEFINE c == Settled(b, "failed", TRUE, t)
  <2>2. FailIn(S, i, k, retry, t) = Put(S, i, c)
    BY <1>2 DEF FailIn
  <2>3. JobInv(c) /\ c.requestId = S[i].requestId
    BY <2>1, ExhaustedInv
  <2> HIDE DEF c
  <2>4. StoreInv(Put(S, i, c), n)
    BY <2>1, <2>3, PutInv
  <2>5. QED BY <2>2, <2>4
<1>3. CASE ~Owns(S, i, k)
  BY <1>3 DEF FailIn
<1>4. QED BY <1>1, <1>2, <1>3

LEMMA CancelInv ==
    ASSUME NEW S, NEW n, StoreInv(S, n), NEW i, NEW t \in Nat
    PROVE  StoreInv(CancelIn(S, i, t), n)
<1>1. CASE Found(S, i) /\ S[i].state \notin Terminal
  <2>1. i \in DOMAIN S /\ JobInv(S[i])
    BY <1>1 DEF Found, StoreInv
  <2> DEFINE c == Settled(S[i], "cancelled", FALSE, t)
  <2>2. CancelIn(S, i, t) = Put(S, i, c)
    BY <1>1 DEF CancelIn
  <2>3. JobInv(c) /\ c.requestId = S[i].requestId
    BY <1>1, <2>1, SettledQuietlyInv
  <2> HIDE DEF c
  <2>4. StoreInv(Put(S, i, c), n)
    BY <2>1, <2>3, PutInv
  <2>5. QED BY <2>2, <2>4
<1>2. CASE ~(Found(S, i) /\ S[i].state \notin Terminal)
  BY <1>2 DEF CancelIn
<1>3. QED BY <1>1, <1>2

LEMMA ParkInv ==
    ASSUME NEW S, NEW n, StoreInv(S, n), NEW i, NEW k, NEW t \in Nat
    PROVE  StoreInv(ParkIn(S, i, k, t), n)
<1>1. CASE Owns(S, i, k)
  <2>1. i \in DOMAIN S /\ JobInv(S[i]) /\ S[i].state \notin Terminal
    BY <1>1, OwnedJob
  <2> DEFINE c == Settled(S[i], "needs_recovery", TRUE, t)
  <2>2. ParkIn(S, i, k, t) = Put(S, i, c)
    BY <1>1 DEF ParkIn
  <2>3. JobInv(c) /\ c.requestId = S[i].requestId
    BY <2>1, SettledWithErrorInv
  <2> HIDE DEF c
  <2>4. StoreInv(Put(S, i, c), n)
    BY <2>1, <2>3, PutInv
  <2>5. QED BY <2>2, <2>4
<1>2. CASE ~Owns(S, i, k)
  BY <1>2 DEF ParkIn
<1>3. QED BY <1>1, <1>2

LEMMA RecoverInv ==
    ASSUME NEW S, NEW n, StoreInv(S, n), NEW i
    PROVE  StoreInv(RecoverIn(S, i), n)
<1>1. CASE CanRecover(S, i)
  <2>1. i \in DOMAIN S /\ JobInv(S[i]) /\ S[i].state = "needs_recovery"
    BY <1>1 DEF CanRecover, Found, StoreInv
  <2>2. S[i].result = None /\ S[i].state \in Awaiting
    BY <2>1 DEF JobInv, JobConsistent, ResultOfLastClaim, Awaiting
  <2> DEFINE c == Requeued(S[i])
  <2>3. RecoverIn(S, i) = Put(S, i, c)
    BY <1>1 DEF RecoverIn
  <2>4. JobInv(c) /\ c.requestId = S[i].requestId
    BY <2>1, <2>2, RequeuedInv
  <2> HIDE DEF c
  <2>5. StoreInv(Put(S, i, c), n)
    BY <2>1, <2>4, PutInv
  <2>6. QED BY <2>3, <2>5
<1>2. CASE ~CanRecover(S, i)
  BY <1>2 DEF RecoverIn
<1>3. QED BY <1>1, <1>2

LEMMA ReviewInv ==
    ASSUME NEW S, NEW n, StoreInv(S, n), NEW i, NEW k \in Nat, NEW kind \in ReviewKinds,
           NEW t \in Nat
    PROVE  StoreInv(ReviewIn(S, i, k, kind, t), n)
<1>1. CASE CanReview(S, i, k, kind)
  <2>1. i \in DOMAIN S /\ JobInv(S[i]) /\ S[i].state \in InFlight /\ S[i].token = k
    BY <1>1, OwnedJob DEF CanReview
  <2>2. CASE kind = "predeclared"
    <3> DEFINE c == [Settled(S[i], "needs_review", FALSE, t) EXCEPT
                       !.reviewKind = "predeclared", !.result = None]
    <3>1. ReviewIn(S, i, k, kind, t) = Put(S, i, c)
      BY <1>1, <2>2 DEF ReviewIn
    <3>2. JobInv(c) /\ c.requestId = S[i].requestId
      BY <2>1, HeldForReviewInv
    <3> HIDE DEF c
    <3>3. QED BY <2>1, <3>1, <3>2, PutInv
  <2>3. CASE kind = "selfflagged"
    <3> DEFINE c == [Settled(S[i], "needs_review", FALSE, t) EXCEPT
                       !.reviewKind = "selfflagged", !.result = k]
    <3>1. ReviewIn(S, i, k, kind, t) = Put(S, i, c)
      BY <1>1, <2>3 DEF ReviewIn
    <3>2. JobInv(c) /\ c.requestId = S[i].requestId
      BY <2>1, FlaggedInv
    <3> HIDE DEF c
    <3>3. QED BY <2>1, <3>1, <3>2, PutInv
  <2>4. QED BY <2>2, <2>3 DEF ReviewKinds
<1>2. CASE ~CanReview(S, i, k, kind)
  BY <1>2 DEF ReviewIn
<1>3. QED BY <1>1, <1>2

LEMMA ResolveInv ==
    ASSUME NEW S, NEW n, StoreInv(S, n), NEW i, NEW approve \in BOOLEAN, NEW t \in Nat
    PROVE  StoreInv(ResolveIn(S, i, approve, t), n)
<1>1. CASE ~CanResolve(S, i)
  BY <1>1 DEF ResolveIn
<1>2. CASE CanResolve(S, i)
  <2>1. i \in DOMAIN S /\ JobInv(S[i]) /\ S[i].state = "needs_review"
    BY <1>2 DEF CanResolve, Found, StoreInv
  <2>2. S[i].reviewKind \in ReviewKinds
    BY <2>1 DEF JobInv, JobConsistent, ResultOfLastClaim, Job, Opt
  <2>3. CASE ~approve
    <3> DEFINE c == Settled(S[i], "failed", TRUE, t)
    <3>1. ResolveIn(S, i, approve, t) = Put(S, i, c)
      BY <1>2, <2>3 DEF ResolveIn
    <3>2. JobInv(c) /\ c.requestId = S[i].requestId
      BY <2>1, RejectedInv
    <3> HIDE DEF c
    <3>3. StoreInv(Put(S, i, c), n)
      BY <2>1, <3>2, PutInv
    <3>4. QED BY <3>1, <3>3
  <2>4. CASE approve /\ S[i].reviewKind = "predeclared"
    <3> DEFINE c == [Requeued(S[i]) EXCEPT !.cleared = TRUE]
    <3>1. ResolveIn(S, i, approve, t) = Put(S, i, c)
      BY <1>2, <2>4 DEF ResolveIn
    <3>2. S[i].result = None /\ S[i].state \in Awaiting
      BY <2>1, <2>4 DEF JobInv, JobConsistent, ResultOfLastClaim, Awaiting
    <3>3. JobInv(c) /\ c.requestId = S[i].requestId
      BY <2>1, <3>2, RequeuedInv
    <3> HIDE DEF c
    <3>4. StoreInv(Put(S, i, c), n)
      BY <2>1, <3>3, PutInv
    <3>5. QED BY <3>1, <3>4
  <2>5. CASE approve /\ S[i].reviewKind = "selfflagged"
    <3> DEFINE c == Settled(S[i], "completed", FALSE, t)
    <3>1. ResolveIn(S, i, approve, t) = Put(S, i, c)
      BY <1>2, <2>5 DEF ResolveIn
    <3>2. JobInv(c) /\ c.requestId = S[i].requestId
      BY <2>1, <2>5, AcceptedInv
    <3> HIDE DEF c
    <3>3. StoreInv(Put(S, i, c), n)
      BY <2>1, <3>2, PutInv
    <3>4. QED BY <3>1, <3>3
  <2>6. QED BY <2>2, <2>3, <2>4, <2>5 DEF ReviewKinds
<1>3. QED BY <1>1, <1>2

-----------------------------------------------------------------------------
(* The specification.                                                      *)

LEMMA InitInv == Init => Inv
<1> SUFFICES ASSUME Init PROVE Inv
  OBVIOUS
<1>1. DOMAIN jobs = {} /\ jobs = [i \in DOMAIN jobs |-> jobs[i]] /\ DOMAIN agents = {}
  BY DEF Init
<1>2. StoreInv(jobs, lastJob)
  BY <1>1 DEF StoreInv
<1>3. QED BY <1>1, <1>2 DEF Init, Inv, AgentsInv

LEMMA ReadingsAreTimes == ASSUME now \in Nat PROVE Readings \subseteq Nat
BY DEF Readings

\* A call that leaves agents and counters alone keeps Inv if it keeps StoreInv.
LEMMA StoreStepInv ==
    ASSUME Inv, StoreInv(jobs', lastJob), UNCHANGED <<agents, now, lastJob, lastToken>>
    PROVE  Inv'
BY DEF Inv, AgentsInv, StoreInv

\* What every transaction starts from: the store the sweep leaves.
LEMMA SweptStoreInv ==
    ASSUME Inv, NEW t \in Readings
    PROVE  t \in Nat /\ StoreInv(Sweep(jobs, t), lastJob)
BY ReadingsAreTimes, SweepInv DEF Inv

LEMMA TokensAreNumbers == ASSUME Inv PROVE Tokens \subseteq Nat
BY DEF Inv, Tokens

LEMMA EnqueueStepInv ==
    ASSUME Inv, NEW r \in RequestIds, NEW to \in Addressees, NEW p \in Payloads,
           NEW pol \in Policies, NEW ttl \in Ttls, Enqueue(r, to, p, pol, ttl)
    PROVE  Inv'
<1>1. PICK t \in Readings :
        LET S == Sweep(jobs, t) IN
        /\ jobs' = EnqueueIn(S, lastJob + 1, r, to, p, pol, ttl, t)
        /\ lastJob' = IF HasRequest(S, r) THEN lastJob ELSE lastJob + 1
        /\ UNCHANGED <<agents, now, lastToken>>
  BY DEF Enqueue
<1>2. t \in Nat /\ StoreInv(Sweep(jobs, t), lastJob)
  BY SweptStoreInv
<1>3. ttl \in Opt(Nat) /\ to \in Opt(Agents) /\ lastJob \in Nat
  BY TtlAssumption, AddresseeAssumption DEF Inv
<1>4. /\ HasRequest(Sweep(jobs, t), r) => StoreInv(jobs', lastJob)
      /\ StoreInv(jobs', lastJob + 1)
  BY <1>1, <1>2, <1>3, EnqueueInv
<1>5. StoreInv(jobs', lastJob') /\ lastJob' \in Nat
  BY <1>1, <1>3, <1>4
<1>6. QED BY <1>1, <1>5 DEF Inv, AgentsInv, StoreInv

LEMMA ClaimStepInv ==
    ASSUME Inv, NEW i \in JobIds, NEW ms \in LeaseTimes, Claim(i, ms)
    PROVE  Inv'
<1>1. PICK t \in Readings :
        LET S == Sweep(jobs, t) IN
        /\ jobs' = ClaimIn(S, i, lastToken + 1, ms, t)
        /\ lastToken' = IF CanClaim(S, i) THEN lastToken + 1 ELSE lastToken
        /\ UNCHANGED <<agents, now, lastJob>>
  BY DEF Claim
<1>2. t \in Nat /\ StoreInv(Sweep(jobs, t), lastJob)
  BY SweptStoreInv
<1>3. ms \in Opt(Nat) /\ lastToken + 1 \in Nat
  BY LeaseAssumption DEF Inv
<1>4. StoreInv(jobs', lastJob)
  BY <1>1, <1>2, <1>3, ClaimInv
<1>5. QED BY <1>1, <1>4 DEF Inv, AgentsInv, StoreInv

LEMMA RegisterStepInv ==
    ASSUME Inv, NEW a \in Agents, RegisterAgent(a)
    PROVE  Inv'
<1>1. PICK t \in Readings :
        /\ jobs' = Sweep(jobs, t)
        /\ agents' = [b \in DOMAIN agents \cup {a} |->
                        IF b # a THEN agents[b]
                        ELSE [registeredAt |-> IF a \in DOMAIN agents
                                               THEN agents[a].registeredAt ELSE t,
                              lastSeen |-> t]]
        /\ UNCHANGED <<now, lastJob, lastToken>>
  BY DEF RegisterAgent
<1>2. t \in Nat /\ StoreInv(jobs', lastJob)
  BY <1>1, SweptStoreInv
<1>3. \A b \in DOMAIN agents' : agents'[b] \in [registeredAt : Nat, lastSeen : Nat]
  BY <1>1, <1>2 DEF Inv, AgentsInv
<1>4. DOMAIN agents' \subseteq Agents
  BY <1>1 DEF Inv, AgentsInv
<1>5. QED BY <1>1, <1>2, <1>3, <1>4 DEF Inv, AgentsInv, StoreInv

\* The calls that write one job back, each from its lemma about stores.
LEMMA CallStepInv ==
    ASSUME Inv,
           \/ \E i \in JobIds, k \in Tokens : StartRunning(i, k)
           \/ \E i \in JobIds, k \in Tokens, ms \in LeaseTimes : Heartbeat(i, k, ms)
           \/ \E i \in JobIds, k \in Tokens : Release(i, k)
           \/ \E i \in JobIds, k \in Tokens : Complete(i, k)
           \/ \E i \in JobIds, k \in Tokens, retry \in BOOLEAN : Fail(i, k, retry)
           \/ \E i \in JobIds : Cancel(i)
           \/ \E i \in JobIds, k \in Tokens : Park(i, k)
           \/ \E i \in JobIds : Recover(i)
           \/ \E i \in JobIds, k \in Tokens, kind \in ReviewKinds : NeedsReview(i, k, kind)
           \/ \E i \in JobIds, approve \in BOOLEAN : ResolveReview(i, approve)
           \/ Read
    PROVE  Inv'
<1>1. CASE \E i \in JobIds, k \in Tokens : StartRunning(i, k)
  <2>1. PICK i \in JobIds, k \in Tokens : StartRunning(i, k)
    BY <1>1
  <2>2. PICK t \in Readings :
        /\ jobs' = StartIn(Sweep(jobs, t), i, k)
        /\ UNCHANGED <<agents, now, lastJob, lastToken>>
    BY <2>1 DEF StartRunning
  <2>3. StoreInv(jobs', lastJob)
    BY <2>2, SweptStoreInv, StartInv
  <2>4. QED BY <2>2, <2>3, StoreStepInv
<1>2. CASE \E i \in JobIds, k \in Tokens, ms \in LeaseTimes : Heartbeat(i, k, ms)
  <2>1. PICK i \in JobIds, k \in Tokens, ms \in LeaseTimes : Heartbeat(i, k, ms)
    BY <1>2
  <2>2. PICK t \in Readings :
        /\ jobs' = HeartbeatIn(Sweep(jobs, t), i, k, ms, t)
        /\ UNCHANGED <<agents, now, lastJob, lastToken>>
    BY <2>1 DEF Heartbeat
  <2>3. ms \in Opt(Nat)
    BY LeaseAssumption
  <2>4. StoreInv(jobs', lastJob)
    BY <2>2, SweptStoreInv, HeartbeatInv, <2>3
  <2>5. QED BY <2>2, <2>4, StoreStepInv
<1>3. CASE \E i \in JobIds, k \in Tokens : Release(i, k)
  <2>1. PICK i \in JobIds, k \in Tokens : Release(i, k)
    BY <1>3
  <2>2. PICK t \in Readings :
        /\ jobs' = ReleaseIn(Sweep(jobs, t), i, k)
        /\ UNCHANGED <<agents, now, lastJob, lastToken>>
    BY <2>1 DEF Release
  <2>3. StoreInv(jobs', lastJob)
    BY <2>2, SweptStoreInv, ReleaseInv
  <2>4. QED BY <2>2, <2>3, StoreStepInv
<1>4. CASE \E i \in JobIds, k \in Tokens : Complete(i, k)
  <2>1. PICK i \in JobIds, k \in Tokens : Complete(i, k)
    BY <1>4
  <2>2. PICK t \in Readings :
        /\ jobs' = CompleteIn(Sweep(jobs, t), i, k, t)
        /\ UNCHANGED <<agents, now, lastJob, lastToken>>
    BY <2>1 DEF Complete
  <2>3. StoreInv(jobs', lastJob)
    BY <2>2, SweptStoreInv, CompleteInv, TokensAreNumbers
  <2>4. QED BY <2>2, <2>3, StoreStepInv
<1>5. CASE \E i \in JobIds, k \in Tokens, retry \in BOOLEAN : Fail(i, k, retry)
  <2>1. PICK i \in JobIds, k \in Tokens, retry \in BOOLEAN : Fail(i, k, retry)
    BY <1>5
  <2>2. PICK t \in Readings :
        /\ jobs' = FailIn(Sweep(jobs, t), i, k, retry, t)
        /\ UNCHANGED <<agents, now, lastJob, lastToken>>
    BY <2>1 DEF Fail
  <2>3. StoreInv(jobs', lastJob)
    BY <2>2, SweptStoreInv, FailInv
  <2>4. QED BY <2>2, <2>3, StoreStepInv
<1>6. CASE \E i \in JobIds : Cancel(i)
  <2>1. PICK i \in JobIds : Cancel(i)
    BY <1>6
  <2>2. PICK t \in Readings :
        /\ jobs' = CancelIn(Sweep(jobs, t), i, t)
        /\ UNCHANGED <<agents, now, lastJob, lastToken>>
    BY <2>1 DEF Cancel
  <2>3. StoreInv(jobs', lastJob)
    BY <2>2, SweptStoreInv, CancelInv
  <2>4. QED BY <2>2, <2>3, StoreStepInv
<1>7. CASE \E i \in JobIds, k \in Tokens : Park(i, k)
  <2>1. PICK i \in JobIds, k \in Tokens : Park(i, k)
    BY <1>7
  <2>2. PICK t \in Readings :
        /\ jobs' = ParkIn(Sweep(jobs, t), i, k, t)
        /\ UNCHANGED <<agents, now, lastJob, lastToken>>
    BY <2>1 DEF Park
  <2>3. StoreInv(jobs', lastJob)
    BY <2>2, SweptStoreInv, ParkInv
  <2>4. QED BY <2>2, <2>3, StoreStepInv
<1>8. CASE \E i \in JobIds : Recover(i)
  <2>1. PICK i \in JobIds : Recover(i)
    BY <1>8
  <2>2. PICK t \in Readings :
        /\ jobs' = RecoverIn(Sweep(jobs, t), i)
        /\ UNCHANGED <<agents, now, lastJob, lastToken>>
    BY <2>1 DEF Recover
  <2>3. StoreInv(jobs', lastJob)
    BY <2>2, SweptStoreInv, RecoverInv
  <2>4. QED BY <2>2, <2>3, StoreStepInv
<1>9. CASE \E i \in JobIds, k \in Tokens, kind \in ReviewKinds : NeedsReview(i, k, kind)
  <2>1. PICK i \in JobIds, k \in Tokens, kind \in ReviewKinds : NeedsReview(i, k, kind)
    BY <1>9
  <2>2. PICK t \in Readings :
        /\ jobs' = ReviewIn(Sweep(jobs, t), i, k, kind, t)
        /\ UNCHANGED <<agents, now, lastJob, lastToken>>
    BY <2>1 DEF NeedsReview
  <2>3. StoreInv(jobs', lastJob)
    BY <2>2, SweptStoreInv, ReviewInv, TokensAreNumbers
  <2>4. QED BY <2>2, <2>3, StoreStepInv
<1>10. CASE \E i \in JobIds, approve \in BOOLEAN : ResolveReview(i, approve)
  <2>1. PICK i \in JobIds, approve \in BOOLEAN : ResolveReview(i, approve)
    BY <1>10
  <2>2. PICK t \in Readings :
        /\ jobs' = ResolveIn(Sweep(jobs, t), i, approve, t)
        /\ UNCHANGED <<agents, now, lastJob, lastToken>>
    BY <2>1 DEF ResolveReview
  <2>3. StoreInv(jobs', lastJob)
    BY <2>2, SweptStoreInv, ResolveInv
  <2>4. QED BY <2>2, <2>3, StoreStepInv
<1>11. CASE Read
  <2>1. PICK t \in Readings :
        /\ jobs' = Sweep(jobs, t)
        /\ UNCHANGED <<agents, now, lastJob, lastToken>>
    BY <1>11 DEF Read
  <2>2. StoreInv(jobs', lastJob)
    BY <2>1, SweptStoreInv
  <2>3. QED BY <2>1, <2>2, StoreStepInv
<1>12. QED BY <1>1, <1>2, <1>3, <1>4, <1>5, <1>6, <1>7, <1>8, <1>9, <1>10, <1>11

\* A step of the store.
Transacts == Call \/ Read \/ Tick

LEMMA TransactsInv == Inv /\ [Transacts]_vars => Inv'
<1> SUFFICES ASSUME Inv, [Transacts]_vars PROVE Inv'
  OBVIOUS
<1>1. CASE \E r \in RequestIds, to \in Addressees, p \in Payloads, pol \in Policies,
             ttl \in Ttls : Enqueue(r, to, p, pol, ttl)
  BY <1>1, EnqueueStepInv
<1>2. CASE \E i \in JobIds, ms \in LeaseTimes : Claim(i, ms)
  BY <1>2, ClaimStepInv
<1>3. CASE \E a \in Agents : RegisterAgent(a)
  BY <1>3, RegisterStepInv
<1>4. CASE ResetStore
  <2>1. /\ DOMAIN jobs' = {} /\ jobs' = [i \in DOMAIN jobs' |-> jobs'[i]]
        /\ DOMAIN agents' = {} /\ UNCHANGED <<now, lastJob, lastToken>>
    BY <1>4 DEF ResetStore
  <2>2. StoreInv(jobs', lastJob)
    BY <2>1 DEF StoreInv
  <2>3. QED BY <2>1, <2>2 DEF Inv, AgentsInv, StoreInv
<1>5. CASE Tick
  BY <1>5 DEF Tick, Inv, AgentsInv, StoreInv
<1>6. CASE UNCHANGED vars
  BY <1>6 DEF vars, Inv, AgentsInv, StoreInv
<1>7. QED BY <1>1, <1>2, <1>3, <1>4, <1>5, <1>6, CallStepInv DEF Transacts, Call

LEMMA NextTransacts == ASSUME [Next]_vars PROVE [Transacts]_vars
BY DEF Next, Transacts

\* The store under any calls at any time, whatever bounds the calls of a run.
Transacting == Init /\ [][Transacts]_vars

LEMMA SpecTransacts == Spec => Transacting
<1>1. [Next]_vars => [Transacts]_vars
  BY NextTransacts
<1>2. QED BY <1>1, PTL DEF Spec, Transacting

\* The inductive invariant holds in every reachable state.
THEOREM Invariance == Transacting => []Inv
BY InitInv, TransactsInv, PTL DEF Transacting

-----------------------------------------------------------------------------
(* What follows from it.                                                   *)

\* Type correctness: whatever is called on whatever job with whatever token,
\* the store stays a list of well-formed jobs that were created.
THEOREM TypeCorrect == Spec => []TypeOK
<1>1. Inv => TypeOK
  BY DEF Inv, StoreInv, JobInv, AgentsInv, TypeOK
<1>2. QED BY <1>1, SpecTransacts, Invariance, PTL

\* Dedup: enqueue never leaves two retained jobs with one request id, because
\* it looks the id up in the store it has just swept (relay-jobs.mjs:392-453).
THEOREM Dedup == Spec => []OneJobPerRequest
<1>1. Inv => OneJobPerRequest
  BY DEF Inv, StoreInv, OneJobPerRequest
<1>2. QED BY <1>1, SpecTransacts, Invariance, PTL

\* Fencing: no result is ever kept but that of the last claim, for any number
\* of owners that come back late with an old token (relay-jobs.mjs:25-26).
THEOREM Fencing == Spec => []ResultsFenced
<1>1. Inv => ResultsFenced
  BY DEF Inv, StoreInv, JobInv, JobConsistent, ResultsFenced
<1>2. QED BY <1>1, SpecTransacts, Invariance, PTL

\* Settle times and errors always agree with the state, also after recover and
\* resolveReview (relay-jobs.mjs:688-710, 778-828).
THEOREM Settlement == Spec => []NothingLeftOfEarlierEnds
<1>1. Inv => NothingLeftOfEarlierEnds
  BY DEF Inv, StoreInv, JobInv, JobConsistent, NothingLeftOfEarlierEnds
<1>2. QED BY <1>1, SpecTransacts, Invariance, PTL

\* Retries are bounded by maxAttempts, for every value of it
\* (relay-jobs.mjs:297-298, 604-607).
THEOREM BoundedRetries == Spec => []RetriesBounded
<1>1. Inv => RetriesBounded
  BY DEF Inv, StoreInv, JobInv, JobConsistent, RetriesBounded
<1>2. QED BY <1>1, SpecTransacts, Invariance, PTL

=============================================================================
