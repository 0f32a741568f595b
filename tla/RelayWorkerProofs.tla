-------------------------- MODULE RelayWorkerProofs --------------------------
(***************************************************************************)
(* Proofs about RelayWorker and RelayDispatch, for any number of workers,  *)
(* dispatchers, jobs and claims.  The store is the one of RelayJobs, so    *)
(* its invariant carries over; what is added relates the store to what     *)
(* each worker holds, and both to the history of turns and approvals.      *)
(***************************************************************************)
EXTENDS RelayDispatch, RelayTurns, RelayJobsSteps

\* Workers between the claim and the end of processJob.
Busy == {"gate", "beat", "turn", "renew", "decide", "settle"}

\* What is known of the store besides Inv: its ids and tokens were handed out,
\* a write job is never requeued by the passing of time, and the history of a
\* job that is not one, or not there yet, is empty.
JobsKnown ==
    /\ lastJob <= MaxJobId
    /\ writeTurns \in [JobIds -> Nat] /\ approved \subseteq JobIds
    /\ \A i \in DOMAIN jobs :
         /\ jobs[i].token # None => jobs[i].token \in 1..lastToken
         /\ jobs[i].cleared => i \in approved
         /\ jobs[i].payload \in WritePayloads => jobs[i].policy = "park"
         /\ jobs[i].payload \notin WritePayloads => writeTurns[i] = 0
    /\ \A i \in JobIds : i > lastJob => writeTurns[i] = 0

WorkersShape ==
    /\ pc \in [Workers -> Steps]
    /\ DOMAIN held = Workers
    /\ DOMAIN inbox = Workers
    /\ aborted \in [Workers -> BOOLEAN]
    /\ DOMAIN verdict = Workers
    /\ stopping \in [Workers -> BOOLEAN]

\* A busy worker holds a claim that was handed out, for a job whose payload it
\* saw, and runs a turn of a job that requires review only if it was approved.
HeldKnown(w) ==
    /\ held[w] \in Claims
    /\ JobOf(w) <= lastJob /\ TokenOf(w) \in 1..lastToken
    /\ JobOf(w) \in DOMAIN jobs => jobs[JobOf(w)].payload = PayloadOf(w)
    /\ held[w].cleared => JobOf(w) \in approved
    /\ pc[w] \in {"beat"} \cup InTurn /\ PayloadOf(w) \in ReviewPayloads
         => JobOf(w) \in approved

\* No two of them hold the same claim.
ClaimsDiffer ==
    \A v, w \in Workers :
        pc[v] \in Busy /\ pc[w] \in Busy /\ v # w => TokenOf(v) # TokenOf(w)

\* The inductive invariant, but for the number of turns.
WInv ==
    /\ Inv
    /\ JobsKnown
    /\ WorkersShape
    /\ \A w \in Workers : pc[w] \in Busy => HeldKnown(w)
    /\ ClaimsDiffer

\* A turn of the job can start without a new decision of an operator: it is
\* queued, was parked before its turn, or its owner is about to begin.
AboutToRun(i) ==
    \/ i \in DOMAIN jobs /\ jobs[i].state = "queued"
    \/ /\ i \in DOMAIN jobs /\ jobs[i].state = "needs_review"
       /\ jobs[i].reviewKind = "predeclared"
    \/ \E w \in Workers : /\ pc[w] \in {"gate", "beat"} /\ JobOf(w) = i
                          /\ Owns(jobs, i, TokenOf(w))

\* At most one write turn of the job since an operator decided, and none if
\* another can start.
Once(i) == writeTurns[i] <= 1 /\ (AboutToRun(i) => writeTurns[i] = 0)

OnceInv == WInv /\ \A i \in JobIds : Once(i)
CallsInv == WInv /\ \A i \in JobIds \ misjudged : Once(i)

-----------------------------------------------------------------------------
(* Transactions, as far as this invariant can tell them apart.             *)

\* Every job of T is one of S with the same payload and policy, and its claim,
\* if it has one, is the same; no approval is added.
Follows(S, T) ==
    \A m \in DOMAIN T :
        /\ m \in DOMAIN S
        /\ T[m].payload = S[m].payload /\ T[m].policy = S[m].policy
        /\ T[m].token \in {S[m].token, None}

ClearsNone(S, T) == \A m \in DOMAIN T : T[m].cleared => S[m].cleared

\* The job does not come closer to a new turn, unless the passing of time may
\* requeue it anyway.
NotRaised(S, T, m) ==
    /\ T[m].state = "queued" => S[m].state = "queued" \/ S[m].policy # "park"
    /\ T[m].state = "needs_review" /\ T[m].reviewKind = "predeclared"
         => S[m].state = "needs_review" /\ S[m].reviewKind = "predeclared"

LEMMA SweepFollows ==
    ASSUME NEW S, NEW n, StoreInv(S, n), NEW t \in Nat
    PROVE  LET T == Sweep(S, t) IN
           /\ Follows(S, T) /\ ClearsNone(S, T)
           /\ \A m \in DOMAIN T : NotRaised(S, T, m)
           /\ \A m \in DOMAIN T :
                T[m].state \in InFlight \cup {"needs_review", "completed"} => T[m] = S[m]
<1> DEFINE T == Sweep(S, t)
<1> SUFFICES ASSUME NEW m \in DOMAIN T
             PROVE  /\ m \in DOMAIN S
                    /\ T[m].payload = S[m].payload /\ T[m].policy = S[m].policy
                    /\ T[m].token \in {S[m].token, None}
                    /\ T[m].cleared => S[m].cleared
                    /\ NotRaised(S, T, m)
                    /\ T[m].state \in InFlight \cup {"needs_review", "completed"}
                         => T[m] = S[m]
  BY DEF Follows, ClearsNone
<1>1. m \in DOMAIN S
  BY SweepMoves
<1>2. CASE T[m] = S[m]
  BY <1>1, <1>2 DEF NotRaised
<1>3. CASE Becomes(S[m], T[m], T[m].state, None) /\ T[m].state \in ByTime(S[m])
  <2>1. T[m].state \in {"expired", "needs_recovery", "queued", "failed"}
    BY <1>3 DEF ByTime
  <2>2. T[m].state = "queued" => S[m].policy # "park"
    BY <1>3 DEF ByTime
  <2>3. QED BY <1>1, <1>3, <2>1, <2>2 DEF NotRaised, Becomes, Kin, InFlight
<1>4. QED BY <1>2, <1>3, SweepMoves

\* A transaction in which the operation moves the job i: the sweep first.
LEMMA CallFollows ==
    ASSUME NEW S, NEW n, StoreInv(S, n), NEW t \in Nat, NEW T, NEW i,
           OneMoves(Sweep(S, t), T, i), Kin(Sweep(S, t)[i], T[i]),
           T[i].token \in {Sweep(S, t)[i].token, None}
    PROVE  /\ Follows(S, T)
           /\ \A m \in DOMAIN T : m # i => NotRaised(S, T, m)
           /\ NotRaised(Sweep(S, t), T, i) => NotRaised(S, T, i)
           /\ (T[i].cleared => Sweep(S, t)[i].cleared) => ClearsNone(S, T)
<1> DEFINE U == Sweep(S, t)
<1>1. /\ Follows(S, U) /\ ClearsNone(S, U)
      /\ \A m \in DOMAIN U : NotRaised(S, U, m)
  BY SweepFollows
<1> HIDE DEF U
<1>2. OneMoves(U, T, i) /\ Kin(U[i], T[i]) /\ T[i].token \in {U[i].token, None}
  BY DEF U
<1>3. Follows(S, T)
  BY <1>1, <1>2 DEF Follows, OneMoves, Kin
<1>4. \A m \in DOMAIN T : m # i => NotRaised(S, T, m)
  BY <1>1, <1>2 DEF NotRaised, OneMoves
<1>5. NotRaised(U, T, i) => NotRaised(S, T, i)
  BY <1>1, <1>2 DEF NotRaised, OneMoves, Follows
<1>6. (T[i].cleared => U[i].cleared) => ClearsNone(S, T)
  BY <1>1, <1>2 DEF ClearsNone, OneMoves
<1>7. QED BY <1>3, <1>4, <1>5, <1>6 DEF U

\* What most calls do: the counters stay, nothing is approved, and no job but
\* those in X comes closer to a turn.
Calm(X) ==
    /\ Follows(jobs, jobs') /\ ClearsNone(jobs, jobs')
    /\ \A m \in DOMAIN jobs' : m \notin X => NotRaised(jobs, jobs', m)
    /\ UNCHANGED <<lastJob, lastToken>>

LEMMA OneCallIsCalm ==
    ASSUME Inv, NEW t \in Readings, NEW i,
           \/ jobs' = Sweep(jobs, t)
           \/ /\ OneMoves(Sweep(jobs, t), jobs', i) /\ Kin(Sweep(jobs, t)[i], jobs'[i])
              /\ jobs'[i].token \in {Sweep(jobs, t)[i].token, None}
              /\ jobs'[i].cleared = Sweep(jobs, t)[i].cleared,
           UNCHANGED <<lastJob, lastToken>>
    PROVE  /\ Calm({i})
           /\ jobs' = Sweep(jobs, t) \/ NotRaised(Sweep(jobs, t), jobs', i) => Calm({})
<1>1. t \in Nat /\ StoreInv(jobs, lastJob)
  BY ReadingsAreTimes DEF Inv
<1>2. CASE jobs' = Sweep(jobs, t)
  BY <1>1, <1>2, SweepFollows DEF Calm
<1>3. CASE /\ OneMoves(Sweep(jobs, t), jobs', i) /\ Kin(Sweep(jobs, t)[i], jobs'[i])
           /\ jobs'[i].token \in {Sweep(jobs, t)[i].token, None}
           /\ jobs'[i].cleared = Sweep(jobs, t)[i].cleared
  <2>1. /\ Follows(jobs, jobs') /\ ClearsNone(jobs, jobs')
        /\ \A m \in DOMAIN jobs' : m # i => NotRaised(jobs, jobs', m)
        /\ NotRaised(Sweep(jobs, t), jobs', i) => NotRaised(jobs, jobs', i)
    BY <1>1, <1>3, CallFollows
  <2>2. jobs' = Sweep(jobs, t) => NotRaised(Sweep(jobs, t), jobs', i)
    BY DEF NotRaised
  <2>3. QED BY <2>1, <2>2 DEF Calm
<1>4. QED BY <1>2, <1>3

LEMMA ReadCalm ==
    ASSUME Inv, Read
    PROVE  Inv' /\ Calm({})
<1>1. PICK t \in Readings :
        jobs' = Sweep(jobs, t) /\ UNCHANGED <<agents, now, lastJob, lastToken>>
  BY DEF Read
<1>2. StoreInv(jobs', lastJob)
  BY <1>1, SweptStoreInv
<1>3. QED BY <1>1, <1>2, StoreStepInv, OneCallIsCalm

LEMMA StartCalm ==
    ASSUME Inv, NEW i, NEW k, StartRunning(i, k)
    PROVE  Inv' /\ Calm({})
<1>1. PICK t \in Readings :
        jobs' = StartIn(Sweep(jobs, t), i, k) /\ UNCHANGED <<agents, now, lastJob, lastToken>>
  BY DEF StartRunning
<1> DEFINE U == Sweep(jobs, t)
<1>2. StoreInv(U, lastJob) /\ StoreInv(jobs', lastJob)
  BY <1>1, SweptStoreInv, StartInv
<1>3. \/ jobs' = U
      \/ CanStart(U, i, k) /\ OneMoves(U, jobs', i) /\ Becomes(U[i], jobs'[i], "running", k)
  BY <1>1, <1>2, StartMoves
<1>4. jobs' # U => NotRaised(U, jobs', i)
  BY <1>3 DEF NotRaised, Becomes
<1>5. \/ jobs' = U
      \/ /\ OneMoves(U, jobs', i) /\ Kin(U[i], jobs'[i])
         /\ jobs'[i].token \in {U[i].token, None} /\ jobs'[i].cleared = U[i].cleared
  BY <1>3 DEF Becomes, CanStart, Owns
<1>6. QED BY <1>1, <1>2, <1>4, <1>5, StoreStepInv, OneCallIsCalm

LEMMA HeartbeatCalm ==
    ASSUME Inv, NEW i, NEW k, NEW ms \in LeaseTimes, Heartbeat(i, k, ms)
    PROVE  Inv' /\ Calm({})
<1>1. PICK t \in Readings :
        /\ jobs' = HeartbeatIn(Sweep(jobs, t), i, k, ms, t)
        /\ UNCHANGED <<agents, now, lastJob, lastToken>>
  BY DEF Heartbeat
<1> DEFINE U == Sweep(jobs, t)
<1>2. StoreInv(U, lastJob) /\ StoreInv(jobs', lastJob)
  BY <1>1, SweptStoreInv, HeartbeatInv, LeaseAssumption
<1>3. \/ jobs' = U
      \/ Owns(U, i, k) /\ OneMoves(U, jobs', i) /\ Becomes(U[i], jobs'[i], U[i].state, k)
  BY <1>1, <1>2, HeartbeatMoves
<1>4. jobs' # U => NotRaised(U, jobs', i)
  BY <1>3 DEF NotRaised, Becomes, Owns, InFlight
<1>5. \/ jobs' = U
      \/ /\ OneMoves(U, jobs', i) /\ Kin(U[i], jobs'[i])
         /\ jobs'[i].token \in {U[i].token, None} /\ jobs'[i].cleared = U[i].cleared
  BY <1>3 DEF Becomes, Owns
<1>6. QED BY <1>1, <1>2, <1>4, <1>5, StoreStepInv, OneCallIsCalm

LEMMA CompleteCalm ==
    ASSUME Inv, NEW i, NEW k \in Nat, Complete(i, k)
    PROVE  Inv' /\ Calm({})
<1>1. PICK t \in Readings :
        jobs' = CompleteIn(Sweep(jobs, t), i, k, t)
        /\ UNCHANGED <<agents, now, lastJob, lastToken>>
  BY DEF Complete
<1> DEFINE U == Sweep(jobs, t)
<1>2. t \in Nat /\ StoreInv(U, lastJob) /\ StoreInv(jobs', lastJob)
  BY <1>1, SweptStoreInv, CompleteInv
<1>3. \/ jobs' = U
      \/ /\ Owns(U, i, k) /\ OneMoves(U, jobs', i)
         /\ Becomes(U[i], jobs'[i], "completed", None)
  BY <1>1, <1>2, CompleteMoves
<1>4. jobs' # U => NotRaised(U, jobs', i)
  BY <1>3 DEF NotRaised, Becomes
<1>5. \/ jobs' = U
      \/ /\ OneMoves(U, jobs', i) /\ Kin(U[i], jobs'[i])
         /\ jobs'[i].token \in {U[i].token, None} /\ jobs'[i].cleared = U[i].cleared
  BY <1>3 DEF Becomes
<1>6. QED BY <1>1, <1>2, <1>4, <1>5, StoreStepInv, OneCallIsCalm

LEMMA ReleaseCalm ==
    ASSUME Inv, NEW i, NEW k, Release(i, k)
    PROVE  Inv' /\ Calm({i})
<1>1. PICK t \in Readings :
        jobs' = ReleaseIn(Sweep(jobs, t), i, k)
        /\ UNCHANGED <<agents, now, lastJob, lastToken>>
  BY DEF Release
<1> DEFINE U == Sweep(jobs, t)
<1>2. t \in Nat /\ StoreInv(U, lastJob) /\ StoreInv(jobs', lastJob)
  BY <1>1, SweptStoreInv, ReleaseInv
<1>3. \/ jobs' = U
      \/ OneMoves(U, jobs', i) /\ Becomes(U[i], jobs'[i], "queued", None)
  BY <1>1, <1>2, ReleaseMoves
<1>4. \/ jobs' = U
      \/ /\ OneMoves(U, jobs', i) /\ Kin(U[i], jobs'[i])
         /\ jobs'[i].token \in {U[i].token, None} /\ jobs'[i].cleared = U[i].cleared
  BY <1>3 DEF Becomes
<1>5. QED BY <1>1, <1>2, <1>4, StoreStepInv, OneCallIsCalm

LEMMA FailCalm ==
    ASSUME Inv, NEW i, NEW k, Fail(i, k, FALSE)
    PROVE  Inv' /\ Calm({})
<1>1. PICK t \in Readings :
        jobs' = FailIn(Sweep(jobs, t), i, k, FALSE, t)
        /\ UNCHANGED <<agents, now, lastJob, lastToken>>
  BY DEF Fail
<1> DEFINE U == Sweep(jobs, t)
<1>2. t \in Nat /\ StoreInv(U, lastJob) /\ StoreInv(jobs', lastJob)
  BY <1>1, SweptStoreInv, FailInv
<1>3. \/ jobs' = U
      \/ OneMoves(U, jobs', i) /\ Becomes(U[i], jobs'[i], "failed", None)
  BY <1>1, <1>2, FailMoves
<1>4. jobs' # U => NotRaised(U, jobs', i)
  BY <1>3 DEF NotRaised, Becomes
<1>5. \/ jobs' = U
      \/ /\ OneMoves(U, jobs', i) /\ Kin(U[i], jobs'[i])
         /\ jobs'[i].token \in {U[i].token, None} /\ jobs'[i].cleared = U[i].cleared
  BY <1>3 DEF Becomes
<1>6. QED BY <1>1, <1>2, <1>4, <1>5, StoreStepInv, OneCallIsCalm

LEMMA CancelCalm ==
    ASSUME Inv, NEW i, Cancel(i)
    PROVE  Inv' /\ Calm({})
<1>1. PICK t \in Readings :
        jobs' = CancelIn(Sweep(jobs, t), i, t)
        /\ UNCHANGED <<agents, now, lastJob, lastToken>>
  BY DEF Cancel
<1> DEFINE U == Sweep(jobs, t)
<1>2. t \in Nat /\ StoreInv(U, lastJob) /\ StoreInv(jobs', lastJob)
  BY <1>1, SweptStoreInv, CancelInv
<1>3. \/ jobs' = U
      \/ OneMoves(U, jobs', i) /\ Becomes(U[i], jobs'[i], "cancelled", None)
  BY <1>1, <1>2, CancelMoves
<1>4. jobs' # U => NotRaised(U, jobs', i)
  BY <1>3 DEF NotRaised, Becomes
<1>5. \/ jobs' = U
      \/ /\ OneMoves(U, jobs', i) /\ Kin(U[i], jobs'[i])
         /\ jobs'[i].token \in {U[i].token, None} /\ jobs'[i].cleared = U[i].cleared
  BY <1>3 DEF Becomes
<1>6. QED BY <1>1, <1>2, <1>4, <1>5, StoreStepInv, OneCallIsCalm

LEMMA ParkCalm ==
    ASSUME Inv, NEW i, NEW k, Park(i, k)
    PROVE  Inv' /\ Calm({})
<1>1. PICK t \in Readings :
        jobs' = ParkIn(Sweep(jobs, t), i, k, t)
        /\ UNCHANGED <<agents, now, lastJob, lastToken>>
  BY DEF Park
<1> DEFINE U == Sweep(jobs, t)
<1>2. t \in Nat /\ StoreInv(U, lastJob) /\ StoreInv(jobs', lastJob)
  BY <1>1, SweptStoreInv, ParkInv
<1>3. \/ jobs' = U
      \/ OneMoves(U, jobs', i) /\ Becomes(U[i], jobs'[i], "needs_recovery", None)
  BY <1>1, <1>2, ParkMoves
<1>4. jobs' # U => NotRaised(U, jobs', i)
  BY <1>3 DEF NotRaised, Becomes
<1>5. \/ jobs' = U
      \/ /\ OneMoves(U, jobs', i) /\ Kin(U[i], jobs'[i])
         /\ jobs'[i].token \in {U[i].token, None} /\ jobs'[i].cleared = U[i].cleared
  BY <1>3 DEF Becomes
<1>6. QED BY <1>1, <1>2, <1>4, <1>5, StoreStepInv, OneCallIsCalm

LEMMA RecoverCalm ==
    ASSUME Inv, NEW i, Recover(i)
    PROVE  /\ Inv' /\ Calm({i})
           /\ i \in DOMAIN jobs' => NotRaised(jobs, jobs', i) \/ jobs'[i].state = "queued"
<1>1. PICK t \in Readings :
        jobs' = RecoverIn(Sweep(jobs, t), i)
        /\ UNCHANGED <<agents, now, lastJob, lastToken>>
  BY DEF Recover
<1> DEFINE U == Sweep(jobs, t)
<1>2. t \in Nat /\ StoreInv(U, lastJob) /\ StoreInv(jobs', lastJob)
  BY <1>1, SweptStoreInv, RecoverInv
<1>3. \/ jobs' = U
      \/ OneMoves(U, jobs', i) /\ Becomes(U[i], jobs'[i], "queued", None)
  BY <1>1, <1>2, RecoverMoves
<1>4. \/ jobs' = U
      \/ /\ OneMoves(U, jobs', i) /\ Kin(U[i], jobs'[i])
         /\ jobs'[i].token \in {U[i].token, None} /\ jobs'[i].cleared = U[i].cleared
  BY <1>3 DEF Becomes
<1>5. Inv' /\ Calm({i}) /\ (jobs' = U => Calm({}))
  BY <1>1, <1>2, <1>4, StoreStepInv, OneCallIsCalm
<1>6. QED BY <1>3, <1>5 DEF Calm, Becomes

\* Parking before the turn needs the claim in force; parking a result does not
\* bring the job closer to a turn.
LEMMA ReviewCalm ==
    ASSUME Inv, NEW i, NEW k \in Nat, NEW kind \in ReviewKinds, NeedsReview(i, k, kind)
    PROVE  /\ Inv' /\ Calm({i})
           /\ kind = "selfflagged" \/ ~Owns(jobs, i, k) => Calm({})
<1>1. PICK t \in Readings :
        jobs' = ReviewIn(Sweep(jobs, t), i, k, kind, t)
        /\ UNCHANGED <<agents, now, lastJob, lastToken>>
  BY DEF NeedsReview
<1> DEFINE U == Sweep(jobs, t)
<1>2. t \in Nat /\ StoreInv(U, lastJob) /\ StoreInv(jobs', lastJob)
  BY <1>1, SweptStoreInv, ReviewInv
<1>3. \/ jobs' = U
      \/ /\ CanReview(U, i, k, kind) /\ OneMoves(U, jobs', i) /\ Kin(U[i], jobs'[i])
         /\ jobs'[i].state = "needs_review" /\ jobs'[i].token = None
         /\ jobs'[i].cleared = U[i].cleared /\ jobs'[i].reviewKind = kind
  BY <1>1, <1>2, ReviewMoves
<1>4. jobs' # U /\ kind = "selfflagged" => NotRaised(U, jobs', i)
  BY <1>3 DEF NotRaised
<1>5. jobs' # U => Owns(jobs, i, k)
  <2>1. \A m \in DOMAIN U : m \in DOMAIN jobs /\ (U[m].state \in InFlight => U[m] = jobs[m])
    BY <1>2, SweepFollows DEF Inv, Follows
  <2>2. QED BY <1>3, <2>1 DEF CanReview, Owns, Found
<1>6. QED BY <1>1, <1>2, <1>3, <1>4, <1>5, StoreStepInv, OneCallIsCalm

\* An operator's answer: approval brings back a job that was parked before its turn.
LEMMA ResolveCalm ==
    ASSUME Inv, NEW i, NEW approve \in BOOLEAN, ResolveReview(i, approve)
    PROVE  /\ Inv' /\ Follows(jobs, jobs') /\ UNCHANGED <<lastJob, lastToken>>
           /\ \A m \in DOMAIN jobs' : m # i \/ ~(approve /\ CanResolve(jobs, i))
                => (jobs'[m].cleared => jobs[m].cleared)
           /\ \A m \in DOMAIN jobs' :
                \/ NotRaised(jobs, jobs', m)
                \/ jobs[m].state = "needs_review" /\ jobs[m].reviewKind = "predeclared"
          
<1>1. PICK t \in Readings :
        jobs' = ResolveIn(Sweep(jobs, t), i, approve, t)
        /\ UNCHANGED <<agents, now, lastJob, lastToken>>
  BY DEF ResolveReview
<1> DEFINE U == Sweep(jobs, t)
<1>2. t \in Nat /\ StoreInv(U, lastJob) /\ StoreInv(jobs', lastJob)
  BY <1>1, SweptStoreInv, ResolveInv
<1>3. Inv'
  BY <1>1, <1>2, StoreStepInv
<1>4. CASE jobs' = U
  <2>1. Calm({})
    BY <1>1, <1>4, OneCallIsCalm
  <2>2. QED BY <1>3, <2>1 DEF Calm, ClearsNone
<1>5. CASE /\ CanResolve(U, i) /\ OneMoves(U, jobs', i)
           /\ Becomes(U[i], jobs'[i], "failed", None)
  <2>1. NotRaised(U, jobs', i)
    BY <1>5 DEF NotRaised, Becomes
  <2>2. Calm({})
    BY <1>1, <1>5, <2>1, OneCallIsCalm DEF Becomes
  <2>3. QED BY <1>3, <2>2 DEF Calm, ClearsNone
<1>6. CASE CanResolve(U, i) /\ OneMoves(U, jobs', i)
           /\ Becomes(U[i], jobs'[i], "completed", None)
  <2>1. NotRaised(U, jobs', i)
    BY <1>6 DEF NotRaised, Becomes
  <2>2. Calm({})
    BY <1>1, <1>6, <2>1, OneCallIsCalm DEF Becomes
  <2>3. QED BY <1>3, <2>2 DEF Calm, ClearsNone
<1>7. CASE /\ CanResolve(U, i) /\ OneMoves(U, jobs', i) /\ approve
           /\ U[i].reviewKind = "predeclared" /\ Kin(U[i], jobs'[i])
           /\ jobs'[i].state = "queued" /\ jobs'[i].token = None
  <2>1. U[i] = jobs[i] /\ i \in DOMAIN jobs
    BY <1>2, <1>7, SweepFollows DEF CanResolve, Found, Inv, Follows
  <2>2. CanResolve(jobs, i) /\ jobs[i].state = "needs_review"
        /\ jobs[i].reviewKind = "predeclared"
    BY <1>7, <2>1 DEF CanResolve, Found
  <2>3. Follows(jobs, U) /\ ClearsNone(jobs, U)
    BY <1>2, SweepFollows DEF Inv
  <2>4. /\ Follows(jobs, jobs')
        /\ \A m \in DOMAIN jobs' : m # i => NotRaised(jobs, jobs', m)
       
    BY <1>2, <1>7, CallFollows DEF Inv
  <2>5. \A m \in DOMAIN jobs' : m # i => (jobs'[m].cleared => jobs[m].cleared)
    BY <1>7, <2>3 DEF ClearsNone, OneMoves
  <2>6. QED BY <1>1, <1>3, <1>7, <2>2, <2>4, <2>5
<1>8. QED BY <1>1, <1>2, <1>4, <1>5, <1>6, <1>7, ResolveMoves

-----------------------------------------------------------------------------
(* Steps that carry the invariant.                                         *)

\* What a step may do to the workers without a new claim and without a turn
\* that was not about to begin.
OnwardAt(v) ==
    /\ pc'[v] \in Busy => pc[v] \in Busy /\ held'[v] = held[v]
    /\ pc'[v] = "gate" => pc[v] = "gate"
    /\ pc'[v] = "beat" => pc[v] = "beat" \/ (pc[v] = "gate" /\ ~Gated(v))
    /\ pc'[v] \in InTurn => pc[v] \in {"beat"} \cup InTurn

Onward == WorkersShape' /\ \A v \in Workers : OnwardAt(v)

\* Jobs that were there keep their payload: ids are not used twice.
PayloadsKept ==
    \A m \in DOMAIN jobs' : m <= lastJob =>
        m \in DOMAIN jobs /\ jobs'[m].payload = jobs[m].payload

LEMMA HeldCarries ==
    ASSUME WInv, PayloadsKept, lastJob' \in Nat, lastToken' \in Nat,
           lastJob <= lastJob', lastToken <= lastToken', approved \subseteq approved',
           NEW v \in Workers, OnwardAt(v), pc'[v] \in Busy
    PROVE  HeldKnown(v)'
<1>1. pc[v] \in Busy /\ held'[v] = held[v] /\ HeldKnown(v)
  BY DEF OnwardAt, WInv
<1>2. lastJob \in Nat /\ lastToken \in Nat /\ JobOf(v) \in Nat
  BY <1>1 DEF WInv, Inv, HeldKnown, Claims, JobOf, JobIds
<1>3. JobOf(v) <= lastJob' /\ TokenOf(v) \in 1..lastToken'
  BY <1>1, <1>2 DEF HeldKnown
<1>4. JobOf(v) \in DOMAIN jobs' => jobs'[JobOf(v)].payload = PayloadOf(v)
  BY <1>1 DEF HeldKnown, PayloadsKept
<1>5. pc'[v] \in {"beat"} \cup InTurn /\ PayloadOf(v) \in ReviewPayloads
        => JobOf(v) \in approved'
  BY <1>1 DEF HeldKnown, OnwardAt, Gated, InTurn
<1>6. QED BY <1>1, <1>3, <1>4, <1>5 DEF HeldKnown, JobOf, TokenOf, PayloadOf

LEMMA ClaimsCarry ==
    ASSUME WInv, Onward
    PROVE  ClaimsDiffer'
BY DEF WInv, Onward, OnwardAt, ClaimsDiffer, TokenOf

\* A job that is about to run after the step was so before, or cannot be a write
\* job: for every step that adds no claim.
LEMMA OnceCarries ==
    ASSUME WInv, Inv', NEW i \in JobIds, writeTurns'[i] = writeTurns[i],
           \A v \in Workers : pc'[v] \in {"gate", "beat"} /\ JobOf(v)' = i
             => pc[v] \in {"gate", "beat"} /\ held'[v] = held[v],
           i \in DOMAIN jobs' =>
             /\ i \in DOMAIN jobs /\ jobs'[i].token \in {jobs[i].token, None}
             /\ (NotRaised(jobs, jobs', i) \/ writeTurns[i] = 0),
           Once(i)
    PROVE  Once(i)'
<1> SUFFICES ASSUME AboutToRun(i)' PROVE writeTurns[i] = 0
  BY DEF Once
<1>1. CASE i \in DOMAIN jobs' /\ NotRaised(jobs, jobs', i)
           /\ (jobs'[i].state = "queued" \/ (jobs'[i].state = "needs_review"
               /\ jobs'[i].reviewKind = "predeclared"))
  <2>1. CASE jobs[i].policy # "park"
    BY <1>1, <2>1 DEF WInv, JobsKnown
  <2>2. CASE jobs[i].policy = "park"
    <3>1. AboutToRun(i)
      BY <1>1, <2>2 DEF NotRaised, AboutToRun
    <3>2. QED BY <3>1 DEF Once
  <2>3. QED BY <2>1, <2>2
<1>2. CASE \E w \in Workers : /\ pc'[w] \in {"gate", "beat"} /\ JobOf(w)' = i
                              /\ Owns(jobs', i, TokenOf(w)')
  <2>1. PICK w \in Workers : /\ pc'[w] \in {"gate", "beat"} /\ JobOf(w)' = i
                             /\ Owns(jobs', i, TokenOf(w)')
    BY <1>2
  <2>2. pc[w] \in {"gate", "beat"} /\ held'[w] = held[w]
    BY <2>1
  <2>3. TokenOf(w) \in Nat /\ JobOf(w) = i
    BY <2>1, <2>2 DEF WInv, HeldKnown, Claims, Busy, JobOf, TokenOf
  <2>4. Owns(jobs', i, TokenOf(w))
    BY <2>1, <2>2 DEF TokenOf
  <2>5. i \in DOMAIN jobs /\ jobs[i].token = TokenOf(w)
    BY <2>3, <2>4, NoneAssumption DEF Owns, Found
  <2>6. jobs[i].state \in InFlight
    BY <2>3, <2>5, NoneAssumption
    DEF WInv, Inv, StoreInv, JobInv, JobConsistent, ClaimInForce
  <2>7. AboutToRun(i)
    BY <2>2, <2>3, <2>5, <2>6 DEF AboutToRun, Owns, Found
  <2>8. QED BY <2>7 DEF Once
<1>3. QED BY <1>1, <1>2 DEF AboutToRun

LEMMA JobsCarry ==
    ASSUME WInv, Inv', Follows(jobs, jobs'), UNCHANGED <<lastJob, lastToken>>,
           approved \subseteq approved', approved' \subseteq JobIds,
           \A m \in DOMAIN jobs' : jobs'[m].cleared => jobs[m].cleared \/ m \in approved',
           writeTurns' \in [JobIds -> Nat],
           \A m \in DOMAIN jobs : jobs[m].payload \notin WritePayloads => writeTurns'[m] = 0,
           \A i \in JobIds : i > lastJob => writeTurns'[i] = 0
    PROVE  JobsKnown'
<1>1. \A m \in DOMAIN jobs' :
        /\ m \in DOMAIN jobs
        /\ jobs'[m].token # None => jobs'[m].token \in 1..lastToken'
        /\ jobs'[m].cleared => m \in approved'
        /\ jobs'[m].payload \in WritePayloads => jobs'[m].policy = "park"
        /\ jobs'[m].payload \notin WritePayloads => writeTurns'[m] = 0
  BY DEF WInv, JobsKnown, Follows
<1>2. lastJob' <= MaxJobId
  BY DEF WInv, JobsKnown
<1>3. QED BY <1>1, <1>2 DEF JobsKnown

LEMMA StoreStep ==
    ASSUME WInv, Inv', Onward, Follows(jobs, jobs'), UNCHANGED <<lastJob, lastToken>>,
           approved \subseteq approved', approved' \subseteq JobIds,
           \A m \in DOMAIN jobs' : jobs'[m].cleared => jobs[m].cleared \/ m \in approved',
           writeTurns' \in [JobIds -> Nat],
           \A m \in DOMAIN jobs : jobs[m].payload \notin WritePayloads => writeTurns'[m] = 0,
           \A i \in JobIds : i > lastJob => writeTurns'[i] = 0
    PROVE  WInv'
<1>1. JobsKnown'
  BY JobsCarry
<1>2. PayloadsKept
  BY DEF PayloadsKept, Follows
<1>3. \A v \in Workers : pc'[v] \in Busy => HeldKnown(v)'
  BY <1>2, HeldCarries DEF WInv, Inv, Onward
<1>4. ClaimsDiffer'
  BY ClaimsCarry
<1>5. QED BY <1>1, <1>3, <1>4 DEF WInv, Onward

\* No worker that was not so is about to begin a turn.
LEMMA NobodyNew ==
    ASSUME Onward, NEW v \in Workers, pc'[v] \in {"gate", "beat"}
    PROVE  pc[v] \in {"gate", "beat"} /\ held'[v] = held[v]
BY DEF Onward, OnwardAt, Busy

\* What a step keeps: the invariant, and for every job that had at most one turn
\* that this is so.
Keeps == WInv' /\ \A i \in JobIds : Once(i) => Once(i)'

\* The steps of a worker whose transaction is calm, and those of everybody else.
LEMMA CalmStep ==
    ASSUME WInv, Inv', Onward, NEW X, Calm(X), UNCHANGED <<writeTurns, approved>>,
           \A i \in X : i \in DOMAIN jobs' /\ Once(i)
             => NotRaised(jobs, jobs', i) \/ writeTurns[i] = 0
    PROVE  Keeps
<1>1. WInv'
  <2>1. Follows(jobs, jobs') /\ ClearsNone(jobs, jobs')
    BY DEF Calm
  <2>2. \A m \in DOMAIN jobs' : jobs'[m].cleared => jobs[m].cleared
    BY <2>1 DEF ClearsNone
  <2>3. QED BY <2>1, <2>2, StoreStep DEF Calm, WInv, JobsKnown
<1>2. ASSUME NEW i \in JobIds, Once(i) PROVE Once(i)'
  <2>1. i \in DOMAIN jobs' =>
          /\ i \in DOMAIN jobs /\ jobs'[i].token \in {jobs[i].token, None}
          /\ (NotRaised(jobs, jobs', i) \/ writeTurns[i] = 0)
    BY <1>2 DEF Calm, Follows
  <2>2. QED BY <1>2, <2>1, OnceCarries, NobodyNew
<1>3. QED BY <1>1, <1>2 DEF Keeps

-----------------------------------------------------------------------------
(* The steps of a worker.                                                  *)

LEMMA HeldClaim ==
    ASSUME WInv, NEW w \in Workers, pc[w] \in Busy
    PROVE  /\ HeldKnown(w) /\ JobOf(w) \in JobIds /\ TokenOf(w) \in Nat
           /\ JobOf(w) \in DOMAIN jobs /\ PayloadOf(w) \notin WritePayloads
                => writeTurns[JobOf(w)] = 0
BY DEF WInv, HeldKnown, Claims, JobOf, TokenOf, PayloadOf, JobsKnown

LEMMA QuietStoreCalm ==
    ASSUME WInv, UNCHANGED <<jobs, agents, lastJob, lastToken>>, now' \in Nat
    PROVE  Inv' /\ Calm({})
<1>1. Inv'
  BY DEF WInv, Inv, AgentsInv, StoreInv
<1>2. QED BY <1>1 DEF Calm, Follows, ClearsNone, NotRaised

LEMMA QuietStep ==
    ASSUME WInv, Inv', Onward, Calm({}), UNCHANGED <<writeTurns, approved>>
    PROVE  Keeps
BY CalmStep

LEMMA ReturnOnward ==
    ASSUME WInv, NEW w \in Workers, Return(w)
    PROVE  Onward
<1>1. WorkersShape'
  BY DEF WInv, WorkersShape, Return, Goto, Steps
<1>2. \A v \in Workers : /\ v # w => pc'[v] = pc[v] /\ held'[v] = held[v]
                         /\ pc'[w] = "idle"
  BY DEF WInv, WorkersShape, Return, Goto
<1>3. QED BY <1>1, <1>2 DEF Onward, OnwardAt, Busy, InTurn

LEMMA GotoOnward ==
    ASSUME WInv, NEW w \in Workers, NEW l \in Steps, Goto(w, l),
           UNCHANGED held, DOMAIN inbox' = DOMAIN inbox, DOMAIN verdict' = DOMAIN verdict,
           UNCHANGED stopping, aborted' \in [Workers -> BOOLEAN],
           l \in Busy => pc[w] \in Busy,
           l # "gate",
           l = "beat" => pc[w] = "gate" /\ ~Gated(w),
           l \in InTurn => pc[w] \in {"beat"} \cup InTurn
    PROVE  Onward
<1>1. WorkersShape'
  BY DEF WInv, WorkersShape, Goto
<1>2. \A v \in Workers : /\ v # w => pc'[v] = pc[v]
                         /\ pc'[w] = l
  BY DEF WInv, WorkersShape, Goto
<1>3. QED BY <1>1, <1>2 DEF Onward, OnwardAt

LEMMA StandOnward ==
    ASSUME WInv, UNCHANGED <<pc, held>>, DOMAIN inbox' = DOMAIN inbox,
           DOMAIN verdict' = DOMAIN verdict, stopping' \in [Workers -> BOOLEAN],
           aborted' \in [Workers -> BOOLEAN]
    PROVE  Onward
BY DEF WInv, WorkersShape, Onward, OnwardAt, Gated

LEMMA DrainKeeps ==
    ASSUME WInv, NEW w \in Workers, Drain(w)
    PROVE  Keeps
<1>1. Inv' /\ Calm({})
  BY ReadCalm DEF Drain, WInv
<1>2. PICK l \in {"idle", "claim"} : Goto(w, l)
  BY DEF Drain
<1>3. aborted' \in [Workers -> BOOLEAN] /\ DOMAIN inbox' = DOMAIN inbox
  BY DEF Drain, WInv, WorkersShape
<1>4. Onward
  BY <1>2, <1>3, GotoOnward DEF Drain, Steps, Busy, InTurn
<1>5. QED BY <1>1, <1>4, QuietStep DEF Drain

LEMMA RefuseKeeps ==
    ASSUME WInv, NEW w \in Workers, Refuse(w)
    PROVE  Keeps
<1>1. Inv' /\ Calm({})
  BY FailCalm DEF Refuse, WInv
<1>2. Onward
  BY ReturnOnward DEF Refuse
<1>3. QED BY <1>1, <1>2, QuietStep DEF Refuse, Return

LEMMA HoldForReviewKeeps ==
    ASSUME WInv, NEW w \in Workers, HoldForReview(w)
    PROVE  Keeps
<1> DEFINE i == JobOf(w)
<1>1. pc[w] = "gate" /\ NeedsReview(i, TokenOf(w), "predeclared") /\ Return(w)
  BY DEF HoldForReview
<1>2. i \in JobIds /\ TokenOf(w) \in Nat
  BY <1>1, HeldClaim DEF Busy
<1>3. Inv' /\ Calm({i}) /\ (~Owns(jobs, i, TokenOf(w)) => Calm({}))
  BY <1>1, <1>2, ReviewCalm DEF WInv, ReviewKinds
<1>4. Onward
  BY <1>1, ReturnOnward
<1>5. CASE ~Owns(jobs, i, TokenOf(w))
  BY <1>1, <1>3, <1>4, <1>5, QuietStep DEF Return
<1>6. CASE Owns(jobs, i, TokenOf(w))
  <2>1. Once(i) => writeTurns[i] = 0
    BY <1>1, <1>6 DEF Once, AboutToRun
  <2>2. UNCHANGED <<writeTurns, approved>>
    BY <1>1 DEF Return
  <2>3. QED BY <1>3, <1>4, <2>1, <2>2, CalmStep
<1>7. QED BY <1>5, <1>6

LEMMA StartKeeps ==
    ASSUME WInv, NEW w \in Workers, Start(w)
    PROVE  Keeps
<1>1. Inv' /\ Calm({})
  BY StartCalm DEF Start, WInv
<1>2. CASE StillOurs(w)
  <2>1. /\ pc[w] = "gate" /\ ~Gated(w) /\ Goto(w, "beat")
        /\ UNCHANGED <<held, inbox, aborted, verdict, stopping, writeTurns, approved>>
    BY <1>2 DEF Start
  <2>2. Onward
    BY <2>1, GotoOnward DEF Steps, Busy, InTurn, WInv, WorkersShape
  <2>3. QED BY <1>1, <2>1, <2>2, QuietStep
<1>3. CASE ~StillOurs(w)
  BY <1>1, <1>3, ReturnOnward, QuietStep DEF Start, Return
<1>4. QED BY <1>2, <1>3

LEMMA TickCheckKeeps ==
    ASSUME WInv, NEW w \in Workers, TickCheck(w)
    PROVE  Keeps
<1>1. Inv' /\ Calm({})
  BY ReadCalm DEF TickCheck, WInv
<1>2. aborted' \in [Workers -> BOOLEAN] /\ stopping' \in [Workers -> BOOLEAN]
  BY DEF TickCheck, WInv, WorkersShape
<1>3. CASE StillOurs(w)
  <2>1. pc[w] = "turn" /\ Goto(w, "renew")
        /\ UNCHANGED <<held, inbox, verdict, stopping, writeTurns, approved>>
    BY <1>3 DEF TickCheck
  <2>2. Onward
    BY <1>2, <2>1, GotoOnward DEF Steps, Busy, InTurn
  <2>3. QED BY <1>1, <2>1, <2>2, QuietStep
<1>4. CASE ~StillOurs(w)
  BY <1>1, <1>2, <1>4, StandOnward, QuietStep DEF TickCheck
<1>5. QED BY <1>3, <1>4

LEMMA TickRenewKeeps ==
    ASSUME WInv, NEW w \in Workers, TickRenew(w)
    PROVE  Keeps
<1>1. Inv' /\ Calm({})
  BY HeartbeatCalm, WorkerTimesAssumption DEF TickRenew, WInv
<1>2. aborted' \in [Workers -> BOOLEAN]
  <2>1. (aborted[w] \/ ~StillOurs(w)) \in BOOLEAN
    OBVIOUS
  <2>2. QED BY <2>1 DEF TickRenew, WInv, WorkersShape
<1>3. Onward
  BY <1>2, GotoOnward DEF TickRenew, Steps, Busy, InTurn
<1>4. QED BY <1>1, <1>3, QuietStep DEF TickRenew

LEMMA EndTurnKeeps ==
    ASSUME WInv, NEW w \in Workers, NEW v \in Verdicts, EndTurn(w, v)
    PROVE  Keeps
<1>1. Inv' /\ Calm({})
  BY QuietStoreCalm DEF EndTurn, vars, WInv, Inv
<1>2. DOMAIN verdict' = DOMAIN verdict
  BY DEF EndTurn
<1>3. Onward
  BY <1>2, GotoOnward DEF EndTurn, Steps, Busy, InTurn, WInv, WorkersShape
<1>4. QED BY <1>1, <1>3, QuietStep DEF EndTurn

LEMMA DecideKeeps ==
    ASSUME WInv, NEW w \in Workers, Decide(w)
    PROVE  Keeps
<1>1. Inv' /\ Calm({})
  BY ReadCalm DEF Decide, WInv
<1>2. CASE StillOurs(w)
  <2>1. /\ pc[w] = "decide" /\ Goto(w, "settle")
        /\ UNCHANGED <<held, inbox, aborted, verdict, stopping, writeTurns, approved>>
    BY <1>2 DEF Decide
  <2>2. Onward
    BY <2>1, GotoOnward DEF Steps, Busy, InTurn, WInv, WorkersShape
  <2>3. QED BY <1>1, <2>1, <2>2, QuietStep
<1>3. CASE ~StillOurs(w)
  BY <1>1, <1>3, ReturnOnward, QuietStep DEF Decide, Return
<1>4. QED BY <1>2, <1>3

\* Only a job that is no write job goes back to the queue after its turn.
LEMMA SettleKeeps ==
    ASSUME WInv, NEW w \in Workers, Settle(w)
    PROVE  Keeps
<1> DEFINE i == JobOf(w)
           k == TokenOf(w)
<1>1. pc[w] = "settle" /\ Return(w) /\ UNCHANGED <<writeTurns, approved>>
  BY DEF Settle, Return
<1>2. i \in JobIds /\ k \in Nat
  BY <1>1, HeldClaim DEF Busy
<1>3. Onward
  BY <1>1, ReturnOnward
<1>4. CASE Park(i, k) \/ Fail(i, k, FALSE) \/ NeedsReview(i, k, "selfflagged") \/ Complete(i, k)
  <2>1. Inv' /\ Calm({})
    BY <1>2, <1>4, ParkCalm, FailCalm, ReviewCalm, CompleteCalm DEF WInv, ReviewKinds
  <2>2. QED BY <1>1, <1>3, <2>1, QuietStep
<1>5. CASE PayloadOf(w) \notin WritePayloads /\ Release(i, k)
  <2>1. Inv' /\ Calm({i})
    BY <1>5, ReleaseCalm DEF WInv
  <2>2. i \in DOMAIN jobs' => writeTurns[i] = 0
    BY <1>1, <1>5, <2>1, HeldClaim DEF Calm, Follows, Busy
  <2>3. QED BY <1>1, <1>3, <2>1, <2>2, CalmStep
<1>6. QED BY <1>4, <1>5 DEF Settle

LEMMA StopKeeps ==
    ASSUME WInv, NEW w \in Workers, Stop(w)
    PROVE  Keeps
<1>1. Inv' /\ Calm({})
  BY QuietStoreCalm DEF Stop, vars, WInv, Inv
<1>2. aborted' \in [Workers -> BOOLEAN]
  <2>1. (aborted[w] \/ pc[w] \in InTurn) \in BOOLEAN
    OBVIOUS
  <2>2. QED BY <2>1 DEF Stop, WInv, WorkersShape
<1>3. stopping' \in [Workers -> BOOLEAN]
  BY DEF Stop, WInv, WorkersShape
<1>4. Onward
  BY <1>2, <1>3, StandOnward DEF Stop
<1>5. QED BY <1>1, <1>4, QuietStep DEF Stop

LEMMA LeaveKeeps ==
    ASSUME WInv, NEW w \in Workers, Leave(w)
    PROVE  Keeps
<1>1. Inv' /\ Calm({})
  BY QuietStoreCalm DEF Leave, vars, WInv, Inv
<1>2. Onward
  BY GotoOnward DEF Leave, Steps, Busy, InTurn, WInv, WorkersShape
<1>3. QED BY <1>1, <1>2, QuietStep DEF Leave

LEMMA CrashKeeps ==
    ASSUME WInv, NEW w \in Workers, Crash(w)
    PROVE  Keeps
<1>1. Inv' /\ Calm({})
  BY QuietStoreCalm DEF Crash, vars, WInv, Inv
<1>2. WorkersShape'
  BY DEF WInv, WorkersShape, Crash, Goto, Steps
<1>3. \A v \in Workers : /\ v # w => pc'[v] = pc[v] /\ held'[v] = held[v]
                         /\ pc'[w] = "dead"
  BY DEF WInv, WorkersShape, Crash, Goto
<1>4. Onward
  BY <1>2, <1>3 DEF Onward, OnwardAt, Busy, InTurn
<1>5. QED BY <1>1, <1>4, QuietStep DEF Crash

-----------------------------------------------------------------------------
(* The steps that matter: a claim is won, a turn begins.                   *)

\* A claim that is granted goes to a job that was waiting for it, with a token
\* nobody has, and changes nothing else but what the sweep did.
LEMMA ClaimGranted ==
    ASSUME Inv, NEW i, NEW ms \in LeaseTimes, Claim(i, ms)
    PROVE  /\ Inv' /\ lastJob' = lastJob
           /\ lastToken' = lastToken => Calm({})
           /\ lastToken' # lastToken =>
                /\ lastToken' = lastToken + 1
                /\ i \in DOMAIN jobs /\ i \in DOMAIN jobs'
                /\ jobs'[i].token = lastToken' /\ jobs'[i].state = "claimed"
                /\ jobs[i].state = "queued" \/ jobs[i].policy # "park"
                /\ ClearsNone(jobs, jobs')
                /\ \A m \in DOMAIN jobs' :
                     /\ m \in DOMAIN jobs
                     /\ jobs'[m].payload = jobs[m].payload /\ jobs'[m].policy = jobs[m].policy
                     /\ m # i => /\ jobs'[m].token \in {jobs[m].token, None}
                                 /\ NotRaised(jobs, jobs', m)
<1>1. PICK t \in Readings :
        LET S == Sweep(jobs, t) IN
        /\ jobs' = ClaimIn(S, i, lastToken + 1, ms, t)
        /\ lastToken' = IF CanClaim(S, i) THEN lastToken + 1 ELSE lastToken
        /\ UNCHANGED <<agents, now, lastJob>>
  BY DEF Claim
<1> DEFINE U == Sweep(jobs, t)
<1>2. t \in Nat /\ StoreInv(U, lastJob)
  BY SweptStoreInv
<1>3. ms \in Opt(Nat) /\ lastToken + 1 \in Nat /\ lastToken \in Nat
  BY LeaseAssumption DEF Inv
<1>4. Inv'
  <2>1. StoreInv(jobs', lastJob)
    BY <1>1, <1>2, <1>3, ClaimInv
  <2>2. QED BY <1>1, <1>3, <2>1 DEF Inv, AgentsInv, StoreInv
<1>5. /\ Follows(jobs, U) /\ ClearsNone(jobs, U)
      /\ \A m \in DOMAIN U : NotRaised(jobs, U, m)
  BY <1>2, SweepFollows DEF Inv
<1>6. \/ ~CanClaim(U, i) /\ jobs' = U
      \/ /\ CanClaim(U, i) /\ OneMoves(U, jobs', i)
         /\ Becomes(U[i], jobs'[i], "claimed", lastToken + 1)
  BY <1>1, <1>2, ClaimMoves
<1>7. CASE ~CanClaim(U, i) /\ jobs' = U
  BY <1>1, <1>3, <1>4, <1>5, <1>7 DEF Calm
<1>8. CASE CanClaim(U, i) /\ OneMoves(U, jobs', i)
           /\ Becomes(U[i], jobs'[i], "claimed", lastToken + 1)
  <2>1. lastToken' = lastToken + 1 /\ lastToken' # lastToken /\ lastJob' = lastJob
    BY <1>1, <1>3, <1>8
  <2>2. /\ i \in DOMAIN U /\ i \in DOMAIN jobs /\ i \in DOMAIN jobs'
        /\ jobs'[i].token = lastToken' /\ jobs'[i].state = "claimed"
    BY <1>5, <1>8, <2>1 DEF OneMoves, Becomes, Follows
  <2>3. jobs[i].state = "queued" \/ jobs[i].policy # "park"
    BY <1>5, <1>8, <2>2 DEF NotRaised, CanClaim
  <2>4. ClearsNone(jobs, jobs')
    BY <1>5, <1>8 DEF ClearsNone, OneMoves, Becomes
  <2>5. \A m \in DOMAIN jobs' :
          /\ m \in DOMAIN jobs
          /\ jobs'[m].payload = jobs[m].payload /\ jobs'[m].policy = jobs[m].policy
    BY <1>5, <1>8 DEF OneMoves, Becomes, Kin, Follows
  <2>6. \A m \in DOMAIN jobs' : m # i =>
          jobs'[m].token \in {jobs[m].token, None} /\ NotRaised(jobs, jobs', m)
    BY <1>5, <1>8 DEF OneMoves, Follows, NotRaised
  <2>7. QED BY <1>4, <2>1, <2>2, <2>3, <2>4, <2>5, <2>6
<1>9. QED BY <1>6, <1>7, <1>8

\* What the winner of a claim remembers of it.
Taken(w, i) ==
    held' = [held EXCEPT ![w] = [job |-> i, token |-> lastToken',
                                 payload |-> jobs'[i].payload, cleared |-> jobs'[i].cleared]]

LEMMA WonKeeps ==
    ASSUME WInv, NEW w \in Workers, NEW i, Claim(i, LeaseTime), lastToken' # lastToken,
           Taken(w, i), Goto(w, "gate"), DOMAIN inbox' = DOMAIN inbox,
           stopping' \in [Workers -> BOOLEAN], UNCHANGED <<aborted, verdict>>,
           UNCHANGED <<writeTurns, approved>>
    PROVE  Keeps
<1>1. /\ Inv' /\ lastJob' = lastJob /\ lastToken' = lastToken + 1 /\ lastToken \in Nat
      /\ i \in DOMAIN jobs /\ i \in DOMAIN jobs'
      /\ jobs'[i].token = lastToken' /\ jobs'[i].state = "claimed"
      /\ jobs[i].state = "queued" \/ jobs[i].policy # "park"
      /\ ClearsNone(jobs, jobs')
      /\ \A m \in DOMAIN jobs' :
           /\ m \in DOMAIN jobs
           /\ jobs'[m].payload = jobs[m].payload /\ jobs'[m].policy = jobs[m].policy
           /\ m # i => /\ jobs'[m].token \in {jobs[m].token, None}
                       /\ NotRaised(jobs, jobs', m)
  BY ClaimGranted, WorkerTimesAssumption DEF WInv, Inv
<1>2. i \in JobIds /\ i <= lastJob /\ lastJob \in Nat
  BY <1>1, BoundsAssumption DEF WInv, Inv, StoreInv, JobsKnown, JobIds
<1>3. JobsKnown'
  <2>1. \A m \in DOMAIN jobs' : jobs[m].token # None => jobs[m].token \in Nat
    BY <1>1 DEF WInv, Inv, StoreInv, JobInv, Job, Opt
  <2>2. \A m \in DOMAIN jobs' : jobs'[m].token # None => jobs'[m].token \in 1..lastToken'
    BY <1>1, <2>1 DEF WInv, JobsKnown
  <2>3. \A m \in DOMAIN jobs' :
          /\ jobs'[m].cleared => m \in approved
          /\ jobs'[m].payload \in WritePayloads => jobs'[m].policy = "park"
          /\ jobs'[m].payload \notin WritePayloads => writeTurns[m] = 0
    BY <1>1 DEF WInv, JobsKnown, ClearsNone
  <2>4. QED BY <1>1, <2>2, <2>3 DEF WInv, JobsKnown
<1>4. WorkersShape'
  BY DEF WInv, WorkersShape, Goto, Taken, Steps
<1>5. /\ pc'[w] = "gate"
      /\ held'[w] = [job |-> i, token |-> lastToken',
                     payload |-> jobs'[i].payload, cleared |-> jobs'[i].cleared]
      /\ \A v \in Workers : v # w => pc'[v] = pc[v] /\ held'[v] = held[v]
  BY DEF WInv, WorkersShape, Goto, Taken
<1>6. HeldKnown(w)'
  <2>1. jobs'[i].payload \in Payloads /\ jobs'[i].cleared \in BOOLEAN
    BY <1>1 DEF Inv, StoreInv, JobInv, Job
  <2>2. held'[w] \in Claims
    BY <1>1, <1>2, <1>5, <2>1 DEF Claims
  <2>3. /\ JobOf(w)' = i /\ TokenOf(w)' = lastToken' /\ PayloadOf(w)' = jobs'[i].payload
        /\ held'[w].cleared = jobs'[i].cleared
    BY <1>5 DEF JobOf, TokenOf, PayloadOf
  <2>4. jobs'[i].cleared => i \in approved'
    BY <1>1, <1>3 DEF JobsKnown
  <2>5. JobOf(w)' <= lastJob' /\ TokenOf(w)' \in 1..lastToken'
    BY <1>1, <1>2, <2>3
  <2>6. QED BY <1>5, <2>2, <2>3, <2>4, <2>5 DEF HeldKnown, InTurn
<1>7. ASSUME NEW v \in Workers, v # w, pc'[v] \in Busy PROVE HeldKnown(v)'
  <2>1. OnwardAt(v)
    BY <1>5, <1>7 DEF OnwardAt
  <2>2. PayloadsKept
    BY <1>1 DEF PayloadsKept
  <2>3. lastJob' \in Nat /\ lastToken' \in Nat /\ lastJob <= lastJob' /\ lastToken <= lastToken'
    BY <1>1, <1>2
  <2>4. QED BY <1>7, <2>1, <2>2, <2>3, HeldCarries
<1>8. ASSUME NEW v \in Workers, v # w, pc[v] \in Busy PROVE TokenOf(v) # lastToken'
  BY <1>1, <1>8 DEF WInv, HeldKnown
<1>9. ClaimsDiffer'
  BY <1>5, <1>8 DEF WInv, ClaimsDiffer, TokenOf
<1>10. ASSUME NEW m \in JobIds, Once(m) PROVE Once(m)'
  <2>1. CASE m # i
    <3>1. \A v \in Workers : pc'[v] \in {"gate", "beat"} /\ JobOf(v)' = m
            => pc[v] \in {"gate", "beat"} /\ held'[v] = held[v]
      BY <1>5, <2>1 DEF JobOf
    <3>2. QED BY <1>1, <1>10, <2>1, <3>1, OnceCarries
  <2>2. CASE m = i
    <3>1. writeTurns[i] = 0
      BY <1>1, <1>10, <2>2 DEF Once, AboutToRun, WInv, JobsKnown
    <3>2. QED BY <2>2, <3>1 DEF Once
  <2>3. QED BY <2>1, <2>2
<1>11. QED BY <1>1, <1>3, <1>4, <1>6, <1>7, <1>9, <1>10 DEF WInv, Keeps

LEMMA ClaimNextKeeps ==
    ASSUME WInv, NEW w \in Workers, ClaimNext(w)
    PROVE  Keeps
<1> DEFINE i == Min(inbox[w])
<1>1. /\ pc[w] = "claim" /\ Claim(i, LeaseTime) /\ DOMAIN inbox' = DOMAIN inbox
      /\ stopping' \in [Workers -> BOOLEAN]
      /\ UNCHANGED <<aborted, verdict, stopping, writeTurns, approved>>
  BY DEF ClaimNext, WInv, WorkersShape
<1>2. CASE lastToken' # lastToken
  <2>1. Taken(w, i) /\ Goto(w, "gate")
    BY <1>2 DEF ClaimNext, Taken
  <2>2. QED BY <1>1, <1>2, <2>1, WonKeeps
<1>3. CASE lastToken' = lastToken
  <2>1. Inv' /\ Calm({})
    BY <1>1, <1>3, ClaimGranted, WorkerTimesAssumption DEF WInv
  <2>2. held' = held /\ \E l \in {"idle", "claim"} : Goto(w, l)
    BY <1>3 DEF ClaimNext
  <2>3. Onward
    BY <1>1, <2>2, GotoOnward DEF Steps, Busy, InTurn, WInv, WorkersShape
  <2>4. QED BY <1>1, <2>1, <2>3, QuietStep
<1>4. QED BY <1>2, <1>3

\* The turn begins: no other turn of the job has run, and no other worker is
\* about to begin one under a claim that is in force.
LEMMA BeginTurnKeeps ==
    ASSUME WInv, NEW w \in Workers, BeginTurn(w)
    PROVE  Keeps
<1>0. pc[w] = "beat"
  BY DEF BeginTurn
<1> PICK i \in JobIds, k \in Nat : i = JobOf(w) /\ k = TokenOf(w)
  BY <1>0, HeldClaim DEF Busy
<1>1. pc[w] = "beat" /\ Heartbeat(i, k, LeaseTime)
  BY DEF BeginTurn
<1>2. Inv' /\ Calm({})
  BY <1>1, HeartbeatCalm, WorkerTimesAssumption DEF WInv
<1>3. HeldKnown(w) /\ i \in JobIds /\ k \in Nat
  BY <1>1, HeldClaim DEF Busy
<1>4. CASE ~StillOurs(w)
  BY <1>2, <1>4, ReturnOnward, QuietStep DEF BeginTurn, Return
<1>5. CASE StillOurs(w)
  <2>1. TurnStarts(w)
    BY <1>5 DEF BeginTurn
  <2>2. UNCHANGED <<held, inbox, verdict, stopping, approved>> /\ Goto(w, "turn")
    BY <2>1 DEF TurnStarts
  <2>3. Onward
    <3>1. aborted' \in [Workers -> BOOLEAN]
      BY <2>1 DEF TurnStarts, WInv, WorkersShape
    <3>2. QED BY <1>1, <2>2, <3>1, GotoOnward DEF Steps, Busy, InTurn, WInv, WorkersShape
  <2>4. CASE PayloadOf(w) \notin WritePayloads
    BY <1>2, <2>1, <2>3, <2>4, QuietStep DEF TurnStarts
  <2>5. CASE PayloadOf(w) \in WritePayloads
    <3>1. writeTurns' = [writeTurns EXCEPT ![i] = @ + 1] /\ writeTurns \in [JobIds -> Nat]
      BY <2>1, <2>5 DEF TurnStarts, WInv, JobsKnown
    <3>2. /\ writeTurns' \in [JobIds -> Nat]
          /\ \A m \in JobIds : m # i => writeTurns'[m] = writeTurns[m]
      BY <1>3, <3>1
    <3>3. i \in DOMAIN jobs' /\ jobs'[i].token = k /\ jobs'[i].state \in InFlight
      BY <1>5 DEF StillOurs, Owns, Found
    <3>4. i \in DOMAIN jobs /\ jobs[i].token = k
      BY <1>2, <1>3, <3>3, NoneAssumption DEF Calm, Follows
    <3>5. Owns(jobs, i, k)
      BY <1>3, <3>4, NoneAssumption
      DEF WInv, Inv, StoreInv, JobInv, JobConsistent, ClaimInForce, Owns, Found
    <3>6. WInv'
      <4>1. /\ Follows(jobs, jobs') /\ UNCHANGED <<lastJob, lastToken>>
            /\ \A m \in DOMAIN jobs' : jobs'[m].cleared => jobs[m].cleared
        BY <1>2 DEF Calm, ClearsNone
      <4>2. jobs[i].payload \in WritePayloads
        BY <1>3, <2>5, <3>4 DEF HeldKnown
      <4>3. \A m \in DOMAIN jobs : m \in JobIds
        BY BoundsAssumption DEF WInv, Inv, StoreInv, JobsKnown, JobIds
      <4>4. \A m \in DOMAIN jobs : jobs[m].payload \notin WritePayloads => writeTurns'[m] = 0
        BY <3>2, <4>2, <4>3 DEF WInv, JobsKnown
      <4>5. i <= lastJob /\ lastJob \in Nat
        BY <1>3 DEF HeldKnown, WInv, Inv
      <4>6. \A m \in JobIds : m > lastJob => writeTurns'[m] = 0
        BY <3>2, <4>5 DEF WInv, JobsKnown, JobIds
      <4>7. approved \subseteq JobIds
        BY DEF WInv, JobsKnown
      <4>8. QED BY <1>2, <2>2, <2>3, <3>2, <4>1, <4>4, <4>6, <4>7, StoreStep
    <3>7. ASSUME Once(i) PROVE Once(i)'
      <4>1. writeTurns'[i] = 1
        <5>1. writeTurns[i] = 0
          BY <1>1, <3>5, <3>7 DEF Once, AboutToRun
        <5>2. QED BY <1>3, <3>1, <5>1
      <4>2. ~AboutToRun(i)'
        <5>1. jobs'[i].state # "queued" /\ jobs'[i].state # "needs_review"
          BY <3>3 DEF InFlight
        <5>2. ASSUME NEW v \in Workers, pc'[v] \in {"gate", "beat"}, Owns(jobs', i, TokenOf(v)')
              PROVE  FALSE
          <6>1. v # w
            BY <2>2, <5>2 DEF Goto, WInv, WorkersShape
          <6>2. pc'[w] \in Busy /\ pc'[v] \in Busy
            BY <2>2, <5>2 DEF Goto, WInv, WorkersShape, Busy
          <6>3. TokenOf(v)' # TokenOf(w)'
            BY <3>6, <6>1, <6>2 DEF WInv, ClaimsDiffer
          <6>4. TokenOf(w)' = k
            BY <2>2 DEF TokenOf
          <6>5. QED BY <3>3, <5>2, <6>3, <6>4 DEF Owns
        <5>3. QED BY <5>1, <5>2 DEF AboutToRun
      <4>3. QED BY <4>1, <4>2 DEF Once
    <3>8. ASSUME NEW m \in JobIds, m # i, Once(m) PROVE Once(m)'
      <4>1. m \in DOMAIN jobs' =>
              /\ m \in DOMAIN jobs /\ jobs'[m].token \in {jobs[m].token, None}
              /\ NotRaised(jobs, jobs', m)
        BY <1>2 DEF Calm, Follows
      <4>2. QED BY <1>2, <2>3, <3>2, <3>8, <4>1, NobodyNew, OnceCarries
    <3>9. QED BY <3>6, <3>7, <3>8 DEF Keeps
  <2>6. QED BY <2>4, <2>5
<1>6. QED BY <1>4, <1>5

LEMMA InStoreKeeps ==
    ASSUME WInv, NEW w \in Workers, InStore(w)
    PROVE  Keeps
BY DrainKeeps, ClaimNextKeeps, RefuseKeeps, HoldForReviewKeeps, StartKeeps,
   BeginTurnKeeps, TickCheckKeeps, TickRenewKeeps, DecideKeeps, SettleKeeps DEF InStore

-----------------------------------------------------------------------------
(* Clients, operators and time.                                            *)

LEMMA OthersOnward ==
    ASSUME WInv, UNCHANGED workerVars
    PROVE  Onward
BY StandOnward DEF workerVars, WInv, WorkersShape

LEMMA ClientEnqueueKeeps ==
    ASSUME WInv, NEW r \in RequestIds, NEW p \in Payloads, NEW ttl \in Ttls,
           Enqueue(r, Agent, p, IF p \in WritePayloads THEN "park" ELSE "requeue", ttl),
           UNCHANGED <<workerVars, writeTurns, approved>>
    PROVE  Keeps
<1> DEFINE pol == IF p \in WritePayloads THEN "park" ELSE "requeue"
           n == lastJob + 1
<1>1. PICK t \in Readings :
        LET S == Sweep(jobs, t) IN
        /\ HasRequest(S, r) \/ lastJob < MaxJobId
        /\ jobs' = EnqueueIn(S, n, r, Agent, p, pol, ttl, t)
        /\ lastJob' = IF HasRequest(S, r) THEN lastJob ELSE n
        /\ UNCHANGED <<agents, now, lastToken>>
  BY DEF Enqueue
<1> DEFINE U == Sweep(jobs, t)
<1>2. t \in Nat /\ StoreInv(U, lastJob)
  BY SweptStoreInv DEF WInv
<1>3. /\ ttl \in Opt(Nat) /\ Agent \in Opt(Agents) /\ pol \in Policies
      /\ lastJob \in Nat /\ lastToken \in Nat
  BY TtlAssumption, AgentAssumption DEF WInv, Inv, Opt, Policies
<1>4. Inv'
  <2>1. /\ HasRequest(U, r) => StoreInv(jobs', lastJob)
        /\ StoreInv(jobs', lastJob + 1)
    BY <1>1, <1>2, <1>3, EnqueueInv
  <2>2. StoreInv(jobs', lastJob') /\ lastJob' \in Nat
    BY <1>1, <1>3, <2>1
  <2>3. QED BY <1>1, <2>2 DEF Inv, AgentsInv, StoreInv, WInv
<1>5. Onward
  BY OthersOnward
<1>6. /\ Follows(jobs, U) /\ ClearsNone(jobs, U)
      /\ \A m \in DOMAIN U : NotRaised(jobs, U, m)
  BY <1>2, SweepFollows DEF Inv, WInv
<1>7. CASE HasRequest(U, r)
  <2>1. jobs' = U /\ UNCHANGED <<lastJob, lastToken>>
    BY <1>1, <1>7 DEF EnqueueIn
  <2>2. Calm({})
    BY <1>6, <2>1 DEF Calm
  <2>3. QED BY <1>4, <1>5, <2>2, QuietStep
<1>8. CASE ~HasRequest(U, r)
  <2>1. /\ jobs' = [i \in DOMAIN U \cup {n} |->
                      IF i = n THEN NewJob(r, Agent, p, pol, ttl, t) ELSE U[i]]
        /\ lastJob' = n /\ lastToken' = lastToken /\ lastJob < MaxJobId
    BY <1>1, <1>8 DEF EnqueueIn
  <2>2. n \notin DOMAIN U /\ DOMAIN U \subseteq 1..lastJob
    BY <1>2, <1>3 DEF StoreInv
  <2>3. /\ jobs'[n].token = None /\ jobs'[n].payload = p /\ jobs'[n].policy = pol
        /\ ~jobs'[n].cleared /\ n \in DOMAIN jobs'
    BY <2>1 DEF NewJob
  <2>4. \A m \in DOMAIN jobs' : m # n =>
          /\ m \in DOMAIN jobs /\ m \in DOMAIN U /\ jobs'[m] = U[m]
          /\ jobs'[m].payload = jobs[m].payload /\ jobs'[m].policy = jobs[m].policy
          /\ jobs'[m].token \in {jobs[m].token, None}
          /\ (jobs'[m].cleared => jobs[m].cleared)
          /\ NotRaised(jobs, jobs', m)
    BY <1>6, <2>1 DEF Follows, ClearsNone, NotRaised
  <2>5. n \in JobIds /\ writeTurns[n] = 0
    BY <1>3, <2>1, BoundsAssumption DEF JobIds, WInv, JobsKnown
  <2>6. JobsKnown'
    <3>1. \A m \in DOMAIN jobs' :
            /\ jobs'[m].token # None => jobs'[m].token \in 1..lastToken'
            /\ jobs'[m].cleared => m \in approved
            /\ jobs'[m].payload \in WritePayloads => jobs'[m].policy = "park"
            /\ jobs'[m].payload \notin WritePayloads => writeTurns[m] = 0
      <4> TAKE m \in DOMAIN jobs'
      <4>1. CASE m = n
        <5>1. jobs'[m].payload \in WritePayloads => jobs'[m].policy = "park"
          BY <2>3, <4>1
        <5>2. jobs'[m].token = None /\ writeTurns[m] = 0
          BY <2>3, <2>5, <4>1
        <5>3. ~jobs'[m].cleared
          BY <2>3, <4>1, Zenon
        <5>4. QED BY <5>1, <5>2, <5>3
      <4>2. CASE m # n
        <5>1. /\ m \in DOMAIN jobs
              /\ jobs'[m].payload = jobs[m].payload /\ jobs'[m].policy = jobs[m].policy
              /\ jobs'[m].token \in {jobs[m].token, None}
          BY <2>4, <4>2
        <5>2. jobs'[m].cleared => jobs[m].cleared
          BY <2>4, <4>2, Zenon
        <5>3. /\ jobs[m].token # None => jobs[m].token \in 1..lastToken
              /\ jobs[m].payload \in WritePayloads => jobs[m].policy = "park"
              /\ jobs[m].payload \notin WritePayloads => writeTurns[m] = 0
          BY <5>1 DEF WInv, JobsKnown
        <5>4. jobs[m].cleared => m \in approved
          BY <5>1 DEF WInv, JobsKnown
        <5>5. lastToken' = lastToken
          BY <2>1
        <5>6. jobs'[m].cleared => m \in approved
          BY <5>2, <5>4, Zenon
        <5>7. jobs'[m].token # None => jobs'[m].token \in 1..lastToken'
          BY <5>1, <5>3, <5>5
        <5>8. QED BY <5>1, <5>3, <5>6, <5>7
      <4>3. QED BY <4>1, <4>2
    <3>2. \A m \in JobIds : m > lastJob' => writeTurns[m] = 0
      BY <1>3, <2>1 DEF WInv, JobsKnown, JobIds
    <3>3. lastJob' <= MaxJobId
      BY <1>3, <2>1, BoundsAssumption
    <3>4. QED BY <3>1, <3>2, <3>3 DEF WInv, JobsKnown
  <2>7. PayloadsKept
    BY <1>3, <2>4 DEF PayloadsKept
  <2>8. \A v \in Workers : pc'[v] \in Busy => HeldKnown(v)'
    <3>1. lastJob' \in Nat /\ lastToken' \in Nat /\ lastJob <= lastJob' /\ lastToken <= lastToken'
      BY <1>3, <2>1
    <3>2. QED BY <1>5, <2>7, <3>1, HeldCarries DEF Onward
  <2>9. ClaimsDiffer'
    BY <1>5, ClaimsCarry
  <2>10. ASSUME NEW m \in JobIds, Once(m) PROVE Once(m)'
    <3>1. CASE m # n
      <4>1. writeTurns' = writeTurns
        OBVIOUS
      <4>2. m \in DOMAIN jobs' =>
              /\ m \in DOMAIN jobs /\ jobs'[m].token \in {jobs[m].token, None}
              /\ NotRaised(jobs, jobs', m)
        BY <2>4, <3>1
      <4>3. QED BY <1>4, <1>5, <2>10, <4>1, <4>2, OnceCarries, NobodyNew
    <3>2. CASE m = n
      BY <2>5, <3>2 DEF Once
    <3>3. QED BY <3>1, <3>2
  <2>11. QED BY <1>4, <1>5, <2>6, <2>8, <2>9, <2>10 DEF WInv, Keeps, Onward
<1>9. QED BY <1>7, <1>8

LEMMA ClientCancelKeeps ==
    ASSUME WInv, NEW i \in JobIds, ClientCancel(i)
    PROVE  Keeps
<1>1. Inv' /\ Calm({})
  BY CancelCalm DEF ClientCancel, WInv
<1>2. Onward
  BY OthersOnward DEF ClientCancel
<1>3. QED BY <1>1, <1>2, QuietStep DEF ClientCancel

\* The operator's recover starts the count again, whenever it brings the job back.
LEMMA OperatorRecoverKeeps ==
    ASSUME WInv, NEW i \in JobIds, OperatorRecover(i)
    PROVE  Keeps
<1>1. /\ Inv' /\ Calm({i})
      /\ i \in DOMAIN jobs' => NotRaised(jobs, jobs', i) \/ jobs'[i].state = "queued"
  BY RecoverCalm DEF OperatorRecover, WInv
<1>2. Onward
  BY OthersOnward DEF OperatorRecover
<1>3. writeTurns \in [JobIds -> Nat] /\ approved \subseteq JobIds
  BY DEF WInv, JobsKnown
<1>4. /\ writeTurns' \in [JobIds -> Nat]
      /\ \A m \in JobIds : writeTurns'[m] = writeTurns[m] \/ (m = i /\ writeTurns'[m] = 0)
      /\ CanClaim(jobs', i) /\ ~CanClaim(jobs, i) => writeTurns'[i] = 0
      /\ ~(CanClaim(jobs', i) /\ ~CanClaim(jobs, i)) => writeTurns' = writeTurns
  BY <1>3 DEF OperatorRecover
<1>5. WInv'
  <2>1. \A m \in DOMAIN jobs : m \in JobIds
    BY BoundsAssumption DEF WInv, Inv, StoreInv, JobsKnown, JobIds
  <2>2. /\ \A m \in DOMAIN jobs : jobs[m].payload \notin WritePayloads => writeTurns'[m] = 0
        /\ \A m \in JobIds : m > lastJob => writeTurns'[m] = 0
    BY <1>4, <2>1 DEF WInv, JobsKnown
  <2>3. approved' = approved
    BY DEF OperatorRecover
  <2>4. /\ Follows(jobs, jobs') /\ UNCHANGED <<lastJob, lastToken>>
        /\ \A m \in DOMAIN jobs' : jobs'[m].cleared => jobs[m].cleared
    BY <1>1 DEF Calm, ClearsNone
  <2>5. QED BY <1>1, <1>2, <1>3, <1>4, <2>2, <2>3, <2>4, StoreStep
<1>6. ASSUME NEW m \in JobIds, Once(m) PROVE Once(m)'
  <2>1. CASE writeTurns'[m] = writeTurns[m] /\ (m \in DOMAIN jobs' => NotRaised(jobs, jobs', m))
    BY <1>1, <1>2, <1>6, <2>1, OnceCarries, NobodyNew DEF Calm, Follows
  <2>2. CASE writeTurns'[m] = 0
    BY <2>2 DEF Once
  <2>3. CASE m = i /\ m \in DOMAIN jobs' /\ ~NotRaised(jobs, jobs', m) /\ writeTurns'[m] # 0
    <3>1. jobs'[i].state = "queued" /\ CanClaim(jobs', i)
      BY <1>1, <2>3 DEF CanClaim, Found
    <3>2. CanClaim(jobs, i)
      BY <1>4, <2>3, <3>1
    <3>3. NotRaised(jobs, jobs', m)
      BY <2>3, <3>1, <3>2 DEF NotRaised, CanClaim
    <3>4. QED BY <2>3, <3>3
  <2>4. m # i /\ m \in DOMAIN jobs' => NotRaised(jobs, jobs', m)
    BY <1>1 DEF Calm
  <2>5. QED BY <1>4, <2>1, <2>2, <2>3, <2>4
<1>7. QED BY <1>5, <1>6 DEF Keeps

\* Approval brings back only a job that was parked before its turn.
LEMMA OperatorResolveKeeps ==
    ASSUME WInv, NEW i \in JobIds, NEW approve \in BOOLEAN, OperatorResolve(i, approve)
    PROVE  Keeps
<1>1. /\ Inv' /\ Follows(jobs, jobs') /\ UNCHANGED <<lastJob, lastToken>>
      /\ \A m \in DOMAIN jobs' : m # i \/ ~(approve /\ CanResolve(jobs, i))
           => (jobs'[m].cleared => jobs[m].cleared)
      /\ \A m \in DOMAIN jobs' :
           \/ NotRaised(jobs, jobs', m)
           \/ jobs[m].state = "needs_review" /\ jobs[m].reviewKind = "predeclared"
  BY ResolveCalm DEF OperatorResolve, WInv
<1>2. Onward
  BY OthersOnward DEF OperatorResolve
<1>3. writeTurns' = writeTurns
  BY DEF OperatorResolve
<1>4. WInv'
  <2>1. approved \subseteq approved' /\ approved' \subseteq JobIds
    BY DEF OperatorResolve, WInv, JobsKnown
  <2>2. approve /\ CanResolve(jobs, i) => i \in approved'
    BY DEF OperatorResolve
  <2>3. \A m \in DOMAIN jobs' : jobs'[m].cleared => jobs[m].cleared \/ m \in approved'
    BY <1>1, <2>2
  <2>4. /\ writeTurns' \in [JobIds -> Nat]
        /\ \A m \in DOMAIN jobs : jobs[m].payload \notin WritePayloads => writeTurns'[m] = 0
        /\ \A m \in JobIds : m > lastJob => writeTurns'[m] = 0
    BY <1>3 DEF WInv, JobsKnown
  <2>5. QED BY <1>1, <1>2, <2>1, <2>3, <2>4, StoreStep
<1>5. ASSUME NEW m \in JobIds, Once(m) PROVE Once(m)'
  <2>1. m \in DOMAIN jobs' => NotRaised(jobs, jobs', m) \/ writeTurns[m] = 0
    BY <1>1, <1>5 DEF Once, AboutToRun, Follows
  <2>2. QED BY <1>1, <1>2, <1>3, <1>5, <2>1, OnceCarries, NobodyNew DEF Follows
<1>6. QED BY <1>4, <1>5 DEF Keeps

LEMMA PollKeeps ==
    ASSUME WInv, Read, UNCHANGED <<workerVars, writeTurns, approved>>
    PROVE  Keeps
BY ReadCalm, OthersOnward, QuietStep DEF WInv

LEMMA QuietKeeps ==
    ASSUME WInv, UNCHANGED <<jobs, agents, lastJob, lastToken>>, now' \in Nat,
           UNCHANGED <<workerVars, writeTurns, approved>>
    PROVE  Keeps
BY QuietStoreCalm, OthersOnward, QuietStep

LEMMA TimeKeeps == ASSUME WInv, TimePasses PROVE Keeps
BY QuietKeeps DEF TimePasses, Tick, WInv, Inv

LEMMA OthersKeep == ASSUME WInv, Others PROVE Keeps
<1>1. CASE \E r \in RequestIds, p \in Payloads : ClientEnqueue(r, p)
  BY <1>1, ClientEnqueueKeeps DEF ClientEnqueue
<1>2. QED BY <1>1, ClientCancelKeeps, OperatorRecoverKeeps, OperatorResolveKeeps DEF Others

LEMMA WInitInv == WInit => OnceInv
<1> SUFFICES ASSUME WInit PROVE OnceInv
  OBVIOUS
<1>1. Inv /\ DOMAIN jobs = {}
  BY InitInv DEF WInit, Init
<1>2. WorkersShape /\ \A w \in Workers : pc[w] = "idle"
  BY DEF WInit, WorkersShape, Steps
<1>3. JobsKnown
  BY <1>1, BoundsAssumption DEF WInit, Init, JobsKnown
<1>4. WInv
  BY <1>1, <1>2, <1>3 DEF WInv, Busy, ClaimsDiffer
<1>5. \A i \in JobIds : Once(i)
  BY <1>1, <1>2 DEF WInit, Once, AboutToRun
<1>6. QED BY <1>4, <1>5 DEF OnceInv

\* Every step of RelayWorker, from any state of the invariant.
LEMMA WNextKeeps == ASSUME WInv, [WNext]_wvars PROVE Keeps
<1>1. CASE UNCHANGED wvars
  BY <1>1, QuietKeeps DEF wvars, vars, WInv, Inv
<1>2. CASE \E w \in Workers : InStore(w) \/ TurnEnds(w) \/ Stop(w) \/ Leave(w) \/ Crash(w)
  BY <1>2, InStoreKeeps, EndTurnKeeps, StopKeeps, LeaveKeeps, CrashKeeps DEF TurnEnds
<1>3. CASE Others
  BY <1>3, OthersKeep
<1>4. CASE Poll
  BY <1>4, PollKeeps DEF Poll
<1>5. CASE TimePasses
  BY <1>5, TimeKeeps
<1>6. QED BY <1>1, <1>2, <1>3, <1>4, <1>5 DEF WNext

\* The inductive invariant holds in every reachable state of the workers.
THEOREM WInvariance == WSpec => []OnceInv
<1>1. OnceInv /\ [WNext]_wvars => OnceInv'
  BY WNextKeeps DEF OnceInv, Keeps
<1>2. QED BY <1>1, WInitInv, PTL DEF WSpec

-----------------------------------------------------------------------------
(* What follows for workers.                                               *)

\* A write job is never run again on its own: with any number of workers, jobs
\* and claims, and whatever expires, crashes, stops or is stolen in between, at
\* most one turn of it starts between two decisions of an operator.
THEOREM WritesRunOnce == WSpec => []WriteRunsOncePerDecision
<1>1. OnceInv => WriteRunsOncePerDecision
  BY DEF OnceInv, Once, WriteRunsOncePerDecision
<1>2. QED BY <1>1, WInvariance, PTL

LEMMA HeldReviewed == ASSUME WInv PROVE ReviewBeforeTurn
BY DEF WInv, HeldKnown, ReviewBeforeTurn, InTurn, Busy

\* No turn of a job that requires review starts or runs before an operator
\* approved the job, on whichever claim and by whichever worker.
THEOREM ReviewsComeFirst == WSpec => []ReviewBeforeTurn
<1>1. OnceInv => ReviewBeforeTurn
  BY HeldReviewed DEF OnceInv
<1>2. QED BY <1>1, WInvariance, PTL

\* A turn that begins does so on a job its worker owns, with the lease its
\* immediate heartbeat has just written.
LEMMA TurnBegins ==
    ASSUME WInv, NEW w \in Workers, BeginTurn(w), StillOurs(w)
    PROVE  /\ Owns(jobs', JobOf(w), TokenOf(w))
           /\ jobs'[JobOf(w)].lease >= now + LeaseTime - LockWait
<1>0. pc[w] = "beat"
  BY DEF BeginTurn
<1> PICK i \in JobIds, k \in Nat : i = JobOf(w) /\ k = TokenOf(w)
  BY <1>0, HeldClaim DEF Busy
<1>1. PICK t \in Readings : jobs' = HeartbeatIn(Sweep(jobs, t), i, k, LeaseTime, t)
  BY DEF BeginTurn, Heartbeat
<1>2. StoreInv(Sweep(jobs, t), lastJob)
  BY SweptStoreInv DEF WInv
<1>3. Owns(jobs', i, k)
  BY DEF StillOurs
<1>4. jobs'[i].lease = LeaseUntil(t, LeaseTime)
  BY <1>1, <1>2, <1>3, HeartbeatMoves
<1>5. /\ LeaseTime \in Nat /\ LeaseTime # None
      /\ t \in Nat /\ now \in Nat /\ now - t <= LockWait
  BY WorkerTimesAssumption, LeaseAssumption DEF WInv, Inv, Opt, Readings
<1>6. t + LeaseTime >= now + LeaseTime - LockWait
  BY <1>5, LockWaitAssumption
<1>7. QED BY <1>3, <1>4, <1>5, <1>6 DEF LeaseUntil

\* No other step of a worker brings it into a turn, and no step of one worker
\* brings another into one.
LEMMA TurnsBeginOnly ==
    ASSUME WInv, NEW w \in Workers,
           InStore(w) \/ TurnEnds(w) \/ Stop(w) \/ Leave(w) \/ Crash(w),
           NEW v \in Workers, pc[v] \notin InTurn, pc'[v] \in InTurn
    PROVE  v = w /\ BeginTurn(w) /\ StillOurs(w)
<1>0. DOMAIN pc = Workers
  BY DEF WInv, WorkersShape
<1>1. CASE BeginTurn(w)
  BY <1>0, <1>1 DEF BeginTurn, TurnStarts, Return, Goto, InTurn
<1>2. CASE Drain(w) \/ ClaimNext(w) \/ Refuse(w) \/ HoldForReview(w) \/ Start(w)
  BY <1>0, <1>2 DEF Drain, ClaimNext, Refuse, HoldForReview, Start, Return, Goto, InTurn
<1>3. CASE TickCheck(w) \/ TickRenew(w) \/ Decide(w) \/ Settle(w)
  BY <1>0, <1>3 DEF TickCheck, TickRenew, Decide, Settle, Return, Goto, InTurn
<1>4. CASE TurnEnds(w) \/ Stop(w) \/ Leave(w) \/ Crash(w)
  BY <1>0, <1>4 DEF TurnEnds, EndTurn, Stop, Leave, Crash, Goto, InTurn
<1>5. QED BY <1>1, <1>2, <1>3, <1>4 DEF InStore

LEMMA OthersLeaveWorkers ==
    ASSUME Others \/ Poll \/ TimePasses
    PROVE  UNCHANGED workerVars
BY DEF Others, ClientEnqueue, ClientCancel, OperatorRecover, OperatorResolve, Poll, TimePasses

\* A turn starts only in a transaction that finds the job still owned by the
\* worker's claim, and with a whole lease before it, whatever part of the claim's
\* lease has gone by and however long the transaction waited for the lock.
THEOREM TurnsAreOwned == WSpec => TurnsStartOwned
<1> DEFINE Owned(w) == /\ Owns(jobs', JobOf(w), TokenOf(w))
                       /\ jobs'[JobOf(w)].lease >= now + LeaseTime - LockWait
<1>1. ASSUME WInv, [WNext]_wvars, NEW v \in Workers, pc[v] \notin InTurn, pc'[v] \in InTurn
      PROVE  Owned(v)
  <2>1. CASE UNCHANGED workerVars
    BY <1>1, <2>1 DEF workerVars
  <2>2. CASE \E w \in Workers : InStore(w) \/ TurnEnds(w) \/ Stop(w) \/ Leave(w) \/ Crash(w)
    BY <1>1, <2>2, TurnsBeginOnly, TurnBegins
  <2>3. QED BY <1>1, <2>1, <2>2, OthersLeaveWorkers DEF WNext, wvars
<1>2. OnceInv /\ [WNext]_wvars =>
        [\A w \in Workers : pc[w] \notin InTurn /\ pc'[w] \in InTurn => Owned(w)]_wvars
  BY <1>1 DEF OnceInv
<1>3. QED BY <1>2, WInvariance, PTL DEF WSpec, TurnsStartOwned

-----------------------------------------------------------------------------
(* Results: what a call does to those that are stored.                     *)

\* What the calls do to results: every one in T was in S.
ResultsKept(S, T) ==
    \A m \in DOMAIN T : T[m].result # None => m \in DOMAIN S /\ T[m].result = S[m].result

LEMMA SweepKeepsResults ==
    ASSUME NEW S, NEW n, StoreInv(S, n), NEW t \in Nat
    PROVE  ResultsKept(S, Sweep(S, t))
<1> SUFFICES ASSUME NEW m \in DOMAIN Sweep(S, t)
             PROVE  m \in DOMAIN S /\ Sweep(S, t)[m].result = S[m].result
  BY DEF ResultsKept
<1>1. m \in DOMAIN S /\ S[m] \in Job /\ Sweep(S, t)[m] = SweptJob(S[m], t)
  BY SweepKeeps, SweepMoves DEF JobInv
<1> PICK j \in Job : j = S[m]
  BY <1>1
<1> DEFINE b == [j EXCEPT !.attempts = @ + 1]
<1>2. /\ Settled(j, "needs_recovery", TRUE, t).result = j.result
      /\ Settled(j, "expired", FALSE, t).result = j.result
      /\ Settled(b, "failed", TRUE, t).result = j.result
      /\ BackToQueue(b).result = j.result
  BY DEF Job, Settled, BackToQueue
<1>3. SweptJob(j, t).result = j.result
  BY <1>2 DEF SweptJob
<1>4. QED BY <1>1, <1>3

\* A call that leaves the result of the one job it moves alone, or clears it.
LEMMA PutKeepsResults ==
    ASSUME NEW S, NEW n, StoreInv(S, n), NEW i \in DOMAIN S, NEW j,
           j.result \in {S[i].result, None}
    PROVE  ResultsKept(S, Put(S, i, j))
BY PutMoves DEF ResultsKept, OneMoves

LEMMA OperationsKeepResults ==
    ASSUME NEW S, NEW n, StoreInv(S, n), NEW i, NEW k, NEW ms, NEW t
    PROVE  /\ ResultsKept(S, ClaimIn(S, i, k, ms, t)) /\ ResultsKept(S, StartIn(S, i, k))
           /\ ResultsKept(S, HeartbeatIn(S, i, k, ms, t)) /\ ResultsKept(S, ReleaseIn(S, i, k))
           /\ ResultsKept(S, FailIn(S, i, k, FALSE, t)) /\ ResultsKept(S, CancelIn(S, i, t))
           /\ ResultsKept(S, ParkIn(S, i, k, t)) /\ ResultsKept(S, RecoverIn(S, i))
           /\ ResultsKept(S, ReviewIn(S, i, k, "predeclared", t))
           /\ \A approve \in BOOLEAN : ResultsKept(S, ResolveIn(S, i, approve, t))
<1>1. ResultsKept(S, S)
  BY DEF ResultsKept
<1>2. CASE ~Found(S, i)
  BY <1>1, <1>2
     DEF ClaimIn, CanClaim, StartIn, CanStart, HeartbeatIn, ReleaseIn, FailIn, CancelIn,
         ParkIn, RecoverIn, CanRecover, ReviewIn, CanReview, ResolveIn, CanResolve, Owns
<1>3. CASE Found(S, i)
  <2> PICK j \in Job : j = S[i] /\ i \in DOMAIN S
    BY <1>3 DEF Found, StoreInv, JobInv
  <2> DEFINE Fine(c) == ResultsKept(S, Put(S, i, c))
  <2>1. ASSUME NEW c, c.result \in {j.result, None} PROVE Fine(c)
    BY <2>1, PutKeepsResults
  <2> HIDE DEF Fine
  <2>2. ResultsKept(S, ClaimIn(S, i, k, ms, t))
    <3> DEFINE c == [j EXCEPT !.state = "claimed", !.token = k, !.lease = LeaseUntil(t, ms),
                              !.lastClaim = k]
    <3>0. c.result = j.result
      BY DEF Job
    <3> HIDE DEF c
    <3>1. Fine(c)
      BY <2>1, <3>0
    <3>2. QED BY <1>1, <3>1 DEF c, ClaimIn, Fine
  <2>3. ResultsKept(S, StartIn(S, i, k)) /\ ResultsKept(S, HeartbeatIn(S, i, k, ms, t))
    <3> DEFINE c == [j EXCEPT !.state = "running"]
               d == [j EXCEPT !.lease = LeaseUntil(t, ms)]
    <3>0. c.result = j.result /\ d.result = j.result
      BY DEF Job
    <3> HIDE DEF c, d
    <3>1. Fine(c) /\ Fine(d)
      BY <2>1, <3>0
    <3>2. QED BY <1>1, <3>1 DEF StartIn, c, d, HeartbeatIn, Fine
  <2>4. ASSUME NEW st, NEW e PROVE Fine(Settled(j, st, e, t))
    <3>1. Settled(j, st, e, t).result = j.result
      BY DEF Job, Settled
    <3>2. QED BY <2>1, <3>1
  <2>5. Fine(BackToQueue(j)) /\ Fine(Requeued(j)) /\ Fine([Requeued(j) EXCEPT !.cleared = TRUE])
    <3> DEFINE c == [Requeued(j) EXCEPT !.cleared = TRUE]
    <3>1. BackToQueue(j).result = j.result /\ Requeued(j).result = j.result
          /\ c.result = j.result
      BY DEF Job, BackToQueue, Requeued
    <3> HIDE DEF c
    <3>2. Fine(BackToQueue(j)) /\ Fine(Requeued(j)) /\ Fine(c)
      BY <2>1, <3>1
    <3>3. QED BY <3>2 DEF c
  <2>6. ResultsKept(S, ReleaseIn(S, i, k)) /\ ResultsKept(S, RecoverIn(S, i))
    BY <1>1, <2>5 DEF ReleaseIn, RecoverIn, Fine
  <2>7. ResultsKept(S, FailIn(S, i, k, FALSE, t))
    <3> DEFINE c == Settled([j EXCEPT !.attempts = @ + 1], "failed", TRUE, t)
    <3>1. c.result = j.result
      BY DEF Job, Settled
    <3> HIDE DEF c
    <3>2. Fine(c)
      BY <2>1, <3>1
    <3>3. QED BY <1>1, <3>2 DEF c, FailIn, Fine
  <2>8. ResultsKept(S, CancelIn(S, i, t)) /\ ResultsKept(S, ParkIn(S, i, k, t))
    <3>1. Fine(Settled(j, "cancelled", FALSE, t)) /\ Fine(Settled(j, "needs_recovery", TRUE, t))
      BY <2>4
    <3>2. QED BY <1>1, <3>1 DEF CancelIn, ParkIn, Fine
  <2>9. ResultsKept(S, ReviewIn(S, i, k, "predeclared", t))
    <3> DEFINE c == [Settled(j, "needs_review", FALSE, t) EXCEPT
                       !.reviewKind = "predeclared", !.result = None]
    <3>0. c.result = None
      BY DEF Job, Settled
    <3> HIDE DEF c
    <3>1. Fine(c)
      BY <2>1, <3>0
    <3>2. QED BY <1>1, <3>1 DEF c, ReviewIn, Fine
  <2>10. \A approve \in BOOLEAN : ResultsKept(S, ResolveIn(S, i, approve, t))
    <3>1. Fine(Settled(j, "failed", TRUE, t)) /\ Fine(Settled(j, "completed", FALSE, t))
      BY <2>4
    <3>2. QED BY <1>1, <2>5, <3>1 DEF ResolveIn, Fine
  <2>11. QED BY <2>2, <2>3, <2>6, <2>7, <2>8, <2>9, <2>10
<1>4. QED BY <1>2, <1>3

LEMMA CallKeepsResults ==
    ASSUME Inv, NEW t \in Readings, ResultsKept(Sweep(jobs, t), jobs')
    PROVE  ResultsKept(jobs, jobs')
<1>1. ResultsKept(jobs, Sweep(jobs, t))
  BY ReadingsAreTimes, SweepKeepsResults DEF Inv
<1>2. QED BY <1>1 DEF ResultsKept

\* Claims in force after the step were so before it, but for a new one.
ClaimsFollow ==
    \A m \in DOMAIN jobs' : jobs'[m].token \in 1..lastToken
        => m \in DOMAIN jobs /\ jobs'[m].token = jobs[m].token

LEMMA FollowsClaims ==
    ASSUME Inv, Follows(jobs, jobs')
    PROVE  ClaimsFollow
BY NoneAssumption DEF ClaimsFollow, Follows, Inv

\* What a step does to claims and results, but for the settling call.
Quiet == ClaimsFollow /\ ResultsKept(jobs, jobs')

LEMMA EnqueueQuiet ==
    ASSUME Inv, NEW r, NEW to, NEW p, NEW pol, NEW ttl, Enqueue(r, to, p, pol, ttl)
    PROVE  Quiet
<1>1. PICK t \in Readings :
        jobs' = EnqueueIn(Sweep(jobs, t), lastJob + 1, r, to, p, pol, ttl, t)
  BY DEF Enqueue
<1> DEFINE U == Sweep(jobs, t)
<1>2. t \in Nat /\ StoreInv(jobs, lastJob)
  BY ReadingsAreTimes DEF Inv
<1>3. Follows(jobs, U) /\ ResultsKept(jobs, U)
  BY <1>2, SweepFollows, SweepKeepsResults
<1> HIDE DEF U
<1>4. CASE jobs' = U
  BY <1>3, <1>4, FollowsClaims DEF Quiet
<1>5. CASE jobs' = [i \in DOMAIN U \cup {lastJob + 1} |->
                      IF i = lastJob + 1 THEN NewJob(r, to, p, pol, ttl, t) ELSE U[i]]
  <2>1. ASSUME NEW m \in DOMAIN jobs', jobs'[m].token # None \/ jobs'[m].result # None
        PROVE  m \in DOMAIN U /\ jobs'[m] = U[m]
    BY <1>5, <2>1 DEF NewJob
  <2>2. ClaimsFollow
    BY <1>3, <2>1, NoneAssumption DEF ClaimsFollow, Follows, Inv
  <2>3. QED BY <1>3, <2>1, <2>2 DEF Quiet, ResultsKept
<1>6. QED BY <1>1, <1>4, <1>5 DEF EnqueueIn, U

LEMMA ClaimQuiet ==
    ASSUME Inv, NEW i, Claim(i, LeaseTime)
    PROVE  Quiet
<1>1. PICK t \in Readings : jobs' = ClaimIn(Sweep(jobs, t), i, lastToken + 1, LeaseTime, t)
  BY DEF Claim
<1>2. ResultsKept(jobs, jobs')
  BY <1>1, SweptStoreInv, OperationsKeepResults, CallKeepsResults
<1>3. ClaimsFollow
  <2>1. CASE lastToken' = lastToken
    BY <2>1, ClaimGranted, FollowsClaims, WorkerTimesAssumption DEF Calm
  <2>2. CASE lastToken' # lastToken
    <3>1. /\ lastToken' = lastToken + 1 /\ lastToken \in Nat
          /\ jobs'[i].token = lastToken'
          /\ \A m \in DOMAIN jobs' : m \in DOMAIN jobs
               /\ (m # i => jobs'[m].token \in {jobs[m].token, None})
      BY <2>2, ClaimGranted, WorkerTimesAssumption DEF Inv
    <3>2. QED BY <3>1, NoneAssumption DEF ClaimsFollow
  <2>3. QED BY <2>1, <2>2
<1>4. QED BY <1>2, <1>3 DEF Quiet

\* The other calls, but for those that store a result.
LEMMA CallsQuiet ==
    ASSUME Inv, NEW i, NEW k, NEW approve \in BOOLEAN,
           \/ Read \/ StartRunning(i, k) \/ Heartbeat(i, k, LeaseTime) \/ Release(i, k)
           \/ Fail(i, k, FALSE) \/ Cancel(i) \/ Park(i, k) \/ Recover(i)
           \/ k \in Nat /\ NeedsReview(i, k, "predeclared")
           \/ ResolveReview(i, approve)
    PROVE  Quiet
<1>1. Follows(jobs, jobs')
  BY ReadCalm, StartCalm, HeartbeatCalm, ReleaseCalm, FailCalm, CancelCalm, ParkCalm,
     RecoverCalm, ReviewCalm, ResolveCalm, WorkerTimesAssumption DEF Calm, ReviewKinds
<1>2. PICK t \in Readings :
        LET U == Sweep(jobs, t) IN
        \/ jobs' \in {U, StartIn(U, i, k), HeartbeatIn(U, i, k, LeaseTime, t),
                     ReleaseIn(U, i, k), FailIn(U, i, k, FALSE, t), CancelIn(U, i, t)}
        \/ jobs' \in {ParkIn(U, i, k, t), RecoverIn(U, i),
                     ReviewIn(U, i, k, "predeclared", t), ResolveIn(U, i, approve, t)}
  BY DEF Read, StartRunning, Heartbeat, Release, Fail, Cancel, Park, Recover, NeedsReview,
         ResolveReview
<1>3. ResultsKept(Sweep(jobs, t), jobs')
  <2>1. ResultsKept(Sweep(jobs, t), Sweep(jobs, t))
    BY DEF ResultsKept
  <2>2. QED BY <1>2, <2>1, SweptStoreInv, OperationsKeepResults
<1>4. QED BY <1>1, <1>3, FollowsClaims, CallKeepsResults DEF Quiet

-----------------------------------------------------------------------------
(* The turns of the workers.                                               *)

\* A worker in or after its turn got there from the turn: it keeps its claim and,
\* once the turn has ended, its verdict, and an abort is not taken back.
Carries(v) ==
    /\ held'[v] = held[v]
    /\ \/ pc[v] \in InTurn /\ pc'[v] \in InTurn
       \/ /\ pc'[v] \in {"decide", "settle"} /\ (aborted[v] => aborted'[v])
          /\ \/ pc[v] \in {"decide", "settle"} /\ verdict'[v] = verdict[v]
             \/ pc[v] = "turn" /\ pc'[v] = "decide"

LEMMA TurnsCarry ==
    ASSUME WInv, [WNext]_wvars, NEW v \in Workers,
           pc'[v] \in InTurn \cup {"decide", "settle"}
    PROVE  \/ Carries(v)
           \/ BeginTurn(v) /\ StillOurs(v) /\ pc[v] = "beat" /\ pc'[v] = "turn"
              /\ held'[v] = held[v]
<1>1. CASE UNCHANGED workerVars
  BY <1>1 DEF workerVars, Carries, InTurn
<1>2. CASE \E w \in Workers : InStore(w) \/ TurnEnds(w) \/ Stop(w) \/ Leave(w) \/ Crash(w)
  <2>1. PICK w \in Workers : InStore(w) \/ TurnEnds(w) \/ Stop(w) \/ Leave(w) \/ Crash(w)
    BY <1>2
  <2>2. /\ DOMAIN pc = Workers /\ DOMAIN held = Workers /\ DOMAIN verdict = Workers
        /\ DOMAIN aborted = Workers
    BY DEF WInv, WorkersShape
  <2>3. CASE Drain(w) \/ ClaimNext(w) \/ Refuse(w) \/ HoldForReview(w) \/ Start(w)
    BY <2>2, <2>3 DEF Drain, ClaimNext, Refuse, HoldForReview, Start, Return, Goto, InTurn,
                      Carries
  <2>4. CASE BeginTurn(w)
    BY <2>2, <2>4 DEF BeginTurn, TurnStarts, Return, Goto, InTurn, Carries
  <2>5. CASE TickCheck(w) \/ TickRenew(w)
    BY <2>2, <2>5 DEF TickCheck, TickRenew, Goto, InTurn, Carries
  <2>6. CASE TurnEnds(w)
    BY <2>2, <2>6 DEF TurnEnds, EndTurn, Goto, InTurn, Carries
  <2>7. CASE Decide(w) \/ Settle(w)
    BY <2>2, <2>7 DEF Decide, Settle, Return, Goto, InTurn, Carries
  <2>8. CASE Stop(w) \/ Leave(w) \/ Crash(w)
    BY <2>2, <2>8 DEF Stop, Leave, Crash, Goto, InTurn, Carries
  <2>9. QED BY <2>1, <2>3, <2>4, <2>5, <2>6, <2>7, <2>8 DEF InStore
<1>3. QED BY <1>1, <1>2, OthersLeaveWorkers DEF WNext, wvars

\* The settling call stores a result only for the worker that owns the job.
LEMMA SettleStores ==
    ASSUME WInv, NEW w \in Workers, Settle(w)
    PROVE  /\ ClaimsFollow
           /\ \/ ResultsKept(jobs, jobs')
              \/ /\ Owns(jobs, JobOf(w), TokenOf(w)) /\ jobs'[JobOf(w)].result = TokenOf(w)
                 /\ ~aborted[w] /\ verdict[w] \in {"ok", "flagged"}
                 /\ \A m \in DOMAIN jobs' \ {JobOf(w)} : jobs'[m].result # None
                      => m \in DOMAIN jobs /\ jobs'[m].result = jobs[m].result
<1>0. pc[w] = "settle"
  BY DEF Settle
<1> PICK i \in JobIds, k \in Nat : i = JobOf(w) /\ k = TokenOf(w)
  BY <1>0, HeldClaim DEF Busy
<1>1. CASE Park(i, k) \/ Release(i, k) \/ Fail(i, k, FALSE)
  BY <1>1, CallsQuiet DEF Quiet, WInv
<1>2. CASE /\ Complete(i, k) \/ NeedsReview(i, k, "selfflagged")
           /\ ~aborted[w] /\ verdict[w] \in {"ok", "flagged"}
  <2>1. PICK t \in Readings : \/ jobs' = CompleteIn(Sweep(jobs, t), i, k, t)
                              \/ jobs' = ReviewIn(Sweep(jobs, t), i, k, "selfflagged", t)
    BY <1>2 DEF Complete, NeedsReview
  <2> DEFINE U == Sweep(jobs, t)
  <2>2. StoreInv(U, lastJob) /\ t \in Nat /\ StoreInv(jobs, lastJob)
    BY SweptStoreInv DEF WInv, Inv
  <2>3. ResultsKept(jobs, U)
    BY <2>2, SweepKeepsResults
  <2>4. ClaimsFollow
    BY <1>2, CompleteCalm, ReviewCalm, FollowsClaims DEF Calm, WInv, ReviewKinds
  <2>5. CASE jobs' = U
    BY <2>3, <2>4, <2>5
  <2>6. CASE Owns(U, i, k) /\ OneMoves(U, jobs', i) /\ jobs'[i].result = k
    <3>1. U[i] = jobs[i] /\ i \in DOMAIN jobs
      BY <2>2, <2>6, SweepFollows DEF Owns, Found, Follows
    <3>2. Owns(jobs, i, k)
      BY <2>6, <3>1 DEF Owns, Found
    <3>3. \A m \in DOMAIN jobs' \ {i} : jobs'[m].result # None
            => m \in DOMAIN jobs /\ jobs'[m].result = jobs[m].result
      BY <2>3, <2>6 DEF OneMoves, ResultsKept
    <3>4. QED BY <1>2, <2>4, <2>6, <3>2, <3>3
  <2>7. jobs' = U \/ (Owns(U, i, k) /\ OneMoves(U, jobs', i) /\ jobs'[i].result = k)
    <3> HIDE DEF U
    <3>1. CASE ~Owns(U, i, k)
      BY <2>1, <3>1 DEF CompleteIn, ReviewIn, CanReview, U
    <3>2. CASE Owns(U, i, k)
      <4> PICK j \in Job : j = U[i] /\ i \in DOMAIN U
        BY <2>2, <3>2 DEF Owns, Found, StoreInv, JobInv
      <4> DEFINE c == [Settled(j, "completed", FALSE, t) EXCEPT !.result = k, !.completedBy = k]
                 d == [Settled(j, "needs_review", FALSE, t) EXCEPT
                         !.reviewKind = "selfflagged",
                         !.result = IF "selfflagged" = "selfflagged" THEN k ELSE None]
      <4>1. jobs' = U \/ jobs' = Put(U, i, c) \/ jobs' = Put(U, i, d)
        BY <2>1 DEF CompleteIn, ReviewIn, U
      <4>2. c.result = k /\ d.result = k
        BY DEF Job, Settled
      <4> HIDE DEF c, d
      <4>3. QED BY <2>2, <3>2, <4>1, <4>2, PutMoves
    <3>3. QED BY <3>1, <3>2
  <2>8. QED BY <2>5, <2>6, <2>7
<1>3. QED BY <1>1, <1>2 DEF Settle

\* Every step: no claim comes back, and a new result is that of a settling call.
LEMMA StepsQuiet ==
    ASSUME WInv, [WNext]_wvars
    PROVE  Quiet \/ \E w \in Workers : Settle(w)
<1>1. CASE UNCHANGED jobs
  BY <1>1, FollowsClaims DEF Quiet, ClaimsFollow, ResultsKept
<1>2. ASSUME NEW w \in Workers, InStore(w), ~Settle(w) PROVE Quiet
  <2>1. CASE ClaimNext(w)
    BY <2>1, ClaimQuiet DEF ClaimNext, WInv
  <2>2. CASE Drain(w) \/ Refuse(w) \/ Start(w) \/ BeginTurn(w) \/ TickCheck(w)
             \/ TickRenew(w) \/ Decide(w)
    <3>1. \/ Read \/ Fail(JobOf(w), TokenOf(w), FALSE) \/ StartRunning(JobOf(w), TokenOf(w))
          \/ Heartbeat(JobOf(w), TokenOf(w), LeaseTime)
      BY <2>2 DEF Drain, Refuse, Start, BeginTurn, TickCheck, TickRenew, Decide
    <3>2. QED BY <3>1, CallsQuiet DEF WInv
  <2>3. CASE HoldForReview(w)
    <3>1. NeedsReview(JobOf(w), TokenOf(w), "predeclared") /\ TokenOf(w) \in Nat
      BY <2>3, HeldClaim DEF HoldForReview, Busy
    <3>2. QED BY <3>1, CallsQuiet DEF WInv
  <2>4. QED BY <1>2, <2>1, <2>2, <2>3 DEF InStore
<1>3. CASE \E w \in Workers : TurnEnds(w) \/ Stop(w) \/ Leave(w) \/ Crash(w)
  <2>1. UNCHANGED jobs
    BY <1>3 DEF TurnEnds, EndTurn, Stop, Leave, Crash, vars
  <2>2. QED BY <1>1, <2>1
<1>4. CASE Others
  <2>1. CASE \E r \in RequestIds, p \in Payloads : ClientEnqueue(r, p)
    BY <2>1, EnqueueQuiet DEF ClientEnqueue, WInv
  <2>2. CASE \E i \in JobIds : ClientCancel(i) \/ OperatorRecover(i)
    BY <2>2, CallsQuiet DEF ClientCancel, OperatorRecover, WInv
  <2>3. CASE \E i \in JobIds, approve \in BOOLEAN : OperatorResolve(i, approve)
    BY <2>3, CallsQuiet DEF OperatorResolve, WInv
  <2>4. QED BY <1>4, <2>1, <2>2, <2>3 DEF Others
<1>5. CASE Poll
  BY <1>5, CallsQuiet DEF Poll, WInv
<1>6. CASE TimePasses \/ UNCHANGED wvars
  <2>1. UNCHANGED jobs
    BY <1>6 DEF TimePasses, Tick, wvars, vars
  <2>2. QED BY <1>1, <2>1
<1>7. QED BY <1>2, <1>3, <1>4, <1>5, <1>6 DEF WNext

-----------------------------------------------------------------------------
(* Results.                                                                *)

InForce(w) == Owns(jobs, JobOf(w), TokenOf(w))
TurnIs(w, end) == lastTurn[JobOf(w)] = [token |-> TokenOf(w), end |-> end]

\* A turn that still has its claim is the last of its job; it is open while it runs
\* and good once it has returned what its worker is going to store.
TurnsKnown ==
    /\ lastTurn \in [JobIds -> Turns]
    /\ \A w \in Workers : InForce(w) =>
         /\ pc[w] \in InTurn => TurnIs(w, "open")
         /\ pc[w] \in {"decide", "settle"} /\ verdict[w] \in {"ok", "flagged"} /\ ~aborted[w]
              => TurnIs(w, "good")
    /\ ResultsOfLastTurn

\* A job with a result is not in flight.
LEMMA InFlightHasNone ==
    ASSUME Inv, NEW i, NEW k, Owns(jobs, i, k)
    PROVE  jobs[i].result = None
BY DEF Inv, StoreInv, JobInv, JobConsistent, ResultOfLastClaim, Owns, Found, InFlight

\* A claim that is in force after the step was so before.
LEMMA ForceFollows ==
    ASSUME WInv, ClaimsFollow, NEW w \in Workers, pc[w] \in Busy,
           Owns(jobs', JobOf(w), TokenOf(w))
    PROVE  InForce(w)
<1>1. TokenOf(w) \in 1..lastToken /\ TokenOf(w) \in Nat
  BY HeldClaim DEF HeldKnown
<1>2. JobOf(w) \in DOMAIN jobs /\ jobs[JobOf(w)].token = TokenOf(w)
  BY <1>1 DEF ClaimsFollow, Owns, Found
<1>3. QED BY <1>1, <1>2, NoneAssumption
          DEF InForce, Owns, Found, WInv, Inv, StoreInv, JobInv, JobConsistent, ClaimInForce

\* What happens to the record of a turn that nothing happens to.
LEMMA RecordStays ==
    ASSUME NEW i \in JobIds, lastTurn' = [m \in JobIds |-> TurnAfter(m)],
           \A w \in Workers : ~Begins(w, i) /\ ~Returns(w, i), ~LosesClaim(i)
    PROVE  lastTurn'[i] = lastTurn[i]
BY DEF TurnAfter

\* A turn begins only on a job that its worker's claim owns after the step.
LEMMA BeginsOwned ==
    ASSUME WInv, [WNext]_wvars, NEW w \in Workers, NEW i, Begins(w, i)
    PROVE  /\ i = JobOf(w) /\ held'[w] = held[w] /\ pc[w] \in Busy
           /\ TokenOf(w) \in Nat /\ Owns(jobs', i, TokenOf(w))
<1>1. pc[w] = "beat" /\ pc'[w] = "turn" /\ i = JobOf(w)
  BY DEF Begins
<1>2. BeginTurn(w) /\ StillOurs(w) /\ held'[w] = held[w]
  BY <1>1, TurnsCarry DEF Carries, InTurn
<1>3. QED BY <1>1, <1>2, HeldClaim DEF StillOurs, Busy

LEMMA RecordShape ==
    ASSUME WInv, WInv', lastTurn \in [JobIds -> Turns], [WNext]_wvars,
           lastTurn' = [i \in JobIds |-> TurnAfter(i)]
    PROVE  lastTurn' \in [JobIds -> Turns]
<1> SUFFICES ASSUME NEW i \in JobIds PROVE TurnAfter(i) \in Turns
  OBVIOUS
<1>1. lastTurn[i] \in Turns
  OBVIOUS
<1>2. CASE \E w \in Workers : Begins(w, i)
  <2>1. jobs'[i].token \in Nat
    BY <1>2, BeginsOwned DEF Owns
  <2>2. QED BY <1>2, <2>1 DEF TurnAfter, Turns, Opt
<1>3. CASE ~\E w \in Workers : Begins(w, i)
  BY <1>1, <1>3 DEF TurnAfter, Turns
<1>4. QED BY <1>2, <1>3

\* A turn that has its claim after the step is on record as it should be.
LEMMA RecordFollows ==
    ASSUME WInv, WInv', TurnsKnown, [WNext]_wvars, ClaimsFollow,
           lastTurn' = [i \in JobIds |-> TurnAfter(i)],
           NEW v \in Workers, pc'[v] \in InTurn \cup {"decide", "settle"}, InForce(v)'
    PROVE  /\ pc'[v] \in InTurn => TurnIs(v, "open")'
           /\ pc'[v] \in {"decide", "settle"} /\ verdict'[v] \in {"ok", "flagged"}
              /\ ~aborted'[v] => TurnIs(v, "good")'
<1>1. held'[v] = held[v] /\ pc[v] \in Busy
  BY TurnsCarry DEF Carries, Busy, InTurn
<1> PICK i \in JobIds, k \in Nat : i = JobOf(v) /\ k = TokenOf(v)
  BY <1>1, HeldClaim
<1>2. JobOf(v)' = i /\ TokenOf(v)' = k /\ Owns(jobs', i, k)
  BY <1>1 DEF JobOf, TokenOf, InForce
<1>3. \A w \in Workers : pc[w] \in Busy /\ TokenOf(w) = k => w = v
  BY <1>1 DEF WInv, ClaimsDiffer
<1>4. \A w \in Workers : Begins(w, i) => w = v
  <2> SUFFICES ASSUME NEW w \in Workers, Begins(w, i) PROVE TokenOf(w) = k /\ pc[w] \in Busy
    BY <1>3
  <2>1. QED BY <1>2, BeginsOwned DEF Owns
<1>5. lastTurn'[i] = TurnAfter(i)
  OBVIOUS
<1>6. CASE Begins(v, i)
  <2>1. lastTurn'[i] = [token |-> k, end |-> "open"]
    BY <1>2, <1>5, <1>6 DEF TurnAfter, Owns
  <2>2. pc'[v] = "turn"
    BY <1>6 DEF Begins
  <2>3. QED BY <1>2, <2>1, <2>2 DEF TurnIs, InTurn
<1>7. CASE ~Begins(v, i)
  <2>1. Carries(v)
    BY <1>7, TurnsCarry DEF Begins
  <2>2. InForce(v)
    BY <1>1, <1>2, ForceFollows
  <2>3. ~\E w \in Workers : Begins(w, i)
    BY <1>4, <1>7
  <2>4. CASE lastTurn[i].token = k
    <3>1. ~LosesClaim(i)
      BY <1>2, <2>4 DEF LosesClaim
    <3>2. \A w \in Workers : Returns(w, i) => w = v
      BY <1>3, <2>4 DEF Returns, Busy
    <3>3. CASE Returns(v, i)
      <4>1. lastTurn'[i] = [lastTurn[i] EXCEPT !.end = "good"]
        BY <1>5, <2>3, <3>3 DEF TurnAfter
      <4>2. lastTurn'[i] = [token |-> k, end |-> "good"]
        BY <2>4, <4>1 DEF TurnsKnown, Turns
      <4>3. pc'[v] = "decide"
        BY <3>3 DEF Returns
      <4>4. QED BY <1>2, <4>2, <4>3 DEF TurnIs, InTurn
    <3>4. CASE ~Returns(v, i)
      <4>1. lastTurn'[i] = lastTurn[i]
        BY <2>3, <3>1, <3>2, <3>4, RecordStays
      <4>2. CASE pc[v] \in InTurn /\ pc'[v] \in InTurn
        <5>1. lastTurn[i] = [token |-> k, end |-> "open"]
          BY <2>2, <4>2 DEF TurnsKnown, TurnIs
        <5>2. QED BY <1>2, <4>1, <4>2, <5>1 DEF TurnIs, InTurn
      <4>3. CASE /\ pc[v] \in {"decide", "settle"} /\ pc'[v] \in {"decide", "settle"}
                 /\ verdict'[v] = verdict[v] /\ (aborted[v] => aborted'[v])
        <5>1. verdict'[v] \in {"ok", "flagged"} /\ ~aborted'[v]
                => lastTurn[i] = [token |-> k, end |-> "good"]
          BY <2>2, <4>3 DEF TurnsKnown, TurnIs
        <5>2. QED BY <1>2, <4>1, <4>3, <5>1 DEF TurnIs, InTurn
      <4>4. CASE pc[v] = "turn" /\ pc'[v] = "decide" /\ (aborted[v] => aborted'[v])
        <5>1. lastTurn[i] = [token |-> k, end |-> "open"]
          BY <2>2, <4>4 DEF TurnsKnown, TurnIs, InTurn
        <5>2. ~(verdict'[v] \in {"ok", "flagged"} /\ ~aborted'[v])
          BY <3>4, <4>4, <5>1 DEF Returns
        <5>3. QED BY <4>4, <5>2 DEF InTurn
      <4>5. QED BY <2>1, <4>2, <4>3, <4>4 DEF Carries
    <3>5. QED BY <3>3, <3>4
  <2>5. CASE lastTurn[i].token # k
    <3>1. ~TurnIs(v, "open") /\ ~TurnIs(v, "good")
      BY <2>5 DEF TurnIs
    <3>2. pc[v] \notin InTurn
      BY <2>2, <3>1 DEF TurnsKnown
    <3>3. /\ pc[v] \in {"decide", "settle"} /\ verdict'[v] = verdict[v]
          /\ pc'[v] \in {"decide", "settle"} /\ (aborted[v] => aborted'[v])
      BY <2>1, <3>2 DEF Carries, InTurn
    <3>4. QED BY <2>2, <3>1, <3>3 DEF TurnsKnown, InTurn
  <2>6. QED BY <2>4, <2>5
<1>8. QED BY <1>6, <1>7

\* A result that was there before, or is put there by the step, is on record.
LEMMA ResultsFollow ==
    ASSUME WInv, WInv', TurnsKnown, [WNext]_wvars,
           lastTurn' = [i \in JobIds |-> TurnAfter(i)]
    PROVE  ResultsOfLastTurn'
<1> SUFFICES ASSUME NEW i \in DOMAIN jobs', jobs'[i].result # None
             PROVE  lastTurn'[i] = [token |-> jobs'[i].result, end |-> "good"]
  BY DEF ResultsOfLastTurn
<1>1. i \in JobIds
  <2>1. lastJob' \in Nat /\ lastJob' <= MaxJobId /\ i \in 1..lastJob'
    BY DEF WInv, Inv, StoreInv, JobsKnown
  <2>2. QED BY <2>1, BoundsAssumption DEF JobIds
<1>2. CASE i \in DOMAIN jobs /\ jobs'[i].result = jobs[i].result
  <2>1. lastTurn[i] = [token |-> jobs[i].result, end |-> "good"]
    BY <1>2 DEF TurnsKnown, ResultsOfLastTurn
  <2>2. \A w \in Workers : ~Begins(w, i)
    <3> SUFFICES ASSUME NEW w \in Workers, Begins(w, i) PROVE FALSE
      OBVIOUS
    <3>1. Owns(jobs', i, TokenOf(w)) /\ Inv'
      BY BeginsOwned DEF WInv
    <3>2. QED BY <3>1 DEF Inv, StoreInv, JobInv, JobConsistent, ResultOfLastClaim, Owns, InFlight
  <2>3. \A w \in Workers : ~Returns(w, i)
    BY <2>1 DEF Returns
  <2>4. ~LosesClaim(i)
    BY <1>2, InFlightHasNone DEF LosesClaim, WInv
  <2>5. QED BY <1>1, <1>2, <2>1, <2>2, <2>3, <2>4, RecordStays
<1>3. CASE ~(i \in DOMAIN jobs /\ jobs'[i].result = jobs[i].result)
  <2>1. PICK w \in Workers : Settle(w)
    BY <1>3, StepsQuiet DEF Quiet, ResultsKept
  <2>2. /\ InForce(w) /\ jobs'[i].result = TokenOf(w) /\ i = JobOf(w)
        /\ ~aborted[w] /\ verdict[w] \in {"ok", "flagged"}
    BY <1>3, <2>1, SettleStores DEF ResultsKept, InForce
  <2>3. /\ pc[w] = "settle" /\ pc'[w] = "idle"
        /\ \A v \in Workers : v # w => pc'[v] = pc[v]
    BY <2>1 DEF Settle, Return, Goto, WInv, WorkersShape
  <2>4. lastTurn[i] = [token |-> TokenOf(w), end |-> "good"]
    BY <2>2, <2>3 DEF TurnsKnown, TurnIs
  <2>5. \A v \in Workers : ~Begins(v, i) /\ ~Returns(v, i)
    BY <2>3 DEF Begins, Returns
  <2>6. ~LosesClaim(i)
    BY <2>2, <2>3, <2>4 DEF LosesClaim, Settles
  <2>7. QED BY <1>1, <2>2, <2>4, <2>5, <2>6, RecordStays
<1>4. QED BY <1>2, <1>3

LEMMA TurnsStayKnown ==
    ASSUME WInv, WInv', TurnsKnown, [TNext]_tvars
    PROVE  TurnsKnown'
<1>1. CASE UNCHANGED tvars
  BY <1>1 DEF tvars, wvars, vars, workerVars, TurnsKnown, InForce, TurnIs, JobOf, TokenOf,
              ResultsOfLastTurn
<1>2. CASE TNext
  <2>1. [WNext]_wvars /\ lastTurn' = [i \in JobIds |-> TurnAfter(i)]
    BY <1>2 DEF TNext
  <2>2. ClaimsFollow
    BY <2>1, StepsQuiet, SettleStores DEF Quiet
  <2>3. lastTurn' \in [JobIds -> Turns]
    BY <2>1, RecordShape DEF TurnsKnown
  <2>4. QED BY <2>1, <2>2, <2>3, RecordFollows, ResultsFollow DEF TurnsKnown
<1>3. QED BY <1>1, <1>2

\* A stored result is what the last turn of its job returned, and that turn was not
\* aborted and kept its claim until its worker stored it, for any number of workers,
\* jobs and claims: neither a late owner nor a client nor the sweep leaves a result
\* of a turn whose job was cancelled, expired, parked or claimed again meanwhile.
THEOREM ResultsAreEarned == TSpec => []ResultsOfLastTurn
<1>1. TInit => WInit /\ TurnsKnown
  BY DEF TInit, WInit, Init, TurnsKnown, Turns, NoTurn, Opt, InForce, Owns, Found,
         ResultsOfLastTurn
<1>2. [TNext]_tvars => [WNext]_wvars
  BY DEF TNext, tvars
<1>3. OnceInv /\ TurnsKnown /\ [TNext]_tvars => OnceInv' /\ TurnsKnown'
  <2> SUFFICES ASSUME OnceInv, TurnsKnown, [TNext]_tvars PROVE OnceInv' /\ TurnsKnown'
    OBVIOUS
  <2>1. OnceInv'
    BY <1>2, WNextKeeps DEF OnceInv, Keeps
  <2>2. QED BY <2>1, TurnsStayKnown DEF OnceInv
<1>4. TurnsKnown => ResultsOfLastTurn
  BY DEF TurnsKnown
<1>5. QED BY <1>1, <1>3, <1>4, WInitInv, PTL DEF TSpec

-----------------------------------------------------------------------------
(* Dispatchers.                                                            *)

\* A dispatcher's step, like every step of RelayWorker, moves its processJob and
\* the store; only a settlement by force can bring a job that was run closer to
\* another turn, and then the caller took a write job for a read.
KeepsBut(X) == WInv' /\ \A i \in JobIds \ X : Once(i) => Once(i)'

LEMMA ReleaseByForce ==
    ASSUME WInv, Onward, NEW i, NEW k, Release(i, k), UNCHANGED <<writeTurns, approved>>
    PROVE  /\ KeepsBut({i})
           /\ i \in DOMAIN jobs /\ jobs[i].payload \notin WritePayloads => Keeps
           /\ i \notin DOMAIN jobs => Keeps
<1>1. Inv' /\ Calm({i})
  BY ReleaseCalm DEF WInv
<1>2. WInv'
  <2>1. Follows(jobs, jobs') /\ ClearsNone(jobs, jobs')
    BY <1>1 DEF Calm
  <2>2. \A m \in DOMAIN jobs' : jobs'[m].cleared => jobs[m].cleared
    BY <2>1 DEF ClearsNone
  <2>3. QED BY <1>1, <2>1, <2>2, StoreStep DEF Calm, WInv, JobsKnown
<1>3. ASSUME NEW m \in JobIds \ {i}, Once(m) PROVE Once(m)'
  <2>1. m \in DOMAIN jobs' =>
          /\ m \in DOMAIN jobs /\ jobs'[m].token \in {jobs[m].token, None}
          /\ NotRaised(jobs, jobs', m)
    BY <1>1, <1>3 DEF Calm, Follows
  <2>2. QED BY <1>1, <1>3, <2>1, OnceCarries, NobodyNew
<1>4. ASSUME i \in DOMAIN jobs /\ jobs[i].payload \notin WritePayloads PROVE Keeps
  <2>1. writeTurns[i] = 0
    BY <1>4 DEF WInv, JobsKnown
  <2>2. QED BY <1>1, <2>1, CalmStep
<1>5. ASSUME i \notin DOMAIN jobs PROVE Keeps
  <2>1. i \notin DOMAIN jobs'
    BY <1>1, <1>5 DEF Calm, Follows
  <2>2. QED BY <1>1, <2>1, CalmStep
<1>6. QED BY <1>2, <1>3, <1>4, <1>5 DEF KeepsBut

LEMMA ForceKeeps ==
    ASSUME WInv, NEW d \in Dispatchers, ForceSettle(d)
    PROVE  misjudged \subseteq misjudged' /\ KeepsBut(misjudged')
<1> DEFINE i == call[d].job
           k == call[d].token
<1>1. /\ IF call[d].write THEN Park(i, k) ELSE Release(i, k)
      /\ misjudged' = IF jobs[i].payload \in WritePayloads /\ ~call[d].write
                      THEN misjudged \cup {i} ELSE misjudged
      /\ UNCHANGED <<workerVars, writeTurns, approved>>
  BY DEF ForceSettle
<1>2. Onward
  BY <1>1, OthersOnward
<1>3. Keeps => KeepsBut(misjudged')
  BY DEF Keeps, KeepsBut
<1>4. CASE call[d].write
  <2>1. Park(i, k)
    BY <1>1, <1>4
  <2>2. Inv' /\ Calm({})
    BY <2>1, ParkCalm DEF WInv
  <2>3. QED BY <1>1, <1>2, <1>3, <2>2, QuietStep
<1>5. CASE ~call[d].write
  <2>1. Release(i, k)
    BY <1>1, <1>5
  <2>2. /\ KeepsBut({i})
        /\ i \in DOMAIN jobs /\ jobs[i].payload \notin WritePayloads => Keeps
        /\ i \notin DOMAIN jobs => Keeps
    BY <1>1, <1>2, <2>1, ReleaseByForce
  <2>3. jobs[i].payload \in WritePayloads => i \in misjudged'
    BY <1>1, <1>5
  <2>4. QED BY <1>1, <1>3, <2>2, <2>3 DEF KeepsBut
<1>6. QED BY <1>4, <1>5

LEMMA DispatchClaimKeeps ==
    ASSUME WInv, NEW d \in Workers, DispatchClaim(d)
    PROVE  Keeps
<1> DEFINE i == call[d].job
<1>1. Claim(i, LeaseTime) /\ UNCHANGED <<inbox, aborted, verdict, writeTurns, approved>>
  BY DEF DispatchClaim
<1>2. CASE lastToken' # lastToken
  <2>1. Taken(d, i) /\ Goto(d, "gate") /\ stopping' = [stopping EXCEPT ![d] = FALSE]
    BY <1>2 DEF DispatchClaim, Taken
  <2>2. stopping' \in [Workers -> BOOLEAN] /\ DOMAIN inbox' = DOMAIN inbox
    BY <1>1, <2>1 DEF WInv, WorkersShape
  <2>3. QED BY <1>1, <1>2, <2>1, <2>2, WonKeeps
<1>3. CASE lastToken' = lastToken
  <2>1. Inv' /\ Calm({})
    BY <1>1, <1>3, ClaimGranted, WorkerTimesAssumption DEF WInv
  <2>2. UNCHANGED <<held, stopping, pc>>
    BY <1>3 DEF DispatchClaim
  <2>3. Onward
    BY <1>1, <2>2, StandOnward DEF WInv, WorkersShape
  <2>4. QED BY <1>1, <2>1, <2>3, QuietStep
<1>4. QED BY <1>2, <1>3

LEMMA ThrowKeeps ==
    ASSUME WInv, NEW d \in Workers, Throw(d)
    PROVE  Keeps
<1>1. Inv' /\ Calm({})
  BY QuietStoreCalm DEF Throw, vars, WInv, Inv
<1>2. Onward
  BY ReturnOnward DEF Throw
<1>3. QED BY <1>1, <1>2, QuietStep DEF Throw, Return

LEMMA TimeoutKeeps ==
    ASSUME WInv, NEW d \in Workers, Timeout(d)
    PROVE  Keeps
<1>1. Inv' /\ Calm({})
  BY QuietStoreCalm DEF Timeout, vars, WInv, Inv
<1>2. aborted' \in [Workers -> BOOLEAN] /\ stopping' \in [Workers -> BOOLEAN]
  BY DEF Timeout, WInv, WorkersShape
<1>3. Onward
  BY <1>2, StandOnward DEF Timeout
<1>4. QED BY <1>1, <1>3, QuietStep DEF Timeout

LEMMA DispatcherKeeps ==
    ASSUME WInv, NEW d \in Dispatchers,
           \/ DispatchClaim(d) \/ ProcessJob(d) \/ Throw(d) \/ DispatchedTurnEnds(d)
           \/ Timeout(d) \/ RaceEnds(d) \/ CallThrows(d) \/ DispatcherCrashes(d)
    PROVE  Keeps /\ misjudged' = misjudged
<1>1. d \in Workers
  BY DispatchersAssumption
<1>2. CASE DispatchClaim(d)
  BY <1>1, <1>2, DispatchClaimKeeps DEF DispatchClaim, dhistory
<1>3. CASE ProcessJob(d)
  BY <1>1, <1>3, InStoreKeeps DEF ProcessJob, dhistory
<1>4. CASE Throw(d)
  BY <1>1, <1>4, ThrowKeeps DEF Throw, dhistory
<1>5. CASE DispatchedTurnEnds(d)
  BY <1>1, <1>5, EndTurnKeeps DEF DispatchedTurnEnds, TurnEnds, dhistory
<1>6. CASE Timeout(d)
  BY <1>1, <1>6, TimeoutKeeps DEF Timeout, dhistory
<1>7. CASE RaceEnds(d)
  BY <1>7, PollKeeps DEF RaceEnds, dhistory
<1>8. CASE CallThrows(d)
  BY <1>8, QuietKeeps DEF CallThrows, wvars, vars, WInv, Inv
<1>9. CASE DispatcherCrashes(d)
  BY <1>1, <1>9, CrashKeeps DEF DispatcherCrashes, dhistory
<1>10. QED BY <1>2, <1>3, <1>4, <1>5, <1>6, <1>7, <1>8, <1>9

LEMMA DNextKeeps ==
    ASSUME WInv, [DNext]_dvars
    PROVE  misjudged \subseteq misjudged' /\ KeepsBut(misjudged')
<1>1. Keeps /\ misjudged' = misjudged => misjudged \subseteq misjudged' /\ KeepsBut(misjudged')
  BY DEF Keeps, KeepsBut
<1>2. CASE UNCHANGED dvars
  <2>1. Keeps
    BY <1>2, QuietKeeps DEF dvars, wvars, vars, WInv, Inv
  <2>2. QED BY <1>1, <1>2, <2>1 DEF dvars, dhistory
<1>3. CASE \E w \in Loops : LoopStep(w) /\ UNCHANGED <<call, dhistory>>
  BY <1>1, <1>3, InStoreKeeps, EndTurnKeeps, StopKeeps, LeaveKeeps, CrashKeeps
  DEF LoopStep, Loops, TurnEnds, dhistory
<1>4. CASE Others /\ UNCHANGED <<call, dhistory>>
  BY <1>1, <1>4, OthersKeep DEF dhistory
<1>5. CASE \E d \in Dispatchers, r \in RequestIds, p \in Payloads : DispatchEnqueue(d, r, p)
  BY <1>1, <1>5, ClientEnqueueKeeps DEF DispatchEnqueue, dhistory
<1>6. CASE \E d \in Dispatchers :
             \/ DispatchClaim(d) \/ ProcessJob(d) \/ Throw(d) \/ DispatchedTurnEnds(d)
             \/ Timeout(d) \/ RaceEnds(d) \/ CallThrows(d) \/ DispatcherCrashes(d)
  BY <1>1, <1>6, DispatcherKeeps
<1>7. CASE \E d \in Dispatchers : ForceSettle(d)
  BY <1>7, ForceKeeps
<1>8. CASE (Poll \/ TimePasses) /\ UNCHANGED <<call, dhistory>>
  BY <1>1, <1>8, PollKeeps, TimeKeeps DEF Poll, dhistory
<1>9. QED BY <1>2, <1>3, <1>4, <1>5, <1>6, <1>7, <1>8 DEF DNext

LEMMA DInvariance == DSpec => []CallsInv
<1>1. DInit => CallsInv
  BY WInitInv DEF DInit, OnceInv, CallsInv
<1>2. CallsInv /\ [DNext]_dvars => CallsInv'
  BY DNextKeeps DEF CallsInv, KeepsBut
<1>3. QED BY <1>1, <1>2, PTL DEF DSpec

\* With dispatchers beside the workers, whose calls settle jobs by force while
\* their executors go on, a write job still has at most one turn between two
\* decisions of an operator, unless a dispatcher took it for a read.
THEOREM ForcedWritesWait == DSpec => []ForcedWritesPark
<1>1. CallsInv => ForcedWritesPark
  BY DEF CallsInv, Once, ForcedWritesPark
<1>2. QED BY <1>1, DInvariance, PTL

\* The review gate holds for the turns of dispatchers too.
THEOREM DispatchReviewsComeFirst == DSpec => []ReviewBeforeTurn
<1>1. CallsInv => ReviewBeforeTurn
  BY HeldReviewed DEF CallsInv
<1>2. QED BY <1>1, DInvariance, PTL

-----------------------------------------------------------------------------
(* Workers, dispatchers, clients and operators keep to the API: whatever   *)
(* they do to the store is one of its transactions, so all that is proved  *)
(* of the store holds for it in their hands.                               *)

\* A job that a sweep leaves in flight was created, and its claim handed out.
LEMMA FlownKnown ==
    ASSUME WInv, NEW t \in Readings, NEW i \in DOMAIN Sweep(jobs, t),
           Sweep(jobs, t)[i].state \in InFlight
    PROVE  i \in JobIds /\ Sweep(jobs, t)[i].token \in Tokens
<1>1. StoreInv(jobs, lastJob) /\ t \in Nat /\ lastToken \in Nat /\ lastJob \in Nat
  BY DEF WInv, Inv, Readings
<1>2. Sweep(jobs, t)[i] = jobs[i] /\ i \in DOMAIN jobs
  BY <1>1, SweepFollows DEF Follows
<1>3. JobInv(jobs[i]) /\ i \in 1..lastJob
  BY <1>1, <1>2 DEF StoreInv
<1>4. jobs[i].token # None
  BY <1>2, <1>3 DEF JobInv, JobConsistent, ClaimInForce
<1>5. jobs[i].token \in 1..lastToken /\ lastJob <= MaxJobId
  BY <1>2, <1>4 DEF WInv, JobsKnown
<1>6. QED BY <1>1, <1>2, <1>3, <1>5, BoundsAssumption DEF JobIds, Tokens

\* A claim, a park or a release named with any id and any token: it is granted
\* only to a job and a claim that are there, and a refused call reads the store.
LEMMA ClaimTransacts ==
    ASSUME WInv, NEW i, Claim(i, LeaseTime) PROVE Call \/ Read
<1>1. PICK t \in Readings :
        LET S == Sweep(jobs, t) IN
        /\ jobs' = ClaimIn(S, i, lastToken + 1, LeaseTime, t)
        /\ lastToken' = IF CanClaim(S, i) THEN lastToken + 1 ELSE lastToken
        /\ UNCHANGED <<agents, now, lastJob>>
  BY DEF Claim
<1>2. CASE i \in JobIds
  BY <1>2, WorkerTimesAssumption DEF Call
<1>3. CASE i \notin JobIds
  <2>1. i \notin DOMAIN Sweep(jobs, t)
    <3>1. StoreInv(jobs, lastJob) /\ t \in Nat
      BY DEF WInv, Inv, Readings
    <3>2. DOMAIN Sweep(jobs, t) \subseteq DOMAIN jobs
      BY <3>1, SweepMoves
    <3>3. DOMAIN jobs \subseteq JobIds
      BY <3>1, BoundsAssumption DEF StoreInv, WInv, Inv, JobsKnown, JobIds
    <3>4. QED BY <1>3, <3>2, <3>3
  <2>2. ~CanClaim(Sweep(jobs, t), i)
    BY <2>1 DEF CanClaim, Found
  <2>3. Read
    BY <1>1, <2>2 DEF ClaimIn, Read
  <2>4. QED BY <2>3
<1>4. QED BY <1>2, <1>3

LEMMA ParkTransacts ==
    ASSUME WInv, NEW i, NEW k, Park(i, k) PROVE Call \/ Read
<1>1. PICK t \in Readings : /\ jobs' = ParkIn(Sweep(jobs, t), i, k, t)
                            /\ UNCHANGED <<agents, now, lastJob, lastToken>>
  BY DEF Park
<1>2. CASE Owns(Sweep(jobs, t), i, k)
  BY <1>2, FlownKnown DEF Owns, Found, Call
<1>3. CASE ~Owns(Sweep(jobs, t), i, k)
  BY <1>1, <1>3 DEF ParkIn, Read
<1>4. QED BY <1>2, <1>3

LEMMA ReleaseTransacts ==
    ASSUME WInv, NEW i, NEW k, Release(i, k) PROVE Call \/ Read
<1>1. PICK t \in Readings : /\ jobs' = ReleaseIn(Sweep(jobs, t), i, k)
                            /\ UNCHANGED <<agents, now, lastJob, lastToken>>
  BY DEF Release
<1>2. CASE Owns(Sweep(jobs, t), i, k)
  BY <1>2, FlownKnown DEF Owns, Found, Call
<1>3. CASE ~Owns(Sweep(jobs, t), i, k)
  BY <1>1, <1>3 DEF ReleaseIn, Read
<1>4. QED BY <1>2, <1>3

\* What a worker does in the store, with the claim it holds.
LEMMA InStoreTransacts ==
    ASSUME WInv, NEW w \in Workers, InStore(w) PROVE Call \/ Read
<1>1. pc[w] \in Busy => JobOf(w) \in JobIds /\ TokenOf(w) \in Tokens
  BY DEF WInv, HeldKnown, Claims, JobOf, TokenOf, Tokens
<1>2. CASE Drain(w) \/ TickCheck(w) \/ Decide(w)
  BY <1>2 DEF Drain, TickCheck, Decide
<1>3. CASE ClaimNext(w)
  BY <1>3, ClaimTransacts DEF ClaimNext
<1>4. CASE Refuse(w)
  BY <1>1, <1>4 DEF Refuse, Busy, Call
<1>5. CASE HoldForReview(w)
  BY <1>1, <1>5 DEF HoldForReview, Busy, Call, ReviewKinds
<1>6. CASE Start(w)
  BY <1>1, <1>6 DEF Start, Busy, Call
<1>7. CASE BeginTurn(w) \/ TickRenew(w)
  <2>1. /\ pc[w] \in Busy /\ LeaseTime \in LeaseTimes
        /\ Heartbeat(JobOf(w), TokenOf(w), LeaseTime)
    BY <1>7, WorkerTimesAssumption DEF BeginTurn, TickRenew, Busy
  <2>2. QED BY <1>1, <2>1 DEF Call
<1>8. CASE Settle(w)
  <2>1. /\ pc[w] \in Busy
        /\ \/ Park(JobOf(w), TokenOf(w)) \/ Release(JobOf(w), TokenOf(w))
           \/ Fail(JobOf(w), TokenOf(w), FALSE) \/ Complete(JobOf(w), TokenOf(w))
           \/ NeedsReview(JobOf(w), TokenOf(w), "selfflagged")
    BY <1>8 DEF Settle, Busy
  <2>2. QED BY <1>1, <2>1 DEF Call, ReviewKinds
<1>9. QED BY <1>2, <1>3, <1>4, <1>5, <1>6, <1>7, <1>8 DEF InStore

LEMMA EnqueueTransacts ==
    ASSUME NEW r \in RequestIds, NEW p \in Payloads,
           \E ttl \in Ttls :
             Enqueue(r, Agent, p, IF p \in WritePayloads THEN "park" ELSE "requeue", ttl)
    PROVE  Call
BY AgentAssumption DEF Call, Policies

LEMMA OthersTransact == ASSUME Others PROVE Call
<1>1. CASE \E r \in RequestIds, p \in Payloads : ClientEnqueue(r, p)
  BY <1>1, EnqueueTransacts DEF ClientEnqueue
<1>2. CASE \E i \in JobIds : ClientCancel(i)
  BY <1>2 DEF ClientCancel, Call
<1>3. CASE \E i \in JobIds : OperatorRecover(i)
  BY <1>3 DEF OperatorRecover, Call
<1>4. CASE \E i \in JobIds, approve \in BOOLEAN : OperatorResolve(i, approve)
  BY <1>4 DEF OperatorResolve, Call
<1>5. QED BY <1>1, <1>2, <1>3, <1>4 DEF Others

\* What happens to a worker outside the store leaves the store alone.
LEMMA OutsideStore ==
    ASSUME NEW w, TurnEnds(w) \/ Stop(w) \/ Leave(w) \/ Crash(w)
    PROVE  UNCHANGED vars
BY DEF TurnEnds, EndTurn, Stop, Leave, Crash

LEMMA WNextTransacts == ASSUME WInv, [WNext]_wvars PROVE [Transacts]_vars
<1>1. CASE UNCHANGED wvars
  BY <1>1 DEF wvars
<1>2. CASE \E w \in Workers : InStore(w)
  BY <1>2, InStoreTransacts DEF Transacts
<1>3. CASE \E w \in Workers : TurnEnds(w) \/ Stop(w) \/ Leave(w) \/ Crash(w)
  BY <1>3, OutsideStore
<1>4. CASE Others
  BY <1>4, OthersTransact DEF Transacts
<1>5. CASE Poll \/ TimePasses
  BY <1>5 DEF Poll, TimePasses, Transacts
<1>6. QED BY <1>1, <1>2, <1>3, <1>4, <1>5 DEF WNext

LEMMA DNextTransacts == ASSUME WInv, [DNext]_dvars PROVE [Transacts]_vars
<1>1. CASE UNCHANGED dvars
  BY <1>1 DEF dvars, wvars
<1>2. CASE \E w \in Loops : LoopStep(w)
  BY <1>2, InStoreTransacts, OutsideStore DEF LoopStep, Loops, Transacts
<1>3. CASE Others
  BY <1>3, OthersTransact DEF Transacts
<1>4. CASE \E d \in Dispatchers, r \in RequestIds, p \in Payloads : DispatchEnqueue(d, r, p)
  BY <1>4, EnqueueTransacts DEF DispatchEnqueue, Transacts
<1>5. CASE \E d \in Dispatchers : DispatchClaim(d)
  BY <1>5, ClaimTransacts DEF DispatchClaim, Transacts
<1>6. CASE \E d \in Dispatchers : ProcessJob(d)
  BY <1>6, InStoreTransacts, DispatchersAssumption DEF ProcessJob, Transacts
<1>7. CASE \E d \in Dispatchers : ForceSettle(d)
  BY <1>7, ParkTransacts, ReleaseTransacts DEF ForceSettle, Transacts
<1>8. CASE \E d \in Dispatchers : RaceEnds(d)
  BY <1>8 DEF RaceEnds, Transacts
<1>9. CASE \E d \in Dispatchers :
             \/ Throw(d) \/ DispatchedTurnEnds(d) \/ Timeout(d) \/ CallThrows(d)
             \/ DispatcherCrashes(d)
  <2>1. UNCHANGED vars
    BY <1>9, OutsideStore
    DEF Throw, DispatchedTurnEnds, Timeout, CallThrows, DispatcherCrashes, wvars
  <2>2. QED BY <2>1
<1>10. CASE Poll \/ TimePasses
  BY <1>10 DEF Poll, TimePasses, Transacts
<1>11. QED BY <1>1, <1>2, <1>3, <1>4, <1>5, <1>6, <1>7, <1>8, <1>9, <1>10 DEF DNext

LEMMA WorkersTransact == WSpec => Transacting
<1>1. WInit => Init
  BY DEF WInit
<1>2. OnceInv /\ [WNext]_wvars => [Transacts]_vars
  BY WNextTransacts DEF OnceInv
<1>3. QED BY <1>1, <1>2, WInvariance, PTL DEF WSpec, Transacting

LEMMA DispatchersTransact == DSpec => Transacting
<1>1. DInit => Init
  BY DEF DInit, WInit
<1>2. CallsInv /\ [DNext]_dvars => [Transacts]_vars
  BY DNextTransacts DEF CallsInv
<1>3. QED BY <1>1, <1>2, DInvariance, PTL DEF DSpec, Transacting

\* What holds of the store as long as it is used through its transactions only.
StoreSound ==
    TypeOK /\ OneJobPerRequest /\ ResultsFenced /\ NothingLeftOfEarlierEnds /\ RetriesBounded

LEMMA TransactsSound == Transacting => []StoreSound
<1>1. Inv => StoreSound
  BY DEF Inv, StoreInv, JobInv, JobConsistent, AgentsInv, StoreSound, TypeOK,
         OneJobPerRequest, ResultsFenced, NothingLeftOfEarlierEnds, RetriesBounded
<1>2. QED BY <1>1, Invariance, PTL

\* In the hands of any number of workers, clients and operators the store keeps
\* its invariants: whatever the workers hold, stall on or die with, no result but
\* that of the last claim is kept, and retries stay bounded (relay-jobs.mjs:17-28).
THEOREM WorkersKeepStoreSound == WSpec => []StoreSound
BY WorkersTransact, TransactsSound, PTL

\* It follows the documented state machine of jobs step by step, honours the
\* limits of every job, and stays within its cap (relay-jobs.mjs:37-48).
THEOREM WorkersFollowLifecycle ==
    WSpec => /\ ImplementsLifecycle
             /\ NoEarlyExpiry /\ SettlesWithinLease
             /\ GrowsOnlyWithLiveWork /\ EvictsOldestWhenFull
BY WorkersTransact, TransactsFollowLifecycle, TransactsHonour, TransactsWithinLease,
   TransactsCap, TransactsEvict, PTL

\* The same with processes that dispatch jobs by themselves, throw, and settle by
\* force what they no longer wait for (relay-worker.mjs:406-487).
THEOREM DispatchersKeepStoreSound == DSpec => []StoreSound
BY DispatchersTransact, TransactsSound, PTL

\* And every step of theirs is a step of the state machine too, within the limits
\* and the cap (relay-jobs.mjs:37-48).
THEOREM DispatchersFollowLifecycle ==
    DSpec => /\ ImplementsLifecycle
             /\ NoEarlyExpiry /\ SettlesWithinLease
             /\ GrowsOnlyWithLiveWork /\ EvictsOldestWhenFull
BY DispatchersTransact, TransactsFollowLifecycle, TransactsHonour, TransactsWithinLease,
   TransactsCap, TransactsEvict, PTL

=============================================================================
