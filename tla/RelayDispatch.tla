---------------------------- MODULE RelayDispatch ----------------------------
(***************************************************************************)
(* dispatchAndWait of lib/relay-worker.mjs: a process that enqueues a job, *)
(* claims it if it can and runs it by itself, next to the workers of       *)
(* RelayWorker, clients and operators.                                     *)
(*                                                                         *)
(* A dispatcher is one of Workers, but it does not drain the queue.  It    *)
(* has two coroutines: processJob (the pc, held, aborted... of             *)
(* RelayWorker) and the call that waits for it (`call`).  The call aborts  *)
(* the turn at its timeout; if the executor does not react within the      *)
(* grace time the call settles the job by force and returns, and           *)
(* processJob goes on in the background.                                   *)
(*                                                                         *)
(* The reads of a call that only observes, and the last read of one that   *)
(* has settled, change no more than Poll does and are left to it.          *)
(***************************************************************************)
EXTENDS RelayWorker

CONSTANT Dispatchers

ASSUME DispatchersAssumption == Dispatchers \subseteq Workers

VARIABLES
    call,       \* the open dispatchAndWait of each dispatcher, or None
    misjudged,  \* history: write jobs settled by a caller that took them for reads
    forsaken    \* history: jobs whose call ended in an exception

dhistory == <<misjudged, forsaken>>
dvars == <<wvars, call, dhistory>>
Loops == Workers \ Dispatchers
Sites == {"enqueued", "race", "force"}

DInit == WInit /\ call = [d \in Dispatchers |-> None] /\ misjudged = {} /\ forsaken = {}

\* The timer of a call fires by raising `stopping`: like a signal to a worker it
\* aborts the turn that runs.
TimedOut(d) == stopping[d]
At(d, site) == call[d] # None /\ call[d].at = site
Ends(d) == call' = [call EXCEPT ![d] = None]

\* enqueue, with the write flag of the caller's own task; a job that is there
\* already, and settled, is returned at once.  (A process whose last turn still
\* runs in the background may call again too: another dispatcher stands for it.)
DispatchEnqueue(d, r, p) ==
    /\ call[d] = None /\ pc[d] = "idle"
    /\ \E ttl \in Ttls :
         Enqueue(r, Agent, p, IF p \in WritePayloads THEN "park" ELSE "requeue", ttl)
    /\ call' = [call EXCEPT ![d] =
         LET i == CHOOSE j \in DOMAIN jobs' : jobs'[j].requestId = r
         IN  IF jobs'[i].state \in Terminal THEN None
             ELSE [at |-> "enqueued", job |-> i, token |-> 0, write |-> p \in WritePayloads]]
    /\ UNCHANGED <<workerVars, writeTurns, approved, dhistory>>

\* Single flight: own it and run it, or (not in `call` any more) observe it.
DispatchClaim(d) ==
    /\ At(d, "enqueued")
    /\ Claim(call[d].job, LeaseTime)
    /\ LET i == call[d].job IN
       IF lastToken' # lastToken
       THEN /\ held' = [held EXCEPT ![d] = [job |-> i, token |-> lastToken',
                                            payload |-> jobs'[i].payload,
                                            cleared |-> jobs'[i].cleared]]
            /\ stopping' = [stopping EXCEPT ![d] = FALSE]
            /\ Goto(d, "gate")
            /\ call' = [call EXCEPT ![d].at = "race", ![d].token = lastToken']
       ELSE Ends(d) /\ UNCHANGED <<held, stopping, pc>>
    /\ UNCHANGED <<inbox, aborted, verdict, writeTurns, approved, dhistory>>

\* processJob of the dispatcher; the thread is not free while it settles by force.
ProcessJob(d) ==
    /\ pc[d] # "idle" /\ ~At(d, "force")
    /\ InStore(d)
    /\ UNCHANGED <<call, dhistory>>

\* A store call of processJob throws (LOCK_TIMEOUT): swallowed, the job is left.
Throw(d) ==
    /\ pc[d] \in {"gate", "beat", "decide", "settle"}
    /\ Return(d)
    /\ UNCHANGED <<vars, call, dhistory>>

\* setTimeout(timeoutMs).
Timeout(d) ==
    /\ At(d, "race") /\ pc[d] = "turn" /\ ~TimedOut(d)
    /\ stopping' = [stopping EXCEPT ![d] = TRUE]
    /\ aborted' = [aborted EXCEPT ![d] = TRUE]
    /\ UNCHANGED <<vars, pc, held, inbox, verdict, writeTurns, approved, call, dhistory>>

Slip_Over(d) == pc[d] = "idle"

\* Promise.race([jobDone, ceiling]): the ceiling comes after the timeout.
Over(d) == pc[d] = "idle" \/ (pc[d] = "turn" /\ TimedOut(d))

Slip_RaceEnds(d) ==
    /\ At(d, "race") /\ Over(d)
    /\ Read
    /\ Ends(d)
    /\ UNCHANGED <<workerVars, writeTurns, approved, dhistory>>

\* getJob: does the job still carry our token?
RaceEnds(d) ==
    /\ At(d, "race") /\ Over(d)
    /\ Read
    /\ IF Owns(jobs', call[d].job, call[d].token)
       THEN call' = [call EXCEPT ![d].at = "force"] ELSE Ends(d)
    /\ UNCHANGED <<workerVars, writeTurns, approved, dhistory>>

Slip_ForceSettle(d) ==
    /\ At(d, "force")
    /\ Release(call[d].job, call[d].token)
    /\ Ends(d)
    /\ UNCHANGED <<workerVars, writeTurns, approved, dhistory>>

\* The job is settled by force, fenced by the token.
ForceSettle(d) ==
    /\ At(d, "force")
    /\ LET i == call[d].job k == call[d].token IN
       /\ IF call[d].write THEN Park(i, k) ELSE Release(i, k)
       /\ misjudged' = IF jobs[i].payload \in WritePayloads /\ ~call[d].write
                       THEN misjudged \cup {i} ELSE misjudged
    /\ Ends(d)
    /\ UNCHANGED <<workerVars, writeTurns, approved, forsaken>>

\* A store call of dispatchAndWait itself throws (LOCK_TIMEOUT), and so does it.
CallThrows(d) ==
    /\ At(d, "enqueued") \/ At(d, "force") \/ (At(d, "race") /\ Over(d))
    /\ Ends(d)
    /\ forsaken' = IF At(d, "enqueued") THEN forsaken ELSE forsaken \cup {call[d].job}
    /\ UNCHANGED <<wvars, misjudged>>

\* The process dies, with both coroutines.
DispatcherCrashes(d) == Crash(d) /\ Ends(d) /\ UNCHANGED dhistory

\* The executor of a dispatcher may end its turn at any time, or never.
DispatchedTurnEnds(d) ==
    ~At(d, "force") /\ TurnEnds(d) /\ UNCHANGED <<call, dhistory>>

LoopStep(w) == InStore(w) \/ TurnEnds(w) \/ Stop(w) \/ Leave(w) \/ Crash(w)

DNext ==
    \/ \E w \in Loops : LoopStep(w) /\ UNCHANGED <<call, dhistory>>
    \/ now <= Horizon /\ ClaimsLeft /\
         \/ Others /\ UNCHANGED <<call, dhistory>>
         \/ \E d \in Dispatchers, r \in RequestIds, p \in Payloads : DispatchEnqueue(d, r, p)
    \/ \E d \in Dispatchers :
         \/ DispatchClaim(d) \/ ProcessJob(d) \/ Throw(d) \/ DispatchedTurnEnds(d)
         \/ Timeout(d) \/ RaceEnds(d) \/ ForceSettle(d) \/ CallThrows(d)
         \/ DispatcherCrashes(d)
    \/ (Poll \/ TimePasses) /\ UNCHANGED <<call, dhistory>>

DSpec == DInit /\ [][DNext]_dvars

\* Workers and time as in RelayWorker.  A dispatcher that lives goes on and its
\* timers fire, though the heartbeat timer interrupts them for ever.  Nothing is
\* assumed of the executor it runs: that is what its timeout is for.
DFairSpec ==
    /\ DSpec
    /\ \A w \in Loops :
         WF_dvars(InStore(w) /\ UNCHANGED <<call, dhistory>>)
         /\ SF_dvars(Ending(w) /\ UNCHANGED <<call, dhistory>>)
    /\ \A d \in Dispatchers :
         /\ WF_dvars(DispatchClaim(d) \/ ProcessJob(d) \/ ForceSettle(d))
         /\ SF_dvars(Timeout(d)) /\ SF_dvars(RaceEnds(d))
    /\ WF_dvars(TimePasses /\ UNCHANGED <<call, dhistory>>)

-----------------------------------------------------------------------------
(* Properties.                                                             *)

\* A write job that a dispatcher settles by force waits for an operator like any
\* other that was cut short, whatever its executor goes on doing, unless the
\* dispatcher's request was deduplicated onto a job of the other kind
\* (relay-worker.mjs:12-16).
ForcedWritesPark == \A i \in JobIds : writeTurns[i] <= 1 \/ i \in misjudged

\* dispatchAndWait returns although the executor never does (relay-worker.mjs:
\* 462-463).
DispatchReturns == \A d \in Dispatchers : call[d] # None ~> call[d] = None

\* As long as one worker lives, a job that is queued or in flight ends up
\* finished or in front of an operator, whatever a dispatcher leaves behind: a
\* claim, a lease, a turn that never ends, but not if it threw before it could
\* settle the job (relay-worker.mjs:468-471).
Open(i) == i \in DOMAIN jobs /\ jobs[i].state \notin Terminal
JobsSettle == \A i \in JobIds : Open(i) ~> (~Open(i) \/ i \in forsaken)

=============================================================================
