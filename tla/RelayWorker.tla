----------------------------- MODULE RelayWorker -----------------------------
(***************************************************************************)
(* lib/relay-worker.mjs: worker processes that drain the queue of one      *)
(* agent (runWorkerLoop, drainOnce) and drive each claimed job to a        *)
(* settled state (processJob), next to clients that enqueue and cancel and *)
(* operators that recover, approve and reject.                             *)
(*                                                                         *)
(* Every store call of a worker is one transaction of RelayJobs, and       *)
(* between two of them every other process may run any number of its own.  *)
(* Whether a call was granted is read off the store it leaves: the claim   *)
(* got a token, the caller still owns the job.  Workers are event loops:   *)
(* while a turn runs only the heartbeat timer does.  A worker may stall    *)
(* anywhere while time passes, and those in Mortal may be told to stop or  *)
(* die.  A restarted worker is one that has not acted yet.                 *)
(***************************************************************************)
EXTENDS RelayJobs, FiniteSetsExt

CONSTANTS
    Workers,        \* worker processes
    Mortal,         \* those that may be stopped or killed
    Writers,        \* those started with allowWrites and an executor that writes
    Agent,          \* the agent all of them serve
    WritePayloads,  \* payload.write === true
    ReviewPayloads, \* payload.requireReview is a non-empty string
    BlankPayloads,  \* payload without a prompt
    InboxLimit,     \* how many jobs drainOnce looks at
    LeaseTime       \* leaseMs

ASSUME WorkersAssumption == Mortal \subseteq Workers /\ Writers \subseteq Workers
ASSUME AgentAssumption == Agent \in Agents \cap Addressees
ASSUME PayloadsAssumption ==
    WritePayloads \cup ReviewPayloads \cup BlankPayloads \subseteq Payloads
ASSUME WorkerTimesAssumption ==
    InboxLimit \in Nat \ {0} /\ LeaseTime \in LeaseTimes \ {None}

VARIABLES
    pc,         \* where each worker is in its loop
    held,       \* the claim processJob works for: claimed.job and its token
    inbox,      \* what drainOnce still has to look at
    aborted,    \* controller.signal.aborted
    verdict,    \* how the turn ended
    stopping,   \* the external signal (shutdown) was raised
    writeTurns, \* history: write turns started since an operator last decided
    approved    \* history: jobs an operator approved to run

workerVars == <<pc, held, inbox, aborted, verdict, stopping>>
wvars == <<vars, workerVars, writeTurns, approved>>

Steps == {"idle", "claim", "gate", "beat", "turn", "renew", "decide", "settle",
          "stopped", "dead"}
Verdicts == {"ok", "flagged", "failed"}
Claims == [job : JobIds, token : Nat, payload : Payloads, cleared : BOOLEAN]
InTurn == {"turn", "renew"}

WInit ==
    /\ Init
    /\ pc = [w \in Workers |-> "idle"]
    /\ held = [w \in Workers |-> None]
    /\ inbox = [w \in Workers |-> {}]
    /\ aborted = [w \in Workers |-> FALSE]
    /\ verdict = [w \in Workers |-> None]
    /\ stopping = [w \in Workers |-> FALSE]
    /\ writeTurns = [i \in JobIds |-> 0]
    /\ approved = {}

Goto(w, l) == pc' = [pc EXCEPT ![w] = l]
JobOf(w) == held[w].job
TokenOf(w) == held[w].token
PayloadOf(w) == held[w].payload
StillOurs(w) == Owns(jobs', JobOf(w), TokenOf(w))

\* processJob returns: the claim, whatever became of it, is forgotten.
Return(w) ==
    /\ Goto(w, "idle")
    /\ held' = [held EXCEPT ![w] = None]
    /\ aborted' = [aborted EXCEPT ![w] = FALSE]
    /\ verdict' = [verdict EXCEPT ![w] = None]
    /\ UNCHANGED <<inbox, stopping, writeTurns, approved>>

-----------------------------------------------------------------------------
(* drainOnce.                                                              *)

\* inboxFor: the first jobs queued for the agent, in the order of the array.
FirstOf(I) == {i \in I : Cardinality({j \in I : j < i}) < InboxLimit}
Inbox(S) == FirstOf({i \in DOMAIN S : S[i].to = Agent /\ S[i].state = "queued"})

Drain(w) ==
    /\ pc[w] = "idle" /\ ~stopping[w]
    /\ Read
    /\ inbox' = [inbox EXCEPT ![w] = Inbox(jobs')]
    /\ Goto(w, IF Inbox(jobs') = {} THEN "idle" ELSE "claim")
    /\ UNCHANGED <<held, aborted, verdict, stopping, writeTurns, approved>>

\* claim(candidate): the inbox may be out of date; the next one is tried then.
ClaimNext(w) ==
    /\ pc[w] = "claim"
    /\ LET i == Min(inbox[w])
           won == lastToken' # lastToken
           left == inbox[w] \ {i}
       IN  /\ Claim(i, LeaseTime)
           /\ inbox' = [inbox EXCEPT ![w] = IF won THEN {} ELSE left]
           /\ held' = IF won
                      THEN [held EXCEPT ![w] = [job |-> i, token |-> lastToken',
                                                payload |-> jobs'[i].payload,
                                                cleared |-> jobs'[i].cleared]]
                      ELSE held
           /\ Goto(w, IF won THEN "gate" ELSE IF left = {} THEN "idle" ELSE "claim")
    /\ UNCHANGED <<aborted, verdict, stopping, writeTurns, approved>>

-----------------------------------------------------------------------------
(* processJob.                                                             *)

\* No prompt, or a write job where writes are denied.
Unrunnable(w) ==
    \/ PayloadOf(w) \in BlankPayloads
    \/ PayloadOf(w) \in WritePayloads /\ w \notin Writers

Slip_Gated(w) ==
    PayloadOf(w) \in ReviewPayloads \ WritePayloads /\ ~held[w].cleared

\* The predeclared gate, decided on the job as it was when it was claimed.
Gated(w) == PayloadOf(w) \in ReviewPayloads /\ ~held[w].cleared

Refuse(w) ==
    /\ pc[w] = "gate" /\ Unrunnable(w)
    /\ Fail(JobOf(w), TokenOf(w), FALSE)
    /\ Return(w)

HoldForReview(w) ==
    /\ pc[w] = "gate" /\ ~Unrunnable(w) /\ Gated(w)
    /\ NeedsReview(JobOf(w), TokenOf(w), "predeclared")
    /\ Return(w)

Start(w) ==
    /\ pc[w] = "gate" /\ ~Unrunnable(w) /\ ~Gated(w)
    /\ StartRunning(JobOf(w), TokenOf(w))
    /\ IF StillOurs(w)
       THEN /\ Goto(w, "beat")
            /\ UNCHANGED <<held, inbox, aborted, verdict, stopping, writeTurns, approved>>
       ELSE Return(w)

\* The immediate heartbeat; if it is granted the turn starts in the same step
\* of the event loop, already aborted if the worker is shutting down.
TurnStarts(w) ==
    /\ Goto(w, "turn")
    /\ aborted' = [aborted EXCEPT ![w] = stopping[w]]
    /\ writeTurns' = IF PayloadOf(w) \in WritePayloads
                     THEN [writeTurns EXCEPT ![JobOf(w)] = @ + 1] ELSE writeTurns
    /\ UNCHANGED <<held, inbox, verdict, stopping, approved>>

Slip_BeginTurn(w) ==
    /\ pc[w] = "beat"
    /\ Read
    /\ IF StillOurs(w) THEN TurnStarts(w) ELSE Return(w)

BeginTurn(w) ==
    /\ pc[w] = "beat"
    /\ Heartbeat(JobOf(w), TokenOf(w), LeaseTime)
    /\ IF StillOurs(w) THEN TurnStarts(w) ELSE Return(w)

Slip_TickCheck(w) ==
    /\ pc[w] = "turn"
    /\ Read
    /\ IF StillOurs(w) THEN Goto(w, "renew") ELSE UNCHANGED pc
    /\ UNCHANGED <<held, inbox, aborted, verdict, stopping, writeTurns, approved>>

\* The heartbeat timer: getJob, and if the job is still ours, heartbeat.
TickCheck(w) ==
    /\ pc[w] = "turn"
    /\ Read
    /\ IF StillOurs(w) THEN Goto(w, "renew") /\ UNCHANGED aborted
       ELSE aborted' = [aborted EXCEPT ![w] = TRUE] /\ UNCHANGED pc
    /\ UNCHANGED <<held, inbox, verdict, stopping, writeTurns, approved>>

TickRenew(w) ==
    /\ pc[w] = "renew"
    /\ Heartbeat(JobOf(w), TokenOf(w), LeaseTime)
    /\ aborted' = [aborted EXCEPT ![w] = @ \/ ~StillOurs(w)]
    /\ Goto(w, "turn")
    /\ UNCHANGED <<held, inbox, verdict, stopping, writeTurns, approved>>

\* runTurn settles: with a result, a result the model flags for review, or an
\* error; an aborted turn may still end in any of these ways.
EndTurn(w, v) ==
    /\ pc[w] = "turn"
    /\ Goto(w, "decide")
    /\ verdict' = [verdict EXCEPT ![w] = v]
    /\ UNCHANGED <<vars, held, inbox, aborted, stopping, writeTurns, approved>>

\* "Decide based on the CURRENT store state": a cancel or a steal wins.
Decide(w) ==
    /\ pc[w] = "decide"
    /\ Read
    /\ IF StillOurs(w)
       THEN /\ Goto(w, "settle")
            /\ UNCHANGED <<held, inbox, aborted, verdict, stopping, writeTurns, approved>>
       ELSE Return(w)

Slip_SettleReleases(w) ==
    /\ pc[w] = "settle"
    /\ LET i == JobOf(w) k == TokenOf(w) IN
       \/ aborted[w] /\ Release(i, k)
       \/ ~aborted[w] /\ verdict[w] = "failed" /\ Fail(i, k, FALSE)
       \/ ~aborted[w] /\ verdict[w] = "flagged" /\ NeedsReview(i, k, "selfflagged")
       \/ ~aborted[w] /\ verdict[w] = "ok" /\ Complete(i, k)
    /\ Return(w)

\* The outcome is stored under the worker's token: an abort comes before an
\* error, an error before the result, whatever the turn returned.
Settle(w) ==
    /\ pc[w] = "settle"
    /\ LET i == JobOf(w) k == TokenOf(w) IN
       \/ aborted[w] /\ PayloadOf(w) \in WritePayloads /\ Park(i, k)
       \/ aborted[w] /\ PayloadOf(w) \notin WritePayloads /\ Release(i, k)
       \/ ~aborted[w] /\ verdict[w] = "failed" /\ Fail(i, k, FALSE)
       \/ ~aborted[w] /\ verdict[w] = "flagged" /\ NeedsReview(i, k, "selfflagged")
       \/ ~aborted[w] /\ verdict[w] = "ok" /\ Complete(i, k)
    /\ Return(w)

-----------------------------------------------------------------------------
(* What else happens to a worker.                                          *)

\* SIGINT/SIGTERM (worker.mjs): the loop ends, a turn that runs is aborted.
Stop(w) ==
    /\ w \in Mortal /\ ~stopping[w] /\ pc[w] \notin {"stopped", "dead"}
    /\ stopping' = [stopping EXCEPT ![w] = TRUE]
    /\ aborted' = [aborted EXCEPT ![w] = @ \/ pc[w] \in InTurn]
    /\ UNCHANGED <<vars, pc, held, inbox, verdict, writeTurns, approved>>

Leave(w) ==
    /\ pc[w] = "idle" /\ stopping[w]
    /\ Goto(w, "stopped")
    /\ UNCHANGED <<vars, held, inbox, aborted, verdict, stopping, writeTurns, approved>>

\* The process dies at any point: killed, or a store call in the heartbeat
\* timer threw (LOCK_TIMEOUT).  The last possible crash leaves its lease time
\* to run out before the clock stops.
Crash(w) ==
    /\ w \in Mortal /\ pc[w] \notin {"stopped", "dead"}
    /\ now <= Horizon
    /\ Goto(w, "dead")
    /\ held' = [held EXCEPT ![w] = None]
    /\ inbox' = [inbox EXCEPT ![w] = {}]
    /\ aborted' = [aborted EXCEPT ![w] = FALSE]
    /\ verdict' = [verdict EXCEPT ![w] = None]
    /\ UNCHANGED <<vars, stopping, writeTurns, approved>>

-----------------------------------------------------------------------------
(* Clients and operators.                                                  *)

\* Bound: enough claims are left for whatever the call puts in the queue.
ClaimsLeft == lastToken + MaxAttempts + Cardinality(Mortal) <= MaxToken

\* server.mjs enqueueFromArgs: a write task gets the policy "park".
ClientEnqueue(r, p) ==
    /\ \E ttl \in Ttls :
         Enqueue(r, Agent, p, IF p \in WritePayloads THEN "park" ELSE "requeue", ttl)
    /\ UNCHANGED <<workerVars, writeTurns, approved>>

ClientCancel(i) == Cancel(i) /\ UNCHANGED <<workerVars, writeTurns, approved>>

\* An operator's decision about a job; a new run is then allowed again.  (The
\* sweep of the call may be what parks the job.)
OperatorRecover(i) ==
    /\ Recover(i)
    /\ writeTurns' = IF CanClaim(jobs', i) /\ ~CanClaim(jobs, i)
                     THEN [writeTurns EXCEPT ![i] = 0] ELSE writeTurns
    /\ UNCHANGED <<workerVars, approved>>

OperatorResolve(i, approve) ==
    /\ ResolveReview(i, approve)
    /\ approved' = IF approve /\ CanResolve(jobs, i) THEN approved \cup {i} ELSE approved
    /\ UNCHANGED <<workerVars, writeTurns>>

Poll == Read /\ UNCHANGED <<workerVars, writeTurns, approved>>
TimePasses == Tick /\ UNCHANGED <<workerVars, writeTurns, approved>>

Others ==
    \/ \E r \in RequestIds, p \in Payloads : ClientEnqueue(r, p)
    \/ \E i \in JobIds : ClientCancel(i)
    \/ \E i \in JobIds : OperatorRecover(i)
    \/ \E i \in JobIds, approve \in BOOLEAN : OperatorResolve(i, approve)

InStore(w) ==
    \/ Drain(w) \/ ClaimNext(w) \/ Refuse(w) \/ HoldForReview(w) \/ Start(w)
    \/ BeginTurn(w) \/ TickCheck(w) \/ TickRenew(w) \/ Decide(w) \/ Settle(w)

TurnEnds(w) == \E v \in Verdicts : EndTurn(w, v)

WNext ==
    \/ \E w \in Workers : InStore(w) \/ TurnEnds(w) \/ Stop(w) \/ Leave(w) \/ Crash(w)
    \/ now <= Horizon /\ ClaimsLeft /\ Others
    \/ Poll
    \/ TimePasses

WSpec == WInit /\ [][WNext]_wvars

\* An executor ends its turn some time as long as the job is its own, and when it
\* is aborted.  (One that never ends keeps its job for ever.)  It is not assumed
\* to notice by itself that the job was lost.
Ending(w) ==
    /\ pc[w] = "turn"
    /\ aborted[w] \/ Owns(jobs, JobOf(w), TokenOf(w))
    /\ TurnEnds(w)

-----------------------------------------------------------------------------
(* Properties.                                                             *)

\* A write job is never run again on its own: between two turns of it lies an
\* operator's recover, whatever expires, crashes, stops or is stolen in between
\* (relay-worker.mjs:12-16).
WriteRunsOncePerDecision == \A i \in JobIds : writeTurns[i] <= 1

\* No turn of a job that requires review runs before an operator approved it,
\* on whichever claim and by whichever worker (relay-worker.mjs:217-222).
ReviewBeforeTurn ==
    \A w \in Workers : pc[w] \in InTurn /\ PayloadOf(w) \in ReviewPayloads
        => JobOf(w) \in approved

\* A turn starts only in a transaction that finds the job still owned by the
\* worker's claim, and with a whole lease before it, however much of the claim's
\* lease has gone by then (relay-worker.mjs:233-246).
TurnsStartOwned ==
    [][\A w \in Workers : pc[w] \notin InTurn /\ pc'[w] \in InTurn =>
         /\ Owns(jobs', JobOf(w), TokenOf(w))
         /\ jobs'[JobOf(w)].lease >= now + LeaseTime - LockWait]_wvars

\* Cooperative cancel: a turn whose job was cancelled, parked or claimed by
\* somebody else is aborted, if it has not ended (relay-worker.mjs:17-18).
Orphaned(w) ==
    pc[w] \in InTurn /\ ~aborted[w] /\ ~Owns(jobs, JobOf(w), TokenOf(w))
LostTurnsAbort == \A w \in Workers : Orphaned(w) ~> ~Orphaned(w)

=============================================================================
