------------------------------ MODULE RelayTurns ------------------------------
(***************************************************************************)
(* RelayWorker with a record of the turns: which claim began the last turn *)
(* of each job, and what became of that turn and of its claim.  The record *)
(* is history: no step depends on it.  It says what a result in the store  *)
(* has to come from, apart from the fields the store keeps itself.         *)
(***************************************************************************)
EXTENDS RelayWorker

VARIABLE lastTurn   \* history: the last turn begun for each job

tvars == <<wvars, lastTurn>>

\* A turn is open until it returns something that may be stored (it is good then),
\* or the claim it runs under is lost (it is void, whatever it returns).
Turns == [token : Opt(Nat), end : {"open", "good", "void"}]
NoTurn == [token |-> None, end |-> "void"]

TInit == WInit /\ lastTurn = [i \in JobIds |-> NoTurn]

\* runTurn is called for the job.
Begins(w, i) == pc[w] = "beat" /\ pc'[w] = "turn" /\ JobOf(w) = i

\* It returns a result, for review or not, and was not aborted before.
Returns(w, i) ==
    /\ pc[w] = "turn" /\ pc'[w] = "decide" /\ JobOf(w) = i
    /\ TokenOf(w) = lastTurn[i].token /\ lastTurn[i].end = "open"
    /\ verdict'[w] \in {"ok", "flagged"} /\ ~aborted[w]

\* The settling call of the worker whose turn it was: it gives the claim up.
Settles(w, i) ==
    /\ pc[w] = "settle" /\ pc'[w] = "idle" /\ JobOf(w) = i
    /\ TokenOf(w) = lastTurn[i].token

\* The claim the turn ran under was in force and is not any more: the job was
\* cancelled, parked, put back in the queue, settled or swept away.
LosesClaim(i) ==
    /\ Owns(jobs, i, lastTurn[i].token) /\ ~Owns(jobs', i, lastTurn[i].token)
    /\ ~\E w \in Workers : Settles(w, i)

TurnAfter(i) ==
    IF \E w \in Workers : Begins(w, i) THEN [token |-> jobs'[i].token, end |-> "open"]
    ELSE IF \E w \in Workers : Returns(w, i) THEN [lastTurn[i] EXCEPT !.end = "good"]
    ELSE IF LosesClaim(i) THEN [lastTurn[i] EXCEPT !.end = "void"]
    ELSE lastTurn[i]

TNext == WNext /\ lastTurn' = [i \in JobIds |-> TurnAfter(i)]

TSpec == TInit /\ [][TNext]_tvars

-----------------------------------------------------------------------------

\* A result in the store, completed, waiting for review or turned down, is what the
\* last turn of the job returned, and that turn was not aborted and had kept its
\* claim until its worker stored it: a turn whose job was cancelled, expired, parked
\* or given to another worker leaves no result, whenever that happens between its
\* start and the settling call (relay-worker.mjs:273-332, relay-jobs.mjs:567).
ResultsOfLastTurn ==
    \A i \in DOMAIN jobs :
        jobs[i].result # None => lastTurn[i] = [token |-> jobs[i].result, end |-> "good"]

=============================================================================
