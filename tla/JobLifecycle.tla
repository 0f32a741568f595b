---------------------------- MODULE JobLifecycle ----------------------------
(***************************************************************************)
(* What the relay promises about the life of a job, whatever the clock,    *)
(* the callers and the store do: the abstract specification RelayJobs      *)
(* implements.  One step is one locked transaction of the store: first     *)
(* time passes for every job at once (the sweep), then at most one job     *)
(* moves because somebody called an operation on it.                       *)
(*                                                                         *)
(* A job is unborn, then in one of the nine states of the relay, and gone  *)
(* once the store has dropped it.  `policy` is its leaseExpiryPolicy.      *)
(***************************************************************************)
CONSTANT Ids

VARIABLES life, policy

lifeVars == <<life, policy>>

Working == {"claimed", "running"}
Finished == {"completed", "failed", "cancelled", "expired"}
AwaitingOperator == {"needs_recovery", "needs_review"}
Born == {"queued"} \cup Working \cup Finished \cup AwaitingOperator

Init ==
    /\ life = [i \in Ids |-> "unborn"]
    /\ policy = [i \in Ids |-> "requeue"]

\* Where the passing of time may take a job.  Work that may have had side
\* effects stops and waits for an operator; nothing that waits for an
\* operator moves; only finished jobs disappear.
AfterTime(i) ==
    LET s == life[i]
        moved == IF s = "queued" THEN {"expired"}
                 ELSE IF s \in Working
                 THEN IF policy[i] = "park" THEN {"needs_recovery"}
                      ELSE {"queued", "failed", "expired"}
                 ELSE {}
        reached == {s} \cup moved
    IN  reached \cup (IF reached \cap Finished # {} THEN {"gone"} ELSE {})

\* Where one call may take a job that is in state s.
AfterCall(s) ==
    CASE s = "unborn"         -> {"queued"}
      [] s = "queued"         -> {"claimed", "cancelled"}
      [] s = "claimed"        -> {"running", "needs_review"} \cup
                                 {"queued", "completed", "failed", "cancelled",
                                  "needs_recovery"}
      [] s = "running"        -> {"needs_review", "queued", "completed", "failed",
                                  "cancelled", "needs_recovery"}
      [] s = "needs_recovery" -> {"queued"}
      [] s = "needs_review"   -> {"queued", "completed", "failed"}
      [] OTHER                -> {}

Called(i) == UNION {AfterCall(s) : s \in AfterTime(i)}

\* A policy is chosen when the job is created and kept while it exists.
PolicyStep(i) ==
    IF life[i] = "unborn" /\ life'[i] = "queued"
    THEN policy'[i] \in {"requeue", "park"}
    ELSE policy'[i] = IF life'[i] = "gone" THEN "requeue" ELSE policy[i]

Transaction ==
    \E called \in SUBSET Ids :
        /\ \A i, j \in called : i = j
        /\ \A i \in Ids :
             life'[i] \in (IF i \in called THEN Called(i) ELSE AfterTime(i))
        /\ \A i \in Ids : PolicyStep(i)

\* resetStore: an operator throws the whole store away.
Reset ==
    /\ life' = [i \in Ids |-> IF life[i] = "unborn" THEN "unborn" ELSE "gone"]
    /\ policy' = [i \in Ids |-> "requeue"]

Spec == Init /\ [][Transaction \/ Reset]_lifeVars

=============================================================================
