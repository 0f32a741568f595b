----------------------------- MODULE AtomicStore -----------------------------
(***************************************************************************)
(* What the header of lib/relay-jobs.mjs (lines 18-35) promises about the  *)
(* file it keeps the jobs in, without locks, temporary files or processes. *)
(* Transactions come one by one: each starts from the store as it is and   *)
(* takes effect whole or not at all.  A power failure goes back to a store *)
(* that was in place, no further than the last one made durable; what was  *)
(* reported as done is in every store it may leave.  A damaged file serves *)
(* nobody until it is reset (or replaced by a transaction that had read it *)
(* before).  Two things void the promise, as the header says: a lock that  *)
(* was stolen from a live holder (`broken`), and a power failure on a      *)
(* system that cannot sync a directory (~durable).                         *)
(***************************************************************************)
CONSTANTS
    Ops,        \* transactions
    Corrupt     \* what a file holds that JSON.parse rejects: no set of transactions

VARIABLES
    store,      \* the transactions whose effect the file shows, or Corrupt
    possible,   \* the stores a power failure may leave
    pending,    \* the store the transaction under way will put in place
    reported,   \* transactions whose events are logged
    broken,     \* two processes have been in the lock at once
    damaged,    \* something else has written to the file (it does once)
    lost,       \* the power has failed (it does once)
    durable     \* directories can be synced

faults == <<broken, damaged, lost>>
vars == <<store, possible, pending, reported, faults, durable>>

Init ==
    /\ store = {}
    /\ possible = {store}
    /\ pending = {}
    /\ reported = {}
    /\ broken = FALSE
    /\ damaged = FALSE
    /\ lost = FALSE
    /\ durable \in BOOLEAN

-----------------------------------------------------------------------------

\* A transaction starts: from the store as it is, and only if it can be read.
Begin(o) ==
    /\ pending = {}
    /\ store # Corrupt
    /\ o \notin store
    /\ pending' = {store \cup {o}}
    /\ UNCHANGED <<store, possible, reported, faults>>

\* An operator starts afresh; the old file is put aside at once, or overwritten.
BeginReset ==
    /\ pending = {}
    /\ pending' = {{}}
    /\ \/ /\ store' = {}
          /\ possible' = possible \cup {{}}
          /\ reported' = {}
       \/ UNCHANGED <<store, possible, reported>>
    /\ UNCHANGED faults

\* It takes effect; only a reset takes back what was reported.
Commit ==
    \E S \in pending :
        /\ store' = S
        /\ possible' = possible \cup {S}
        /\ pending' = {}
        /\ reported' = IF S = {} THEN {} ELSE reported
        /\ UNCHANGED faults

\* It fails, or its process dies: nothing has happened.
Abandon ==
    /\ pending' = {}
    /\ UNCHANGED <<store, possible, reported, faults>>

\* The store in place is the one a power failure will leave.
Sync ==
    /\ durable
    /\ possible' = {store}
    /\ UNCHANGED <<store, pending, reported, faults>>

\* What is reported is in the store, and will be whatever happens.
Report(o) ==
    /\ \A S \in {store} \cup (IF durable THEN possible ELSE {}) : S # Corrupt => o \in S
    /\ reported' = reported \cup {o}
    /\ UNCHANGED <<store, possible, pending, faults>>

-----------------------------------------------------------------------------

\* Something that is not this program writes to the file.
Damage ==
    /\ ~damaged
    /\ damaged' = TRUE
    /\ store' = Corrupt
    /\ possible' = possible \cup {Corrupt}
    /\ UNCHANGED <<pending, reported, broken, lost>>

\* Where directories cannot be synced it may take back what was reported.
PowerLoss ==
    /\ ~lost
    /\ lost' = TRUE
    /\ store' \in possible
    /\ possible' = {store'}
    /\ pending' = {}
    /\ reported' = IF durable \/ store' = Corrupt THEN reported ELSE reported \cap store'
    /\ UNCHANGED <<broken, damaged>>

\* A live holder's lock is stolen; that alone changes nothing.
Break ==
    /\ broken' = TRUE
    /\ UNCHANGED <<store, possible, pending, reported, damaged, lost>>

\* Two writers from then on: one's transactions may be lost, but nothing is torn.
Overwrite ==
    /\ broken
    /\ store' \in (SUBSET Ops) \cup {store}
    /\ possible' \subseteq (SUBSET Ops) \cup possible
    /\ pending' \subseteq SUBSET Ops
    /\ reported' \subseteq Ops
    /\ UNCHANGED faults

Next ==
    /\ \/ \E o \in Ops : Begin(o) \/ Report(o)
       \/ BeginReset \/ Commit \/ Abandon \/ Sync
       \/ Damage \/ PowerLoss \/ Break \/ Overwrite
    /\ UNCHANGED durable

Spec == Init /\ [][Next]_vars

=============================================================================
