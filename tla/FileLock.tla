------------------------------ MODULE FileLock ------------------------------
(***************************************************************************)
(* lib/file-lock.mjs: the interprocess lock around every store transaction *)
(* and every worker-lifecycle decision.  Any number of processes call      *)
(* withFileLock over and over; one step is one file-system call.           *)
(*                                                                         *)
(* The lock file is a record of the process that created it (its nonce is  *)
(* drawn anew for every call, and a process makes one call at a time, so   *)
(* the process stands for the nonce), whether the nonce was written into   *)
(* it yet, and its age.  Ages and waiting times are counted from the       *)
(* event, and are not told apart beyond the limit the code compares them   *)
(* with: time itself is unbounded.                                         *)
(*                                                                         *)
(* A process may stop between any two calls for as long as it likes, and   *)
(* those in Mortal may die there.  `Prompt` adds the assumption of         *)
(* relay-jobs.mjs:32-35: no holder keeps the lock for longer than          *)
(* lockStaleMs.                                                            *)
(***************************************************************************)
EXTENDS Integers

CONSTANTS
    Procs,      \* processes that call withFileLock
    Mortal,     \* those that may crash in the middle of a call
    Stale,      \* lockStaleMs
    Timeout,    \* lockTimeoutMs
    Prompt,     \* no live holder outstays Stale
    NoFile

ASSUME FileAssumption == NoFile \notin [owner : Procs, written : BOOLEAN, age : Nat]
ASSUME LimitsAssumption == Stale \in Nat /\ Timeout \in Nat
ASSUME MortalAssumption == Mortal \subseteq Procs
ASSUME PromptAssumption == Prompt \in BOOLEAN

VARIABLES
    lock,       \* the file at lockFile, or NoFile
    pc,         \* what each process does next
    waited,     \* Date.now() - start of the call
    everStale   \* history: some lock file has grown older than Stale

vars == <<lock, pc, waited, everStale>>

Steps == {"idle", "open", "write", "stat", "rename", "wait", "fn", "read",
          "unlink", "dead"}

\* From the exclusive create to the release a process takes itself for the holder.
Holding == {"write", "fn", "read", "unlink"}

File == [owner : Procs, written : BOOLEAN, age : 0..(Stale + 1)]

Goto(p, l) == pc' = [pc EXCEPT ![p] = l]
AtMost(n, limit) == IF n > limit THEN limit ELSE n

Init ==
    /\ lock = NoFile
    /\ pc = [p \in Procs |-> "idle"]
    /\ waited = [p \in Procs |-> 0]
    /\ everStale = FALSE

-----------------------------------------------------------------------------

\* withFileLock is called: a nonce is drawn and the wait starts now.
Call(p) ==
    /\ pc[p] = "idle"
    /\ Goto(p, "open")
    /\ waited' = [waited EXCEPT ![p] = 0]
    /\ UNCHANGED <<lock, everStale>>

\* openSync(lockFile, "wx"): creates the file, or fails because it exists.
Open(p) ==
    /\ pc[p] = "open"
    /\ \/ /\ lock = NoFile
          /\ lock' = [owner |-> p, written |-> FALSE, age |-> 0]
          /\ Goto(p, "write")
       \/ /\ lock # NoFile
          /\ Goto(p, "stat")
          /\ UNCHANGED lock
    /\ UNCHANGED <<waited, everStale>>

Slip_Write(p) ==
    /\ pc[p] = "write"
    /\ lock' = IF lock # NoFile /\ lock.owner = p
               THEN [lock EXCEPT !.owner = NoFile, !.age = 0] ELSE lock
    /\ Goto(p, "fn")
    /\ UNCHANGED <<waited, everStale>>

\* writeSync(fd, nonce): into the file this process created, wherever it is now.
Write(p) ==
    /\ pc[p] = "write"
    /\ lock' = IF lock # NoFile /\ lock.owner = p
               THEN [lock EXCEPT !.written = TRUE, !.age = 0] ELSE lock
    /\ Goto(p, "fn")
    /\ UNCHANGED <<waited, everStale>>

\* The write or its fsync fails (no space left): the call throws and the file
\* stays; nobody compares its nonce, if it has one, with anything any more.
CreateFails(p) ==
    /\ pc[p] = "write"
    /\ Goto(p, "idle")
    /\ UNCHANGED <<lock, waited, everStale>>

Slip_Stat(p) ==
    /\ pc[p] = "stat"
    /\ Goto(p, IF lock # NoFile THEN "rename" ELSE "wait")
    /\ UNCHANGED <<lock, waited, everStale>>

\* statSync: is the file at lockFile stale?  It may have vanished.
Stat(p) ==
    /\ pc[p] = "stat"
    /\ Goto(p, IF lock # NoFile /\ lock.age > Stale THEN "rename" ELSE "wait")
    /\ UNCHANGED <<lock, waited, everStale>>

Slip_Rename(p) ==
    /\ pc[p] = "rename"
    /\ Goto(p, "open")
    /\ UNCHANGED <<lock, waited, everStale>>

\* renameSync: takes whatever file is at lockFile by now; the unlink of the
\* renamed file touches a name no other process uses.
Rename(p) ==
    /\ pc[p] = "rename"
    /\ lock' = NoFile
    /\ Goto(p, IF lock # NoFile THEN "open" ELSE "wait")
    /\ UNCHANGED <<waited, everStale>>

Slip_Wait(p) ==
    /\ pc[p] = "wait"
    /\ Goto(p, "open")
    /\ UNCHANGED <<lock, waited, everStale>>

\* Give up after lockTimeoutMs (the call throws), else sleep and try again.
Wait(p) ==
    /\ pc[p] = "wait"
    /\ Goto(p, IF waited[p] > Timeout THEN "idle" ELSE "open")
    /\ UNCHANGED <<lock, waited, everStale>>

\* fn() runs, synchronously, and returns or throws.
Fn(p) ==
    /\ pc[p] = "fn"
    /\ Goto(p, "read")
    /\ UNCHANGED <<lock, waited, everStale>>

\* readFileSync(lockFile) === nonce
ReadBack(p) ==
    /\ pc[p] = "read"
    /\ Goto(p, IF lock # NoFile /\ lock.written /\ lock.owner = p
               THEN "unlink" ELSE "idle")
    /\ UNCHANGED <<lock, waited, everStale>>

\* unlinkSync(lockFile): removes whatever file is there by now.
Unlink(p) ==
    /\ pc[p] = "unlink"
    /\ lock' = NoFile
    /\ Goto(p, "idle")
    /\ UNCHANGED <<waited, everStale>>

\* The process dies; what it created stays on disk.
Crash(p) ==
    /\ p \in Mortal
    /\ pc[p] \notin {"idle", "dead"}
    /\ Goto(p, "dead")
    /\ UNCHANGED <<lock, waited, everStale>>

\* Time passes for the lock file and for everybody who waits.
Outstays == lock # NoFile /\ lock.age >= Stale /\ pc[lock.owner] \in Holding
Waiting == {"open", "stat", "rename", "wait"}

Tick ==
    /\ Prompt => ~Outstays
    /\ lock' = IF lock = NoFile THEN lock
               ELSE [lock EXCEPT !.age = AtMost(@ + 1, Stale + 1)]
    /\ waited' = [p \in Procs |-> IF pc[p] \in Waiting
                                  THEN AtMost(waited[p] + 1, Timeout + 1)
                                  ELSE waited[p]]
    /\ everStale' = (everStale \/ (lock # NoFile /\ lock.age >= Stale))
    /\ UNCHANGED pc

Work(p) ==
    \/ Open(p) \/ Write(p) \/ Stat(p) \/ Rename(p) \/ Wait(p)
    \/ Fn(p) \/ ReadBack(p) \/ Unlink(p)

Next == (\E p \in Procs : Call(p) \/ Work(p) \/ CreateFails(p) \/ Crash(p)) \/ Tick

Spec == Init /\ [][Next]_vars

\* A process that lives carries its call on and goes on making calls (workers
\* and servers poll the store), time passes, and the disk is not full again and
\* again for ever: a waiter that steals one file after another never looks at
\* its timeout.
FairSpec ==
    /\ Spec
    /\ \A p \in Procs : WF_vars(Work(p)) /\ WF_vars(Call(p))
    /\ WF_vars(Tick)
    /\ <>[][\A p \in Procs : ~CreateFails(p)]_vars

-----------------------------------------------------------------------------
(* Properties.                                                             *)

\* The shape of the state.
TypeOK ==
    /\ lock \in File \cup {NoFile}
    /\ pc \in [Procs -> Steps]
    /\ waited \in [Procs -> 0..(Timeout + 1)]
    /\ everStale \in BOOLEAN

\* Two processes are never both between taking and giving back the lock.
MutualExclusion ==
    \A p, q \in Procs : pc[p] \in Holding /\ pc[q] \in Holding => p = q

\* As long as no lock file has ever grown stale the lock excludes, even though
\* create, write, read-back and unlink are separate calls that any number of
\* processes interleave (file-lock.mjs:5-7).
ExcludesUntilStale == everStale \/ MutualExclusion

\* A lock whose holder died does not block the others for ever: somebody takes
\* it away once it is stale (file-lock.mjs:56-66).
DeadLocksVanish ==
    \A p \in Procs : (lock # NoFile /\ lock.owner = p /\ pc[p] = "dead")
                        ~> (lock = NoFile \/ lock.owner # p)

\* A call ends: it gets the lock, or gives up after lockTimeoutMs, whoever else
\* takes the lock in the meantime.
WaitsEnd ==
    \A p \in Procs : pc[p] \in Waiting ~> pc[p] \notin Waiting

\* relay-jobs.mjs:21-24 and file-lock.mjs:79-80: "a process can never delete
\* another process's lock".  Held to what those lines promise when no live
\* holder outstays lockStaleMs: the lock of a live holder goes only by its hand.
KeepsLiveLocks ==
    [][lock # NoFile /\ pc[lock.owner] \in Holding /\ lock' = NoFile
         => pc'[lock.owner] # pc[lock.owner]]_vars

=============================================================================
