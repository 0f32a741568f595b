------------------------------ MODULE StoreFile ------------------------------
(***************************************************************************)
(* lib/relay-jobs.mjs, withStore and resetStore down to the file system:   *)
(* FileLock, with the function that runs under the lock refined into the   *)
(* calls it makes on the store file.  A transaction is a name for what it  *)
(* adds to the store; a store is the set of the transactions it shows.     *)
(*                                                                         *)
(* Processes die (Crash), the whole machine loses its power (PowerLoss: a  *)
(* file's data is lost unless it was synced, a rename unless the directory *)
(* was), and something else may write garbage to the file (Damage).        *)
(***************************************************************************)
EXTENDS FileLock

CONSTANTS
    MaxOps,     \* bound: transactions that write
    Absent,     \* there is no store file
    Corrupt     \* a file that JSON.parse rejects

Ops == 1..MaxOps

ASSUME OpsAssumption == MaxOps \in Nat
ASSUME FileStatesAssumption ==
    Absent # Corrupt /\ \A S \in SUBSET Ops : S \notin {Absent, Corrupt}

VARIABLES
    file,       \* what relay-state.json holds
    disk,       \* what it may hold after a power failure
    tmp,        \* the temporary files, by name
    mem,        \* the store each process has loaded or is writing
    at,         \* where each process is within the function under the lock
    op,         \* the transaction each process is writing, 0 for none and for a reset
    lastOp,     \* transactions so far
    reported,   \* history: transactions whose events were appended
    broken,     \* history: two processes have been in the lock at once
    damaged,    \* history: something else has written to the file
    lost,       \* history: there has been a power failure
    dirSync     \* the platform can fsync a directory

content == <<file, disk, tmp>>
trouble == <<damaged, lost, dirSync>>
svars == <<vars, content, mem, at, op, lastOp, reported, broken, trouble>>

Persisting == {"write", "fsync", "swap"}
Places == {"out", "begin", "dirsync", "emit"} \cup Persisting
NoTmp == [data |-> {}, whole |-> FALSE, synced |-> FALSE]

\* The name of the temporary file: pid and a random string.
Slip_TmpName(p) == CHOOSE q \in Procs : TRUE
TmpName(p) == p

SInit ==
    /\ Init
    /\ file = Absent
    /\ disk = {Absent}
    /\ tmp = [n \in Procs |-> NoTmp]
    /\ mem = [p \in Procs |-> {}]
    /\ at = [p \in Procs |-> "out"]
    /\ op = [p \in Procs |-> 0]
    /\ lastOp = 0
    /\ reported = {}
    /\ broken = FALSE
    /\ damaged = FALSE
    /\ lost = FALSE
    /\ dirSync \in BOOLEAN

-----------------------------------------------------------------------------
(* The lock around it.                                                     *)

Move(p, l) == at' = [at EXCEPT ![p] = l]

\* A call of withStore or resetStore.
StoreCall(p) == Call(p) /\ UNCHANGED <<content, mem, at, op, lastOp, reported, trouble>>

\* Taking the lock, or failing to: the write of the nonce is followed by fn().
Acquire(p) ==
    /\ Open(p) \/ Write(p) \/ CreateFails(p) \/ Stat(p) \/ Rename(p) \/ Wait(p)
    /\ Move(p, IF pc'[p] = "fn" THEN "begin" ELSE "out")
    /\ UNCHANGED <<content, mem, op, lastOp, reported, trouble>>

GiveBack(p) ==
    /\ ReadBack(p) \/ Unlink(p)
    /\ UNCHANGED <<content, mem, at, op, lastOp, reported, trouble>>

\* fn() has returned or thrown.
Done(p) == Fn(p) /\ Move(p, "out")

-----------------------------------------------------------------------------
(* withStore.                                                              *)

Inside(p, l) == pc[p] = "fn" /\ at[p] = l
Stay == UNCHANGED <<vars, op, lastOp, trouble>>

\* The store a file stands for (normalizeStore makes one of any JSON).
Loaded == IF file \in {Absent, Corrupt} THEN {} ELSE file

Slip_LoadThrows == FALSE

\* loadStore throws on a file that is not JSON, on every call.
LoadThrows == file = Corrupt

\* loadStore, the sweep and the operation.  Nothing is written if neither has
\* changed anything, if the operation throws, or if loadStore does.
Load(p) ==
    /\ Inside(p, "begin")
    /\ \/ /\ Done(p)
          /\ UNCHANGED <<content, mem, op, lastOp, reported, trouble>>
       \/ /\ ~LoadThrows
          /\ lastOp < MaxOps
          /\ lastOp' = lastOp + 1
          /\ op' = [op EXCEPT ![p] = lastOp']
          /\ mem' = [mem EXCEPT ![p] = Loaded \cup {lastOp'}]
          /\ tmp' = [tmp EXCEPT ![TmpName(p)] = NoTmp]
          /\ Move(p, "write")
          /\ UNCHANGED <<vars, file, disk, reported, trouble>>

Slip_Archive(p) ==
    /\ Inside(p, "begin")
    /\ UNCHANGED <<file, disk, reported>>
    /\ mem' = [mem EXCEPT ![p] = Loaded]
    /\ Move(p, "write")
    /\ tmp' = [tmp EXCEPT ![TmpName(p)] = NoTmp]
    /\ Stay

\* resetStore: the file is renamed out of the way, unless it is not there, the
\* caller does not want an archive or the rename fails; then an empty store is
\* persisted over whatever is there.
Archive(p) ==
    /\ Inside(p, "begin")
    /\ \/ /\ file # Absent
          /\ file' = Absent
          /\ disk' = disk \cup {Absent}
          /\ reported' = {}
       \/ UNCHANGED <<file, disk, reported>>
    /\ mem' = [mem EXCEPT ![p] = {}]
    /\ Move(p, "write")
    /\ tmp' = [tmp EXCEPT ![TmpName(p)] = NoTmp]
    /\ Stay

\* persistStore: writeFileSync(fd, data), into the file just created.
WriteTmp(p) ==
    /\ Inside(p, "write")
    /\ tmp' = [tmp EXCEPT ![TmpName(p)] =
                    [data |-> mem[p], whole |-> TRUE, synced |-> FALSE]]
    /\ Move(p, "fsync")
    /\ Stay /\ UNCHANGED <<file, disk, mem, reported>>

FsyncTmp(p) ==
    /\ Inside(p, "fsync")
    /\ tmp' = [tmp EXCEPT ![TmpName(p)].synced = TRUE]
    /\ Move(p, "swap")
    /\ Stay /\ UNCHANGED <<file, disk, mem, reported>>

\* renameSync(tmp, file).  The new name is on the disk once the directory is
\* synced, and may be there earlier.
Swap(p) ==
    LET t == tmp[TmpName(p)] IN
    /\ Inside(p, "swap")
    /\ file' = IF t.whole THEN t.data ELSE Corrupt
    /\ disk' = disk \cup {IF t.whole /\ t.synced THEN t.data ELSE Corrupt}
    /\ tmp' = [tmp EXCEPT ![TmpName(p)] = NoTmp]
    /\ reported' = IF op[p] = 0 THEN {} ELSE reported
    /\ Move(p, "dirsync")
    /\ Stay /\ UNCHANGED mem

\* fsync of the directory, where that is supported.
SyncDir(p) ==
    /\ Inside(p, "dirsync")
    /\ disk' = IF dirSync THEN {file} ELSE disk
    /\ Move(p, "emit")
    /\ Stay /\ UNCHANGED <<file, tmp, mem, reported>>

\* emitEvents, and the return of fn().
Emit(p) ==
    /\ Inside(p, "emit")
    /\ Done(p)
    /\ reported' = IF op[p] = 0 THEN reported ELSE reported \cup {op[p]}
    /\ mem' = [mem EXCEPT ![p] = {}]
    /\ op' = [op EXCEPT ![p] = 0]
    /\ UNCHANGED <<content, lastOp, trouble>>

\* A call of persistStore throws (no space left): fn() throws, and the
\* temporary file stays behind under a name nobody uses again.
PersistFails(p) ==
    /\ pc[p] = "fn" /\ at[p] \in Persisting
    /\ Done(p)
    /\ tmp' = [tmp EXCEPT ![TmpName(p)] = NoTmp]
    /\ mem' = [mem EXCEPT ![p] = {}]
    /\ op' = [op EXCEPT ![p] = 0]
    /\ UNCHANGED <<file, disk, lastOp, reported, trouble>>

Inner(p) ==
    \/ Load(p) \/ Archive(p) \/ WriteTmp(p) \/ FsyncTmp(p) \/ PersistFails(p)
    \/ Swap(p) \/ SyncDir(p) \/ Emit(p)

-----------------------------------------------------------------------------
(* Faults, and time.                                                       *)

Die(p) ==
    /\ Crash(p)
    /\ Move(p, "out")
    /\ mem' = [mem EXCEPT ![p] = {}]
    /\ op' = [op EXCEPT ![p] = 0]
    /\ UNCHANGED <<content, lastOp, reported, trouble>>

\* Everything stops; what was not synced may be gone, the lock file may or may
\* not be; other processes take over.
PowerLoss ==
    /\ ~lost
    /\ lost' = TRUE
    /\ \E c \in disk : file' = c /\ disk' = {c}
    /\ reported' = IF dirSync \/ file' = Corrupt THEN reported
                   ELSE reported \cap Loaded'
    /\ lock' \in {lock, NoFile}
    /\ pc' = [p \in Procs |-> "idle"]
    /\ at' = [p \in Procs |-> "out"]
    /\ mem' = [p \in Procs |-> {}]
    /\ op' = [p \in Procs |-> 0]
    /\ tmp' = [n \in Procs |-> NoTmp]
    /\ UNCHANGED <<waited, everStale, lastOp, damaged, dirSync>>

\* Something that is not this program writes to the file.
Damage ==
    /\ ~damaged
    /\ damaged' = TRUE
    /\ file' = Corrupt
    /\ disk' = disk \cup {Corrupt}
    /\ UNCHANGED <<vars, tmp, mem, at, op, lastOp, reported, lost, dirSync>>

STick == Tick /\ UNCHANGED <<content, mem, at, op, lastOp, reported, trouble>>

SNext ==
    /\ \/ \E p \in Procs : StoreCall(p) \/ Acquire(p) \/ GiveBack(p) \/ Inner(p) \/ Die(p)
       \/ PowerLoss \/ Damage \/ STick
    /\ broken' = (broken \/ ~MutualExclusion')

SSpec == SInit /\ [][SNext]_svars

-----------------------------------------------------------------------------
(* Properties.                                                             *)

\* However processes die, lose their power or write at the same time (even two
\* of them under a stolen lock), the program never leaves a file behind that it
\* cannot read: a store that is corrupt now, or would be after a power failure,
\* was damaged by something else (relay-jobs.mjs:17-20).
NeverTorn == Corrupt \in disk \cup {file} => damaged

\* As long as no two processes were in the lock at once, a store that can be
\* read shows everything that was reported since the last reset: nothing is
\* lost to another process's write, to a crash, to a power failure, or to a
\* damaged file being taken for an empty one (relay-jobs.mjs:19-22).
ReportedStays ==
    ~broken /\ file # Corrupt => reported \subseteq Loaded

\* The store a file is; one that is missing is empty.
AsStore(c) == IF c = Absent THEN {} ELSE c

\* The file system calls implement the promise of AtomicStore: a transaction is
\* under way from its load to the rename, which is where it takes effect.
Promise == INSTANCE AtomicStore WITH
    store <- AsStore(file),
    possible <- {AsStore(c) : c \in disk},
    pending <- {mem[p] : p \in {q \in Procs : at[q] \in Persisting}},
    durable <- dirSync
ImplementsAtomicStore == Promise!Spec

=============================================================================
