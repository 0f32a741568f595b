------------------------- MODULE StoreFileRefinement -------------------------
(***************************************************************************)
(* StoreFile implements AtomicStore, for any set of processes, any number  *)
(* of transactions and whatever the lock does.                             *)
(***************************************************************************)
EXTENDS StoreFileProofs

\* Only transactions that were begun are in files and in memory.
Numbered ==
    /\ \A c \in disk \cup {file} : Shows(c) \subseteq 1..lastOp
    /\ \A p \in Procs : mem[p] \subseteq 1..lastOp

\* A reset persists an empty store.
Emptied == \A p \in Procs : at[p] \in Persisting /\ op[p] = 0 => mem[p] = {}

\* The additions to the inductive invariant the refinement needs.
RInv == broken \in BOOLEAN /\ Numbered /\ Emptied

-----------------------------------------------------------------------------
(* The additional invariant.                                               *)

LEMMA InitRInv == SInit => RInv
BY DEF SInit, RInv, Numbered, Emptied, Shows, Persisting

\* Steps that begin no transaction and put nothing new in the file.
LEMMA RStillStep ==
    ASSUME RInv, broken' \in BOOLEAN, lastOp' = lastOp,
           disk' \cup {file'} \subseteq disk \cup {file, Corrupt},
           \A q \in Procs :
               /\ mem'[q] \in {mem[q], {}}
               /\ at'[q] \in Persisting =>
                     at[q] \in Persisting /\ UNCHANGED <<mem[q], op[q]>>
    PROVE  RInv'
<1>1. Shows(Corrupt) = {}
  BY DEF Shows
<1>2. Numbered'
  <2>1. \A c \in disk' \cup {file'} : Shows(c) \subseteq 1..lastOp'
    BY <1>1 DEF RInv, Numbered
  <2>2. \A q \in Procs : mem'[q] \subseteq 1..lastOp'
    BY DEF RInv, Numbered
  <2>3. QED BY <2>1, <2>2 DEF Numbered
<1>3. Emptied'
  BY DEF RInv, Emptied
<1>4. QED BY <1>2, <1>3 DEF RInv

LEMMA OutsideRStep ==
    ASSUME SInv, RInv, Watched, NEW p \in Procs,
           StoreCall(p) \/ Acquire(p) \/ GiveBack(p) \/ Die(p)
    PROVE  RInv'
<1>1. lastOp' = lastOp /\ UNCHANGED <<file, disk>>
  BY DEF StoreCall, Acquire, GiveBack, Die, content
<1>2. ASSUME NEW q \in Procs
      PROVE  /\ mem'[q] \in {mem[q], {}}
             /\ at'[q] \in Persisting =>
                   at[q] \in Persisting /\ UNCHANGED <<mem[q], op[q]>>
  BY DEF StoreCall, Acquire, GiveBack, Die, Move, Persisting, SInv, Shape
<1>3. QED BY <1>1, <1>2, RStillStep DEF Watched

LEMMA FaultRStep ==
    ASSUME SInv, RInv, Watched, PowerLoss \/ Damage \/ STick
    PROVE  RInv'
<1>1. CASE PowerLoss
  <2>1. \A q \in Procs : at'[q] \notin Persisting /\ mem'[q] = {}
    BY <1>1 DEF PowerLoss, Persisting
  <2>2. lastOp' = lastOp /\ disk' \cup {file'} \subseteq disk
    BY <1>1 DEF PowerLoss
  <2>3. QED BY <2>1, <2>2, RStillStep DEF Watched
<1>2. CASE Damage
  <2>1. /\ lastOp' = lastOp /\ file' = Corrupt
        /\ disk' \cup {file'} \subseteq disk \cup {Corrupt}
        /\ UNCHANGED <<at, mem, op>>
    BY <1>2 DEF Damage
  <2>2. QED BY <2>1, RStillStep DEF Watched
<1>3. CASE STick
  <2>1. lastOp' = lastOp /\ UNCHANGED <<file, disk, at, mem, op>>
    BY <1>3 DEF STick, content
  <2>2. QED BY <2>1, RStillStep DEF Watched
<1>4. QED BY <1>1, <1>2, <1>3

LEMMA QuietRStep ==
    ASSUME SInv, RInv, Watched, NEW p \in Procs,
           WriteTmp(p) \/ FsyncTmp(p) \/ SyncDir(p) \/ Emit(p) \/ PersistFails(p)
    PROVE  RInv'
<1>1. lastOp' = lastOp /\ file' = file /\ disk' \subseteq disk \cup {file}
  BY DEF WriteTmp, FsyncTmp, SyncDir, Emit, PersistFails, Stay, content
<1>2. ASSUME NEW q \in Procs
      PROVE  /\ mem'[q] \in {mem[q], {}}
             /\ at'[q] \in Persisting =>
                   at[q] \in Persisting /\ UNCHANGED <<mem[q], op[q]>>
  <2>1. CASE WriteTmp(p) \/ FsyncTmp(p)
    BY <2>1 DEF WriteTmp, FsyncTmp, Inside, Stay, Move, Persisting, SInv, Shape
  <2>2. CASE SyncDir(p) \/ Emit(p) \/ PersistFails(p)
    BY <2>2 DEF SyncDir, Emit, PersistFails, Done, Stay, Move, Persisting, SInv, Shape
  <2>3. QED BY <2>1, <2>2
<1>3. QED BY <1>1, <1>2, RStillStep DEF Watched

\* The load of a transaction that writes: it reads the store and adds one that
\* nobody has begun before.
Writes(p) ==
    /\ pc[p] = "fn" /\ at[p] = "begin" /\ file # Corrupt
    /\ lastOp' = lastOp + 1
    /\ op' = [op EXCEPT ![p] = lastOp']
    /\ mem' = [mem EXCEPT ![p] = Loaded \cup {lastOp'}]
    /\ at' = [at EXCEPT ![p] = "write"]
    /\ UNCHANGED <<pc, file, disk, reported, damaged, lost, dirSync>>

ReadsOnly(p) == Done(p) /\ UNCHANGED <<content, mem, op, lastOp, reported, trouble>>

LEMMA LoadCases == ASSUME NEW p \in Procs, Load(p) PROVE ReadsOnly(p) \/ Writes(p)
BY DEF Load, Inside, LoadThrows, Move, ReadsOnly, Writes, vars, trouble

LEMMA LoadRStep ==
    ASSUME SInv, RInv, Watched, NEW p \in Procs, Load(p)
    PROVE  RInv'
<1>1. CASE ReadsOnly(p)
  <2>1. /\ lastOp' = lastOp /\ UNCHANGED <<file, disk, mem, op>>
        /\ at' = [at EXCEPT ![p] = "out"]
    BY <1>1 DEF ReadsOnly, content, Done, Move
  <2>2. \A q \in Procs : at'[q] \in Persisting => at[q] \in Persisting
    BY <2>1 DEF Persisting, SInv, Shape
  <2>3. QED BY <2>1, <2>2, RStillStep DEF Watched
<1>2. CASE Writes(p)
  <2>1. lastOp \in Nat
    BY DEF SInv, Shape
  <2>2. /\ 1..lastOp \subseteq 1..lastOp' /\ lastOp' \in 1..lastOp' /\ lastOp' # 0
        /\ UNCHANGED <<file, disk>>
    BY <1>2, <2>1 DEF Writes
  <2>3. Loaded \subseteq 1..lastOp
    BY LoadedShows DEF RInv, Numbered
  <2>4. ASSUME NEW q \in Procs
        PROVE  /\ mem'[q] \subseteq 1..lastOp'
               /\ at'[q] \in Persisting /\ op'[q] = 0 => mem'[q] = {}
    <3>1. CASE q = p
      BY <1>2, <2>2, <2>3, <3>1 DEF Writes, SInv, Shape
    <3>2. CASE q # p
      <4>1. UNCHANGED <<mem[q], at[q], op[q]>>
        BY <1>2, <3>2 DEF Writes, SInv, Shape
      <4>2. QED BY <2>2, <4>1 DEF RInv, Numbered, Emptied
    <3>3. QED BY <3>1, <3>2
  <2>5. \A c \in disk' \cup {file'} : Shows(c) \subseteq 1..lastOp'
    BY <2>2 DEF RInv, Numbered
  <2>6. QED BY <2>4, <2>5 DEF RInv, Numbered, Emptied, Watched
<1>3. QED BY <1>1, <1>2, LoadCases

LEMMA ArchiveRStep ==
    ASSUME SInv, RInv, Watched, NEW p \in Procs, Archive(p)
    PROVE  RInv'
<1>1. /\ lastOp' = lastOp /\ op' = op
      /\ mem' = [mem EXCEPT ![p] = {}]
      /\ at' = [at EXCEPT ![p] = "write"]
      /\ disk' \cup {file'} \subseteq disk \cup {file, Absent}
  BY DEF Archive, Move, Stay
<1>2. Shows(Absent) = {}
  BY DEF Shows
<1>3. Numbered'
  BY <1>1, <1>2 DEF RInv, Numbered, SInv, Shape
<1>4. Emptied'
  BY <1>1 DEF RInv, Emptied, SInv, Shape
<1>5. QED BY <1>3, <1>4 DEF RInv, Watched

LEMMA SwapRStep ==
    ASSUME SInv, RInv, Watched, NEW p \in Procs, Swap(p)
    PROVE  RInv'
<1>1. tmp[p].whole /\ tmp[p].synced /\ tmp[p].data = mem[p] /\ mem[p] \in Stores
  BY DEF Swap, Inside, SInv, Shape, Ready, Written
<1>2. /\ lastOp' = lastOp /\ mem' = mem /\ op' = op
      /\ at' = [at EXCEPT ![p] = "dirsync"]
      /\ file' = mem[p] /\ disk' = disk \cup {mem[p]}
  BY <1>1 DEF Swap, TmpName, Move, Stay
<1>3. Shows(mem[p]) = mem[p]
  BY <1>1, StoresShow
<1>4. Numbered'
  BY <1>2, <1>3 DEF RInv, Numbered
<1>5. Emptied'
  BY <1>2 DEF RInv, Emptied, Persisting, SInv, Shape
<1>6. QED BY <1>4, <1>5 DEF RInv, Watched

LEMMA NextRInv == SInv /\ RInv /\ [SNext]_svars => RInv'
<1> SUFFICES ASSUME SInv, RInv, [SNext]_svars PROVE RInv'
  OBVIOUS
<1>1. CASE UNCHANGED svars
  BY <1>1, RStillStep DEF svars, content, RInv
<1>2. CASE SNext
  <2>1. Watched
    BY <1>2 DEF SNext, Watched
  <2>2. CASE \E p \in Procs : StoreCall(p) \/ Acquire(p) \/ GiveBack(p) \/ Die(p)
    BY <2>1, <2>2, OutsideRStep
  <2>3. CASE \E p \in Procs : Inner(p)
    BY <2>1, <2>3, LoadRStep, ArchiveRStep, SwapRStep, QuietRStep DEF Inner
  <2>4. CASE PowerLoss \/ Damage \/ STick
    BY <2>1, <2>4, FaultRStep
  <2>5. QED BY <1>2, <2>2, <2>3, <2>4 DEF SNext
<1>3. QED BY <1>1, <1>2

-----------------------------------------------------------------------------
(* What AtomicStore sees.                                                  *)

Stored == AsStore(file)
Possible == {AsStore(c) : c \in disk}
Pending == {mem[p] : p \in {q \in Procs : at[q] \in Persisting}}
AbstractStep == [Promise!Next]_(Promise!vars)

\* Contents that can be read stand for the store they show.
LEMMA StandsFor ==
    ASSUME NEW c \in Contents
    PROVE  /\ c # Corrupt => AsStore(c) = Shows(c) /\ AsStore(c) \in Stores
           /\ AsStore(c) = Corrupt <=> c = Corrupt
<1>1. CASE c \in Stores
  BY <1>1, StoresShow DEF AsStore
<1>2. CASE c = Corrupt
  BY <1>2, FileStatesAssumption DEF AsStore
<1>3. CASE c = Absent
  <2>1. {} \in Stores /\ {} # Corrupt /\ Absent # Corrupt
    BY FileStatesAssumption DEF Stores
  <2>2. QED BY <1>3, <2>1 DEF AsStore, Shows
<1>4. QED BY <1>1, <1>2, <1>3 DEF Contents

\* Nothing is under way that was not before, and nothing is abandoned.
LEMMA SamePending ==
    ASSUME \A q \in Procs : /\ at'[q] \in Persisting <=> at[q] \in Persisting
                            /\ at'[q] \in Persisting => mem'[q] = mem[q]
    PROVE  Pending' = Pending
BY DEF Pending

\* While the lock excludes, whatever is under way is the work of the process in it.
LEMMA OwnPending ==
    ASSUME SInv, ~broken, NEW p \in Procs, pc[p] = "fn",
           \A q \in Procs \ {p} : at'[q] = at[q]
    PROVE  /\ Pending = IF at[p] \in Persisting THEN {mem[p]} ELSE {}
           /\ Pending' = IF at'[p] \in Persisting THEN {mem'[p]} ELSE {}
<1>1. \A q \in Procs \ {p} : at[q] \notin Persisting /\ at'[q] \notin Persisting
  BY Alone DEF SInv, Kept, Persisting
<1>2. QED BY <1>1 DEF Pending

\* A step within the lock, or out of it, takes nobody else in.
LEMMA InnerKeepsLock ==
    ASSUME SInv, RInv, Watched, NEW p \in Procs, Inner(p) \/ Die(p)
    PROVE  broken' = broken
<1>1. \A q \in Procs : pc'[q] \in Holding => pc[q] \in Holding
  <2>1. UNCHANGED pc \/ Fn(p) \/ Crash(p)
    BY DEF Inner, Load, Archive, WriteTmp, FsyncTmp, PersistFails, Swap, SyncDir, Emit,
           Done, Stay, Die, vars
  <2>2. QED BY <2>1 DEF Fn, Crash, Goto, Holding, SInv, Shape
<1>2. CASE broken
  BY <1>2 DEF Watched, RInv
<1>3. CASE ~broken
  <2>1. MutualExclusion
    BY <1>3 DEF SInv, Kept
  <2>2. MutualExclusion'
    BY <1>1, <2>1 DEF MutualExclusion
  <2>3. ~broken'
    BY <1>3, <2>2 DEF Watched
  <2>4. QED BY <1>3, <2>3 DEF RInv, Watched
<1>4. QED BY <1>2, <1>3 DEF RInv

-----------------------------------------------------------------------------
(* The simulation.                                                         *)

\* Steps that leave the file, the log and what is under way alone; two processes
\* may get into the lock by one of them.
LEMMA QuietSim ==
    ASSUME RInv, Watched, Pending' = Pending,
           UNCHANGED <<file, disk, reported, damaged, lost, dirSync>>
    PROVE  AbstractStep
<1>1. UNCHANGED <<Stored, Possible, Pending>>
  BY DEF Stored, Possible, AsStore
<1>2. CASE broken' = broken
  <2>1. UNCHANGED Promise!vars
    BY <1>1, <1>2 DEF Promise!vars, Promise!faults, Stored, Possible, Pending
  <2>2. QED BY <2>1 DEF AbstractStep
<1>3. CASE broken' = TRUE
  <2>1. Promise!Break
    BY <1>1, <1>3 DEF Promise!Break, Stored, Possible, Pending
  <2>2. QED BY <2>1 DEF AbstractStep, Promise!Next
<1>4. QED BY <1>2, <1>3 DEF RInv, Watched

\* Once two processes have been in the lock nothing is promised but whole stores.
LEMMA VoidSim ==
    ASSUME Shape, Shape', broken, broken' = broken, UNCHANGED <<damaged, lost, dirSync>>,
           disk' \subseteq disk \cup (Contents \ {Corrupt}),
           file' = file \/ file' # Corrupt
    PROVE  AbstractStep
<1>1. Stored' \in Stores \cup {Stored}
  BY StandsFor DEF Stored, Shape
<1>2. Possible' \subseteq Stores \cup Possible
  BY StandsFor DEF Possible, Shape
<1>3. Pending' \subseteq Stores /\ reported' \subseteq Ops
  BY DEF Pending, Shape, Stores
<1>4. Promise!Overwrite
  BY <1>1, <1>2, <1>3
     DEF Promise!Overwrite, Promise!faults, Stored, Possible, Pending, Stores
<1>5. QED BY <1>4 DEF AbstractStep, Promise!Next

\* The calls around the function, and time.
LEMMA OutsideSim ==
    ASSUME SInv, RInv, Watched, NEW p \in Procs,
           StoreCall(p) \/ Acquire(p) \/ GiveBack(p)
    PROVE  AbstractStep
<1>1. /\ mem' = mem
      /\ at' = at \/ (pc[p] # "fn" /\ \E l : l \notin Persisting /\ at' = [at EXCEPT ![p] = l])
      /\ UNCHANGED <<file, disk, reported, damaged, lost, dirSync>>
  <2>1. CASE StoreCall(p) \/ GiveBack(p)
    BY <2>1 DEF StoreCall, GiveBack, content, trouble
  <2>2. CASE Acquire(p)
    <3>1. pc[p] # "fn"
      BY <2>2 DEF Acquire, Open, Write, CreateFails, Stat, Rename, Wait
    <3>2. "out" \notin Persisting /\ "begin" \notin Persisting
      BY DEF Persisting
    <3>3. QED BY <2>2, <3>1, <3>2 DEF Acquire, Move, content, trouble
  <2>3. QED BY <2>1, <2>2
<1>2. at[p] \notin Persisting \/ at' = at
  BY <1>1 DEF SInv, InPlace, Persisting
<1>3. Pending' = Pending
  BY <1>1, <1>2, SamePending DEF SInv, Shape
<1>4. QED BY <1>1, <1>3, QuietSim

LEMMA TickSim ==
    ASSUME RInv, Watched, STick
    PROVE  AbstractStep
<1>1. UNCHANGED <<file, disk, mem, at, reported, damaged, lost, dirSync>>
  BY DEF STick, content, trouble
<1>2. Pending' = Pending
  BY <1>1, SamePending
<1>3. QED BY <1>1, <1>2, QuietSim

\* A transaction ends with nothing done: its process dies or a call fails.
LEMMA AbandonSim ==
    ASSUME UNCHANGED <<file, disk, reported, broken, damaged, lost, dirSync>>, Pending' = {}
    PROVE  AbstractStep
<1>1. UNCHANGED <<Stored, Possible>>
  BY DEF Stored, Possible, AsStore
<1>2. Promise!Abandon
  BY <1>1 DEF Promise!Abandon, Promise!faults, Stored, Possible, Pending
<1>3. QED BY <1>2 DEF AbstractStep, Promise!Next

LEMMA DieSim ==
    ASSUME SInv, SInv', RInv, Watched, NEW p \in Procs, Die(p)
    PROVE  AbstractStep
<1>1. /\ at' = [at EXCEPT ![p] = "out"] /\ mem' = [mem EXCEPT ![p] = {}]
      /\ UNCHANGED <<file, disk, reported, damaged, lost, dirSync>>
  BY DEF Die, Move, content, trouble
<1>2. broken' = broken
  BY InnerKeepsLock
<1>3. CASE at[p] \notin Persisting
  <2>1. Pending' = Pending
    BY <1>1, <1>3, SamePending DEF SInv, Shape, Persisting
  <2>2. QED BY <1>1, <2>1, QuietSim
<1>4. CASE broken
  BY <1>1, <1>2, <1>4, VoidSim DEF SInv
<1>5. CASE at[p] \in Persisting /\ ~broken
  <2>1. pc[p] = "fn"
    BY <1>5 DEF SInv, InPlace, Persisting
  <2>2. Pending' = {}
    BY <1>1, <1>5, <2>1, OwnPending DEF SInv, Shape, Persisting
  <2>3. QED BY <1>1, <1>2, <2>2, AbandonSim
<1>6. QED BY <1>3, <1>4, <1>5 DEF RInv

\* The load is where a transaction begins, with the store that is in place.
LEMMA LoadSim ==
    ASSUME SInv, SInv', RInv, Watched, NEW p \in Procs, Load(p)
    PROVE  AbstractStep
<1>1. broken' = broken
  BY InnerKeepsLock DEF Inner
<1>2. CASE ReadsOnly(p)
  <2>1. /\ at' = [at EXCEPT ![p] = "out"] /\ at[p] = "begin" /\ mem' = mem
        /\ UNCHANGED <<file, disk, reported, damaged, lost, dirSync>>
    BY <1>2 DEF ReadsOnly, Load, Inside, Done, Move, content, trouble
  <2>2. Pending' = Pending
    BY <2>1, SamePending DEF SInv, Shape, Persisting
  <2>3. QED BY <2>1, <2>2, QuietSim
<1>3. CASE Writes(p) /\ broken
  <2>1. UNCHANGED <<file, disk, damaged, lost, dirSync>>
    BY <1>3 DEF Writes
  <2>2. QED BY <1>1, <1>3, <2>1, VoidSim DEF SInv
<1>4. CASE Writes(p) /\ ~broken
  <2>1. lastOp' \in Ops /\ lastOp' \notin Loaded
    <3>1. lastOp \in Nat /\ lastOp' = lastOp + 1 /\ lastOp' \in 0..MaxOps
      BY <1>4 DEF Writes, SInv, Shape
    <3>2. Loaded \subseteq 1..lastOp
      BY LoadedShows DEF RInv, Numbered
    <3>3. QED BY <3>1, <3>2 DEF Ops
  <2> PICK o \in Ops : o = lastOp' /\ o \notin Loaded
    BY <2>1
  <2>2. Stored = Loaded /\ Stored # Corrupt
    <3>1. file \in Contents /\ file # Corrupt
      BY <1>4 DEF Writes, SInv, Shape
    <3>2. AsStore(file) = Shows(file) /\ AsStore(file) # Corrupt
      BY <3>1, StandsFor
    <3>3. QED BY <3>2, LoadedShows DEF Stored
  <2>3. Pending = {} /\ Pending' = {Stored \cup {o}}
    <3>1. /\ pc[p] = "fn" /\ at[p] \notin Persisting /\ at'[p] \in Persisting
          /\ \A q \in Procs \ {p} : at'[q] = at[q]
          /\ mem'[p] = Loaded \cup {o}
      BY <1>4 DEF Writes, Persisting, SInv, Shape
    <3>2. QED BY <1>4, <2>2, <3>1, OwnPending
  <2>4. UNCHANGED <<Stored, Possible, reported, damaged, lost, dirSync>>
    BY <1>4 DEF Writes, Stored, Possible, AsStore
  <2>5. Promise!Begin(o)
    BY <1>1, <2>2, <2>3, <2>4
       DEF Promise!Begin, Promise!faults, Stored, Possible, Pending
  <2>6. QED BY <2>4, <2>5 DEF AbstractStep, Promise!Next
<1>5. QED BY <1>2, <1>3, <1>4, LoadCases DEF RInv

\* A reset begins with the old file put aside, or without.
LEMMA ArchiveSim ==
    ASSUME SInv, SInv', RInv, Watched, NEW p \in Procs, Archive(p)
    PROVE  AbstractStep
<1>1. /\ pc[p] = "fn" /\ at[p] = "begin"
      /\ mem' = [mem EXCEPT ![p] = {}] /\ at' = [at EXCEPT ![p] = "write"]
      /\ UNCHANGED <<damaged, lost, dirSync>>
      /\ \/ file' = Absent /\ disk' = disk \cup {Absent} /\ reported' = {}
         \/ UNCHANGED <<file, disk, reported>>
  BY DEF Archive, Inside, Move, Stay, trouble
<1>2. broken' = broken
  BY InnerKeepsLock DEF Inner
<1>3. CASE broken
  <2>1. Absent \in Contents \ {Corrupt}
    BY FileStatesAssumption DEF Contents
  <2>2. QED BY <1>1, <1>2, <1>3, <2>1, VoidSim DEF SInv
<1>4. CASE ~broken
  <2>1. Pending = {} /\ Pending' = {{}}
    BY <1>1, <1>4, OwnPending DEF Persisting, SInv, Shape
  <2>2. \/ Stored' = {} /\ Possible' = Possible \cup {{}} /\ reported' = {}
        \/ UNCHANGED <<Stored, Possible, reported>>
    <3>1. CASE file' = Absent /\ disk' = disk \cup {Absent} /\ reported' = {}
      BY <3>1 DEF Stored, Possible, AsStore
    <3>2. CASE UNCHANGED <<file, disk, reported>>
      BY <3>2 DEF Stored, Possible, AsStore
    <3>3. QED BY <1>1, <3>1, <3>2
  <2>3. Promise!BeginReset
    BY <1>1, <1>2, <2>1, <2>2
       DEF Promise!BeginReset, Promise!faults, Stored, Possible, Pending
  <2>4. QED BY <1>1, <2>3 DEF AbstractStep, Promise!Next
<1>5. QED BY <1>3, <1>4 DEF RInv

\* Writing the temporary file changes nothing yet.
LEMMA TmpSim ==
    ASSUME SInv, RInv, Watched, NEW p \in Procs, WriteTmp(p) \/ FsyncTmp(p)
    PROVE  AbstractStep
<1>1. /\ at[p] \in Persisting /\ mem' = mem
      /\ \E l \in Persisting : at' = [at EXCEPT ![p] = l]
      /\ UNCHANGED <<file, disk, reported, damaged, lost, dirSync>>
  BY DEF WriteTmp, FsyncTmp, Inside, Move, Stay, trouble, Persisting
<1>2. Pending' = Pending
  BY <1>1, SamePending DEF SInv, Shape
<1>3. QED BY <1>1, <1>2, QuietSim

LEMMA PersistFailsSim ==
    ASSUME SInv, SInv', RInv, Watched, NEW p \in Procs, PersistFails(p)
    PROVE  AbstractStep
<1>1. /\ pc[p] = "fn" /\ at' = [at EXCEPT ![p] = "out"]
      /\ UNCHANGED <<file, disk, reported, damaged, lost, dirSync>>
  BY DEF PersistFails, Done, Move, trouble
<1>2. broken' = broken
  BY InnerKeepsLock DEF Inner
<1>3. CASE broken
  BY <1>1, <1>2, <1>3, VoidSim DEF SInv
<1>4. CASE ~broken
  <2>1. Pending' = {}
    BY <1>1, <1>4, OwnPending DEF Persisting, SInv, Shape
  <2>2. QED BY <1>1, <1>2, <2>1, AbandonSim
<1>5. QED BY <1>3, <1>4 DEF RInv

\* The rename is where a transaction takes effect, and a reset.
LEMMA SwapSim ==
    ASSUME SInv, SInv', RInv, Watched, NEW p \in Procs, Swap(p)
    PROVE  AbstractStep
<1> DEFINE S == mem[p]
<1>1. tmp[p].whole /\ tmp[p].synced /\ tmp[p].data = S /\ S \in Stores
  BY DEF Swap, Inside, SInv, Shape, Ready, Written
<1>2. /\ pc[p] = "fn" /\ at[p] \in Persisting /\ at' = [at EXCEPT ![p] = "dirsync"]
      /\ file' = S /\ disk' = disk \cup {S}
      /\ reported' = IF op[p] = 0 THEN {} ELSE reported
      /\ UNCHANGED <<damaged, lost, dirSync>>
  BY <1>1 DEF Swap, Inside, TmpName, Move, Stay, trouble, Persisting
<1>3. S \in Contents /\ S # Corrupt /\ AsStore(S) = S
  BY <1>1, StoresShow DEF AsStore
<1>4. broken' = broken
  BY InnerKeepsLock DEF Inner
<1>5. CASE broken
  BY <1>2, <1>3, <1>4, <1>5, VoidSim DEF SInv
<1>6. CASE ~broken
  <2>1. Pending = {S} /\ Pending' = {}
    BY <1>2, <1>6, OwnPending DEF Persisting, SInv, Shape
  <2>2. Stored' = S /\ Possible' = Possible \cup {S}
    BY <1>2, <1>3 DEF Stored, Possible
  <2>3. op[p] = 0 <=> S = {}
    BY <1>2, <1>6 DEF SInv, Kept, OnItsWay, RInv, Emptied
  <2> HIDE DEF S
  <2>4. Promise!Commit
    BY <1>2, <1>4, <2>1, <2>2, <2>3
       DEF Promise!Commit, Promise!faults, Stored, Possible, Pending
  <2>5. QED BY <1>2, <2>4 DEF AbstractStep, Promise!Next
<1>7. QED BY <1>5, <1>6 DEF RInv

\* The sync of the directory makes the file in place the one that will stay.
LEMMA SyncDirSim ==
    ASSUME SInv, RInv, Watched, NEW p \in Procs, SyncDir(p)
    PROVE  AbstractStep
<1>1. /\ at[p] = "dirsync" /\ at' = [at EXCEPT ![p] = "emit"] /\ mem' = mem
      /\ disk' = IF dirSync THEN {file} ELSE disk
      /\ UNCHANGED <<file, reported, damaged, lost, dirSync>>
  BY DEF SyncDir, Inside, Move, Stay, trouble
<1>2. broken' = broken
  BY InnerKeepsLock DEF Inner
<1>3. Pending' = Pending
  BY <1>1, SamePending DEF Persisting, SInv, Shape
<1>4. CASE dirSync
  <2>1. Possible' = {Stored} /\ Stored' = Stored
    BY <1>1, <1>4 DEF Possible, Stored, AsStore
  <2>2. Promise!Sync
    BY <1>1, <1>2, <1>3, <1>4, <2>1
       DEF Promise!Sync, Promise!faults, Stored, Possible, Pending
  <2>3. QED BY <1>1, <2>2 DEF AbstractStep, Promise!Next
<1>5. CASE ~dirSync
  BY <1>1, <1>3, <1>5, QuietSim
<1>6. QED BY <1>4, <1>5

\* A transaction is reported when the store shows it, and every store a power
\* failure may leave where directories can be synced.
LEMMA EmitSim ==
    ASSUME SInv, SInv', RInv, Watched, NEW p \in Procs, Emit(p)
    PROVE  AbstractStep
<1> DEFINE o == op[p]
<1>1. /\ at[p] = "emit" /\ at' = [at EXCEPT ![p] = "out"] /\ mem' = [mem EXCEPT ![p] = {}]
      /\ UNCHANGED <<file, disk, damaged, lost, dirSync>>
      /\ reported' = IF o = 0 THEN reported ELSE reported \cup {o}
  BY DEF Emit, Done, Inside, Move, content, trouble
<1>2. broken' = broken
  BY InnerKeepsLock DEF Inner
<1>3. Pending' = Pending
  BY <1>1, SamePending DEF Persisting, SInv, Shape
<1>4. CASE o = 0
  BY <1>1, <1>3, <1>4, QuietSim
<1>5. CASE broken
  BY <1>1, <1>2, <1>5, VoidSim DEF SInv
<1>6. CASE o # 0 /\ ~broken
  <2>1. /\ file = Corrupt \/ o \in Shows(file)
        /\ dirSync => \A c \in disk : c = Corrupt \/ o \in Shows(c)
    BY <1>1, <1>6 DEF SInv, Kept, OnItsWay, Replaced
  <2>2. Stored # Corrupt => o \in Stored
    BY <2>1, StandsFor DEF Stored, SInv, Shape
  <2>3. dirSync => \A T \in Possible : T # Corrupt => o \in T
    BY <2>1, StandsFor DEF Possible, SInv, Shape
  <2>4. o \in Ops /\ UNCHANGED <<Stored, Possible>>
    BY <1>1, <1>6 DEF SInv, Shape, Ops, Stored, Possible, AsStore
  <2> HIDE DEF o
  <2>5. Promise!Report(o)
    <3>1. \A T \in {Stored} \cup (IF dirSync THEN Possible ELSE {}) : T # Corrupt => o \in T
      BY <2>2, <2>3
    <3>2. QED BY <1>1, <1>2, <1>3, <1>6, <2>4, <3>1
              DEF Promise!Report, Promise!faults, Stored, Possible, Pending
  <2>6. QED BY <1>1, <2>4, <2>5 DEF AbstractStep, Promise!Next
<1>7. QED BY <1>4, <1>5, <1>6 DEF RInv

\* A power failure leaves one of the stores that were possible, nothing under way.
LEMMA PowerLossSim ==
    ASSUME SInv, RInv, Watched, PowerLoss
    PROVE  AbstractStep
<1>1. PICK c \in disk : file' = c /\ disk' = {c}
  BY DEF PowerLoss
<1>2. /\ ~lost /\ lost' = TRUE /\ UNCHANGED <<damaged, dirSync>>
      /\ reported' = IF dirSync \/ c = Corrupt THEN reported ELSE reported \cap Loaded'
  BY <1>1 DEF PowerLoss
<1>3. broken' = broken
  <2>1. MutualExclusion'
    BY DEF PowerLoss, MutualExclusion, Holding
  <2>2. QED BY <2>1 DEF Watched, RInv
<1>4. c \in Contents /\ Loaded' = Shows(c)
  BY <1>1 DEF SInv, Shape, Loaded, Shows
<1>5. (AsStore(c) = Corrupt <=> c = Corrupt) /\ (c # Corrupt => AsStore(c) = Shows(c))
  BY <1>4, StandsFor
<1>6. Stored' = AsStore(c) /\ AsStore(c) \in Possible /\ Possible' = {AsStore(c)}
  BY <1>1 DEF Stored, Possible
<1>7. reported' = IF dirSync \/ Stored' = Corrupt THEN reported ELSE reported \cap Stored'
  BY <1>2, <1>4, <1>5, <1>6
<1>8. Pending' = {}
  BY DEF PowerLoss, Pending, Persisting
<1>9. Promise!PowerLoss
  BY <1>2, <1>3, <1>6, <1>7, <1>8 DEF Promise!PowerLoss, Stored, Possible, Pending
<1>10. QED BY <1>2, <1>9 DEF AbstractStep, Promise!Next

LEMMA DamageSim ==
    ASSUME SInv, RInv, Watched, Damage
    PROVE  AbstractStep
<1>1. /\ ~damaged /\ damaged' = TRUE /\ file' = Corrupt /\ disk' = disk \cup {Corrupt}
      /\ UNCHANGED <<pc, mem, at, reported, lost, dirSync>>
  BY DEF Damage, vars
<1>2. broken' = broken
  <2>1. MutualExclusion' <=> MutualExclusion
    BY <1>1 DEF MutualExclusion
  <2>2. broken \/ MutualExclusion
    BY DEF SInv, Kept
  <2>3. QED BY <2>1, <2>2 DEF Watched, RInv
<1>3. AsStore(Corrupt) = Corrupt
  BY FileStatesAssumption DEF AsStore
<1>4. Stored' = Corrupt /\ Possible' = Possible \cup {Corrupt}
  BY <1>1, <1>3 DEF Stored, Possible
<1>5. Pending' = Pending
  BY <1>1, SamePending
<1>6. Promise!Damage
  BY <1>1, <1>2, <1>4, <1>5 DEF Promise!Damage, Stored, Possible, Pending
<1>7. QED BY <1>1, <1>6 DEF AbstractStep, Promise!Next

LEMMA StepSim ==
    SInv /\ SInv' /\ RInv /\ [SNext]_svars => AbstractStep
<1> SUFFICES ASSUME SInv, SInv', RInv, [SNext]_svars PROVE AbstractStep
  OBVIOUS
<1>1. CASE UNCHANGED svars
  <2>1. broken' = broken /\ Pending' = Pending
    BY <1>1, SamePending DEF svars
  <2>2. UNCHANGED <<Stored, Possible, reported, damaged, lost, dirSync>>
    BY <1>1 DEF svars, content, trouble, Stored, Possible, AsStore
  <2>3. UNCHANGED Promise!vars
    BY <2>1, <2>2 DEF Promise!vars, Promise!faults, Stored, Possible, Pending
  <2>4. QED BY <2>3 DEF AbstractStep
<1>2. CASE SNext
  <2>1. Watched
    BY <1>2 DEF SNext, Watched
  <2>2. CASE \E p \in Procs : StoreCall(p) \/ Acquire(p) \/ GiveBack(p) \/ Die(p)
    BY <2>1, <2>2, OutsideSim, DieSim
  <2>3. CASE \E p \in Procs : Inner(p)
    BY <2>1, <2>3, LoadSim, ArchiveSim, TmpSim, PersistFailsSim, SwapSim, SyncDirSim,
       EmitSim DEF Inner
  <2>4. CASE PowerLoss \/ Damage \/ STick
    BY <2>1, <2>4, PowerLossSim, DamageSim, TickSim
  <2>5. QED BY <1>2, <2>2, <2>3, <2>4 DEF SNext
<1>3. QED BY <1>1, <1>2

LEMMA InitSim == SInit => Promise!Init
BY FileStatesAssumption DEF SInit, Promise!Init, AsStore, Persisting

\* The calls on the file system implement the promise of the header of
\* relay-jobs.mjs, for any number of processes and transactions: transactions
\* start from the store in place, one at a time, take effect at the rename or not
\* at all, and are reported when no power failure can take them back.
THEOREM Refinement == SSpec => ImplementsAtomicStore
<1>1. SInit /\ [][SNext]_svars => [](SInv /\ RInv)
  BY StoreInitInv, StoreNextInv, InitRInv, NextRInv, PTL
<1>2. SInv /\ SInv' /\ RInv /\ [SNext]_svars => [Promise!Next]_(Promise!vars)
  BY StepSim DEF AbstractStep
<1>3. QED BY <1>1, <1>2, InitSim, PTL DEF SSpec, ImplementsAtomicStore, Promise!Spec

=============================================================================
