--------------------------- MODULE StoreFileProofs ---------------------------
(***************************************************************************)
(* Proofs about StoreFile, for any set of processes, any number of         *)
(* transactions, and whatever the lock does: with a lock that may be       *)
(* stolen at any time, deaths, one power failure and one damage.           *)
(***************************************************************************)
EXTENDS StoreFile, FileLockProofs

Stores == SUBSET Ops
Contents == Stores \cup {Absent, Corrupt}
TmpFile == [data : Stores, whole : BOOLEAN, synced : BOOLEAN]
Written == {"fsync", "swap"}
Replaced == {"dirsync", "emit"}

\* The store that contents c stand for.
Shows(c) == IF c \in {Absent, Corrupt} THEN {} ELSE c

\* The shape of the state.
Shape ==
    /\ pc \in [Procs -> Steps]
    /\ at \in [Procs -> Places]
    /\ op \in [Procs -> 0..MaxOps]
    /\ lastOp \in 0..MaxOps
    /\ mem \in [Procs -> Stores]
    /\ tmp \in [Procs -> TmpFile]
    /\ file \in Contents
    /\ disk \in SUBSET Contents
    /\ reported \in Stores

\* A process is within the function only while it takes itself for the holder,
\* and writes a transaction only from its load to its report.
InPlace ==
    \A p \in Procs :
        /\ at[p] # "out" => pc[p] = "fn"
        /\ at[p] \in {"out", "begin"} => op[p] = 0

\* What is about to be renamed is what the process holds in memory, whole, and
\* on the disk.
Ready(p) ==
    /\ at[p] \in Written => tmp[p].whole /\ tmp[p].data = mem[p]
    /\ at[p] = "swap" => tmp[p].synced

\* Contents c still show what was reported, if anything can be read off them.
Keeps(c) == c = Corrupt \/ reported \subseteq Shows(c)

\* A transaction on its way to the file, or in it, and what was reported before.
OnItsWay(p) ==
    op[p] # 0 =>
        /\ at[p] \in Persisting => reported \subseteq mem[p] /\ op[p] \in mem[p]
        /\ at[p] \in Replaced => file = Corrupt \/ op[p] \in Shows(file)
        /\ at[p] = "emit" /\ dirSync =>
              \A c \in disk : c = Corrupt \/ op[p] \in Shows(c)

\* As long as the lock excluded: the file, and where directories can be synced
\* whatever a power failure may leave of it, shows what was reported.
Kept ==
    /\ MutualExclusion
    /\ Keeps(file)
    /\ dirSync => \A c \in disk : Keeps(c)
    /\ \A p \in Procs : OnItsWay(p)

\* The inductive invariant.
SInv ==
    /\ Shape
    /\ InPlace
    /\ \A p \in Procs : Ready(p)
    /\ NeverTorn
    /\ broken \/ Kept


-----------------------------------------------------------------------------
(* Contents of the file.                                                   *)

USE OpsAssumption

\* A store is neither a missing nor a broken file, and shows what it is.
LEMMA StoresShow ==
    ASSUME NEW S \in Stores
    PROVE  S # Absent /\ S # Corrupt /\ Shows(S) = S /\ S \in Contents
BY FileStatesAssumption DEF Stores, Shows, Contents

LEMMA ShowsStore ==
    ASSUME NEW c \in Contents
    PROVE  Shows(c) \in Stores
BY DEF Contents, Shows, Stores

LEMMA LoadedShows == Loaded = Shows(file)
BY DEF Loaded, Shows

LEMMA NoTmpType == NoTmp \in TmpFile
<1>1. {} \in Stores
  BY DEF Stores
<1>2. QED BY <1>1 DEF NoTmp, TmpFile

-----------------------------------------------------------------------------
(* Steps of the lock.                                                      *)

\* A step of the protocol moves one process to another place in it.
LEMMA Moves ==
    ASSUME NEW p \in Procs,
           Call(p) \/ Open(p) \/ Write(p) \/ CreateFails(p) \/ Stat(p) \/ Rename(p)
             \/ Wait(p) \/ Fn(p) \/ ReadBack(p) \/ Unlink(p) \/ Crash(p)
    PROVE  \E l \in Steps : pc' = [pc EXCEPT ![p] = l]
BY DEF Call, Open, Write, CreateFails, Stat, Rename, Wait, Fn, ReadBack, Unlink, Crash,
       Goto, Steps

\* Within the lock a process is alone, as long as the lock excluded.
LEMMA Alone ==
    ASSUME InPlace, MutualExclusion, NEW p \in Procs, pc[p] = "fn",
           NEW q \in Procs, q # p
    PROVE  at[q] = "out" /\ op[q] = 0
BY DEF InPlace, MutualExclusion, Holding

LEMMA StoreInitInv == SInit => SInv
<1> SUFFICES ASSUME SInit PROVE SInv
  OBVIOUS
<1>1. {} \in Stores /\ 0 \in 0..MaxOps /\ NoTmp \in TmpFile
  BY NoTmpType DEF Stores
<1>2. Shape
  BY <1>1 DEF SInit, Init, Shape, Contents, Steps, Places
<1>3. InPlace
  BY DEF SInit, InPlace
<1>4. \A p \in Procs : Ready(p)
  BY DEF SInit, Ready, Written
<1>5. NeverTorn
  BY FileStatesAssumption DEF SInit, NeverTorn
<1>6. Kept
  <2>1. MutualExclusion
    BY DEF SInit, Init, MutualExclusion, Holding
  <2>2. QED BY <2>1 DEF SInit, Kept, Keeps, OnItsWay
<1>7. QED BY <1>2, <1>3, <1>4, <1>5, <1>6 DEF SInv

\* A step that leaves the file alone, and every process where it was or outside
\* the writing of a transaction, keeps the invariant.
LEMMA StillStep ==
    ASSUME SInv, Shape', InPlace', broken' = (broken \/ ~MutualExclusion'),
           UNCHANGED <<file, disk, reported, damaged, dirSync>>,
           \A q \in Procs : \/ at'[q] \in {"out", "begin"}
                            \/ UNCHANGED <<at[q], mem[q], op[q], tmp[q]>>
    PROVE  SInv'
<1>1. ASSUME NEW q \in Procs PROVE Ready(q)'
  BY DEF SInv, Ready, Written
<1>2. NeverTorn'
  BY DEF SInv, NeverTorn
<1>3. ASSUME ~broken' PROVE Kept'
  <2>1. Kept /\ MutualExclusion'
    BY <1>3 DEF SInv
  <2>2. ASSUME NEW q \in Procs PROVE OnItsWay(q)'
    <3>1. CASE at'[q] \in {"out", "begin"}
      BY <3>1 DEF InPlace, OnItsWay
    <3>2. CASE UNCHANGED <<at[q], mem[q], op[q], tmp[q]>>
      BY <2>1, <3>2 DEF Kept, OnItsWay
    <3>3. QED BY <3>1, <3>2
  <2>3. Keeps(file)' /\ (dirSync => \A c \in disk : Keeps(c))'
    BY <2>1 DEF Kept, Keeps
  <2>4. QED BY <2>1, <2>2, <2>3 DEF Kept
<1>4. QED BY <1>1, <1>2, <1>3 DEF SInv

\* A step of one process within the lock that keeps its own share of the
\* invariant keeps the invariant: while the lock excludes there is nobody else.
LEMMA OwnStep ==
    ASSUME SInv, NEW p \in Procs, pc[p] = "fn",
           Shape', InPlace', NeverTorn', Ready(p)',
           broken' = (broken \/ ~MutualExclusion'),
           \A q \in Procs \ {p} : UNCHANGED <<at[q], mem[q], op[q], tmp[q]>>,
           ~broken /\ Kept => /\ Keeps(file)'
                              /\ (dirSync => \A c \in disk : Keeps(c))'
                              /\ OnItsWay(p)'
    PROVE  SInv'
<1>1. ASSUME NEW q \in Procs PROVE Ready(q)'
  <2>1. CASE q = p
    BY <2>1
  <2>2. CASE q # p
    BY <2>2 DEF SInv, Ready
  <2>3. QED BY <2>1, <2>2
<1>2. ASSUME ~broken' PROVE Kept'
  <2>1. ~broken /\ Kept /\ MutualExclusion'
    BY <1>2 DEF SInv
  <2>2. ASSUME NEW q \in Procs PROVE OnItsWay(q)'
    <3>1. CASE q = p
      BY <2>1, <3>1
    <3>2. CASE q # p
      <4>1. op[q] = 0
        BY <2>1, <3>2, Alone DEF SInv, Kept
      <4>2. op'[q] = 0
        BY <3>2, <4>1
      <4>3. QED BY <4>2 DEF OnItsWay
    <3>3. QED BY <3>1, <3>2
  <2>3. QED BY <2>1, <2>2 DEF Kept
<1>3. QED BY <1>1, <1>2 DEF SInv

-----------------------------------------------------------------------------
(* The steps around the function.                                          *)

\* What SNext says of `broken`.
Watched == broken' = (broken \/ ~MutualExclusion')

LEMMA StoreCallStep ==
    ASSUME SInv, Watched, NEW p \in Procs, StoreCall(p)
    PROVE  SInv'
<1>1. PICK l \in Steps : pc' = [pc EXCEPT ![p] = l]
  BY Moves DEF StoreCall
<1>2. Shape'
  BY <1>1 DEF StoreCall, content, SInv, Shape
<1>3. InPlace'
  <2>1. pc[p] = "idle"
    BY DEF StoreCall, Call
  <2>2. QED BY <1>1, <2>1 DEF StoreCall, SInv, Shape, InPlace
<1>4. QED BY <1>2, <1>3, StillStep DEF Watched, StoreCall, content, trouble

LEMMA AcquireStep ==
    ASSUME SInv, Watched, NEW p \in Procs, Acquire(p)
    PROVE  SInv'
<1>1. PICK l \in Steps : pc' = [pc EXCEPT ![p] = l]
  BY Moves DEF Acquire
<1>2. pc[p] # "fn" /\ pc'[p] = l
  BY <1>1 DEF Acquire, Open, Write, CreateFails, Stat, Rename, Wait, SInv, Shape
<1>3. at' = [at EXCEPT ![p] = IF l = "fn" THEN "begin" ELSE "out"]
  BY <1>2 DEF Acquire, Move
<1>4. Shape'
  BY <1>1, <1>3 DEF Acquire, content, SInv, Shape, Places, Persisting
<1>5. InPlace'
  <2>1. op[p] = 0
    BY <1>2 DEF SInv, InPlace
  <2>2. QED BY <1>1, <1>3, <2>1 DEF Acquire, SInv, Shape, InPlace
<1>6. \A q \in Procs : \/ at'[q] \in {"out", "begin"}
                       \/ UNCHANGED <<at[q], mem[q], op[q], tmp[q]>>
  BY <1>3 DEF Acquire, content, SInv, Shape
<1>7. QED BY <1>4, <1>5, <1>6, StillStep DEF Watched, Acquire, content, trouble

LEMMA GiveBackStep ==
    ASSUME SInv, Watched, NEW p \in Procs, GiveBack(p)
    PROVE  SInv'
<1>1. PICK l \in Steps : pc' = [pc EXCEPT ![p] = l]
  BY Moves DEF GiveBack
<1>2. Shape'
  BY <1>1 DEF GiveBack, content, SInv, Shape
<1>3. InPlace'
  <2>1. pc[p] # "fn"
    BY DEF GiveBack, ReadBack, Unlink
  <2>2. QED BY <1>1, <2>1 DEF GiveBack, SInv, Shape, InPlace
<1>4. QED BY <1>2, <1>3, StillStep DEF Watched, GiveBack, content, trouble

LEMMA DieStep ==
    ASSUME SInv, Watched, NEW p \in Procs, Die(p)
    PROVE  SInv'
<1>1. PICK l \in Steps : pc' = [pc EXCEPT ![p] = l]
  BY Moves DEF Die
<1>2. {} \in Stores /\ 0 \in 0..MaxOps
  BY DEF Stores
<1>3. Shape'
  BY <1>1, <1>2 DEF Die, Move, content, SInv, Shape, Places, Persisting
<1>4. InPlace'
  BY <1>1 DEF Die, Move, SInv, Shape, InPlace
<1>5. \A q \in Procs : \/ at'[q] \in {"out", "begin"}
                       \/ UNCHANGED <<at[q], mem[q], op[q], tmp[q]>>
  BY DEF Die, Move, content, SInv, Shape
<1>6. QED BY <1>3, <1>4, <1>5, StillStep DEF Watched, Die, content, trouble

LEMMA TickStep == SInv /\ Watched /\ STick => SInv'
<1> SUFFICES ASSUME SInv, Watched, STick PROVE SInv'
  OBVIOUS
<1>1. Shape' /\ InPlace'
  BY DEF STick, Tick, content, SInv, Shape, InPlace
<1>2. QED BY <1>1, StillStep DEF Watched, STick, content, trouble

LEMMA StutterStep == SInv /\ UNCHANGED svars => SInv'
<1> SUFFICES ASSUME SInv, UNCHANGED svars PROVE SInv'
  OBVIOUS
<1> USE DEF svars, vars, content, trouble
<1>1. Shape' /\ InPlace' /\ NeverTorn'
  BY DEF SInv, Shape, InPlace, NeverTorn
<1>2. \A q \in Procs : Ready(q)'
  BY DEF SInv, Ready
<1>3. broken' \/ Kept'
  BY DEF SInv, Kept, Keeps, OnItsWay, MutualExclusion
<1>4. QED BY <1>1, <1>2, <1>3 DEF SInv

-----------------------------------------------------------------------------
(* Faults.                                                                 *)

\* A power failure: nobody is left, and the file is one that was on the disk.
LEMMA PowerLossStep == SInv /\ Watched /\ PowerLoss => SInv'
<1> SUFFICES ASSUME SInv, Watched, PowerLoss PROVE SInv'
  OBVIOUS
<1>1. PICK c \in disk : file' = c /\ disk' = {c}
  BY DEF PowerLoss
<1>2. c \in Contents /\ Loaded' = Shows(c)
  BY <1>1 DEF SInv, Shape, Loaded, Shows
<1>3. {} \in Stores /\ 0 \in 0..MaxOps /\ NoTmp \in TmpFile
  BY NoTmpType DEF Stores
<1>4. Shape'
  <2>1. reported' \in Stores
    BY DEF PowerLoss, SInv, Shape, Stores
  <2>2. QED BY <1>1, <1>2, <1>3, <2>1 DEF PowerLoss, SInv, Shape, Steps, Places
<1>5. InPlace'
  BY DEF PowerLoss, InPlace
<1>6. \A q \in Procs : Ready(q)'
  BY DEF PowerLoss, Ready, Written
<1>7. NeverTorn'
  BY <1>1 DEF PowerLoss, SInv, NeverTorn
<1>8. ASSUME ~broken' PROVE Kept'
  <2>1. Kept /\ MutualExclusion'
    BY <1>8 DEF Watched, SInv
  <2>2. c = Corrupt \/ reported' \subseteq Shows(c)
    <3>1. CASE c = Corrupt
      BY <3>1
    <3>2. CASE c # Corrupt /\ dirSync
      BY <1>1, <2>1, <3>2 DEF PowerLoss, Kept, Keeps
    <3>3. CASE c # Corrupt /\ ~dirSync
      BY <1>1, <1>2, <3>3 DEF PowerLoss
    <3>4. QED BY <3>1, <3>2, <3>3
  <2>3. Keeps(file)' /\ (dirSync => \A d \in disk : Keeps(d))'
    BY <1>1, <2>2 DEF Keeps
  <2>4. \A q \in Procs : OnItsWay(q)'
    BY DEF PowerLoss, OnItsWay
  <2>5. QED BY <2>1, <2>3, <2>4 DEF Kept
<1>9. QED BY <1>4, <1>5, <1>6, <1>7, <1>8 DEF SInv

LEMMA DamageStep == SInv /\ Watched /\ Damage => SInv'
<1> SUFFICES ASSUME SInv, Watched, Damage PROVE SInv'
  OBVIOUS
<1> USE DEF Damage, vars
<1>1. Shape' /\ InPlace' /\ NeverTorn'
  BY DEF SInv, Shape, Contents, InPlace, NeverTorn
<1>2. \A q \in Procs : Ready(q)'
  BY DEF SInv, Ready
<1>3. ASSUME ~broken' PROVE Kept'
  <2>1. Kept /\ MutualExclusion'
    BY <1>3 DEF Watched, SInv
  <2>2. QED BY <2>1 DEF Kept, Keeps, OnItsWay
<1>4. QED BY <1>1, <1>2, <1>3 DEF SInv

-----------------------------------------------------------------------------
(* The steps of the function.                                              *)

\* The function returns, and leaves nothing of its transaction behind.
LEMMA ReturnStep ==
    ASSUME SInv, Watched, NEW p \in Procs, Done(p),
           op'[p] = 0, Shape', \A q \in Procs \ {p} : UNCHANGED <<mem[q], op[q], tmp[q]>>,
           UNCHANGED <<file, disk, reported, damaged, dirSync>>
    PROVE  SInv'
<1>1. PICK l \in Steps : pc' = [pc EXCEPT ![p] = l]
  BY Moves DEF Done
<1>2. at' = [at EXCEPT ![p] = "out"]
  BY DEF Done, Move
<1>3. InPlace'
  BY <1>1, <1>2 DEF SInv, Shape, InPlace
<1>4. \A q \in Procs : \/ at'[q] \in {"out", "begin"}
                       \/ UNCHANGED <<at[q], mem[q], op[q], tmp[q]>>
  BY <1>2 DEF SInv, Shape
<1>5. QED BY <1>3, <1>4, StillStep DEF Watched

LEMMA LoadStep ==
    ASSUME SInv, Watched, NEW p \in Procs, Load(p)
    PROVE  SInv'
<1>1. CASE Done(p) /\ UNCHANGED <<content, mem, op, lastOp, reported, trouble>>
  <2>1. PICK l \in Steps : pc' = [pc EXCEPT ![p] = l]
    BY <1>1, Moves DEF Done
  <2>2. op'[p] = 0
    BY <1>1 DEF Load, Inside, SInv, InPlace
  <2>3. Shape'
    BY <1>1, <2>1 DEF Done, Move, content, SInv, Shape, Places, Persisting
  <2>4. QED BY <1>1, <2>2, <2>3, ReturnStep DEF content, trouble
<1>2. CASE ~(Done(p) /\ UNCHANGED <<content, mem, op, lastOp, reported, trouble>>)
  <2> DEFINE o == lastOp'
  <2>1. /\ at[p] = "begin" /\ pc[p] = "fn" /\ file # Corrupt
        /\ o = lastOp + 1 /\ lastOp < MaxOps
        /\ op' = [op EXCEPT ![p] = o]
        /\ mem' = [mem EXCEPT ![p] = Loaded \cup {o}]
        /\ tmp' = [tmp EXCEPT ![p] = NoTmp]
        /\ at' = [at EXCEPT ![p] = "write"]
        /\ UNCHANGED <<pc, file, disk, reported, damaged, dirSync>>
    BY <1>2 DEF Load, Inside, LoadThrows, TmpName, Move, vars, trouble
  <2>2. o \in Ops /\ o # 0 /\ o \in 0..MaxOps
    BY <2>1 DEF SInv, Shape, Ops
  <2>3. Loaded \in Stores /\ Loaded \cup {o} \in Stores
    BY <2>2, LoadedShows, ShowsStore DEF SInv, Shape, Stores
  <2> HIDE DEF o
  <2>4. lastOp' \in 0..MaxOps
    BY <2>2 DEF o
  <2>5. Shape'
    BY <2>1, <2>2, <2>3, <2>4, NoTmpType DEF SInv, Shape, Places, Persisting
  <2>6. InPlace' /\ NeverTorn' /\ Ready(p)'
    BY <2>1 DEF SInv, Shape, InPlace, NeverTorn, Ready, Written
  <2>7. ASSUME ~broken, Kept
        PROVE  Keeps(file)' /\ (dirSync => \A c \in disk : Keeps(c))' /\ OnItsWay(p)'
    <3>1. reported \subseteq Loaded
      BY <2>1, <2>7, LoadedShows DEF Kept, Keeps
    <3>2. OnItsWay(p)'
      BY <2>1, <3>1 DEF OnItsWay, Replaced, SInv, Shape
    <3>3. QED BY <2>1, <2>7, <3>2 DEF Kept, Keeps
  <2>8. QED BY <2>1, <2>5, <2>6, <2>7, OwnStep DEF Watched, SInv, Shape
<1>3. QED BY <1>1, <1>2

LEMMA ArchiveStep ==
    ASSUME SInv, Watched, NEW p \in Procs, Archive(p)
    PROVE  SInv'
<1>1. /\ at[p] = "begin" /\ pc[p] = "fn" /\ op[p] = 0
      /\ mem' = [mem EXCEPT ![p] = {}]
      /\ tmp' = [tmp EXCEPT ![p] = NoTmp]
      /\ at' = [at EXCEPT ![p] = "write"]
      /\ UNCHANGED <<pc, op, lastOp, damaged, dirSync>>
  BY DEF Archive, Inside, TmpName, Move, Stay, vars, trouble, SInv, InPlace
<1>2. \/ file' = Absent /\ disk' = disk \cup {Absent} /\ reported' = {}
      \/ UNCHANGED <<file, disk, reported>>
  BY DEF Archive
<1>3. {} \in Stores /\ Absent \in Contents
  BY DEF Stores, Contents
<1>4. Shape'
  BY <1>1, <1>2, <1>3, NoTmpType DEF SInv, Shape, Places, Persisting
<1>5. InPlace' /\ NeverTorn' /\ Ready(p)'
  BY <1>1, <1>2, FileStatesAssumption
     DEF SInv, Shape, InPlace, NeverTorn, Ready, Written
<1>6. ASSUME ~broken, Kept
      PROVE  Keeps(file)' /\ (dirSync => \A c \in disk : Keeps(c))' /\ OnItsWay(p)'
  BY <1>1, <1>2, <1>6 DEF Kept, Keeps, OnItsWay
<1>7. QED BY <1>1, <1>4, <1>5, <1>6, OwnStep DEF Watched, SInv, Shape

LEMMA WriteTmpStep ==
    ASSUME SInv, Watched, NEW p \in Procs, WriteTmp(p)
    PROVE  SInv'
<1> DEFINE t == [data |-> mem[p], whole |-> TRUE, synced |-> FALSE]
<1>1. /\ at[p] = "write" /\ pc[p] = "fn"
      /\ tmp' = [tmp EXCEPT ![p] = t]
      /\ at' = [at EXCEPT ![p] = "fsync"]
      /\ UNCHANGED <<pc, op, lastOp, mem, file, disk, reported, damaged, dirSync>>
  BY DEF WriteTmp, Inside, TmpName, Move, Stay, vars, trouble
<1>2. t \in TmpFile /\ t.whole /\ t.data = mem[p]
  BY DEF SInv, Shape, TmpFile
<1> HIDE DEF t
<1>3. Shape'
  BY <1>1, <1>2 DEF SInv, Shape, Places, Persisting
<1>4. InPlace' /\ NeverTorn' /\ Ready(p)'
  BY <1>1, <1>2 DEF SInv, Shape, InPlace, NeverTorn, Ready
<1>5. ASSUME ~broken, Kept
      PROVE  Keeps(file)' /\ (dirSync => \A c \in disk : Keeps(c))' /\ OnItsWay(p)'
  BY <1>1, <1>5 DEF Kept, Keeps, OnItsWay, Persisting, Replaced, SInv, Shape
<1>6. QED BY <1>1, <1>3, <1>4, <1>5, OwnStep DEF Watched, SInv, Shape

LEMMA FsyncTmpStep ==
    ASSUME SInv, Watched, NEW p \in Procs, FsyncTmp(p)
    PROVE  SInv'
<1> DEFINE t == [tmp[p] EXCEPT !.synced = TRUE]
<1>1. /\ at[p] = "fsync" /\ pc[p] = "fn"
      /\ tmp' = [tmp EXCEPT ![p] = t]
      /\ at' = [at EXCEPT ![p] = "swap"]
      /\ UNCHANGED <<pc, op, lastOp, mem, file, disk, reported, damaged, dirSync>>
  BY DEF FsyncTmp, Inside, TmpName, Move, Stay, vars, trouble, SInv, Shape
<1>2. tmp[p] \in TmpFile /\ tmp[p].whole /\ tmp[p].data = mem[p]
  BY <1>1 DEF SInv, Shape, Ready, Written
<1>3. t \in TmpFile /\ t.whole /\ t.data = mem[p] /\ t.synced
  BY <1>2 DEF TmpFile
<1> HIDE DEF t
<1>4. Shape'
  BY <1>1, <1>3 DEF SInv, Shape, Places, Persisting
<1>5. InPlace' /\ NeverTorn' /\ Ready(p)'
  BY <1>1, <1>3 DEF SInv, Shape, InPlace, NeverTorn, Ready
<1>6. ASSUME ~broken, Kept
      PROVE  Keeps(file)' /\ (dirSync => \A c \in disk : Keeps(c))' /\ OnItsWay(p)'
  BY <1>1, <1>6 DEF Kept, Keeps, OnItsWay, Persisting, Replaced, SInv, Shape
<1>7. QED BY <1>1, <1>4, <1>5, <1>6, OwnStep DEF Watched, SInv, Shape

\* What the rename puts in place is whole, on the disk, and shows what was
\* reported and the transaction on its way.
LEMMA SwapStep ==
    ASSUME SInv, Watched, NEW p \in Procs, Swap(p)
    PROVE  SInv'
<1> DEFINE S == mem[p]
<1>1. tmp[p].whole /\ tmp[p].synced /\ tmp[p].data = S /\ S \in Stores
  BY DEF Swap, Inside, SInv, Shape, Ready, Written
<1>2. /\ at[p] = "swap" /\ pc[p] = "fn"
      /\ tmp' = [tmp EXCEPT ![p] = NoTmp]
      /\ at' = [at EXCEPT ![p] = "dirsync"]
      /\ file' = S /\ disk' = disk \cup {S}
      /\ reported' = IF op[p] = 0 THEN {} ELSE reported
      /\ UNCHANGED <<pc, op, lastOp, mem, damaged, dirSync>>
  BY <1>1 DEF Swap, Inside, TmpName, Move, Stay, vars, trouble
<1>3. S # Corrupt /\ Shows(S) = S /\ S \in Contents
  BY <1>1, StoresShow
<1> HIDE DEF S
<1>4. {} \in Stores
  BY DEF Stores
<1>5. Shape'
  BY <1>2, <1>3, <1>4, NoTmpType DEF SInv, Shape, Places, Persisting
<1>6. InPlace' /\ NeverTorn' /\ Ready(p)'
  BY <1>2, <1>3 DEF SInv, Shape, InPlace, NeverTorn, Ready, Written
<1>7. ASSUME ~broken, Kept
      PROVE  Keeps(file)' /\ (dirSync => \A c \in disk : Keeps(c))' /\ OnItsWay(p)'
  <2>1. op[p] # 0 => reported \subseteq S /\ op[p] \in S
    BY <1>2, <1>7 DEF Kept, OnItsWay, Persisting, S
  <2>2. reported' \subseteq S /\ reported' \subseteq reported
    BY <1>2, <2>1
  <2>3. Keeps(file)' /\ (dirSync => \A c \in disk : Keeps(c))'
    BY <1>2, <1>3, <1>7, <2>2 DEF Kept, Keeps
  <2>4. OnItsWay(p)'
    BY <1>2, <1>3, <2>1 DEF OnItsWay, Persisting, SInv, Shape
  <2>5. QED BY <2>3, <2>4
<1>8. QED BY <1>2, <1>5, <1>6, <1>7, OwnStep DEF Watched, SInv, Shape

LEMMA SyncDirStep ==
    ASSUME SInv, Watched, NEW p \in Procs, SyncDir(p)
    PROVE  SInv'
<1>1. /\ at[p] = "dirsync" /\ pc[p] = "fn"
      /\ at' = [at EXCEPT ![p] = "emit"]
      /\ disk' = IF dirSync THEN {file} ELSE disk
      /\ UNCHANGED <<pc, op, lastOp, mem, tmp, file, reported, damaged, dirSync>>
  BY DEF SyncDir, Inside, Move, Stay, vars, trouble
<1>2. Shape'
  BY <1>1 DEF SInv, Shape, Places, Persisting
<1>3. InPlace' /\ NeverTorn' /\ Ready(p)'
  BY <1>1 DEF SInv, Shape, InPlace, NeverTorn, Ready, Written
<1>4. ASSUME ~broken, Kept
      PROVE  Keeps(file)' /\ (dirSync => \A c \in disk : Keeps(c))' /\ OnItsWay(p)'
  BY <1>1, <1>4 DEF Kept, Keeps, OnItsWay, Persisting, Replaced, SInv, Shape
<1>5. QED BY <1>1, <1>2, <1>3, <1>4, OwnStep DEF Watched, SInv, Shape

\* The report of a transaction comes when nothing but a file that shows it is left.
LEMMA EmitStep ==
    ASSUME SInv, Watched, NEW p \in Procs, Emit(p)
    PROVE  SInv'
<1> DEFINE o == op[p]
<1>1. PICK l \in Steps : pc' = [pc EXCEPT ![p] = l]
  BY Moves DEF Emit, Done
<1>2. /\ at[p] = "emit" /\ pc[p] = "fn"
      /\ at' = [at EXCEPT ![p] = "out"]
      /\ reported' = IF o = 0 THEN reported ELSE reported \cup {o}
      /\ mem' = [mem EXCEPT ![p] = {}]
      /\ op' = [op EXCEPT ![p] = 0]
      /\ UNCHANGED <<file, disk, tmp, lastOp, damaged, dirSync>>
  BY DEF Emit, Done, Inside, Move, content, trouble
<1>3. o \in 0..MaxOps
  BY DEF SInv, Shape
<1>4. {} \in Stores /\ 0 \in 0..MaxOps /\ (o # 0 => o \in Ops)
  BY <1>3 DEF Stores, Ops
<1>5. ASSUME ~broken, Kept, o # 0
      PROVE  /\ file = Corrupt \/ o \in Shows(file)
             /\ dirSync => \A c \in disk : c = Corrupt \/ o \in Shows(c)
  BY <1>2, <1>5 DEF Kept, OnItsWay, Replaced
<1> HIDE DEF o
<1>6. Shape'
  <2>1. reported' \in Stores
    BY <1>2, <1>4 DEF SInv, Shape, Stores
  <2>2. QED BY <1>1, <1>2, <1>4, <2>1 DEF SInv, Shape, Places, Persisting
<1>7. InPlace' /\ NeverTorn' /\ Ready(p)'
  BY <1>1, <1>2 DEF SInv, Shape, InPlace, NeverTorn, Ready, Written
<1>8. ASSUME ~broken, Kept
      PROVE  Keeps(file)' /\ (dirSync => \A c \in disk : Keeps(c))' /\ OnItsWay(p)'
  <2>1. Keeps(file)' /\ (dirSync => \A c \in disk : Keeps(c))'
    BY <1>2, <1>5, <1>8 DEF Kept, Keeps
  <2>2. OnItsWay(p)'
    BY <1>2 DEF OnItsWay, SInv, Shape
  <2>3. QED BY <2>1, <2>2
<1>9. QED BY <1>2, <1>6, <1>7, <1>8, OwnStep DEF Watched, SInv, Shape

LEMMA PersistFailsStep ==
    ASSUME SInv, Watched, NEW p \in Procs, PersistFails(p)
    PROVE  SInv'
<1>1. PICK l \in Steps : pc' = [pc EXCEPT ![p] = l]
  BY Moves DEF PersistFails, Done
<1>2. {} \in Stores /\ 0 \in 0..MaxOps
  BY DEF Stores
<1>3. Shape'
  BY <1>1, <1>2, NoTmpType DEF PersistFails, Done, Move, TmpName, SInv, Shape, Places, Persisting
<1>4. op'[p] = 0 /\ \A q \in Procs \ {p} : UNCHANGED <<mem[q], op[q], tmp[q]>>
  BY DEF PersistFails, TmpName, SInv, Shape
<1>5. QED BY <1>3, <1>4, ReturnStep DEF PersistFails, trouble

-----------------------------------------------------------------------------
(* The theorems.                                                           *)

LEMMA StoreNextInv == SInv /\ [SNext]_svars => SInv'
<1> SUFFICES ASSUME SInv, [SNext]_svars PROVE SInv'
  OBVIOUS
<1>1. CASE UNCHANGED svars
  BY <1>1, StutterStep
<1>2. CASE SNext
  <2>1. Watched
    BY <1>2 DEF SNext, Watched
  <2>2. CASE \E p \in Procs : StoreCall(p) \/ Acquire(p) \/ GiveBack(p) \/ Die(p)
    BY <2>1, <2>2, StoreCallStep, AcquireStep, GiveBackStep, DieStep
  <2>3. CASE \E p \in Procs : Inner(p)
    BY <2>1, <2>3, LoadStep, ArchiveStep, WriteTmpStep, FsyncTmpStep, SwapStep,
       SyncDirStep, EmitStep, PersistFailsStep DEF Inner
  <2>4. CASE PowerLoss \/ Damage \/ STick
    BY <2>1, <2>4, PowerLossStep, DamageStep, TickStep
  <2>5. QED BY <1>2, <2>2, <2>3, <2>4 DEF SNext
<1>3. QED BY <1>1, <1>2

\* The inductive invariant holds in every reachable state.
THEOREM StoreInvariance == SSpec => []SInv
<1>1. QED BY StoreInitInv, StoreNextInv, PTL DEF SSpec

\* The program never leaves a file behind that it cannot read, for any number of
\* processes, even under a lock that is stolen from live holders: whoever renames
\* a file has written and synced it under a name of its own.
THEOREM Whole == SSpec => []NeverTorn
<1>1. SInv => NeverTorn
  BY DEF SInv
<1>2. QED BY <1>1, StoreInvariance, PTL

\* While the lock excluded, a store that can be read shows everything that was
\* reported, for any number of processes and transactions, deaths and a power
\* failure: a report comes after the rename and, where there is one, the sync of
\* the directory, and nobody starts from an older store.
THEOREM Durable == SSpec => []ReportedStays
<1>1. SInv => ReportedStays
  BY LoadedShows DEF SInv, Kept, Keeps, ReportedStays
<1>2. QED BY <1>1, StoreInvariance, PTL

-----------------------------------------------------------------------------
(* The lock and the store together.                                        *)

\* A power failure empties the lock of processes, and leaves its file or not.
LEMMA PowerLossLock == ASSUME Inv, PowerLoss PROVE Inv' /\ everStale' = everStale
<1>1. /\ pc' = [p \in Procs |-> "idle"] /\ lock' \in {lock, NoFile}
      /\ UNCHANGED <<waited, everStale>>
  BY DEF PowerLoss
<1>2. TypeOK'
  BY <1>1 DEF Inv, TypeOK, Steps
<1>3. Orderly => Orderly'
  BY <1>1 DEF Orderly, Holding
<1>4. QED BY <1>1, <1>2, <1>3 DEF Inv

\* Every other step of the store is one of the lock.
LEMMA LockSteps == SNext => [Next]_vars \/ PowerLoss
<1> SUFFICES ASSUME SNext, ~PowerLoss PROVE [Next]_vars
  OBVIOUS
<1>1. ASSUME NEW p \in Procs, StoreCall(p) \/ Acquire(p) \/ GiveBack(p) \/ Die(p)
      PROVE  [Next]_vars
  BY <1>1 DEF StoreCall, Acquire, GiveBack, Die, Next, Work
<1>2. ASSUME NEW p \in Procs, Inner(p) PROVE [Next]_vars
  <2>1. Fn(p) \/ UNCHANGED vars
    BY <1>2 DEF Inner, Load, Archive, WriteTmp, FsyncTmp, PersistFails, Swap, SyncDir,
                Emit, Done, Stay
  <2>2. QED BY <2>1 DEF Next, Work
<1>3. CASE Damage \/ STick
  BY <1>3 DEF Damage, STick, Next
<1>4. QED BY <1>1, <1>2, <1>3 DEF SNext

\* The lock's invariant, and the reason to trust it: two processes were in the lock
\* at once only if some lock file has been stale.
LockKept == Inv /\ (broken => everStale)

LEMMA LockKeptStep == LockKept /\ [SNext]_svars => LockKept'
<1> SUFFICES ASSUME LockKept, [SNext]_svars PROVE LockKept'
  OBVIOUS
<1>1. CASE UNCHANGED svars
  <2>1. [Next]_vars /\ everStale' = everStale /\ broken' = broken
    BY <1>1 DEF svars, vars
  <2>2. QED BY <2>1, NextInv DEF LockKept
<1>2. CASE SNext
  <2>1. Inv' /\ (everStale => everStale')
    <3>1. CASE PowerLoss
      BY <3>1, PowerLossLock DEF LockKept
    <3>2. CASE [Next]_vars
      BY <3>2, NextInv, StaleStays DEF LockKept
    <3>3. QED BY <1>2, <3>1, <3>2, LockSteps
  <2>2. everStale' \/ MutualExclusion'
    BY <2>1 DEF Inv, Orderly, MutualExclusion
  <2>3. broken' = (broken \/ ~MutualExclusion')
    BY <1>2 DEF SNext
  <2>4. QED BY <2>1, <2>2, <2>3 DEF LockKept
<1>3. QED BY <1>1, <1>2

LEMMA LockInvariance == SSpec => []LockKept
<1>1. SInit => LockKept
  BY InitInv DEF SInit, LockKept
<1>2. QED BY <1>1, LockKeptStep, PTL DEF SSpec

\* The lock excludes around the store as it does by itself, through power failures
\* too, until some lock file has outlived lockStaleMs (file-lock.mjs:42-89).
THEOREM StoreExcludes == SSpec => []ExcludesUntilStale
<1>1. LockKept => ExcludesUntilStale
  BY DEF LockKept, Inv, Orderly, ExcludesUntilStale, MutualExclusion
<1>2. QED BY <1>1, LockInvariance, PTL

\* The promise of the header, with nothing left to trust about the lock: until a
\* lock file has outlived lockStaleMs, a store that can be read shows everything
\* that was reported, and the program leaves no other (relay-jobs.mjs:17-24).
THEOREM NothingLost ==
    SSpec => []( /\ Corrupt \in disk \cup {file} => damaged
                 /\ everStale \/ (file # Corrupt => reported \subseteq Loaded) )
<1>1. SInv /\ LockKept =>
        /\ Corrupt \in disk \cup {file} => damaged
        /\ everStale \/ (file # Corrupt => reported \subseteq Loaded)
  BY LoadedShows DEF SInv, Kept, Keeps, NeverTorn, LockKept
<1>2. QED BY <1>1, StoreInvariance, LockInvariance, PTL

=============================================================================
