-------------------------- MODULE RelaySessionProofs --------------------------
(***************************************************************************)
(* Proofs about RelayServer and RelaySession, for every number of jobs,    *)
(* settlements, calls and resources: first what holds of the server by     *)
(* itself, then what holds of it and the hooks that share its files.       *)
(***************************************************************************)
EXTENDS RelaySession, TLAPS

\* What an ownership file says, if it is there.
JobsOf(o) == IF o = NoFile THEN {} ELSE o.jobs
KeysOf(o) == IF o = NoFile THEN {} ELSE o.keys

-----------------------------------------------------------------------------
(* The server.                                                             *)

Fates == [state : States, ends : 0..MaxEnds]
OwnedFiles == [jobs : SUBSET Jobs, keys : SUBSET Keys]

\* A job has settled as often as its number says, and not before it is enqueued.
JobInv ==
    /\ job \in [Jobs -> Fates]
    /\ \A j \in Jobs : /\ job[j].state = "none" => job[j].ends = 0
                       /\ job[j].state = "settled" => job[j].ends # 0

\* Only settlements are recorded as delivered.
FileInv(o) ==
    o = NoFile \/ (o \in OwnedFiles /\ \A k \in o.keys : k[2] # 0)

CallInv ==
    /\ wait \in [Calls -> [at : {"idle", "woken", "waiting"}, job : Jobs \cup {NoKey},
                           late : BOOLEAN]]
    /\ \A c \in Calls : wait[c].at # "idle" => wait[c].job \in Jobs

Handlers == [at : {"free", "own", "note", "reply", "emit", "push"},
             call : Calls \cup {NoCall}, job : Jobs \cup {NoKey},
             key : Keys \cup {NoKey}, todo : SUBSET Keys]

\* What a handler that runs works on.
BusyInv ==
    /\ busy \in Handlers
    /\ busy.at = "own" <=> busy.job # NoKey
    /\ busy.at \in {"note", "reply"} => busy.call \in Calls /\ busy.key \in Keys
                                        /\ busy.key[2] # 0
    /\ busy.at = "push" => busy.key \in Keys

\* A server that is down has nothing in memory; one that is up watches the store
\* as long as anybody waits for it.
UpInv ==
    /\ up \in BOOLEAN /\ channel \in BOOLEAN /\ watching \in BOOLEAN
    /\ ~up => /\ busy = Resting /\ ~watching /\ ~notifyTimer
              /\ subscriptions = {} /\ wait = [c \in Calls |-> Idle]
    /\ up /\ Needed(subscriptions, Calls) => watching

\* What was told is known to be told: inbox entries in memory, settlements in the
\* ownership file, unless that could not be written.
ToldInv ==
    /\ pushed \subseteq Keys /\ answered \subseteq Keys
    /\ \A k \in answered : k[2] # 0
    /\ \A k \in pushed : k[2] = 0 => up /\ k \in channelSeen
    /\ \A k \in pushed \cup answered : k[2] # 0 => k \in KeysOf(owned) \cup unrecorded

\* What is being told is news when its telling begins.
NewsInv ==
    /\ busy.at \in {"emit", "push"} =>
         \A k \in busy.todo : k \notin channelSeen /\ k \notin KeysOf(owned)
    /\ busy.at = "push" =>
         /\ busy.key \in channelSeen
         /\ busy.key[2] # 0 => busy.key \in KeysOf(owned) \cup unrecorded
         /\ busy.key \in pushed \cup answered => busy.key \in unrecorded
    /\ busy.at = "reply" => busy.key \in KeysOf(owned) \cup unrecorded

ServerInv ==
    /\ JobInv /\ FileInv(owned) /\ CallInv /\ BusyInv /\ UpInv
    /\ subscriptions \subseteq Uris /\ channelSeen \subseteq Keys
    /\ ToldInv /\ NewsInv

-----------------------------------------------------------------------------
(* The session.                                                            *)

Names(k, own) == k[2] # 0 => k[1] \in JobsOf(own)

HookAt == {"off", "SessionStart", "Stop", "sleep", "reload", "write", "block"}
Hooks == [at : HookAt, own : {NoFile} \cup OwnedFiles, jobs : {NoKey} \cup [Jobs -> Fates],
          fresh : SUBSET Keys, known : SUBSET Keys]
\* Where the hook is, and what it has read.
HookInv ==
    /\ hook \in Hooks
    /\ FileInv(hook.own)
    /\ JobsOf(hook.own) \subseteq JobsOf(owned) /\ KeysOf(hook.own) \subseteq KeysOf(owned)
    /\ hook.at \notin {"write", "block"} => hook.fresh = {}
    /\ hook.at \in {"SessionStart", "Stop"} => hook.known = KeysOf(hook.own)
    /\ hook.at = "reload" =>
         /\ hook.jobs \in [Jobs -> Fates] /\ hook.known \subseteq KeysOf(owned)
         /\ \A j \in Jobs : hook.jobs[j].ends <= job[j].ends
    /\ hook.at \in {"write", "block"} => hook.fresh \cap hook.known = {}

FilesInv ==
    /\ hookSeen = NoFile \/ hookSeen \in SUBSET Keys
    /\ told \subseteq Keys /\ hook.fresh \subseteq Keys
    /\ \A k \in told \cup hook.fresh : k[2] <= job[k[1]].ends

\* Ownership: a session's server has recorded whose settlements it tells.
OwnInv ==
    /\ mine \subseteq Jobs /\ JobsOf(owned) \subseteq mine
    /\ busy.at = "own" => busy.job \in mine
    /\ ~ensureFailed =>
         /\ up \/ hook.at \in {"Stop", "sleep", "reload"} => owned # NoFile
         /\ hook.at = "Stop" => hook.own # NoFile
         /\ \A k \in told \cup hook.fresh \cup pushed \cup busy.todo : Names(k, owned)
         /\ busy.at = "push" => Names(busy.key, owned)
         /\ hook.at \in {"SessionStart", "Stop"} => \A k \in told : Names(k, hook.own)

\* A settlement a hook has told is not news to a later one: it is in the hook's
\* seen-set, or was recorded as delivered, or the job has moved on.
Over(J, k) ==
    J[k[1]].ends # k[2] \/ J[k[1]].state # "settled"
Past(tellings, seen, J, keys) ==
    \A k \in tellings : k \in seen \/ (k[2] # 0 /\ (k \in keys \/ Over(J, k)))

OnceInv ==
    seenFailed \/ ensureFailed \/
      /\ Past(told, Seen, job, KeysOf(owned))
      /\ hook.at = "Stop" => Past(told, Seen, job, KeysOf(hook.own))
      /\ hook.at = "reload" => Past(told, Seen, hook.jobs, KeysOf(owned))
      /\ hook.at \in {"write", "block"} => hook.fresh \cap told = {}
      /\ hook.at = "block" => hook.fresh \subseteq Seen

\* Nothing is recorded or marked for nothing.
HeardInv ==
    /\ \A j \in mine : \/ j \in JobsOf(owned) \/ j \in unowned
                       \/ busy.at = "own" /\ busy.job = j
    /\ \A k \in KeysOf(owned) : \/ k \in pushed \cup answered \cup told \cup lost
                                \/ busy.at \in {"push", "reply"} /\ k = busy.key
    /\ \A k \in Seen : k[2] # 0 => \/ k \in pushed \cup answered \cup told \cup lost
                                   \/ hook.at = "block" /\ k \in hook.fresh

SessionInv == ServerInv /\ HookInv /\ FilesInv /\ OwnInv /\ OnceInv /\ HeardInv

-----------------------------------------------------------------------------
(* What a step of the server does.                                         *)

\* The handler, the ownership file and what was told stay as they are.
Quiet == UNCHANGED <<owned, channel, up, channelSeen, busy, history>>

\* A handler begins: an enqueue to be recorded as owned, an answer to be recorded
\* as delivered, or events to be told over the channel.
Begins(c, j) ==
    /\ up /\ busy.at = "free"
    /\ Busy("own", c, j, NoKey, {})
    /\ UNCHANGED <<owned, channel, up, channelSeen, history>>
Answers(c) ==
    /\ up /\ busy.at = "free"
    /\ wait[c].at = "woken" /\ Terminal(wait[c].job)
    /\ Busy("note", c, NoKey, KeyOf(wait[c].job), {})
    /\ UNCHANGED <<job, owned, channel, up, channelSeen, history>>
Emits ==
    /\ up /\ busy.at = "free"
    /\ Busy("emit", NoCall, NoKey, NoKey, ChannelKeys(job, owned) \ channelSeen)
    /\ UNCHANGED <<job, owned, channel, up, channelSeen, history>>

Kinds ==
    \/ Quiet
    \/ \E j \in Jobs, c \in Calls \cup {NoCall} : Begins(c, j)
    \/ \E c \in Calls : Answers(c)
    \/ Emits
    \/ Own \/ Note \/ Reply \/ EmitKey \/ Push \/ Boot \/ Exit

LEMMA StepKinds == [RNext]_rvars => Kinds
<1> SUFFICES ASSUME [RNext]_rvars PROVE Kinds
  OBVIOUS
<1>1. CASE UNCHANGED rvars
  BY <1>1 DEF rvars, files, memory, Kinds, Quiet
<1>2. CASE \E j \in Jobs : World(j)
  BY <1>2 DEF World, SiblingEnqueues, WorkerClaims, Requeues, Settles, Elsewhere, memory,
              Kinds, Quiet
<1>3. ASSUME NEW j \in Jobs, Dispatch(j) PROVE Kinds
  <2>1. Begins(NoCall, j)
    BY <1>3 DEF Dispatch, Free, memory, Begins
  <2>2. QED BY <2>1 DEF Kinds
<1>4. ASSUME NEW j \in Jobs, NEW c \in Calls, DispatchWait(c, j) PROVE Kinds
  <2>1. Begins(c, j)
    BY <1>4 DEF DispatchWait, Free, memory, Begins
  <2>2. QED BY <2>1 DEF Kinds
<1>5. ASSUME NEW c \in Calls, Serve(c) \/ Deadline(c) PROVE Kinds
  <2>1. CASE Look(c)
    BY <2>1 DEF Look, files, Kinds, Quiet, Answers
  <2>2. CASE FallbackTimer(c) \/ Deadline(c)
    BY <2>2 DEF FallbackTimer, Deadline, files, memory, Kinds, Quiet
  <2>3. QED BY <1>5, <2>1, <2>2 DEF Serve
<1>6. CASE Run
  BY <1>6 DEF Run, Kinds
<1>7. CASE EmitUpdates
  BY <1>7 DEF EmitUpdates, Free, files, Kinds, Quiet, Emits
<1>8. CASE PollTick \/ WatchEvent \/ Initialized
  BY <1>8 DEF PollTick, WatchEvent, Initialized, files, Kinds, Quiet
<1>9. ASSUME NEW u \in Uris, Subscribe(u) \/ Unsubscribe(u) PROVE Kinds
  BY <1>9 DEF Subscribe, Unsubscribe, files, Kinds, Quiet
<1>10. CASE Boot \/ Exit
  BY <1>10 DEF Kinds
<1>11. QED BY <1>1, <1>2, <1>3, <1>4, <1>5, <1>6, <1>7, <1>8, <1>9, <1>10 DEF RNext

\* How the store may move: one job at a time.
Moves(j, from, s, n) ==
    job[j].state \in from /\ job' = [job EXCEPT ![j] = [state |-> s, ends |-> n]]
JobMoves(j) ==
    \/ Moves(j, {"none"}, "queued", 0)
    \/ Moves(j, {"queued"}, "running", job[j].ends)
    \/ Moves(j, {"running", "settled"}, "queued", job[j].ends)
    \/ job[j].ends < MaxEnds /\ Moves(j, {"queued", "running"}, "settled", job[j].ends + 1)

LEMMA StoreSteps == [RNext]_rvars => UNCHANGED job \/ \E j \in Jobs : JobMoves(j)
<1> SUFFICES ASSUME [RNext]_rvars PROVE UNCHANGED job \/ \E j \in Jobs : JobMoves(j)
  OBVIOUS
<1>1. ASSUME NEW j \in Jobs, World(j) PROVE JobMoves(j)
  BY <1>1 DEF World, SiblingEnqueues, WorkerClaims, Requeues, Settles, Elsewhere, Store,
              JobMoves, Moves
<1>2. ASSUME NEW j \in Jobs, Enqueue(j) PROVE UNCHANGED job \/ JobMoves(j)
  BY <1>2 DEF Enqueue, Store, JobMoves, Moves
<1>3. ASSUME NEW j \in Jobs, Dispatch(j) \/ \E c \in Calls : DispatchWait(c, j)
      PROVE  Enqueue(j)
  BY <1>3 DEF Dispatch, DispatchWait
<1>4. CASE UNCHANGED rvars
  BY <1>4 DEF rvars, files
<1>5. CASE \E c \in Calls : Serve(c) \/ Deadline(c)
  BY <1>5 DEF Serve, Look, FallbackTimer, Deadline, files
<1>6. CASE Run
  BY <1>6 DEF Run, Own, Note, Reply, EmitKey, Push, files
<1>7. CASE EmitUpdates \/ PollTick \/ WatchEvent \/ Initialized \/ Boot \/ Exit
  BY <1>7 DEF EmitUpdates, PollTick, WatchEvent, Initialized, Boot, Exit, files
<1>8. CASE \E u \in Uris : Subscribe(u) \/ Unsubscribe(u)
  BY <1>8 DEF Subscribe, Unsubscribe, files
<1>9. QED BY <1>1, <1>2, <1>3, <1>4, <1>5, <1>6, <1>7, <1>8 DEF RNext

\* Numbers of settlements only grow, and a settlement that is over stays over.
Grows(J, K) ==
    \A j \in Jobs : /\ J[j].ends <= K[j].ends
                    /\ \A n \in 1..MaxEnds :
                         n <= J[j].ends /\ Over(J, <<j, n>>) => Over(K, <<j, n>>)

LEMMA JobStep ==
    ASSUME JobInv, [RNext]_rvars
    PROVE  JobInv' /\ Grows(job, job')
<1>0. \A j \in Jobs : job[j].ends \in Nat /\ job[j].state \in States
  BY EndsAssumption DEF JobInv, Fates
<1>1. CASE UNCHANGED job
  <2>1. JobInv'
    BY <1>1 DEF JobInv
  <2>2. QED BY <1>0, <1>1, <2>1 DEF Grows, Over
<1>2. ASSUME NEW j \in Jobs, JobMoves(j) PROVE JobInv' /\ Grows(job, job')
  <2>1. PICK s \in States, n \in 0..MaxEnds :
          /\ job' = [job EXCEPT ![j] = [state |-> s, ends |-> n]]
          /\ job[j].ends <= n
          /\ s = "none" => n = 0
          /\ s = "settled" => n # 0 /\ job[j].ends < n
          /\ job[j].state = "settled" /\ job[j].ends = n => s # "settled"
    BY <1>0, <1>2, EndsAssumption DEF JobMoves, Moves, JobInv, Fates, States
  <2>2. /\ job'[j].state = s /\ job'[j].ends = n
        /\ \A i \in Jobs : i # j => job'[i] = job[i]
    BY <2>1 DEF JobInv
  <2>3. JobInv'
    BY <2>1, <2>2 DEF JobInv, Fates
  <2>4. n \in Nat
    BY EndsAssumption
  <2>5. ASSUME NEW i \in Jobs
        PROVE  /\ job[i].ends <= job'[i].ends
               /\ \A m \in 1..MaxEnds :
                    m <= job[i].ends /\ Over(job, <<i, m>>) => Over(job', <<i, m>>)
    <3>1. CASE i = j
      BY <1>0, <2>1, <2>2, <2>4, <3>1 DEF Over
    <3>2. CASE i # j
      BY <1>0, <2>2, <3>2 DEF Over
    <3>3. QED BY <3>1, <3>2
  <2>6. QED BY <2>3, <2>5 DEF Grows
<1>3. QED BY <1>1, <1>2, StoreSteps

LEMMA KeysOfJobs ==
    ASSUME JobInv
    PROVE  /\ \A j \in Jobs : KeyOf(j) \in Keys
           /\ \A j \in Jobs : Terminal(j) => KeyOf(j)[2] # 0
BY DEF JobInv, Fates, KeyOf, Keys, Terminal

\* The keys that are news for the owner of a file.
LEMMA NewsKeys ==
    ASSUME NEW J \in [Jobs -> Fates], NEW own
    PROVE  /\ ChannelKeys(J, own) \subseteq Keys
           /\ \A k \in ChannelKeys(J, own) : k[2] # 0 =>
                /\ k \notin KeysOf(own) /\ (own # NoFile => k[1] \in JobsOf(own))
                /\ J[k[1]].state = "settled" /\ J[k[1]].ends = k[2]
           /\ \A k \in ChannelKeys(J, own) : k[2] <= J[k[1]].ends
<1> DEFINE A == {<<j, J[j].ends>> : j \in {i \in Jobs :
                   /\ J[i].state = "settled"
                   /\ own # NoFile => i \in own.jobs /\ <<i, J[i].ends>> \notin own.keys}}
           B == {<<j, 0>> : j \in {i \in Inbox : J[i].state = "queued"}}
<1>1. ChannelKeys(J, own) = A \cup B
  BY DEF ChannelKeys
<1>2. 0 \in 0..MaxEnds /\ \A j \in Jobs : J[j].ends \in 0..MaxEnds
  BY EndsAssumption DEF Fates
<1>3. \A n \in 0..MaxEnds : n \in Nat /\ n <= n
  BY EndsAssumption
<1>4. ASSUME NEW k \in A
      PROVE  /\ k \in Keys
             /\ k \notin KeysOf(own) /\ (own # NoFile => k[1] \in JobsOf(own))
             /\ J[k[1]].state = "settled" /\ J[k[1]].ends = k[2]
             /\ k[2] <= J[k[1]].ends
  <2>1. PICK j \in Jobs : /\ k = <<j, J[j].ends>> /\ J[j].state = "settled"
                          /\ own # NoFile => j \in own.jobs /\ <<j, J[j].ends>> \notin own.keys
    BY <1>4
  <2>2. k[1] = j /\ k[2] = J[j].ends
    BY <2>1
  <2>3. k \in Keys
    BY <1>2, <2>1 DEF Keys
  <2>4. k \notin KeysOf(own) /\ (own # NoFile => k[1] \in JobsOf(own))
    BY <2>1, <2>2 DEF KeysOf, JobsOf
  <2>5. J[j].ends <= J[j].ends
    BY <1>2, <1>3
  <2>6. /\ J[k[1]].state = "settled" /\ J[k[1]].ends = k[2]
        /\ k[2] <= J[k[1]].ends
    BY <2>1, <2>2, <2>5, Zenon
  <2> HIDE DEF A
  <2>7. QED BY <2>3, <2>4, <2>6
<1>5. ASSUME NEW k \in B
      PROVE  k \in Keys /\ k[2] = 0 /\ k[2] <= J[k[1]].ends
  <2>1. PICK j \in Inbox : k = <<j, 0>>
    BY <1>5
  <2>2. j \in Jobs /\ k[1] = j /\ k[2] = 0
    BY <2>1, InboxAssumption
  <2>3. J[j].ends \in Nat
    BY <1>2, <1>3, <2>2
  <2>4. k \in Keys
    BY <1>2, <2>1, <2>2 DEF Keys
  <2> HIDE DEF B
  <2>5. QED BY <2>2, <2>3, <2>4
<1> HIDE DEF A, B
<1>6. QED BY <1>1, <1>4, <1>5

\* What recording does to the ownership file.
LEMMA Recording ==
    ASSUME NEW js \in SUBSET Jobs, NEW ks \in SUBSET Keys, \A k \in ks : k[2] # 0,
           FileInv(owned), RecordOwned(js, ks)
    PROVE  /\ FileInv(owned)' /\ (owned # NoFile => owned' # NoFile)
           /\ \/ /\ owned' # NoFile /\ unrecorded' = unrecorded
                 /\ JobsOf(owned)' = JobsOf(owned) \cup js
                 /\ KeysOf(owned)' = KeysOf(owned) \cup ks
              \/ owned' = owned /\ unrecorded' = unrecorded \cup ks
<1>1. CASE owned' = owned /\ unrecorded' = unrecorded \cup ks
  BY <1>1 DEF FileInv
<1>2. CASE /\ owned' = [jobs |-> JobsOf(owned) \cup js, keys |-> KeysOf(owned) \cup ks]
           /\ unrecorded' = unrecorded
  <2>1. JobsOf(owned) \in SUBSET Jobs /\ KeysOf(owned) \in SUBSET Keys
    BY DEF FileInv, JobsOf, KeysOf, OwnedFiles
  <2>2. \A k \in KeysOf(owned) \cup ks : k[2] # 0
    BY DEF FileInv, KeysOf
  <2>3. owned' \in OwnedFiles /\ owned' # NoFile
    BY <1>2, <2>1, NoFileAssumption DEF OwnedFiles, Keys
  <2>4. QED BY <1>2, <2>2, <2>3 DEF FileInv, JobsOf, KeysOf
<1>3. QED BY <1>1, <1>2 DEF RecordOwned, Nothing, JobsOf, KeysOf

LEMMA NothingIsAFile == Nothing \in OwnedFiles /\ Nothing # NoFile /\ FileInv(Nothing)
<1>1. Nothing \in OwnedFiles /\ Nothing.keys = {}
  BY DEF Nothing, OwnedFiles
<1>2. Nothing # NoFile
  BY NoFileAssumption DEF Nothing, OwnedFiles, Keys
<1>3. QED BY <1>1, <1>2 DEF FileInv

-----------------------------------------------------------------------------
(* The server keeps its invariant.                                         *)

LEMMA FileStep ==
    ASSUME ServerInv, [RNext]_rvars
    PROVE  /\ FileInv(owned)' /\ (owned # NoFile => owned' # NoFile)
           /\ JobsOf(owned) \subseteq JobsOf(owned)' /\ KeysOf(owned) \subseteq KeysOf(owned)'
<1>1. CASE owned' = owned
  BY <1>1 DEF ServerInv, FileInv, JobsOf, KeysOf
<1>2. ASSUME NEW js \in SUBSET Jobs, NEW ks \in SUBSET Keys, \A k \in ks : k[2] # 0,
             RecordOwned(js, ks)
      PROVE  /\ FileInv(owned)' /\ (owned # NoFile => owned' # NoFile)
             /\ JobsOf(owned) \subseteq JobsOf(owned)' /\ KeysOf(owned) \subseteq KeysOf(owned)'
  <2>1. FileInv(owned)
    BY DEF ServerInv
  <2>2. CASE owned' = owned
    BY <1>1, <2>2
  <2>3. QED BY <1>2, <2>1, <2>2, Recording
<1>3. CASE Own
  <2>1. {busy.job} \in SUBSET Jobs /\ {} \in SUBSET Keys
    BY <1>3 DEF Own, ServerInv, BusyInv, Handlers
  <2>2. QED BY <1>2, <1>3, <2>1 DEF Own
<1>4. CASE Note
  <2>1. {} \in SUBSET Jobs /\ {busy.key} \in SUBSET Keys /\ busy.key[2] # 0
    BY <1>4 DEF Note, ServerInv, BusyInv
  <2>2. QED BY <1>2, <1>4, <2>1 DEF Note
<1>5. CASE EmitKey
  <2>1. PICK k \in busy.todo : IF k[2] # 0 THEN RecordOwned({}, {k})
                               ELSE UNCHANGED <<owned, unrecorded>>
    BY <1>5 DEF EmitKey
  <2>2. {} \in SUBSET Jobs /\ {k} \in SUBSET Keys
    BY DEF ServerInv, BusyInv, Handlers
  <2>3. QED BY <1>1, <1>2, <2>1, <2>2
<1>6. CASE Boot
  <2>1. CASE owned' = Nothing /\ owned = NoFile
    BY <2>1, NothingIsAFile DEF JobsOf, KeysOf
  <2>2. QED BY <1>1, <1>6, <2>1 DEF Boot, EnsureOwnedFile
<1>7. CASE Reply \/ Push \/ Exit
  BY <1>1, <1>7 DEF Reply, Push, Exit, files
<1>8. CASE Quiet \/ (\E j \in Jobs, c \in Calls \cup {NoCall} : Begins(c, j))
             \/ (\E c \in Calls : Answers(c)) \/ Emits
  BY <1>1, <1>8 DEF Quiet, Begins, Answers, Emits
<1>9. QED BY <1>3, <1>4, <1>5, <1>6, <1>7, <1>8, StepKinds DEF Kinds

\* A handler in a given place.
LEMMA HandlerIn ==
    ASSUME NEW at \in {"free", "own", "note", "reply", "emit", "push"},
           NEW c \in Calls \cup {NoCall}, NEW j \in Jobs \cup {NoKey},
           NEW k \in Keys \cup {NoKey}, NEW todo \in SUBSET Keys, Busy(at, c, j, k, todo)
    PROVE  /\ busy' \in Handlers
           /\ busy'.at = at /\ busy'.call = c /\ busy'.job = j /\ busy'.key = k /\ busy'.todo = todo
BY DEF Busy, Handlers

LEMMA RestingIn ==
    Rest => /\ busy' \in Handlers
            /\ busy'.at = "free" /\ busy'.job = NoKey /\ busy'.todo = {}
BY DEF Rest, Resting, Handlers

LEMMA BusyStep ==
    ASSUME ServerInv, [RNext]_rvars
    PROVE  BusyInv'
<1>0. /\ busy \in Handlers
      /\ busy.at = "own" <=> busy.job # NoKey
      /\ busy.at \in {"note", "reply"} => busy.call \in Calls /\ busy.key \in Keys
                                          /\ busy.key[2] # 0
      /\ busy.at = "push" => busy.key \in Keys
  BY DEF ServerInv, BusyInv
<1>1. CASE Quiet \/ Boot
  <2>1. busy' = busy
    BY <1>1 DEF Quiet, Boot
  <2>2. QED BY <1>0, <2>1 DEF BusyInv
<1>2. ASSUME NEW j \in Jobs, NEW c \in Calls \cup {NoCall}, Begins(c, j)
      PROVE  BusyInv'
  <2>1. /\ busy' \in Handlers /\ busy'.at = "own" /\ busy'.job = j
    BY <1>2, HandlerIn DEF Begins
  <2>2. QED BY <2>1, NoKeyAssumption DEF BusyInv
<1>3. ASSUME NEW c \in Calls, Answers(c) PROVE BusyInv'
  <2>1. KeyOf(wait[c].job) \in Keys /\ KeyOf(wait[c].job)[2] # 0
    BY <1>3, KeysOfJobs DEF Answers, ServerInv, CallInv
  <2>2. /\ busy' \in Handlers /\ busy'.at = "note" /\ busy'.job = NoKey
        /\ busy'.call = c /\ busy'.key = KeyOf(wait[c].job)
    BY <1>3, <2>1, HandlerIn DEF Answers
  <2>3. QED BY <2>1, <2>2 DEF BusyInv
<1>4. CASE Emits
  <2>1. ChannelKeys(job, owned) \ channelSeen \in SUBSET Keys
    BY NewsKeys DEF ServerInv, JobInv
  <2>2. /\ busy' \in Handlers /\ busy'.at = "emit" /\ busy'.job = NoKey
    BY <1>4, <2>1, HandlerIn DEF Emits
  <2>3. QED BY <2>2 DEF BusyInv
<1>5. CASE Own \/ Reply \/ Exit
  BY <1>5, RestingIn DEF Own, Reply, Exit, BusyInv
<1>6. CASE Note
  <2>1. busy' = [busy EXCEPT !.at = "reply"] /\ busy.at = "note"
    BY <1>6 DEF Note
  <2>2. /\ busy' \in Handlers /\ busy'.at = "reply" /\ busy'.job = busy.job
        /\ busy'.call = busy.call /\ busy'.key = busy.key
    BY <1>0, <2>1 DEF Handlers
  <2>3. QED BY <1>0, <2>1, <2>2 DEF BusyInv
<1>7. CASE EmitKey
  <2>1. PICK k \in busy.todo : Busy("push", NoCall, NoKey, k, busy.todo \ {k})
    BY <1>7 DEF EmitKey
  <2>2. k \in Keys /\ busy.todo \ {k} \in SUBSET Keys
    BY <1>0 DEF Handlers
  <2>3. busy' \in Handlers /\ busy'.at = "push" /\ busy'.job = NoKey /\ busy'.key = k
    BY <2>1, <2>2, HandlerIn
  <2>4. QED BY <2>2, <2>3 DEF BusyInv
<1>8. CASE Push
  <2>1. CASE Rest
    BY <2>1, RestingIn DEF BusyInv
  <2>2. CASE Busy("emit", NoCall, NoKey, NoKey, busy.todo)
    <3>1. busy.todo \in SUBSET Keys
      BY <1>0 DEF Handlers
    <3>2. busy' \in Handlers /\ busy'.at = "emit" /\ busy'.job = NoKey
      BY <2>2, <3>1, HandlerIn
    <3>3. QED BY <3>2 DEF BusyInv
  <2>3. QED BY <1>8, <2>1, <2>2 DEF Push
<1>9. QED BY <1>1, <1>2, <1>3, <1>4, <1>5, <1>6, <1>7, <1>8, StepKinds DEF Kinds

LEMMA SeenStep ==
    ASSUME ServerInv, [RNext]_rvars
    PROVE  channelSeen' \subseteq Keys
<1>0. channelSeen \subseteq Keys /\ busy.todo \subseteq Keys
  BY DEF ServerInv, BusyInv, Handlers
<1>1. CASE UNCHANGED channelSeen
  BY <1>0, <1>1
<1>2. CASE EmitKey
  BY <1>0, <1>2 DEF EmitKey
<1>3. CASE Boot
  BY <1>3, NewsKeys DEF Boot, SeedChannel, ServerInv, JobInv
<1>4. CASE Exit
  BY <1>4 DEF Exit
<1>5. CASE Own \/ Note \/ Reply \/ Push
  BY <1>1, <1>5 DEF Own, Note, Reply, Push, memory
<1>6. CASE Quiet \/ (\E j \in Jobs, c \in Calls \cup {NoCall} : Begins(c, j))
             \/ (\E c \in Calls : Answers(c)) \/ Emits
  BY <1>1, <1>6 DEF Quiet, Begins, Answers, Emits
<1>7. QED BY <1>2, <1>3, <1>4, <1>5, <1>6, StepKinds DEF Kinds

\* The open calls: one call at a time moves, or all that wait are woken.
Calling == [at : {"idle", "woken", "waiting"}, job : Jobs \cup {NoKey}, late : BOOLEAN]

LEMMA CallMoves ==
    ASSUME CallInv, NEW c \in Calls, NEW w \in Calling, w.at # "idle" => w.job \in Jobs,
           wait' = [wait EXCEPT ![c] = w]
    PROVE  CallInv'
BY DEF CallInv, Calling

LEMMA IdleCall == Idle \in Calling /\ Idle.at = "idle"
BY DEF Idle, Calling

LEMMA CallStep ==
    ASSUME ServerInv, [RNext]_rvars
    PROVE  CallInv'
<1>0. /\ CallInv /\ wait \in [Calls -> Calling]
      /\ \A c \in Calls : wait[c].at # "idle" => wait[c].job \in Jobs
  BY DEF ServerInv, CallInv, Calling
<1>1. CASE UNCHANGED wait
  BY <1>0, <1>1 DEF CallInv
<1>2. CASE WakeAll
  BY <1>0, <1>2 DEF WakeAll, CallInv, Calling
<1>3. ASSUME NEW c \in Calls, Leave(c) PROVE CallInv'
  BY <1>0, <1>3, IdleCall, CallMoves DEF Leave
<1>4. CASE Own
  <2>1. busy.job \in Jobs
    BY <1>4, NoKeyAssumption DEF Own, ServerInv, BusyInv, Handlers
  <2>2. CASE busy.call = NoCall
    BY <1>1, <1>4, <2>2 DEF Own
  <2>3. CASE busy.call # NoCall
    <3>1. busy.call \in Calls
      BY <2>3 DEF ServerInv, BusyInv, Handlers
    <3> DEFINE w == [at |-> "woken", job |-> busy.job, late |-> FALSE]
    <3>2. w \in Calling /\ w.job \in Jobs
      BY <2>1 DEF Calling
    <3>3. wait' = [wait EXCEPT ![busy.call] = w]
      BY <1>4, <2>3 DEF Own
    <3> HIDE DEF w
    <3>4. QED BY <1>0, <3>1, <3>2, <3>3, CallMoves
  <2>4. QED BY <2>2, <2>3
<1>5. ASSUME NEW c \in Calls, Look(c) \/ FallbackTimer(c) \/ Deadline(c) PROVE CallInv'
  <2>1. ASSUME NEW at \in {"woken", "waiting"}, wait[c].at # "idle",
               wait' = [wait EXCEPT ![c].at = at]
        PROVE  CallInv'
    BY <1>0, <2>1 DEF CallInv, Calling
  <2>2. ASSUME wait' = [wait EXCEPT ![c].late = TRUE]
        PROVE  CallInv'
    BY <1>0, <2>2 DEF CallInv, Calling
  <2>3. CASE Look(c)
    BY <1>1, <1>3, <2>1, <2>3 DEF Look
  <2>4. CASE FallbackTimer(c)
    BY <2>1, <2>4 DEF FallbackTimer
  <2>5. CASE Deadline(c)
    BY <2>2, <2>5 DEF Deadline
  <2>6. QED BY <1>5, <2>3, <2>4, <2>5
<1>6. CASE Reply
  <2>1. busy.call \in Calls /\ Leave(busy.call)
    BY <1>6 DEF Reply, ServerInv, BusyInv
  <2>2. QED BY <1>3, <2>1
<1>7. CASE Exit
  BY <1>7, IdleCall DEF Exit, CallInv, Calling
<1>8. CASE \E j \in Jobs : World(j) \/ Dispatch(j) \/ \E c \in Calls : DispatchWait(c, j)
  BY <1>1, <1>8 DEF World, SiblingEnqueues, WorkerClaims, Requeues, Settles, Elsewhere,
                    Dispatch, DispatchWait
<1>9. CASE Note \/ EmitKey \/ Push \/ EmitUpdates \/ Initialized \/ Boot
  BY <1>1, <1>9 DEF Note, EmitKey, Push, EmitUpdates, Initialized, Boot
<1>10. CASE \E u \in Uris : Subscribe(u) \/ Unsubscribe(u)
  BY <1>1, <1>10 DEF Subscribe, Unsubscribe
<1>11. CASE PollTick \/ WatchEvent
  BY <1>2, <1>11 DEF PollTick, WatchEvent
<1>12. CASE UNCHANGED rvars
  BY <1>1, <1>12 DEF rvars
<1>13. QED BY <1>4, <1>5, <1>6, <1>7, <1>8, <1>9, <1>10, <1>11, <1>12 DEF RNext, Serve, Run

LEMMA SubscriptionStep ==
    ASSUME ServerInv, [RNext]_rvars
    PROVE  subscriptions' \subseteq Uris
<1>0. subscriptions \subseteq Uris
  BY DEF ServerInv
<1>1. CASE UNCHANGED subscriptions
  BY <1>0, <1>1
<1>2. CASE \E u \in Uris : Subscribe(u) \/ Unsubscribe(u)
  BY <1>0, <1>2 DEF Subscribe, Unsubscribe
<1>3. CASE \E j \in Jobs : World(j) \/ Dispatch(j) \/ \E c \in Calls : DispatchWait(c, j)
  BY <1>1, <1>3 DEF World, SiblingEnqueues, WorkerClaims, Requeues, Settles, Elsewhere,
                    Dispatch, DispatchWait, memory
<1>4. CASE \E c \in Calls : Look(c) \/ FallbackTimer(c) \/ Deadline(c)
  BY <1>1, <1>4 DEF Look, FallbackTimer, Deadline, memory
<1>5. CASE Own \/ Note \/ Reply \/ EmitKey \/ Push
  BY <1>1, <1>5 DEF Own, Note, Reply, EmitKey, Push, memory
<1>6. CASE EmitUpdates \/ PollTick \/ WatchEvent \/ Initialized \/ Boot
  BY <1>1, <1>6 DEF EmitUpdates, PollTick, WatchEvent, Initialized, Boot
<1>7. CASE Exit
  BY <1>7 DEF Exit
<1>8. CASE UNCHANGED rvars
  BY <1>1, <1>8 DEF rvars, memory
<1>9. QED BY <1>2, <1>3, <1>4, <1>5, <1>6, <1>7, <1>8 DEF RNext, Serve, Run

\* A call waits after a step only if it waited before, or started to with this one.
StillWaiting == \A c \in Calls : wait'[c].at # "idle" => wait[c].at # "idle"

LEMMA UpStep ==
    ASSUME ServerInv, [RNext]_rvars
    PROVE  UpInv'
<1>0. /\ UpInv /\ CallInv /\ wait \in [Calls -> Calling]
  BY DEF ServerInv, CallInv, Calling
<1>1. ASSUME up, up' = up, channel' = channel, subscriptions' \subseteq subscriptions,
             watching' = watching, StillWaiting
      PROVE  UpInv'
  BY <1>0, <1>1 DEF UpInv, Needed, StillWaiting
<1>2. ASSUME ~up, up' = up, channel' = channel, subscriptions' = subscriptions,
             watching' = watching, notifyTimer' = notifyTimer, wait' = wait, busy' = busy
      PROVE  UpInv'
  BY <1>0, <1>2, Zenon DEF UpInv, Needed
<1>3. ASSUME wait' = wait PROVE StillWaiting
  BY <1>3 DEF StillWaiting
<1>4. CASE \E j \in Jobs : World(j)
  <2>1. UNCHANGED <<up, channel, subscriptions, watching, notifyTimer, wait, busy>>
    BY <1>4 DEF World, SiblingEnqueues, WorkerClaims, Requeues, Settles, Elsewhere, memory
  <2>2. QED BY <1>0, <1>1, <1>2, <1>3, <2>1 DEF UpInv
<1>5. CASE \E j \in Jobs : Dispatch(j) \/ \E c \in Calls : DispatchWait(c, j)
  <2>1. up /\ UNCHANGED <<up, channel, subscriptions, watching, wait>>
    BY <1>5 DEF Dispatch, DispatchWait, Free, memory
  <2>2. QED BY <1>1, <1>3, <2>1
<1>6. CASE Note \/ EmitKey \/ Push \/ EmitUpdates \/ Initialized
  <2>0. Note => up
    BY <1>0 DEF Note, UpInv, Resting
  <2>1. up /\ UNCHANGED <<up, channel, subscriptions, watching, wait>>
    BY <1>6, <2>0 DEF Note, EmitKey, Push, EmitUpdates, Initialized, Free, memory
  <2>2. QED BY <1>1, <1>3, <2>1
<1>7. CASE PollTick \/ WatchEvent
  <2>1. up /\ UNCHANGED <<up, channel, subscriptions, watching>> /\ WakeAll
    BY <1>7 DEF PollTick, WatchEvent, Free
  <2>2. StillWaiting
    BY <1>0, <2>1 DEF WakeAll, StillWaiting, Calling
  <2>3. QED BY <1>1, <2>1, <2>2
<1>8. ASSUME NEW c \in Calls, up, up' = up, channel' = channel,
             subscriptions' = subscriptions, Leave(c)
      PROVE  UpInv'
  <2>1. /\ wait' = [wait EXCEPT ![c] = Idle]
        /\ watching' = (watching /\ Needed(subscriptions, Calls \ {c}))
    BY <1>8 DEF Leave
  <2>2. \A d \in Calls : wait'[d].at # "idle" => d # c /\ wait[d].at # "idle"
    BY <1>0, <2>1, IdleCall
  <2>3. Needed(subscriptions, Calls)' => Needed(subscriptions, Calls \ {c})
    BY <1>8, <2>2 DEF Needed
  <2>4. Needed(subscriptions, Calls)' => Needed(subscriptions, Calls)
    BY <1>8, <2>2 DEF Needed
  <2>5. watching' \in BOOLEAN
    BY <2>1, Zenon
  <2>6. Needed(subscriptions, Calls)' => watching'
    BY <1>0, <1>8, <2>1, <2>3, <2>4, Zenon DEF UpInv
  <2>7. up' /\ up' \in BOOLEAN /\ channel' \in BOOLEAN
    BY <1>0, <1>8 DEF UpInv
  <2>8. QED BY <2>5, <2>6, <2>7, Zenon DEF UpInv
<1>9. ASSUME NEW c \in Calls, Look(c) PROVE UpInv'
  <2>1. up /\ UNCHANGED <<up, channel, subscriptions>>
    BY <1>9 DEF Look
  <2>2. CASE UNCHANGED <<wait, watching>>
    BY <1>1, <1>3, <2>1, <2>2
  <2>3. CASE wait' = [wait EXCEPT ![c].at = "waiting"] /\ UNCHANGED watching
    <3>1. StillWaiting
      BY <1>0, <1>9, <2>3 DEF Look, StillWaiting, Calling
    <3>2. QED BY <1>1, <2>1, <2>3, <3>1
  <2>4. CASE Leave(c)
    BY <1>8, <2>1, <2>4
  <2>5. QED BY <1>9, <2>2, <2>3, <2>4 DEF Look
<1>10. ASSUME NEW c \in Calls, FallbackTimer(c) \/ Deadline(c) PROVE UpInv'
  <2>1. wait[c].at # "idle" /\ UNCHANGED <<up, channel, subscriptions, watching>>
    BY <1>10 DEF FallbackTimer, Deadline, memory
  <2>2. up
    BY <1>0, <2>1, IdleCall DEF UpInv
  <2>3. StillWaiting
    BY <1>0, <1>10 DEF FallbackTimer, Deadline, StillWaiting, Calling
  <2>4. QED BY <1>1, <2>1, <2>2, <2>3
<1>11. CASE Reply
  <2>1. busy.call \in Calls /\ up
    BY <1>0, <1>11 DEF Reply, ServerInv, BusyInv, UpInv, Resting
  <2>2. QED BY <1>8, <1>11, <2>1 DEF Reply
<1>12. CASE Own
  <2>1. up /\ UNCHANGED <<up, channel, subscriptions>>
    BY <1>12 DEF Own
  <2>2. CASE busy.call = NoCall
    BY <1>1, <1>3, <1>12, <2>1, <2>2 DEF Own
  <2>3. CASE busy.call # NoCall
    BY <1>0, <1>12, <2>1, <2>3 DEF Own, StartWatching, UpInv
  <2>4. QED BY <2>2, <2>3
<1>13. ASSUME NEW u \in Uris, Subscribe(u) \/ Unsubscribe(u) PROVE UpInv'
  <2>1. up /\ UNCHANGED <<up, channel, wait>>
    BY <1>13 DEF Subscribe, Unsubscribe, Free
  <2>2. CASE Subscribe(u)
    BY <1>0, <2>1, <2>2 DEF Subscribe, StartWatching, UpInv
  <2>3. CASE Unsubscribe(u)
    <3>1. /\ watching' = (watching /\ Needed(subscriptions', Calls))
          /\ subscriptions' = subscriptions \ {u}
      BY <2>3 DEF Unsubscribe
    <3>2. Needed(subscriptions, Calls)' <=> Needed(subscriptions', Calls)
      BY <2>1 DEF Needed
    <3>3. Needed(subscriptions, Calls)' => Needed(subscriptions, Calls)
      BY <2>1, <3>1 DEF Needed
    <3>4. watching' \in BOOLEAN
      BY <3>1, Zenon
    <3>5. Needed(subscriptions, Calls)' => watching'
      BY <1>0, <2>1, <3>1, <3>2, <3>3, Zenon DEF UpInv
    <3>6. up' /\ up' \in BOOLEAN /\ channel' \in BOOLEAN
      BY <1>0, <2>1 DEF UpInv
    <3>7. QED BY <3>4, <3>5, <3>6, Zenon DEF UpInv
  <2>4. QED BY <1>13, <2>2, <2>3
<1>14. CASE Boot
  <2>1. /\ ~up /\ up' = TRUE /\ watching' = channel
        /\ UNCHANGED <<channel, subscriptions, wait>>
    BY <1>14 DEF Boot
  <2>2. subscriptions = {} /\ \A c \in Calls : wait[c].at = "idle"
    BY <1>0, <2>1, IdleCall DEF UpInv
  <2>3. Needed(subscriptions, Calls)' => channel
    BY <2>1, <2>2 DEF Needed
  <2>4. QED BY <1>0, <2>1, <2>3 DEF UpInv
<1>15. CASE Exit
  BY <1>0, <1>15 DEF Exit, UpInv, Rest
<1>16. CASE UNCHANGED rvars
  <2>1. UNCHANGED <<up, channel, subscriptions, watching, notifyTimer, wait, busy>>
    BY <1>16 DEF rvars, memory
  <2>2. QED BY <1>0, <1>1, <1>2, <1>3, <2>1 DEF UpInv
<1>17. QED BY <1>4, <1>5, <1>6, <1>7, <1>9, <1>10, <1>11, <1>12, <1>13, <1>14, <1>15, <1>16
       DEF RNext, Serve, Run

\* What a step that tells nothing keeps.
LEMMA ToldKept ==
    ASSUME ServerInv, [RNext]_rvars, up' = up, channelSeen \subseteq channelSeen',
           pushed' = pushed, answered' = answered, unrecorded \subseteq unrecorded'
    PROVE  ToldInv'
<1>1. KeysOf(owned) \subseteq KeysOf(owned)'
  BY FileStep
<1>2. QED BY <1>1 DEF ServerInv, ToldInv

LEMMA TellingStep ==
    ASSUME ServerInv, [RNext]_rvars
    PROVE  ToldInv' /\ NewsInv'
<1>0. /\ ToldInv /\ NewsInv /\ BusyInv /\ FileInv(owned) /\ UpInv
      /\ KeysOf(owned) \subseteq KeysOf(owned)'
  BY FileStep DEF ServerInv
<1>1. CASE Quiet
  <2>1. UNCHANGED <<owned, up, channelSeen, busy, answered, pushed, unrecorded>>
    BY <1>1 DEF Quiet, history
  <2>2. QED BY <1>0, <2>1, ToldKept DEF NewsInv, KeysOf
<1>2. CASE \/ \E j \in Jobs, c \in Calls \cup {NoCall} : Begins(c, j)
           \/ \E c \in Calls : Answers(c)
  <2>1. /\ UNCHANGED <<owned, up, channelSeen, answered, pushed, unrecorded>>
        /\ busy'.at \in {"own", "note"}
    BY <1>2 DEF Begins, Answers, history, Busy
  <2>2. QED BY <2>1, ToldKept DEF NewsInv
<1>3. CASE Emits
  <2>1. /\ UNCHANGED <<owned, up, channelSeen, answered, pushed, unrecorded>>
        /\ busy'.at = "emit" /\ busy'.todo = ChannelKeys(job, owned) \ channelSeen
    BY <1>3 DEF Emits, history, Busy
  <2>2. \A k \in ChannelKeys(job, owned) : k \notin KeysOf(owned)
    <3>1. \A k \in KeysOf(owned) : k[2] # 0
      BY <1>0 DEF FileInv, KeysOf
    <3>2. QED BY <3>1, NewsKeys DEF ServerInv, JobInv
  <2>3. NewsInv'
    BY <2>1, <2>2 DEF NewsInv, KeysOf
  <2>4. QED BY <2>1, <2>3, ToldKept
<1>4. CASE Own
  <2>1. /\ UNCHANGED <<up, channelSeen, answered, pushed>> /\ busy'.at = "free"
        /\ RecordOwned({busy.job}, {})
    BY <1>4, RestingIn DEF Own
  <2>2. unrecorded \subseteq unrecorded'
    BY <2>1 DEF RecordOwned
  <2>3. QED BY <2>1, <2>2, ToldKept DEF NewsInv
<1>5. CASE Note
  <2>1. /\ UNCHANGED <<up, channelSeen, answered, pushed>> /\ busy.at = "note"
        /\ RecordOwned({}, {busy.key}) /\ busy' = [busy EXCEPT !.at = "reply"]
    BY <1>5 DEF Note, memory
  <2>2. {} \in SUBSET Jobs /\ {busy.key} \in SUBSET Keys /\ busy.key[2] # 0
        /\ busy \in Handlers
    BY <1>0, <2>1 DEF BusyInv
  <2>3. /\ unrecorded \subseteq unrecorded'
        /\ busy.key \in KeysOf(owned)' \cup unrecorded'
    <3>1. PICK k : k = busy.key
      OBVIOUS
    <3>2. RecordOwned({}, {k}) /\ {k} \in SUBSET Keys /\ k[2] # 0
      BY <2>1, <2>2, <3>1
    <3>3. \/ /\ unrecorded' = unrecorded /\ KeysOf(owned)' = KeysOf(owned) \cup {k}
          \/ unrecorded' = unrecorded \cup {k}
      BY <1>0, <2>2, <3>2, Recording
    <3>4. QED BY <3>1, <3>3
  <2>4. busy'.at = "reply" /\ busy'.key = busy.key
    BY <2>1, <2>2 DEF Handlers
  <2>5. NewsInv'
    BY <2>3, <2>4 DEF NewsInv
  <2>6. QED BY <2>1, <2>3, <2>5, ToldKept
<1>6. CASE Reply
  <2>1. /\ UNCHANGED <<owned, up, channelSeen, pushed, unrecorded>>
        /\ busy.at = "reply" /\ answered' = answered \cup {busy.key} /\ busy'.at = "free"
    BY <1>6, RestingIn DEF Reply, files
  <2>2. busy.key \in Keys /\ busy.key[2] # 0 /\ busy.key \in KeysOf(owned) \cup unrecorded
    BY <1>0, <2>1 DEF BusyInv, NewsInv
  <2>3. QED BY <1>0, <2>1, <2>2 DEF ToldInv, NewsInv
<1>7. CASE EmitKey
  <2>1. PICK k \in busy.todo :
          /\ busy.at = "emit" /\ channelSeen' = channelSeen \cup {k}
          /\ IF k[2] # 0 THEN RecordOwned({}, {k}) ELSE UNCHANGED <<owned, unrecorded>>
          /\ Busy("push", NoCall, NoKey, k, busy.todo \ {k})
          /\ UNCHANGED <<up, answered, pushed>>
    BY <1>7 DEF EmitKey
  <2>2. {} \in SUBSET Jobs /\ {k} \in SUBSET Keys
    BY <1>0 DEF BusyInv, Handlers
  <2>3. /\ unrecorded \subseteq unrecorded'
        /\ k[2] # 0 => k \in KeysOf(owned)' \cup unrecorded'
        /\ KeysOf(owned)' \subseteq KeysOf(owned) \cup {k}
    <3>1. CASE k[2] # 0
      BY <1>0, <2>1, <2>2, <3>1, Recording DEF KeysOf
    <3>2. CASE k[2] = 0
      BY <2>1, <3>2 DEF KeysOf
    <3>3. QED BY <3>1, <3>2
  <2>4. busy'.at = "push" /\ busy'.key = k /\ busy'.todo = busy.todo \ {k}
    BY <2>1 DEF Busy
  <2>5. k \notin channelSeen /\ k \notin KeysOf(owned)
    BY <1>0, <2>1 DEF NewsInv
  <2>6. k \in pushed \cup answered => k \in unrecorded
    BY <1>0, <2>5 DEF ToldInv
  <2>7. \A m \in busy'.todo : m \notin channelSeen' /\ m \notin KeysOf(owned)'
    BY <1>0, <2>1, <2>3, <2>4 DEF NewsInv
  <2>8. NewsInv'
    BY <2>1, <2>3, <2>4, <2>6, <2>7 DEF NewsInv
  <2>9. QED BY <2>1, <2>3, <2>8, ToldKept
<1>8. CASE Push
  <2>1. /\ UNCHANGED <<owned, up, channelSeen, answered, unrecorded>>
        /\ up /\ busy.at = "push" /\ pushed' = pushed \cup {busy.key}
        /\ busy'.at = "free" \/ (busy'.at = "emit" /\ busy'.todo = busy.todo)
    BY <1>8, RestingIn DEF Push, files, memory, Busy
  <2>2. /\ busy.key \in Keys /\ busy.key \in channelSeen
        /\ busy.key[2] # 0 => busy.key \in KeysOf(owned) \cup unrecorded
    BY <1>0, <2>1 DEF BusyInv, NewsInv
  <2>3. ToldInv'
    BY <1>0, <2>1, <2>2 DEF ToldInv
  <2>4. NewsInv'
    BY <1>0, <2>1 DEF NewsInv, KeysOf
  <2>5. QED BY <2>3, <2>4
<1>9. CASE Boot
  <2>1. ~up /\ UNCHANGED <<busy, answered, pushed, unrecorded>>
    BY <1>9 DEF Boot, history
  <2>2. busy.at = "free"
    BY <1>0, <2>1 DEF UpInv, Resting
  <2>3. QED BY <1>0, <2>1, <2>2 DEF ToldInv, NewsInv
<1>10. CASE Exit
  <2>1. /\ UNCHANGED <<owned, answered, unrecorded>> /\ busy'.at = "free"
        /\ pushed' = {k \in pushed : k[2] # 0}
    BY <1>10, RestingIn DEF Exit, files
  <2>2. QED BY <1>0, <2>1 DEF ToldInv, NewsInv
<1>11. QED BY <1>1, <1>2, <1>3, <1>4, <1>5, <1>6, <1>7, <1>8, <1>9, <1>10, StepKinds DEF Kinds

LEMMA ServerInit == RInit => ServerInv
<1> SUFFICES ASSUME RInit PROVE ServerInv
  OBVIOUS
<1>1. JobInv
  BY EndsAssumption DEF RInit, JobInv, Fates, States
<1>2. FileInv(owned)
  BY DEF RInit, FileInv
<1>3. CallInv
  BY IdleCall DEF RInit, CallInv, Calling
<1>4. BusyInv
  BY DEF RInit, BusyInv, Resting, Handlers
<1>5. UpInv
  BY DEF RInit, UpInv
<1>6. ToldInv /\ NewsInv
  BY DEF RInit, ToldInv, NewsInv, Resting
<1>7. subscriptions \subseteq Uris /\ channelSeen \subseteq Keys
  BY DEF RInit
<1>8. QED BY <1>1, <1>2, <1>3, <1>4, <1>5, <1>6, <1>7 DEF ServerInv

LEMMA ServerStep == ServerInv /\ [RNext]_rvars => ServerInv'
<1> SUFFICES ASSUME ServerInv, [RNext]_rvars PROVE ServerInv'
  OBVIOUS
<1>1. JobInv'
  BY JobStep DEF ServerInv
<1>2. QED BY <1>1, FileStep, CallStep, BusyStep, UpStep, SubscriptionStep, SeenStep, TellingStep
          DEF ServerInv

\* Whatever its own clients, its siblings, workers and operators do, the server is in
\* a state its handlers are written for: one that is down runs none, and one that is
\* up watches the store as long as anybody waits for it (server.mjs:694-716).
THEOREM ServerSound == RSpec => []RTypeOK
<1>1. ServerInv => RTypeOK
  BY DEF ServerInv, JobInv, FileInv, CallInv, BusyInv, UpInv, RTypeOK, Fates, OwnedFiles, Handlers
<1>2. QED BY <1>1, ServerInit, ServerStep, PTL DEF RSpec

\* The channel tells nothing twice, and nothing an answer has handed back, however
\* often the server restarts, unless that could not be recorded: what is being told
\* was not recorded when its telling began (server.mjs:400-401, 634-635).
THEOREM ChannelOnce == RSpec => []ChannelTellsOnce
<1>1. ServerInv => ChannelTellsOnce
  BY DEF ServerInv, NewsInv, ChannelTellsOnce
<1>2. QED BY <1>1, ServerInit, ServerStep, PTL DEF RSpec

-----------------------------------------------------------------------------
(* What a step of the session does.                                        *)

ServerMoves == [RNext]_rvars /\ Observe /\ UNCHANGED hvars

LEMMA SessionSteps ==
    ASSUME [ZNext]_zvars
    PROVE  /\ [RNext]_rvars
           /\ ServerMoves \/ (Hook /\ UNCHANGED <<rvars, observed>>) \/ UNCHANGED zvars
<1>1. Hook => UNCHANGED rvars
  BY DEF Hook, StartHook, Seed, CheckStop, PollJobs, Reload, MarkSeen, Block, KillHook
<1>2. UNCHANGED zvars => UNCHANGED rvars
  BY DEF zvars
<1>3. QED BY <1>1, <1>2 DEF ZNext, ServerMoves

LEMMA HookFrame ==
    UNCHANGED <<rvars, observed>> =>
      UNCHANGED <<job, owned, channel, up, channelSeen, wait, busy, answered, pushed,
                  unrecorded, mine, unowned, ensureFailed>>
BY DEF rvars, files, memory, history, observed

\* Where a hook goes when it has looked.
LEMMA SurfaceMoves ==
    ASSUME NEW J, NEW own, NEW known, Surface(J, own, known)
    PROVE  \/ hook' = Off
           \/ hook' = [at |-> "write", own |-> NoFile, jobs |-> NoKey,
                       fresh |-> ChannelKeys(J, own) \ Seen, known |-> known]
           \/ hook' = [at |-> "sleep", own |-> own, jobs |-> NoKey, fresh |-> {}, known |-> known]
BY DEF Surface

LEMMA OffHook == Off \in Hooks /\ Off.at = "off" /\ Off.own = NoFile /\ Off.fresh = {}
BY DEF Off, Hooks, HookAt

LEMMA HookKept ==
    ASSUME HookInv, JobInv, JobInv', Grows(job, job'), hook' = hook,
           JobsOf(owned) \subseteq JobsOf(owned)', KeysOf(owned) \subseteq KeysOf(owned)'
    PROVE  HookInv'
<1>1. \A j \in Jobs : job[j].ends \in Nat /\ job'[j].ends \in Nat
  BY EndsAssumption DEF JobInv, Fates
<1>2. hook.at = "reload" => \A j \in Jobs : hook.jobs[j].ends \in Nat
  BY EndsAssumption DEF HookInv, Fates
<1>3. hook.at = "reload" => \A j \in Jobs : hook.jobs[j].ends <= job'[j].ends
  BY <1>1, <1>2 DEF HookInv, Grows
<1>4. QED BY <1>3 DEF HookInv

LEMMA RecordedKeys == Recorded = KeysOf(owned)
BY DEF Recorded, KeysOf

\* What a hook finds new it did not know.
LEMMA NewsAreUnknown ==
    ASSUME NEW J \in [Jobs -> Fates], NEW own, FileInv(own)
    PROVE  ChannelKeys(J, own) \cap KeysOf(own) = {}
BY NewsKeys DEF FileInv, KeysOf

LEMMA SurfaceInv ==
    ASSUME NEW J \in [Jobs -> Fates], NEW own, NEW known \in SUBSET KeysOf(own),
           FileInv(own), JobsOf(own) \subseteq JobsOf(owned), KeysOf(own) \subseteq KeysOf(owned),
           owned' = owned, Surface(J, own, known)
    PROVE  HookInv'
<1>1. KeysOf(own) \in SUBSET Keys
  BY DEF FileInv, KeysOf, OwnedFiles
<1>2. ChannelKeys(J, own) \in SUBSET Keys /\ ChannelKeys(J, own) \cap KeysOf(own) = {}
  BY NewsKeys, NewsAreUnknown
<1>3. own \in {NoFile} \cup OwnedFiles
  BY DEF FileInv
<1>4. FileInv(NoFile) /\ JobsOf(NoFile) = {} /\ KeysOf(NoFile) = {}
  BY DEF FileInv, JobsOf, KeysOf
<1>5. CASE hook' = Off
  BY <1>4, <1>5, OffHook DEF HookInv
<1>6. CASE hook' = [at |-> "write", own |-> NoFile, jobs |-> NoKey,
                    fresh |-> ChannelKeys(J, own) \ Seen, known |-> known]
  <2>1. hook' \in Hooks
    BY <1>1, <1>2, <1>6 DEF Hooks, HookAt
  <2>2. hook'.at = "write" /\ hook'.own = NoFile /\ hook'.known = known
        /\ hook'.fresh = ChannelKeys(J, own) \ Seen
    BY <1>6
  <2>3. QED BY <1>2, <1>4, <2>1, <2>2 DEF HookInv
<1>7. CASE hook' = [at |-> "sleep", own |-> own, jobs |-> NoKey, fresh |-> {}, known |-> known]
  <2>1. hook' \in Hooks
    BY <1>1, <1>3, <1>7 DEF Hooks, HookAt
  <2>2. hook'.at = "sleep" /\ hook'.own = own /\ hook'.fresh = {}
    BY <1>7
  <2>3. JobsOf(own) \subseteq JobsOf(owned)' /\ KeysOf(own) \subseteq KeysOf(owned)'
    BY DEF JobsOf, KeysOf
  <2>4. QED BY <2>1, <2>2, <2>3 DEF HookInv
<1>8. QED BY <1>5, <1>6, <1>7, SurfaceMoves

LEMMA HookStep ==
    ASSUME ServerInv, HookInv, [ZNext]_zvars
    PROVE  HookInv'
<1>0. /\ [RNext]_rvars
      /\ ServerMoves \/ (Hook /\ UNCHANGED <<rvars, observed>>) \/ UNCHANGED zvars
  BY SessionSteps
<1>1. CASE ServerMoves \/ UNCHANGED zvars
  <2>1. hook' = hook
    BY <1>1 DEF ServerMoves, hvars, zvars
  <2>2. JobInv /\ JobInv' /\ Grows(job, job')
    BY <1>0, JobStep DEF ServerInv
  <2>3. QED BY <1>0, <2>1, <2>2, HookKept, FileStep
<1>2. CASE Hook /\ UNCHANGED <<rvars, observed>>
  <2>0. /\ job' = job /\ owned' = owned
        /\ job \in [Jobs -> Fates] /\ FileInv(owned)
    BY <1>2, HookFrame DEF ServerInv, JobInv
  <2>1. ASSUME hook' = Off PROVE HookInv'
    BY <2>1, OffHook DEF HookInv, FileInv, JobsOf, KeysOf
  <2>2. ASSUME NEW e \in Events, StartHook(e) PROVE HookInv'
    <3>1. hook' = [Off EXCEPT !.at = e, !.own = owned, !.known = KeysOf(owned)]
      BY <2>2, RecordedKeys DEF StartHook
    <3>2. KeysOf(owned) \in SUBSET Keys /\ owned \in {NoFile} \cup OwnedFiles /\ e \in HookAt
      BY <2>0 DEF FileInv, KeysOf, OwnedFiles, Events, HookAt
    <3>3. /\ hook' \in Hooks /\ hook'.at = e /\ hook'.own = owned /\ hook'.fresh = {}
          /\ hook'.known = KeysOf(owned)
      BY <3>1, <3>2, OffHook DEF Hooks
    <3>4. e \in {"SessionStart", "Stop"}
      BY DEF Events
    <3>5. JobsOf(owned)' = JobsOf(owned) /\ KeysOf(owned)' = KeysOf(owned)
      BY <2>0 DEF JobsOf, KeysOf
    <3>6. QED BY <2>0, <3>3, <3>4, <3>5 DEF HookInv
  <2>3. CASE CheckStop
    BY <2>0, <2>3, SurfaceInv DEF CheckStop, HookInv
  <2>4. CASE PollJobs
    <3>1. hook' = [hook EXCEPT !.at = "reload", !.jobs = job, !.known = KeysOf(owned)]
      BY <2>4, RecordedKeys DEF PollJobs
    <3>2. KeysOf(owned) \in SUBSET Keys /\ "reload" \in HookAt
      BY <2>0 DEF FileInv, KeysOf, OwnedFiles, HookAt
    <3>3. /\ hook' \in Hooks /\ hook'.at = "reload" /\ hook'.jobs = job
          /\ hook'.known = KeysOf(owned) /\ hook'.own = hook.own /\ hook'.fresh = hook.fresh
      BY <2>0, <3>1, <3>2 DEF HookInv, Hooks
    <3>4. hook.fresh = {}
      BY <2>4 DEF PollJobs, HookInv
    <3>5. \A j \in Jobs : job[j].ends <= job[j].ends
      BY <2>0, EndsAssumption DEF Fates
    <3>6. JobsOf(owned)' = JobsOf(owned) /\ KeysOf(owned)' = KeysOf(owned)
      BY <2>0 DEF JobsOf, KeysOf
    <3>7. QED BY <2>0, <3>3, <3>4, <3>5, <3>6 DEF HookInv
  <2>5. CASE Reload
    BY <2>0, <2>5, SurfaceInv DEF Reload, HookInv
  <2>6. CASE MarkSeen
    <3>1. hook' = [hook EXCEPT !.at = "block"] /\ hook.at = "write"
      BY <2>6 DEF MarkSeen
    <3>2. /\ hook' \in Hooks /\ hook'.at = "block" /\ hook'.own = hook.own
          /\ hook'.fresh = hook.fresh /\ hook'.known = hook.known
      BY <3>1 DEF HookInv, Hooks, HookAt
    <3>3. JobsOf(owned)' = JobsOf(owned) /\ KeysOf(owned)' = KeysOf(owned)
      BY <2>0 DEF JobsOf, KeysOf
    <3>4. QED BY <3>1, <3>2, <3>3 DEF HookInv
  <2>7. CASE Seed \/ Block \/ KillHook
    BY <2>1, <2>7 DEF Seed, Block, KillHook
  <2>8. QED BY <1>2, <2>2, <2>3, <2>4, <2>5, <2>6, <2>7 DEF Hook
<1>3. QED BY <1>0, <1>1, <1>2

LEMMA SeenKeys ==
    ASSUME FilesInv, NEW ks \in SUBSET Keys, WriteSeen(ks)
    PROVE  /\ hookSeen' = NoFile \/ hookSeen' \in SUBSET Keys
           /\ seenFailed' \/ (Seen' = ks /\ seenFailed' = seenFailed)
           /\ Seen' = ks \/ Seen' = Seen
<1>1. ks # NoFile
  BY NoFileAssumption DEF Keys
<1>2. QED BY <1>1 DEF WriteSeen, FilesInv, Seen

LEMMA SeenIsKeys == FilesInv => Seen \in SUBSET Keys
BY DEF FilesInv, Seen

\* The keys a hook finds new, by the store it read.
LEMMA FreshKeys ==
    ASSUME NEW J \in [Jobs -> Fates], \A j \in Jobs : J[j].ends <= job[j].ends,
           job \in [Jobs -> Fates], NEW own
    PROVE  \A k \in ChannelKeys(J, own) : k \in Keys /\ k[2] <= job[k[1]].ends
<1>1. \A k \in ChannelKeys(J, own) : k \in Keys /\ k[2] <= J[k[1]].ends
  BY NewsKeys
<1>2. \A k \in Keys : k[1] \in Jobs /\ k[2] \in Nat
  BY EndsAssumption DEF Keys
<1>3. \A j \in Jobs : J[j].ends \in Nat /\ job[j].ends \in Nat
  <2>1. \A n \in 0..MaxEnds : n \in Nat
    BY EndsAssumption
  <2>2. \A j \in Jobs : J[j].ends \in 0..MaxEnds /\ job[j].ends \in 0..MaxEnds
    BY DEF Fates
  <2>3. QED BY <2>1, <2>2
<1> SUFFICES ASSUME NEW k \in ChannelKeys(J, own) PROVE k \in Keys /\ k[2] <= job[k[1]].ends
  OBVIOUS
<1>4. QED BY <1>1, <1>2, <1>3

LEMMA FilesStep ==
    ASSUME ServerInv, HookInv, FilesInv, [ZNext]_zvars
    PROVE  FilesInv'
<1>0. /\ [RNext]_rvars
      /\ ServerMoves \/ (Hook /\ UNCHANGED <<rvars, observed>>) \/ UNCHANGED zvars
  BY SessionSteps
<1>1. CASE ServerMoves \/ UNCHANGED zvars
  <2>1. UNCHANGED <<hook, hookSeen, told>>
    BY <1>1 DEF ServerMoves, hvars, zvars
  <2>2. Grows(job, job') /\ JobInv /\ JobInv'
    BY <1>0, JobStep DEF ServerInv
  <2>3. \A k \in Keys : k[1] \in Jobs /\ k[2] \in Nat
    BY EndsAssumption DEF Keys
  <2>4. \A j \in Jobs : job[j].ends \in Nat /\ job'[j].ends \in Nat
    BY <2>2, EndsAssumption DEF JobInv, Fates
  <2>5. \A k \in Keys : k[2] <= job[k[1]].ends => k[2] <= job'[k[1]].ends
    BY <2>2, <2>3, <2>4 DEF Grows
  <2>6. QED BY <2>1, <2>5 DEF FilesInv
<1>2. CASE Hook /\ UNCHANGED <<rvars, observed>>
  <2>0. job' = job /\ owned' = owned /\ job \in [Jobs -> Fates]
    BY <1>2, HookFrame DEF ServerInv, JobInv
  <2>1. ASSUME hookSeen' = hookSeen, told' = told, hook'.fresh \subseteq hook.fresh
        PROVE  FilesInv'
    BY <2>0, <2>1 DEF FilesInv
  <2>2. ASSUME NEW J \in [Jobs -> Fates], \A j \in Jobs : J[j].ends <= job[j].ends,
               NEW own, NEW known, Surface(J, own, known),
               hookSeen' = hookSeen, told' = told
        PROVE  FilesInv'
    <3>1. hook'.fresh \subseteq ChannelKeys(J, own)
      BY <2>2, SurfaceMoves, OffHook
    <3>2. QED BY <2>0, <2>2, <3>1, FreshKeys DEF FilesInv
  <2>3. \A j \in Jobs : job[j].ends <= job[j].ends
    BY <2>0, EndsAssumption DEF Fates
  <2>4. CASE \E e \in Events : StartHook(e)
    BY <2>1, <2>4, OffHook DEF StartHook, Off
  <2>5. CASE Seed
    <3>1. SeedKeys(hook.own) \in SUBSET Keys
      BY <2>0, NewsKeys DEF SeedKeys
    <3>2. hookSeen' = NoFile \/ hookSeen' \in SUBSET Keys
      BY <2>5, <3>1, SeenKeys DEF Seed
    <3>3. hook'.fresh = {} /\ told' \subseteq told
      BY <2>5, OffHook DEF Seed
    <3>4. QED BY <2>0, <3>2, <3>3 DEF FilesInv
  <2>6. CASE CheckStop
    BY <2>0, <2>2, <2>3, <2>6 DEF CheckStop
  <2>7. CASE PollJobs
    <3>1. hook'.fresh = hook.fresh
      BY <2>7 DEF PollJobs, HookInv, Hooks
    <3>2. QED BY <2>1, <2>7, <3>1 DEF PollJobs
  <2>8. CASE Reload
    <3>1. hook.jobs \in [Jobs -> Fates] /\ \A j \in Jobs : hook.jobs[j].ends <= job[j].ends
      BY <2>8 DEF Reload, HookInv
    <3>2. QED BY <2>2, <2>8, <3>1 DEF Reload
  <2>9. CASE MarkSeen
    <3>1. Seen \cup hook.fresh \in SUBSET Keys
      BY SeenIsKeys DEF FilesInv
    <3>2. hookSeen' = NoFile \/ hookSeen' \in SUBSET Keys
      BY <2>9, <3>1, SeenKeys DEF MarkSeen
    <3>3. hook'.fresh = hook.fresh /\ told' = told
      BY <2>9 DEF MarkSeen, HookInv, Hooks
    <3>4. QED BY <2>0, <3>2, <3>3 DEF FilesInv
  <2>10. CASE Block
    <3>1. hook'.fresh = {} /\ told' = told \cup hook.fresh /\ hookSeen' = hookSeen
      BY <2>10, OffHook DEF Block
    <3>2. QED BY <2>0, <3>1 DEF FilesInv
  <2>11. CASE KillHook
    BY <2>1, <2>11, OffHook DEF KillHook
  <2>12. QED BY <1>2, <2>4, <2>5, <2>6, <2>7, <2>8, <2>9, <2>10, <2>11 DEF Hook
<1>3. QED BY <1>0, <1>1, <1>2

\* A job becomes owned by being recorded after its dispatch.
LEMMA OwnedGrows ==
    ASSUME ServerInv, [RNext]_rvars
    PROVE  \A j \in JobsOf(owned)' : j \in JobsOf(owned) \/ (busy.at = "own" /\ j = busy.job)
<1>1. CASE owned' = owned
  BY <1>1 DEF JobsOf
<1>2. ASSUME NEW ks \in SUBSET Keys, \A k \in ks : k[2] # 0, RecordOwned({}, ks)
      PROVE  JobsOf(owned)' = JobsOf(owned)
  <2>1. {} \in SUBSET Jobs /\ FileInv(owned)
    BY DEF ServerInv
  <2>2. owned' = owned => JobsOf(owned)' = JobsOf(owned)
    BY DEF JobsOf
  <2>3. QED BY <1>2, <2>1, <2>2, Recording
<1>3. CASE Own
  <2>1. {busy.job} \in SUBSET Jobs /\ {} \in SUBSET Keys /\ FileInv(owned)
        /\ busy.at = "own" /\ RecordOwned({busy.job}, {})
    BY <1>3, NoKeyAssumption DEF Own, ServerInv, BusyInv, Handlers
  <2>2. owned' = owned => JobsOf(owned)' = JobsOf(owned)
    BY DEF JobsOf
  <2>3. QED BY <2>1, <2>2, Recording
<1>4. CASE Note
  <2>1. {busy.key} \in SUBSET Keys /\ \A k \in {busy.key} : k[2] # 0
    BY <1>4 DEF Note, ServerInv, BusyInv
  <2>2. QED BY <1>2, <1>4, <2>1 DEF Note
<1>5. CASE EmitKey
  <2>1. PICK k \in busy.todo : IF k[2] # 0 THEN RecordOwned({}, {k})
                               ELSE UNCHANGED <<owned, unrecorded>>
    BY <1>5 DEF EmitKey
  <2>2. {k} \in SUBSET Keys
    BY DEF ServerInv, BusyInv, Handlers
  <2>3. QED BY <1>1, <1>2, <2>1, <2>2
<1>6. CASE Boot
  <2>1. CASE owned' = Nothing /\ owned = NoFile
    BY <2>1, NothingIsAFile DEF JobsOf, Nothing
  <2>2. QED BY <1>1, <1>6, <2>1 DEF Boot, EnsureOwnedFile
<1>7. CASE Reply \/ Push \/ Exit
  BY <1>1, <1>7 DEF Reply, Push, Exit, files
<1>8. CASE Quiet \/ (\E j \in Jobs, c \in Calls \cup {NoCall} : Begins(c, j))
             \/ (\E c \in Calls : Answers(c)) \/ Emits
  BY <1>1, <1>8 DEF Quiet, Begins, Answers, Emits
<1>9. QED BY <1>3, <1>4, <1>5, <1>6, <1>7, <1>8, StepKinds DEF Kinds

\* What the server tells next was being told, or is news of a job it owns.
LEMMA TellsOwned ==
    ASSUME ServerInv, [RNext]_rvars
    PROVE  LET News(k) == up /\ k \in ChannelKeys(job, owned) IN
           /\ \A k \in busy'.todo : k \in busy.todo \/ News(k)
           /\ busy'.at = "push" => \/ busy'.key \in busy.todo
                                   \/ busy.at = "push" /\ busy'.key = busy.key
           /\ \A k \in pushed' : k \in pushed \/ (busy.at = "push" /\ k = busy.key)
<1> DEFINE News(k) == up /\ k \in ChannelKeys(job, owned)
<1>0. busy \in Handlers /\ UpInv
  BY DEF ServerInv, BusyInv
<1>1. CASE Quiet \/ Boot
  BY <1>1 DEF Quiet, Boot, history
<1>2. CASE \/ \E j \in Jobs, c \in Calls \cup {NoCall} : Begins(c, j)
           \/ \E c \in Calls : Answers(c)
  <2>1. busy'.todo = {} /\ busy'.at # "push" /\ pushed' = pushed
    BY <1>2 DEF Begins, Answers, Busy, history
  <2>2. QED BY <2>1
<1>3. CASE Emits
  <2>1. /\ up /\ busy'.todo = ChannelKeys(job, owned) \ channelSeen
        /\ busy'.at # "push" /\ pushed' = pushed
    BY <1>3 DEF Emits, Busy, history
  <2>2. QED BY <2>1
<1>4. CASE Own \/ Reply \/ Exit
  BY <1>4, RestingIn DEF Own, Reply, Exit
<1>5. CASE Note
  <2>1. busy' = [busy EXCEPT !.at = "reply"] /\ pushed' = pushed
    BY <1>5 DEF Note
  <2>2. QED BY <1>0, <2>1 DEF Handlers
<1>6. CASE EmitKey
  <2>1. PICK k \in busy.todo : Busy("push", NoCall, NoKey, k, busy.todo \ {k})
    BY <1>6 DEF EmitKey
  <2>2. busy'.todo = busy.todo \ {k} /\ busy'.key = k /\ pushed' = pushed
    BY <1>6, <2>1 DEF Busy, EmitKey
  <2>3. QED BY <2>2
<1>7. CASE Push
  <2>1. /\ pushed' = pushed \cup {busy.key} /\ busy.at = "push" /\ busy'.at # "push"
        /\ busy'.todo = {} \/ busy'.todo = busy.todo
    BY <1>7, RestingIn DEF Push, Busy
  <2>2. QED BY <2>1
<1>8. QED BY <1>1, <1>2, <1>3, <1>4, <1>5, <1>6, <1>7, StepKinds DEF Kinds

LEMMA NamesKept ==
    ASSUME NEW k, NEW o, NEW p, JobsOf(o) \subseteq JobsOf(p), Names(k, o)
    PROVE  Names(k, p)
BY DEF Names

LEMMA FreshNames ==
    ASSUME NEW J \in [Jobs -> Fates], NEW own, own # NoFile, NEW k \in ChannelKeys(J, own)
    PROVE  Names(k, own)
BY NewsKeys DEF Names

LEMMA OwnStep ==
    ASSUME ServerInv, HookInv, OwnInv, [ZNext]_zvars
    PROVE  OwnInv'
<1>0. /\ [RNext]_rvars
      /\ ServerMoves \/ (Hook /\ UNCHANGED <<rvars, observed>>) \/ UNCHANGED zvars
  BY SessionSteps
<1>1. CASE ServerMoves
  <2>0. /\ UNCHANGED <<hook, told>>
        /\ mine' = mine \cup {j \in Jobs : j = busy'.job}
        /\ ensureFailed' = (ensureFailed \/ (~up /\ up' /\ owned' = NoFile))
    BY <1>1 DEF ServerMoves, hvars, Observe
  <2>1. /\ owned # NoFile => owned' # NoFile
        /\ JobsOf(owned) \subseteq JobsOf(owned)'
    BY <1>0, FileStep
  <2>2. mine' \subseteq Jobs /\ JobsOf(owned)' \subseteq mine'
    BY <1>0, <2>0, OwnedGrows DEF OwnInv
  <2>3. busy'.at = "own" => busy'.job \in mine'
    <3>1. BusyInv'
      BY <1>0, BusyStep
    <3>2. QED BY <2>0, <3>1 DEF BusyInv, Handlers
  <2>4. ASSUME ~ensureFailed'
        PROVE  /\ up' \/ hook'.at \in {"Stop", "sleep", "reload"} => owned' # NoFile
               /\ hook'.at = "Stop" => hook'.own # NoFile
               /\ \A k \in told' \cup hook'.fresh \cup pushed' \cup busy'.todo : Names(k, owned)'
               /\ busy'.at = "push" => Names(busy.key, owned)'
               /\ hook'.at \in {"SessionStart", "Stop"} => \A k \in told' : Names(k, hook.own)'
    <3>1. ~ensureFailed /\ (~up /\ up' => owned' # NoFile)
      BY <2>0, <2>4
    <3>2. up' => owned' # NoFile
      BY <2>1, <3>1 DEF OwnInv
    <3>3. \A k : Names(k, owned) => Names(k, owned')
      BY <2>1, NamesKept DEF JobsOf
    <3>4. \A k \in ChannelKeys(job, owned) : up => Names(k, owned')
      BY <3>1, <3>3, FreshNames DEF OwnInv, ServerInv, JobInv
    <3>5. \A k \in told \cup hook.fresh \cup pushed \cup busy.todo : Names(k, owned')
      BY <3>1, <3>3 DEF OwnInv
    <3>6. busy.at = "push" => Names(busy.key, owned')
      BY <3>1, <3>3 DEF OwnInv
    <3>7. \A k \in busy'.todo : Names(k, owned')
      BY <1>0, <3>4, <3>5, TellsOwned
    <3>8. busy'.at = "push" => Names(busy'.key, owned')
      BY <1>0, <3>5, <3>6, TellsOwned
    <3>9. \A k \in pushed' : Names(k, owned')
      BY <1>0, <3>5, <3>6, TellsOwned
    <3>10. /\ hook'.at \in {"Stop", "sleep", "reload"} => owned' # NoFile
           /\ hook'.at = "Stop" => hook'.own # NoFile
           /\ hook'.at \in {"SessionStart", "Stop"} => \A k \in told' : Names(k, hook'.own)
      BY <2>0, <2>1, <3>1 DEF OwnInv
    <3>11. \A k \in told' \cup hook'.fresh : Names(k, owned')
      BY <2>0, <3>5
    <3>12. QED BY <3>2, <3>7, <3>8, <3>9, <3>10, <3>11 DEF Names, JobsOf
  <2>5. QED BY <2>2, <2>3, <2>4 DEF OwnInv
<1>2. CASE UNCHANGED zvars
  BY <1>2 DEF zvars, rvars, files, memory, history, hvars, observed, OwnInv, Names, JobsOf
<1>3. CASE Hook /\ UNCHANGED <<rvars, observed>>
  <2>0. /\ UNCHANGED <<job, owned, up, busy, pushed, mine, ensureFailed>>
        /\ job \in [Jobs -> Fates]
    BY <1>3, HookFrame DEF ServerInv, JobInv
  <2>1. ASSUME ~ensureFailed =>
                 /\ hook'.at \in {"Stop", "sleep", "reload"} => owned # NoFile
                 /\ hook'.at = "Stop" => hook'.own # NoFile
                 /\ \A k \in told' \cup hook'.fresh : Names(k, owned)
                 /\ hook'.at \in {"SessionStart", "Stop"} => \A k \in told' : Names(k, hook'.own)
        PROVE  OwnInv'
    <3>1. \A k : Names(k, owned)' <=> Names(k, owned)
      BY <2>0 DEF Names, JobsOf
    <3>2. \A k : Names(k, hook.own)' <=> Names(k, hook'.own)
      BY DEF Names, JobsOf
    <3>3. Names(busy.key, owned)' <=> Names(busy.key, owned)
      BY <2>0 DEF Names, JobsOf
    <3>4. JobsOf(owned)' = JobsOf(owned)
      BY <2>0 DEF JobsOf
    <3>5. QED BY <2>0, <2>1, <3>1, <3>2, <3>3, <3>4 DEF OwnInv
  <2>2. ASSUME NEW J \in [Jobs -> Fates], NEW own, JobsOf(own) \subseteq JobsOf(owned),
               ~ensureFailed => own # NoFile /\ owned # NoFile,
               NEW known, Surface(J, own, known), told' = told
        PROVE  OwnInv'
    <3>1. hook'.at \notin {"SessionStart", "Stop", "reload"}
          /\ hook'.fresh \subseteq ChannelKeys(J, own)
      BY <2>2, SurfaceMoves, OffHook
    <3>2. ~ensureFailed => \A k \in hook'.fresh : Names(k, owned)
      BY <2>2, <3>1, FreshNames, NamesKept
    <3>3. QED BY <2>1, <2>2, <3>1, <3>2 DEF OwnInv
  <2>3. ASSUME NEW e \in Events, StartHook(e) PROVE OwnInv'
    <3>1. /\ hook'.at = e /\ hook'.own = owned /\ hook'.fresh = {} /\ told' = told
          /\ e = "Stop" => owned # NoFile \/ ensureFailed
      BY <2>3, OffHook DEF StartHook, Off
    <3>2. QED BY <2>1, <3>1 DEF OwnInv, Events
  <2>4. CASE Seed
    <3>1. hook'.at = "off" /\ hook'.fresh = {} /\ told' \subseteq told
      BY <2>4, OffHook DEF Seed
    <3>2. QED BY <2>1, <3>1 DEF OwnInv
  <2>5. CASE CheckStop
    <3>1. /\ JobsOf(hook.own) \subseteq JobsOf(owned) /\ hook.at = "Stop" /\ told' = told
          /\ Surface(job, hook.own, hook.known)
      BY <2>5 DEF CheckStop, HookInv
    <3>2. ~ensureFailed => hook.own # NoFile /\ owned # NoFile
      BY <3>1 DEF OwnInv
    <3>3. QED BY <2>0, <2>2, <3>1, <3>2
  <2>6. CASE PollJobs
    <3>1. /\ hook'.at = "reload" /\ hook'.fresh = hook.fresh /\ told' = told
          /\ hook.at = "sleep"
      BY <2>6 DEF PollJobs, HookInv, Hooks
    <3>2. QED BY <2>1, <3>1 DEF OwnInv
  <2>7. CASE Reload
    <3>1. /\ hook.jobs \in [Jobs -> Fates] /\ hook.at = "reload" /\ told' = told
          /\ Surface(hook.jobs, owned, hook.known)
      BY <2>7 DEF Reload, HookInv
    <3>2. ~ensureFailed => owned # NoFile
      BY <3>1 DEF OwnInv
    <3>3. QED BY <2>2, <3>1, <3>2
  <2>8. CASE MarkSeen
    <3>1. hook'.at = "block" /\ hook'.fresh = hook.fresh /\ told' = told
      BY <2>8 DEF MarkSeen, HookInv, Hooks
    <3>2. QED BY <2>1, <3>1 DEF OwnInv
  <2>9. CASE Block \/ KillHook
    <3>1. hook'.at = "off" /\ hook'.fresh = {} /\ told' \subseteq told \cup hook.fresh
      BY <2>9, OffHook DEF Block, KillHook
    <3>2. QED BY <2>1, <3>1 DEF OwnInv
  <2>10. QED BY <1>3, <2>3, <2>4, <2>5, <2>6, <2>7, <2>8, <2>9 DEF Hook
<1>4. QED BY <1>0, <1>1, <1>2, <1>3

\* What a seed marks: of the settlements that stand, all that a file does not say
\* were delivered.
LEMMA SeedCovers ==
    ASSUME NEW J \in [Jobs -> Fates], NEW own, NEW k \in Keys,
           k[2] # 0, ~Over(J, k), k \notin KeysOf(own), Names(k, own) \/ own = NoFile
    PROVE  k \in ChannelKeys(J, own)
<1>1. k[1] \in Jobs /\ k = <<k[1], J[k[1]].ends>> /\ J[k[1]].state = "settled"
  BY DEF Keys, Over
<1>2. own # NoFile => k[1] \in own.jobs /\ <<k[1], J[k[1]].ends>> \notin own.keys
  BY <1>1 DEF Names, KeysOf, JobsOf
<1>3. QED BY <1>1, <1>2 DEF ChannelKeys

\* What was told before is not news.
LEMMA PastIsNoNews ==
    ASSUME NEW J \in [Jobs -> Fates], NEW own, NEW tellings, NEW seen,
           Past(tellings, seen, J, KeysOf(own))
    PROVE  (ChannelKeys(J, own) \ seen) \cap tellings = {}
<1> SUFFICES ASSUME NEW k \in ChannelKeys(J, own), k \notin seen, k \in tellings PROVE FALSE
  OBVIOUS
<1>1. k[2] # 0 /\ (k \in KeysOf(own) \/ Over(J, k))
  BY DEF Past
<1>2. QED BY <1>1, NewsKeys DEF Over

LEMMA PastGrows ==
    ASSUME NEW T \in SUBSET Keys, NEW J, NEW K, Grows(J, K), NEW keys, NEW more,
           keys \subseteq more, NEW seen, Past(T, seen, J, keys),
           \A k \in T : k[2] <= J[k[1]].ends
    PROVE  Past(T, seen, K, more)
<1> SUFFICES ASSUME NEW k \in T, k \notin seen
             PROVE  k[2] # 0 /\ (k \in more \/ Over(K, k))
  BY DEF Past
<1>1. k[2] # 0 /\ (k \in keys \/ Over(J, k))
  BY DEF Past
<1>2. k[1] \in Jobs /\ k[2] \in 1..MaxEnds /\ k = <<k[1], k[2]>>
  BY <1>1, EndsAssumption DEF Keys
<1>3. Over(J, <<k[1], k[2]>>) => Over(K, <<k[1], k[2]>>)
  BY <1>2 DEF Grows
<1>4. QED BY <1>1, <1>2, <1>3

LEMMA OnceStep ==
    ASSUME ServerInv, HookInv, FilesInv, OwnInv, OnceInv, [ZNext]_zvars
    PROVE  OnceInv'
<1>0. /\ [RNext]_rvars
      /\ ServerMoves \/ (Hook /\ UNCHANGED <<rvars, observed>>) \/ UNCHANGED zvars
  BY SessionSteps
<1>1. CASE UNCHANGED zvars
  <2>1. UNCHANGED <<job, owned, hook, hookSeen, told, seenFailed, ensureFailed>>
    BY <1>1 DEF zvars, rvars, files, hvars, observed
  <2>2. QED BY <2>1 DEF OnceInv, Past, Over, Seen, KeysOf
<1>2. CASE ServerMoves
  <2>0. /\ UNCHANGED <<hook, hookSeen, told, seenFailed>>
        /\ ensureFailed => ensureFailed'
    BY <1>2 DEF ServerMoves, hvars, Observe
  <2>1. Grows(job, job') /\ KeysOf(owned) \subseteq KeysOf(owned')
    BY <1>0, JobStep, FileStep DEF ServerInv, KeysOf
  <2>2. told \in SUBSET Keys /\ \A k \in told : k[2] <= job[k[1]].ends
    BY DEF FilesInv
  <2>3. CASE seenFailed \/ ensureFailed
    BY <2>0, <2>3 DEF OnceInv
  <2>4. CASE ~(seenFailed \/ ensureFailed)
    <3>1. Past(told, Seen, job', KeysOf(owned'))
      BY <2>1, <2>2, <2>4, PastGrows DEF OnceInv
    <3>2. hook.at = "Stop" => Past(told, Seen, job', KeysOf(hook.own))
      BY <2>1, <2>2, <2>4, PastGrows DEF OnceInv
    <3>3. hook.at = "reload" => Past(told, Seen, hook.jobs, KeysOf(owned'))
      BY <2>1, <2>4 DEF OnceInv, Past
    <3>4. Seen' = Seen
      BY <2>0 DEF Seen
    <3>5. QED BY <2>0, <2>4, <3>1, <3>2, <3>3, <3>4 DEF OnceInv, Past, Over, KeysOf
  <2>5. QED BY <2>3, <2>4
<1>3. CASE Hook /\ UNCHANGED <<rvars, observed>>
  <2>0. /\ UNCHANGED <<job, owned, ensureFailed>>
        /\ job \in [Jobs -> Fates]
    BY <1>3, HookFrame DEF ServerInv, JobInv
  <2> DEFINE P(J, keys) == Past(told', Seen', J, keys)
  <2>1. ASSUME ~seenFailed' /\ ~ensureFailed =>
                 /\ P(job, KeysOf(owned))
                 /\ hook'.at = "Stop" => P(job, KeysOf(hook'.own))
                 /\ hook'.at = "reload" => P(hook'.jobs, KeysOf(owned))
                 /\ hook'.at \in {"write", "block"} => hook'.fresh \cap told' = {}
                 /\ hook'.at = "block" => hook'.fresh \subseteq Seen'
        PROVE  OnceInv'
    BY <2>0, <2>1 DEF OnceInv, Past, Over, KeysOf
  <2>2. ASSUME ~seenFailed, ~ensureFailed
        PROVE  /\ Past(told, Seen, job, KeysOf(owned))
               /\ hook.at = "Stop" => Past(told, Seen, job, KeysOf(hook.own))
               /\ hook.at = "reload" => Past(told, Seen, hook.jobs, KeysOf(owned))
               /\ hook.at \in {"write", "block"} => hook.fresh \cap told = {}
               /\ hook.at = "block" => hook.fresh \subseteq Seen
    BY <2>2 DEF OnceInv
  <2>3. ASSUME UNCHANGED <<told, hookSeen>>
        PROVE  Seen' = Seen /\ \A J, keys : P(J, keys) <=> Past(told, Seen, J, keys)
    <3>1. Seen' = Seen /\ told' = told
      BY <2>3 DEF Seen
    <3>2. QED BY <3>1
  <2>4. ASSUME NEW J \in [Jobs -> Fates], NEW own, NEW known, Surface(J, own, known),
               UNCHANGED <<told, hookSeen, seenFailed>>,
               ~seenFailed /\ ~ensureFailed => Past(told, Seen, J, KeysOf(own))
        PROVE  OnceInv'
    <3>1. /\ hook'.at \notin {"Stop", "reload", "block"}
          /\ hook'.at = "write" => hook'.fresh = ChannelKeys(J, own) \ Seen
      BY <2>4, SurfaceMoves, OffHook
    <3>2. ~seenFailed /\ ~ensureFailed => (ChannelKeys(J, own) \ Seen) \cap told = {}
      BY <2>4, PastIsNoNews
    <3>3. ~seenFailed /\ ~ensureFailed => P(job, KeysOf(owned))
      BY <2>2, <2>3, <2>4
    <3> HIDE DEF P
    <3>4. QED BY <2>1, <2>4, <3>1, <3>2, <3>3
  <2>5. ASSUME NEW e \in Events, StartHook(e) PROVE OnceInv'
    <3>1. /\ hook'.at = e /\ hook'.own = owned /\ e \in {"SessionStart", "Stop"}
          /\ UNCHANGED <<told, hookSeen, seenFailed>>
      BY <2>5 DEF StartHook, Off, Events
    <3>2. ~seenFailed /\ ~ensureFailed => P(job, KeysOf(owned))
      BY <2>2, <2>3, <3>1
    <3> HIDE DEF P
    <3>3. QED BY <2>1, <3>1, <3>2
  <2>6. CASE Seed
    <3>1. /\ hook'.at = "off" /\ told' = {k \in told : k[2] # 0}
          /\ hook.at \in {"SessionStart", "Stop"}
      BY <2>6, OffHook DEF Seed
    <3>2. ASSUME ~seenFailed', ~ensureFailed
          PROVE  Seen' = ChannelKeys(job, hook.own) /\ ~seenFailed
      <4>1. ChannelKeys(job, hook.own) \in SUBSET Keys
        BY <2>0, NewsKeys
      <4>2. WriteSeen(ChannelKeys(job, hook.own))
        BY <2>6, <3>2 DEF Seed, SeedKeys
      <4>3. Seen' = ChannelKeys(job, hook.own) /\ seenFailed' = seenFailed
        BY <3>2, <4>1, <4>2, SeenKeys
      <4>4. QED BY <3>2, <4>3, Zenon
    <3>3. ASSUME ~seenFailed', ~ensureFailed, NEW k \in told, k[2] # 0,
                 k \notin KeysOf(owned), ~Over(job, k)
          PROVE  k \in ChannelKeys(job, hook.own)
      <4>1. k \in Keys /\ k \notin KeysOf(hook.own)
        BY <3>3 DEF FilesInv, HookInv
      <4>2. Names(k, hook.own)
        BY <3>1, <3>3 DEF OwnInv
      <4>3. QED BY <2>0, <3>3, <4>1, <4>2, SeedCovers
    <3>4. ~seenFailed' /\ ~ensureFailed => P(job, KeysOf(owned))
      BY <3>1, <3>2, <3>3 DEF Past
    <3> HIDE DEF P
    <3>5. QED BY <2>1, <3>1, <3>4
  <2>7. CASE CheckStop
    BY <2>0, <2>2, <2>4, <2>7 DEF CheckStop
  <2>8. CASE PollJobs
    <3>1. /\ hook'.at = "reload" /\ hook'.jobs = job
          /\ UNCHANGED <<told, hookSeen, seenFailed>>
      BY <2>8 DEF PollJobs, HookInv, Hooks
    <3>2. ~seenFailed /\ ~ensureFailed => P(job, KeysOf(owned))
      BY <2>2, <2>3, <3>1
    <3> HIDE DEF P
    <3>3. QED BY <2>1, <3>1, <3>2
  <2>9. CASE Reload
    <3>1. hook.jobs \in [Jobs -> Fates] /\ hook.at = "reload"
      BY <2>9 DEF Reload, HookInv
    <3>2. QED BY <2>2, <2>4, <2>9, <3>1 DEF Reload
  <2>10. CASE MarkSeen
    <3>1. /\ hook'.at = "block" /\ hook'.fresh = hook.fresh /\ told' = told
          /\ hook.at = "write" /\ WriteSeen(Seen \cup hook.fresh)
      BY <2>10 DEF MarkSeen, HookInv, Hooks
    <3>2. Seen \cup hook.fresh \in SUBSET Keys
      BY SeenIsKeys DEF FilesInv
    <3>3. ~seenFailed' => Seen' = Seen \cup hook.fresh /\ ~seenFailed
      BY <3>1, <3>2, SeenKeys DEF WriteSeen
    <3>4. ~seenFailed' /\ ~ensureFailed => P(job, KeysOf(owned))
      BY <2>2, <3>1, <3>3 DEF Past
    <3> HIDE DEF P
    <3>5. QED BY <2>1, <2>2, <3>1, <3>3, <3>4
  <2>11. CASE Block
    <3>1. /\ hook'.at = "off" /\ told' = told \cup hook.fresh /\ hook.at = "block"
          /\ UNCHANGED <<hookSeen, seenFailed>>
      BY <2>11, OffHook DEF Block
    <3>2. Seen' = Seen
      BY <3>1 DEF Seen
    <3>3. ~seenFailed /\ ~ensureFailed => P(job, KeysOf(owned))
      BY <2>2, <3>1, <3>2 DEF Past
    <3> HIDE DEF P
    <3>4. QED BY <2>1, <3>1, <3>3
  <2>12. CASE KillHook
    <3>1. hook'.at = "off" /\ UNCHANGED <<told, hookSeen, seenFailed>>
      BY <2>12, OffHook DEF KillHook
    <3>2. ~seenFailed /\ ~ensureFailed => P(job, KeysOf(owned))
      BY <2>2, <2>3, <3>1
    <3> HIDE DEF P
    <3>3. QED BY <2>1, <3>1, <3>2
  <2>13. QED BY <1>3, <2>5, <2>6, <2>7, <2>8, <2>9, <2>10, <2>11, <2>12 DEF Hook
<1>4. QED BY <1>0, <1>1, <1>2, <1>3

\* The only keys that become recorded are those a handler is about to tell.
LEMMA RecordedAreTold ==
    ASSUME ServerInv, [RNext]_rvars
    PROVE  \A k \in KeysOf(owned)' :
             k \in KeysOf(owned) \/ (busy'.at \in {"push", "reply"} /\ k = busy'.key)
<1>1. CASE owned' = owned
  BY <1>1 DEF KeysOf
<1>2. FileInv(owned) /\ (owned' = owned => KeysOf(owned)' = KeysOf(owned))
  BY DEF ServerInv, KeysOf
<1>3. CASE Own
  <2>1. {busy.job} \in SUBSET Jobs /\ {} \in SUBSET Keys /\ RecordOwned({busy.job}, {})
    BY <1>3, NoKeyAssumption DEF Own, ServerInv, BusyInv, Handlers
  <2>2. KeysOf(owned)' = KeysOf(owned)
    BY <1>2, <2>1, Recording
  <2>3. QED BY <2>2
<1>4. CASE Note
  <2>1. /\ {} \in SUBSET Jobs /\ {busy.key} \in SUBSET Keys /\ \A k \in {busy.key} : k[2] # 0
        /\ RecordOwned({}, {busy.key})
    BY <1>4 DEF Note, ServerInv, BusyInv
  <2>2. \A k \in KeysOf(owned)' : k \in KeysOf(owned) \/ k = busy.key
    BY <1>2, <2>1, Recording
  <2>3. busy' = [busy EXCEPT !.at = "reply"] /\ busy \in Handlers
    BY <1>4 DEF Note, ServerInv, BusyInv
  <2>4. busy'.at = "reply" /\ busy'.key = busy.key
    BY <2>3 DEF Handlers
  <2>5. QED BY <2>2, <2>4
<1>5. CASE EmitKey
  <2>1. PICK k \in busy.todo :
          /\ IF k[2] # 0 THEN RecordOwned({}, {k}) ELSE UNCHANGED <<owned, unrecorded>>
          /\ Busy("push", NoCall, NoKey, k, busy.todo \ {k})
    BY <1>5 DEF EmitKey
  <2>2. {} \in SUBSET Jobs /\ {k} \in SUBSET Keys
    BY DEF ServerInv, BusyInv, Handlers
  <2>3. busy'.at = "push" /\ busy'.key = k
    BY <2>1 DEF Busy
  <2>4. \A n \in KeysOf(owned)' : n \in KeysOf(owned) \/ n = k
    <3>1. CASE k[2] # 0
      <4>1. RecordOwned({}, {k}) /\ \A n \in {k} : n[2] # 0
        BY <2>1, <3>1
      <4>2. QED BY <1>2, <2>2, <4>1, Recording
    <3>2. CASE k[2] = 0
      BY <1>2, <2>1, <3>2
    <3>3. QED BY <3>1, <3>2
  <2>5. QED BY <2>3, <2>4
<1>6. CASE Boot
  <2>1. CASE owned' = Nothing /\ owned = NoFile
    BY <2>1, NothingIsAFile DEF KeysOf, Nothing
  <2>2. QED BY <1>1, <1>6, <2>1 DEF Boot, EnsureOwnedFile
<1>7. CASE Reply \/ Push \/ Exit
  BY <1>1, <1>7 DEF Reply, Push, Exit, files
<1>8. CASE Quiet \/ (\E j \in Jobs, c \in Calls \cup {NoCall} : Begins(c, j))
             \/ (\E c \in Calls : Answers(c)) \/ Emits
  BY <1>1, <1>8 DEF Quiet, Begins, Answers, Emits
<1>9. QED BY <1>3, <1>4, <1>5, <1>6, <1>7, <1>8, StepKinds DEF Kinds

\* A handler in the middle of a telling goes on with it, unless the server goes down;
\* and what was told was told.
LEMMA HandlersGoOn ==
    ASSUME ServerInv, [RNext]_rvars
    PROVE  /\ busy.at = "own" => busy'.at # "own" \/ busy'.job = busy.job
           /\ busy.at \in {"push", "reply"} =>
                \/ busy' = busy
                \/ busy.key \in pushed' \cup answered'
                \/ up /\ ~up'
           /\ \A k \in pushed : k[2] # 0 => k \in pushed'
           /\ answered \subseteq answered'
<1>1. CASE Quiet \/ Boot
  BY <1>1 DEF Quiet, Boot, history
<1>2. CASE (\E j \in Jobs, c \in Calls \cup {NoCall} : Begins(c, j))
             \/ (\E c \in Calls : Answers(c)) \/ Emits
  BY <1>2 DEF Begins, Answers, Emits, history
<1>3. CASE Own
  BY <1>3, RestingIn DEF Own
<1>4. CASE Note \/ EmitKey
  BY <1>4 DEF Note, EmitKey
<1>5. CASE Reply
  BY <1>5, RestingIn DEF Reply
<1>6. CASE Push
  BY <1>6 DEF Push
<1>7. CASE Exit
  BY <1>7, RestingIn DEF Exit
<1>8. QED BY <1>1, <1>2, <1>3, <1>4, <1>5, <1>6, <1>7, StepKinds DEF Kinds

\* What was told, or is known to be lost, stays so.
LEMMA HeardStays ==
    ASSUME ServerInv, [ZNext]_zvars
    PROVE  \A k : k[2] # 0 /\ k \in pushed \cup answered \cup told \cup lost
                    => k \in pushed' \cup answered' \cup told' \cup lost'
<1>0. /\ [RNext]_rvars
      /\ ServerMoves \/ (Hook /\ UNCHANGED <<rvars, observed>>) \/ UNCHANGED zvars
  BY SessionSteps
<1>1. lost \subseteq lost'
  <2>1. CASE ServerMoves
    BY <2>1 DEF ServerMoves, Observe, Lose
  <2>2. CASE Hook
    BY <2>2 DEF Hook, StartHook, Seed, CheckStop, PollJobs, Reload, MarkSeen, Block, KillHook,
                Lose
  <2>3. CASE UNCHANGED zvars
    BY <2>3 DEF zvars
  <2>4. QED BY <1>0, <2>1, <2>2, <2>3
<1>2. \A k \in told : k[2] # 0 => k \in told'
  <2>1. CASE ServerMoves \/ UNCHANGED zvars
    BY <2>1 DEF ServerMoves, zvars, hvars
  <2>2. CASE Hook
    BY <2>2 DEF Hook, StartHook, Seed, CheckStop, PollJobs, Reload, MarkSeen, Block, KillHook
  <2>3. QED BY <1>0, <2>1, <2>2
<1>3. QED BY <1>0, <1>1, <1>2, HandlersGoOn

LEMMA HeardStep ==
    ASSUME ServerInv, HookInv, FilesInv, HeardInv, [ZNext]_zvars
    PROVE  HeardInv'
<1>0. /\ [RNext]_rvars
      /\ ServerMoves \/ (Hook /\ UNCHANGED <<rvars, observed>>) \/ UNCHANGED zvars
  BY SessionSteps
<1> DEFINE Was(k) == k \in pushed \cup answered \cup told \cup lost
           Is(k) == k \in pushed' \cup answered' \cup told' \cup lost'
<1>1. \A k : k[2] # 0 /\ Was(k) => Is(k)
  BY HeardStays
<1>2. /\ \A j \in mine : \/ j \in JobsOf(owned) \/ j \in unowned
                         \/ busy.at = "own" /\ busy.job = j
      /\ \A k \in KeysOf(owned) : Was(k) \/ (busy.at \in {"push", "reply"} /\ k = busy.key)
      /\ \A k \in Seen : k[2] # 0 => Was(k) \/ (hook.at = "block" /\ k \in hook.fresh)
  BY DEF HeardInv
<1>3. \A k \in KeysOf(owned) : k[2] # 0
  BY DEF ServerInv, FileInv, KeysOf
<1>4. ASSUME /\ \A j \in mine' : \/ j \in JobsOf(owned') \/ j \in unowned'
                                 \/ busy'.at = "own" /\ busy'.job = j
             /\ \A k \in KeysOf(owned') : Is(k) \/ (busy'.at \in {"push", "reply"} /\ k = busy'.key)
             /\ \A k \in Seen' : k[2] # 0 => Is(k) \/ (hook'.at = "block" /\ k \in hook'.fresh)
      PROVE  HeardInv'
  BY <1>4 DEF HeardInv, JobsOf, KeysOf
<1> HIDE DEF Was, Is
<1>5. CASE UNCHANGED zvars
  <2>1. UNCHANGED <<owned, busy, answered, pushed, hook, hookSeen, told, lost, mine, unowned>>
    BY <1>5 DEF zvars, rvars, files, history, hvars, observed
  <2>2. QED BY <2>1 DEF HeardInv, JobsOf, KeysOf, Seen
<1>6. CASE ServerMoves
  <2>0. /\ UNCHANGED <<hook, hookSeen>>
        /\ mine' = mine \cup {j \in Jobs : j = busy'.job}
        /\ unowned' = IF busy.at = "own" /\ busy'.at # "own"
                      THEN unowned \cup ({j \in Jobs : j = busy.job} \ JobsOf(owned'))
                      ELSE unowned
        /\ Lose(IF up /\ ~up' /\ busy.at \in {"push", "reply"} THEN {busy.key} ELSE {})
    BY <1>6 DEF ServerMoves, hvars, Observe, JobsOf
  <2>1. BusyInv' /\ mine \subseteq Jobs \cup mine
    BY <1>0, BusyStep
  <2>2. ASSUME NEW j \in mine'
        PROVE  j \in JobsOf(owned') \/ j \in unowned' \/ (busy'.at = "own" /\ busy'.job = j)
    <3>1. CASE j \in Jobs /\ j = busy'.job
      BY <2>1, <3>1, NoKeyAssumption DEF BusyInv
    <3>2. CASE j \in JobsOf(owned) \/ j \in unowned
      <4>1. JobsOf(owned) \subseteq JobsOf(owned')
        BY <1>0, FileStep DEF JobsOf
      <4>2. QED BY <2>0, <3>2, <4>1
    <3>3. CASE busy.at = "own" /\ busy.job = j
      <4>1. j \in Jobs
        BY <3>3, NoKeyAssumption DEF ServerInv, BusyInv, Handlers
      <4>2. QED BY <1>0, <2>0, <3>3, <4>1, HandlersGoOn
    <3>4. QED BY <1>2, <2>0, <3>1, <3>2, <3>3
  <2>3. ASSUME NEW k \in KeysOf(owned')
        PROVE  Is(k) \/ (busy'.at \in {"push", "reply"} /\ k = busy'.key)
    <3>1. CASE k \in KeysOf(owned) /\ Was(k)
      BY <1>1, <1>3, <3>1
    <3>2. CASE k \in KeysOf(owned) /\ busy.at \in {"push", "reply"} /\ k = busy.key
      <4>1. CASE busy' = busy
        BY <3>2, <4>1
      <4>2. CASE busy.key \in pushed' \cup answered'
        BY <3>2, <4>2 DEF Is
      <4>3. CASE up /\ ~up'
        <5>1. Lose({k})
          BY <2>0, <3>2, <4>3
        <5>2. k \in lost' \/ k \in pushed \cup answered \cup told
          BY <5>1 DEF Lose
        <5>3. QED BY <1>1, <1>3, <3>2, <5>2 DEF Was, Is
      <4>4. QED BY <1>0, <3>2, <4>1, <4>2, <4>3, HandlersGoOn
    <3>3. k \in KeysOf(owned) \/ (busy'.at \in {"push", "reply"} /\ k = busy'.key)
      BY <1>0, RecordedAreTold DEF KeysOf
    <3>4. QED BY <1>2, <3>1, <3>2, <3>3
  <2>4. Seen' = Seen
    BY <2>0 DEF Seen
  <2>5. QED BY <1>1, <1>2, <1>4, <2>0, <2>2, <2>3, <2>4
<1>7. CASE Hook /\ UNCHANGED <<rvars, observed>>
  <2>0. UNCHANGED <<job, owned, busy, answered, pushed, mine, unowned>>
    BY <1>7, HookFrame
  <2>1. ASSUME \A k \in Seen' : k[2] # 0 => Is(k) \/ (hook'.at = "block" /\ k \in hook'.fresh)
        PROVE  HeardInv'
    BY <1>1, <1>2, <1>3, <1>4, <2>0, <2>1
  <2>2. ASSUME hookSeen' = hookSeen, hook.at # "block" PROVE HeardInv'
    <3>1. Seen' = Seen
      BY <2>2 DEF Seen
    <3>2. QED BY <1>1, <1>2, <2>1, <2>2, <3>1
  <2>3. CASE (\E e \in Events : StartHook(e)) \/ CheckStop \/ PollJobs \/ Reload
    BY <2>2, <2>3, OffHook DEF StartHook, CheckStop, PollJobs, Reload
  <2>4. CASE Seed
    <3>1. hook.at # "block" /\ Lose(ChannelKeys(job, hook.own) \cap Seen')
      BY <2>4 DEF Seed
    <3>2. \A k \in ChannelKeys(job, hook.own) \cap Seen' : k[2] # 0 => Is(k)
      BY <1>1, <3>1 DEF Lose, Was, Is
    <3>3. Seen' \subseteq ChannelKeys(job, hook.own) \cup Seen
      BY <2>4 DEF Seed, SeedKeys, WriteSeen, Seen
    <3>4. QED BY <1>1, <1>2, <2>1, <3>1, <3>2, <3>3
  <2>5. CASE MarkSeen
    <3>1. /\ hook.at = "write" /\ hook'.at = "block" /\ hook'.fresh = hook.fresh
          /\ WriteSeen(Seen \cup hook.fresh)
      BY <2>5 DEF MarkSeen, HookInv, Hooks
    <3>2. Seen' \subseteq Seen \cup hook.fresh
      BY <3>1 DEF WriteSeen, Seen
    <3>3. QED BY <1>1, <1>2, <2>1, <3>1, <3>2
  <2>6. CASE Block
    <3>1. hook.fresh \subseteq told' /\ hookSeen' = hookSeen
      BY <2>6 DEF Block
    <3>2. Seen' = Seen
      BY <3>1 DEF Seen
    <3>3. QED BY <1>1, <1>2, <2>1, <3>1, <3>2 DEF Is
  <2>7. CASE KillHook
    <3>1. /\ hookSeen' = hookSeen
          /\ Lose(IF hook.at = "block" THEN hook.fresh ELSE {})
      BY <2>7 DEF KillHook
    <3>2. \A k \in Seen : k[2] # 0 /\ hook.at = "block" /\ k \in hook.fresh => Is(k)
      BY <1>1, <3>1 DEF Lose, Was, Is
    <3>3. Seen' = Seen
      BY <3>1 DEF Seen
    <3>4. QED BY <1>1, <1>2, <2>1, <3>2, <3>3
  <2>8. QED BY <1>7, <2>3, <2>4, <2>5, <2>6, <2>7 DEF Hook
<1>8. QED BY <1>0, <1>5, <1>6, <1>7

-----------------------------------------------------------------------------
(* What a session promises.                                                *)

LEMMA SessionInit == ZInit => SessionInv
<1> SUFFICES ASSUME ZInit PROVE SessionInv
  OBVIOUS
<1>1. ServerInv
  BY ServerInit DEF ZInit
<1>2. /\ owned = NoFile /\ up = FALSE /\ pushed = {} /\ answered = {}
      /\ busy.at = "free" /\ busy.todo = {}
      /\ hook = Off /\ hookSeen = NoFile /\ told = {} /\ lost = {} /\ mine = {}
  BY DEF ZInit, RInit, Resting
<1>3. HookInv
  BY <1>2, OffHook DEF HookInv, FileInv, JobsOf, KeysOf
<1>4. FilesInv /\ OwnInv /\ OnceInv /\ HeardInv
  BY <1>2, OffHook DEF FilesInv, OwnInv, OnceInv, HeardInv, JobsOf, KeysOf, Past, Seen
<1>5. QED BY <1>1, <1>3, <1>4 DEF SessionInv

LEMMA SessionStep == SessionInv /\ [ZNext]_zvars => SessionInv'
BY SessionSteps, ServerStep, HookStep, FilesStep, OwnStep, OnceStep, HeardStep DEF SessionInv

\* However servers restart, hooks start, sleep and die, and siblings and workers move
\* the shared store, every state of a session satisfies the invariant.
THEOREM SessionSound == ZSpec => []SessionInv
BY SessionInit, SessionStep, PTL DEF ZSpec

\* A session is told, by hook or channel, of settlements of its own jobs only, once it
\* has an ownership file (server.mjs:62-65, relay-owned.mjs:36-43): a key is told only
\* if its job is named in the file, and only the session's own dispatches are.
THEOREM OwnOnly == ZSpec => []OwnJobsOnly
<1>1. SessionInv => OwnJobsOnly
  BY DEF SessionInv, OwnInv, Names, OwnJobsOnly
<1>2. QED BY <1>1, SessionSound, PTL

\* A hook blocks no stop with what dispatch_wait or the channel had recorded as delivered
\* when the hook last read it, although it reads the store and the ownership file one
\* after the other (relay-stop-hook.mjs:172-174, server.mjs:400-401).
THEOREM NoRepeats == ZSpec => []HookRepeatsNothing
<1>1. SessionInv => HookRepeatsNothing
  BY DEF SessionInv, HookInv, HookRepeatsNothing
<1>2. QED BY <1>1, SessionSound, PTL

\* Two stops do not tell the same thing as long as the session's files can be written,
\* across SessionStarts, restarts of the server and killed hooks (relay-hook.mjs:22-24):
\* what was told is in the seen-set, or was delivered, or has moved on.
THEOREM StopsTellOnce == ZSpec => []HookTellsOnce
<1>1. SessionInv => HookTellsOnce
  BY DEF SessionInv, OnceInv, HookTellsOnce
<1>2. QED BY <1>1, SessionSound, PTL

\* A settlement of one of the session's jobs is news for the next stop, or was told, or is
\* accounted for: nothing is recorded or marked without a telling, except by a process
\* that died in between or a seed (server.mjs:352-354).
THEOREM NoneForgotten == ZSpec => []NothingForgotten
<1>1. ASSUME SessionInv, NEW j \in mine, Terminal(j)
      PROVE  \/ Pending(j)
             \/ KeyOf(j) \in pushed \cup answered \cup told
             \/ KeyOf(j) \in lost \/ j \in unowned
  <2>1. j \in Jobs /\ KeyOf(j) \in Keys /\ KeyOf(j)[2] # 0
    BY <1>1, KeysOfJobs DEF SessionInv, OwnInv, ServerInv
  <2>2. CASE j \in unowned \/ (busy.at = "own" /\ busy.job = j)
    BY <2>2 DEF Pending
  <2>3. CASE KeyOf(j) \in KeysOf(owned) \/ KeyOf(j) \in Seen
    BY <1>1, <2>1, <2>3 DEF SessionInv, HeardInv, Pending
  <2>4. CASE j \in JobsOf(owned) /\ KeyOf(j) \notin KeysOf(owned) /\ KeyOf(j) \notin Seen
    <3>1. ~Over(job, KeyOf(j)) /\ Names(KeyOf(j), owned) /\ job \in [Jobs -> Fates]
      BY <1>1, <2>4 DEF Over, KeyOf, Names, Terminal, SessionInv, ServerInv, JobInv
    <3>2. KeyOf(j) \in ChannelKeys(job, owned)
      BY <2>1, <2>4, <3>1, SeedCovers
    <3>3. QED BY <2>4, <3>2 DEF Pending
  <2>5. QED BY <1>1, <2>2, <2>3, <2>4 DEF SessionInv, HeardInv
<1>2. SessionInv => NothingForgotten
  BY <1>1 DEF NothingForgotten
<1>3. QED BY <1>2, SessionSound, PTL

=============================================================================
