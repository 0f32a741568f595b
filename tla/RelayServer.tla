----------------------------- MODULE RelayServer -----------------------------
(***************************************************************************)
(* The MCP server process of one session (server.mjs), with the ownership  *)
(* record it keeps (lib/relay-owned.mjs) and the keys it tells by          *)
(* (channelKeys of lib/relay-hook.mjs).  Around it the store lives its own *)
(* life: sibling sessions of the same agent enqueue, workers run, the      *)
(* sweep and operators settle and revive.                                  *)
(*                                                                         *)
(* The server has one thread.  A handler runs until it returns or awaits;  *)
(* `busy` says where it is between two of its effects other processes can  *)
(* see (store, ownership file, output), and nothing else of the server     *)
(* runs in between.  A dispatch_wait call that waits gives the thread back.*)
(*                                                                         *)
(* Jobs are never pruned here, and have one fate each: their store is      *)
(* RelayJobs' matter.  An event is a key: <<j, 0>> for job j in the inbox, *)
(* <<j, n>> for its n-th settlement.                                       *)
(***************************************************************************)
EXTENDS Naturals

CONSTANTS
    Jobs,
    Inbox,      \* jobs addressed to this session's agent
    Calls,      \* dispatch_wait calls that can be open at once
    Uris,       \* resources the client subscribes to
    MaxEnds,    \* bound: settlements of a job
    Revivable,  \* bound: jobs that operators may put back in the queue
    NoFile, NoCall, NoKey

ASSUME InboxAssumption == Inbox \cup Revivable \subseteq Jobs
ASSUME EndsAssumption == MaxEnds \in Nat \ {0}
ASSUME NoCallAssumption == NoCall \notin Calls
ASSUME NoKeyAssumption == NoKey \notin Jobs
ASSUME NoFileAssumption == \A js \in SUBSET Jobs, ks \in SUBSET (Jobs \X (0..MaxEnds)) :
    NoFile # ks /\ NoFile # [jobs |-> js, keys |-> ks]

VARIABLES
    job,            \* the store: the state of each job, and how often it settled
    owned,          \* the session's ownership file, or NoFile
    channel,        \* RELAY_AGENT is set
    up,             \* the server process lives
    ready,          \* notifications/initialized has arrived
    pendingNotify,
    notifyTimer,    \* the debounce timer of scheduleNotify is set
    watching,       \* watcher and pollTimer are set
    changed,        \* the store file's mtime is not lastMtime
    subscriptions,
    channelSeen,
    wait,           \* the open dispatch_wait calls
    busy,           \* the handler that runs
    stale,          \* history: there are subscribers not told of the last change
    answered,       \* history: settlements returned by dispatch_wait
    pushed,         \* history: events told over the channel
    unrecorded      \* history: delivered keys that could not be recorded

files == <<job, owned>>
memory == <<up, ready, pendingNotify, notifyTimer, watching, subscriptions, channelSeen>>
history == <<answered, pushed, unrecorded>>
rvars == <<files, channel, memory, changed, wait, busy, stale, history>>

Keys == Jobs \X (0..MaxEnds)
Nothing == [jobs |-> {}, keys |-> {}]
States == {"none", "queued", "running", "settled"}
Terminal(j) == job[j].state = "settled"
KeyOf(j) == <<j, job[j].ends>>

Idle == [at |-> "idle", job |-> NoKey, late |-> FALSE]
Resting == [at |-> "free", call |-> NoCall, job |-> NoKey, key |-> NoKey, todo |-> {}]
Busy(at, c, j, k, todo) ==
    busy' = [at |-> at, call |-> c, job |-> j, key |-> k, todo |-> todo]
Rest == busy' = Resting

-----------------------------------------------------------------------------
(* lib/relay-hook.mjs and lib/relay-owned.mjs                              *)

\* Delivered settlements are left out, but not those of other sessions' jobs.
Slip_ChannelKeys(J, own) ==
    {<<j, J[j].ends>> : j \in {i \in Jobs :
        /\ J[i].state = "settled"
        /\ own # NoFile => <<i, J[i].ends>> \notin own.keys}}
    \cup {<<j, 0>> : j \in {i \in Inbox : J[i].state = "queued"}}

\* channelKeys over all jobs J, for the agent of this session.  Without an
\* ownership file every settled job of the agent counts.
ChannelKeys(J, own) ==
    {<<j, J[j].ends>> : j \in {i \in Jobs :
        /\ J[i].state = "settled"
        /\ own # NoFile => i \in own.jobs /\ <<i, J[i].ends>> \notin own.keys}}
    \cup {<<j, 0>> : j \in {i \in Inbox : J[i].state = "queued"}}

\* recordOwned, best effort: a lock timeout or a write that fails is swallowed.
RecordOwned(js, ks) ==
    \/ /\ owned' = LET o == IF owned = NoFile THEN Nothing ELSE owned
                   IN  [jobs |-> o.jobs \cup js, keys |-> o.keys \cup ks]
       /\ UNCHANGED unrecorded
    \/ /\ unrecorded' = unrecorded \cup ks
       /\ UNCHANGED owned

\* ensureOwnedFile, best effort too.
EnsureOwnedFile ==
    \/ owned' = IF owned = NoFile THEN Nothing ELSE owned
    \/ UNCHANGED owned

-----------------------------------------------------------------------------
(* The store around the server.                                            *)

Store(j, s, n) ==
    /\ job' = [job EXCEPT ![j] = [state |-> s, ends |-> n]]
    /\ changed' = TRUE
    /\ stale' = (subscriptions # {})

\* Transactions of relay-jobs.mjs by other processes, reduced to the state of one job
\* and the number of times it has settled (RelayJobs has them whole).
Elsewhere(j, from, s, n) ==
    /\ job[j].state \in from
    /\ Store(j, s, n)
    /\ UNCHANGED <<owned, channel, memory, wait, busy, history>>

SiblingEnqueues(j) == Elsewhere(j, {"none"}, "queued", 0)
\* (Outside the inbox nothing tells a queued job from a running one.)
WorkerClaims(j) == j \in Inbox /\ Elsewhere(j, {"queued"}, "running", job[j].ends)
\* By a worker or a sweep, or by an operator after it had settled.
Requeues(j) ==
    Elsewhere(j, {"running"} \cup {s \in {"settled"} : j \in Revivable}, "queued", job[j].ends)
Settles(j) ==
    /\ job[j].ends < MaxEnds
    /\ Elsewhere(j, {"queued", "running"}, "settled", job[j].ends + 1)

-----------------------------------------------------------------------------
(* Watching the store.                                                     *)

\* The thread is free: no handler runs, and no promise is left to continue.
Free == up /\ busy.at = "free" /\ \A c \in Calls : wait[c].at # "woken"

\* startWatching: the poll compares with lastMtime = -1 first.
StartWatching ==
    /\ watching' = TRUE
    /\ changed' = (changed \/ ~watching)

Slip_Needed(subs, others) == channel \/ \E d \in others : wait[d].at # "idle"

\* What stopWatchingIfIdle looks at: subscriptions, channel, activeWaiters.
Needed(subs, others) ==
    subs # {} \/ channel \/ \E d \in others : wait[d].at # "idle"

\* storeChanged.emit("change"): every waiting call continues.
WakeAll == wait' = [c \in Calls |-> IF wait[c].at = "waiting"
                                    THEN [wait[c] EXCEPT !.at = "woken"] ELSE wait[c]]

\* fs.watch fires: for any file of the directory, late, or not at all.
WatchEvent ==
    /\ Free /\ watching
    /\ notifyTimer' = TRUE
    /\ WakeAll
    /\ UNCHANGED <<files, channel, up, ready, pendingNotify, watching, changed,
                   subscriptions, channelSeen, busy, stale, history>>

\* The poll timer finds another mtime.
PollTick ==
    /\ Free /\ watching /\ changed
    /\ changed' = FALSE
    /\ notifyTimer' = TRUE
    /\ WakeAll
    /\ UNCHANGED <<files, channel, up, ready, pendingNotify, watching,
                   subscriptions, channelSeen, busy, stale, history>>

Slip_Deferred == UNCHANGED pendingNotify
Deferred == pendingNotify' = TRUE

\* emitUpdates, up to the choice of what to tell over the channel.
EmitUpdates ==
    /\ Free /\ notifyTimer
    /\ notifyTimer' = FALSE
    /\ IF ~ready
       THEN Deferred /\ UNCHANGED <<stale, busy>>
       ELSE LET fresh == ChannelKeys(job, owned) \ channelSeen IN
            /\ pendingNotify' = FALSE
            /\ stale' = FALSE
            /\ IF channel /\ fresh # {}
               THEN Busy("emit", NoCall, NoKey, NoKey, fresh) ELSE UNCHANGED busy
    /\ UNCHANGED <<files, channel, up, ready, watching, changed, subscriptions,
                   channelSeen, wait, history>>

\* emitChannelEvents: mark the key as seen and, if it is a settlement, record it...
EmitKey == \E k \in busy.todo :
    /\ up /\ busy.at = "emit"
    /\ channelSeen' = channelSeen \cup {k}
    /\ IF k[2] # 0 THEN RecordOwned({}, {k}) ELSE UNCHANGED <<owned, unrecorded>>
    /\ Busy("push", NoCall, NoKey, k, busy.todo \ {k})
    /\ UNCHANGED <<job, channel, up, ready, pendingNotify, notifyTimer, watching,
                   changed, subscriptions, wait, stale, answered, pushed>>

\* ... then notify.
Push ==
    /\ up /\ busy.at = "push"
    /\ pushed' = pushed \cup {busy.key}
    /\ IF busy.todo = {} THEN Rest ELSE Busy("emit", NoCall, NoKey, NoKey, busy.todo)
    /\ UNCHANGED <<files, channel, memory, changed, wait, stale, answered, unrecorded>>

-----------------------------------------------------------------------------
(* dispatch and dispatch_wait.                                             *)

\* enqueueFromArgs: a job of that request id, new or there already.
Enqueue(j) ==
    IF job[j].state = "none" THEN Store(j, "queued", 0)
    ELSE UNCHANGED <<job, changed, stale>>

Dispatch(j) ==
    /\ Free
    /\ Enqueue(j)
    /\ Busy("own", NoCall, j, NoKey, {})
    /\ UNCHANGED <<owned, channel, memory, wait, history>>

DispatchWait(c, j) ==
    /\ Free
    /\ wait[c] = Idle
    /\ Enqueue(j)
    /\ Busy("own", c, j, NoKey, {})
    /\ UNCHANGED <<owned, channel, memory, wait, history>>

\* Ownership is recorded after the enqueue; then dispatch answers, and
\* dispatch_wait starts the watch and looks for the first time.
Own ==
    LET c == busy.call IN
    /\ up /\ busy.at = "own"
    /\ RecordOwned({busy.job}, {})
    /\ notifyTimer' = TRUE
    /\ IF c = NoCall
       THEN UNCHANGED <<watching, changed, wait>>
       ELSE /\ StartWatching
            /\ wait' = [wait EXCEPT ![c] = [at |-> "woken", job |-> busy.job, late |-> FALSE]]
    /\ Rest
    /\ UNCHANGED <<job, channel, up, ready, pendingNotify, subscriptions, channelSeen,
                   stale, answered, pushed>>

\* The end of a call: activeWaiters--, stopWatchingIfIdle().
Leave(c) ==
    /\ wait' = [wait EXCEPT ![c] = Idle]
    /\ watching' = (watching /\ Needed(subscriptions, Calls \ {c}))

\* One round of the loop: is the job settled, is time up, or wait?  getJob may also
\* throw (LOCK_TIMEOUT), which ends the call too.
Look(c) ==
    /\ up /\ busy.at = "free"
    /\ wait[c].at = "woken"
    /\ \/ /\ Terminal(wait[c].job)
          /\ Busy("note", c, NoKey, KeyOf(wait[c].job), {})
          /\ UNCHANGED <<wait, watching>>
       \/ /\ ~Terminal(wait[c].job) /\ ~wait[c].late
          /\ wait' = [wait EXCEPT ![c].at = "waiting"]
          /\ UNCHANGED <<busy, watching>>
       \/ /\ Leave(c)
          /\ UNCHANGED busy
    /\ UNCHANGED <<files, channel, up, ready, pendingNotify, notifyTimer, changed,
                   subscriptions, channelSeen, stale, history>>

Slip_Note ==
    /\ up /\ busy.at = "note"
    /\ busy' = [busy EXCEPT !.at = "reply"]
    /\ UNCHANGED <<files, channel, memory, changed, wait, stale, history>>

\* The settlement is about to be handed back inline: it is recorded as delivered...
Note ==
    /\ up /\ busy.at = "note"
    /\ RecordOwned({}, {busy.key})
    /\ busy' = [busy EXCEPT !.at = "reply"]
    /\ UNCHANGED <<job, channel, memory, changed, wait, stale, answered, pushed>>

\* ... and returned.
Reply ==
    /\ up /\ busy.at = "reply"
    /\ answered' = answered \cup {busy.key}
    /\ Leave(busy.call)
    /\ Rest
    /\ UNCHANGED <<files, channel, up, ready, pendingNotify, notifyTimer, changed,
                   subscriptions, channelSeen, stale, pushed, unrecorded>>

\* No fallback: only the watch wakes a call.
Slip_FallbackTimer(c) == FALSE /\ UNCHANGED rvars

\* setTimeout of waitForStoreChangeOrTimeout.
FallbackTimer(c) ==
    /\ Free
    /\ wait[c].at = "waiting"
    /\ wait' = [wait EXCEPT ![c].at = "woken"]
    /\ UNCHANGED <<files, channel, memory, changed, busy, stale, history>>

\* The deadline of a call passes.
Deadline(c) ==
    /\ wait[c].at # "idle" /\ ~wait[c].late
    /\ wait' = [wait EXCEPT ![c].late = TRUE]
    /\ UNCHANGED <<files, channel, memory, changed, busy, stale, history>>

-----------------------------------------------------------------------------
(* The client, and the process itself.                                     *)

Initialized ==
    /\ Free
    /\ ready' = TRUE
    /\ notifyTimer' = (notifyTimer \/ pendingNotify \/ subscriptions # {})
    /\ UNCHANGED <<files, channel, up, pendingNotify, watching, changed, subscriptions,
                   channelSeen, wait, busy, stale, history>>

Slip_Subscribe(u) ==
    /\ Free
    /\ subscriptions' = subscriptions \cup {u}
    /\ notifyTimer' = TRUE
    /\ stale' = TRUE
    /\ UNCHANGED <<files, channel, up, ready, pendingNotify, watching, changed,
                   channelSeen, wait, busy, history>>

\* The client wants to be told of changes, starting with the state as it is.
Subscribe(u) ==
    /\ Free
    /\ subscriptions' = subscriptions \cup {u}
    /\ StartWatching
    /\ notifyTimer' = TRUE
    /\ stale' = TRUE
    /\ UNCHANGED <<files, channel, up, ready, pendingNotify, channelSeen, wait, busy,
                   history>>

Unsubscribe(u) ==
    /\ Free
    /\ subscriptions' = subscriptions \ {u}
    /\ watching' = (watching /\ Needed(subscriptions', Calls))
    /\ stale' = (stale /\ subscriptions' # {})
    /\ UNCHANGED <<files, channel, up, ready, pendingNotify, notifyTimer, changed,
                   channelSeen, wait, busy, history>>

\* seedChannel: what is there already is not news.
SeedChannel(own) == IF channel THEN ChannelKeys(job, own) ELSE {}

\* The process starts: the ownership file, then main().
Boot ==
    /\ ~up
    /\ up' = TRUE
    /\ EnsureOwnedFile
    /\ watching' = channel
    /\ changed' = (changed \/ channel)
    /\ channelSeen' = SeedChannel(owned')
    /\ UNCHANGED <<job, channel, ready, pendingNotify, notifyTimer, subscriptions, wait,
                   busy, stale, history>>

\* The process ends, on its own or not, at any moment; what it had in memory is
\* gone, and a new process tells an inbox anew.
Exit ==
    /\ up
    /\ up' = FALSE
    /\ ready' = FALSE
    /\ pendingNotify' = FALSE
    /\ notifyTimer' = FALSE
    /\ watching' = FALSE
    /\ subscriptions' = {}
    /\ channelSeen' = {}
    /\ wait' = [c \in Calls |-> Idle]
    /\ Rest
    /\ stale' = FALSE
    /\ pushed' = {k \in pushed : k[2] # 0}
    /\ UNCHANGED <<files, channel, changed, answered, unrecorded>>

RInit ==
    /\ job \in [Jobs -> {[state |-> "none", ends |-> 0], [state |-> "settled", ends |-> 1]}]
    /\ owned = NoFile
    /\ channel \in BOOLEAN
    /\ up = FALSE
    /\ ready = FALSE
    /\ pendingNotify = FALSE
    /\ notifyTimer = FALSE
    /\ watching = FALSE
    /\ changed = TRUE
    /\ subscriptions = {}
    /\ channelSeen = {}
    /\ wait = [c \in Calls |-> Idle]
    /\ busy = Resting
    /\ stale = FALSE
    /\ answered = {}
    /\ pushed = {}
    /\ unrecorded = {}

World(j) ==
    SiblingEnqueues(j) \/ WorkerClaims(j) \/ Requeues(j) \/ Settles(j)

\* What the server does by itself.
Serve(c) == Look(c) \/ FallbackTimer(c)
Run == Own \/ Note \/ Reply \/ EmitKey \/ Push

RNext ==
    \/ \E j \in Jobs : World(j) \/ Dispatch(j)
    \/ \E j \in Jobs, c \in Calls : DispatchWait(c, j)
    \/ \E c \in Calls : Serve(c) \/ Deadline(c)
    \/ Run \/ EmitUpdates \/ PollTick \/ WatchEvent
    \/ Initialized
    \/ \E u \in Uris : Subscribe(u) \/ Unsubscribe(u)
    \/ Boot \/ Exit

RSpec == RInit /\ [][RNext]_rvars

\* A process that lives finishes its handlers, and its event loop gets round to
\* every expired timer and every message however many others keep it busy; a
\* call's deadline comes; the client completes the handshake.  Nothing is
\* assumed of fs.watch, of workers, or of the client's further calls.
RFairSpec ==
    /\ RSpec
    /\ WF_rvars(Run) /\ SF_rvars(EmitUpdates) /\ SF_rvars(PollTick)
    /\ SF_rvars(~ready /\ Initialized)
    /\ \A c \in Calls : SF_rvars(Serve(c)) /\ WF_rvars(Deadline(c))

-----------------------------------------------------------------------------
(* Properties.                                                             *)

\* The shape of the state.
RTypeOK ==
    /\ job \in [Jobs -> [state : States, ends : 0..MaxEnds]]
    /\ owned = NoFile \/ owned \in [jobs : SUBSET Jobs, keys : SUBSET Keys]
    /\ subscriptions \subseteq Uris
    /\ channelSeen \subseteq Keys
    /\ \A c \in Calls : wait[c].at \in {"idle", "woken", "waiting"}
    /\ busy.at \in {"free", "own", "note", "reply", "emit", "push"}
    /\ ~up => busy = Resting /\ ~watching /\ ~notifyTimer
    /\ up /\ Needed(subscriptions, Calls) => watching

\* Every dispatch_wait call ends: with the settlement, at its deadline, or with
\* the server, although fs.watch may be silent and other calls stop the watch
\* (server.mjs:78-80, 409-411).
AnswersCome ==
    \A c \in Calls : wait[c].at # "idle" ~> wait[c].at = "idle"

\* Subscribers hear of a change as long as they and the server are there, however
\* subscriptions, waiting calls and the handshake start and stop the watch in
\* between (server.mjs:678-679, 689).
UpdatesReach ==
    stale ~> ~stale

\* What is news for the channel is told over it, or was answered inline, unless
\* the server goes down or the job moves on (server.mjs:51-55).
ChannelTells ==
    \A k \in Keys :
        (up /\ channel /\ k \in ChannelKeys(job, owned) \ channelSeen)
            ~> (~up \/ k \in pushed \cup answered \/ k \notin ChannelKeys(job, NoFile))

\* The channel tells nothing twice: not what it told itself, before a restart
\* of the server either, nor what a dispatch_wait has handed back, unless that
\* could not be recorded (server.mjs:400-401, 634-635).
ChannelTellsOnce ==
    busy.at = "push" /\ busy.key \in pushed \cup answered => busy.key \in unrecorded

=============================================================================
