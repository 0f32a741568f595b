----------------------------- MODULE RelaySession -----------------------------
(***************************************************************************)
(* One session of Claude Code: its MCP server (RelayServer) and the hook   *)
(* processes it starts, one at a time (bin/relay-stop-hook.mjs, with       *)
(* lib/relay-hook.mjs).  A hook shares three files with the server and     *)
(* with later hooks: the store, the ownership file, which it only reads,   *)
(* and its own file of keys already seen.  It may be killed at any point.  *)
(***************************************************************************)
EXTENDS RelayServer

VARIABLES
    hook,       \* the hook process that runs
    hookSeen,   \* hook-seen-<session>.json, or NoFile
    told,       \* history: keys a hook has blocked a stop with
    lost,       \* history: keys marked as seen or delivered, and then not told
    seenFailed, \* history: the keys could not be written, or not be computed
    mine,       \* history: jobs this session has dispatched
    unowned,    \* history: those of them that could not be recorded as owned
    ensureFailed    \* history: ensureOwnedFile has failed

hvars == <<hook, hookSeen, told, seenFailed>>
observed == <<mine, unowned, ensureFailed>>
zvars == <<rvars, hvars, lost, observed>>

Events == {"SessionStart", "Stop"}
\* `known` is a history field: the keys that were recorded as delivered when
\* the hook began, or, in the long poll, when it last read the store.
Off == [at |-> "off", own |-> NoFile, jobs |-> NoKey, fresh |-> {}, known |-> {}]
Seen == IF hookSeen = NoFile THEN {} ELSE hookSeen
Recorded == IF owned = NoFile THEN {} ELSE owned.keys

ZInit ==
    /\ RInit
    /\ hook = Off /\ hookSeen = NoFile
    /\ told = {} /\ lost = {} /\ seenFailed = FALSE
    /\ mine = {} /\ unowned = {} /\ ensureFailed = FALSE

\* Keys that were marked will not be told any more, unless they have been.
Lose(ks) == lost' = lost \cup (ks \ (pushed \cup answered \cup told))

-----------------------------------------------------------------------------

HasInFlightFromAgent(J, own) ==
    \E j \in Jobs : J[j].state \in {"queued", "running"} /\ (own # NoFile => j \in own.jobs)

\* writeSeen: best effort.
WriteSeen(ks) ==
    \/ hookSeen' = ks /\ UNCHANGED seenFailed
    \/ seenFailed' = TRUE /\ UNCHANGED hookSeen

\* main() reads the ownership file first.  Without RELAY_AGENT it does nothing.
\* A Stop comes at the end of a turn, after the server came up.
StartHook(e) ==
    /\ channel
    /\ hook = Off
    /\ e = "Stop" => owned # NoFile \/ ensureFailed
    /\ hook' = [Off EXCEPT !.at = e, !.own = owned, !.known = Recorded]
    /\ UNCHANGED <<rvars, hookSeen, told, lost, seenFailed>>

\* What a seed marks as seen.
Slip_SeedKeys(own) == ChannelKeys(job, NoFile)
SeedKeys(own) == ChannelKeys(job, own)

\* SessionStart, or a Stop without a baseline: everything in the store is old.
\* A SessionStart forgets what was seen before; inbox entries may be told anew.
Seed ==
    /\ hook.at = "SessionStart" \/ (hook.at = "Stop" /\ hookSeen = NoFile)
    /\ \/ WriteSeen(SeedKeys(hook.own))
       \/ hookSeen' = {} /\ seenFailed' = TRUE    \* readJobs failed
    /\ hook' = Off
    /\ Lose(ChannelKeys(job, hook.own) \cap Seen')
    /\ told' = {k \in told : k[2] # 0}
    /\ UNCHANGED rvars

\* surface, and what follows from it: tell, sleep once more, or allow the stop.
\* The budget may be spent, and there is none in a continued stop.
Surface(J, own, known) ==
    LET fresh == ChannelKeys(J, own) \ Seen
        go(at) == hook' = [at |-> at, own |-> IF at = "sleep" THEN own ELSE NoFile,
                           jobs |-> NoKey, fresh |-> fresh, known |-> known]
    IN  IF fresh # {} THEN go("write")
        ELSE hook' = Off \/ (HasInFlightFromAgent(J, own) /\ go("sleep"))

\* A Stop reads the seen-set and the store.
CheckStop ==
    /\ hook.at = "Stop" /\ hookSeen # NoFile
    /\ Surface(job, hook.own, hook.known)
    /\ UNCHANGED <<rvars, hookSeen, told, lost, seenFailed>>

\* The long poll reads the store...
PollJobs ==
    /\ hook.at = "sleep"
    /\ hook' = [hook EXCEPT !.at = "reload", !.jobs = job, !.known = Recorded]
    /\ UNCHANGED <<rvars, hookSeen, told, lost, seenFailed>>

Slip_Reload ==
    /\ hook.at = "reload"
    /\ Surface(hook.jobs, hook.own, hook.known)
    /\ UNCHANGED <<rvars, hookSeen, told, lost, seenFailed>>

\* ... and then the ownership file again.
Reload ==
    /\ hook.at = "reload"
    /\ Surface(hook.jobs, owned, hook.known)
    /\ UNCHANGED <<rvars, hookSeen, told, lost, seenFailed>>

Slip_MarkSeen ==
    /\ hook.at = "write"
    /\ UNCHANGED <<hookSeen, seenFailed>>
    /\ hook' = [hook EXCEPT !.at = "block"]
    /\ UNCHANGED <<rvars, told, lost>>

\* The keys are marked as seen...
MarkSeen ==
    /\ hook.at = "write"
    /\ WriteSeen(Seen \cup hook.fresh)
    /\ hook' = [hook EXCEPT !.at = "block"]
    /\ UNCHANGED <<rvars, told, lost>>

\* ... and the stop is blocked with them.
Block ==
    /\ hook.at = "block"
    /\ told' = told \cup hook.fresh
    /\ hook' = Off
    /\ UNCHANGED <<rvars, hookSeen, lost, seenFailed>>

\* The hook is killed, or fails open.
KillHook ==
    /\ hook.at # "off"
    /\ hook' = Off
    /\ Lose(IF hook.at = "block" THEN hook.fresh ELSE {})
    /\ UNCHANGED <<rvars, hookSeen, told, seenFailed>>

Hook ==
    \/ \E e \in Events : StartHook(e)
    \/ Seed \/ CheckStop \/ PollJobs \/ Reload \/ MarkSeen \/ Block \/ KillHook

\* What the properties remember of the steps of the server.
Observe ==
    LET dispatched == {j \in Jobs : j = busy.job}
        recorded == IF owned' = NoFile THEN {} ELSE owned'.jobs
    IN  /\ mine' = mine \cup {j \in Jobs : j = busy'.job}
        /\ unowned' = IF busy.at = "own" /\ busy'.at # "own"
                      THEN unowned \cup (dispatched \ recorded) ELSE unowned
        /\ ensureFailed' = (ensureFailed \/ (~up /\ up' /\ owned' = NoFile))
        /\ Lose(IF up /\ ~up' /\ busy.at \in {"push", "reply"} THEN {busy.key} ELSE {})

ZNext ==
    \/ RNext /\ Observe /\ UNCHANGED hvars
    \/ Hook /\ UNCHANGED observed

ZSpec == ZInit /\ [][ZNext]_zvars

-----------------------------------------------------------------------------
(* Properties.                                                             *)

\* A session is not told of settlements of jobs only its siblings dispatched,
\* by hook or channel, once its server has been able to create its ownership
\* file (server.mjs:62-65, relay-owned.mjs:36-43).
OwnJobsOnly ==
    ensureFailed \/ \A k \in pushed \cup told : k[2] # 0 => k[1] \in mine

\* The hook does not repeat what dispatch_wait or the channel had recorded as
\* delivered when it began or, in the long poll, when it read the store, although
\* it reads the store and the ownership file one after the other
\* (relay-stop-hook.mjs:172-174, server.mjs:400-401).
HookRepeatsNothing == hook.at = "block" => hook.fresh \cap hook.known = {}

\* Two stops do not tell the same thing as long as the session's files can be
\* written, across SessionStarts, restarts of the server and killed hooks
\* (relay-hook.mjs:22-24).
HookTellsOnce == seenFailed \/ ensureFailed \/ (hook.at = "block" => hook.fresh \cap told = {})

\* Whatever has settled among the jobs of this session can still be told by the
\* next stop, or has been told, unless a record of it could not be written or a
\* process died between its marking and its telling, or it was old when the
\* session started.  A job that settles before its dispatch has recorded it is
\* no exception (server.mjs:352-354).
Pending(j) ==
    \/ KeyOf(j) \in ChannelKeys(job, owned) \ Seen
    \/ KeyOf(j) \in hook.fresh \/ KeyOf(j) = busy.key
    \/ busy.at = "own" /\ busy.job = j
NothingForgotten ==
    \A j \in mine : Terminal(j) =>
        \/ Pending(j)
        \/ KeyOf(j) \in pushed \cup answered \cup told
        \/ KeyOf(j) \in lost \/ j \in unowned

=============================================================================
