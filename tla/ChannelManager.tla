--------------------------- MODULE ChannelManager ---------------------------
(* ChannelManager (src/channel/channel_manager) with the parts it keeps in  *)
(* step: the pipelines it owns, the resource table of ChannelOrchestrator,  *)
(* the persisted rows of ChannelStore and the registrations with the        *)
(* streaming services.  Its calls run on HTTP handler threads, on the       *)
(* recovery and monitor threads and, at boot, on the main thread; each      *)
(* takes channels_mutex_ for parts of its work only, so calls interleave at *)
(* the steps below.  The process may also be killed and started again.      *)
(* The statements of ChannelStore are taken to succeed.                     *)
EXTENDS Naturals, Sequences, FiniteSets, SequencesExt, FiniteSetsExt

CONSTANTS
    Callers,        \* threads that make calls once the process is up
    boot,           \* the main thread, which calls LoadChannels
    kMaxChannels,
    MaxId,          \* bound: channel ids handed out
    MaxEvents,      \* bound: calls and restarts in one run
    NoPipe

Threads == Callers \union {boot}
Ids == 1..MaxId
PipeIds == 1..(MaxId + Cardinality(Threads) + 1)

ASSUME ChannelManagerAssumption ==
    /\ IsFiniteSet(Callers) /\ boot \notin Callers
    /\ kMaxChannels \in Nat \ {0} /\ MaxId \in Nat \ {0}
    /\ MaxEvents \in Nat
    /\ NoPipe \notin PipeIds

VARIABLES
    channels_,          \* id -> [state, pipe]
    next_channel_id_,
    pipes,              \* pipeline objects: [state_, running_]
    resources,          \* keys of ChannelOrchestrator::channel_resources_
    rows,               \* ids that have a row in ChannelStore
    unrestored,         \* history: rows left from earlier runs
    registered,         \* channels known to the streaming services
    thread,             \* thread -> the call it is in: steps left and locals
    loading,            \* rows LoadChannels still has to restore
    aborted,            \* std::terminate or undefined behaviour was reached
    overlapped,         \* history: ids two calls worked on at the same time
    deleted,            \* history: ids DeleteChannel returned true for
    events              \* history: calls and restarts so far

vars == <<channels_, next_channel_id_, pipes, resources, rows, unrestored,
          registered, thread, loading, aborted, overlapped, deleted, events>>

States == {"kCreated", "kConfigured", "kRunning", "kStopping", "kStopped",
           "kError"}

FreshPipe == [state_ |-> "kCreated", running_ |-> FALSE]

Quiet == [todo |-> <<>>, id |-> 0, pipe |-> NoPipe]

Steps == {"loadAll", "loadNext", "beginStop", "beginStart", "drain", "joined",
          "unregister", "setStopped", "release", "deleteRow", "initialize",
          "launch", "opened", "detect", "register", "setRunning", "build",
          "install", "saveRow"}

TypeOK ==
    /\ DOMAIN channels_ \subseteq Ids
    /\ \A id \in DOMAIN channels_ :
          channels_[id] \in [state : States, pipe : PipeIds]
    /\ next_channel_id_ \in Nat \ {0}
    /\ pipes \in [PipeIds -> [state_ : States, running_ : BOOLEAN]]
    /\ resources \subseteq Ids
    /\ rows \subseteq Ids
    /\ unrestored \subseteq Ids
    /\ registered \subseteq Ids
    /\ thread \in [Threads -> [todo : Seq(Steps), id : Ids \union {0},
                               pipe : PipeIds \union {NoPipe}]]
    /\ loading \subseteq Ids
    /\ aborted \in BOOLEAN
    /\ overlapped \subseteq Ids
    /\ deleted \subseteq Ids
    /\ events \in 0..MaxEvents

-----------------------------------------------------------------------------
Exists(id) == id \in DOMAIN channels_

Reports(id, s) == Exists(id) /\ channels_[id].state = s

Put(f, k, v) == [x \in DOMAIN f \union {k} |-> IF x = k THEN v ELSE f[x]]
Drop(f, k) == [x \in DOMAIN f \ {k} |-> f[x]]

(* The steps a thread has left in its call; at the end its locals are gone. *)
At(t, s) == thread[t].todo # <<>> /\ Head(thread[t].todo) = s
Rest(t) == Tail(thread[t].todo)
Goto(t, todo) ==
    thread' = [thread EXCEPT ![t] = IF todo = <<>> THEN Quiet
                                    ELSE [@ EXCEPT !.todo = todo]]

(* The same when the callee that held the local pipeline copy returns.      *)
Leave(t, todo) ==
    thread' = [thread EXCEPT ![t] = IF todo = <<>> THEN Quiet
                                    ELSE [todo |-> todo, id |-> @.id,
                                          pipe |-> NoPipe]]

(* LoadChannels is at work on every row it has read and not yet restored.   *)
WorkingOn(t, id) ==
    /\ thread[t].todo # <<>>
    /\ thread[t].id = id \/ (t = boot /\ id \in loading)

NoteOverlap(t, id) ==
    overlapped' = IF \E u \in Threads \ {t} : WorkingOn(u, id)
                  THEN overlapped \union {id} ELSE overlapped

(* A pipeline is a shared_ptr: it lives while an entry or a local copy      *)
(* refers to it.  Its destructor stops it when the last reference goes.     *)
UsedPipes(chs, thr) ==
    {chs[id].pipe : id \in DOMAIN chs} \union {thr[t].pipe : t \in Threads}

ReleasePipes(new) ==
    pipes' = [p \in PipeIds |-> IF p \in UsedPipes(channels_', thread')
                                THEN new[p] ELSE FreshPipe]

NewPipe == Min(PipeIds \ UsedPipes(channels_, thread))

(* ChannelOrchestrator::BuildPipeline: refused when the table is full, even *)
(* for a channel that already has its slot.                                 *)
CanBuild == Cardinality(resources) < kMaxChannels

StartSteps == <<"initialize", "launch", "opened", "detect", "register",
                "setRunning">>

(* StartChannel returned early; LoadChannels goes on with the next row.     *)
AfterStart(t) ==
    IF Last(thread[t].todo) = "loadNext" THEN <<"loadNext">> ELSE <<>>

SetState(id, s) ==
    channels_' = IF Exists(id) THEN [channels_ EXCEPT ![id].state = s]
                               ELSE channels_

Init ==
    /\ channels_ = <<>>
    /\ next_channel_id_ = 1
    /\ pipes = [p \in PipeIds |-> FreshPipe]
    /\ resources = {}
    /\ rows = {}
    /\ unrestored = {}
    /\ registered = {}
    /\ thread = [t \in Threads |-> IF t = boot
                                   THEN [Quiet EXCEPT !.todo = <<"loadAll">>]
                                   ELSE Quiet]
    /\ loading = {}
    /\ aborted = FALSE
    /\ overlapped = {}
    /\ deleted = {}
    /\ events = 0

-----------------------------------------------------------------------------
(* Calls.  What a call does under its first channels_mutex_ is the step     *)
(* that begins it; calls that return at once have no other effect.          *)
Idle(t) == thread[t].todo = <<>> /\ t # boot

Call(t, id, pipe, todo) ==
    thread' = [thread EXCEPT ![t] = [todo |-> todo, id |-> id, pipe |-> pipe]]

(* The whole call holds channels_mutex_.  A build that fails costs the id.  *)
(* Save replaces a row the id may have from an earlier run, which           *)
(* LoadChannels has not restored yet or found no slot for.                  *)
CreateChannel ==
    LET id == next_channel_id_
    IN  /\ id =< MaxId
        /\ Cardinality(DOMAIN channels_) < kMaxChannels
        /\ next_channel_id_' = id + 1
        /\ \/ /\ CanBuild
              /\ channels_' = Put(channels_, id, [state |-> "kCreated",
                                               pipe |-> NewPipe])
              /\ resources' = resources \union {id}
              /\ rows' = rows \union {id}
              /\ unrestored' = unrestored \ {id}
           \/ /\ ~CanBuild
              /\ UNCHANGED <<channels_, resources, rows, unrestored>>
        /\ UNCHANGED <<pipes, registered, thread, loading, aborted,
                       overlapped, deleted>>

DeleteChannel(t, id) ==
    /\ Idle(t) /\ Exists(id)
    /\ channels_' = Drop(channels_, id)
    /\ Call(t, id, channels_[id].pipe,
            (IF Reports(id, "kRunning") THEN <<"drain", "joined">> ELSE <<>>)
                \o <<"unregister", "release", "deleteRow">>)
    /\ NoteOverlap(t, id)
    /\ UNCHANGED <<next_channel_id_, pipes, resources, rows, unrestored,
                   registered, loading, aborted, deleted>>

StartChannel(t, id) ==
    /\ Idle(t) /\ Exists(id) /\ ~Reports(id, "kRunning")
    /\ Call(t, id, channels_[id].pipe, StartSteps)
    /\ NoteOverlap(t, id)
    /\ UNCHANGED <<channels_, next_channel_id_, pipes, resources, rows,
                   unrestored, registered, loading, aborted, deleted>>

(* Mutant: the streaming services are not told.                             *)
StopStepsQuietly == <<"drain", "joined", "setStopped">>

StopSteps == <<"drain", "joined", "unregister", "setStopped">>

StopChannel(t, id) ==
    /\ Idle(t) /\ Reports(id, "kRunning")
    /\ SetState(id, "kStopping")
    /\ Call(t, id, channels_[id].pipe, StopSteps)
    /\ NoteOverlap(t, id)
    /\ UNCHANGED <<next_channel_id_, pipes, resources, rows, unrestored,
                   registered, loading, aborted, deleted>>

EditChannel(t, id) ==
    LET wasRunning == Reports(id, "kRunning")
    IN  /\ Idle(t) /\ Exists(id)
        /\ Call(t, id, channels_[id].pipe,
                (IF wasRunning THEN StopSteps ELSE <<>>)
                    \o <<"build", "install", "saveRow">>
                    \o (IF wasRunning THEN <<"beginStart">> ELSE <<>>))
        /\ NoteOverlap(t, id)
        /\ UNCHANGED <<channels_, next_channel_id_, pipes, resources, rows,
                       unrestored, registered, loading, aborted, deleted>>

(* RecoveryLoop found the channel in kError, or ChannelMonitor found it in  *)
(* kError or stalled.  Both decide on a snapshot and act on it later.       *)
Recover(t, id) ==
    /\ Idle(t) /\ (Reports(id, "kError") \/ Reports(id, "kRunning"))
    /\ Call(t, id, NoPipe, <<"beginStop", "beginStart">>)
    /\ NoteOverlap(t, id)
    /\ UNCHANGED <<channels_, next_channel_id_, pipes, resources, rows,
                   unrestored, registered, loading, aborted, deleted>>

-----------------------------------------------------------------------------
(* The steps of the calls.                                                  *)

(* StopChannel called by a recovery.                                        *)
BeginStop(t) ==
    LET id == thread[t].id
    IN  /\ At(t, "beginStop")
        /\ \/ /\ Reports(id, "kRunning")
              /\ SetState(id, "kStopping")
              /\ Call(t, id, channels_[id].pipe, StopSteps \o Rest(t))
           \/ /\ ~Reports(id, "kRunning")
              /\ Goto(t, Rest(t))
              /\ UNCHANGED channels_
        /\ UNCHANGED <<next_channel_id_, pipes, resources, rows, unrestored,
                       registered, loading, aborted, overlapped, deleted>>

(* StartChannel called by EditChannel, a recovery or LoadChannels.          *)
BeginStart(t) ==
    LET id == thread[t].id
    IN  /\ At(t, "beginStart")
        /\ \/ /\ Exists(id) /\ ~Reports(id, "kRunning")
              /\ Call(t, id, channels_[id].pipe, StartSteps \o Rest(t))
           \/ /\ ~(Exists(id) /\ ~Reports(id, "kRunning"))
              /\ Goto(t, Rest(t))
        /\ UNCHANGED channels_
        /\ ReleasePipes(pipes)
        /\ UNCHANGED <<next_channel_id_, resources, rows, unrestored,
                       registered, loading, aborted, overlapped, deleted>>

(* DrainAndStop: nothing to do unless running_; otherwise it ends with the  *)
(* joins.  Two threads joining the same workers is undefined.               *)
Drain(t) ==
    /\ At(t, "drain")
    /\ Goto(t, IF pipes[thread[t].pipe].running_ THEN Rest(t)
                                                 ELSE Tail(Rest(t)))
    /\ UNCHANGED <<channels_, next_channel_id_, pipes, resources, rows,
                   unrestored, registered, loading, aborted, overlapped,
                   deleted>>

Joined(t) ==
    LET p == thread[t].pipe
    IN  /\ At(t, "joined")
        /\ pipes' = [pipes EXCEPT ![p] = [state_ |-> "kStopped",
                                          running_ |-> FALSE]]
        /\ aborted' \in (IF \E u \in Threads \ {t} :
                               At(u, "joined") /\ thread[u].pipe = p
                         THEN BOOLEAN ELSE {FALSE})
        /\ Goto(t, Rest(t))
        /\ UNCHANGED <<channels_, next_channel_id_, resources, rows,
                       unrestored, registered, loading, overlapped, deleted>>

UnregisterFromStreamingServices(t) ==
    /\ At(t, "unregister")
    /\ registered' = registered \ {thread[t].id}
    /\ Goto(t, Rest(t))
    /\ UNCHANGED <<channels_, next_channel_id_, pipes, resources, rows,
                   unrestored, loading, aborted, overlapped, deleted>>

SetStopped(t) ==
    /\ At(t, "setStopped")
    /\ SetState(thread[t].id, "kStopped")
    /\ Leave(t, Rest(t))
    /\ ReleasePipes(pipes)
    /\ UNCHANGED <<next_channel_id_, resources, rows, unrestored, registered,
                   loading, aborted, overlapped, deleted>>

OnChannelRemoved(t) ==
    /\ At(t, "release")
    /\ resources' = resources \ {thread[t].id}
    /\ Goto(t, Rest(t))
    /\ UNCHANGED <<channels_, next_channel_id_, pipes, rows, unrestored,
                   registered, loading, aborted, overlapped, deleted>>

DeleteRow(t) ==
    /\ At(t, "deleteRow")
    /\ rows' = rows \ {thread[t].id}
    /\ deleted' = deleted \union {thread[t].id}
    /\ Leave(t, Rest(t))
    /\ UNCHANGED channels_
    /\ ReleasePipes(pipes)
    /\ UNCHANGED <<next_channel_id_, resources, unrestored, registered,
                   loading, aborted, overlapped>>

(* ChannelPipeline::Initialize, on whatever the pipeline is doing.          *)
InitializePipeline(t) ==
    LET p == thread[t].pipe
    IN  /\ At(t, "initialize")
        /\ \/ /\ pipes' = [pipes EXCEPT ![p].state_ = "kConfigured"]
              /\ Goto(t, Rest(t))
              /\ UNCHANGED channels_
           \/ /\ SetState(thread[t].id, "kError")
              /\ Leave(t, AfterStart(t))
              /\ ReleasePipes([pipes EXCEPT ![p].state_ = "kError"])
        /\ UNCHANGED <<next_channel_id_, resources, rows, unrestored,
                       registered, loading, aborted, overlapped, deleted>>

(* ChannelPipeline::Start.  Assigning over a running worker's std::thread   *)
(* terminates the process.                                                  *)
LaunchPipeline(t) ==
    LET p == thread[t].pipe
    IN  /\ At(t, "launch")
        /\ \/ /\ pipes[p].state_ \in {"kConfigured", "kStopped"}
              /\ pipes' = [pipes EXCEPT ![p].running_ = TRUE]
              /\ aborted' = pipes[p].running_
              /\ Goto(t, Rest(t))
              /\ UNCHANGED channels_
           \/ /\ pipes[p].state_ \notin {"kConfigured", "kStopped"}
              /\ SetState(thread[t].id, "kError")
              /\ Leave(t, AfterStart(t))
              /\ ReleasePipes(pipes)
              /\ UNCHANGED aborted
        /\ UNCHANGED <<next_channel_id_, resources, rows, unrestored,
                       registered, loading, overlapped, deleted>>

PipelineStarted(t) ==
    /\ At(t, "opened")
    /\ pipes' = [pipes EXCEPT ![thread[t].pipe].state_ = "kRunning"]
    /\ Goto(t, Rest(t))
    /\ UNCHANGED <<channels_, next_channel_id_, resources, rows, unrestored,
                   registered, loading, aborted, overlapped, deleted>>

(* With stream parameters from an open source the config is saved again.    *)
DetectStream(t) ==
    LET id == thread[t].id
    IN  /\ At(t, "detect")
        /\ \/ Exists(id) /\ rows' = rows \union {id}
           \/ UNCHANGED rows
        /\ Goto(t, Rest(t))
        /\ UNCHANGED <<channels_, next_channel_id_, pipes, resources,
                       unrestored, registered, loading, aborted, overlapped,
                       deleted>>

RegisterWithStreamingServices(t) ==
    /\ At(t, "register")
    /\ registered' = registered \union {thread[t].id}
    /\ Goto(t, Rest(t))
    /\ UNCHANGED <<channels_, next_channel_id_, pipes, resources, rows,
                   unrestored, loading, aborted, overlapped, deleted>>

SetRunning(t) ==
    /\ At(t, "setRunning")
    /\ SetState(thread[t].id, "kRunning")
    /\ Leave(t, Rest(t))
    /\ ReleasePipes(pipes)
    /\ UNCHANGED <<next_channel_id_, resources, rows, unrestored, registered,
                   loading, aborted, overlapped, deleted>>

(* Mutant: a failed rebuild gives the channel's slot back.                  *)
BuildFailureFreesSlot(t) ==
    LET id == thread[t].id
    IN  /\ At(t, "build")
        /\ \/ /\ CanBuild
              /\ resources' = resources \union {id}
              /\ Call(t, id, NewPipe, Rest(t))
              /\ UNCHANGED channels_
           \/ /\ ~CanBuild
              /\ SetState(id, "kError")
              /\ Leave(t, <<>>)
              /\ resources' = resources \ {id}
        /\ ReleasePipes(pipes)
        /\ UNCHANGED <<next_channel_id_, rows, unrestored, registered,
                       loading, aborted, overlapped, deleted>>

BuildPipeline(t) ==
    LET id == thread[t].id
    IN  /\ At(t, "build")
        /\ \/ /\ CanBuild
              /\ resources' = resources \union {id}
              /\ Call(t, id, NewPipe, Rest(t))
              /\ UNCHANGED channels_
           \/ /\ ~CanBuild
              /\ SetState(id, "kError")
              /\ Leave(t, <<>>)
              /\ UNCHANGED resources
        /\ ReleasePipes(pipes)
        /\ UNCHANGED <<next_channel_id_, rows, unrestored, registered,
                       loading, aborted, overlapped, deleted>>

InstallPipeline(t) ==
    LET id == thread[t].id
    IN  /\ At(t, "install")
        /\ \/ /\ Exists(id)
              /\ channels_' = [channels_ EXCEPT ![id] =
                      [state |-> "kConfigured", pipe |-> thread[t].pipe]]
              /\ Leave(t, Rest(t))
           \/ /\ ~Exists(id)
              /\ Leave(t, <<>>)
              /\ UNCHANGED channels_
        /\ ReleasePipes(pipes)
        /\ UNCHANGED <<next_channel_id_, resources, rows, unrestored,
                       registered, loading, aborted, overlapped, deleted>>

SaveRow(t) ==
    /\ At(t, "saveRow")
    /\ rows' = rows \union {thread[t].id}
    /\ Goto(t, Rest(t))
    /\ UNCHANGED <<channels_, next_channel_id_, pipes, resources, unrestored,
                   registered, loading, aborted, overlapped, deleted>>

(* LoadChannels reads all rows, then restores them one by one, oldest id    *)
(* first; an id that exists by then and one that finds no slot is skipped.  *)
LoadAll(t) ==
    /\ At(t, "loadAll")
    /\ loading' = rows
    /\ Goto(t, <<"loadNext">>)
    /\ overlapped' = overlapped \union
                        {id \in rows : \E u \in Callers : WorkingOn(u, id)}
    /\ UNCHANGED <<channels_, next_channel_id_, pipes, resources, rows,
                   unrestored, registered, aborted, deleted>>

(* Mutant: restored ids do not move the id counter.                         *)
LoadNextKeepsCounter(t) ==
    LET id == Min(loading)
    IN  /\ At(t, "loadNext") /\ loading # {}
        /\ loading' = loading \ {id}
        /\ ~Exists(id) /\ CanBuild
        /\ channels_' = Put(channels_, id, [state |-> "kCreated",
                                           pipe |-> NewPipe])
        /\ resources' = resources \union {id}
        /\ Call(t, id, NoPipe, <<"beginStart", "loadNext">>)
        /\ NoteOverlap(t, id)
        /\ unrestored' = unrestored \ {id}
        /\ UNCHANGED <<next_channel_id_, pipes, rows, registered, aborted,
                       deleted>>

LoadNext(t) ==
    LET id == Min(loading)
    IN  /\ At(t, "loadNext") /\ loading # {}
        /\ loading' = loading \ {id}
        /\ \/ /\ Exists(id) \/ ~CanBuild
              /\ UNCHANGED <<channels_, next_channel_id_, resources, unrestored,
                             thread, overlapped>>
           \/ /\ ~Exists(id) /\ CanBuild
              /\ channels_' = Put(channels_, id, [state |-> "kCreated",
                                               pipe |-> NewPipe])
              /\ next_channel_id_' = Max({next_channel_id_, id + 1})
              /\ resources' = resources \union {id}
              /\ unrestored' = unrestored \ {id}
              /\ Call(t, id, NoPipe, <<"beginStart", "loadNext">>)
              /\ NoteOverlap(t, id)
        /\ UNCHANGED <<pipes, rows, registered, aborted, deleted>>

LoadDone(t) ==
    /\ At(t, "loadNext") /\ loading = {}
    /\ Goto(t, <<>>)
    /\ UNCHANGED <<channels_, next_channel_id_, pipes, resources, rows,
                   unrestored, registered, loading, aborted, overlapped,
                   deleted>>

(* The process dies at any moment and is started again: only rows survive.  *)
Restart ==
    /\ channels_' = <<>>
    /\ next_channel_id_' = 1
    /\ pipes' = [p \in PipeIds |-> FreshPipe]
    /\ resources' = {}
    /\ registered' = {}
    /\ thread' = [t \in Threads |-> IF t = boot
                                    THEN [Quiet EXCEPT !.todo = <<"loadAll">>]
                                    ELSE Quiet]
    /\ loading' = {}
    /\ aborted' = FALSE
    /\ overlapped' = {}
    /\ deleted' = {}
    /\ unrestored' = rows
    /\ UNCHANGED rows

-----------------------------------------------------------------------------
Step(t) ==
    \/ BeginStop(t) \/ BeginStart(t) \/ Drain(t) \/ Joined(t)
    \/ UnregisterFromStreamingServices(t) \/ SetStopped(t)
    \/ OnChannelRemoved(t) \/ DeleteRow(t) \/ InitializePipeline(t)
    \/ LaunchPipeline(t) \/ PipelineStarted(t) \/ DetectStream(t)
    \/ RegisterWithStreamingServices(t) \/ SetRunning(t) \/ BuildPipeline(t)
    \/ InstallPipeline(t) \/ SaveRow(t) \/ LoadAll(t) \/ LoadNext(t)
    \/ LoadDone(t)

ApiCall ==
    \/ CreateChannel
    \/ \E t \in Callers, id \in Ids :
          \/ DeleteChannel(t, id) \/ StartChannel(t, id)
          \/ StopChannel(t, id) \/ EditChannel(t, id) \/ Recover(t, id)

Next ==
    \/ /\ events < MaxEvents /\ events' = events + 1
       /\ (~aborted /\ ApiCall) \/ Restart
    \/ /\ ~aborted /\ \E t \in Threads : Step(t)
       /\ UNCHANGED events

Spec == Init /\ [][Next]_vars

-----------------------------------------------------------------------------
(* "Manages all video channels (up to 64)": calls for different channels    *)
(* racing each other, a restore racing them and failed builds never take    *)
(* the manager past kMaxChannels, because each channel holds one of the     *)
(* orchestrator's slots for all its life.                                   *)
WithinLimit ==
    /\ DOMAIN channels_ \ overlapped \subseteq resources
    /\ Cardinality(DOMAIN channels_ \ overlapped) =< kMaxChannels

(* A new channel never gets the id of a channel that exists, and its Save   *)
(* replaces no row written or restored since the process came up, whatever  *)
(* calls are still at work on deleted channels.  The rows of an earlier run *)
(* that LoadChannels has not restored are another matter: MaxChannelId is   *)
(* never asked, so their ids are handed out again.                          *)
IdsAreFresh ==
    \A id \in DOMAIN channels_ \union (rows \ unrestored) :
        id < next_channel_id_

(* With calls for a channel that do not overlap, what the manager reports   *)
(* is what is there when the last call has returned: kRunning exactly when  *)
(* its pipeline runs and its stream is registered, a row for the next boot  *)
(* as long as it exists, and nothing at all once it is deleted.  Nor can    *)
(* anything but an overlap start a pipeline twice or stop it twice at once, *)
(* which terminates the process.                                            *)
ConsistentWithoutOverlap ==
    /\ aborted => overlapped # {}
    /\ \A id \in Ids \ overlapped :
        (~aborted /\ \A t \in Threads : ~WorkingOn(t, id)) =>
            /\ Exists(id) =>
                  /\ id \in rows
                  /\ Reports(id, "kRunning") <=>
                         pipes[channels_[id].pipe].running_
                  /\ Reports(id, "kRunning") <=> id \in registered
                  /\ ~Reports(id, "kStopping")
            /\ id \in deleted =>
                  id \notin registered \union resources \union rows

(* "Delete a channel. Stops it first if running." (channel_manager.h): when *)
(* DeleteChannel has returned and no call for the channel is left, nothing  *)
(* of it is left in the streaming services, the resource table or the store.*)
DeletedIsGone ==
    \A id \in deleted :
        (\A t \in Threads : ~WorkingOn(t, id)) =>
            id \notin registered \union resources \union rows
=============================================================================
