----------------------------- MODULE StageQueue -----------------------------
(* One StageQueue (src/core/pipeline/stage_queue.cc) shared by producers of *)
(* several channels and one consuming worker.  The calls are atomic (each   *)
(* holds mutex_); everything else interleaves.                              *)
EXTENDS StageQueueOps, FiniteSets, FiniteSetsExt

CONSTANTS
    Channels,       \* channel ids whose frames share the queue
    Capacities,     \* values the queue may be constructed with or resized to
    MaxFrames,      \* bound: frames offered in one run
    MaxBatch        \* largest max_batch a PopBatch is called with

ASSUME StageQueueAssumption ==
    /\ Capacities \subseteq Nat /\ Capacities # {}
    /\ MaxFrames \in Nat
    /\ MaxBatch \in Nat \ {0}

VARIABLES
    q,              \* queue_, capacity_, shutdown_, dropped_count_
    nextId,         \* the number the next offered frame gets
    consumed,       \* history: ids of the frames popped, in that order
    refused         \* history: ids of the frames offered after shutdown

vars == <<q, nextId, consumed, refused>>

Frames == [id : Nat, ch : Channels, key : BOOLEAN]

TypeOK ==
    /\ q \in Queues(Frames)
    /\ nextId \in Nat \ {0}
    /\ consumed \in Seq(Nat)
    /\ refused \in SUBSET Nat

IdSeq(s) == [k \in 1..Len(s) |-> s[k].id]

Ids(s) == {s[k].id : k \in 1..Len(s)}

Init ==
    /\ \E cap \in Capacities : q = NewQueue(cap)
    /\ nextId = 1
    /\ consumed = <<>>
    /\ refused = {}

(* A producer calls Push.  A refused frame is gone: no caller retries.      *)
PushFrame(c, isKey) ==
    LET f == [id |-> nextId, ch |-> c, key |-> isKey]
    IN  /\ nextId =< MaxFrames
        /\ \E r \in Push(q, f) : q' = r.queue
        /\ nextId' = nextId + 1
        /\ refused' = IF q.shutdown THEN refused \union {nextId} ELSE refused
        /\ UNCHANGED consumed

(* Mutant: a queue that was shut down gives nothing back any more.          *)
PopUntilShutdown(n) ==
    /\ ~Empty(q) /\ ~q.shutdown
    /\ consumed' = consumed \o IdSeq(Popped(q, n))
    /\ q' = AfterPop(q, n)
    /\ UNCHANGED <<nextId, refused>>

(* Pop (n = 1) or PopBatch(n) returns frames.                               *)
PopFrames(n) ==
    /\ ~Empty(q)
    /\ consumed' = consumed \o IdSeq(Popped(q, n))
    /\ q' = AfterPop(q, n)
    /\ UNCHANGED <<nextId, refused>>

ResizeQueue(cap) ==
    /\ q' = SetCapacity(q, cap)
    /\ UNCHANGED <<nextId, consumed, refused>>

ShutdownQueue ==
    /\ q' = Shutdown(q)
    /\ UNCHANGED <<nextId, consumed, refused>>

Consume == \E n \in 1..MaxBatch : PopFrames(n)

Next ==
    \/ \E c \in Channels, isKey \in BOOLEAN : PushFrame(c, isKey)
    \/ Consume
    \/ \E cap \in Capacities : ResizeQueue(cap)
    \/ ShutdownQueue

(* The stage worker polls its queue as long as the pipeline runs.           *)
Spec == Init /\ [][Next]_vars /\ WF_vars(Consume)

-----------------------------------------------------------------------------
Held == Ids(q.frames) \union Range(consumed)

(* Frames leave in the order they were offered, whatever was evicted        *)
(* between them, and none twice: what was popped followed by what is queued *)
(* is strictly increasing (queue_ is FIFO under erase and push_back).       *)
Fifo ==
    LET s == consumed \o IdSeq(q.frames)
    IN  \A j, k \in 1..Len(s) : j < k => s[j] < s[k]

(* dropped_count_ is exact: of the frames offered, those neither queued nor *)
(* consumed are the ones it counted and the ones refused after shutdown.    *)
DropsCounted ==
    q.dropped + Cardinality(refused) =
        Cardinality((1..(nextId - 1)) \ Held)

(* Push never takes the queue past the largest capacity it was ever given,  *)
(* even when SetCapacity lowered the limit under the frames already queued. *)
NeverOverMaxCapacity ==
    \E cap \in Capacities : Len(q.frames) =< cap

KeyframesStay ==
    \A k \in 1..Len(q.frames) :
        q.frames[k].key =>
            q.frames[k].id \in Ids(q'.frames) \union Range(consumed')

(* A keyframe that Push accepted leaves the queue only by being popped:     *)
(* the eviction scans of Push skip is_keyframe.                             *)
KeyframesKept == [][KeyframesStay]_vars

(* Shutdown wakes the consumer and lets it finish: the frames queued at     *)
(* that moment are all popped, and none is accepted afterwards.             *)
ShutdownDrains == q.shutdown ~> [](q.frames = <<>>)
=============================================================================
