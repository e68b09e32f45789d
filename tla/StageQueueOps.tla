--------------------------- MODULE StageQueueOps ---------------------------
(* The StageQueue of src/core/pipeline/stage_queue.cc as operators on one   *)
(* queue value.  Every method of the class takes its mutex for the whole    *)
(* call, so a call is one atomic step of whatever specification uses it.    *)
(*                                                                          *)
(* A frame keeps what the queue looks at: the channel it belongs to and     *)
(* whether it is a keyframe.  "id" numbers the frames of a run in the order *)
(* their producer made them; no code reads it.                              *)
EXTENDS Naturals, Sequences, SequencesExt

Queues(F) ==
    [frames : Seq(F), capacity : Nat, shutdown : BOOLEAN, dropped : Nat]

NewQueue(cap) ==
    [frames |-> <<>>, capacity |-> cap, shutdown |-> FALSE, dropped |-> 0]

Empty(q) == q.frames = <<>>

(* Positions of the frames that backpressure may erase: never a keyframe.   *)
DeltaFrames(q) == {k \in 1..Len(q.frames) : ~q.frames[k].key}

SameChannelDeltas(q, f) == {k \in DeltaFrames(q) : q.frames[k].ch = f.ch}

(* Mutant: the scans forget to spare keyframes.                             *)
EvictionCandidatesAny(q, f) ==
    LET own == {k \in 1..Len(q.frames) : q.frames[k].ch = f.ch}
    IN  IF own # {} THEN own ELSE 1..Len(q.frames)

(* The two scans of Push: the incoming frame's channel first, and the whole *)
(* queue only if that finds nothing.                                        *)
EvictionCandidates(q, f) ==
    IF SameChannelDeltas(q, f) # {} THEN SameChannelDeltas(q, f)
                                    ELSE DeltaFrames(q)

Oldest(S) == {k \in S : \A j \in S : k =< j}

(* Mutant: the frame goes to the front of the deque.                        *)
PushFront(q, f) == [q EXCEPT !.frames = <<f>> \o @]

PushBack(q, f) == [q EXCEPT !.frames = Append(@, f)]

CountDrop(q) == [q EXCEPT !.dropped = @ + 1]

(* Mutant: the eviction is not counted.                                     *)
EraseUncounted(q, k) == [q EXCEPT !.frames = RemoveAt(@, k)]

(* Mutant: the victim is counted and stays.                                 *)
EraseNothing(q, k) == [q EXCEPT !.dropped = @ + 1]

EraseAt(q, k) == CountDrop([q EXCEPT !.frames = RemoveAt(@, k)])

(* What a call Push(f) on q may leave behind, with its result.  It is a set *)
(* of one outcome: the victim is written as a member of Oldest, not chosen. *)
Push(q, f) ==
    IF q.shutdown
    THEN {[queue |-> q, ok |-> FALSE]}
    ELSE IF Len(q.frames) < q.capacity
    THEN {[queue |-> PushBack(q, f), ok |-> TRUE]}
    ELSE IF EvictionCandidates(q, f) = {}
    THEN {[queue |-> CountDrop(q), ok |-> FALSE]}
    ELSE {[queue |-> PushBack(EraseAt(q, k), f), ok |-> TRUE] :
             k \in Oldest(EvictionCandidates(q, f))}

(* Pop and PopBatch on a queue that has frames; on an empty one both give   *)
(* nothing back (timeout or shutdown) and change nothing.                   *)
PopCount(q, n) == IF Len(q.frames) < n THEN Len(q.frames) ELSE n

Popped(q, n) == SubSeq(q.frames, 1, PopCount(q, n))

AfterPop(q, n) ==
    [q EXCEPT !.frames = SubSeq(@, PopCount(q, n) + 1, Len(@))]

SetCapacity(q, cap) == [q EXCEPT !.capacity = cap]

Shutdown(q) == [q EXCEPT !.shutdown = TRUE]
=============================================================================
