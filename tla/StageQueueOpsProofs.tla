------------------------ MODULE StageQueueOpsProofs ------------------------
(* What the operations of a StageQueue return and preserve, whatever the    *)
(* frames, the capacity and the contents of the queue.                      *)
EXTENDS StageQueueOps, Integers, FiniteSets, SequenceTheorems,
        FiniteSetTheorems, TLAPS

(* Erasing position k closes the gap and keeps the order of the others.     *)
LEMMA RemoveAtProperties ==
    ASSUME NEW S, NEW s \in Seq(S), NEW k \in 1..Len(s)
    PROVE  /\ RemoveAt(s, k) \in Seq(S)
           /\ Len(RemoveAt(s, k)) = Len(s) - 1
           /\ \A j \in 1..(Len(s) - 1) :
                 RemoveAt(s, k)[j] = IF j < k THEN s[j] ELSE s[j + 1]
<1> DEFINE a == SubSeq(s, 1, k - 1)
           b == SubSeq(s, k + 1, Len(s))
<1>1. Len(s) \in Nat /\ k \in Nat /\ 1 =< k /\ k =< Len(s)
  OBVIOUS
<1>2. a \in Seq(S) /\ b \in Seq(S)
  OBVIOUS
<1>3. Len(a) = k - 1 /\ \A j \in 1..(k - 1) : a[j] = s[j]
  OBVIOUS
<1>4. Len(b) = Len(s) - k /\ \A j \in 1..(Len(s) - k) : b[j] = s[k + j]
  OBVIOUS
<1>5. RemoveAt(s, k) = a \o b
  BY DEF RemoveAt
<1> HIDE DEF a, b
<1>6. /\ a \o b \in Seq(S)
      /\ Len(a \o b) = Len(a) + Len(b)
      /\ \A j \in 1..(Len(a) + Len(b)) :
            (a \o b)[j] = IF j =< Len(a) THEN a[j] ELSE b[j - Len(a)]
  BY <1>2
<1>7. Len(a) + Len(b) = Len(s) - 1
  BY <1>1, <1>3, <1>4
<1>8. ASSUME NEW j \in 1..(Len(s) - 1)
      PROVE  (a \o b)[j] = IF j < k THEN s[j] ELSE s[j + 1]
  <2>1. CASE j < k
    BY <2>1, <1>1, <1>3, <1>6, <1>7
  <2>2. CASE j >= k
    <3>1. j - (k - 1) \in 1..(Len(s) - k) /\ k + (j - (k - 1)) = j + 1
      BY <2>2, <1>1
    <3>2. (a \o b)[j] = b[j - (k - 1)]
      BY <2>2, <1>1, <1>3, <1>6, <1>7
    <3> QED BY <3>1, <3>2, <1>4, <2>2, <1>1
  <2>3. j < k \/ j >= k
    BY <1>1
  <2> QED BY <2>1, <2>2, <2>3
<1> QED BY <1>5, <1>6, <1>7, <1>8

-----------------------------------------------------------------------------
(* push_back and ++dropped_count_ on a well-formed queue.                   *)
LEMMA PushBackOutcome ==
    ASSUME NEW F, NEW w \in Queues(F), NEW f \in F
    PROVE  /\ PushBack(w, f) \in Queues(F)
           /\ PushBack(w, f).capacity = w.capacity
           /\ PushBack(w, f).frames = Append(w.frames, f)
           /\ PushBack(w, f).dropped = w.dropped
BY DEF PushBack, Queues

(* Counting a dropped frame leaves the frames alone.                        *)
LEMMA CountDropOutcome ==
    ASSUME NEW F, NEW w \in Queues(F)
    PROVE  /\ CountDrop(w) \in Queues(F)
           /\ CountDrop(w).capacity = w.capacity
           /\ CountDrop(w).frames = w.frames
           /\ CountDrop(w).dropped = w.dropped + 1
BY DEF CountDrop, Queues

(* Erasing a frame leaves the capacity alone.                               *)
LEMMA EraseAtOutcome ==
    ASSUME NEW F, NEW w \in Queues(F), NEW k \in 1..Len(w.frames)
    PROVE  /\ EraseAt(w, k) \in Queues(F)
           /\ EraseAt(w, k).capacity = w.capacity
           /\ EraseAt(w, k).frames = RemoveAt(w.frames, k)
           /\ EraseAt(w, k).dropped = w.dropped + 1
<1> DEFINE e == [w EXCEPT !.frames = RemoveAt(w.frames, k)]
<1>1. RemoveAt(w.frames, k) \in Seq(F)
  BY RemoveAtProperties DEF Queues
<1>2. e \in Queues(F) /\ e.capacity = w.capacity
        /\ e.frames = RemoveAt(w.frames, k) /\ e.dropped = w.dropped
  BY <1>1 DEF Queues
<1>3. EraseAt(w, k) = CountDrop(e)
  BY DEF EraseAt
<1> HIDE DEF e
<1> QED BY <1>2, <1>3, CountDropOutcome

(* Push refuses the frame, appends it to a queue that has room, or appends  *)
(* it after erasing one delta frame of a queue that is full.                *)
LEMMA PushOutcome ==
    ASSUME NEW F, NEW w \in Queues(F), NEW f \in F, NEW r \in Push(w, f)
    PROVE  /\ r.queue \in Queues(F)
           /\ r.queue.capacity = w.capacity
           /\ \/ r.queue.frames = w.frames
              \/ /\ Len(w.frames) < w.capacity
                 /\ r.queue.frames = Append(w.frames, f)
              \/ \E k \in 1..Len(w.frames) :
                    /\ ~w.frames[k].key
                    /\ r.queue.frames = Append(RemoveAt(w.frames, k), f)
<1>1. CASE w.shutdown
  <2>1. r = [queue |-> w, ok |-> FALSE]
    BY <1>1 DEF Push
  <2> QED BY <2>1
<1>2. CASE ~w.shutdown /\ Len(w.frames) < w.capacity
  <2>1. r = [queue |-> PushBack(w, f), ok |-> TRUE]
    BY <1>2 DEF Push
  <2> QED BY <1>2, <2>1, PushBackOutcome
<1>3. CASE ~w.shutdown /\ ~(Len(w.frames) < w.capacity)
             /\ EvictionCandidates(w, f) = {}
  <2>1. r = [queue |-> CountDrop(w), ok |-> FALSE]
    BY <1>3 DEF Push
  <2> QED BY <2>1, CountDropOutcome
<1>4. CASE ~w.shutdown /\ ~(Len(w.frames) < w.capacity)
             /\ EvictionCandidates(w, f) # {}
  <2>1. PICK k \in Oldest(EvictionCandidates(w, f)) :
           r = [queue |-> PushBack(EraseAt(w, k), f), ok |-> TRUE]
    BY <1>4 DEF Push
  <2>2. k \in 1..Len(w.frames) /\ ~w.frames[k].key
    BY DEF Oldest, EvictionCandidates, SameChannelDeltas, DeltaFrames
  <2> DEFINE e == EraseAt(w, k)
  <2>3. e \in Queues(F) /\ e.capacity = w.capacity
          /\ e.frames = RemoveAt(w.frames, k)
    BY <2>2, EraseAtOutcome
  <2>4. r.queue = PushBack(e, f)
    BY <2>1
  <2> HIDE DEF e
  <2>5. PushBack(e, f) \in Queues(F) /\ PushBack(e, f).capacity = e.capacity
          /\ PushBack(e, f).frames = Append(e.frames, f)
    BY <2>3, PushBackOutcome
  <2> QED BY <2>2, <2>3, <2>4, <2>5
<1> QED BY <1>1, <1>2, <1>3, <1>4

(* dropped_count_ counts a frame that is evicted or finds no room, and no   *)
(* frame that is refused because the queue was shut down.                   *)
LEMMA PushCounts ==
    ASSUME NEW F, NEW w \in Queues(F), NEW f \in F, NEW r \in Push(w, f)
    PROVE  \/ w.shutdown /\ r.queue = w
           \/ /\ ~w.shutdown /\ r.queue.dropped = w.dropped
              /\ r.queue.frames = Append(w.frames, f)
           \/ /\ ~w.shutdown /\ r.queue.dropped = w.dropped + 1
              /\ \/ r.queue.frames = w.frames
                 \/ \E k \in 1..Len(w.frames) :
                       r.queue.frames = Append(RemoveAt(w.frames, k), f)
<1>1. CASE w.shutdown
  <2>1. r = [queue |-> w, ok |-> FALSE]
    BY <1>1 DEF Push
  <2> QED BY <1>1, <2>1
<1>2. CASE ~w.shutdown /\ Len(w.frames) < w.capacity
  <2>1. r = [queue |-> PushBack(w, f), ok |-> TRUE]
    BY <1>2 DEF Push
  <2> QED BY <1>2, <2>1, PushBackOutcome
<1>3. CASE ~w.shutdown /\ ~(Len(w.frames) < w.capacity)
             /\ EvictionCandidates(w, f) = {}
  <2>1. r = [queue |-> CountDrop(w), ok |-> FALSE]
    BY <1>3 DEF Push
  <2> QED BY <1>3, <2>1, CountDropOutcome
<1>4. CASE ~w.shutdown /\ ~(Len(w.frames) < w.capacity)
             /\ EvictionCandidates(w, f) # {}
  <2>1. PICK k \in Oldest(EvictionCandidates(w, f)) :
           r = [queue |-> PushBack(EraseAt(w, k), f), ok |-> TRUE]
    BY <1>4 DEF Push
  <2>2. k \in 1..Len(w.frames)
    BY DEF Oldest, EvictionCandidates, SameChannelDeltas, DeltaFrames
  <2> DEFINE e == EraseAt(w, k)
  <2>3. e \in Queues(F) /\ e.frames = RemoveAt(w.frames, k)
          /\ e.dropped = w.dropped + 1
    BY <2>2, EraseAtOutcome
  <2>4. r.queue = PushBack(e, f)
    BY <2>1
  <2> HIDE DEF e
  <2>5. PushBack(e, f).frames = Append(e.frames, f)
          /\ PushBack(e, f).dropped = e.dropped
    BY <2>3, PushBackOutcome
  <2> QED BY <1>4, <2>2, <2>3, <2>4, <2>5
<1> QED BY <1>1, <1>2, <1>3, <1>4

(* PopFrames moves a prefix of the queue, never empty, to its caller.       *)
LEMMA PopOutcome ==
    ASSUME NEW F, NEW w \in Queues(F), ~Empty(w), NEW n \in Nat \ {0}
    PROVE  LET m == PopCount(w, n) IN
           /\ m \in 1..Len(w.frames)
           /\ Popped(w, n) \in Seq(F) /\ Len(Popped(w, n)) = m
           /\ \A j \in 1..m : Popped(w, n)[j] = w.frames[j]
           /\ AfterPop(w, n) \in Queues(F)
           /\ AfterPop(w, n).capacity = w.capacity
           /\ AfterPop(w, n).dropped = w.dropped
           /\ Len(AfterPop(w, n).frames) = Len(w.frames) - m
           /\ \A j \in 1..(Len(w.frames) - m) :
                 AfterPop(w, n).frames[j] = w.frames[m + j]
<1> DEFINE m == PopCount(w, n)
<1>1. w.frames \in Seq(F) /\ w.frames # <<>>
  BY DEF Empty, Queues
<1>2. m \in 1..Len(w.frames)
  BY <1>1 DEF PopCount
<1> HIDE DEF m
<1>3. /\ SubSeq(w.frames, 1, m) \in Seq(F)
      /\ Len(SubSeq(w.frames, 1, m)) = m
      /\ \A j \in 1..m : SubSeq(w.frames, 1, m)[j] = w.frames[j]
  BY <1>1, <1>2
<1>4. /\ SubSeq(w.frames, m + 1, Len(w.frames)) \in Seq(F)
      /\ Len(SubSeq(w.frames, m + 1, Len(w.frames))) = Len(w.frames) - m
      /\ \A j \in 1..(Len(w.frames) - m) :
            SubSeq(w.frames, m + 1, Len(w.frames))[j] = w.frames[m + j]
  BY <1>1, <1>2
<1>5. AfterPop(w, n) = [w EXCEPT !.frames = SubSeq(w.frames, m + 1, Len(w.frames))]
  BY DEF AfterPop, m, Queues
<1>6. AfterPop(w, n) \in Queues(F) /\ AfterPop(w, n).capacity = w.capacity
        /\ AfterPop(w, n).dropped = w.dropped
        /\ AfterPop(w, n).frames = SubSeq(w.frames, m + 1, Len(w.frames))
  BY <1>4, <1>5 DEF Queues
<1>7. Popped(w, n) = SubSeq(w.frames, 1, m)
  BY DEF Popped, m
<1> QED BY <1>2, <1>3, <1>4, <1>6, <1>7 DEF m
=============================================================================
