-------------------------- MODULE StageQueueProofs --------------------------
(* StageQueue's safety for every set of channels, every set of capacities   *)
(* and every number of frames and of calls.                                 *)
EXTENDS StageQueue, StageQueueOpsProofs, FiniteSetTheorems

(* What makes Fifo inductive: the parts it has after splitting it between   *)
(* popped and queued frames, and ids below the one to be given out next.    *)
Ordered ==
    /\ \A j, k \in 1..Len(consumed) : j < k => consumed[j] < consumed[k]
    /\ \A j, k \in 1..Len(q.frames) :
          j < k => q.frames[j].id < q.frames[k].id
    /\ \A j \in 1..Len(consumed), k \in 1..Len(q.frames) :
          consumed[j] < q.frames[k].id
    /\ \A j \in 1..Len(consumed) : consumed[j] < nextId
    /\ \A k \in 1..Len(q.frames) : q.frames[k].id < nextId

(* Facts about the two steps that move frames, in terms of positions only.  *)
LEMMA PushStep ==
    ASSUME TypeOK, NEW c \in Channels, NEW isKey \in BOOLEAN,
           PushFrame(c, isKey)
    PROVE  /\ q' \in Queues(Frames) /\ q'.capacity = q.capacity
           /\ nextId' = nextId + 1 /\ consumed' = consumed
           /\ \/ q'.frames = q.frames
              \/ /\ Len(q.frames) < q.capacity
                 /\ \E f \in Frames : /\ f.id = nextId
                                      /\ q'.frames = Append(q.frames, f)
              \/ \E f \in Frames, k \in 1..Len(q.frames) :
                    /\ f.id = nextId /\ ~q.frames[k].key
                    /\ q'.frames = Append(RemoveAt(q.frames, k), f)
<1> DEFINE f == [id |-> nextId, ch |-> c, key |-> isKey]
<1>1. f \in Frames /\ f.id = nextId
  BY DEF TypeOK, Frames
<1>2. PICK r \in Push(q, f) : q' = r.queue
  BY DEF PushFrame
<1>3. nextId' = nextId + 1 /\ consumed' = consumed
  BY DEF PushFrame
<1>4. q \in Queues(Frames)
  BY DEF TypeOK
<1> HIDE DEF f
<1>5. /\ r.queue \in Queues(Frames)
      /\ r.queue.capacity = q.capacity
      /\ \/ r.queue.frames = q.frames
         \/ /\ Len(q.frames) < q.capacity
            /\ r.queue.frames = Append(q.frames, f)
         \/ \E k \in 1..Len(q.frames) :
               /\ ~q.frames[k].key
               /\ r.queue.frames = Append(RemoveAt(q.frames, k), f)
  BY <1>1, <1>4, PushOutcome
<1> QED BY <1>1, <1>2, <1>3, <1>5

(* PopFrames hands over the frames at the front, in their order.            *)
LEMMA PopStep ==
    ASSUME TypeOK, NEW n \in 1..MaxBatch, PopFrames(n)
    PROVE  /\ q' \in Queues(Frames) /\ q'.capacity = q.capacity
           /\ nextId' = nextId
           /\ consumed' \in Seq(Nat)
           /\ \E m \in 1..Len(q.frames) :
                 /\ Len(consumed') = Len(consumed) + m
                 /\ \A j \in 1..Len(consumed) : consumed'[j] = consumed[j]
                 /\ \A j \in 1..m :
                       consumed'[Len(consumed) + j] = q.frames[j].id
                 /\ Len(q'.frames) = Len(q.frames) - m
                 /\ \A j \in 1..(Len(q.frames) - m) :
                       q'.frames[j] = q.frames[m + j]
<1> DEFINE m == PopCount(q, n)
           p == IdSeq(Popped(q, n))
<1>1. q \in Queues(Frames) /\ ~Empty(q) /\ n \in Nat \ {0}
  BY StageQueueAssumption DEF TypeOK, PopFrames
<1>2. /\ m \in 1..Len(q.frames)
      /\ Popped(q, n) \in Seq(Frames) /\ Len(Popped(q, n)) = m
      /\ \A j \in 1..m : Popped(q, n)[j] = q.frames[j]
      /\ AfterPop(q, n) \in Queues(Frames)
      /\ AfterPop(q, n).capacity = q.capacity
      /\ Len(AfterPop(q, n).frames) = Len(q.frames) - m
      /\ \A j \in 1..(Len(q.frames) - m) :
            AfterPop(q, n).frames[j] = q.frames[m + j]
  BY <1>1, PopOutcome
<1>3. q' = AfterPop(q, n) /\ nextId' = nextId /\ consumed' = consumed \o p
  BY DEF PopFrames
<1>4. p \in Seq(Nat) /\ Len(p) = m /\ \A j \in 1..m : p[j] = Popped(q, n)[j].id
  <2>1. m \in Nat
    BY <1>1, <1>2 DEF Queues
  <2>2. p = [j \in 1..m |-> Popped(q, n)[j].id]
    BY <1>2 DEF IdSeq
  <2>3. \A j \in 1..m : Popped(q, n)[j].id \in Nat
    <3>1. \A j \in 1..m : Popped(q, n)[j] \in Frames
      BY <1>2, <2>1, ElementOfSeq
    <3> QED BY <3>1 DEF Frames
  <2>4. p \in [1..m -> Nat]
    BY <2>2, <2>3
  <2>5. p \in Seq(Nat) /\ DOMAIN p = 1..m
    BY <2>1, <2>4, SeqDef
  <2>6. Len(p) = m
    BY <2>1, <2>5, LenProperties
  <2> QED BY <2>2, <2>5, <2>6
<1>5. consumed \in Seq(Nat)
  BY DEF TypeOK
<1> HIDE DEF m, p
<1>6. /\ consumed \o p \in Seq(Nat)
      /\ Len(consumed \o p) = Len(consumed) + m
      /\ \A j \in 1..Len(consumed) : (consumed \o p)[j] = consumed[j]
      /\ \A j \in 1..m : (consumed \o p)[Len(consumed) + j] = p[j]
  <2>1. p \in Seq(Nat) /\ Len(p) = m /\ m \in Nat /\ Len(consumed) \in Nat
    BY <1>4, <1>5
  <2>2. /\ consumed \o p \in Seq(Nat)
        /\ Len(consumed \o p) = Len(consumed) + Len(p)
        /\ \A j \in 1..(Len(consumed) + Len(p)) : (consumed \o p)[j] =
              IF j =< Len(consumed) THEN consumed[j] ELSE p[j - Len(consumed)]
    BY <2>1, <1>5
  <2> QED BY <2>1, <2>2
<1>7. \A j \in 1..m : (consumed \o p)[Len(consumed) + j] = q.frames[j].id
  BY <1>2, <1>4, <1>6
<1> QED BY <1>2, <1>3, <1>6, <1>7

-----------------------------------------------------------------------------
(* Every step keeps the types.                                              *)
LEMMA TypeStep == TypeOK /\ [Next]_vars => TypeOK'
<1> SUFFICES ASSUME TypeOK, [Next]_vars PROVE TypeOK'
  OBVIOUS
<1>1. ASSUME NEW c \in Channels, NEW isKey \in BOOLEAN, PushFrame(c, isKey)
      PROVE  TypeOK'
  <2>1. q' \in Queues(Frames) /\ nextId' = nextId + 1 /\ consumed' = consumed
    BY <1>1, PushStep
  <2>2. refused' \in SUBSET Nat
    BY <1>1 DEF PushFrame, TypeOK
  <2> QED BY <2>1, <2>2 DEF TypeOK
<1>2. ASSUME NEW n \in 1..MaxBatch, PopFrames(n) PROVE TypeOK'
  <2>1. q' \in Queues(Frames) /\ nextId' = nextId /\ consumed' \in Seq(Nat)
    BY <1>2, PopStep
  <2>2. refused' = refused
    BY <1>2 DEF PopFrames
  <2> QED BY <2>1, <2>2 DEF TypeOK
<1>3. ASSUME NEW cap \in Capacities, ResizeQueue(cap) PROVE TypeOK'
  BY <1>3, StageQueueAssumption DEF ResizeQueue, SetCapacity, TypeOK, Queues
<1>4. CASE ShutdownQueue
  BY <1>4 DEF ShutdownQueue, Shutdown, TypeOK, Queues
<1>5. CASE UNCHANGED vars
  BY <1>5 DEF vars, TypeOK
<1> QED BY <1>1, <1>2, <1>3, <1>4, <1>5 DEF Next, Consume

(* Whatever is pushed, popped, resized or shut down, the queue keeps its    *)
(* type: every frame in it is one that was pushed, the counters stay        *)
(* natural numbers.                                                         *)
THEOREM TypeCorrect == Spec => []TypeOK
<1>1. Init => TypeOK
  BY StageQueueAssumption DEF Init, NewQueue, TypeOK, Queues
<1>2. TypeOK /\ [Next]_vars => TypeOK'
  BY TypeStep
<1> QED BY <1>1, <1>2, PTL DEF Spec

-----------------------------------------------------------------------------
(* Consumed and waiting frames stay in the order of their ids.              *)
LEMMA OrderedStep == TypeOK /\ Ordered /\ [Next]_vars => Ordered'
<1> SUFFICES ASSUME TypeOK, Ordered, [Next]_vars PROVE Ordered'
  OBVIOUS
<1>0. /\ q.frames \in Seq(Frames) /\ consumed \in Seq(Nat) /\ nextId \in Nat
      /\ Len(q.frames) \in Nat /\ Len(consumed) \in Nat
  BY DEF TypeOK, Queues
<1>00. /\ \A k \in 1..Len(q.frames) : q.frames[k].id \in Nat
       /\ \A j \in 1..Len(consumed) : consumed[j] \in Nat
  <2>1. \A k \in 1..Len(q.frames) : q.frames[k] \in Frames
    BY <1>0, ElementOfSeq
  <2>2. \A j \in 1..Len(consumed) : consumed[j] \in Nat
    BY <1>0, ElementOfSeq
  <2> QED BY <2>1, <2>2 DEF Frames
<1>1. ASSUME NEW c \in Channels, NEW isKey \in BOOLEAN, PushFrame(c, isKey)
      PROVE  Ordered'
  <2>1. nextId' = nextId + 1 /\ consumed' = consumed
    BY <1>1, PushStep
  <2>2. CASE q'.frames = q.frames
    <3>1. /\ \A j \in 1..Len(consumed) : consumed[j] < nextId + 1
          /\ \A k \in 1..Len(q.frames) : q.frames[k].id < nextId + 1
      BY <1>0, <1>00 DEF Ordered
    <3> QED BY <2>1, <2>2, <3>1 DEF Ordered
  <2>3. ASSUME NEW f \in Frames, f.id = nextId, NEW s \in Seq(Frames),
               q'.frames = Append(s, f),
               \A j \in 1..Len(s) : s[j].id < nextId,
               \A j, k \in 1..Len(s) : j < k => s[j].id < s[k].id,
               \A j \in 1..Len(consumed), k \in 1..Len(s) : consumed[j] < s[k].id
        PROVE  Ordered'
    <3>1. /\ Len(q'.frames) = Len(s) + 1 /\ Len(s) \in Nat
          /\ \A j \in 1..Len(s) : q'.frames[j] = s[j]
          /\ q'.frames[Len(s) + 1] = f
      BY <2>3, AppendProperties
    <3>2. \A j \in 1..Len(q'.frames) : j \in 1..Len(s) \/ j = Len(s) + 1
      BY <3>1
    <3>3. \A j \in 1..Len(s) : s[j].id \in Nat
      <4>1. \A j \in 1..Len(s) : s[j] \in Frames
        BY ElementOfSeq
      <4> QED BY <4>1 DEF Frames
    <3>4. \A j, k \in 1..Len(q'.frames) :
             j < k => q'.frames[j].id < q'.frames[k].id
      <4> SUFFICES ASSUME NEW j \in 1..Len(q'.frames),
                          NEW k \in 1..Len(q'.frames), j < k
                   PROVE  q'.frames[j].id < q'.frames[k].id
        OBVIOUS
      <4>1. j \in 1..Len(s)
        BY <3>1
      <4>2. CASE k \in 1..Len(s)
        BY <4>1, <4>2, <3>1, <2>3
      <4>3. CASE k = Len(s) + 1
        BY <4>1, <4>3, <3>1, <2>3
      <4> QED BY <3>2, <4>2, <4>3
    <3>5. \A j \in 1..Len(consumed), k \in 1..Len(q'.frames) :
             consumed[j] < q'.frames[k].id
      <4> SUFFICES ASSUME NEW j \in 1..Len(consumed),
                          NEW k \in 1..Len(q'.frames)
                   PROVE  consumed[j] < q'.frames[k].id
        OBVIOUS
      <4>1. CASE k \in 1..Len(s)
        BY <4>1, <3>1, <2>3
      <4>2. CASE k = Len(s) + 1
        BY <4>2, <3>1, <2>3 DEF Ordered
      <4> QED BY <3>2, <4>1, <4>2
    <3>6. \A k \in 1..Len(q'.frames) : q'.frames[k].id < nextId + 1
      BY <3>1, <3>2, <3>3, <2>3, <1>0
    <3>7. \A j \in 1..Len(consumed) : consumed[j] < nextId + 1
      BY <1>0, <1>00 DEF Ordered
    <3> QED BY <2>1, <3>4, <3>5, <3>6, <3>7 DEF Ordered
  <2>4. ASSUME NEW f \in Frames, f.id = nextId, q'.frames = Append(q.frames, f)
        PROVE  Ordered'
    BY <2>3, <2>4, <1>0 DEF Ordered
  <2>5. ASSUME NEW f \in Frames, f.id = nextId, NEW k \in 1..Len(q.frames),
               q'.frames = Append(RemoveAt(q.frames, k), f)
        PROVE  Ordered'
    <3> DEFINE s == RemoveAt(q.frames, k)
    <3>1. /\ s \in Seq(Frames) /\ Len(s) = Len(q.frames) - 1
          /\ \A j \in 1..(Len(q.frames) - 1) :
                s[j] = IF j < k THEN q.frames[j] ELSE q.frames[j + 1]
      BY <1>0, RemoveAtProperties
    <3> HIDE DEF s
    <3>2. \A j \in 1..Len(s) : \E i \in 1..Len(q.frames) :
             s[j] = q.frames[i] /\ i = IF j < k THEN j ELSE j + 1
      BY <3>1, <1>0
    <3>3. \A j \in 1..Len(s) : s[j].id < nextId
      BY <3>2 DEF Ordered
    <3>4. \A j, i \in 1..Len(s) : j < i => s[j].id < s[i].id
      <4> SUFFICES ASSUME NEW j \in 1..Len(s), NEW i \in 1..Len(s), j < i
                   PROVE  s[j].id < s[i].id
        OBVIOUS
      <4>1. PICK jj \in 1..Len(q.frames) :
               s[j] = q.frames[jj] /\ jj = IF j < k THEN j ELSE j + 1
        BY <3>2
      <4>2. PICK ii \in 1..Len(q.frames) :
               s[i] = q.frames[ii] /\ ii = IF i < k THEN i ELSE i + 1
        BY <3>2
      <4>3. jj < ii
        BY <4>1, <4>2, <3>1, <1>0
      <4> QED BY <4>1, <4>2, <4>3 DEF Ordered
    <3>5. \A j \in 1..Len(consumed), i \in 1..Len(s) : consumed[j] < s[i].id
      BY <3>2 DEF Ordered
    <3>6. q'.frames = Append(s, f)
      BY <2>5 DEF s
    <3> QED BY <3>1, <3>3, <3>4, <3>5, <3>6, <2>3, <2>5
  <2> QED BY <1>1, <2>2, <2>4, <2>5, PushStep
<1>2. ASSUME NEW n \in 1..MaxBatch, PopFrames(n) PROVE Ordered'
  <2>1. PICK m \in 1..Len(q.frames) :
           /\ Len(consumed') = Len(consumed) + m
           /\ \A j \in 1..Len(consumed) : consumed'[j] = consumed[j]
           /\ \A j \in 1..m : consumed'[Len(consumed) + j] = q.frames[j].id
           /\ Len(q'.frames) = Len(q.frames) - m
           /\ \A j \in 1..(Len(q.frames) - m) : q'.frames[j] = q.frames[m + j]
    BY <1>2, PopStep
  <2>2. nextId' = nextId
    BY <1>2, PopStep
  <2>3. \A j \in 1..Len(q'.frames) :
           m + j \in 1..Len(q.frames) /\ q'.frames[j] = q.frames[m + j]
    BY <2>1, <1>0
  <2>4. \A j \in 1..Len(consumed') :
           \/ j \in 1..Len(consumed) /\ consumed'[j] = consumed[j]
           \/ /\ j - Len(consumed) \in 1..m
              /\ consumed'[j] = q.frames[j - Len(consumed)].id
    <3> SUFFICES ASSUME NEW j \in 1..Len(consumed'), j > Len(consumed)
                 PROVE  /\ j - Len(consumed) \in 1..m
                        /\ consumed'[j] = q.frames[j - Len(consumed)].id
      BY <2>1, <1>0
    <3>1. j - Len(consumed) \in 1..m /\ Len(consumed) + (j - Len(consumed)) = j
      BY <2>1, <1>0
    <3> QED BY <3>1, <2>1
  <2>5. \A j \in 1..m : j \in 1..Len(q.frames)
    BY <1>0
  <2>6. \A j, k \in 1..Len(consumed') : j < k => consumed'[j] < consumed'[k]
    <3> SUFFICES ASSUME NEW j \in 1..Len(consumed'), NEW k \in 1..Len(consumed'),
                        j < k
                 PROVE  consumed'[j] < consumed'[k]
      OBVIOUS
    <3>1. CASE j \in 1..Len(consumed) /\ k \in 1..Len(consumed)
      BY <3>1, <2>1 DEF Ordered
    <3>2. CASE j \in 1..Len(consumed) /\ k \notin 1..Len(consumed)
      BY <3>2, <2>1, <2>4, <2>5 DEF Ordered
    <3>3. CASE j \notin 1..Len(consumed)
      <4>1. /\ j - Len(consumed) \in 1..m
            /\ consumed'[j] = q.frames[j - Len(consumed)].id
        BY <3>3, <2>4
      <4>2. k \notin 1..Len(consumed)
        BY <3>3, <2>1, <1>0
      <4>3. /\ k - Len(consumed) \in 1..m
            /\ consumed'[k] = q.frames[k - Len(consumed)].id
        BY <4>2, <2>4
      <4>4. j - Len(consumed) < k - Len(consumed)
        BY <2>1, <1>0
      <4> QED BY <4>1, <4>3, <4>4, <2>5 DEF Ordered
    <3> QED BY <3>1, <3>2, <3>3
  <2>7. \A j, k \in 1..Len(q'.frames) :
           j < k => q'.frames[j].id < q'.frames[k].id
    <3> SUFFICES ASSUME NEW j \in 1..Len(q'.frames), NEW k \in 1..Len(q'.frames),
                        j < k
                 PROVE  q'.frames[j].id < q'.frames[k].id
      OBVIOUS
    <3>1. m + j < m + k
      BY <2>1, <1>0
    <3> QED BY <3>1, <2>3 DEF Ordered
  <2>8. \A j \in 1..Len(consumed'), k \in 1..Len(q'.frames) :
           consumed'[j] < q'.frames[k].id
    <3> SUFFICES ASSUME NEW j \in 1..Len(consumed'), NEW k \in 1..Len(q'.frames)
                 PROVE  consumed'[j] < q'.frames[k].id
      OBVIOUS
    <3>1. CASE j \in 1..Len(consumed)
      BY <3>1, <2>1, <2>3 DEF Ordered
    <3>2. CASE j \notin 1..Len(consumed)
      <4>1. /\ j - Len(consumed) \in 1..m
            /\ consumed'[j] = q.frames[j - Len(consumed)].id
        BY <3>2, <2>4
      <4>2. j - Len(consumed) < m + k
        BY <4>1, <2>1, <1>0
      <4> QED BY <4>1, <4>2, <2>3, <2>5 DEF Ordered
    <3> QED BY <3>1, <3>2
  <2>9. /\ \A j \in 1..Len(consumed') : consumed'[j] < nextId'
        /\ \A k \in 1..Len(q'.frames) : q'.frames[k].id < nextId'
    BY <2>2, <2>3, <2>4, <2>5 DEF Ordered
  <2> QED BY <2>6, <2>7, <2>8, <2>9 DEF Ordered
<1>3. ASSUME NEW cap \in Capacities, ResizeQueue(cap) PROVE Ordered'
  <2>1. q'.frames = q.frames /\ nextId' = nextId /\ consumed' = consumed
    BY <1>3 DEF ResizeQueue, SetCapacity, TypeOK, Queues
  <2> QED BY <2>1 DEF Ordered
<1>4. CASE ShutdownQueue
  <2>1. q'.frames = q.frames /\ nextId' = nextId /\ consumed' = consumed
    BY <1>4 DEF ShutdownQueue, Shutdown, TypeOK, Queues
  <2> QED BY <2>1 DEF Ordered
<1>5. CASE UNCHANGED vars
  BY <1>5 DEF vars, Ordered
<1> QED BY <1>1, <1>2, <1>3, <1>4, <1>5 DEF Next, Consume

(* Frames in the order of their ids leave first in, first out.              *)
LEMMA OrderedIsFifo == TypeOK /\ Ordered => Fifo
<1> SUFFICES ASSUME TypeOK, Ordered PROVE Fifo
  OBVIOUS
<1> DEFINE p == IdSeq(q.frames)
           s == consumed \o p
<1>1. /\ q.frames \in Seq(Frames) /\ consumed \in Seq(Nat)
      /\ Len(q.frames) \in Nat /\ Len(consumed) \in Nat
  BY DEF TypeOK, Queues
<1>2. \A j \in 1..Len(q.frames) : q.frames[j].id \in Nat
  <2>1. \A j \in 1..Len(q.frames) : q.frames[j] \in Frames
    BY <1>1, ElementOfSeq
  <2> QED BY <2>1 DEF Frames
<1>3. p \in [1..Len(q.frames) -> Nat]
  BY <1>2 DEF IdSeq
<1>4. p \in Seq(Nat) /\ DOMAIN p = 1..Len(q.frames)
  BY <1>1, <1>3, SeqDef
<1>5. Len(p) = Len(q.frames)
  BY <1>1, <1>4, LenProperties
<1>6. \A j \in 1..Len(p) : p[j] = q.frames[j].id
  BY <1>5 DEF IdSeq
<1> HIDE DEF p
<1>7. /\ Len(s) = Len(consumed) + Len(p)
      /\ \A j \in 1..(Len(consumed) + Len(p)) : s[j] =
            IF j =< Len(consumed) THEN consumed[j] ELSE p[j - Len(consumed)]
  BY <1>1, <1>4
<1> HIDE DEF s
<1>8. ASSUME NEW j \in 1..Len(s), NEW k \in 1..Len(s), j < k
      PROVE  s[j] < s[k]
  <2>1. CASE k =< Len(consumed)
    <3>1. j \in 1..Len(consumed) /\ k \in 1..Len(consumed)
      BY <1>1, <1>5, <1>7, <1>8, <2>1
    <3>2. s[j] = consumed[j] /\ s[k] = consumed[k]
      BY <3>1, <1>1, <1>5, <1>7
    <3> QED BY <3>1, <3>2, <1>8 DEF Ordered
  <2>2. CASE j =< Len(consumed) /\ k > Len(consumed)
    <3>1. j \in 1..Len(consumed) /\ k - Len(consumed) \in 1..Len(p)
      BY <1>1, <1>5, <1>7, <2>2
    <3>2. s[j] = consumed[j] /\ s[k] = p[k - Len(consumed)]
      BY <3>1, <1>1, <1>5, <1>7, <2>2
    <3> QED BY <3>1, <3>2, <1>5, <1>6 DEF Ordered
  <2>3. CASE j > Len(consumed)
    <3>1. /\ j - Len(consumed) \in 1..Len(p) /\ k - Len(consumed) \in 1..Len(p)
          /\ j - Len(consumed) < k - Len(consumed)
      BY <1>1, <1>5, <1>7, <1>8, <2>3
    <3>2. s[j] = p[j - Len(consumed)] /\ s[k] = p[k - Len(consumed)]
      BY <3>1, <1>1, <1>5, <1>7, <1>8, <2>3
    <3> QED BY <3>1, <3>2, <1>5, <1>6 DEF Ordered
  <2> QED BY <1>1, <1>5, <1>7, <2>1, <2>2, <2>3
<1> QED BY <1>8 DEF Fifo, s, p

(* Frames leave the queue in the order they were pushed and at most once,   *)
(* however pushes, evictions, pops, resizes and the shutdown interleave.    *)
THEOREM FifoHolds == Spec => []Fifo
<1>1. Init => TypeOK /\ Ordered
  BY StageQueueAssumption DEF Init, NewQueue, TypeOK, Queues, Ordered
<1>2. TypeOK /\ Ordered /\ [Next]_vars => TypeOK' /\ Ordered'
  BY TypeStep, OrderedStep
<1>3. TypeOK /\ Ordered => Fifo
  BY OrderedIsFifo
<1> QED BY <1>1, <1>2, <1>3, PTL DEF Spec

-----------------------------------------------------------------------------
(* The limit needs the queue's own capacity to be one of the configured     *)
(* ones; SetCapacity may lower it below the number of frames queued.        *)
WithinSomeCapacity == q.capacity \in Capacities /\ NeverOverMaxCapacity

(* No step takes the queue past the largest configured capacity.            *)
LEMMA CapacityStep ==
    TypeOK /\ WithinSomeCapacity /\ [Next]_vars => WithinSomeCapacity'
<1> SUFFICES ASSUME TypeOK, WithinSomeCapacity, [Next]_vars
             PROVE  WithinSomeCapacity'
  OBVIOUS
<1> USE StageQueueAssumption
<1>0. q.frames \in Seq(Frames) /\ Len(q.frames) \in Nat /\ q.capacity \in Nat
  BY DEF TypeOK, Queues
<1>1. ASSUME NEW c \in Channels, NEW isKey \in BOOLEAN, PushFrame(c, isKey)
      PROVE  WithinSomeCapacity'
  <2>1. q'.capacity = q.capacity
    BY <1>1, PushStep
  <2>2. CASE q'.frames = q.frames
    BY <2>1, <2>2 DEF WithinSomeCapacity, NeverOverMaxCapacity
  <2>3. ASSUME NEW f \in Frames, Len(q.frames) < q.capacity,
               q'.frames = Append(q.frames, f)
        PROVE  WithinSomeCapacity'
    <3>1. Len(q'.frames) = Len(q.frames) + 1
      BY <2>3, <1>0, AppendProperties
    <3>2. Len(q'.frames) =< q.capacity
      BY <3>1, <2>3, <1>0
    <3> QED BY <3>2, <2>1 DEF WithinSomeCapacity, NeverOverMaxCapacity
  <2>4. ASSUME NEW f \in Frames, NEW k \in 1..Len(q.frames),
               q'.frames = Append(RemoveAt(q.frames, k), f)
        PROVE  WithinSomeCapacity'
    <3>1. /\ RemoveAt(q.frames, k) \in Seq(Frames)
          /\ Len(RemoveAt(q.frames, k)) = Len(q.frames) - 1
      BY <1>0, RemoveAtProperties
    <3>2. Len(q'.frames) = Len(RemoveAt(q.frames, k)) + 1
      BY <2>4, <3>1, AppendProperties
    <3>3. Len(q'.frames) = Len(q.frames)
      BY <3>1, <3>2, <1>0
    <3> QED BY <3>3, <2>1 DEF WithinSomeCapacity, NeverOverMaxCapacity
  <2> QED BY <1>1, <2>2, <2>3, <2>4, PushStep
<1>2. ASSUME NEW n \in 1..MaxBatch, PopFrames(n) PROVE WithinSomeCapacity'
  <2>1. q'.capacity = q.capacity
    BY <1>2, PopStep
  <2>2. PICK m \in 1..Len(q.frames) : Len(q'.frames) = Len(q.frames) - m
    BY <1>2, PopStep
  <2>3. \A cap \in Capacities : Len(q.frames) =< cap => Len(q'.frames) =< cap
    BY <2>2, <1>0
  <2> QED BY <2>1, <2>3 DEF WithinSomeCapacity, NeverOverMaxCapacity
<1>3. ASSUME NEW cap \in Capacities, ResizeQueue(cap) PROVE WithinSomeCapacity'
  <2>1. q'.frames = q.frames /\ q'.capacity = cap
    BY <1>3 DEF ResizeQueue, SetCapacity, TypeOK, Queues
  <2> QED BY <2>1 DEF WithinSomeCapacity, NeverOverMaxCapacity
<1>4. CASE ShutdownQueue
  <2>1. q'.frames = q.frames /\ q'.capacity = q.capacity
    BY <1>4 DEF ShutdownQueue, Shutdown, TypeOK, Queues
  <2> QED BY <2>1 DEF WithinSomeCapacity, NeverOverMaxCapacity
<1>5. CASE UNCHANGED vars
  BY <1>5 DEF vars, WithinSomeCapacity, NeverOverMaxCapacity
<1> QED BY <1>1, <1>2, <1>3, <1>4, <1>5 DEF Next, Consume

(* Backpressure holds: Push never takes the queue past the largest capacity *)
(* it was given, also after SetCapacity lowered the limit under its frames. *)
THEOREM CapacityBound == Spec => []NeverOverMaxCapacity
<1>1. Init => TypeOK /\ WithinSomeCapacity
  BY StageQueueAssumption
  DEF Init, NewQueue, TypeOK, Queues, WithinSomeCapacity, NeverOverMaxCapacity
<1>2. TypeOK /\ WithinSomeCapacity /\ [Next]_vars
         => TypeOK' /\ WithinSomeCapacity'
  BY TypeStep, CapacityStep
<1>3. WithinSomeCapacity => NeverOverMaxCapacity
  BY DEF WithinSomeCapacity
<1> QED BY <1>1, <1>2, <1>3, PTL DEF Spec

-----------------------------------------------------------------------------
(* A keyframe leaves the queue only by being consumed.                      *)
LEMMA KeyframeStep == TypeOK /\ [Next]_vars => [KeyframesStay]_vars
<1> SUFFICES ASSUME TypeOK, Next, NEW k \in 1..Len(q.frames), q.frames[k].key
             PROVE  q.frames[k].id \in Ids(q'.frames) \union Range(consumed')
  BY DEF KeyframesStay
<1>0. q.frames \in Seq(Frames) /\ Len(q.frames) \in Nat
  BY DEF TypeOK, Queues
<1>00. (\E i \in 1..Len(q'.frames) : q'.frames[i] = q.frames[k])
          => q.frames[k].id \in Ids(q'.frames)
  BY DEF Ids
<1>1. ASSUME NEW c \in Channels, NEW isKey \in BOOLEAN, PushFrame(c, isKey)
      PROVE  \E i \in 1..Len(q'.frames) : q'.frames[i] = q.frames[k]
  <2>1. CASE q'.frames = q.frames
    BY <2>1
  <2>2. ASSUME NEW f \in Frames, q'.frames = Append(q.frames, f)
        PROVE  \E i \in 1..Len(q'.frames) : q'.frames[i] = q.frames[k]
    <3>1. Len(q'.frames) = Len(q.frames) + 1 /\ q'.frames[k] = q.frames[k]
      BY <2>2, <1>0, AppendProperties
    <3> QED BY <3>1, <1>0
  <2>3. ASSUME NEW f \in Frames, NEW v \in 1..Len(q.frames), ~q.frames[v].key,
               q'.frames = Append(RemoveAt(q.frames, v), f)
        PROVE  \E i \in 1..Len(q'.frames) : q'.frames[i] = q.frames[k]
    <3> DEFINE s == RemoveAt(q.frames, v)
               i == IF k < v THEN k ELSE k - 1
    <3>1. k # v
      BY <2>3
    <3>2. /\ s \in Seq(Frames) /\ Len(s) = Len(q.frames) - 1
          /\ \A j \in 1..(Len(q.frames) - 1) :
                s[j] = IF j < v THEN q.frames[j] ELSE q.frames[j + 1]
      BY <1>0, RemoveAtProperties
    <3>3. q'.frames = Append(s, f)
      BY <2>3
    <3> HIDE DEF s
    <3>4. i \in 1..Len(s) /\ s[i] = q.frames[k]
      BY <3>1, <3>2, <1>0
    <3>5. Len(q'.frames) = Len(s) + 1 /\ q'.frames[i] = s[i]
      BY <3>2, <3>3, <3>4, AppendProperties
    <3> HIDE DEF i
    <3>6. i \in 1..Len(q'.frames) /\ q'.frames[i] = q.frames[k]
      BY <3>2, <3>4, <3>5
    <3> QED BY <3>6
  <2> QED BY <1>1, <2>1, <2>2, <2>3, PushStep
<1>2. ASSUME NEW n \in 1..MaxBatch, PopFrames(n)
      PROVE  q.frames[k].id \in Ids(q'.frames) \union Range(consumed')
  <2>1. PICK m \in 1..Len(q.frames) :
           /\ Len(consumed') = Len(consumed) + m
           /\ \A j \in 1..m : consumed'[Len(consumed) + j] = q.frames[j].id
           /\ Len(q'.frames) = Len(q.frames) - m
           /\ \A j \in 1..(Len(q.frames) - m) : q'.frames[j] = q.frames[m + j]
    BY <1>2, PopStep
  <2>2. consumed' \in Seq(Nat) /\ Len(consumed) \in Nat
    BY <1>2, PopStep DEF TypeOK
  <2>3. CASE k =< m
    <3>1. /\ Len(consumed) + k \in 1..Len(consumed')
          /\ consumed'[Len(consumed) + k] = q.frames[k].id
      BY <2>1, <2>2, <2>3, <1>0
    <3>2. DOMAIN consumed' = 1..Len(consumed')
      BY <2>2, LenProperties
    <3> QED BY <3>1, <3>2 DEF Range
  <2>4. CASE k > m
    <3>1. /\ k - m \in 1..(Len(q.frames) - m) /\ m + (k - m) = k
          /\ k - m \in 1..Len(q'.frames)
      BY <2>1, <2>4, <1>0
    <3>2. q'.frames[k - m] = q.frames[k]
      BY <2>1, <3>1
    <3> QED BY <3>1, <3>2, <1>00
  <2> QED BY <2>3, <2>4, <1>0
<1>3. ASSUME NEW cap \in Capacities, ResizeQueue(cap)
      PROVE  \E i \in 1..Len(q'.frames) : q'.frames[i] = q.frames[k]
  <2>1. q'.frames = q.frames
    BY <1>3 DEF ResizeQueue, SetCapacity, TypeOK, Queues
  <2> QED BY <2>1
<1>4. ASSUME ShutdownQueue
      PROVE  \E i \in 1..Len(q'.frames) : q'.frames[i] = q.frames[k]
  <2>1. q'.frames = q.frames
    BY <1>4 DEF ShutdownQueue, Shutdown, TypeOK, Queues
  <2> QED BY <2>1
<1> QED BY <1>00, <1>1, <1>2, <1>3, <1>4 DEF Next, Consume

(* A keyframe that Push accepted is never evicted: it stays in the queue    *)
(* until a worker pops it.                                                  *)
THEOREM KeyframesKeptAlways == Spec => KeyframesKept
<1>1. Init => TypeOK
  BY StageQueueAssumption DEF Init, NewQueue, TypeOK, Queues
<1>2. TypeOK /\ [Next]_vars => TypeOK'
  BY TypeStep
<1>3. TypeOK /\ [Next]_vars => [KeyframesStay]_vars
  BY KeyframeStep
<1> QED BY <1>1, <1>2, <1>3, PTL DEF Spec, KeyframesKept

-----------------------------------------------------------------------------
(* The frames neither queued nor consumed: DropsCounted is about their      *)
(* number.                                                                  *)
Missing == (1..(nextId - 1)) \ Held

(* What makes DropsCounted inductive: nothing is held or refused that was   *)
(* not offered.                                                             *)
Accounted ==
    /\ Held \subseteq 1..(nextId - 1)
    /\ refused \subseteq 1..(nextId - 1)
    /\ DropsCounted

(* Ids of a queue after a frame has been appended to it.                    *)
LEMMA IdsAppend ==
    ASSUME NEW s \in Seq(Frames), NEW f \in Frames
    PROVE  Ids(Append(s, f)) = Ids(s) \union {f.id}
<1> DEFINE t == Append(s, f)
<1>1. /\ Len(t) = Len(s) + 1 /\ Len(s) \in Nat
      /\ \A j \in 1..Len(s) : t[j] = s[j]
      /\ t[Len(s) + 1] = f
  BY AppendProperties
<1> HIDE DEF t
<1>2. \A j : j \in 1..Len(t) <=> j \in 1..Len(s) \/ j = Len(s) + 1
  BY <1>1
<1>3. Ids(t) = Ids(s) \union {f.id}
  BY <1>1, <1>2 DEF Ids
<1> QED BY <1>3 DEF t

(* Ids of a queue after one of its frames has been erased: one less.        *)
LEMMA IdsRemove ==
    ASSUME NEW s \in Seq(Frames), NEW k \in 1..Len(s),
           \A i, j \in 1..Len(s) : i < j => s[i].id < s[j].id
    PROVE  /\ Ids(RemoveAt(s, k)) = Ids(s) \ {s[k].id}
           /\ RemoveAt(s, k) \in Seq(Frames)
           /\ s[k].id \in Ids(s)
<1> DEFINE t == RemoveAt(s, k)
<1>1. /\ t \in Seq(Frames) /\ Len(t) = Len(s) - 1
      /\ \A j \in 1..(Len(s) - 1) : t[j] = IF j < k THEN s[j] ELSE s[j + 1]
  BY RemoveAtProperties
<1>2. Len(s) \in Nat /\ k \in Nat /\ \A j \in 1..Len(s) : s[j].id \in Nat
  <2>1. \A j \in 1..Len(s) : s[j] \in Frames
    BY ElementOfSeq
  <2> QED BY <2>1 DEF Frames
<1> HIDE DEF t
<1>3. \A j \in 1..Len(s) : j # k => s[j].id # s[k].id
  <2> SUFFICES ASSUME NEW j \in 1..Len(s), j # k PROVE s[j].id # s[k].id
    OBVIOUS
  <2>1. CASE j < k
    BY <1>2, <2>1
  <2>2. CASE k < j
    BY <1>2, <2>2
  <2> QED BY <1>2, <2>1, <2>2
<1>4. ASSUME NEW j \in 1..Len(t)
      PROVE  \E i \in 1..Len(s) : i # k /\ t[j] = s[i]
  <2>1. CASE j < k
    BY <1>1, <1>2, <2>1
  <2>2. CASE ~(j < k)
    <3>1. j + 1 \in 1..Len(s) /\ j + 1 # k /\ t[j] = s[j + 1]
      BY <1>1, <1>2, <2>2
    <3> QED BY <3>1
  <2> QED BY <2>1, <2>2
<1>5. ASSUME NEW i \in 1..Len(s), i # k
      PROVE  \E j \in 1..Len(t) : t[j] = s[i]
  <2>1. CASE i < k
    <3>1. i \in 1..Len(t) /\ t[i] = s[i]
      BY <1>1, <1>2, <2>1
    <3> QED BY <3>1
  <2>2. CASE k < i
    <3>1. i - 1 \in 1..Len(t) /\ ~(i - 1 < k) /\ (i - 1) + 1 = i
      BY <1>1, <1>2, <2>2
    <3>2. t[i - 1] = s[i]
      BY <1>1, <3>1
    <3> QED BY <3>1, <3>2
  <2> QED BY <1>2, <1>5, <2>1, <2>2
<1>6. Ids(t) \subseteq Ids(s) \ {s[k].id}
  BY <1>3, <1>4 DEF Ids
<1>7. Ids(s) \ {s[k].id} \subseteq Ids(t)
  <2> SUFFICES ASSUME NEW x \in Ids(s), x # s[k].id PROVE x \in Ids(t)
    OBVIOUS
  <2>1. PICK i \in 1..Len(s) : x = s[i].id
    BY DEF Ids
  <2>2. PICK j \in 1..Len(t) : t[j] = s[i]
    BY <1>5, <2>1
  <2> QED BY <2>1, <2>2 DEF Ids
<1>8. s[k].id \in Ids(s)
  BY DEF Ids
<1> QED BY <1>1, <1>6, <1>7, <1>8 DEF t

(* Popping moves ids from the queue to consumed.                            *)
LEMMA PopHolds ==
    ASSUME TypeOK, NEW n \in 1..MaxBatch, PopFrames(n)
    PROVE  Held' = Held
<1>1. PICK m \in 1..Len(q.frames) :
         /\ Len(consumed') = Len(consumed) + m
         /\ \A j \in 1..Len(consumed) : consumed'[j] = consumed[j]
         /\ \A j \in 1..m : consumed'[Len(consumed) + j] = q.frames[j].id
         /\ Len(q'.frames) = Len(q.frames) - m
         /\ \A j \in 1..(Len(q.frames) - m) : q'.frames[j] = q.frames[m + j]
  BY PopStep
<1>2. consumed \in Seq(Nat) /\ consumed' \in Seq(Nat) /\ q.frames \in Seq(Frames)
  BY PopStep DEF TypeOK, Queues
<1>3. /\ DOMAIN consumed = 1..Len(consumed) /\ DOMAIN consumed' = 1..Len(consumed')
      /\ Len(consumed) \in Nat /\ Len(q.frames) \in Nat /\ m \in Nat
  BY <1>2
<1>4. Ids(q'.frames) \subseteq Ids(q.frames)
  <2> SUFFICES ASSUME NEW j \in 1..Len(q'.frames)
               PROVE  q'.frames[j].id \in Ids(q.frames)
    BY DEF Ids
  <2>1. j \in 1..(Len(q.frames) - m) /\ m + j \in 1..Len(q.frames)
    BY <1>1, <1>3
  <2>2. q'.frames[j] = q.frames[m + j]
    BY <1>1, <2>1
  <2> QED BY <2>1, <2>2 DEF Ids
<1>5. Range(consumed') \subseteq Held
  <2> SUFFICES ASSUME NEW j \in 1..Len(consumed') PROVE consumed'[j] \in Held
    BY <1>3 DEF Range
  <2>1. CASE j \in 1..Len(consumed)
    BY <1>1, <1>3, <2>1 DEF Held, Range
  <2>2. CASE j \notin 1..Len(consumed)
    <3>1. j - Len(consumed) \in 1..m /\ Len(consumed) + (j - Len(consumed)) = j
          /\ j - Len(consumed) \in 1..Len(q.frames)
      BY <1>1, <1>3, <2>2
    <3>2. consumed'[j] = q.frames[j - Len(consumed)].id
      BY <1>1, <3>1
    <3> QED BY <3>1, <3>2 DEF Held, Ids
  <2> QED BY <2>1, <2>2
<1>6. Range(consumed) \subseteq Range(consumed')
  <2> SUFFICES ASSUME NEW j \in 1..Len(consumed) PROVE consumed[j] \in Range(consumed')
    BY <1>3 DEF Range
  <2>1. j \in 1..Len(consumed') /\ consumed'[j] = consumed[j]
    BY <1>1, <1>3
  <2> QED BY <1>3, <2>1 DEF Range
<1>7. Ids(q.frames) \subseteq Held'
  <2> SUFFICES ASSUME NEW j \in 1..Len(q.frames) PROVE q.frames[j].id \in Held'
    BY DEF Ids
  <2>1. CASE j \in 1..m
    <3>1. Len(consumed) + j \in 1..Len(consumed')
          /\ consumed'[Len(consumed) + j] = q.frames[j].id
      BY <1>1, <1>3, <2>1
    <3> QED BY <1>3, <3>1 DEF Held, Range
  <2>2. CASE j \notin 1..m
    <3>1. j - m \in 1..Len(q'.frames) /\ m + (j - m) = j
          /\ j - m \in 1..(Len(q.frames) - m)
      BY <1>1, <1>3, <2>2
    <3>2. q'.frames[j - m] = q.frames[j]
      BY <1>1, <3>1
    <3> QED BY <3>1, <3>2 DEF Held, Ids
  <2> QED BY <2>1, <2>2
<1> QED BY <1>4, <1>5, <1>6, <1>7 DEF Held

(* One more frame is missing.                                               *)
LEMMA OneMoreMissing ==
    ASSUME TypeOK, NEW x, x \notin Missing
    PROVE  /\ Cardinality(Missing) \in Nat
           /\ Cardinality(Missing \union {x}) = Cardinality(Missing) + 1
<1>1. IsFiniteSet(Missing)
  <2>1. nextId - 1 \in Int
    BY DEF TypeOK
  <2>2. IsFiniteSet(1..(nextId - 1))
    BY <2>1, FS_Interval
  <2>3. Missing \in SUBSET (1..(nextId - 1))
    BY DEF Missing
  <2> QED BY <2>2, <2>3, FS_Subset
<1> HIDE DEF Missing
<1> QED BY <1>1, FS_AddElement, FS_CardinalityType

(* Every call accounts for the frame it was given and the one it evicts.    *)
LEMMA PushAccounts ==
    ASSUME TypeOK, Ordered, Accounted, NEW c \in Channels, NEW isKey \in BOOLEAN,
           PushFrame(c, isKey)
    PROVE  Accounted'
<1> DEFINE f == [id |-> nextId, ch |-> c, key |-> isKey]
<1>1. f \in Frames /\ f.id = nextId
  BY DEF TypeOK, Frames
<1>2. PICK r \in Push(q, f) : q' = r.queue
  BY DEF PushFrame
<1>3. /\ nextId' = nextId + 1 /\ consumed' = consumed /\ nextId \in Nat \ {0}
      /\ refused' = IF q.shutdown THEN refused \union {nextId} ELSE refused
      /\ q \in Queues(Frames) /\ q.frames \in Seq(Frames) /\ q.dropped \in Nat
  BY DEF PushFrame, TypeOK, Queues
<1> HIDE DEF f
<1>4. \/ q.shutdown /\ q' = q
      \/ /\ ~q.shutdown /\ q'.dropped = q.dropped
         /\ q'.frames = Append(q.frames, f)
      \/ /\ ~q.shutdown /\ q'.dropped = q.dropped + 1
         /\ \/ q'.frames = q.frames
            \/ \E k \in 1..Len(q.frames) :
                  q'.frames = Append(RemoveAt(q.frames, k), f)
  BY <1>1, <1>2, <1>3, PushCounts
<1>5. /\ nextId' - 1 = nextId
      /\ 1..nextId = (1..(nextId - 1)) \union {nextId}
      /\ nextId \notin 1..(nextId - 1)
  BY <1>3
<1>6. /\ Held \subseteq 1..(nextId - 1) /\ refused \subseteq 1..(nextId - 1)
      /\ nextId \notin Held /\ nextId \notin Missing
      /\ q.dropped + Cardinality(refused) = Cardinality(Missing)
  BY <1>5 DEF Accounted, DropsCounted, Missing
<1>7. Missing' = (1..nextId) \ Held'
  BY <1>5 DEF Missing
<1>8. DropsCounted' <=> q'.dropped + Cardinality(refused') = Cardinality(Missing')
  BY DEF DropsCounted, Missing
<1>9. IsFiniteSet(refused) /\ Cardinality(refused) \in Nat
  <2>1. nextId - 1 \in Int /\ refused \in SUBSET (1..(nextId - 1))
    BY <1>3, <1>6
  <2>2. IsFiniteSet(1..(nextId - 1))
    BY <2>1, FS_Interval
  <2>3. IsFiniteSet(refused)
    BY <2>1, <2>2, FS_Subset
  <2> QED BY <2>3, FS_CardinalityType
<1>10. CASE q.shutdown /\ q' = q
  <2>1. Held' = Held /\ refused' = refused \union {nextId}
    BY <1>3, <1>10 DEF Held
  <2>2. Missing' = Missing \union {nextId}
    BY <1>5, <1>6, <1>7, <2>1 DEF Missing
  <2>3. Cardinality(Missing') = Cardinality(Missing) + 1
    BY <1>6, <2>2, OneMoreMissing
  <2>4. Cardinality(refused') = Cardinality(refused) + 1
    BY <1>5, <1>6, <1>9, <2>1, FS_AddElement
  <2>5. DropsCounted'
    BY <1>3, <1>6, <1>8, <1>9, <1>10, <2>3, <2>4
  <2> QED BY <1>5, <1>6, <2>1, <2>5 DEF Accounted
<1>11. CASE /\ ~q.shutdown /\ q'.dropped = q.dropped
            /\ q'.frames = Append(q.frames, f)
  <2>1. Held' = Held \union {nextId} /\ refused' = refused
    BY <1>1, <1>3, <1>11, IdsAppend DEF Held
  <2>2. Missing' = Missing
    BY <1>5, <1>7, <2>1 DEF Missing
  <2>3. DropsCounted'
    BY <1>6, <1>8, <1>11, <2>1, <2>2
  <2> QED BY <1>5, <1>6, <2>1, <2>3 DEF Accounted
<1>12. CASE /\ ~q.shutdown /\ q'.dropped = q.dropped + 1
            /\ q'.frames = q.frames
  <2>1. Held' = Held /\ refused' = refused
    BY <1>3, <1>12 DEF Held
  <2>2. Missing' = Missing \union {nextId}
    BY <1>5, <1>6, <1>7, <2>1 DEF Missing
  <2>3. Cardinality(Missing') = Cardinality(Missing) + 1
    BY <1>6, <2>2, OneMoreMissing
  <2>4. DropsCounted'
    BY <1>3, <1>6, <1>8, <1>9, <1>12, <2>1, <2>3
  <2> QED BY <1>5, <1>6, <2>1, <2>4 DEF Accounted
<1>13. ASSUME ~q.shutdown, q'.dropped = q.dropped + 1, NEW k \in 1..Len(q.frames),
              q'.frames = Append(RemoveAt(q.frames, k), f)
       PROVE  Accounted'
  <2> DEFINE x == q.frames[k].id
  <2>1. \A i, j \in 1..Len(q.frames) : i < j => q.frames[i].id < q.frames[j].id
    BY DEF Ordered
  <2>2. /\ Ids(RemoveAt(q.frames, k)) = Ids(q.frames) \ {x}
        /\ RemoveAt(q.frames, k) \in Seq(Frames) /\ x \in Ids(q.frames)
    BY <1>3, <2>1, IdsRemove
  <2>3. Ids(q'.frames) = (Ids(q.frames) \ {x}) \union {nextId}
    BY <1>1, <1>13, <2>2, IdsAppend
  <2>4. x \notin Range(consumed)
    <3> SUFFICES ASSUME NEW j \in DOMAIN consumed PROVE consumed[j] # x
      BY DEF Range
    <3>1. consumed \in Seq(Nat) /\ j \in 1..Len(consumed)
      BY DEF TypeOK
    <3>2. consumed[j] \in Nat /\ q.frames[k] \in Frames
      BY <1>3, <3>1, ElementOfSeq
    <3>3. consumed[j] < x /\ x \in Nat
      BY <3>1, <3>2 DEF Ordered, Frames
    <3> QED BY <3>2, <3>3
  <2> HIDE DEF x
  <2>5. Held' = (Held \ {x}) \union {nextId} /\ x \in Held /\ refused' = refused
    BY <1>3, <1>13, <2>2, <2>3, <2>4 DEF Held
  <2>6. Missing' = Missing \union {x} /\ x \notin Missing
    BY <1>5, <1>6, <1>7, <2>5 DEF Missing
  <2>7. Cardinality(Missing') = Cardinality(Missing) + 1
    BY <2>6, OneMoreMissing
  <2>8. DropsCounted'
    BY <1>3, <1>6, <1>8, <1>9, <1>13, <2>5, <2>7
  <2> QED BY <1>5, <1>6, <2>5, <2>8 DEF Accounted
<1> QED BY <1>4, <1>10, <1>11, <1>12, <1>13

(* Every step keeps the account.                                            *)
LEMMA AccountedStep ==
    TypeOK /\ Ordered /\ Accounted /\ [Next]_vars => Accounted'
<1> SUFFICES ASSUME TypeOK, Ordered, Accounted, [Next]_vars PROVE Accounted'
  OBVIOUS
<1>1. ASSUME NEW c \in Channels, NEW isKey \in BOOLEAN, PushFrame(c, isKey)
      PROVE  Accounted'
  BY <1>1, PushAccounts
<1>2. ASSUME UNCHANGED <<nextId, refused>>, Held' = Held, q'.dropped = q.dropped
      PROVE  Accounted'
  BY <1>2 DEF Accounted, DropsCounted
<1>3. ASSUME NEW n \in 1..MaxBatch, PopFrames(n) PROVE Accounted'
  <2>1. Held' = Held /\ UNCHANGED <<nextId, refused>>
    BY <1>3, PopHolds DEF PopFrames
  <2>2. q'.dropped = q.dropped
    <3>1. q \in Queues(Frames) /\ ~Empty(q) /\ n \in Nat \ {0} /\ q' = AfterPop(q, n)
      BY <1>3, StageQueueAssumption DEF TypeOK, PopFrames
    <3> QED BY <3>1, PopOutcome
  <2> QED BY <1>2, <2>1, <2>2
<1>4. ASSUME NEW cap \in Capacities, ResizeQueue(cap) PROVE Accounted'
  <2>1. q'.frames = q.frames /\ q'.dropped = q.dropped
    BY <1>4 DEF ResizeQueue, SetCapacity, TypeOK, Queues
  <2> QED BY <1>2, <1>4, <2>1 DEF ResizeQueue, Held
<1>5. CASE ShutdownQueue
  <2>1. q'.frames = q.frames /\ q'.dropped = q.dropped
    BY <1>5 DEF ShutdownQueue, Shutdown, TypeOK, Queues
  <2> QED BY <1>2, <1>5, <2>1 DEF ShutdownQueue, Held
<1>6. CASE UNCHANGED vars
  BY <1>2, <1>6 DEF vars, Held
<1> QED BY <1>1, <1>3, <1>4, <1>5, <1>6 DEF Next, Consume

(* dropped_count_ is exact: no eviction, full queue or shutdown loses a     *)
(* frame that is not counted or refused, and none is counted twice.         *)
THEOREM DropsAlwaysCounted == Spec => []DropsCounted
<1>1. Init => TypeOK /\ Ordered /\ Accounted
  <2> SUFFICES ASSUME Init PROVE TypeOK /\ Ordered /\ Accounted
    OBVIOUS
  <2>1. TypeOK /\ Ordered
    BY StageQueueAssumption DEF Init, NewQueue, TypeOK, Queues, Ordered
  <2>2. q.frames = <<>> /\ q.dropped = 0 /\ consumed = <<>> /\ nextId = 1 /\ refused = {}
    BY DEF Init, NewQueue
  <2>3. Held = {} /\ (1..(nextId - 1)) = {}
    BY <2>2 DEF Held, Ids, Range
  <2>4. Cardinality({}) = 0
    BY FS_EmptySet
  <2>5. DropsCounted
    BY <2>2, <2>3, <2>4 DEF DropsCounted
  <2> QED BY <2>1, <2>2, <2>3, <2>5 DEF Accounted
<1>2. TypeOK /\ Ordered /\ Accounted /\ [Next]_vars
        => TypeOK' /\ Ordered' /\ Accounted'
  BY TypeStep, OrderedStep, AccountedStep
<1>3. Accounted => DropsCounted
  BY DEF Accounted
<1> QED BY <1>1, <1>2, <1>3, PTL DEF Spec
=============================================================================
