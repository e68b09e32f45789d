---------------------------- MODULE MediaProofs ----------------------------
(* What the program does with encoded frames, for every value of the         *)
(* constants: durations, quotas and batches; viewers, clients, threads,      *)
(* frames and limits.                                                        *)
(*   - Recorder, index, cleaner and playback: one invariant, IndexInv, says  *)
(*     for the two flushers that no segment is finalized twice (QueuesInv,   *)
(*     EndsInv), for the timeline that an event lies within the time its     *)
(*     segment has or will have (EventsInv), and for the cleaner that no row *)
(*     is older than the batch it has fetched (BatchInv).  PlaybackInv is    *)
(*     about a Playback object alone.                                        *)
(*   - The streaming services share no state, so each one has an invariant   *)
(*     of its own: RtcInv, SocketInv, LiveInv and HlsInv.                    *)
EXTENDS Recording, Streaming, FiniteSetTheorems, SequenceTheorems, TLAPS

-----------------------------------------------------------------------------
(* Recording.                                                               *)

(* ORDER BY start_time: the rows, all of them and in order.                 *)
LEMMA Sorting ==
    ASSUME NEW S, IsFiniteSet(S),
           \A r \in S : r.start_time \in Int /\ r.id \in Int,
           \A r, s \in S : r.id = s.id => r = s
    PROVE  /\ Cardinality(S) \in Nat
           /\ DOMAIN ByStart(S) = 1..Cardinality(S)
           /\ ByStart(S) = [k \in 1..Cardinality(S) |-> ByStart(S)[k]]
           /\ \A k \in 1..Cardinality(S) : ByStart(S)[k] \in S
           /\ \A r \in S : \E k \in 1..Cardinality(S) : ByStart(S)[k] = r
           /\ \A j, k \in 1..Cardinality(S) :
                 j < k => ByStart(S)[j].start_time =< ByStart(S)[k].start_time
<1> DEFINE n == Cardinality(S)
           Less(r) == {s \in S : Before(s, r)}
           rank == [r \in S |-> Cardinality(Less(r)) + 1]
<1>1. /\ \A r \in S : ~Before(r, r)
      /\ \A r, s, t \in S : Before(r, s) /\ Before(s, t) => Before(r, t)
      /\ \A r, s \in S : r # s => Before(r, s) \/ Before(s, r)
      /\ \A r, s \in S : Before(r, s) => r.start_time =< s.start_time
  BY DEF Before
<1>2. n \in Nat
  BY FS_CardinalityType
<1>3. ASSUME NEW r \in S
      PROVE  /\ IsFiniteSet(Less(r)) /\ Cardinality(Less(r)) \in Nat
             /\ r \notin Less(r) /\ Cardinality(Less(r)) + 1 \in 1..n
  <2>1. Less(r) \in SUBSET S /\ r \notin Less(r)
    BY <1>1
  <2>2. IsFiniteSet(Less(r)) /\ Cardinality(Less(r)) \in Nat
    BY <2>1, FS_Subset, FS_CardinalityType
  <2>3. IsFiniteSet(Less(r) \cup {r}) /\ Cardinality(Less(r) \cup {r}) = Cardinality(Less(r)) + 1
    BY <2>1, <2>2, FS_AddElement
  <2>4. Cardinality(Less(r) \cup {r}) =< n
    <3>1. Less(r) \cup {r} \in SUBSET S
      BY <2>1
    <3> QED BY <3>1, FS_Subset
  <2> QED BY <1>2, <2>1, <2>2, <2>3, <2>4
<1>4. ASSUME NEW r \in S, NEW s \in S, Before(r, s) PROVE rank[r] < rank[s]
  <2>1. Less(r) \cup {r} \in SUBSET Less(s)
    BY <1>1, <1>4
  <2>2. Cardinality(Less(r) \cup {r}) = Cardinality(Less(r)) + 1
    BY <1>3, FS_AddElement
  <2>3. Cardinality(Less(r) \cup {r}) =< Cardinality(Less(s))
    BY <1>3, <2>1, FS_Subset
  <2>4. rank[r] = Cardinality(Less(r)) + 1 /\ rank[s] = Cardinality(Less(s)) + 1
    OBVIOUS
  <2>5. Cardinality(Less(r)) \in Nat /\ Cardinality(Less(s)) \in Nat
    BY <1>3
  <2> HIDE DEF Less, rank
  <2> QED BY <2>2, <2>3, <2>4, <2>5
<1>5. rank \in [S -> 1..n]
  BY <1>3
<1>6. \A r, s \in S : rank[r] = rank[s] => r = s
  <2>1. \A r \in S : rank[r] \in Int
    BY <1>2, <1>5
  <2> HIDE DEF rank
  <2> QED BY <1>1, <1>4, <2>1
<1>7. rank \in Surjection(S, 1..n)
  <2>1. rank \in Injection(S, 1..n)
    BY <1>5, <1>6 DEF Injection, IsInjective
  <2>2. IsFiniteSet(1..n) /\ Cardinality(1..n) = n
    BY <1>2, FS_Interval
  <2> HIDE DEF rank
  <2> QED BY <2>1, <2>2, FS_Injection
<1>8. \A k \in 1..n : \E r \in S : rank[r] = k
  BY <1>7 DEF Surjection
<1>9. ASSUME NEW k \in 1..n
      PROVE  ByStart(S)[k] \in S /\ rank[ByStart(S)[k]] = k
  <2>1. ByStart(S)[k] = CHOOSE r \in S : Cardinality(Less(r)) = k - 1
    BY DEF ByStart
  <2>2. \E r \in S : Cardinality(Less(r)) = k - 1
    <3>1. PICK r \in S : rank[r] = k
      BY <1>8
    <3>2. rank[r] = Cardinality(Less(r)) + 1 /\ Cardinality(Less(r)) \in Nat
      BY <1>3
    <3> HIDE DEF Less, rank
    <3>3. Cardinality(Less(r)) = k - 1
      BY <3>1, <3>2
    <3> QED BY <3>3
  <2>3. ByStart(S)[k] \in S /\ Cardinality(Less(ByStart(S)[k])) = k - 1
    BY <2>1, <2>2
  <2> QED BY <1>2, <2>3
<1>10. DOMAIN ByStart(S) = 1..n /\ ByStart(S) = [k \in 1..n |-> ByStart(S)[k]]
  <2> DEFINE g(k) == CHOOSE r \in S : Cardinality(Less(r)) = k - 1
  <2>1. ByStart(S) = [k \in 1..n |-> g(k)]
    BY DEF ByStart
  <2> HIDE DEF g
  <2> QED BY <2>1
<1> HIDE DEF rank
<1>11. \A r \in S : ByStart(S)[rank[r]] = r /\ rank[r] \in 1..n
  BY <1>5, <1>6, <1>9
<1>12. ASSUME NEW j \in 1..n, NEW k \in 1..n, j < k
       PROVE  ByStart(S)[j].start_time =< ByStart(S)[k].start_time
  <2>1. PICK r \in S, s \in S : /\ r = ByStart(S)[j] /\ s = ByStart(S)[k]
                                /\ rank[r] = j /\ rank[s] = k
    BY <1>9
  <2>2. ~Before(s, r) /\ r # s
    BY <1>2, <1>4, <1>12, <2>1
  <2> QED BY <1>1, <2>1, <2>2
<1> QED BY <1>2, <1>9, <1>10, <1>11, <1>12

IndexRow == [id : Nat, start_time : Nat, end_time : Nat, file_path : Nat,
             file_size : Nat]
IndexOp == [type : {"update", "event"}, segment : Int, time : Nat, size : Nat]
RecorderEntry == [recording : BOOLEAN, segment : Int, inserted : Int,
                  open : BOOLEAN, path : Int, startPts : Int, total : Nat]

OpsOf(q) == {q[k] : k \in 1..Len(q)}

(* No segment but those of X is finalized by two operations of a queue, ... *)
Once(q, X) ==
    \A j, k \in 1..Len(q) :
        /\ q[j].type = "update" /\ q[k].type = "update"
        /\ q[j].segment = q[k].segment /\ q[j].segment \notin X
        => j = k

(* ... or by operations of two queues.                                      *)
Apart(p, q, X) ==
    \A o \in OpsOf(p), u \in OpsOf(q) :
        /\ o.type = "update" /\ u.type = "update" /\ o.segment \notin X
        => o.segment # u.segment

Loop == flushing["loop"]
Caller == flushing["caller"]

AllOps == OpsOf(pending_ops_) \union OpsOf(Loop) \union OpsOf(Caller)

QueuesInv ==
    /\ pending_ops_ \in Seq(IndexOp) /\ flushing \in [Flushers -> Seq(IndexOp)]
    /\ Once(pending_ops_, misread) /\ Once(Loop, misread) /\ Once(Caller, misread)
    /\ Apart(pending_ops_, Loop, misread) /\ Apart(pending_ops_, Caller, misread)
    /\ Apart(Loop, Caller, misread)

Ends(ops) == {o \in ops : o.type = "update"}

(* What the operations in a queue are after Append and Tail.                *)
LEMMA AppendOps ==
    ASSUME NEW q \in Seq(IndexOp), NEW o \in IndexOp, NEW X
    PROVE  /\ Append(q, o) \in Seq(IndexOp)
           /\ OpsOf(Append(q, o)) = OpsOf(q) \union {o}
           /\ Once(q, X) /\ (o.type = "update" /\ o.segment \notin X =>
                                \A u \in Ends(OpsOf(q)) : u.segment # o.segment)
              => Once(Append(q, o), X)
<1>1. /\ Append(q, o) \in Seq(IndexOp) /\ Len(Append(q, o)) = Len(q) + 1
      /\ Len(q) \in Nat /\ Append(q, o)[Len(q) + 1] = o
      /\ \A k \in 1..Len(q) : Append(q, o)[k] = q[k]
  OBVIOUS
<1>2. \A k \in 1..(Len(q) + 1) : k \in 1..Len(q) \/ k = Len(q) + 1
  BY <1>1
<1>3. 1..Len(q) \subseteq 1..(Len(q) + 1) /\ Len(q) + 1 \in 1..(Len(q) + 1)
  BY <1>1
<1>4. PICK a : a = Append(q, o)
  OBVIOUS
<1>5. OpsOf(a) = OpsOf(q) \union {o}
  BY <1>1, <1>2, <1>3, <1>4 DEF OpsOf
<1>6. ASSUME Once(q, X), o.type = "update" /\ o.segment \notin X =>
                            \A u \in Ends(OpsOf(q)) : u.segment # o.segment,
             NEW j \in 1..Len(a), NEW k \in 1..Len(a),
             a[j].type = "update", a[k].type = "update", a[j].segment = a[k].segment,
             a[j].segment \notin X
      PROVE  j = k
  <2>1. \A i \in 1..Len(q) : q[i].type = "update" =>
            q[i] \in Ends(OpsOf(q))
    BY DEF Ends, OpsOf
  <2>2. CASE j \in 1..Len(q) /\ k \in 1..Len(q)
    BY <1>1, <1>4, <1>6, <2>2 DEF Once
  <2>3. CASE j \in 1..Len(q) /\ k = Len(q) + 1
    BY <1>1, <1>4, <1>6, <2>1, <2>3
  <2>4. CASE k \in 1..Len(q) /\ j = Len(q) + 1
    BY <1>1, <1>4, <1>6, <2>1, <2>4
  <2> QED BY <1>1, <1>2, <1>4, <1>6, <2>2, <2>3, <2>4
<1> QED BY <1>1, <1>4, <1>5, <1>6 DEF Once

(* What is left of a queue when its first operation is taken.               *)
LEMMA TailOps ==
    ASSUME NEW q \in Seq(IndexOp), q # <<>>, NEW X
    PROVE  /\ Tail(q) \in Seq(IndexOp) /\ Head(q) \in OpsOf(q) /\ Head(q) \in IndexOp
           /\ OpsOf(q) = OpsOf(Tail(q)) \union {Head(q)}
           /\ Once(q, X) => /\ Once(Tail(q), X)
                            /\ Head(q).type = "update" /\ Head(q).segment \notin X =>
                                 \A u \in Ends(OpsOf(Tail(q))) :
                                     u.segment # Head(q).segment
<1>1. PICK t : t = Tail(q)
  OBVIOUS
<1>2. /\ t \in Seq(IndexOp) /\ Len(t) = Len(q) - 1 /\ Len(q) \in Nat /\ Len(q) >= 1
      /\ \A k \in 1..Len(t) : t[k] = q[k + 1]
      /\ Head(q) = q[1] /\ q[1] \in IndexOp
  BY <1>1
<1>3. /\ 1 \in 1..Len(q)
      /\ \A k \in 1..Len(q) : k = 1 \/ (k - 1 \in 1..Len(t) /\ t[k - 1] = q[k])
      /\ \A k \in 1..Len(t) : k + 1 \in 1..Len(q) /\ k + 1 # 1
  <2>1. ASSUME NEW k \in 1..Len(q), k # 1 PROVE k - 1 \in 1..Len(t) /\ t[k - 1] = q[k]
    <3>1. k - 1 \in 1..Len(t) /\ (k - 1) + 1 = k
      BY <1>2, <2>1
    <3> QED BY <1>2, <3>1
  <2> QED BY <1>2, <2>1
<1>4. OpsOf(q) = OpsOf(t) \union {Head(q)}
  BY <1>2, <1>3 DEF OpsOf
<1>5. ASSUME Once(q, X) PROVE Once(t, X)
  <2>1. ASSUME NEW j \in 1..Len(t), NEW k \in 1..Len(t),
               t[j].type = "update", t[k].type = "update", t[j].segment = t[k].segment,
               t[j].segment \notin X
        PROVE  j = k
    <3>1. j + 1 = k + 1
      BY <1>2, <1>3, <1>5, <2>1 DEF Once
    <3> QED BY <1>2, <3>1
  <2> QED BY <2>1 DEF Once
<1>6. ASSUME Once(q, X), Head(q).type = "update", Head(q).segment \notin X,
             NEW u \in Ends(OpsOf(t))
      PROVE  u.segment # Head(q).segment
  <2>1. PICK k \in 1..Len(t) : u = t[k] /\ u.type = "update"
    BY <1>6 DEF Ends, OpsOf
  <2> QED BY <1>2, <1>3, <1>6, <2>1 DEF Once
<1>7. Head(q) \in OpsOf(q)
  BY <1>4
<1> QED BY <1>1, <1>2, <1>4, <1>5, <1>6, <1>7

(* An empty queue holds nothing.                                            *)
LEMMA NoOps ==
    OpsOf(<< >>) = {} /\ << >> \in Seq(IndexOp) /\ \A X : Once(<< >>, X)
BY DEF OpsOf, Once

(* Two threads flush the queue: the flush loop, and a caller of             *)
(* FlushPending.                                                            *)
LEMMA FlushersAre == Flushers = {"loop", "caller"}
BY DEF Flushers

(* The steps of the queues: an operation is queued, a queue is taken, an    *)
(* operation is applied.                                                    *)
LEMMA QueueGrows ==
    ASSUME QueuesInv, NEW o \in IndexOp, pending_ops_' = Append(pending_ops_, o),
           UNCHANGED <<flushing, misread>>,
           o.type = "update" /\ o.segment \notin misread =>
               \A u \in Ends(AllOps) : u.segment # o.segment
    PROVE  QueuesInv' /\ AllOps' = AllOps \union {o}
<1>1. pending_ops_ \in Seq(IndexOp) /\ Once(pending_ops_, misread)
  BY DEF QueuesInv
<1>2. Loop' = Loop /\ Caller' = Caller
  BY DEF Loop, Caller
<1>3. /\ pending_ops_' \in Seq(IndexOp)
      /\ OpsOf(pending_ops_') = OpsOf(pending_ops_) \union {o}
      /\ Once(pending_ops_', misread)
  <2>1. o.type = "update" /\ o.segment \notin misread =>
           \A u \in Ends(OpsOf(pending_ops_)) : u.segment # o.segment
    BY DEF Ends, AllOps
  <2> QED BY <1>1, <2>1, AppendOps
<1>4. AllOps' = AllOps \union {o}
  BY <1>2, <1>3 DEF AllOps
<1>5. \A u \in OpsOf(Loop) \union OpsOf(Caller) :
          /\ o.type = "update" /\ u.type = "update" /\ o.segment \notin misread
          => o.segment # u.segment
  BY DEF Ends, AllOps
<1>6. Apart(pending_ops_', Loop, misread) /\ Apart(pending_ops_', Caller, misread)
  BY <1>3, <1>5 DEF Apart, QueuesInv
<1> QED BY <1>2, <1>3, <1>4, <1>6 DEF QueuesInv

(* A flusher takes the whole queue: no operation is lost or doubled.        *)
LEMMA QueueTaken ==
    ASSUME QueuesInv, NEW f \in Flushers, flushing[f] = <<>>, pending_ops_' = <<>>,
           flushing' = [flushing EXCEPT ![f] = pending_ops_], UNCHANGED misread
    PROVE  QueuesInv' /\ AllOps' = AllOps
<1>1. /\ pending_ops_ \in Seq(IndexOp) /\ flushing \in [Flushers -> Seq(IndexOp)]
      /\ Once(pending_ops_, misread) /\ Once(Loop, misread) /\ Once(Caller, misread)
      /\ Apart(pending_ops_, Loop, misread) /\ Apart(pending_ops_, Caller, misread)
  BY DEF QueuesInv
<1>2. OpsOf(pending_ops_') = {} /\ Once(pending_ops_', misread) /\ pending_ops_' \in Seq(IndexOp)
  BY NoOps
<1>3. flushing' \in [Flushers -> Seq(IndexOp)]
  BY <1>1
<1>4. CASE f = "loop"
  <2>1. Loop' = pending_ops_ /\ Caller' = Caller /\ OpsOf(Loop) = {}
    BY <1>1, <1>4, NoOps DEF Loop, Caller, Flushers
  <2>2. /\ Apart(Loop', Caller', misread) /\ Apart(pending_ops_', Loop', misread)
        /\ Apart(pending_ops_', Caller', misread)
    BY <1>1, <1>2, <2>1 DEF Apart
  <2>3. AllOps' = AllOps
    BY <1>2, <2>1 DEF AllOps
  <2> QED BY <1>1, <1>2, <1>3, <2>1, <2>2, <2>3 DEF QueuesInv
<1>5. CASE f = "caller"
  <2>1. Caller' = pending_ops_ /\ Loop' = Loop /\ OpsOf(Caller) = {}
    BY <1>1, <1>5, NoOps DEF Loop, Caller, Flushers
  <2>2. /\ Apart(Loop', Caller', misread) /\ Apart(pending_ops_', Loop', misread)
        /\ Apart(pending_ops_', Caller', misread)
    BY <1>1, <1>2, <2>1 DEF Apart
  <2>3. AllOps' = AllOps
    BY <1>2, <2>1 DEF AllOps
  <2> QED BY <1>1, <1>2, <1>3, <2>1, <2>2, <2>3 DEF QueuesInv
<1> QED BY <1>4, <1>5 DEF Flushers

(* A flusher applies its first operation: only that one is no longer        *)
(* waiting.                                                                 *)
LEMMA OpApplied ==
    ASSUME QueuesInv, NEW f \in Flushers, flushing[f] # <<>>,
           UNCHANGED <<pending_ops_, misread>>,
           flushing' = [flushing EXCEPT ![f] = Tail(@)]
    PROVE  /\ QueuesInv' /\ AllOps = AllOps' \union {Head(flushing[f])}
           /\ Head(flushing[f]) \in IndexOp
           /\ Head(flushing[f]).type = "update" /\ Head(flushing[f]).segment \notin misread =>
                \A u \in Ends(AllOps') : u.segment # Head(flushing[f]).segment
<1>1. /\ pending_ops_ \in Seq(IndexOp) /\ flushing \in [Flushers -> Seq(IndexOp)]
      /\ Once(pending_ops_, misread) /\ Once(Loop, misread) /\ Once(Caller, misread)
      /\ Apart(pending_ops_, Loop, misread) /\ Apart(pending_ops_, Caller, misread)
      /\ Apart(Loop, Caller, misread)
  BY DEF QueuesInv
<1>2. PICK q, h : q = flushing[f] /\ h = Head(q)
  OBVIOUS
<1>3. /\ q \in Seq(IndexOp) /\ Once(q, misread)
  BY <1>1, <1>2 DEF Flushers, Loop, Caller
<1>4. /\ Tail(q) \in Seq(IndexOp) /\ h \in OpsOf(q) /\ h \in IndexOp /\ Once(Tail(q), misread)
      /\ OpsOf(q) = OpsOf(Tail(q)) \union {h}
      /\ h.type = "update" /\ h.segment \notin misread =>
            \A u \in Ends(OpsOf(Tail(q))) : u.segment # h.segment
  BY <1>2, <1>3, TailOps
<1>5. flushing' \in [Flushers -> Seq(IndexOp)] /\ flushing'[f] = Tail(q)
  BY <1>1, <1>2, <1>4
<1>6. CASE f = "loop"
  <2>1. q = Loop /\ Loop' = Tail(q) /\ Caller' = Caller
    BY <1>1, <1>2, <1>6 DEF Loop, Caller, Flushers
  <2>2. /\ Apart(Loop', Caller', misread) /\ Apart(pending_ops_', Loop', misread)
        /\ Apart(pending_ops_', Caller', misread)
    BY <1>1, <1>4, <2>1 DEF Apart
  <2>3. AllOps = AllOps' \union {h}
    BY <1>4, <2>1 DEF AllOps
  <2>4. ASSUME h.type = "update", h.segment \notin misread, NEW u \in Ends(AllOps')
        PROVE  u.segment # h.segment
    BY <1>1, <1>4, <2>1, <2>4 DEF Apart, AllOps, Ends
  <2> QED BY <1>1, <1>2, <1>4, <1>5, <2>1, <2>2, <2>3, <2>4 DEF QueuesInv
<1>7. CASE f = "caller"
  <2>1. q = Caller /\ Caller' = Tail(q) /\ Loop' = Loop
    BY <1>1, <1>2, <1>7 DEF Loop, Caller, Flushers
  <2>2. /\ Apart(Loop', Caller', misread) /\ Apart(pending_ops_', Loop', misread)
        /\ Apart(pending_ops_', Caller', misread)
    BY <1>1, <1>4, <2>1 DEF Apart
  <2>3. AllOps = AllOps' \union {h}
    BY <1>4, <2>1 DEF AllOps
  <2>4. ASSUME h.type = "update", h.segment \notin misread, NEW u \in Ends(AllOps')
        PROVE  u.segment # h.segment
    BY <1>1, <1>4, <2>1, <2>4 DEF Apart, AllOps, Ends
  <2> QED BY <1>1, <1>2, <1>4, <1>5, <2>1, <2>2, <2>3, <2>4 DEF QueuesInv
<1> QED BY <1>6, <1>7 DEF Flushers

(* A crash empties the queues.                                              *)
LEMMA QueuesLost ==
    ASSUME pending_ops_' = <<>>, flushing' = [f \in Flushers |-> <<>>]
    PROVE  QueuesInv' /\ AllOps' = {}
<1>1. Loop' = <<>> /\ Caller' = <<>>
  BY DEF Loop, Caller, Flushers
<1>2. flushing' \in [Flushers -> Seq(IndexOp)]
  BY NoOps
<1> QED BY <1>1, <1>2, NoOps DEF QueuesInv, AllOps, Apart

RowsOK ==
    /\ second \in Nat /\ nextRow \in Nat \ {0} /\ nextEvent \in Nat
    /\ last_insert_rowid \in Nat /\ misread \subseteq Nat
    /\ rows = [i \in DOMAIN rows |-> rows[i]]
    /\ DOMAIN rows \subseteq 1..(nextRow - 1)
    /\ \A i \in DOMAIN rows : /\ rows[i] \in IndexRow /\ rows[i].id = i
                              /\ rows[i].start_time =< second
    /\ markers \subseteq [segment : Int, time : Nat]

(* The segment that is being written; its id may have still to be read.     *)
Current == IF recorder.inserted = NoSegment THEN recorder.segment
                                            ELSE recorder.inserted

(* The ids the recorder may hold.                                           *)
Ids == 1..(nextRow - 1) \union misread

(* A segment that is to be finalized has not been, and is not the one being *)
(* written; neither is that one: unless its id was read for another row.    *)
EndsInv ==
    /\ recorder \in RecorderEntry
    /\ Current \in Ids \union {NoSegment}
    /\ Current \notin finalized \ misread
    /\ finalized \subseteq Ids
    /\ \A o \in Ends(AllOps) : /\ o.segment \in Ids
                               /\ o.segment \notin misread =>
                                    o.segment \notin finalized \union {Current}

(* An event in the index or in a queue.                                     *)
Happened(s, t) ==
    \/ [segment |-> s, time |-> t] \in markers
    \/ \E o \in AllOps : o.type = "event" /\ o.segment = s /\ o.time = t

(* An event is not before its segment, and not after the end that has been  *)
(* or will be written.                                                      *)
EventsInv ==
    \A s \in Int, t \in Nat : Happened(s, t) /\ s \notin misread =>
        /\ t =< second /\ s \in 1..(nextRow - 1) \union {NoSegment}
        /\ \A o \in Ends(AllOps) : o.segment = s => t =< o.time
        /\ s \in DOMAIN rows => rows[s].start_time =< t
        /\ s \in DOMAIN rows \intersect finalized => t =< rows[s].end_time

(* What the cleaner has fetched for its size is in order, and no other row  *)
(* is older.                                                                *)
BatchInv ==
    /\ \A j, k \in 1..Len(cleaner.todo) :
          j < k => cleaner.todo[j].start_time =< cleaner.todo[k].start_time
    /\ \A k \in 1..Len(cleaner.todo) :
          /\ cleaner.todo[k].start_time =< second
          /\ cleaner.todo[k].id < nextRow
          /\ cleaner.todo[k].id \in DOMAIN rows =>
                rows[cleaner.todo[k].id].start_time = cleaner.todo[k].start_time
    /\ \A i \in DOMAIN rows :
          \/ \E k \in 1..Len(cleaner.todo) : cleaner.todo[k].id = i
          \/ \A k \in 1..Len(cleaner.todo) :
                cleaner.todo[k].start_time =< rows[i].start_time
    /\ cleaner.path # NoPath => cleaner.todo[1].id \notin DOMAIN rows

CleanInv ==
    /\ cleaner = [pc |-> cleaner.pc, total |-> cleaner.total, todo |-> cleaner.todo,
                  path |-> cleaner.path]
    /\ cleaner.todo \in Seq(IndexRow)
    /\ cleaner.path # NoPath => /\ cleaner.todo # <<>>
                                /\ cleaner.pc \in {"sizeDelete", "ageDelete"}
    /\ cleaner.pc = "sizeDelete" => BatchInv

IndexInv == RowsOK /\ QueuesInv /\ EndsInv /\ EventsInv /\ CleanInv

(* Rows are inserted with the time, and keep the one they have.             *)
RowsGo ==
    /\ second' \in Nat /\ second =< second' /\ nextRow' \in Nat /\ nextRow =< nextRow'
    /\ misread \subseteq misread'
    /\ \A i \in DOMAIN rows' :
          \/ i \in DOMAIN rows /\ rows'[i].start_time = rows[i].start_time
          \/ i = nextRow /\ rows'[i].start_time = second

(* Ids in use stay in use when more are given.                              *)
LEMMA MoreIds ==
    ASSUME NEW m \in Nat, NEW n \in Nat, m =< n
    PROVE  \A i \in 1..(m - 1) : i \in 1..(n - 1)
OBVIOUS

(* No segment has the id that means none.                                   *)
LEMMA NoIdIsNoSegment ==
    ASSUME NEW n \in Nat
    PROVE  NoSegment \notin 1..(n - 1) /\ \A i \in 1..(n - 1) : i # NoSegment
BY DEF NoSegment

(* EventsInv is kept by a step whose new events are of the open segment and *)
(* of now, and whose new ends are of now.                                   *)
LEMMA EventsKept ==
    ASSUME RowsOK, EndsInv, EventsInv, RowsGo,
           \A s \in Int, t \in Nat : Happened(s, t)' /\ s \notin misread' =>
              \/ Happened(s, t)
              \/ /\ s = Current /\ t = second
                 /\ s \notin finalized' /\ \A o \in Ends(AllOps') : o.segment # s,
           \A o \in Ends(AllOps') : o \in Ends(AllOps) \/ o.time = second,
           \A i \in DOMAIN rows' \intersect finalized' : i \notin misread' =>
              \/ i \in DOMAIN rows \intersect finalized /\ rows'[i] = rows[i]
              \/ \E o \in Ends(AllOps) : o.segment = i /\ rows'[i].end_time = o.time
    PROVE  EventsInv'
<1> SUFFICES ASSUME NEW s \in Int, NEW t \in Nat, Happened(s, t)', s \notin misread'
             PROVE  /\ t =< second' /\ s \in 1..(nextRow' - 1) \union {NoSegment}
                    /\ \A o \in Ends(AllOps') : o.segment = s => t =< o.time
                    /\ s \in DOMAIN rows' => rows'[s].start_time =< t
                    /\ s \in DOMAIN rows' \intersect finalized' => t =< rows'[s].end_time
  BY DEF EventsInv
<1>0. /\ second \in Nat /\ second' \in Nat /\ second =< second' /\ nextRow \in Nat
      /\ nextRow' \in Nat /\ nextRow =< nextRow' /\ s \notin misread
      /\ \A i \in DOMAIN rows : rows[i].start_time \in Nat /\ rows[i].start_time =< second
  BY DEF RowsOK, RowsGo, IndexRow
<1>1. /\ nextRow \notin 1..(nextRow - 1) \union {NoSegment}
      /\ \A i \in 1..(nextRow - 1) \union {NoSegment} :
            i \in 1..(nextRow' - 1) \union {NoSegment}
  <2>1. nextRow # NoSegment /\ nextRow \notin 1..(nextRow - 1)
    BY <1>0 DEF NoSegment
  <2>2. \A i \in 1..(nextRow - 1) : i \in 1..(nextRow' - 1)
    BY <1>0, MoreIds
  <2> QED BY <2>1, <2>2
<1>2. CASE Happened(s, t)
  <2>1. /\ t =< second /\ s \in 1..(nextRow - 1) \union {NoSegment}
        /\ \A o \in Ends(AllOps) : o.segment = s => t =< o.time
        /\ s \in DOMAIN rows => rows[s].start_time =< t
        /\ s \in DOMAIN rows \intersect finalized => t =< rows[s].end_time
    BY <1>0, <1>2 DEF EventsInv
  <2>2. t =< second' /\ s \in 1..(nextRow' - 1) \union {NoSegment}
    <3>1. t =< second'
      BY <1>0, <2>1
    <3> QED BY <1>1, <2>1, <3>1
  <2>3. \A o \in Ends(AllOps') : o.segment = s => t =< o.time
    BY <2>1
  <2>4. s \in DOMAIN rows' => rows'[s].start_time =< t
    BY <1>1, <2>1 DEF RowsGo
  <2>5. s \in DOMAIN rows' \intersect finalized' => t =< rows'[s].end_time
    BY <2>1
  <2> QED BY <2>2, <2>3, <2>4, <2>5
<1>3. CASE /\ s = Current /\ t = second
           /\ s \notin finalized' /\ \A o \in Ends(AllOps') : o.segment # s
  <2>1. s \in 1..(nextRow - 1) \union {NoSegment}
    BY <1>0, <1>3 DEF EndsInv, Ids
  <2>2. s \in DOMAIN rows' => rows'[s].start_time =< t
    BY <1>0, <1>1, <1>3, <2>1 DEF RowsGo
  <2>3. t =< second' /\ s \in 1..(nextRow' - 1) \union {NoSegment}
    BY <1>0, <1>1, <1>3, <2>1
  <2> QED BY <1>3, <2>2, <2>3
<1> QED BY <1>2, <1>3

(* The cleaner's batch stays right while others add or change rows.         *)
LEMMA CleanKept ==
    ASSUME RowsOK, CleanInv, RowsGo, UNCHANGED cleaner
    PROVE  CleanInv'
<1>1. ASSUME cleaner.pc = "sizeDelete" PROVE BatchInv'
  <2>0. BatchInv /\ cleaner.todo \in Seq(IndexRow) /\ Len(cleaner.todo) \in Nat
    BY <1>1 DEF CleanInv
  <2>1. PICK todo : todo = cleaner.todo
    OBVIOUS
  <2>2. /\ second \in Nat /\ second' \in Nat /\ second =< second' /\ nextRow \in Nat
        /\ nextRow' \in Nat /\ nextRow =< nextRow'
        /\ \A k \in 1..Len(todo) : todo[k].start_time \in Nat /\ todo[k].id \in Nat
    <3>1. \A k \in 1..Len(todo) : todo[k] \in IndexRow
      BY <2>0, <2>1
    <3>2. \A k \in 1..Len(todo) : todo[k].start_time \in Nat /\ todo[k].id \in Nat
      BY <3>1 DEF IndexRow
    <3> QED BY <3>2 DEF RowsOK, RowsGo
  <2>3. /\ \A j, k \in 1..Len(todo) : j < k => todo[j].start_time =< todo[k].start_time
        /\ \A k \in 1..Len(todo) :
              /\ todo[k].start_time =< second
              /\ todo[k].id < nextRow
              /\ todo[k].id \in DOMAIN rows => rows[todo[k].id].start_time = todo[k].start_time
        /\ \A i \in DOMAIN rows :
              \/ \E k \in 1..Len(todo) : todo[k].id = i
              \/ \A k \in 1..Len(todo) : todo[k].start_time =< rows[i].start_time
        /\ cleaner.path # NoPath => todo[1].id \notin DOMAIN rows
    BY <2>0, <2>1 DEF BatchInv
  <2>4. \A k \in 1..Len(todo) :
              /\ todo[k].start_time =< second'
              /\ todo[k].id < nextRow'
              /\ todo[k].id \in DOMAIN rows' => rows'[todo[k].id].start_time = todo[k].start_time
    <3> SUFFICES ASSUME NEW k \in 1..Len(todo)
                 PROVE  /\ todo[k].start_time =< second'
                        /\ todo[k].id < nextRow'
                        /\ todo[k].id \in DOMAIN rows' =>
                              rows'[todo[k].id].start_time = todo[k].start_time
      OBVIOUS
    <3>1. todo[k].start_time =< second' /\ todo[k].id < nextRow'
      BY <2>2, <2>3
    <3>2. todo[k].id # nextRow
      BY <2>2, <2>3
    <3> QED BY <2>3, <3>1, <3>2 DEF RowsGo
  <2>5. \A i \in DOMAIN rows' :
              \/ \E k \in 1..Len(todo) : todo[k].id = i
              \/ \A k \in 1..Len(todo) : todo[k].start_time =< rows'[i].start_time
    BY <2>3 DEF RowsGo
  <2>6. cleaner.path # NoPath => todo[1].id \notin DOMAIN rows'
    <3>1. SUFFICES ASSUME cleaner.path # NoPath PROVE todo[1].id \notin DOMAIN rows'
      OBVIOUS
    <3>2. 1 \in 1..Len(todo)
      BY <2>0, <2>1, <3>1 DEF CleanInv
    <3> QED BY <2>2, <2>3, <3>1, <3>2 DEF RowsGo
  <2> QED BY <2>1, <2>3, <2>4, <2>5, <2>6 DEF BatchInv
<1> QED BY <1>1 DEF CleanInv

(* Steps that leave index, queues and cleaner alone.                        *)
LEMMA QuietStep ==
    ASSUME IndexInv, UNCHANGED <<indexVars, pending_ops_, flushing, cleaner>>,
           second' \in Nat, second =< second', recorder' \in RecorderEntry,
           Current' \in {Current, NoSegment}
    PROVE  IndexInv'
<1> USE DEF indexVars, eventVars, IndexInv
<1>1. RowsGo /\ RowsOK'
  BY DEF RowsOK, RowsGo, IndexRow
<1>2. QueuesInv' /\ AllOps' = AllOps
  BY DEF QueuesInv, AllOps, Loop, Caller
<1>3. EndsInv'
  <2>1. NoSegment \notin Ids
    BY NoIdIsNoSegment DEF RowsOK, Ids, NoSegment
  <2>2. Ids' = Ids
    BY DEF Ids
  <2> QED BY <1>2, <2>1, <2>2 DEF EndsInv
<1>4. EventsInv'
  <2>1. \A s \in Int, t \in Nat : Happened(s, t)' => Happened(s, t)
    BY <1>2 DEF Happened
  <2> QED BY <1>1, <1>2, <2>1, EventsKept
<1>5. CleanInv'
  BY <1>1, CleanKept
<1> QED BY <1>1, <1>2, <1>3, <1>4, <1>5

(* FlushPending and IndexerStop hand the queue over.                        *)
LEMMA TakeStep ==
    ASSUME IndexInv, UNCHANGED <<writerVars, indexVars, cleaner>>,
           NEW f \in Flushers, flushing[f] = <<>>, pending_ops_' = <<>>,
           flushing' = [flushing EXCEPT ![f] = pending_ops_]
    PROVE  IndexInv'
<1> USE DEF indexVars, eventVars, writerVars, IndexInv
<1>1. RowsGo /\ RowsOK'
  BY DEF RowsOK, RowsGo, IndexRow
<1>2. QueuesInv' /\ AllOps' = AllOps
  BY QueueTaken
<1>3. EndsInv'
  BY <1>2 DEF EndsInv, Current, Ids
<1>4. EventsInv'
  <2>1. \A s \in Int, t \in Nat : Happened(s, t)' => Happened(s, t)
    BY <1>2 DEF Happened
  <2> QED BY <1>1, <1>2, <2>1, EventsKept
<1>5. CleanInv'
  BY <1>1, CleanKept
<1> QED BY <1>1, <1>2, <1>3, <1>4, <1>5

(* FinalizeSegment queues the end of the segment being written.             *)
LEMMA Finalizes ==
    ASSUME IndexInv, Unlocked, NEW total \in Nat, UNCHANGED <<flushing, misread>>,
           pending_ops_' = FinalizeSegment(recorder.segment, total)
    PROVE  /\ QueuesInv' /\ AllOps \subseteq AllOps'
           /\ \A o \in AllOps' \ AllOps : /\ o.type = "update" /\ o.time = second
                                          /\ o.segment = Current
                                          /\ Current # NoSegment
<1>0. Current = recorder.segment
  BY DEF Current, Unlocked
<1>1. CASE recorder.segment = NoSegment
  <2>1. pending_ops_' = pending_ops_
    BY <1>1 DEF FinalizeSegment
  <2> QED BY <2>1 DEF IndexInv, QueuesInv, AllOps, Loop, Caller
<1>2. CASE recorder.segment # NoSegment
  <2>1. PICK o : /\ o = [type |-> "update", segment |-> recorder.segment,
                         time |-> second, size |-> total]
                 /\ pending_ops_' = Append(pending_ops_, o)
    BY <1>2 DEF FinalizeSegment, QueueOp
  <2>2. /\ o \in IndexOp /\ o.type = "update" /\ o.time = second
        /\ o.segment = recorder.segment
    <3>1. recorder.segment \in Int /\ second \in Nat
      BY DEF IndexInv, EndsInv, RecorderEntry, RowsOK
    <3> QED BY <2>1, <3>1 DEF IndexOp
  <2>3. o.segment \notin misread => \A u \in Ends(AllOps) : u.segment # o.segment
    BY <1>0, <2>2 DEF IndexInv, EndsInv
  <2>4. QueuesInv' /\ AllOps' = AllOps \union {o}
    BY <2>1, <2>2, <2>3, QueueGrows DEF IndexInv
  <2> QED BY <1>0, <1>2, <2>2, <2>4
<1> QED BY <1>1, <1>2

(* StopRecording finalizes the open segment.                                *)
LEMMA StopRecordingStep ==
    ASSUME IndexInv, StopRecording
    PROVE  IndexInv'
<1> USE DEF indexVars, eventVars, IndexInv
<1>0. /\ UNCHANGED <<second, indexVars, flushing, cleaner>> /\ Unlocked
      /\ pending_ops_' = FinalizeSegment(recorder.segment, recorder.total)
      /\ recorder' \in RecorderEntry /\ Current' = NoSegment
      /\ recorder.total \in Nat /\ recorder \in RecorderEntry
  BY DEF StopRecording, EndsInv, RecorderEntry, NotRecording, NoSegment, NoPath, Current
<1>1. RowsGo /\ RowsOK'
  BY <1>0 DEF RowsOK, RowsGo, IndexRow
<1>2. /\ QueuesInv' /\ AllOps \subseteq AllOps'
      /\ \A o \in AllOps' \ AllOps : /\ o.type = "update" /\ o.time = second
                                     /\ o.segment = Current
                                     /\ Current # NoSegment
  BY <1>0, Finalizes
<1>3. EndsInv'
  <2>1. \A o \in Ends(AllOps') :
           o \in Ends(AllOps) \/ (o.segment = Current /\ Current # NoSegment)
    BY <1>2 DEF Ends
  <2>2. NoSegment \notin Ids
    BY NoIdIsNoSegment DEF RowsOK, Ids, NoSegment
  <2>3. Ids' = Ids
    BY <1>0 DEF Ids
  <2> QED BY <1>0, <2>1, <2>2, <2>3 DEF EndsInv
<1>4. EventsInv'
  <2>1. \A s \in Int, t \in Nat : Happened(s, t)' => Happened(s, t)
    BY <1>0, <1>2 DEF Happened
  <2>2. \A o \in Ends(AllOps') : o \in Ends(AllOps) \/ o.time = second
    BY <1>2 DEF Ends
  <2> QED BY <1>0, <1>1, <1>2, <2>1, <2>2, EventsKept
<1>5. CleanInv'
  BY <1>0, <1>1, CleanKept
<1> QED BY <1>1, <1>2, <1>3, <1>4, <1>5

(* TriggerEventRecording marks the open segment.                            *)
LEMMA TriggerStep ==
    ASSUME IndexInv, TriggerEventRecording
    PROVE  IndexInv'
<1> USE DEF indexVars, eventVars, writerVars, IndexInv
<1>0. /\ UNCHANGED <<second, recorder, indexVars, flushing, cleaner>>
      /\ pending_ops_' = QueueOp("event", recorder.segment, 0)
      /\ Current = recorder.segment /\ Current' = Current /\ Ids' = Ids
  BY DEF TriggerEventRecording, Current, Unlocked, Ids
<1>1. RowsGo /\ RowsOK'
  BY <1>0 DEF RowsOK, RowsGo, IndexRow
<1>2. PICK o : /\ o = [type |-> "event", segment |-> recorder.segment,
                       time |-> second, size |-> 0]
               /\ pending_ops_' = Append(pending_ops_, o)
  BY <1>0 DEF QueueOp
<1>3. /\ o \in IndexOp /\ o.type = "event" /\ o.time = second
      /\ o.segment = recorder.segment
  <2>1. recorder.segment \in Int /\ second \in Nat
    BY DEF EndsInv, RecorderEntry, RowsOK
  <2> QED BY <1>2, <2>1 DEF IndexOp
<1>4. QueuesInv' /\ AllOps' = AllOps \union {o}
  BY <1>0, <1>2, <1>3, QueueGrows
<1>5. Ends(AllOps') = Ends(AllOps)
  BY <1>3, <1>4 DEF Ends
<1>6. EndsInv'
  BY <1>0, <1>5 DEF EndsInv, Ends
<1>7. EventsInv'
  <2>1. \A s \in Int, t \in Nat : Happened(s, t)' /\ s \notin misread' =>
           \/ Happened(s, t)
           \/ /\ s = Current /\ t = second
              /\ s \notin finalized' /\ \A u \in Ends(AllOps') : u.segment # s
    BY <1>0, <1>3, <1>4, <1>5 DEF Happened, EndsInv
  <2> QED BY <1>0, <1>1, <1>5, <2>1, EventsKept
<1>8. CleanInv'
  BY <1>0, <1>1, CleanKept
<1> QED BY <1>1, <1>4, <1>6, <1>7, <1>8

(* A crash leaves only the rows and the files.                              *)
LEMMA CrashStep ==
    ASSUME IndexInv, RecordingCrash
    PROVE  IndexInv'
<1> USE DEF indexVars, eventVars, IndexInv
<1>0. /\ UNCHANGED <<second, rows, nextRow, markers, nextEvent, finalized, misread>>
      /\ recorder' \in RecorderEntry /\ Current' = NoSegment /\ last_insert_rowid' = 0
      /\ pending_ops_' = <<>> /\ flushing' = [f \in Flushers |-> <<>>]
      /\ cleaner' = CleanerIdle
  BY DEF RecordingCrash, EndsInv, RecorderEntry, NotRecording, NoSegment, NoPath,
         Current
<1>1. RowsGo /\ RowsOK'
  BY <1>0 DEF RowsOK, RowsGo, IndexRow
<1>2. QueuesInv' /\ AllOps' = {}
  BY <1>0, QueuesLost
<1>3. EndsInv'
  <2>1. NoSegment \notin Ids
    BY NoIdIsNoSegment DEF RowsOK, Ids, NoSegment
  <2>2. Ids' = Ids
    BY <1>0 DEF Ids
  <2> QED BY <1>0, <1>2, <2>1, <2>2 DEF EndsInv, Ends
<1>4. EventsInv'
  <2>1. \A s \in Int, t \in Nat : Happened(s, t)' => Happened(s, t)
    BY <1>0, <1>2 DEF Happened
  <2>2. Ends(AllOps') = {}
    BY <1>2 DEF Ends
  <2> QED BY <1>0, <1>1, <1>2, <2>1, <2>2, EventsKept
<1>5. CleanInv'
  BY <1>0 DEF CleanInv, CleanerIdle, NoPath
<1> QED BY <1>1, <1>2, <1>3, <1>4, <1>5

(* WriteFrame: a packet of the segment being written, or the first one of   *)
(* a new segment, whose row is inserted and whose predecessor is finalized. *)
LEMMA WriteFrameStep ==
    ASSUME IndexInv, NEW pts \in Int, NEW key \in BOOLEAN, WriteFrame(pts, key)
    PROVE  IndexInv'
<1> USE DEF indexVars, eventVars, IndexInv
<1>0. /\ recorder \in RecorderEntry /\ second \in Nat /\ nextRow \in Nat \ {0}
      /\ Unlocked /\ recorder.inserted = NoSegment /\ Current = recorder.segment
      /\ UNCHANGED <<second, eventVars, finalized, misread, flushing, cleaner>>
  BY DEF WriteFrame, EndsInv, RowsOK, Unlocked, Current
<1>1. PICK path \in Int, rotated \in BOOLEAN, start \in Int, total \in Nat :
          /\ recorder' = [recorder EXCEPT
                            !.open = TRUE, !.path = path, !.total = total,
                            !.startPts = start,
                            !.segment = IF rotated THEN NoSegment ELSE @,
                            !.inserted = IF rotated THEN nextRow ELSE @]
          /\ IF rotated THEN NewSegment(total)
             ELSE UNCHANGED <<rows, nextRow, last_insert_rowid, pending_ops_>>
  <2> DEFINE path == IF OpensSegment(pts, key) THEN second ELSE recorder.path
             start == IF OpensSegment(pts, key) THEN pts ELSE recorder.startPts
  <2>1. /\ path \in Int /\ start \in Int /\ recorder.total + 1 \in Nat
        /\ (path # recorder.path) \in BOOLEAN
    BY <1>0 DEF RecorderEntry
  <2>2. /\ recorder' = [recorder EXCEPT
                          !.open = TRUE, !.path = path, !.total = recorder.total + 1,
                          !.startPts = start,
                          !.segment = IF path # recorder.path THEN NoSegment ELSE @,
                          !.inserted = IF path # recorder.path THEN nextRow ELSE @]
        /\ IF path # recorder.path THEN NewSegment(recorder.total + 1)
           ELSE UNCHANGED <<rows, nextRow, last_insert_rowid, pending_ops_>>
    BY DEF WriteFrame
  <2> HIDE DEF path, start
  <2> QED BY <2>1, <2>2
<1>2. /\ recorder' \in RecorderEntry
      /\ Current' = IF rotated THEN nextRow ELSE Current
  <2>1. PICK segment, inserted :
            /\ segment = IF rotated THEN NoSegment ELSE recorder.segment
            /\ inserted = IF rotated THEN nextRow ELSE recorder.inserted
    OBVIOUS
  <2>2. segment \in Int /\ inserted \in Int
    BY <1>0, <2>1 DEF RecorderEntry, NoSegment
  <2>3. recorder' = [recorder EXCEPT !.open = TRUE, !.path = path, !.total = total,
                                     !.startPts = start, !.segment = segment,
                                     !.inserted = inserted]
    BY <1>1, <2>1
  <2>4. /\ recorder' \in RecorderEntry /\ recorder'.segment = segment
        /\ recorder'.inserted = inserted
    BY <1>0, <2>2, <2>3 DEF RecorderEntry
  <2>5. rotated => nextRow # NoSegment
    BY <1>0 DEF NoSegment
  <2> QED BY <1>0, <2>1, <2>4, <2>5 DEF Current
<1>3. CASE ~rotated
  <2>1. UNCHANGED <<indexVars, pending_ops_, flushing, cleaner>> /\ Current' = Current
    BY <1>0, <1>1, <1>2, <1>3
  <2>2. second' \in Nat /\ second =< second'
    BY <1>0
  <2> HIDE DEF indexVars, eventVars, IndexInv
  <2> QED BY <1>2, <2>1, <2>2, QuietStep
<1>4. CASE rotated
  <2>0. /\ Current' = nextRow /\ nextRow' = nextRow + 1
        /\ last_insert_rowid' = nextRow
        /\ rows' = [i \in DOMAIN rows \union {nextRow} |->
                      IF i \in DOMAIN rows THEN rows[i]
                      ELSE [id |-> nextRow, start_time |-> second,
                            end_time |-> second, file_path |-> second,
                            file_size |-> 0]]
        /\ \/ pending_ops_' = pending_ops_
           \/ pending_ops_' = FinalizeSegment(recorder.segment, total)
    BY <1>1, <1>2, <1>4 DEF NewSegment, InsertSegment
  <2>1. /\ nextRow' \in Nat \ {0} /\ nextRow =< nextRow'
        /\ \A i \in 1..(nextRow - 1) : i \in 1..(nextRow' - 1)
        /\ nextRow \in 1..(nextRow' - 1) /\ nextRow \notin 1..(nextRow - 1)
        /\ nextRow # NoSegment
    BY <1>0, <2>0 DEF NoSegment
  <2>2. PICK row \in IndexRow :
            /\ row.id = nextRow /\ row.start_time = second
            /\ rows' = [i \in DOMAIN rows \union {nextRow} |->
                          IF i \in DOMAIN rows THEN rows[i] ELSE row]
    <3>1. PICK row : row = [id |-> nextRow, start_time |-> second,
                            end_time |-> second, file_path |-> second,
                            file_size |-> 0]
      OBVIOUS
    <3>2. row \in IndexRow /\ row.id = nextRow /\ row.start_time = second
      BY <1>0, <3>1 DEF IndexRow
    <3> QED BY <2>0, <3>1, <3>2
  <2>3. /\ rows = [i \in DOMAIN rows |-> rows[i]] /\ DOMAIN rows \subseteq 1..(nextRow - 1)
        /\ \A i \in DOMAIN rows : /\ rows[i] \in IndexRow /\ rows[i].id = i
                                  /\ rows[i].start_time =< second
    BY DEF RowsOK
  <2>4. /\ DOMAIN rows' = DOMAIN rows \union {nextRow} /\ rows'[nextRow] = row
        /\ \A i \in DOMAIN rows : rows'[i] = rows[i]
        /\ rows' = [i \in DOMAIN rows' |-> rows'[i]]
    BY <2>1, <2>2, <2>3
  <2>5. RowsGo
    BY <1>0, <2>1, <2>2, <2>4 DEF RowsGo
  <2>6. RowsOK'
    <3>1. DOMAIN rows' \subseteq 1..(nextRow' - 1)
      BY <2>1, <2>3, <2>4
    <3>2. \A i \in DOMAIN rows' : /\ rows'[i] \in IndexRow /\ rows'[i].id = i
                                  /\ rows'[i].start_time =< second
      BY <1>0, <2>2, <2>3, <2>4
    <3>3. /\ nextEvent' \in Nat /\ last_insert_rowid' \in Nat /\ misread' \subseteq Nat
          /\ markers' \subseteq [segment : Int, time : Nat]
      BY <1>0, <2>0 DEF RowsOK
    <3> QED BY <1>0, <2>1, <2>4, <3>1, <3>2, <3>3 DEF RowsOK
  <2>7. /\ QueuesInv' /\ AllOps \subseteq AllOps'
        /\ \A o \in AllOps' \ AllOps : /\ o.type = "update" /\ o.time = second
                                       /\ o.segment = Current
                                       /\ Current # NoSegment
    <3>1. CASE pending_ops_' = pending_ops_
      BY <1>0, <3>1 DEF QueuesInv, AllOps, Loop, Caller
    <3>2. CASE pending_ops_' = FinalizeSegment(recorder.segment, total)
      BY <1>0, <3>2, Finalizes
    <3> QED BY <2>0, <3>1, <3>2
  <2>8. EndsInv'
    <3>1. \A o \in Ends(AllOps') :
             o \in Ends(AllOps) \/ (o.segment = Current /\ Current # NoSegment)
      BY <2>7 DEF Ends
    <3>2. /\ Current \in Ids \union {NoSegment}
          /\ Current \notin finalized \ misread
          /\ finalized \subseteq Ids
          /\ \A o \in Ends(AllOps) : /\ o.segment \in Ids
                                     /\ o.segment \notin misread => o.segment \notin finalized
      BY DEF EndsInv
    <3>3. \A o \in Ends(AllOps') : /\ o.segment \in Ids
                                   /\ o.segment \notin misread => o.segment \notin finalized
      BY <3>1, <3>2
    <3>4. Ids \subseteq Ids' /\ nextRow \in Ids' /\ nextRow \notin Ids \ misread
      BY <1>0, <2>1 DEF Ids
    <3>5. \A o \in Ends(AllOps') : /\ o.segment \in Ids'
                                   /\ o.segment \notin misread => o.segment # nextRow
      BY <3>3, <3>4
    <3>6. nextRow \notin finalized \ misread /\ finalized \subseteq Ids'
      BY <3>2, <3>4
    <3> QED BY <1>0, <1>2, <2>0, <3>3, <3>4, <3>5, <3>6 DEF EndsInv
  <2>9. EventsInv'
    <3>1. \A s \in Int, t \in Nat : Happened(s, t)' => Happened(s, t)
      BY <1>0, <2>7 DEF Happened
    <3>2. \A o \in Ends(AllOps') : o \in Ends(AllOps) \/ o.time = second
      BY <2>7 DEF Ends
    <3>3. \A i \in DOMAIN rows' \intersect finalized' : i \notin misread' =>
             i \in DOMAIN rows \intersect finalized /\ rows'[i] = rows[i]
      BY <1>0, <2>1, <2>4 DEF EndsInv, Ids
    <3> QED BY <2>5, <3>1, <3>2, <3>3, EventsKept
  <2>10. CleanInv'
    BY <1>0, <2>5, CleanKept
  <2> QED BY <2>6, <2>7, <2>8, <2>9, <2>10
<1> QED BY <1>3, <1>4

(* ReadRowId: the id may be another row's, which is then misread.            *)
LEMMA ReadRowIdStep ==
    ASSUME IndexInv, ReadRowId
    PROVE  IndexInv'
<1> USE DEF IndexInv
<1>0. /\ UNCHANGED <<second, rows, nextRow, markers, nextEvent, last_insert_rowid,
                     finalized, pending_ops_, flushing, cleaner>>
      /\ recorder' = [recorder EXCEPT !.segment = last_insert_rowid,
                                      !.inserted = NoSegment]
      /\ misread' = misread \union ({last_insert_rowid} \ {Current})
  BY DEF ReadRowId, eventVars, queueVars, Current
<1>1. /\ recorder' \in RecorderEntry /\ Current' = last_insert_rowid
      /\ last_insert_rowid \in Nat /\ misread' \subseteq Nat /\ misread \subseteq misread'
      /\ last_insert_rowid \notin misread' => last_insert_rowid = Current
  <2>1. last_insert_rowid \in Nat /\ misread \subseteq Nat /\ recorder \in RecorderEntry
    BY DEF RowsOK, EndsInv
  <2>2. last_insert_rowid \in Int /\ NoSegment \in Int
    BY <2>1 DEF NoSegment
  <2>3. /\ recorder' \in RecorderEntry /\ recorder'.inserted = NoSegment
        /\ recorder'.segment = last_insert_rowid
    BY <1>0, <2>1, <2>2 DEF RecorderEntry
  <2> QED BY <1>0, <2>1, <2>3 DEF Current
<1>2. RowsGo /\ RowsOK'
  BY <1>0, <1>1 DEF RowsOK, RowsGo, IndexRow
<1>3. AllOps' = AllOps
  BY <1>0 DEF AllOps, Loop, Caller
<1>4. QueuesInv'
  BY <1>0, <1>1 DEF QueuesInv, Loop, Caller, Once, Apart
<1>5. EndsInv'
  <2>1. Ids \subseteq Ids' /\ last_insert_rowid \in Ids'
    BY <1>0, <1>1, NoIdIsNoSegment DEF Ids, EndsInv, NoSegment
  <2> QED BY <1>0, <1>1, <1>3, <2>1 DEF EndsInv
<1>6. EventsInv'
  <2>1. \A s \in Int, t \in Nat : Happened(s, t)' => Happened(s, t)
    BY <1>0, <1>3 DEF Happened
  <2> QED BY <1>0, <1>2, <1>3, <2>1, EventsKept
<1>7. CleanInv'
  BY <1>0, <1>2, CleanKept
<1> QED BY <1>2, <1>4, <1>5, <1>6, <1>7

(* ApplyOp: the end of a row, or an event, goes into the index.             *)
LEMMA ApplyStep ==
    ASSUME IndexInv, NEW f \in Flushers, ApplyOp(f)
    PROVE  /\ IndexInv'
           /\ \A i \in (finalized \ misread) \intersect DOMAIN rows
                                             \intersect DOMAIN rows' :
                 rows'[i] = rows[i]
           /\ DOMAIN rows' = DOMAIN rows
<1> USE DEF indexVars, eventVars, writerVars, IndexInv
<1>0. /\ UNCHANGED <<second, recorder, pending_ops_, misread, cleaner>>
      /\ flushing[f] # <<>> /\ flushing' = [flushing EXCEPT ![f] = Tail(@)]
      /\ Current' = Current
  BY DEF ApplyOp, UpdateSegmentEnd, InsertEvent, Current
<1>1. PICK op : op = Head(flushing[f])
  OBVIOUS
<1>2. /\ QueuesInv' /\ AllOps = AllOps' \union {op} /\ op \in IndexOp
      /\ op.type = "update" /\ op.segment \notin misread =>
            \A u \in Ends(AllOps') : u.segment # op.segment
  BY <1>0, <1>1, OpApplied
<1>3. Ends(AllOps') \subseteq Ends(AllOps)
  BY <1>2 DEF Ends
<1>4. op.type = "update" => op \in Ends(AllOps)
  BY <1>2 DEF Ends
<1>5. /\ second \in Nat /\ nextRow \in Nat \ {0} /\ nextEvent \in Nat
      /\ last_insert_rowid \in Nat /\ misread \subseteq Nat
      /\ rows = [i \in DOMAIN rows |-> rows[i]] /\ DOMAIN rows \subseteq 1..(nextRow - 1)
      /\ \A i \in DOMAIN rows : /\ rows[i] \in IndexRow /\ rows[i].id = i
                                /\ rows[i].start_time =< second
      /\ markers \subseteq [segment : Int, time : Nat]
  BY DEF RowsOK
<1>6. CASE op.type = "update"
  <2>1. /\ rows' = IF op.segment \in DOMAIN rows
                   THEN [rows EXCEPT ![op.segment] =
                           [@ EXCEPT !.end_time = op.time, !.file_size = op.size]]
                   ELSE rows
        /\ finalized' = finalized \union {op.segment}
        /\ UNCHANGED <<nextRow, markers, nextEvent, last_insert_rowid>>
    BY <1>1, <1>6 DEF ApplyOp, UpdateSegmentEnd
  <2>2. /\ DOMAIN rows' = DOMAIN rows /\ rows' = [i \in DOMAIN rows' |-> rows'[i]]
        /\ \A i \in DOMAIN rows : i # op.segment => rows'[i] = rows[i]
        /\ op.segment \in DOMAIN rows =>
              rows'[op.segment] = [rows[op.segment] EXCEPT
                                     !.end_time = op.time, !.file_size = op.size]
    BY <1>5, <2>1
  <2>3. ASSUME op.segment \in DOMAIN rows
        PROVE  /\ rows'[op.segment] \in IndexRow
               /\ rows'[op.segment].id = op.segment
               /\ rows'[op.segment].start_time = rows[op.segment].start_time
               /\ rows'[op.segment].end_time = op.time
    <3>1. rows[op.segment] \in IndexRow /\ rows[op.segment].id = op.segment
      BY <1>5, <2>3
    <3>2. op.time \in Nat /\ op.size \in Nat
      BY <1>2 DEF IndexOp
    <3> QED BY <2>2, <2>3, <3>1, <3>2 DEF IndexRow
  <2>4. RowsGo
    BY <1>0, <1>5, <2>1, <2>2, <2>3 DEF RowsGo
  <2>5. RowsOK'
    <3>1. \A i \in DOMAIN rows' : /\ rows'[i] \in IndexRow /\ rows'[i].id = i
                                  /\ rows'[i].start_time =< second
      BY <1>5, <2>2, <2>3
    <3> QED BY <1>0, <1>5, <2>1, <2>2, <3>1 DEF RowsOK
  <2>6. /\ op.segment \in Ids
        /\ op.segment \notin misread => op.segment \notin finalized \union {Current}
    BY <1>4, <1>6 DEF EndsInv
  <2>7. EndsInv'
    <3>1. Ids' = Ids
      BY <1>0, <2>1 DEF Ids
    <3> QED BY <1>0, <1>2, <1>3, <1>6, <2>1, <2>6, <3>1 DEF EndsInv
  <2>8. EventsInv'
    <3>1. \A s \in Int, t \in Nat : Happened(s, t)' => Happened(s, t)
      BY <1>2, <2>1 DEF Happened
    <3>2. \A i \in DOMAIN rows' \intersect finalized' : i \notin misread' =>
             \/ i \in DOMAIN rows \intersect finalized /\ rows'[i] = rows[i]
             \/ \E o \in Ends(AllOps) : o.segment = i /\ rows'[i].end_time = o.time
      BY <1>4, <1>6, <2>1, <2>2, <2>3
    <3> QED BY <1>3, <2>4, <3>1, <3>2, EventsKept
  <2>9. CleanInv'
    BY <1>0, <2>4, CleanKept
  <2> QED BY <1>2, <2>2, <2>5, <2>6, <2>7, <2>8, <2>9
<1>7. CASE op.type # "update"
  <2>1. /\ markers' = markers \union {[segment |-> op.segment, time |-> op.time]}
        /\ UNCHANGED <<rows, nextRow, finalized>>
        /\ nextEvent' = nextEvent + 1 /\ last_insert_rowid' = nextEvent
    BY <1>1, <1>7 DEF ApplyOp, InsertEvent
  <2>2. op.type = "event" /\ op.segment \in Int /\ op.time \in Nat
    BY <1>2, <1>7 DEF IndexOp
  <2>3. RowsGo /\ RowsOK'
    BY <1>0, <1>5, <2>1, <2>2 DEF RowsGo, RowsOK
  <2>4. EndsInv'
    <3>1. Ids' = Ids
      BY <1>0, <2>1 DEF Ids
    <3> QED BY <1>0, <1>3, <2>1, <3>1 DEF EndsInv
  <2>5. \A s \in Int, t \in Nat : Happened(s, t)' => Happened(s, t)
    <3> SUFFICES ASSUME NEW s \in Int, NEW t \in Nat, Happened(s, t)' PROVE Happened(s, t)
      OBVIOUS
    <3>1. CASE [segment |-> s, time |-> t] \in markers'
      <4>1. CASE [segment |-> s, time |-> t] \in markers
        BY <4>1 DEF Happened
      <4>2. CASE [segment |-> s, time |-> t] = [segment |-> op.segment, time |-> op.time]
        <5>1. s = op.segment /\ t = op.time
          BY <4>2
        <5> QED BY <1>2, <2>2, <5>1 DEF Happened
      <4> QED BY <2>1, <3>1, <4>1, <4>2
    <3>2. CASE \E o \in AllOps' : o.type = "event" /\ o.segment = s /\ o.time = t
      BY <1>2, <3>2 DEF Happened
    <3> QED BY <3>1, <3>2 DEF Happened
  <2>6. EventsInv'
    BY <1>3, <2>1, <2>3, <2>5, EventsKept
  <2>7. CleanInv'
    BY <1>0, <2>3, CleanKept
  <2> QED BY <1>2, <2>1, <2>3, <2>4, <2>6, <2>7
<1> QED BY <1>6, <1>7

(* Any set of rows can be sorted.                                           *)
LEMMA SortedRows ==
    ASSUME RowsOK, NEW S \in SUBSET AllRows
    PROVE  /\ ByStart(S) \in Seq(S) /\ S \subseteq IndexRow
           /\ \A r \in S : r.id \in DOMAIN rows /\ rows[r.id] = r
           /\ \A r \in S : \E k \in 1..Len(ByStart(S)) : ByStart(S)[k] = r
           /\ \A j, k \in 1..Len(ByStart(S)) :
                 j < k => ByStart(S)[j].start_time =< ByStart(S)[k].start_time
<1>1. \A r \in AllRows : r.id \in DOMAIN rows /\ rows[r.id] = r /\ r \in IndexRow
  BY DEF AllRows, RowsOK
<1>2. IsFiniteSet(S)
  <2>1. rows \in Surjection(DOMAIN rows, AllRows)
    <3>1. rows \in [DOMAIN rows -> AllRows]
      BY DEF RowsOK, AllRows
    <3> QED BY <3>1 DEF Surjection, AllRows
  <2>2. IsFiniteSet(DOMAIN rows)
    <3>1. IsFiniteSet(1..(nextRow - 1))
      <4>1. 1 \in Int /\ nextRow - 1 \in Int
        BY DEF RowsOK
      <4> QED BY <4>1, FS_Interval
    <3> QED BY <3>1, FS_Subset DEF RowsOK
  <2>3. IsFiniteSet(AllRows)
    BY <2>1, <2>2, FS_Surjection
  <2> QED BY <2>3, FS_Subset
<1>3. \A r \in S : r.start_time \in Int /\ r.id \in Int
  BY <1>1 DEF IndexRow
<1>4. \A r, s \in S : r.id = s.id => r = s
  BY <1>1
<1>5. PICK n, q : n = Cardinality(S) /\ q = ByStart(S)
  OBVIOUS
<1>6. /\ n \in Nat /\ DOMAIN q = 1..n /\ q = [k \in 1..n |-> q[k]]
      /\ \A k \in 1..n : q[k] \in S
      /\ \A r \in S : \E k \in 1..n : q[k] = r
      /\ \A j, k \in 1..n : j < k => q[j].start_time =< q[k].start_time
  BY <1>2, <1>3, <1>4, <1>5, Sorting
<1>7. q \in Seq(S) /\ Len(q) = n
  BY <1>6
<1> QED BY <1>1, <1>5, <1>6, <1>7

(* The query of the size limit: no row that it leaves out is older.         *)
LEMMA OldestFetched ==
    ASSUME RowsOK, CleanBatch \in Nat
    PROVE  LET todo == GetOldestSegments(CleanBatch)
           IN  /\ todo \in Seq(IndexRow)
               /\ \A j, k \in 1..Len(todo) :
                     j < k => todo[j].start_time =< todo[k].start_time
               /\ \A k \in 1..Len(todo) : todo[k].id \in DOMAIN rows /\ rows[todo[k].id] = todo[k]
               /\ \A i \in DOMAIN rows :
                     \/ \E k \in 1..Len(todo) : todo[k].id = i
                     \/ \A k \in 1..Len(todo) : todo[k].start_time =< rows[i].start_time
<1>1. PICK all : all = ByStart(AllRows)
  OBVIOUS
<1>2. /\ all \in Seq(AllRows) /\ AllRows \subseteq IndexRow
      /\ \A r \in AllRows : r.id \in DOMAIN rows /\ rows[r.id] = r
      /\ \A r \in AllRows : \E k \in 1..Len(all) : all[k] = r
      /\ \A j, k \in 1..Len(all) : j < k => all[j].start_time =< all[k].start_time
  BY <1>1, SortedRows
<1>3. PICK m : m = IF Len(all) < CleanBatch THEN Len(all) ELSE CleanBatch
  OBVIOUS
<1>4. m \in Nat /\ m =< Len(all) /\ Len(all) \in Nat
  BY <1>2, <1>3
<1>5. PICK todo : todo = GetOldestSegments(CleanBatch)
  OBVIOUS
<1>6. todo = SubSeq(all, 1, m)
  BY <1>1, <1>3, <1>5 DEF GetOldestSegments
<1>7. /\ todo \in Seq(AllRows) /\ Len(todo) = m /\ \A k \in 1..m : todo[k] = all[k]
  BY <1>2, <1>4, <1>6
<1>8. \A k \in 1..m : k \in 1..Len(all) /\ all[k] \in AllRows
  BY <1>2, <1>4
<1>9. todo \in Seq(IndexRow)
  BY <1>2, <1>4, <1>7, <1>8
<1>10. ASSUME NEW i \in DOMAIN rows, ~ \E k \in 1..m : todo[k].id = i, NEW k \in 1..m
       PROVE  todo[k].start_time =< rows[i].start_time
  <2>1. PICK n \in 1..Len(all) : all[n] = rows[i]
    BY <1>2 DEF AllRows
  <2>2. rows[i].id = i
    BY DEF RowsOK
  <2>3. n \notin 1..m
    BY <1>7, <1>10, <2>1, <2>2
  <2>4. k < n
    BY <1>4, <2>3
  <2> QED BY <1>2, <1>7, <1>8, <2>1, <2>4
<1> QED BY <1>2, <1>5, <1>7, <1>8, <1>9, <1>10

(* The steps of the cleaner that only read.                                 *)
LEMMA CleanerReads ==
    ASSUME IndexInv, UNCHANGED <<writerVars, queueVars, indexVars>>, CleanInv'
    PROVE  IndexInv'
<1> USE DEF indexVars, eventVars, writerVars, queueVars, IndexInv
<1>1. RowsOK'
  BY DEF RowsOK
<1>2. QueuesInv' /\ AllOps' = AllOps
  BY DEF QueuesInv, AllOps, Loop, Caller
<1>3. EndsInv' /\ EventsInv'
  BY <1>2 DEF EndsInv, EventsInv, Happened, Current, Ids
<1> QED BY <1>1, <1>2, <1>3

(* What is known of the cleaner where no removal is under way.              *)
LEMMA CleanerFree ==
    ASSUME CleanInv, \/ cleaner.pc \notin {"sizeDelete", "ageDelete"}
                     \/ cleaner.todo = <<>>
    PROVE  /\ cleaner = [pc |-> cleaner.pc, total |-> cleaner.total,
                         todo |-> cleaner.todo, path |-> cleaner.path]
           /\ cleaner.todo \in Seq(IndexRow) /\ cleaner.path = NoPath
BY DEF CleanInv

(* The cleaner starts a round.                                              *)
LEMMA CleanBeginStep ==
    ASSUME IndexInv, CleanBegin
    PROVE  IndexInv'
<1>1. PICK total, pc : /\ cleaner' = [cleaner EXCEPT !.total = total, !.pc = pc]
                       /\ pc \in {"size", "age"}
  BY DEF CleanBegin
<1>2. /\ cleaner = [pc |-> cleaner.pc, total |-> cleaner.total, todo |-> cleaner.todo,
                    path |-> cleaner.path]
      /\ cleaner.todo \in Seq(IndexRow) /\ cleaner.path = NoPath
  BY CleanerFree DEF IndexInv, CleanBegin
<1>3. cleaner' = [pc |-> pc, total |-> total, todo |-> cleaner.todo, path |-> NoPath]
  BY <1>1, <1>2
<1>4. CleanInv'
  BY <1>1, <1>2, <1>3 DEF CleanInv
<1> QED BY <1>4, CleanerReads DEF CleanBegin, CleanerRest

(* The cleaner reads its next batch.                                        *)
LEMMA CleanFetchStep ==
    ASSUME IndexInv, CleanFetch
    PROVE  IndexInv'
<1>1. /\ cleaner = [pc |-> cleaner.pc, total |-> cleaner.total, todo |-> cleaner.todo,
                    path |-> cleaner.path]
      /\ cleaner.todo \in Seq(IndexRow) /\ cleaner.path = NoPath
  BY CleanerFree DEF IndexInv, CleanFetch
<1>2. RowsOK /\ UNCHANGED <<rows, second, nextRow>>
  BY DEF IndexInv, CleanFetch, CleanerRest, writerVars, indexVars
<1>3. CASE cleaner' = [cleaner EXCEPT !.pc = "age"]
  <2>1. cleaner' = [pc |-> "age", total |-> cleaner.total, todo |-> cleaner.todo,
                    path |-> NoPath]
    BY <1>1, <1>3
  <2>2. CleanInv'
    BY <1>1, <2>1 DEF CleanInv
  <2> QED BY <2>2, CleanerReads DEF CleanFetch, CleanerRest
<1>4. CASE cleaner' = [cleaner EXCEPT !.pc = "sizeDelete",
                                      !.todo = GetOldestSegments(CleanBatch)]
  <2>1. PICK todo : todo = GetOldestSegments(CleanBatch)
    OBVIOUS
  <2>2. /\ todo \in Seq(IndexRow)
        /\ \A j, k \in 1..Len(todo) : j < k => todo[j].start_time =< todo[k].start_time
        /\ \A k \in 1..Len(todo) : todo[k].id \in DOMAIN rows /\ rows[todo[k].id] = todo[k]
        /\ \A i \in DOMAIN rows :
              \/ \E k \in 1..Len(todo) : todo[k].id = i
              \/ \A k \in 1..Len(todo) : todo[k].start_time =< rows[i].start_time
    BY <1>2, <2>1, OldestFetched, RecordingAssumption
  <2>3. cleaner' = [cleaner EXCEPT !.pc = "sizeDelete", !.todo = todo]
    BY <1>4, <2>1
  <2>4. cleaner' = [pc |-> "sizeDelete", total |-> cleaner.total, todo |-> todo,
                    path |-> NoPath]
    BY <1>1, <2>3
  <2>5. cleaner'.todo = todo /\ cleaner'.path = NoPath
    BY <2>4
  <2>6. \A k \in 1..Len(todo) : todo[k].start_time =< second /\ todo[k].id < nextRow
    BY <1>2, <2>2 DEF RowsOK
  <2>7. BatchInv'
    BY <1>2, <2>2, <2>5, <2>6 DEF BatchInv
  <2>8. CleanInv'
    BY <2>2, <2>4, <2>7 DEF CleanInv
  <2> QED BY <2>8, CleanerReads DEF CleanFetch, CleanerRest
<1> QED BY <1>3, <1>4 DEF CleanFetch

(* The cleaner turns to the rows that are too old.                          *)
LEMMA CleanAgeStep ==
    ASSUME IndexInv, CleanAge
    PROVE  IndexInv'
<1>1. /\ cleaner = [pc |-> cleaner.pc, total |-> cleaner.total, todo |-> cleaner.todo,
                    path |-> cleaner.path]
      /\ cleaner.todo \in Seq(IndexRow) /\ cleaner.path = NoPath
  BY CleanerFree DEF IndexInv, CleanAge
<1>2. PICK todo : todo = QuerySegments(0, second - MaxAge)
  OBVIOUS
<1>3. todo \in Seq(IndexRow)
  <2>1. PICK S \in SUBSET AllRows : todo = ByStart(S)
    BY <1>2 DEF QuerySegments
  <2>2. todo \in Seq(S) /\ S \subseteq IndexRow
    BY <2>1, SortedRows DEF IndexInv
  <2> QED BY <2>2
<1>4. cleaner' = [cleaner EXCEPT !.pc = "ageDelete", !.todo = todo]
  BY <1>2 DEF CleanAge
<1>5. cleaner' = [pc |-> "ageDelete", total |-> cleaner.total, todo |-> todo,
                  path |-> NoPath]
  BY <1>1, <1>4
<1>6. CleanInv'
  BY <1>3, <1>5 DEF CleanInv
<1> QED BY <1>6, CleanerReads DEF CleanAge, CleanerRest

(* The cleaner is done with a batch.                                        *)
LEMMA CleanBatchDoneStep ==
    ASSUME IndexInv, CleanBatchDone
    PROVE  IndexInv'
<1>1. /\ cleaner = [pc |-> cleaner.pc, total |-> cleaner.total, todo |-> cleaner.todo,
                    path |-> cleaner.path]
      /\ cleaner.todo \in Seq(IndexRow) /\ cleaner.path = NoPath
  BY CleanerFree DEF IndexInv, CleanBatchDone
<1>2. CASE cleaner' = [cleaner EXCEPT !.pc = "size"]
  <2>1. cleaner' = [pc |-> "size", total |-> cleaner.total, todo |-> cleaner.todo,
                    path |-> NoPath]
    BY <1>1, <1>2
  <2>2. CleanInv'
    BY <1>1, <2>1 DEF CleanInv
  <2> QED BY <2>2, CleanerReads DEF CleanBatchDone, CleanerRest
<1>3. CASE cleaner' = CleanerIdle
  <2>1. CleanInv'
    BY <1>3 DEF CleanInv, CleanerIdle
  <2> QED BY <2>1, CleanerReads DEF CleanBatchDone, CleanerRest
<1> QED BY <1>2, <1>3 DEF CleanBatchDone

(* CleanDelete: the oldest row of the batch goes, and its events.           *)
LEMMA CleanDeleteStep ==
    ASSUME IndexInv, CleanDelete
    PROVE  /\ IndexInv'
           /\ \A i \in DOMAIN rows' : i \in DOMAIN rows /\ rows'[i] = rows[i]
           /\ cleaner.pc = "sizeDelete" =>
                \A gone \in DOMAIN rows \ DOMAIN rows' : \A i \in DOMAIN rows' :
                    rows[gone].start_time =< rows[i].start_time
<1> USE DEF indexVars, eventVars, writerVars, queueVars, IndexInv
<1>0. /\ UNCHANGED <<second, recorder, nextRow, nextEvent, last_insert_rowid, finalized,
                     misread, pending_ops_, flushing>>
      /\ cleaner.todo # <<>> /\ cleaner.path = NoPath
      /\ cleaner.pc \in {"sizeDelete", "ageDelete"}
      /\ cleaner.todo \in Seq(IndexRow)
      /\ cleaner = [pc |-> cleaner.pc, total |-> cleaner.total,
                    todo |-> cleaner.todo, path |-> cleaner.path]
  BY DEF CleanDelete, CleanerRest, DeleteSegment, CleanInv
<1>1. PICK todo, head : todo = cleaner.todo /\ head = todo[1]
  OBVIOUS
<1>2. /\ Head(cleaner.todo) = head /\ head \in IndexRow /\ todo \in Seq(IndexRow)
      /\ 1 \in 1..Len(todo) /\ todo # <<>> /\ Len(todo) \in Nat
  BY <1>0, <1>1
<1>3. /\ rows' = [i \in DOMAIN rows \ {head.id} |-> rows[i]]
      /\ markers' = {e \in markers : e.segment # head.id}
      /\ cleaner' = [cleaner EXCEPT !.path = head.file_path]
  BY <1>2 DEF CleanDelete, DeleteSegment
<1>4. cleaner' = [pc |-> cleaner.pc, total |-> cleaner.total, todo |-> todo,
                  path |-> head.file_path]
  BY <1>0, <1>1, <1>3
<1>5. /\ DOMAIN rows' = DOMAIN rows \ {head.id} /\ markers' \subseteq markers
      /\ \A i \in DOMAIN rows' : i \in DOMAIN rows /\ rows'[i] = rows[i]
      /\ rows' = [i \in DOMAIN rows' |-> rows'[i]]
  BY <1>3
<1>6. RowsGo /\ RowsOK'
  BY <1>0, <1>5 DEF RowsGo, RowsOK
<1>7. QueuesInv' /\ AllOps' = AllOps
  BY <1>0 DEF QueuesInv, AllOps, Loop, Caller
<1>8. EndsInv'
  BY <1>0, <1>7 DEF EndsInv, Current, Ids
<1>9. EventsInv'
  <2>1. \A s \in Int, t \in Nat : Happened(s, t)' => Happened(s, t)
    BY <1>5, <1>7 DEF Happened
  <2>2. \A i \in DOMAIN rows' \intersect finalized' :
           i \in DOMAIN rows \intersect finalized /\ rows'[i] = rows[i]
    BY <1>0, <1>5
  <2> QED BY <1>6, <1>7, <2>1, <2>2, EventsKept
<1>10. ASSUME cleaner.pc = "sizeDelete"
       PROVE  /\ \A j, k \in 1..Len(todo) : j < k => todo[j].start_time =< todo[k].start_time
              /\ \A k \in 1..Len(todo) :
                    /\ todo[k].start_time =< second
                    /\ todo[k].id < nextRow
                    /\ todo[k].id \in DOMAIN rows =>
                          rows[todo[k].id].start_time = todo[k].start_time
              /\ \A i \in DOMAIN rows :
                    \/ \E k \in 1..Len(todo) : todo[k].id = i
                    \/ \A k \in 1..Len(todo) : todo[k].start_time =< rows[i].start_time
  BY <1>1, <1>10 DEF CleanInv, BatchInv
<1>11. CleanInv'
  <2>1. cleaner'.todo = todo /\ cleaner'.pc = cleaner.pc
    BY <1>4
  <2>2. ASSUME cleaner.pc = "sizeDelete" PROVE BatchInv'
    <3>1. /\ \A k \in 1..Len(todo) : todo[k].id \in DOMAIN rows' =>
                rows'[todo[k].id].start_time = todo[k].start_time
          /\ \A i \in DOMAIN rows' :
                \/ \E k \in 1..Len(todo) : todo[k].id = i
                \/ \A k \in 1..Len(todo) : todo[k].start_time =< rows'[i].start_time
      BY <1>5, <1>10, <2>2
    <3>2. todo[1].id \notin DOMAIN rows'
      BY <1>1, <1>5
    <3> QED BY <1>0, <1>10, <2>1, <2>2, <3>1, <3>2 DEF BatchInv
  <2> QED BY <1>0, <1>2, <1>4, <2>1, <2>2 DEF CleanInv
<1>12. ASSUME cleaner.pc = "sizeDelete",
              NEW gone \in DOMAIN rows \ DOMAIN rows', NEW i \in DOMAIN rows'
       PROVE  rows[gone].start_time =< rows[i].start_time
  <2>1. gone = todo[1].id /\ i \in DOMAIN rows /\ rows[gone].start_time = todo[1].start_time
    BY <1>1, <1>2, <1>5, <1>10, <1>12
  <2>2. CASE \E k \in 1..Len(todo) : todo[k].id = i
    <3>1. PICK k \in 1..Len(todo) : todo[k].id = i
      BY <2>2
    <3>2. k # 1 /\ 1 < k
      BY <1>1, <1>2, <1>5, <3>1
    <3> QED BY <1>2, <1>10, <1>12, <2>1, <3>1, <3>2
  <2>3. CASE \A k \in 1..Len(todo) : todo[k].start_time =< rows[i].start_time
    BY <1>2, <2>1, <2>3
  <2> QED BY <1>10, <1>12, <2>1, <2>2, <2>3
<1> QED BY <1>5, <1>6, <1>7, <1>8, <1>9, <1>11, <1>12

(* CleanRemove: its file goes, or stays, and the batch continues.           *)
LEMMA CleanRemoveStep ==
    ASSUME IndexInv, NEW ok \in BOOLEAN, CleanRemove(ok)
    PROVE  IndexInv'
<1> USE DEF IndexInv
<1>0. /\ cleaner.path # NoPath /\ cleaner.todo # <<>>
      /\ cleaner.pc \in {"sizeDelete", "ageDelete"}
      /\ cleaner.todo \in Seq(IndexRow) /\ UNCHANGED <<second, rows, nextRow>>
      /\ cleaner = [pc |-> cleaner.pc, total |-> cleaner.total,
                    todo |-> cleaner.todo, path |-> cleaner.path]
  BY DEF CleanRemove, CleanInv, CleanerRest, writerVars, indexVars
<1>1. PICK todo, rest : todo = cleaner.todo /\ rest = Tail(todo)
  OBVIOUS
<1>2. PICK total : cleaner' = [cleaner EXCEPT !.path = NoPath, !.todo = rest,
                                              !.total = total]
  BY <1>1 DEF CleanRemove
<1>3. cleaner' = [pc |-> cleaner.pc, total |-> total, todo |-> rest, path |-> NoPath]
  BY <1>0, <1>2
<1>4. /\ rest \in Seq(IndexRow) /\ Len(rest) = Len(todo) - 1 /\ Len(todo) \in Nat
      /\ \A k \in 1..Len(rest) : rest[k] = todo[k + 1] /\ k + 1 \in 1..Len(todo)
      /\ \A k \in 1..Len(todo) : k = 1 \/ k - 1 \in 1..Len(rest)
  BY <1>0, <1>1
<1>5. ASSUME cleaner.pc = "sizeDelete" PROVE BatchInv'
  <2>1. /\ \A j, k \in 1..Len(todo) : j < k => todo[j].start_time =< todo[k].start_time
        /\ \A k \in 1..Len(todo) :
              /\ todo[k].start_time =< second
              /\ todo[k].id < nextRow
              /\ todo[k].id \in DOMAIN rows =>
                    rows[todo[k].id].start_time = todo[k].start_time
        /\ \A i \in DOMAIN rows :
              \/ \E k \in 1..Len(todo) : todo[k].id = i
              \/ \A k \in 1..Len(todo) : todo[k].start_time =< rows[i].start_time
        /\ todo[1].id \notin DOMAIN rows
    BY <1>0, <1>1, <1>5 DEF CleanInv, BatchInv
  <2>2. cleaner'.todo = rest /\ cleaner'.path = NoPath
    BY <1>3
  <2>3. ASSUME NEW j \in 1..Len(rest), NEW k \in 1..Len(rest), j < k
        PROVE  rest[j].start_time =< rest[k].start_time
    <3>1. j + 1 < k + 1
      BY <1>4, <2>3
    <3> QED BY <1>4, <2>1, <3>1
  <2>4. \A k \in 1..Len(rest) :
              /\ rest[k].start_time =< second
              /\ rest[k].id < nextRow
              /\ rest[k].id \in DOMAIN rows =>
                    rows[rest[k].id].start_time = rest[k].start_time
    BY <1>4, <2>1
  <2>5. ASSUME NEW i \in DOMAIN rows
        PROVE  \/ \E k \in 1..Len(rest) : rest[k].id = i
               \/ \A k \in 1..Len(rest) : rest[k].start_time =< rows[i].start_time
    <3>1. CASE \E k \in 1..Len(todo) : todo[k].id = i
      <4>1. PICK k \in 1..Len(todo) : todo[k].id = i
        BY <3>1
      <4>2. k # 1
        BY <2>1, <4>1
      <4>3. k - 1 \in 1..Len(rest) /\ (k - 1) + 1 = k
        BY <1>4, <4>2
      <4> QED BY <1>4, <4>1, <4>3
    <3>2. CASE \A k \in 1..Len(todo) : todo[k].start_time =< rows[i].start_time
      BY <1>4, <3>2
    <3> QED BY <2>1, <3>1, <3>2
  <2> QED BY <1>0, <2>2, <2>3, <2>4, <2>5 DEF BatchInv
<1>6. CleanInv'
  BY <1>3, <1>4, <1>5 DEF CleanInv
<1> QED BY <1>6, CleanerReads DEF CleanRemove, CleanerRest

(* Nothing is recorded at first.                                            *)
LEMMA RecordingStart ==
    ASSUME RecordingInit
    PROVE  IndexInv
<1> USE DEF RecordingInit
<1>1. RowsOK
  BY DEF RowsOK
<1>2. QueuesInv /\ AllOps = {}
  <2>1. Loop = <<>> /\ Caller = <<>>
    BY DEF Loop, Caller, Flushers
  <2>2. flushing \in [Flushers -> Seq(IndexOp)]
    BY NoOps
  <2> QED BY <2>1, <2>2, NoOps DEF QueuesInv, AllOps, Apart
<1>3. EndsInv
  BY <1>2 DEF EndsInv, Ends, RecorderEntry, NotRecording, NoSegment, NoPath, Current, Ids
<1>4. EventsInv
  BY <1>2 DEF EventsInv, Happened
<1>5. CleanInv
  BY DEF CleanInv, CleanerIdle
<1> QED BY <1>1, <1>2, <1>3, <1>4, <1>5 DEF IndexInv

(* What each kind of step does: it keeps the invariant, the rows that have  *)
(* been finalized and, where the cleaner frees space, the older rows.       *)
LEMMA RecordingStep ==
    ASSUME IndexInv, [RecordingNext]_recVars
    PROVE  /\ IndexInv'
           /\ \A i \in (finalized \ misread) \intersect DOMAIN rows
                                             \intersect DOMAIN rows' :
                 rows'[i] = rows[i]
           /\ cleaner.pc = "sizeDelete" =>
                \A gone \in DOMAIN rows \ DOMAIN rows' : \A i \in DOMAIN rows' :
                    rows[gone].start_time =< rows[i].start_time
<1>0. /\ second \in Nat /\ recorder \in RecorderEntry
      /\ Current \in {Current, NoSegment}
  BY DEF IndexInv, RowsOK, EndsInv
<1>1. ASSUME UNCHANGED <<writerVars, indexVars, pending_ops_, flushing, cleaner>>
      PROVE  IndexInv' /\ rows' = rows
  <2>1. recorder' \in RecorderEntry /\ Current' = Current
    BY <1>0, <1>1 DEF writerVars, Current
  <2>2. second' \in Nat /\ second =< second'
    BY <1>0, <1>1 DEF writerVars
  <2> QED BY <1>1, <2>1, <2>2, QuietStep DEF indexVars
<1>2. CASE StartRecording
  <2>1. recorder' \in RecorderEntry /\ Current' = NoSegment
    <3>0. /\ NotRecording \in RecorderEntry /\ NotRecording.segment = NoSegment
          /\ NotRecording.inserted = NoSegment
      BY DEF NotRecording, RecorderEntry, NoSegment, NoPath
    <3>1. PICK r : /\ r = NotRecording /\ r \in RecorderEntry
                   /\ r.segment = NoSegment /\ r.inserted = NoSegment
      BY <3>0
    <3>2. recorder' = [r EXCEPT !.recording = TRUE]
      BY <1>2, <3>1 DEF StartRecording
    <3>3. /\ recorder' \in RecorderEntry /\ recorder'.segment = NoSegment
          /\ recorder'.inserted = NoSegment
      BY <3>1, <3>2 DEF RecorderEntry
    <3> QED BY <3>3 DEF Current
  <2> QED BY <1>0, <1>2, <2>1, QuietStep DEF StartRecording, indexVars, queueVars
<1>3. CASE StopRecording
  BY <1>3, StopRecordingStep DEF StopRecording, indexVars
<1>4. CASE TriggerEventRecording
  BY <1>4, TriggerStep DEF TriggerEventRecording, indexVars
<1>5. CASE \E pts \in 0..SegmentDuration : OpenFails(pts) \/ WriteFails(pts)
  <2>1. PICK pts \in 0..SegmentDuration : OpenFails(pts) \/ WriteFails(pts)
    BY <1>5
  <2>2. PICK r \in RecorderEntry : r = recorder
    BY <1>0
  <2>3. \/ recorder' = [r EXCEPT !.open = FALSE, !.path = second]
        \/ recorder' = [r EXCEPT !.open = TRUE, !.path = second, !.startPts = pts]
    BY <2>1, <2>2 DEF OpenFails, WriteFails
  <2>4. /\ recorder' \in RecorderEntry /\ recorder'.segment = recorder.segment
        /\ recorder'.inserted = recorder.inserted
    <3>1. second \in Int /\ pts \in Int
      BY <1>0
    <3>2. CASE recorder' = [r EXCEPT !.open = FALSE, !.path = second]
      BY <2>2, <3>1, <3>2 DEF RecorderEntry
    <3>3. CASE recorder' = [r EXCEPT !.open = TRUE, !.path = second, !.startPts = pts]
      BY <2>2, <3>1, <3>3 DEF RecorderEntry
    <3> QED BY <2>3, <3>2, <3>3
  <2>5. UNCHANGED <<second, indexVars, pending_ops_, flushing, cleaner>>
    BY <2>1 DEF OpenFails, WriteFails, queueVars
  <2>6. Current' = Current
    BY <2>4 DEF Current
  <2> QED BY <1>0, <2>4, <2>5, <2>6, QuietStep DEF indexVars
<1>6. CASE \E pts \in Int, key \in BOOLEAN : WriteFrame(pts, key)
  <2>1. PICK pts \in Int, key \in BOOLEAN : WriteFrame(pts, key)
    BY <1>6
  <2>2. \A i \in DOMAIN rows : i \in DOMAIN rows' /\ rows'[i] = rows[i]
    BY <2>1 DEF WriteFrame, NewSegment, InsertSegment
  <2> QED BY <2>1, <2>2, WriteFrameStep
<1>7. CASE RecorderNext
  <2>1. \A pts \in 0..SegmentDuration : pts \in Int
    OBVIOUS
  <2>2. CASE \E pts \in 0..SegmentDuration : WriteFrame(pts, TRUE)
    BY <1>6, <2>1, <2>2
  <2>3. CASE WriteFrame(0, FALSE)
    <3>1. 0 \in Int /\ FALSE \in BOOLEAN
      OBVIOUS
    <3>2. \E pts \in Int, key \in BOOLEAN : WriteFrame(pts, key)
      BY <2>3, <3>1
    <3> QED BY <1>6, <3>2
  <2>4. CASE ReadRowId
    BY <2>4, ReadRowIdStep DEF ReadRowId
  <2> QED BY <1>2, <1>3, <1>4, <1>5, <1>7, <2>2, <2>3, <2>4 DEF RecorderNext
<1>8. CASE IndexerNext
  <2>1. CASE IndexerStart
    BY <1>1, <2>1 DEF IndexerStart
  <2>2. CASE IndexerStop
    BY <2>2, TakeStep DEF IndexerStop, Flushers, indexVars
  <2>3. CASE \E f \in Flushers : FlushPending(f)
    BY <2>3, TakeStep DEF FlushPending, indexVars
  <2>4. CASE \E f \in Flushers : ApplyOp(f)
    BY <2>4, ApplyStep
  <2> QED BY <1>8, <2>1, <2>2, <2>3, <2>4 DEF IndexerNext
<1>9. CASE CleanerNext
  <2>1. CASE CleanBegin
    BY <2>1, CleanBeginStep DEF CleanBegin, indexVars
  <2>2. CASE CleanFetch
    BY <2>2, CleanFetchStep DEF CleanFetch, indexVars
  <2>3. CASE CleanAge
    BY <2>3, CleanAgeStep DEF CleanAge, indexVars
  <2>4. CASE CleanDelete
    BY <2>4, CleanDeleteStep
  <2>5. CASE CleanBatchDone
    BY <2>5, CleanBatchDoneStep DEF CleanBatchDone, indexVars
  <2>6. CASE \E ok \in BOOLEAN : CleanRemove(ok)
    BY <2>6, CleanRemoveStep DEF CleanRemove, indexVars
  <2> QED BY <1>9, <2>1, <2>2, <2>3, <2>4, <2>5, <2>6 DEF CleanerNext
<1>10. CASE PlaybackNext
  <2>1. UNCHANGED PlaybackRest
    BY <1>10 DEF PlaybackNext, PlaybackClose, ReadNextPacket, StepForward,
                 PlaybackOpen, Seek
  <2> QED BY <1>1, <2>1 DEF PlaybackRest, queueVars
<1>11. CASE BackupNext
  <2>1. UNCHANGED BackupRest
    BY <1>11 DEF BackupNext, BackupStart, BackupStop, BackupJoin, TestConnection,
                 ScanEnd, SetPolicy, ScanBegin, UploadFile
  <2> QED BY <1>1, <2>1 DEF BackupRest, queueVars
<1>12. CASE NextSecond
  <2>1. /\ UNCHANGED <<recorder, indexVars, pending_ops_, flushing, cleaner>>
        /\ second' \in Nat /\ second =< second' /\ rows' = rows
    BY <1>0, <1>12 DEF NextSecond, queueVars, indexVars
  <2>2. Current' = Current /\ recorder' \in RecorderEntry
    BY <1>0, <2>1 DEF Current
  <2> QED BY <2>1, <2>2, QuietStep
<1>13. CASE RecordingCrash
  BY <1>13, CrashStep DEF RecordingCrash, indexVars
<1>14. CASE UNCHANGED recVars
  BY <1>1, <1>14 DEF recVars, queueVars
<1> QED BY <1>7, <1>8, <1>9, <1>10, <1>11, <1>12, <1>13, <1>14 DEF RecordingNext

(* The index invariant always holds.                                        *)
LEMMA RecordingIndexInv == RecordingSpec => []IndexInv
BY RecordingStart, RecordingStep, PTL DEF RecordingSpec

(* The Indexer's flush thread and callers of Flush apply their batches      *)
(* without a lock, in either order: a row whose end and size have been      *)
(* written keeps them, because no segment is finalized twice.               *)
THEOREM EndsAlwaysKept == RecordingSpec => EndsKept
<1>1. IndexInv /\ [RecordingNext]_recVars =>
        [\A i \in (finalized \ misread) \intersect DOMAIN rows
                                          \intersect DOMAIN rows' :
            rows'[i] = rows[i]]_recVars
  BY RecordingStep
<1> QED BY <1>1, RecordingIndexInv, PTL DEF RecordingSpec, EndsKept

(* StorageCleaner removes the oldest recordings first, although the         *)
(* recorder inserts and the indexer updates rows between its query and its  *)
(* deletes.                                                                 *)
THEOREM OldestAlwaysFirst == RecordingSpec => OldestFirst
<1>1. IndexInv /\ [RecordingNext]_recVars =>
        [cleaner.pc = "sizeDelete" =>
            \A gone \in DOMAIN rows \ DOMAIN rows' : \A i \in DOMAIN rows' :
                rows[gone].start_time <= rows[i].start_time]_recVars
  BY RecordingStep
<1> QED BY <1>1, RecordingIndexInv, PTL DEF RecordingSpec, OldestFirst

(* HandleGetTimeline shows an event at the segment it was recorded in, once *)
(* that segment is finalized, whatever the order in which queue, rotation   *)
(* and flushers put the two into the index.                                 *)
THEOREM EventsAlwaysInTimeline == RecordingSpec => []EventsInTimeline
<1>1. IndexInv => EventsInTimeline
  <2> SUFFICES ASSUME IndexInv, NEW e \in markers,
                      e.segment \in (finalized \ misread) \intersect DOMAIN rows
               PROVE  \E k \in DOMAIN Timeline(0, second) :
                         /\ Timeline(0, second)[k].id = e.segment
                         /\ e \in Timeline(0, second)[k].events
    BY DEF EventsInTimeline
  <2> USE DEF IndexInv
  <2>1. PICK s, t, r : s = e.segment /\ t = e.time /\ r = rows[s]
    OBVIOUS
  <2>2. e = [segment |-> s, time |-> t] /\ s \in Int /\ t \in Nat /\ second \in Nat
    BY <2>1 DEF RowsOK
  <2>3. t =< second /\ r.start_time =< t /\ t =< r.end_time
    BY <2>1, <2>2 DEF EventsInv, Happened
  <2>4. /\ r \in AllRows /\ r.id = s /\ r.start_time \in Nat /\ r.end_time \in Nat
    BY <2>1 DEF RowsOK, AllRows, IndexRow
  <2>5. PICK S : S = {x \in AllRows : x.start_time <= second /\ x.end_time >= 0}
    OBVIOUS
  <2>6. r \in S /\ S \in SUBSET AllRows
    BY <2>2, <2>3, <2>4, <2>5
  <2>7. PICK q : q = ByStart(S)
    OBVIOUS
  <2>8. q \in Seq(S) /\ \E k \in 1..Len(q) : q[k] = r
    BY <2>6, <2>7, SortedRows
  <2>9. PICK k \in 1..Len(q) : q[k] = r
    BY <2>8
  <2>10. /\ k \in DOMAIN Timeline(0, second)
         /\ Timeline(0, second)[k] =
              [id |-> r.id,
               events |-> {x \in QueryEvents(0, second) :
                             x.time >= r.start_time /\ x.time <= r.end_time}]
    <3>1. QuerySegments(0, second) = q
      BY <2>5, <2>7 DEF QuerySegments
    <3>2. Timeline(0, second) =
            [j \in DOMAIN q |->
               [id |-> q[j].id,
                events |-> {x \in QueryEvents(0, second) :
                              x.time >= q[j].start_time /\ x.time <= q[j].end_time}]]
      BY <3>1 DEF Timeline
    <3>3. k \in DOMAIN q
      BY <2>8
    <3> QED BY <2>9, <3>2, <3>3
  <2>11. e \in QueryEvents(0, second) /\ e.time >= r.start_time /\ e.time <= r.end_time
    BY <2>1, <2>2, <2>3, <2>4 DEF QueryEvents
  <2> QED BY <2>1, <2>4, <2>10, <2>11
<1> QED BY <1>1, RecordingIndexInv, PTL

(* Playback.                                                                *)
PlaybackInv ==
    /\ second \in Nat /\ DOMAIN files \subseteq Nat
    /\ playback = [state |-> playback.state, segments |-> playback.segments,
                   current |-> playback.current, file |-> playback.file]
    /\ PlayingHasFile

(* A player at a segment has its file open, or failed.                      *)
LEMMA OpenedSegment ==
    ASSUME DOMAIN files \subseteq Nat, NEW segments, NEW k, NEW failed, NEW p,
           p = AtSegment(segments, k, failed)
    PROVE  /\ p = [state |-> p.state, segments |-> p.segments, current |-> p.current,
                   file |-> p.file]
           /\ p.file # NoPath \/ p.state = failed
<1>1. NoPath \notin DOMAIN files
  BY DEF NoPath
<1>2. PICK there \in BOOLEAN : there = (k <= Len(segments) /\ segments[k].file_path \in DOMAIN files)
  OBVIOUS
<1>3. p = [state |-> IF there THEN "kPlaying" ELSE failed,
           segments |-> segments, current |-> k,
           file |-> IF there THEN segments[k].file_path ELSE NoPath]
  BY <1>2 DEF AtSegment
<1>4. p.file = (IF there THEN segments[k].file_path ELSE NoPath)
      /\ p.state = (IF there THEN "kPlaying" ELSE failed)
      /\ p.segments = segments /\ p.current = k
  BY <1>3
<1>5. p.file # NoPath \/ p.state = failed
  BY <1>1, <1>2, <1>4
<1> QED BY <1>3, <1>4, <1>5

(* Every step keeps the players right.                                      *)
LEMMA PlaybackStep == PlaybackInv /\ [RecordingNext]_recVars => PlaybackInv'
<1> SUFFICES ASSUME PlaybackInv, [RecordingNext]_recVars PROVE PlaybackInv'
  OBVIOUS
<1>1. ASSUME UNCHANGED playback, second' \in Nat, DOMAIN files' \subseteq Nat
      PROVE  PlaybackInv'
  BY <1>1 DEF PlaybackInv, PlayingHasFile
<1>2. CASE PlaybackNext
  <2>0. /\ UNCHANGED <<second, files>> /\ DOMAIN files \subseteq Nat /\ second \in Nat
        /\ playback = [state |-> playback.state, segments |-> playback.segments,
                       current |-> playback.current, file |-> playback.file]
        /\ playback.state \in {"kPlaying", "kPaused"} => playback.file # NoPath
    BY <1>2 DEF PlaybackNext, PlaybackClose, ReadNextPacket, StepForward, PlaybackOpen,
                Seek, PlaybackRest, writerVars, PlaybackInv, PlayingHasFile
  <2>1. SUFFICES /\ playback' = [state |-> playback'.state, segments |-> playback'.segments,
                                 current |-> playback'.current, file |-> playback'.file]
                 /\ playback'.state \in {"kPlaying", "kPaused"} => playback'.file # NoPath
    BY <2>0 DEF PlaybackInv, PlayingHasFile
  <2>2. CASE PlaybackClose
    BY <2>2 DEF PlaybackClose, PlaybackIdle
  <2>3. CASE ReadNextPacket
    BY <2>0, <2>3, OpenedSegment DEF ReadNextPacket
  <2>4. CASE StepForward
    <3>1. playback' = [state |-> "kPaused", segments |-> playback.segments,
                       current |-> playback.current, file |-> playback.file]
      BY <2>0, <2>4 DEF StepForward
    <3> QED BY <2>0, <2>4, <3>1 DEF StepForward
  <2>5. CASE \E from \in 0..second : PlaybackOpen(from)
    <3>1. PICK from \in 0..second : PlaybackOpen(from)
      BY <2>5
    <3>2. CASE playback' = [PlaybackIdle EXCEPT !.state = "kError"]
      <4>1. playback' = [state |-> "kError", segments |-> <<>>, current |-> 1,
                         file |-> NoPath]
        BY <3>2 DEF PlaybackIdle
      <4> QED BY <4>1
    <3>3. CASE playback' = AtSegment(QuerySegments(from, second), 1, "kError")
      BY <2>0, <3>3, OpenedSegment
    <3> QED BY <3>1, <3>2, <3>3 DEF PlaybackOpen
  <2>6. CASE \E t \in 0..second : \E ok \in BOOLEAN : Seek(t, ok)
    <3>1. PICK t \in 0..second, ok \in BOOLEAN : Seek(t, ok)
      BY <2>6
    <3>2. PICK k, there : /\ k = SeekTarget(t)
                          /\ there = AtSegment(playback.segments, k, "kError")
      OBVIOUS
    <3>3. /\ there = [state |-> there.state, segments |-> there.segments,
                      current |-> there.current, file |-> there.file]
          /\ there.file # NoPath \/ there.state = "kError"
      BY <2>0, <3>2, OpenedSegment
    <3>4. \/ playback' = [playback EXCEPT !.state = "undefined"]
          \/ playback.file # NoPath /\ \E s : playback' = [playback EXCEPT !.state = s]
          \/ playback' = there
          \/ there.file # NoPath /\ playback' = [there EXCEPT !.state = playback.state]
          \/ playback' = [playback EXCEPT !.state = playback.state]
      BY <3>1, <3>2 DEF Seek
    <3>5. CASE playback' = [playback EXCEPT !.state = "undefined"]
      <4>1. playback' = [state |-> "undefined", segments |-> playback.segments,
                         current |-> playback.current, file |-> playback.file]
        BY <2>0, <3>5
      <4> QED BY <4>1
    <3>6. CASE playback.file # NoPath /\ \E s : playback' = [playback EXCEPT !.state = s]
      <4>1. PICK s : playback' = [playback EXCEPT !.state = s]
        BY <3>6
      <4>2. playback' = [state |-> s, segments |-> playback.segments,
                         current |-> playback.current, file |-> playback.file]
        BY <2>0, <4>1
      <4> QED BY <3>6, <4>2
    <3>7. CASE playback' = there
      BY <3>3, <3>7
    <3>8. CASE there.file # NoPath /\ playback' = [there EXCEPT !.state = playback.state]
      <4>1. playback' = [state |-> playback.state, segments |-> there.segments,
                         current |-> there.current, file |-> there.file]
        BY <3>3, <3>8
      <4> QED BY <3>8, <4>1
    <3>9. CASE playback' = [playback EXCEPT !.state = playback.state]
      <4>1. playback' = [state |-> playback.state, segments |-> playback.segments,
                         current |-> playback.current, file |-> playback.file]
        BY <2>0, <3>9
      <4> QED BY <2>0, <4>1
    <3> QED BY <3>4, <3>5, <3>6, <3>7, <3>8, <3>9
  <2> QED BY <1>2, <2>2, <2>3, <2>4, <2>5, <2>6 DEF PlaybackNext
<1>3. CASE RecordingCrash
  <2>1. playback' = PlaybackIdle /\ UNCHANGED <<second, files>>
    BY <1>3 DEF RecordingCrash
  <2> QED BY <2>1 DEF PlaybackInv, PlayingHasFile, PlaybackIdle
<1>4. CASE RecorderNext
  <2>1. UNCHANGED <<playback, second>> /\ DOMAIN files' \subseteq DOMAIN files \union {second}
    BY <1>4 DEF RecorderNext, StartRecording, StopRecording, TriggerEventRecording,
                OpenFails, WriteFails, WriteFrame, ReadRowId, OpenSegment, writerVars
  <2> QED BY <1>1, <2>1 DEF PlaybackInv
<1>5. CASE IndexerNext \/ CleanerNext \/ BackupNext
  <2>1. CASE IndexerNext
    <3>1. UNCHANGED <<playback, second, files>>
      BY <2>1 DEF IndexerNext, IndexerStart, IndexerStop, FlushPending, ApplyOp, writerVars
    <3> QED BY <1>1, <3>1 DEF PlaybackInv
  <2>2. CASE CleanerNext
    <3>1. UNCHANGED <<playback, second>> /\ DOMAIN files' \subseteq DOMAIN files
      BY <2>2 DEF CleanerNext, CleanBegin, CleanFetch, CleanAge, CleanDelete,
                  CleanBatchDone, CleanRemove, CleanerRest, writerVars
    <3> QED BY <1>1, <3>1 DEF PlaybackInv
  <2>3. CASE BackupNext
    <3>1. UNCHANGED <<playback, second, files>>
      BY <2>3 DEF BackupNext, BackupStart, BackupStop, BackupJoin, TestConnection,
                  ScanEnd, SetPolicy, ScanBegin, UploadFile, BackupRest, writerVars
    <3> QED BY <1>1, <3>1 DEF PlaybackInv
  <2> QED BY <1>5, <2>1, <2>2, <2>3
<1>6. CASE NextSecond
  BY <1>1, <1>6 DEF NextSecond, PlaybackInv
<1>7. CASE UNCHANGED recVars
  BY <1>1, <1>7 DEF recVars, writerVars, PlaybackInv
<1> QED BY <1>2, <1>3, <1>4, <1>5, <1>6, <1>7 DEF RecordingNext

(* A Playback object that reports kPlaying or kPaused has a file open, even *)
(* when the cleaner removes segments it is about to reach.                  *)
THEOREM PlayingAlwaysHasFile == RecordingSpec => []PlayingHasFile
<1>1. RecordingInit => PlaybackInv
  BY DEF RecordingInit, PlaybackInv, PlayingHasFile, PlaybackIdle
<1>2. PlaybackInv => PlayingHasFile
  BY DEF PlaybackInv
<1> QED BY <1>1, <1>2, PlaybackStep, PTL DEF RecordingSpec

-----------------------------------------------------------------------------
(* WebRtcService.  The bound counts the offers being set up: without them it *)
(* would not be inductive, because the session an offer stores is not tested *)
(* against the limit again.                                                  *)

RtcInv ==
    /\ rtcIds \in Nat
    /\ IsFiniteSet(DOMAIN sessions_)
    /\ offering \in [OfferThreads -> SUBSET [id : Nat, channel : RtcChannels]]
    /\ RtcSessionsBounded

(* The offers in setup are a set of threads, whatever the offers are: their *)
(* number is a natural number and at most the number of threads             *)
(* (HandleOffer runs on the HTTP threads).                                  *)
LEMMA InSetupFinite ==
    /\ IsFiniteSet(InSetup) /\ Cardinality(InSetup) \in Nat
    /\ Cardinality(OfferThreads) \in Nat
    /\ Cardinality(InSetup) <= Cardinality(OfferThreads)
<1>1. InSetup \subseteq OfferThreads
  BY DEF InSetup
<1>2. IsFiniteSet(OfferThreads)
  BY RtcAssumption
<1> QED
  BY <1>1, <1>2, FS_Subset, FS_CardinalityType

(* Fewer sessions and no more offers in setup keep the bound: the closing   *)
(* calls, CleanupLoop, Shutdown and a failed offer are of this form.        *)
LEMMA ShrinkingKeepsBound ==
    ASSUME RtcInv, DOMAIN sessions_' \subseteq DOMAIN sessions_,
           InSetup' \subseteq InSetup
    PROVE  /\ IsFiniteSet(DOMAIN sessions_')
           /\ RtcSessionsBounded'
<1>1. /\ IsFiniteSet(DOMAIN sessions_')
      /\ Cardinality(DOMAIN sessions_') \in Nat
      /\ Cardinality(DOMAIN sessions_) \in Nat
      /\ Cardinality(DOMAIN sessions_') <= Cardinality(DOMAIN sessions_)
  BY FS_Subset, FS_CardinalityType DEF RtcInv
<1>2. /\ Cardinality(InSetup') \in Nat
      /\ Cardinality(InSetup') <= Cardinality(InSetup)
  BY InSetupFinite, FS_Subset, FS_CardinalityType
<1>3. Cardinality(DOMAIN sessions_) + Cardinality(InSetup)
            <= max_sessions - 1 + Cardinality(OfferThreads)
  BY DEF RtcInv, RtcSessionsBounded
<1>4. Cardinality(DOMAIN sessions_') + Cardinality(InSetup')
            <= max_sessions - 1 + Cardinality(OfferThreads)
  BY <1>1, <1>2, <1>3, InSetupFinite, RtcAssumption
<1> QED
  BY <1>1, <1>4 DEF RtcSessionsBounded

(* The service starts without sessions and without offers.                  *)
LEMMA InitEstablishesRtcInv == RtcInit => RtcInv
<1> SUFFICES ASSUME RtcInit PROVE RtcInv
  OBVIOUS
<1>1. DOMAIN sessions_ = {} /\ InSetup = {}
  BY DEF RtcInit, InSetup
<1>2. IsFiniteSet({}) /\ Cardinality({}) = 0
  BY FS_EmptySet
<1>3. RtcSessionsBounded
  BY <1>1, <1>2, InSetupFinite, RtcAssumption DEF RtcSessionsBounded
<1> QED
  BY <1>1, <1>2, <1>3 DEF RtcInit, RtcInv

(* An offer that passes the test finds less than max_sessions sessions, and *)
(* at most every thread is in setup afterwards.                             *)
LEMMA HandleOfferKeeps ==
    ASSUME RtcInv, NEW t \in OfferThreads, NEW ch \in RtcChannels,
           HandleOffer(t, ch)
    PROVE  RtcInv'
<1>1. /\ rtcIds' \in Nat
      /\ offering' \in [OfferThreads -> SUBSET [id : Nat, channel : RtcChannels]]
  BY DEF RtcInv, HandleOffer
<1>2. IsFiniteSet(DOMAIN sessions_')
  BY DEF RtcInv, HandleOffer
<1>3. InSetup' \subseteq OfferThreads
  BY DEF InSetup
<1>4. /\ Cardinality(InSetup') \in Nat
      /\ Cardinality(InSetup') <= Cardinality(OfferThreads)
  BY <1>3, RtcAssumption, FS_Subset, FS_CardinalityType
<1>5. Cardinality(DOMAIN sessions_') < max_sessions
  BY DEF HandleOffer
<1>6. Cardinality(DOMAIN sessions_') \in Nat
  BY <1>2, FS_CardinalityType
<1>7. RtcSessionsBounded'
  BY <1>4, <1>5, <1>6, InSetupFinite, RtcAssumption DEF RtcSessionsBounded
<1> QED
  BY <1>1, <1>2, <1>7 DEF RtcInv

(* The thread that stores its session leaves the setup: one more session at *)
(* most, one offer in setup less.                                           *)
LEMMA StoreSessionKeeps ==
    ASSUME RtcInv, NEW t \in OfferThreads, StoreSession(t)
    PROVE  RtcInv'
<1>1. PICK o \in offering[t] : DOMAIN sessions_' = DOMAIN sessions_ \union {o.id}
  BY DEF StoreSession
<1>2. /\ rtcIds' \in Nat
      /\ offering' \in [OfferThreads -> SUBSET [id : Nat, channel : RtcChannels]]
  BY DEF RtcInv, StoreSession
<1>3. t \in InSetup /\ InSetup' = InSetup \ {t}
  BY <1>1 DEF RtcInv, StoreSession, InSetup
<1>4. Cardinality(InSetup') = Cardinality(InSetup) - 1
  BY <1>3, InSetupFinite, FS_RemoveElement
<1>5. /\ IsFiniteSet(DOMAIN sessions_')
      /\ Cardinality(DOMAIN sessions_) \in Nat
      /\ Cardinality(DOMAIN sessions_') \in Nat
      /\ Cardinality(DOMAIN sessions_') <= Cardinality(DOMAIN sessions_) + 1
  <2>1. IsFiniteSet(DOMAIN sessions_)
    BY DEF RtcInv
  <2>2. /\ IsFiniteSet(DOMAIN sessions_')
        /\ \/ Cardinality(DOMAIN sessions_') = Cardinality(DOMAIN sessions_)
           \/ Cardinality(DOMAIN sessions_') = Cardinality(DOMAIN sessions_) + 1
    BY <1>1, <2>1, FS_AddElement
  <2> QED
    BY <2>1, <2>2, FS_CardinalityType
<1>6. Cardinality(DOMAIN sessions_) + Cardinality(InSetup)
            <= max_sessions - 1 + Cardinality(OfferThreads)
  BY DEF RtcInv, RtcSessionsBounded
<1>7. Cardinality(DOMAIN sessions_') + Cardinality(InSetup')
            <= max_sessions - 1 + Cardinality(OfferThreads)
  BY <1>4, <1>5, <1>6, InSetupFinite, RtcAssumption
<1> QED
  BY <1>2, <1>5, <1>7 DEF RtcInv, RtcSessionsBounded

(* Every step of the service, its clients and loong-rtc keeps the invariant. *)
LEMMA RtcStep == RtcInv /\ [RtcNext]_rtcVars => RtcInv'
<1> SUFFICES ASSUME RtcInv, [RtcNext]_rtcVars PROVE RtcInv'
  OBVIOUS
<1> DEFINE Shrinks == /\ DOMAIN sessions_' \subseteq DOMAIN sessions_
                      /\ InSetup' \subseteq InSetup
                      /\ rtcIds' = rtcIds
                      /\ offering' \in [OfferThreads ->
                                          SUBSET [id : Nat, channel : RtcChannels]]
<1>1. ASSUME Shrinks PROVE RtcInv'
  <2>1. IsFiniteSet(DOMAIN sessions_') /\ RtcSessionsBounded'
    BY <1>1, ShrinkingKeepsBound
  <2> QED
    BY <1>1, <2>1 DEF RtcInv
<1>2. CASE RtcInitialize
  BY <1>1, <1>2 DEF RtcInv, RtcInitialize, InSetup
<1>3. CASE CleanupLoop
  BY <1>1, <1>3 DEF RtcInv, CleanupLoop, Without, InSetup
<1>4. CASE RtcShutdown
  BY <1>1, <1>4 DEF RtcInv, RtcShutdown, Without, InSetup
<1>5. CASE RtcTick
  BY <1>1, <1>5 DEF RtcInv, RtcTick, InSetup
<1>6. ASSUME NEW t \in OfferThreads, OfferFails(t) PROVE RtcInv'
  BY <1>1, <1>6 DEF RtcInv, OfferFails, InSetup
<1>7. ASSUME NEW t \in OfferThreads, StoreSession(t) PROVE RtcInv'
  BY <1>7, StoreSessionKeeps
<1>8. ASSUME NEW t \in OfferThreads, NEW ch \in RtcChannels, HandleOffer(t, ch)
      PROVE  RtcInv'
  BY <1>8, HandleOfferKeeps
<1>9. ASSUME NEW ch \in RtcChannels, WriteVideoFrame(ch) \/ ListForChannel(ch)
      PROVE  RtcInv'
  BY <1>1, <1>9 DEF RtcInv, WriteVideoFrame, ListForChannel, InSetup, rtcVars
<1>10. ASSUME NEW id \in DOMAIN sessions_, HandleIceCandidate(id) PROVE RtcInv'
  BY <1>1, <1>10 DEF RtcInv, HandleIceCandidate, InSetup
<1>11. ASSUME NEW id \in DOMAIN sessions_, CloseSession(id) PROVE RtcInv'
  BY <1>1, <1>11 DEF RtcInv, CloseSession, Without, InSetup
<1>12. ASSUME NEW id \in DOMAIN sessions_,
              NEW s \in {"kConnected", "kDisconnected", "kFailed", "kClosed"},
              OnConnectionStateChange(id, s)
       PROVE  RtcInv'
  BY <1>1, <1>12 DEF RtcInv, OnConnectionStateChange, InSetup
<1>13. ASSUME NEW id \in closingList, CloseListed(id) PROVE RtcInv'
  BY <1>1, <1>13 DEF RtcInv, CloseListed, Without, InSetup
<1>14. CASE UNCHANGED rtcVars
  BY <1>1, <1>14 DEF RtcInv, InSetup, rtcVars
<1> QED
  BY <1>2, <1>3, <1>4, <1>5, <1>6, <1>7, <1>8, <1>9, <1>10, <1>11, <1>12,
     <1>13, <1>14 DEF RtcNext

(* However many HTTP threads are in HandleOffer at once, the sessions       *)
(* stored and the offers still being set up exceed max_sessions by at most  *)
(* the number of threads less one.                                          *)
THEOREM SessionsBounded == RtcSpec => []RtcSessionsBounded
<1>1. RtcInv => RtcSessionsBounded
  BY DEF RtcInv
<1> QED
  BY InitEstablishesRtcInv, RtcStep, <1>1, PTL DEF RtcSpec

-----------------------------------------------------------------------------
(* RtspServer and WebSocketServer.                                           *)

Server == [kind : {"rtsp", "ws"}, running : BOOLEAN, stopped : BOOLEAN]

Connection ==
    [at : {"none", "serve", "setup", "subscribe", "close", "remove"},
     active : BOOLEAN, fd : BOOLEAN, closes : Nat, crossed : BOOLEAN,
     channel : BOOLEAN, packetizer : BOOLEAN, playing : BOOLEAN,
     got_keyframe : BOOLEAN, topics : SUBSET Topics, left : SUBSET Topics]

(* A session that names its channel has its packetizer, except in the       *)
(* middle of its first SETUP.                                               *)
PacketizerMade(x) == x.channel /\ ~x.packetizer => x.at = "setup"

(* A descriptor that the session still has is open.  Its thread closes only *)
(* such a one, unless Stop comes between its read and its close.            *)
OwnDescriptor(x) ==
    /\ x.fd \/ x.at = "none" => x.closes = 0 /\ ~x.crossed
    /\ x.at = "none" => ~x.fd
    /\ x.at \in {"serve", "setup", "subscribe"} => x.closes <= 1 /\ ~x.crossed
    /\ x.at = "close" => x.closes <= 1 /\ (x.fd \/ x.crossed)
    /\ x.closes <= IF x.crossed THEN 2 ELSE 1

SocketInv ==
    /\ server \in Server /\ listed \subseteq Clients
    /\ client \in [Clients -> Connection]
    /\ rtspChannel \in BOOLEAN
    /\ \A c \in Clients : PacketizerMade(client[c]) /\ OwnDescriptor(client[c])

(* A step that changes one connection keeps the invariant if that           *)
(* connection does.                                                         *)
LEMMA ConnectionReplaced ==
    ASSUME SocketInv, NEW c \in Clients, NEW x \in Connection, PacketizerMade(x),
           OwnDescriptor(x),
           client' = [client EXCEPT ![c] = x], listed' \subseteq Clients,
           UNCHANGED <<server, rtspChannel>>
    PROVE  SocketInv'
<1>1. client' \in [Clients -> Connection]
  BY DEF SocketInv
<1>2. \A d \in Clients : client'[d] = IF d = c THEN x ELSE client[d]
  BY DEF SocketInv
<1> QED BY <1>1, <1>2 DEF SocketInv

(* A connection that is not there meets all its conditions.                 *)
LEMMA NoConnection ==
    NoClient \in Connection /\ PacketizerMade(NoClient) /\ OwnDescriptor(NoClient)
BY DEF NoClient, Connection, PacketizerMade, OwnDescriptor

(* Accepting, leaving, closing and removing, in both servers: the           *)
(* connection's own thread closes the descriptor it has read.               *)
LEMMA ConnectionKeeps ==
    ASSUME SocketInv, NEW c \in Clients,
           \/ SocketAccept(c) \/ SocketLeave(c) \/ SocketClose(c)
           \/ SocketRemove(c)
    PROVE  SocketInv'
<1> DEFINE w == client[c]
           Good(x) == /\ x \in Connection /\ PacketizerMade(x)
                      /\ OwnDescriptor(x)
                      /\ client' = [client EXCEPT ![c] = x]
<1>1. /\ w \in Connection /\ PacketizerMade(w)
      /\ OwnDescriptor(w)
      /\ client \in [Clients -> Connection] /\ listed \subseteq Clients
  BY DEF SocketInv
<1>2. UNCHANGED <<server, rtspChannel>> /\ listed' \subseteq Clients
  BY <1>1 DEF SocketAccept, SocketLeave, SocketClose, SocketRemove
<1>3. \E x : Good(x)
  <2>1. CASE SocketAccept(c)
    <3> DEFINE x == [NoClient EXCEPT !.at = "serve", !.active = TRUE, !.fd = TRUE]
    <3>1. x \in Connection
      BY NoConnection DEF Connection
    <3>2. PacketizerMade(x) /\ OwnDescriptor(x)
      BY DEF NoClient, PacketizerMade, OwnDescriptor
    <3> QED BY <2>1, <3>1, <3>2 DEF SocketAccept
  <2>2. CASE SocketLeave(c)
    <3> DEFINE t == IF w.fd THEN "close" ELSE "remove"
               x == [w EXCEPT !.active = FALSE, !.playing = FALSE, !.at = t]
    <3>1. client' = [client EXCEPT ![c] = x] /\ w.at = "serve"
      BY <1>1, <2>2 DEF SocketLeave
    <3>2. t \in {"close", "remove"} /\ (t = "close" => w.fd)
      BY <1>1 DEF Connection
    <3> HIDE DEF t
    <3>3. x \in Connection
      BY <1>1, <3>2 DEF Connection
    <3>4. PacketizerMade(x)
      BY <1>1, <3>1 DEF Connection, PacketizerMade
    <3>5. OwnDescriptor(x)
      BY <1>1, <3>1, <3>2 DEF Connection, OwnDescriptor
    <3> QED BY <3>1, <3>3, <3>4, <3>5
  <2>3. CASE SocketClose(c)
    <3> DEFINE k == w.closes + 1
               x == [w EXCEPT !.at = "remove", !.fd = FALSE, !.closes = k]
    <3>1. client' = [client EXCEPT ![c] = x] /\ w.at = "close"
      BY <1>1, <2>3 DEF SocketClose
    <3>2. k \in Nat /\ (w.crossed => k <= 2) /\ (~w.crossed => k = 1)
      BY <1>1, <3>1 DEF Connection, OwnDescriptor
    <3> HIDE DEF k
    <3>3. x \in Connection
      BY <1>1, <3>2 DEF Connection
    <3>4. PacketizerMade(x)
      BY <1>1, <3>1 DEF Connection, PacketizerMade
    <3>5. /\ x.at = "remove" /\ ~x.fd /\ x.closes = k /\ (x.crossed <=> w.crossed)
          /\ w.crossed \in BOOLEAN
      BY <1>1 DEF Connection
    <3> HIDE DEF x
    <3>6. OwnDescriptor(x)
      BY <3>2, <3>5 DEF OwnDescriptor
    <3> QED BY <3>1, <3>3, <3>4, <3>6
  <2>4. CASE SocketRemove(c)
    BY <2>4, NoConnection DEF SocketRemove
  <2> QED BY <2>1, <2>2, <2>3, <2>4
<1> QED BY <1>2, <1>3, ConnectionReplaced

(* The requests of an RTSP client and the messages of a WebSocket client    *)
(* keep the invariant.                                                      *)
LEMMA RequestKeeps ==
    ASSUME SocketInv, NEW c \in Clients,
           \/ HandleSetup(c) \/ MakePacketizer(c) \/ HandlePlay(c)
           \/ HandleTeardown(c) \/ InsertTopic(c) \/ ReceiveClose(c)
           \/ \E wanted \in SUBSET Topics : Subscribe(c, wanted)
    PROVE  SocketInv'
<1> DEFINE w == client[c]
           Good(x) == /\ x \in Connection /\ PacketizerMade(x)
                      /\ OwnDescriptor(x)
                      /\ client' = [client EXCEPT ![c] = x]
<1>1. /\ w \in Connection /\ PacketizerMade(w)
      /\ OwnDescriptor(w)
      /\ client \in [Clients -> Connection] /\ listed \subseteq Clients
      /\ rtspChannel \in BOOLEAN
  BY DEF SocketInv
<1>2. UNCHANGED <<server, listed, rtspChannel>>
  BY DEF HandleSetup, MakePacketizer, HandlePlay, HandleTeardown, InsertTopic,
         ReceiveClose, Subscribe
<1>3. \E x : Good(x)
  <2>1. CASE HandleSetup(c)
    <3> DEFINE t == IF rtspChannel THEN "setup" ELSE w.at
               ch == w.channel \/ rtspChannel
               x == [w EXCEPT !.at = t, !.channel = ch]
    <3>1. client' = [client EXCEPT ![c] = x] /\ w.at = "serve"
      BY <1>1, <2>1 DEF HandleSetup, Serving
    <3>2. /\ t \in {"setup", "serve"} /\ ch \in BOOLEAN
          /\ ~rtspChannel => t = "serve" /\ ch = w.channel
          /\ rtspChannel => t = "setup"
      BY <1>1, <3>1 DEF Connection
    <3> HIDE DEF t, ch
    <3>3. x \in Connection
      BY <1>1, <3>2 DEF Connection
    <3>4. PacketizerMade(x)
      BY <1>1, <3>1, <3>2 DEF Connection, PacketizerMade
    <3>5. OwnDescriptor(x)
      BY <1>1, <3>1, <3>2 DEF Connection, OwnDescriptor
    <3> QED BY <3>1, <3>3, <3>4, <3>5
  <2>2. CASE MakePacketizer(c)
    <3> DEFINE x == [w EXCEPT !.at = "serve", !.packetizer = TRUE]
    <3>1. client' = [client EXCEPT ![c] = x] /\ w.at = "setup"
      BY <1>1, <2>2 DEF MakePacketizer
    <3>2. x \in Connection /\ PacketizerMade(x)
      BY <1>1 DEF Connection, PacketizerMade
    <3>3. OwnDescriptor(x)
      BY <1>1, <3>1 DEF Connection, OwnDescriptor
    <3> QED BY <3>1, <3>2, <3>3
  <2>3. CASE HandlePlay(c)
    <3> DEFINE x == [w EXCEPT !.playing = TRUE, !.got_keyframe = FALSE]
    <3>1. client' = [client EXCEPT ![c] = x] /\ w.at = "serve"
      BY <1>1, <2>3 DEF HandlePlay, Serving
    <3>3. x \in Connection
      BY <1>1 DEF Connection
    <3>4. PacketizerMade(x)
      BY <1>1, <3>1 DEF Connection, PacketizerMade
    <3>5. OwnDescriptor(x)
      BY <1>1, <3>1 DEF Connection, OwnDescriptor
    <3> QED BY <3>1, <3>3, <3>4, <3>5
  <2>4. CASE HandleTeardown(c)
    <3> DEFINE x == [w EXCEPT !.playing = FALSE, !.active = FALSE]
    <3>1. client' = [client EXCEPT ![c] = x] /\ w.at = "serve"
      BY <1>1, <2>4 DEF HandleTeardown, Serving
    <3>2. x \in Connection /\ PacketizerMade(x)
      BY <1>1, <3>1 DEF Connection, PacketizerMade
    <3>3. OwnDescriptor(x)
      BY <1>1, <3>1 DEF Connection, OwnDescriptor
    <3> QED BY <3>1, <3>2, <3>3
  <2>5. CASE InsertTopic(c)
    <3>1. w.at = "subscribe" /\ w.left \subseteq Topics /\ w.topics \subseteq Topics
      BY <1>1, <2>5 DEF InsertTopic, Connection
    <3>2. CASE w.left = {}
      <4> DEFINE x == [w EXCEPT !.at = "serve"]
      <4>1. client' = [client EXCEPT ![c] = x]
        BY <2>5, <3>2 DEF InsertTopic
      <4>2. x \in Connection /\ PacketizerMade(x)
        BY <1>1, <3>1 DEF Connection, PacketizerMade
      <4>3. OwnDescriptor(x)
        BY <1>1, <3>1 DEF Connection, OwnDescriptor
      <4> QED BY <4>1, <4>2, <4>3
    <3>3. ASSUME NEW t \in w.left,
                 client' = [client EXCEPT ![c].topics = @ \union {t},
                                          ![c].left = @ \ {t}]
          PROVE  \E x : Good(x)
      <4> DEFINE T == w.topics \union {t}
                 L == w.left \ {t}
                 x == [w EXCEPT !.topics = T, !.left = L]
      <4>1. client' = [client EXCEPT ![c] = x]
        BY <1>1, <3>3
      <4>2. T \in SUBSET Topics /\ L \in SUBSET Topics
        BY <3>1, <3>3
      <4> HIDE DEF T, L
      <4>3. x \in Connection
        BY <1>1, <4>2 DEF Connection
      <4>4. PacketizerMade(x)
        BY <1>1, <3>1 DEF Connection, PacketizerMade
      <4>5. OwnDescriptor(x)
        BY <1>1, <3>1 DEF Connection, OwnDescriptor
      <4> QED BY <4>1, <4>3, <4>4, <4>5
    <3> QED BY <2>5, <3>2, <3>3 DEF InsertTopic
  <2>6. CASE ReceiveClose(c)
    <3> DEFINE x == [w EXCEPT !.active = FALSE]
    <3>1. client' = [client EXCEPT ![c] = x] /\ w.at = "serve"
      BY <1>1, <2>6 DEF ReceiveClose, Serving
    <3>2. x \in Connection /\ PacketizerMade(x)
      BY <1>1, <3>1 DEF Connection, PacketizerMade
    <3>3. OwnDescriptor(x)
      BY <1>1, <3>1 DEF Connection, OwnDescriptor
    <3> QED BY <3>1, <3>2, <3>3
  <2>7. ASSUME NEW wanted \in SUBSET Topics, Subscribe(c, wanted)
        PROVE  \E x : Good(x)
    <3> DEFINE x == [w EXCEPT !.at = "subscribe", !.topics = {}, !.left = wanted]
    <3>1. client' = [client EXCEPT ![c] = x] /\ w.at = "serve"
      BY <1>1, <2>7 DEF Subscribe, Serving
    <3>2. x \in Connection
      BY <1>1, <2>7 DEF Connection
    <3>3. PacketizerMade(x)
      BY <1>1, <3>1 DEF Connection, PacketizerMade
    <3>4. OwnDescriptor(x)
      BY <1>1, <3>1 DEF Connection, OwnDescriptor
    <3> QED BY <3>1, <3>2, <3>3, <3>4
  <2> QED BY <2>1, <2>2, <2>3, <2>4, <2>5, <2>6, <2>7
<1> QED BY <1>1, <1>2, <1>3, ConnectionReplaced

(* Starting, stopping, registering and pushing a frame keep the invariant.  *)
LEMMA ServerKeeps ==
    ASSUME SocketInv,
           \/ SocketStart \/ SocketStop \/ SocketCloseAll
           \/ RtspRegisterChannel \/ RtspUnregisterChannel
           \/ \E key \in BOOLEAN : RtspPushFrame(key)
    PROVE  SocketInv'
<1>1. CASE SocketStart \/ SocketStop
  BY <1>1 DEF SocketStart, SocketStop, SocketInv, Server
<1>2. CASE RtspRegisterChannel \/ RtspUnregisterChannel
  BY <1>2 DEF RtspRegisterChannel, RtspUnregisterChannel, SocketInv
<1>3. CASE SocketCloseAll
  <2>1. ASSUME NEW c \in Clients
        PROVE  /\ client'[c] \in Connection /\ PacketizerMade(client'[c])
               /\ OwnDescriptor(client'[c])
    <3> DEFINE w == client[c]
               k == IF w.fd THEN w.closes + 1 ELSE w.closes
               o == w.crossed \/ (w.fd /\ w.at = "close")
               x == [w EXCEPT !.active = FALSE, !.fd = FALSE, !.closes = k,
                              !.crossed = o]
    <3>1. w \in Connection /\ PacketizerMade(w) /\ OwnDescriptor(w)
      BY DEF SocketInv
    <3>2. client'[c] = w \/ client'[c] = x
      BY <1>3 DEF SocketCloseAll
    <3>3. /\ k \in Nat /\ o \in BOOLEAN
          /\ w.fd => w.closes = 0 /\ ~w.crossed /\ w.at # "none" /\ k = 1
          /\ ~w.fd => k = w.closes
          /\ o <=> w.crossed \/ (w.fd /\ w.at = "close")
      <4>1. w.fd => w.at # "none"
        BY <3>1 DEF OwnDescriptor
      <4> QED BY <3>1, <4>1 DEF Connection, OwnDescriptor
    <3> HIDE DEF k, o
    <3>4. /\ x \in Connection /\ x.at = w.at /\ ~x.fd /\ x.closes = k
          /\ (x.crossed <=> o)
          /\ x.channel = w.channel /\ x.packetizer = w.packetizer
      BY <3>1, <3>3 DEF Connection
    <3>5. PacketizerMade(x)
      BY <3>1, <3>4 DEF PacketizerMade
    <3> HIDE DEF x
    <3>6. OwnDescriptor(x)
      BY <3>1, <3>3, <3>4 DEF OwnDescriptor, Connection
    <3> QED BY <3>1, <3>2, <3>4, <3>5, <3>6
  <2>2. client' = [c \in Clients |-> client'[c]]
    BY <1>3 DEF SocketCloseAll
  <2>3. UNCHANGED <<server, rtspChannel>> /\ listed' = {}
    BY <1>3 DEF SocketCloseAll
  <2> QED BY <2>1, <2>2, <2>3 DEF SocketInv
<1>4. ASSUME NEW key \in BOOLEAN, RtspPushFrame(key) PROVE SocketInv'
  <2>1. ASSUME NEW c \in Clients
        PROVE  /\ client'[c] \in Connection /\ PacketizerMade(client'[c])
               /\ OwnDescriptor(client'[c])
    <3> DEFINE w == client[c]
               x == [w EXCEPT !.got_keyframe = TRUE]
    <3>1. /\ w \in Connection /\ PacketizerMade(w)
          /\ OwnDescriptor(w)
      BY DEF SocketInv
    <3>2. client'[c] = w \/ client'[c] = x
      BY <1>4 DEF RtspPushFrame
    <3>3. x \in Connection /\ PacketizerMade(x)
      BY <3>1 DEF Connection, PacketizerMade
    <3>4. OwnDescriptor(x)
      BY <3>1 DEF Connection, OwnDescriptor
    <3> QED BY <3>1, <3>2, <3>3, <3>4
  <2>2. client' = [c \in Clients |-> client'[c]]
    BY <1>4 DEF RtspPushFrame
  <2>3. UNCHANGED <<server, listed, rtspChannel>>
    BY <1>4 DEF RtspPushFrame
  <2> QED BY <2>1, <2>2, <2>3 DEF SocketInv
<1> QED BY <1>1, <1>2, <1>3, <1>4

(* The invariant holds of both servers.                                     *)
LEMMA SocketInvariant == SocketSpec => []SocketInv
<1>1. SocketInit => SocketInv
  BY NoConnection DEF SocketInit, SocketInv, Server
<1>2. SocketInv /\ [SocketNext]_socketVars => SocketInv'
  <2> SUFFICES ASSUME SocketInv, [SocketNext]_socketVars PROVE SocketInv'
    OBVIOUS
  <2>1. CASE \/ RtspStart \/ RtspStop \/ RtspRegisterChannel
             \/ RtspUnregisterChannel \/ WebSocketStart \/ WebSocketStop
             \/ \E key \in BOOLEAN : RtspPushFrame(key)
    BY <2>1, ServerKeeps DEF RtspStart, RtspStop, WebSocketStart, WebSocketStop
  <2>2. ASSUME NEW c \in Clients,
               \/ RtspAcceptLoop(c) \/ RtspHandleClient(c)
               \/ WebSocketAcceptLoop(c) \/ WebSocketHandleClient(c)
        PROVE  SocketInv'
    BY <2>2, ConnectionKeeps DEF RtspAcceptLoop, RtspHandleClient,
                                 WebSocketAcceptLoop, WebSocketHandleClient
  <2>3. ASSUME NEW c \in Clients,
               \/ HandleSetup(c) \/ MakePacketizer(c) \/ HandlePlay(c)
               \/ HandleTeardown(c) \/ InsertTopic(c) \/ ReceiveClose(c)
               \/ \E wanted \in SUBSET Topics : Subscribe(c, wanted)
        PROVE  SocketInv'
    BY <2>3, RequestKeeps
  <2>4. CASE UNCHANGED socketVars
    BY <2>4 DEF socketVars, SocketInv
  <2> QED BY <2>1, <2>2, <2>3, <2>4 DEF SocketNext
<1> QED BY <1>1, <1>2, PTL DEF SocketSpec

(* Whatever requests a client sends, PushFrame never meets its session      *)
(* without a packetizer, unless its thread is inside SETUP.                 *)
THEOREM PacketizerThereAlways == SocketSpec => []PacketizerThere
<1>1. SocketInv => PacketizerThere
  <2> SUFFICES ASSUME SocketInv, NEW c \in Watching
               PROVE  client[c].packetizer \/ client[c].at = "setup"
    BY DEF PacketizerThere
  <2>1. c \in Clients /\ client[c].channel
    BY DEF SocketInv, Watching
  <2> QED BY <2>1 DEF SocketInv, PacketizerMade
<1> QED BY <1>1, SocketInvariant, PTL

(* A connection's descriptor is closed once, while RtspServer or            *)
(* WebSocketServer runs and when it is stopped, and a second time only      *)
(* where Stop crosses the thread that closes it.                            *)
THEOREM SocketClosedOnceAlways == SocketSpec => []SocketClosedOnce
<1>1. SocketInv => SocketClosedOnce
  BY DEF SocketInv, OwnDescriptor, SocketClosedOnce
<1> QED BY <1>1, SocketInvariant, PTL

-----------------------------------------------------------------------------
(* HttpFlvService and WsMediaService.                                        *)

Entry == [n : Nat, key : BOOLEAN]

FlvViewer == [conn : {"none", "http", "ended", "remove"}, gen : Nat,
              active : BOOLEAN, got_header : BOOLEAN, got_keyframe : BOOLEAN,
              pending : Seq(Entry), last : Nat]

WsViewer == [conn : {"none", "ws", "close", "remove"}, active : BOOLEAN,
             fd : {"none", "open", "shut"}, closes : Nat, crossed : BOOLEAN,
             got_init_segment : BOOLEAN, got_keyframe : BOOLEAN,
             pending : Seq(Entry), last : Nat]

(* A queue while frame n is the newest one pushed: its frames follow the    *)
(* last one sent, in order, and two init segments are never neighbours.     *)
Queue(q, last, n) ==
    /\ last <= n /\ Increasing(q, last)
    /\ \A i \in 1..Len(q) : q[i].n <= n
    /\ \A i \in 2..Len(q) : q[i] = InitSegment => q[i-1] # InitSegment

FlvQueue(w, n) ==
    Queue(w.pending, w.last, n) /\ Len(w.pending) <= kMaxPendingTags

(* Without the init segment the queue is short and ends in a frame: it has  *)
(* just been cut, or nothing was queued yet.                                *)
WsQueue(w, n) ==
    /\ Queue(w.pending, w.last, n)
    /\ Len(w.pending) <= kMaxPendingSegments
    /\ ~w.got_init_segment =>
          /\ Len(w.pending) <= kMaxPendingSegments \div 2 + 1
          /\ w.pending # <<>> => w.pending[Len(w.pending)] # InitSegment

(* A descriptor that the viewer still has is open.  Its thread closes only  *)
(* one it has read, which Stop can close as well.                           *)
WsDescriptor(w) ==
    /\ w.fd # "none" \/ w.conn = "none" => w.closes = 0 /\ ~w.crossed
    /\ w.conn = "none" => w.fd = "none"
    /\ w.conn = "ws" => w.closes <= 1 /\ ~w.crossed
    /\ w.conn = "close" => w.closes <= 1 /\ (w.fd # "none" \/ w.crossed)
    /\ w.closes <= IF w.crossed THEN 2 ELSE 1

-----------------------------------------------------------------------------
(* The queues.                                                              *)

(* An empty queue is in order.                                              *)
LEMMA EmptyQueue ==
    ASSUME NEW n \in Nat
    PROVE  <<>> \in Seq(Entry) /\ Len(<<>>) = 0 /\ Queue(<<>>, 0, n)
<1>1. <<>> \in Seq(Entry) /\ Len(<<>>) = 0 /\ DOMAIN <<>> = {}
  OBVIOUS
<1> QED BY <1>1 DEF Queue, Increasing

(* A queue stays in order when the next frame is not put into it, ...       *)
LEMMA QueueLater ==
    ASSUME NEW q \in Seq(Entry), NEW last \in Nat, NEW n \in Nat,
           Queue(q, last, n)
    PROVE  Queue(q, last, n + 1)
<1>1. \A i \in 1..Len(q) : q[i].n \in Nat
  <2>1. \A x \in Entry : x.n \in Nat
    BY DEF Entry
  <2> QED BY <2>1
<1> QED BY <1>1 DEF Queue

(* ... when the next frame is put into it, ...                              *)
LEMMA QueueFrame ==
    ASSUME NEW q \in Seq(Entry), NEW last \in Nat, NEW n \in Nat,
           Queue(q, last, n), NEW key \in BOOLEAN,
           NEW f, f = [n |-> n + 1, key |-> key]
    PROVE  /\ Append(q, f) \in Seq(Entry) /\ Len(Append(q, f)) = Len(q) + 1
           /\ Queue(Append(q, f), last, n + 1)
           /\ Append(q, f) # <<>>
           /\ Append(q, f)[Len(Append(q, f))] # InitSegment
<1> DEFINE a == Append(q, f)
<1>1. f \in Entry /\ f.n = n + 1 /\ f # InitSegment
  BY DEF Entry, InitSegment
<1>2. /\ a \in Seq(Entry) /\ Len(a) = Len(q) + 1 /\ a[Len(q) + 1] = f
      /\ \A i \in 1..Len(q) : a[i] = q[i]
      /\ DOMAIN a = 1..Len(q) + 1 /\ DOMAIN q = 1..Len(q) /\ Len(q) \in Nat
      /\ a # <<>>
  BY <1>1
<1> HIDE DEF a
<1>3. \A i \in 1..Len(q) : q[i].n \in Nat /\ q[i].n <= n
  <2>1. \A x \in Entry : x.n \in Nat
    BY DEF Entry
  <2> QED BY <2>1 DEF Queue
<1>4. Increasing(a, last)
  <2>1. \A i \in DOMAIN a : a[i].n > last \/ a[i] = InitSegment
    BY <1>1, <1>2 DEF Queue, Increasing
  <2>2. ASSUME NEW i \in DOMAIN a, NEW j \in DOMAIN a, i < j,
               a[j] # InitSegment
        PROVE  a[i].n < a[j].n
    <3>1. i \in 1..Len(q)
      BY <1>2, <2>2
    <3>2. CASE j \in 1..Len(q)
      BY <1>2, <2>2, <3>1, <3>2 DEF Queue, Increasing
    <3>3. CASE j = Len(q) + 1
      <4>1. a[j].n = n + 1 /\ a[i] = q[i]
        BY <1>1, <1>2, <3>1, <3>3
      <4>2. q[i].n \in Nat /\ q[i].n <= n
        BY <1>3, <3>1
      <4> QED BY <4>1, <4>2
    <3> QED BY <1>2, <3>2, <3>3
  <2> QED BY <2>1, <2>2 DEF Increasing
<1>5. \A i \in 1..Len(a) : a[i].n <= n + 1
  <2> SUFFICES ASSUME NEW i \in 1..Len(a) PROVE a[i].n <= n + 1
    OBVIOUS
  <2>1. CASE i \in 1..Len(q)
    <3>1. a[i] = q[i] /\ q[i].n \in Nat /\ q[i].n <= n
      BY <1>2, <1>3, <2>1
    <3> QED BY <3>1
  <2>2. CASE i = Len(q) + 1
    BY <1>1, <1>2, <2>2
  <2> QED BY <1>2, <2>1, <2>2
<1>6. \A i \in 2..Len(a) : a[i] = InitSegment => a[i-1] # InitSegment
  <2> SUFFICES ASSUME NEW i \in 2..Len(a), a[i] = InitSegment
               PROVE  a[i-1] # InitSegment
    OBVIOUS
  <2>1. i \in 2..Len(q) /\ i - 1 \in 1..Len(q) /\ i \in 1..Len(q)
    BY <1>1, <1>2
  <2>2. a[i] = q[i] /\ a[i-1] = q[i-1]
    BY <1>2, <2>1
  <2> QED BY <2>1, <2>2 DEF Queue
<1>7. last <= n + 1
  BY DEF Queue
<1>8. a[Len(a)] # InitSegment
  BY <1>1, <1>2
<1> QED BY <1>2, <1>4, <1>5, <1>6, <1>7, <1>8 DEF Queue, a

(* ... and when an init segment is put in after a frame, or first.          *)
LEMMA QueueInitSegment ==
    ASSUME NEW q \in Seq(Entry), NEW last \in Nat, NEW n \in Nat,
           Queue(q, last, n), q # <<>> => q[Len(q)] # InitSegment
    PROVE  /\ Append(q, InitSegment) \in Seq(Entry)
           /\ Len(Append(q, InitSegment)) = Len(q) + 1
           /\ Queue(Append(q, InitSegment), last, n)
<1> DEFINE a == Append(q, InitSegment)
<1>1. InitSegment \in Entry /\ InitSegment.n = 0
  BY DEF Entry, InitSegment
<1>2. /\ a \in Seq(Entry) /\ Len(a) = Len(q) + 1 /\ a[Len(q) + 1] = InitSegment
      /\ \A i \in 1..Len(q) : a[i] = q[i]
      /\ DOMAIN a = 1..Len(q) + 1 /\ DOMAIN q = 1..Len(q) /\ Len(q) \in Nat
  BY <1>1
<1> HIDE DEF a
<1>3. Increasing(a, last)
  <2>1. \A i \in DOMAIN a : a[i].n > last \/ a[i] = InitSegment
    BY <1>2 DEF Queue, Increasing
  <2>2. ASSUME NEW i \in DOMAIN a, NEW j \in DOMAIN a, i < j,
               a[j] # InitSegment
        PROVE  a[i].n < a[j].n
    <3>1. i \in 1..Len(q) /\ j \in 1..Len(q)
      BY <1>2, <2>2
    <3> QED BY <1>2, <2>2, <3>1 DEF Queue, Increasing
  <2> QED BY <2>1, <2>2 DEF Increasing
<1>4. \A i \in 1..Len(a) : a[i].n <= n
  BY <1>1, <1>2 DEF Queue
<1>5. \A i \in 2..Len(a) : a[i] = InitSegment => a[i-1] # InitSegment
  <2> SUFFICES ASSUME NEW i \in 2..Len(a), a[i] = InitSegment
               PROVE  a[i-1] # InitSegment
    OBVIOUS
  <2>1. CASE i \in 1..Len(q)
    <3>1. i \in 2..Len(q) /\ i - 1 \in 1..Len(q)
      BY <1>2, <2>1
    <3> QED BY <1>2, <2>1, <3>1 DEF Queue
  <2>2. CASE i = Len(q) + 1
    <3>1. i - 1 = Len(q) /\ Len(q) \in 1..Len(q) /\ q # <<>>
      BY <1>2, <2>2
    <3> QED BY <1>2, <3>1
  <2> QED BY <1>2, <2>1, <2>2
<1> QED BY <1>2, <1>3, <1>4, <1>5 DEF Queue, a

(* The rest of a queue after its first k entries is in order, for every m   *)
(* before its frames.                                                       *)
LEMMA QueueRest ==
    ASSUME NEW q \in Seq(Entry), NEW last \in Nat, NEW n \in Nat,
           Queue(q, last, n), NEW k \in 0..Len(q), NEW m \in Nat, m <= n,
           \A i \in (k+1)..Len(q) : q[i].n > m \/ q[i] = InitSegment
    PROVE  /\ SubSeq(q, k + 1, Len(q)) \in Seq(Entry)
           /\ Len(SubSeq(q, k + 1, Len(q))) = Len(q) - k
           /\ Queue(SubSeq(q, k + 1, Len(q)), m, n)
           /\ k < Len(q) => SubSeq(q, k + 1, Len(q))[Len(q) - k] = q[Len(q)]
<1> DEFINE r == SubSeq(q, k + 1, Len(q))
<1>1. Len(q) \in Nat /\ k \in Nat /\ k <= Len(q) /\ DOMAIN q = 1..Len(q)
  OBVIOUS
<1>2. /\ r \in Seq(Entry) /\ Len(r) = Len(q) - k /\ DOMAIN r = 1..Len(r)
      /\ \A i \in 1..Len(r) : r[i] = q[k + i]
  <2>1. \A i \in (k+1)..Len(q) : q[i] \in Entry
    BY <1>1
  <2>2. k + 1 \in Int /\ Len(q) \in Int
    BY <1>1
  <2> HIDE DEF r
  <2>3. /\ r \in Seq(Entry)
        /\ Len(r) = IF k + 1 <= Len(q) THEN Len(q) - (k + 1) + 1 ELSE 0
        /\ \A i \in 1..(Len(q) - (k + 1) + 1) : r[i] = q[(k + 1) + i - 1]
    BY <2>1, <2>2, SubSeqProperties DEF r
  <2>4. Len(r) = Len(q) - k
    <3>1. Len(r) = IF k + 1 <= Len(q) THEN Len(q) - (k + 1) + 1 ELSE 0
      BY <2>3
    <3>2. Len(q) \in Nat /\ k \in Nat /\ k <= Len(q)
      BY <1>1
    <3>3. CASE k + 1 <= Len(q)
      BY <3>1, <3>2, <3>3
    <3>4. CASE ~(k + 1 <= Len(q))
      BY <3>1, <3>2, <3>4
    <3> QED BY <3>3, <3>4
  <2>5. ASSUME NEW i \in 1..Len(r) PROVE r[i] = q[k + i]
    <3>1. i \in 1..(Len(q) - (k + 1) + 1) /\ (k + 1) + i - 1 = k + i
      BY <1>1, <2>4
    <3> QED BY <2>3, <3>1
  <2> QED BY <2>3, <2>4, <2>5
<1> HIDE DEF r
<1>3. Increasing(r, m)
  <2>1. ASSUME NEW i \in DOMAIN r PROVE r[i].n > m \/ r[i] = InitSegment
    <3>1. k + i \in (k+1)..Len(q)
      BY <1>1, <1>2, <2>1
    <3> QED BY <1>2, <2>1, <3>1
  <2>2. ASSUME NEW i \in DOMAIN r, NEW j \in DOMAIN r, i < j,
               r[j] # InitSegment
        PROVE  r[i].n < r[j].n
    <3>1. k + i \in DOMAIN q /\ k + j \in DOMAIN q /\ k + i < k + j
      BY <1>1, <1>2, <2>2
    <3>2. r[i] = q[k + i] /\ r[j] = q[k + j]
      BY <1>2, <2>2
    <3> QED BY <2>2, <3>1, <3>2 DEF Queue, Increasing
  <2> QED BY <2>1, <2>2 DEF Increasing
<1>4. \A i \in 1..Len(r) : r[i].n <= n
  <2> SUFFICES ASSUME NEW i \in 1..Len(r) PROVE r[i].n <= n
    OBVIOUS
  <2>1. k + i \in 1..Len(q)
    BY <1>1, <1>2
  <2> QED BY <1>2, <2>1 DEF Queue
<1>5. \A i \in 2..Len(r) : r[i] = InitSegment => r[i-1] # InitSegment
  <2> SUFFICES ASSUME NEW i \in 2..Len(r), r[i] = InitSegment
               PROVE  r[i-1] # InitSegment
    OBVIOUS
  <2>1. /\ i \in 1..Len(r) /\ i - 1 \in 1..Len(r) /\ k + i \in 2..Len(q)
        /\ k + (i - 1) = (k + i) - 1
    BY <1>1, <1>2
  <2>2. r[i] = q[k + i] /\ r[i-1] = q[(k + i) - 1]
    BY <1>2, <2>1
  <2> QED BY <2>1, <2>2 DEF Queue
<1>6. k < Len(q) => r[Len(q) - k] = q[Len(q)]
  BY <1>1, <1>2
<1> QED BY <1>2, <1>3, <1>4, <1>5, <1>6 DEF Queue, r

(* DropOldest leaves the newest m entries in order.                         *)
LEMMA QueueCut ==
    ASSUME NEW q \in Seq(Entry), NEW last \in Nat, NEW n \in Nat,
           Queue(q, last, n), NEW m \in 0..Len(q)
    PROVE  /\ DropOldest(q, m) \in Seq(Entry) /\ Len(DropOldest(q, m)) = m
           /\ Queue(DropOldest(q, m), last, n)
<1>1. Len(q) \in Nat /\ DOMAIN q = 1..Len(q)
  OBVIOUS
<1> DEFINE k == Len(q) - m
<1>2. k \in 0..Len(q) /\ Len(q) - k = m
  BY <1>1
<1>3. \A i \in (k+1)..Len(q) : q[i].n > last \/ q[i] = InitSegment
  BY <1>1, <1>2 DEF Queue, Increasing
<1>4. last <= n
  BY DEF Queue
<1>5. DropOldest(q, m) = SubSeq(q, k + 1, Len(q))
  BY DEF DropOldest
<1> HIDE DEF k
<1> QED BY <1>2, <1>3, <1>4, <1>5, QueueRest

(* What was sent ends in NewestOf: everything behind it in the queue is a   *)
(* later frame or an init segment.                                          *)
LEMMA NewestSent ==
    ASSUME NEW q \in Seq(Entry), NEW last \in Nat, NEW n \in Nat,
           Queue(q, last, n), NEW k \in 0..Len(q)
    PROVE  /\ NewestOf(q, k, last) \in Nat /\ NewestOf(q, k, last) <= n
           /\ \A i \in (k+1)..Len(q) :
                 q[i].n > NewestOf(q, k, last) \/ q[i] = InitSegment
<1>1. Len(q) \in Nat /\ DOMAIN q = 1..Len(q) /\ k \in Nat /\ k <= Len(q)
  OBVIOUS
<1>2. \A i \in 1..Len(q) : q[i].n \in Nat /\ q[i].n <= n
  <2>1. \A x \in Entry : x.n \in Nat
    BY DEF Entry
  <2> QED BY <2>1 DEF Queue
<1>3. CASE ~ \E i \in 1..k : q[i].n > last
  <2>1. NewestOf(q, k, last) = last
    BY <1>3 DEF NewestOf
  <2> QED BY <1>1, <2>1 DEF Queue, Increasing
<1>4. CASE \E i \in 1..k : q[i].n > last
  <2>1. PICK a \in 1..k : q[a].n > last
    BY <1>4
  <2> DEFINE Top(i) == \A j \in 1..k : q[j].n <= q[i].n
  <2>2. \E i \in 1..k : Top(i)
    <3>1. a \in 1..Len(q) /\ k \in 1..Len(q) /\ q[a].n \in Nat
      BY <1>1, <1>2, <2>1
    <3>2. CASE q[k] # InitSegment
      <4>1. ASSUME NEW j \in 1..k PROVE q[j].n <= q[k].n
        <5>1. CASE j = k
          BY <1>2, <3>1, <5>1
        <5>2. CASE j < k
          <6>1. j \in DOMAIN q /\ k \in DOMAIN q /\ j \in 1..Len(q)
            BY <1>1, <3>1
          <6>2. q[j].n < q[k].n
            BY <3>2, <5>2, <6>1 DEF Queue, Increasing
          <6>3. q[j].n \in Nat /\ q[k].n \in Nat
            BY <1>2, <3>1, <6>1
          <6> QED BY <6>2, <6>3
        <5> QED BY <1>1, <5>1, <5>2
      <4>2. k \in 1..k
        BY <1>1, <3>1
      <4> QED BY <4>1, <4>2
    <3>3. CASE q[k] = InitSegment
      <4>1. q[k].n = 0
        BY <3>3 DEF InitSegment
      <4>2. a # k
        BY <2>1, <4>1
      <4>3. k \in 2..Len(q) /\ k - 1 \in 1..k /\ k - 1 \in 1..Len(q)
        BY <1>1, <2>1, <4>2
      <4>4. q[k-1] # InitSegment
        BY <3>3, <4>3 DEF Queue
      <4>5. ASSUME NEW j \in 1..k PROVE q[j].n <= q[k-1].n
        <5>1. j \in 1..Len(q) /\ q[j].n \in Nat /\ q[k-1].n \in Nat
          BY <1>1, <1>2, <4>3
        <5>2. CASE j = k
          BY <4>1, <5>1, <5>2
        <5>3. CASE j = k - 1
          BY <5>1, <5>3
        <5>4. CASE j < k - 1
          <6>1. q[j].n < q[k-1].n
            BY <1>1, <4>3, <4>4, <5>1, <5>4 DEF Queue, Increasing
          <6> QED BY <5>1, <6>1
        <5> QED BY <1>1, <4>3, <5>2, <5>3, <5>4
      <4> QED BY <4>3, <4>5
    <3> QED BY <3>2, <3>3
  <2> DEFINE t == CHOOSE i \in 1..k : Top(i)
  <2>3. t \in 1..k /\ Top(t)
    BY <2>2
  <2>4. NewestOf(q, k, last) = q[t].n
    BY <1>4 DEF NewestOf
  <2> HIDE DEF t
  <2>5. t \in 1..Len(q) /\ q[t].n \in Nat /\ q[t].n <= n /\ q[t].n > last
        /\ t \in DOMAIN q
    <3>1. t \in 1..Len(q) /\ a \in 1..Len(q)
      BY <1>1, <2>1, <2>3
    <3>2. q[t].n \in Nat /\ q[t].n <= n /\ q[a].n \in Nat
      BY <1>2, <3>1
    <3>3. q[a].n <= q[t].n
      BY <2>1, <2>3
    <3> QED BY <1>1, <2>1, <3>1, <3>2, <3>3
  <2>6. ASSUME NEW i \in (k+1)..Len(q)
        PROVE  q[i].n > q[t].n \/ q[i] = InitSegment
    <3>1. t < i /\ i \in DOMAIN q /\ i \in 1..Len(q)
      BY <1>1, <2>3, <2>6
    <3>2. q[i] = InitSegment \/ q[t].n < q[i].n
      BY <2>5, <3>1 DEF Queue, Increasing
    <3>3. q[i].n \in Nat
      BY <1>2, <3>1
    <3> QED BY <2>5, <3>2, <3>3
  <2> QED BY <2>4, <2>5, <2>6
<1> QED BY <1>3, <1>4
-----------------------------------------------------------------------------
(* A frame is offered to a viewer.                                          *)

(* Half of a limit, as a full queue is cut to.                              *)
LEMMA Half ==
    ASSUME NEW k \in Nat
    PROVE  k \div 2 \in Nat /\ 2 * (k \div 2) <= k
OBVIOUS

(* FlvOffer leaves a queue in order and within kMaxPendingTags: the test and*)
(* the cut come before the tag goes in.                                     *)
LEMMA FlvOfferKeeps ==
    ASSUME NEW w \in FlvViewer, NEW n \in Nat, FlvQueue(w, n),
           NEW key \in BOOLEAN, NEW f, f = [n |-> n + 1, key |-> key]
    PROVE  FlvOffer(w, f) \in FlvViewer /\ FlvQueue(FlvOffer(w, f), n + 1)
<1> DEFINE full == Len(w.pending) >= kMaxPendingTags
           half == kMaxPendingTags \div 2
           kept == IF full THEN DropOldest(w.pending, half) ELSE w.pending
           a == Append(kept, f)
<1>1. w.pending \in Seq(Entry) /\ w.last \in Nat /\ Len(w.pending) \in Nat
      /\ Queue(w.pending, w.last, n) /\ Len(w.pending) <= kMaxPendingTags
  BY DEF FlvViewer, FlvQueue
<1>2. kMaxPendingTags \in Nat \ {0} /\ half \in Nat /\ 2 * half <= kMaxPendingTags
  BY LiveAssumption, Half
<1> HIDE DEF half
<1>3. kept \in Seq(Entry) /\ Len(kept) < kMaxPendingTags
      /\ Queue(kept, w.last, n)
  <2>1. CASE full
    <3>1. half \in 0..Len(w.pending) /\ half < kMaxPendingTags
      BY <1>1, <1>2, <2>1
    <3>2. /\ DropOldest(w.pending, half) \in Seq(Entry)
          /\ Len(DropOldest(w.pending, half)) = half
          /\ Queue(DropOldest(w.pending, half), w.last, n)
      BY <1>1, <3>1, QueueCut
    <3> QED BY <2>1, <3>1, <3>2
  <2>2. CASE ~full
    BY <1>1, <1>2, <2>2
  <2> QED BY <2>1, <2>2
<1>4. FlvOffer(w, f) = IF f.key \/ (w.got_keyframe /\ ~full)
                       THEN [w EXCEPT !.got_keyframe = TRUE, !.pending = a]
                       ELSE w
  BY DEF FlvOffer, half
<1> HIDE DEF full, kept
<1>5. /\ a \in Seq(Entry) /\ Len(a) = Len(kept) + 1
      /\ Queue(a, w.last, n + 1)
  BY <1>1, <1>3, QueueFrame
<1> HIDE DEF a
<1>6. CASE FlvOffer(w, f) = w
  <2>1. Queue(w.pending, w.last, n + 1)
    BY <1>1, QueueLater
  <2> QED BY <1>1, <1>6, <2>1 DEF FlvQueue
<1>7. CASE FlvOffer(w, f) = [w EXCEPT !.got_keyframe = TRUE, !.pending = a]
  <2>1. /\ FlvOffer(w, f) \in FlvViewer /\ FlvOffer(w, f).pending = a
        /\ FlvOffer(w, f).last = w.last
    BY <1>5, <1>7 DEF FlvViewer
  <2>2. Len(a) <= kMaxPendingTags
    BY <1>2, <1>3, <1>5
  <2> QED BY <1>5, <2>1, <2>2 DEF FlvQueue
<1> QED BY <1>4, <1>6, <1>7

(* WsOffer leaves a queue in order and within kMaxPendingSegments, although *)
(* the init segment goes in before the test: it does so only in a queue that*)
(* was cut to half, or is new.  The descriptor is left alone.               *)
LEMMA WsOfferKeeps ==
    ASSUME NEW w \in WsViewer, NEW n \in Nat, WsQueue(w, n),
           NEW key \in BOOLEAN, NEW f, f = [n |-> n + 1, key |-> key]
    PROVE  /\ WsOffer(w, f) \in WsViewer /\ WsQueue(WsOffer(w, f), n + 1)
           /\ WsOffer(w, f).conn = w.conn /\ WsOffer(w, f).fd = w.fd
           /\ WsOffer(w, f).closes = w.closes
           /\ WsOffer(w, f).crossed = w.crossed
<1> DEFINE half == kMaxPendingSegments \div 2
           headed == IF w.got_init_segment THEN w.pending
                     ELSE Append(w.pending, InitSegment)
           full == Len(headed) >= kMaxPendingSegments
           kept == IF full THEN DropOldest(headed, half) ELSE headed
           a == Append(kept, f)
<1>1. w.pending \in Seq(Entry) /\ w.last \in Nat /\ Len(w.pending) \in Nat
      /\ Queue(w.pending, w.last, n) /\ Len(w.pending) <= kMaxPendingSegments
  BY DEF WsViewer, WsQueue
<1>2. kMaxPendingSegments \in Nat /\ kMaxPendingSegments >= 4
      /\ half \in Nat /\ 2 * half <= kMaxPendingSegments
  BY LiveAssumption, Half
<1>3. /\ headed \in Seq(Entry) /\ Queue(headed, w.last, n)
      /\ Len(headed) \in Nat /\ Len(headed) <= kMaxPendingSegments
  <2>1. CASE w.got_init_segment
    BY <1>1, <2>1
  <2>2. CASE ~w.got_init_segment
    <3>1. /\ Len(w.pending) <= half + 1
          /\ w.pending # <<>> => w.pending[Len(w.pending)] # InitSegment
      BY <2>2 DEF WsQueue
    <3>2. /\ Append(w.pending, InitSegment) \in Seq(Entry)
          /\ Len(Append(w.pending, InitSegment)) = Len(w.pending) + 1
          /\ Queue(Append(w.pending, InitSegment), w.last, n)
      BY <1>1, <3>1, QueueInitSegment
    <3> HIDE DEF half
    <3>3. Len(w.pending) + 1 <= kMaxPendingSegments
      BY <1>1, <1>2, <3>1
    <3> QED BY <1>1, <2>2, <3>2, <3>3
  <2> QED BY <2>1, <2>2
<1>4. WsOffer(w, f) =
        IF ~(f.key \/ w.got_keyframe) THEN w
        ELSE IF full /\ ~f.key
        THEN [w EXCEPT !.got_init_segment = TRUE, !.pending = headed]
        ELSE [w EXCEPT !.got_keyframe = TRUE, !.got_init_segment = ~full,
                       !.pending = a]
  BY DEF WsOffer
<1> HIDE DEF half, headed
<1>5. /\ kept \in Seq(Entry) /\ Queue(kept, w.last, n)
      /\ Len(kept) < kMaxPendingSegments
      /\ full => Len(kept) = half
  <2>1. CASE full
    <3>1. half \in 0..Len(headed) /\ half < kMaxPendingSegments
      BY <1>2, <1>3, <2>1
    <3>2. /\ DropOldest(headed, half) \in Seq(Entry)
          /\ Len(DropOldest(headed, half)) = half
          /\ Queue(DropOldest(headed, half), w.last, n)
      BY <1>1, <1>3, <3>1, QueueCut
    <3> QED BY <2>1, <3>1, <3>2
  <2>2. CASE ~full
    BY <1>2, <1>3, <2>2
  <2> QED BY <2>1, <2>2
<1>6. full \in BOOLEAN
  OBVIOUS
<1> HIDE DEF full, kept
<1>7. /\ a \in Seq(Entry) /\ Len(a) = Len(kept) + 1 /\ a # <<>>
      /\ Queue(a, w.last, n + 1) /\ a[Len(a)] # InitSegment
  BY <1>1, <1>5, QueueFrame
<1> HIDE DEF a
<1> DEFINE x == WsOffer(w, f)
<1>8. CASE x = w
  <2>1. Queue(w.pending, w.last, n + 1)
    BY <1>1, QueueLater
  <2> QED BY <1>8, <2>1 DEF WsQueue
<1>9. CASE x = [w EXCEPT !.got_init_segment = TRUE, !.pending = headed]
  <2>1. /\ x \in WsViewer /\ x.pending = headed /\ x.last = w.last
        /\ x.got_init_segment = TRUE
        /\ x.conn = w.conn /\ x.fd = w.fd /\ x.closes = w.closes
        /\ x.crossed = w.crossed
    BY <1>3, <1>9 DEF WsViewer
  <2>2. Queue(headed, w.last, n + 1)
    BY <1>1, <1>3, QueueLater
  <2> QED BY <1>3, <2>1, <2>2 DEF WsQueue
<1>10. CASE x = [w EXCEPT !.got_keyframe = TRUE, !.got_init_segment = ~full,
                          !.pending = a]
  <2>1. /\ x \in WsViewer /\ x.pending = a /\ x.last = w.last
        /\ x.got_init_segment = ~full
        /\ x.conn = w.conn /\ x.fd = w.fd /\ x.closes = w.closes
        /\ x.crossed = w.crossed
    BY <1>6, <1>7, <1>10 DEF WsViewer
  <2>2. Len(a) <= kMaxPendingSegments /\ (full => Len(a) = half + 1)
    BY <1>2, <1>5, <1>7
  <2>3. ~x.got_init_segment => full
    BY <2>1, <1>6
  <2> QED BY <1>7, <2>1, <2>2, <2>3 DEF WsQueue, half
<1> QED BY <1>4, <1>8, <1>9, <1>10
-----------------------------------------------------------------------------
(* The services.                                                            *)

FlvStream == [running : BOOLEAN, gen : Nat, header : Nat,
              viewers : SUBSET Viewers]
WsStream == [running : BOOLEAN, stopped : BOOLEAN, gen : Nat, init : Nat,
             active : BOOLEAN, viewers : SUBSET Viewers]

FlvInv ==
    /\ flv \in FlvStream /\ flvViewers \in [Viewers -> FlvViewer]
    /\ \A v \in Viewers : FlvQueue(flvViewers[v], pushed)

WsInv ==
    /\ wsm \in WsStream /\ wsViewers \in [Viewers -> WsViewer]
    /\ \A v \in Viewers : WsQueue(wsViewers[v], pushed)
    /\ \A v \in Viewers : WsDescriptor(wsViewers[v])

CountsOK == pushed \in Nat /\ registered \in Nat

(* A viewer that is not connected meets all its conditions.                 *)
LEMMA NewViewers ==
    ASSUME NEW n \in Nat
    PROVE  /\ NewFlvViewer \in FlvViewer /\ FlvQueue(NewFlvViewer, n)
           /\ NewWsViewer \in WsViewer /\ WsQueue(NewWsViewer, n)
           /\ WsDescriptor(NewWsViewer)
<1>1. NewFlvViewer \in FlvViewer /\ NewFlvViewer.pending = <<>>
      /\ NewFlvViewer.last = 0
  BY EmptyQueue DEF NewFlvViewer, FlvViewer
<1>2. NewWsViewer \in WsViewer /\ NewWsViewer.pending = <<>>
      /\ NewWsViewer.last = 0
  BY EmptyQueue DEF NewWsViewer, WsViewer
<1>3. kMaxPendingSegments \div 2 \in Nat /\ kMaxPendingSegments \in Nat
      /\ kMaxPendingTags \in Nat
  BY LiveAssumption, Half
<1>4. FlvQueue(NewFlvViewer, n)
  BY <1>1, <1>3, EmptyQueue DEF FlvQueue
<1>5. WsQueue(NewWsViewer, n)
  BY <1>2, <1>3, EmptyQueue DEF WsQueue
<1>6. WsDescriptor(NewWsViewer)
  BY DEF NewWsViewer, WsDescriptor
<1> QED BY <1>1, <1>2, <1>4, <1>5, <1>6

(* A step that changes one viewer keeps the invariant if that viewer does.  *)
LEMMA FlvReplaced ==
    ASSUME FlvInv, NEW v \in Viewers, NEW w \in FlvViewer, FlvQueue(w, pushed),
           flvViewers' = [flvViewers EXCEPT ![v] = w],
           pushed' = pushed, flv' \in FlvStream
    PROVE  FlvInv'
<1>1. flvViewers' \in [Viewers -> FlvViewer]
  BY DEF FlvInv
<1>2. \A u \in Viewers : flvViewers'[u] = IF u = v THEN w ELSE flvViewers[u]
  BY DEF FlvInv
<1> QED BY <1>1, <1>2 DEF FlvInv

(* The same for a viewer of WsMediaService.                                 *)
LEMMA WsReplaced ==
    ASSUME WsInv, NEW v \in Viewers, NEW w \in WsViewer, WsQueue(w, pushed),
           WsDescriptor(w),
           wsViewers' = [wsViewers EXCEPT ![v] = w],
           pushed' = pushed, wsm' \in WsStream
    PROVE  WsInv'
<1>1. wsViewers' \in [Viewers -> WsViewer]
  BY DEF WsInv
<1>2. \A u \in Viewers : wsViewers'[u] = IF u = v THEN w ELSE wsViewers[u]
  BY DEF WsInv
<1> QED BY <1>1, <1>2 DEF WsInv

(* A step of one service leaves the other one's viewers as they are, also   *)
(* when a frame is pushed.                                                  *)
LEMMA FlvUntouched ==
    ASSUME FlvInv, CountsOK, UNCHANGED flvVars, pushed' \in {pushed, pushed + 1}
    PROVE  FlvInv'
<1>1. \A v \in Viewers : FlvQueue(flvViewers[v], pushed + 1)
  <2> SUFFICES ASSUME NEW v \in Viewers PROVE FlvQueue(flvViewers[v], pushed + 1)
    OBVIOUS
  <2>1. flvViewers[v].pending \in Seq(Entry) /\ flvViewers[v].last \in Nat
    BY DEF FlvInv, FlvViewer
  <2>2. Queue(flvViewers[v].pending, flvViewers[v].last, pushed)
    BY DEF FlvInv, FlvQueue
  <2>3. Queue(flvViewers[v].pending, flvViewers[v].last, pushed + 1)
    BY <2>1, <2>2, QueueLater DEF CountsOK
  <2> QED BY <2>3 DEF FlvInv, FlvQueue
<1> QED BY <1>1 DEF FlvInv, flvVars

(* The same for the viewers of WsMediaService.                              *)
LEMMA WsUntouched ==
    ASSUME WsInv, CountsOK, UNCHANGED wsVars, pushed' \in {pushed, pushed + 1}
    PROVE  WsInv'
<1>1. \A v \in Viewers : WsQueue(wsViewers[v], pushed + 1)
  <2> SUFFICES ASSUME NEW v \in Viewers PROVE WsQueue(wsViewers[v], pushed + 1)
    OBVIOUS
  <2>1. wsViewers[v].pending \in Seq(Entry) /\ wsViewers[v].last \in Nat
    BY DEF WsInv, WsViewer
  <2>2. Queue(wsViewers[v].pending, wsViewers[v].last, pushed)
    BY DEF WsInv, WsQueue
  <2>3. Queue(wsViewers[v].pending, wsViewers[v].last, pushed + 1)
    BY <2>1, <2>2, QueueLater DEF CountsOK
  <2> QED BY <2>3 DEF WsInv, WsQueue
<1> QED BY <1>1 DEF WsInv, wsVars

(* Every step of HttpFlvService keeps its invariant.                        *)
LEMMA FlvKeeps ==
    ASSUME FlvInv, CountsOK, FlvNext
    PROVE  FlvInv' /\ CountsOK' /\ UNCHANGED wsVars
           /\ pushed' \in {pushed, pushed + 1}
<1> USE DEF FlvStream
<1>1. CASE FlvRegisterChannel
  <2>1. UNCHANGED <<flvViewers, pushed, wsVars>> /\ registered' \in Nat
    BY <1>1 DEF FlvRegisterChannel, CountsOK
  <2>2. flv' \in FlvStream
    <3>1. flv.running \in BOOLEAN /\ registered + 1 \in Nat
      BY DEF FlvInv, CountsOK
    <3>2. flv' = [running |-> flv.running, gen |-> registered + 1,
                  header |-> 0, viewers |-> {}]
      BY <1>1 DEF FlvRegisterChannel, NoFlvStream
    <3> QED BY <3>1, <3>2
  <2> QED BY <2>1, <2>2 DEF FlvInv, CountsOK
<1>2. ASSUME NEW S \in SUBSET Viewers, flvViewers' = Deactivated(S),
             flv' \in FlvStream, UNCHANGED <<wsVars, pushed, registered>>
      PROVE  FlvInv' /\ CountsOK' /\ UNCHANGED wsVars
             /\ pushed' \in {pushed, pushed + 1}
  <2>1. ASSUME NEW v \in Viewers
        PROVE  /\ flvViewers'[v] \in FlvViewer
               /\ FlvQueue(flvViewers'[v], pushed)
    <3> DEFINE x == [flvViewers[v] EXCEPT !.active = FALSE]
    <3>1. flvViewers[v] \in FlvViewer /\ FlvQueue(flvViewers[v], pushed)
      BY DEF FlvInv
    <3>2. /\ x \in FlvViewer /\ x.pending = flvViewers[v].pending
          /\ x.last = flvViewers[v].last
      BY <3>1 DEF FlvViewer
    <3>3. FlvQueue(x, pushed)
      BY <3>1, <3>2 DEF FlvQueue
    <3>4. flvViewers'[v] = IF v \in S THEN x ELSE flvViewers[v]
      BY <1>2 DEF Deactivated
    <3> QED BY <3>1, <3>2, <3>3, <3>4
  <2>2. flvViewers' \in [Viewers -> FlvViewer]
    <3>1. flvViewers' = [v \in Viewers |-> flvViewers'[v]]
      BY <1>2 DEF Deactivated
    <3> QED BY <2>1, <3>1
  <2> QED BY <1>2, <2>1, <2>2 DEF FlvInv, CountsOK
<1>3. CASE FlvUnregisterChannel
  BY <1>2, <1>3 DEF FlvUnregisterChannel, FlvInv, NoFlvStream
<1>4. CASE FlvStopAll
  BY <1>2, <1>4 DEF FlvStopAll, FlvInv
<1>5. ASSUME NEW key \in BOOLEAN, NEW tag \in BOOLEAN, NEW params \in {0, 1},
             FlvPushFrame(key, params, tag)
      PROVE  FlvInv' /\ CountsOK' /\ UNCHANGED wsVars
             /\ pushed' \in {pushed, pushed + 1}
  <2> DEFINE fed == {v \in flv.viewers : flvViewers[v].active}
             f == [n |-> pushed + 1, key |-> key]
  <2>1. /\ pushed' = pushed + 1 /\ UNCHANGED <<wsVars, registered>>
        /\ flv' = [flv EXCEPT !.header = IF key /\ params # 0 THEN params ELSE @,
                              !.viewers = IF tag THEN fed ELSE @]
        /\ flvViewers' = [v \in Viewers |-> IF tag /\ v \in fed
                                            THEN FlvOffer(flvViewers[v], f)
                                            ELSE flvViewers[v]]
    BY <1>5 DEF FlvPushFrame
  <2>2. flv' \in FlvStream
    <3> DEFINE hd == IF key /\ params # 0 THEN params ELSE flv.header
               vs == IF tag THEN fed ELSE flv.viewers
    <3>1. flv \in FlvStream /\ hd \in Nat /\ vs \in SUBSET Viewers
      BY DEF FlvInv
    <3>2. flv' = [flv EXCEPT !.header = hd, !.viewers = vs]
      BY <2>1
    <3> HIDE DEF hd, vs
    <3> QED BY <3>1, <3>2
  <2>3. pushed \in Nat /\ CountsOK'
    BY <2>1 DEF CountsOK
  <2> HIDE DEF f, fed
  <2>4. ASSUME NEW v \in Viewers
        PROVE  /\ flvViewers'[v] \in FlvViewer
               /\ FlvQueue(flvViewers'[v], pushed + 1)
    <3>1. /\ flvViewers[v] \in FlvViewer /\ FlvQueue(flvViewers[v], pushed)
          /\ flvViewers[v].pending \in Seq(Entry) /\ flvViewers[v].last \in Nat
      BY DEF FlvInv, FlvViewer
    <3>2. CASE flvViewers'[v] = FlvOffer(flvViewers[v], f)
      BY <2>3, <3>1, <3>2, FlvOfferKeeps DEF f
    <3>3. CASE flvViewers'[v] = flvViewers[v]
      <4>1. Queue(flvViewers[v].pending, flvViewers[v].last, pushed + 1)
        BY <2>3, <3>1, QueueLater DEF FlvQueue
      <4> QED BY <3>1, <3>3, <4>1 DEF FlvQueue
    <3> QED BY <2>1, <3>2, <3>3
  <2>5. flvViewers' \in [Viewers -> FlvViewer]
    BY <2>1, <2>4
  <2> QED BY <2>1, <2>2, <2>3, <2>4, <2>5 DEF FlvInv
<1>6. ASSUME NEW v \in Viewers,
             \/ FlvCreateViewer(v) \/ FlvSendHeader(v) \/ FlvEnd(v)
             \/ FlvRemoveViewer(v)
             \/ \E k \in 1..Len(flvViewers[v].pending) : FlvStreamToViewer(v, k)
      PROVE  FlvInv' /\ CountsOK' /\ UNCHANGED wsVars
             /\ pushed' \in {pushed, pushed + 1}
  <2> DEFINE w == flvViewers[v]
  <2>1. /\ w \in FlvViewer /\ FlvQueue(w, pushed) /\ pushed \in Nat
        /\ registered \in Nat /\ w.pending \in Seq(Entry) /\ w.last \in Nat
        /\ flv \in FlvStream /\ flv.gen \in Nat
        /\ flvViewers \in [Viewers -> FlvViewer]
    BY DEF FlvInv, CountsOK, FlvViewer
  <2>2. UNCHANGED <<wsVars, pushed, registered>>
    BY <1>6 DEF FlvCreateViewer, FlvSendHeader, FlvEnd, FlvRemoveViewer,
                FlvStreamToViewer
  <2>3. flv' \in FlvStream
    <3>1. \/ flv' = flv
          \/ flv' = [flv EXCEPT !.viewers = @ \union {v}]
          \/ flv' = [flv EXCEPT !.viewers = @ \ {v}]
      BY <1>6 DEF FlvCreateViewer, FlvSendHeader, FlvEnd, FlvRemoveViewer,
                  FlvStreamToViewer
    <3> QED BY <2>1, <3>1
  <2>4. \E x \in FlvViewer : /\ FlvQueue(x, pushed)
                             /\ flvViewers' = [flvViewers EXCEPT ![v] = x]
    <3>1. CASE FlvCreateViewer(v)
      <4> DEFINE x == [NewFlvViewer EXCEPT !.conn = "http", !.active = TRUE,
                                           !.gen = flv.gen]
      <4>1. /\ x \in FlvViewer /\ x.pending = NewFlvViewer.pending
            /\ x.last = NewFlvViewer.last
        BY <2>1, NewViewers DEF FlvViewer
      <4>2. FlvQueue(x, pushed)
        BY <2>1, <4>1, NewViewers DEF FlvQueue
      <4>3. flvViewers' = [flvViewers EXCEPT ![v] = x]
        BY <3>1 DEF FlvCreateViewer
      <4> QED BY <4>1, <4>2, <4>3
    <3>2. CASE FlvSendHeader(v) \/ FlvEnd(v)
      <4>1. PICK x \in FlvViewer :
               /\ flvViewers' = [flvViewers EXCEPT ![v] = x]
               /\ x.pending = w.pending /\ x.last = w.last
        <5>1. CASE FlvSendHeader(v)
          <6> DEFINE x == [w EXCEPT !.got_header = TRUE]
          <6>1. x \in FlvViewer /\ x.pending = w.pending /\ x.last = w.last
            BY <2>1 DEF FlvViewer
          <6>2. flvViewers' = [flvViewers EXCEPT ![v] = x]
            BY <5>1 DEF FlvSendHeader
          <6> QED BY <6>1, <6>2
        <5>2. CASE FlvEnd(v)
          <6> DEFINE x == [w EXCEPT !.conn = "remove", !.active = FALSE]
          <6>1. x \in FlvViewer /\ x.pending = w.pending /\ x.last = w.last
            BY <2>1 DEF FlvViewer
          <6>2. flvViewers' = [flvViewers EXCEPT ![v] = x]
            BY <2>1, <5>2 DEF FlvEnd
          <6> QED BY <6>1, <6>2
        <5> QED BY <3>2, <5>1, <5>2
      <4> QED BY <2>1, <4>1 DEF FlvQueue
    <3>3. CASE FlvRemoveViewer(v)
      BY <2>1, <3>3, NewViewers DEF FlvRemoveViewer
    <3>4. ASSUME NEW k \in 1..Len(w.pending), FlvStreamToViewer(v, k)
          PROVE  \E x \in FlvViewer : /\ FlvQueue(x, pushed)
                                      /\ flvViewers' = [flvViewers EXCEPT ![v] = x]
      <4> DEFINE m == NewestOf(w.pending, k, w.last)
                 r == SubSeq(w.pending, k + 1, Len(w.pending))
                 x == [w EXCEPT !.last = m, !.pending = r,
                                !.conn = IF k = Len(w.pending) THEN @ ELSE "ended"]
      <4>1. flvViewers' = [flvViewers EXCEPT ![v] = x]
        BY <3>4 DEF FlvStreamToViewer
      <4>2. k \in 0..Len(w.pending) /\ Len(w.pending) \in Nat
        BY <2>1, <3>4
      <4>3. Queue(w.pending, w.last, pushed) /\ Len(w.pending) <= kMaxPendingTags
        BY <2>1 DEF FlvQueue
      <4> HIDE DEF m, r
      <4>4. /\ m \in Nat /\ m <= pushed
            /\ \A i \in (k+1)..Len(w.pending) :
                  w.pending[i].n > m \/ w.pending[i] = InitSegment
        BY <2>1, <4>2, <4>3, NewestSent DEF m
      <4>5. /\ r \in Seq(Entry) /\ Len(r) = Len(w.pending) - k
            /\ Queue(r, m, pushed)
        BY <2>1, <4>2, <4>3, <4>4, QueueRest DEF r
      <4>6. x \in FlvViewer /\ x.pending = r /\ x.last = m
        BY <2>1, <4>4, <4>5 DEF FlvViewer
      <4>7. Len(r) <= kMaxPendingTags
        BY <4>2, <4>3, <4>5, LiveAssumption
      <4> QED BY <4>1, <4>5, <4>6, <4>7 DEF FlvQueue
    <3> QED BY <1>6, <3>1, <3>2, <3>3, <3>4
  <2>5. FlvInv'
    BY <2>2, <2>3, <2>4, FlvReplaced
  <2> QED BY <2>2, <2>5 DEF CountsOK
<1> QED BY <1>1, <1>3, <1>4, <1>5, <1>6 DEF FlvNext
(* The steps of a viewer's own connection keep the invariant.               *)
LEMMA WsViewerKeeps ==
    ASSUME WsInv, CountsOK, NEW v \in Viewers,
           \/ WsAccept(v) \/ WsReceiveClose(v) \/ WsLeave(v) \/ WsClose(v)
           \/ WsRemoveViewer(v)
           \/ \E k \in 0..Len(wsViewers[v].pending) : WsSendPending(v, k)
    PROVE  WsInv' /\ CountsOK' /\ UNCHANGED <<flvVars, pushed>>
<1> USE DEF WsStream
<1> DEFINE w == wsViewers[v]
           Good(x) == /\ x \in WsViewer /\ WsQueue(x, pushed)
                      /\ WsDescriptor(x)
                      /\ wsViewers' = [wsViewers EXCEPT ![v] = x]
<1>1. /\ w \in WsViewer /\ WsQueue(w, pushed)
      /\ WsDescriptor(w)
      /\ pushed \in Nat /\ registered \in Nat
      /\ w.pending \in Seq(Entry) /\ w.last \in Nat /\ wsm \in WsStream
      /\ wsViewers \in [Viewers -> WsViewer]
  BY DEF WsInv, CountsOK, WsViewer
<1>2. UNCHANGED <<flvVars, pushed, registered>>
  BY DEF WsAccept, WsReceiveClose, WsLeave, WsClose, WsRemoveViewer,
         WsSendPending
<1>3. wsm' \in WsStream
  <2>1. \/ wsm' = wsm
        \/ wsm' = [wsm EXCEPT !.viewers = @ \union {v}]
        \/ wsm' = [wsm EXCEPT !.viewers = @ \ {v}]
    BY DEF WsAccept, WsReceiveClose, WsLeave, WsClose, WsRemoveViewer,
           WsSendPending
  <2> QED BY <1>1, <2>1
<1>4. \E x : Good(x)
  <2>1. CASE WsAccept(v)
    <3> DEFINE x == [NewWsViewer EXCEPT !.conn = "ws", !.active = TRUE,
                                        !.fd = "open"]
    <3>1. NewWsViewer \in WsViewer /\ WsQueue(NewWsViewer, pushed)
      BY <1>1, NewViewers
    <3>2. /\ x \in WsViewer /\ x.pending = NewWsViewer.pending
          /\ x.last = NewWsViewer.last
          /\ x.got_init_segment = NewWsViewer.got_init_segment
      BY <3>1 DEF WsViewer
    <3>3. WsQueue(x, pushed)
      BY <3>1, <3>2 DEF WsQueue
    <3>4. WsDescriptor(x)
      BY DEF WsDescriptor, NewWsViewer
    <3>5. wsViewers' = [wsViewers EXCEPT ![v] = x]
      BY <2>1 DEF WsAccept
    <3> QED BY <3>2, <3>3, <3>4, <3>5
  <2>2. CASE WsReceiveClose(v)
    <3> DEFINE x == [w EXCEPT !.active = FALSE]
    <3>1. /\ x \in WsViewer /\ x.pending = w.pending /\ x.last = w.last
          /\ x.got_init_segment = w.got_init_segment
          /\ x.conn = w.conn /\ x.fd = w.fd /\ x.closes = w.closes
          /\ x.crossed = w.crossed
      BY <1>1 DEF WsViewer
    <3>2. WsQueue(x, pushed) /\ WsDescriptor(x)
      BY <1>1, <3>1 DEF WsQueue, WsDescriptor
    <3>3. wsViewers' = [wsViewers EXCEPT ![v] = x]
      BY <2>2 DEF WsReceiveClose
    <3> QED BY <3>1, <3>2, <3>3
  <2>3. CASE WsLeave(v)
    <3> DEFINE at == IF w.fd = "none" THEN "remove" ELSE "close"
               x == [w EXCEPT !.active = FALSE, !.conn = at]
    <3>1. at \in {"close", "remove"} /\ (w.fd = "none" => at = "remove")
      OBVIOUS
    <3>2. wsViewers' = [wsViewers EXCEPT ![v] = x] /\ w.conn = "ws"
      BY <1>1, <2>3 DEF WsLeave
    <3> HIDE DEF at
    <3>3. /\ x \in WsViewer /\ x.pending = w.pending /\ x.last = w.last
          /\ x.got_init_segment = w.got_init_segment
          /\ x.conn = at /\ x.fd = w.fd /\ x.closes = w.closes
          /\ x.crossed = w.crossed
      BY <1>1, <3>1 DEF WsViewer
    <3>4. WsQueue(x, pushed)
      BY <1>1, <3>3 DEF WsQueue
    <3>5. WsDescriptor(x)
      BY <1>1, <3>1, <3>2, <3>3 DEF WsDescriptor
    <3> QED BY <3>2, <3>3, <3>4, <3>5
  <2>4. CASE WsClose(v)
    <3> DEFINE c == w.closes + 1
               x == [w EXCEPT !.conn = "remove", !.fd = "none", !.closes = c]
    <3>1. wsViewers' = [wsViewers EXCEPT ![v] = x] /\ w.conn = "close"
      BY <1>1, <2>4 DEF WsClose
    <3>2. c \in Nat /\ (w.crossed => c <= 2) /\ (~w.crossed => c = 1)
      BY <1>1, <3>1 DEF WsViewer, WsDescriptor
    <3> HIDE DEF c
    <3>3. /\ x \in WsViewer /\ x.pending = w.pending /\ x.last = w.last
          /\ x.got_init_segment = w.got_init_segment
          /\ x.conn = "remove" /\ x.fd = "none" /\ x.closes = c
          /\ x.crossed = w.crossed
      BY <1>1, <3>2 DEF WsViewer
    <3>4. WsQueue(x, pushed)
      BY <1>1, <3>3 DEF WsQueue
    <3> HIDE DEF x
    <3>5. WsDescriptor(x)
      BY <3>2, <3>3 DEF WsDescriptor, WsViewer
    <3> QED BY <3>1, <3>3, <3>4, <3>5 DEF x
  <2>5. CASE WsRemoveViewer(v)
    BY <1>1, <2>5, NewViewers DEF WsRemoveViewer
  <2>6. ASSUME NEW k \in 0..Len(w.pending), WsSendPending(v, k)
        PROVE  \E x : Good(x)
    <3> DEFINE m == NewestOf(w.pending, k, w.last)
               r == SubSeq(w.pending, k + 1, Len(w.pending))
               on == (k = Len(w.pending))
               x == [w EXCEPT !.last = m, !.pending = r, !.active = on]
    <3>1. wsViewers' = [wsViewers EXCEPT ![v] = x]
      BY <2>6 DEF WsSendPending
    <3>2. Len(w.pending) \in Nat /\ k \in Nat /\ k <= Len(w.pending)
      BY <1>1, <2>6
    <3>3. /\ Queue(w.pending, w.last, pushed)
          /\ Len(w.pending) <= kMaxPendingSegments
      BY <1>1 DEF WsQueue
    <3>4. on \in BOOLEAN
      OBVIOUS
    <3> HIDE DEF m, r, on
    <3>5. /\ m \in Nat /\ m <= pushed
          /\ \A i \in (k+1)..Len(w.pending) :
                w.pending[i].n > m \/ w.pending[i] = InitSegment
      BY <1>1, <2>6, <3>3, NewestSent DEF m
    <3>6. /\ r \in Seq(Entry) /\ Len(r) = Len(w.pending) - k
          /\ Queue(r, m, pushed)
          /\ k < Len(w.pending) => r[Len(w.pending) - k] = w.pending[Len(w.pending)]
      BY <1>1, <2>6, <3>3, <3>5, QueueRest DEF r
    <3>7. /\ x \in WsViewer /\ x.pending = r /\ x.last = m
          /\ x.got_init_segment = w.got_init_segment
          /\ x.conn = w.conn /\ x.fd = w.fd /\ x.closes = w.closes
          /\ x.crossed = w.crossed
      BY <1>1, <3>4, <3>5, <3>6 DEF WsViewer
    <3>8. Len(r) <= Len(w.pending) /\ Len(r) \in Nat
      BY <3>2, <3>6
    <3>9. r # <<>> => /\ w.pending # <<>>
                      /\ r[Len(r)] = w.pending[Len(w.pending)]
      <4>1. r # <<>> => Len(r) > 0
        BY <3>6
      <4> QED BY <1>1, <3>2, <3>6, <4>1
    <3>10. ~w.got_init_segment =>
              /\ Len(r) <= kMaxPendingSegments \div 2 + 1
              /\ r # <<>> => r[Len(r)] # InitSegment
      <4>1. ASSUME ~w.got_init_segment
            PROVE  /\ Len(w.pending) <= kMaxPendingSegments \div 2 + 1
                   /\ w.pending # <<>> => w.pending[Len(w.pending)] # InitSegment
        BY <1>1, <4>1 DEF WsQueue
      <4>2. kMaxPendingSegments \div 2 \in Nat
        BY LiveAssumption, Half
      <4> QED BY <3>2, <3>8, <3>9, <4>1, <4>2
    <3>11. Len(r) <= kMaxPendingSegments
      BY <3>2, <3>3, <3>8, LiveAssumption
    <3>12. WsQueue(x, pushed)
      BY <3>6, <3>7, <3>10, <3>11 DEF WsQueue
    <3>13. WsDescriptor(x)
      BY <1>1, <3>7 DEF WsDescriptor
    <3> QED BY <3>1, <3>7, <3>12, <3>13
  <2> QED BY <2>1, <2>2, <2>3, <2>4, <2>5, <2>6
<1>5. WsInv'
  BY <1>2, <1>3, <1>4, WsReplaced
<1> QED BY <1>2, <1>5 DEF CountsOK

(* Every step of WsMediaService keeps its invariant.                        *)
LEMMA WsKeeps ==
    ASSUME WsInv, CountsOK, WsNext
    PROVE  WsInv' /\ CountsOK' /\ UNCHANGED flvVars
           /\ pushed' \in {pushed, pushed + 1}
<1> USE DEF WsStream
<1>1. CASE WsMediaStart \/ WsMediaStop
  BY <1>1 DEF WsMediaStart, WsMediaStop, WsInv, CountsOK
<1>2. CASE WsRegisterChannel
  <2>1. UNCHANGED <<wsViewers, pushed, flvVars>> /\ registered' \in Nat
    BY <1>2 DEF WsRegisterChannel, CountsOK
  <2>2. wsm' \in WsStream
    <3>1. wsm \in WsStream /\ registered + 1 \in Nat /\ {} \in SUBSET Viewers
      BY DEF WsInv, CountsOK
    <3> DEFINE g == registered + 1
    <3>2. wsm' = [wsm EXCEPT !.gen = g, !.init = 0, !.active = TRUE,
                             !.viewers = {}]
      BY <1>2 DEF WsRegisterChannel
    <3>3. g \in Nat
      BY <3>1
    <3> HIDE DEF g
    <3> QED BY <3>1, <3>2, <3>3
  <2> QED BY <2>1, <2>2 DEF WsInv, CountsOK
<1>3. CASE WsUnregisterChannel
  <2>1. UNCHANGED <<pushed, registered, flvVars>>
    BY <1>3 DEF WsUnregisterChannel
  <2>2. wsm' \in WsStream
    BY <1>3 DEF WsUnregisterChannel, WsInv
  <2>3. ASSUME NEW v \in Viewers
        PROVE  /\ wsViewers'[v] \in WsViewer /\ WsQueue(wsViewers'[v], pushed)
               /\ WsDescriptor(wsViewers'[v])
    <3> DEFINE w == wsViewers[v]
               d == IF w.fd = "none" THEN "none" ELSE "shut"
               x == [w EXCEPT !.active = FALSE, !.fd = d]
    <3>1. /\ w \in WsViewer /\ WsQueue(w, pushed)
          /\ WsDescriptor(w)
      BY DEF WsInv
    <3>2. wsViewers'[v] = w \/ wsViewers'[v] = x
      BY <1>3 DEF WsUnregisterChannel
    <3>3. d \in {"none", "shut"} /\ (w.fd # "none" <=> d # "none")
      OBVIOUS
    <3> HIDE DEF d
    <3>4. /\ x \in WsViewer /\ x.pending = w.pending /\ x.last = w.last
          /\ x.got_init_segment = w.got_init_segment
          /\ x.conn = w.conn /\ x.fd = d /\ x.closes = w.closes
          /\ x.crossed = w.crossed
      BY <3>1, <3>3 DEF WsViewer
    <3>5. WsQueue(x, pushed)
      BY <3>1, <3>4 DEF WsQueue
    <3>6. WsDescriptor(x)
      BY <3>1, <3>3, <3>4 DEF WsDescriptor
    <3> QED BY <3>1, <3>2, <3>4, <3>5, <3>6
  <2>4. wsViewers' = [v \in Viewers |-> wsViewers'[v]]
    BY <1>3 DEF WsUnregisterChannel
  <2> QED BY <2>1, <2>2, <2>3, <2>4 DEF WsInv, CountsOK
<1>4. CASE WsDisconnectAll
  <2>1. UNCHANGED <<pushed, registered, flvVars>>
    BY <1>4 DEF WsDisconnectAll
  <2>2. wsm' \in WsStream
    BY <1>4 DEF WsDisconnectAll, WsInv
  <2>3. ASSUME NEW v \in Viewers
        PROVE  /\ wsViewers'[v] \in WsViewer /\ WsQueue(wsViewers'[v], pushed)
               /\ WsDescriptor(wsViewers'[v])
    <3> DEFINE w == wsViewers[v]
               n == IF w.fd = "none" THEN w.closes ELSE w.closes + 1
               o == w.crossed \/ (w.fd # "none" /\ w.conn = "close")
               x == [w EXCEPT !.active = FALSE, !.fd = "none", !.closes = n,
                              !.crossed = o]
    <3>1. w \in WsViewer /\ WsQueue(w, pushed) /\ WsDescriptor(w)
      BY DEF WsInv
    <3>2. wsViewers'[v] = w \/ wsViewers'[v] = x
      BY <1>4 DEF WsDisconnectAll
    <3>3. /\ n \in Nat /\ o \in BOOLEAN
          /\ w.fd # "none" =>
                w.closes = 0 /\ ~w.crossed /\ w.conn # "none" /\ n = 1
          /\ w.fd = "none" => n = w.closes
          /\ o <=> w.crossed \/ (w.fd # "none" /\ w.conn = "close")
      <4>1. w.fd # "none" => w.conn # "none"
        BY <3>1 DEF WsDescriptor
      <4> QED BY <3>1, <4>1 DEF WsViewer, WsDescriptor
    <3> HIDE DEF n, o
    <3>4. /\ x \in WsViewer /\ x.pending = w.pending /\ x.last = w.last
          /\ x.got_init_segment = w.got_init_segment
          /\ x.conn = w.conn /\ x.fd = "none" /\ x.closes = n
          /\ (x.crossed <=> o)
      BY <3>1, <3>3 DEF WsViewer
    <3>5. WsQueue(x, pushed)
      BY <3>1, <3>4 DEF WsQueue
    <3> HIDE DEF x
    <3>6. WsDescriptor(x)
      BY <3>1, <3>3, <3>4 DEF WsDescriptor, WsViewer
    <3> QED BY <3>1, <3>2, <3>4, <3>5, <3>6
  <2>4. wsViewers' = [v \in Viewers |-> wsViewers'[v]]
    BY <1>4 DEF WsDisconnectAll
  <2> QED BY <2>1, <2>2, <2>3, <2>4 DEF WsInv, CountsOK
<1>5. ASSUME NEW key \in BOOLEAN, NEW segment \in BOOLEAN, NEW params \in {0, 1},
             WsPushFrame(key, params, segment)
      PROVE  WsInv' /\ CountsOK' /\ UNCHANGED flvVars
             /\ pushed' \in {pushed, pushed + 1}
  <2> DEFINE init == IF key /\ params # 0 THEN params ELSE wsm.init
             fed == {v \in wsm.viewers : wsViewers[v].active}
             f == [n |-> pushed + 1, key |-> key]
             vs == IF init # 0 /\ segment THEN fed ELSE wsm.viewers
  <2>1. /\ pushed' = pushed + 1 /\ UNCHANGED <<flvVars, registered>>
        /\ wsm' = [wsm EXCEPT !.init = init, !.viewers = vs]
        /\ wsViewers' = [v \in Viewers |-> IF init # 0 /\ segment /\ v \in fed
                                           THEN WsOffer(wsViewers[v], f)
                                           ELSE wsViewers[v]]
    BY <1>5 DEF WsPushFrame
  <2>2. wsm \in WsStream /\ init \in Nat /\ vs \in SUBSET Viewers
    BY DEF WsInv
  <2>3. pushed \in Nat /\ CountsOK'
    BY <2>1 DEF CountsOK
  <2> HIDE DEF f, fed, init, vs
  <2>4. wsm' \in WsStream
    BY <2>1, <2>2
  <2>5. ASSUME NEW v \in Viewers
        PROVE  /\ wsViewers'[v] \in WsViewer
               /\ WsQueue(wsViewers'[v], pushed + 1)
               /\ WsDescriptor(wsViewers'[v])
    <3>1. /\ wsViewers[v] \in WsViewer /\ WsQueue(wsViewers[v], pushed)
          /\ wsViewers[v].pending \in Seq(Entry) /\ wsViewers[v].last \in Nat
          /\ WsDescriptor(wsViewers[v])
      BY DEF WsInv, WsViewer
    <3>2. CASE wsViewers'[v] = WsOffer(wsViewers[v], f)
      <4>1. /\ wsViewers'[v] \in WsViewer /\ WsQueue(wsViewers'[v], pushed + 1)
            /\ wsViewers'[v].conn = wsViewers[v].conn
            /\ wsViewers'[v].fd = wsViewers[v].fd
            /\ wsViewers'[v].closes = wsViewers[v].closes
            /\ wsViewers'[v].crossed = wsViewers[v].crossed
        BY <2>3, <3>1, <3>2, WsOfferKeeps DEF f
      <4> QED BY <3>1, <4>1 DEF WsDescriptor
    <3>3. CASE wsViewers'[v] = wsViewers[v]
      <4>1. Queue(wsViewers[v].pending, wsViewers[v].last, pushed + 1)
        BY <2>3, <3>1, QueueLater DEF WsQueue
      <4> QED BY <3>1, <3>3, <4>1 DEF WsQueue
    <3> QED BY <2>1, <3>2, <3>3
  <2>6. wsViewers' \in [Viewers -> WsViewer]
    BY <2>1, <2>5
  <2> QED BY <2>1, <2>3, <2>4, <2>5, <2>6 DEF WsInv
<1>6. ASSUME NEW v \in Viewers,
             \/ WsAccept(v) \/ WsReceiveClose(v) \/ WsLeave(v) \/ WsClose(v)
             \/ WsRemoveViewer(v)
             \/ \E k \in 0..Len(wsViewers[v].pending) : WsSendPending(v, k)
      PROVE  WsInv' /\ CountsOK' /\ UNCHANGED flvVars
             /\ pushed' \in {pushed, pushed + 1}
  BY <1>6, WsViewerKeeps
<1> QED BY <1>1, <1>2, <1>3, <1>4, <1>5, <1>6 DEF WsNext

LiveInv == FlvInv /\ WsInv /\ CountsOK

(* Both services hold their invariant, whichever of them steps.             *)
LEMMA LiveInvariant == LiveSpec => []LiveInv
<1>1. LiveInit => LiveInv
  <2> SUFFICES ASSUME LiveInit PROVE LiveInv
    OBVIOUS
  <2>1. pushed = 0 /\ registered = 0 /\ CountsOK
    BY DEF LiveInit, CountsOK
  <2>2. FlvInv
    <3>1. flv \in FlvStream
      BY DEF LiveInit, NoFlvStream, FlvStream
    <3> QED BY <2>1, <3>1, NewViewers DEF LiveInit, FlvInv
  <2>3. WsInv
    <3>1. wsm \in WsStream
      BY DEF LiveInit, NoWsStream, WsStream
    <3> QED BY <2>1, <3>1, NewViewers DEF LiveInit, WsInv
  <2> QED BY <2>1, <2>2, <2>3 DEF LiveInv
<1>2. LiveInv /\ [LiveNext]_liveVars => LiveInv'
  <2> SUFFICES ASSUME LiveInv, [LiveNext]_liveVars PROVE LiveInv'
    OBVIOUS
  <2>1. CASE FlvNext
    BY <2>1, FlvKeeps, WsUntouched DEF LiveInv
  <2>2. CASE WsNext
    BY <2>2, WsKeeps, FlvUntouched DEF LiveInv
  <2>3. CASE UNCHANGED liveVars
    BY <2>3, FlvUntouched, WsUntouched DEF LiveInv, liveVars, CountsOK
  <2> QED BY <2>1, <2>2, <2>3 DEF LiveNext
<1> QED BY <1>1, <1>2, PTL DEF LiveSpec

(* However slow a viewer is, and whatever the order of frames, keyframes,   *)
(* parameter sets, connections and registrations, its queue keeps to its    *)
(* limit: for every limit of at least 4 segments and of at least 1 tag.     *)
THEOREM QueuesBoundedAlways == LiveSpec => []QueuesBounded
<1>1. LiveInv => QueuesBounded
  BY DEF LiveInv, FlvInv, WsInv, FlvQueue, WsQueue, QueuesBounded
<1> QED BY <1>1, LiveInvariant, PTL

(* No client ever gets a frame twice or an older one after a newer one.     *)
THEOREM LiveInOrderAlways == LiveSpec => []LiveInOrder
<1>1. LiveInv => LiveInOrder
  BY DEF LiveInv, FlvInv, WsInv, FlvQueue, WsQueue, Queue, LiveInOrder
<1> QED BY <1>1, LiveInvariant, PTL

(* The descriptor of a viewer is closed once, while WsMediaService runs and *)
(* when it is stopped, and a second time only where Stop crosses the thread *)
(* that closes it.                                                          *)
THEOREM WsClosedOnceAlways == LiveSpec => []WsClosedOnce
<1>1. LiveInv => WsClosedOnce
  BY DEF LiveInv, WsInv, WsDescriptor, WsClosedOnce
<1> QED BY <1>1, LiveInvariant, PTL

-----------------------------------------------------------------------------
(* HlsService.                                                               *)

Segment == [sequence : Nat, from : Nat, to : Nat, key : BOOLEAN]
Filling == [from : Nat, to : Nat, key : BOOLEAN]

ChannelHls ==
    [there : BOOLEAN, segments : Seq(Segment), next_sequence : Nat,
     current : Seq(Filling), waiting_for_keyframe : BOOLEAN, active : BOOLEAN]

HlsTypeOK ==
    /\ hls \in ChannelHls
    /\ hlsConfig \in HlsConfigs /\ hlsFrames \in Nat
    /\ hls.there \/ hls.segments = <<>>

(* The window is the last segments that were finished, each one a keyframe  *)
(* and the frames up to the next segment.                                   *)
WindowJoined(h) ==
    /\ \A i \in 1..Len(h.segments) :
          /\ h.segments[i].key
          /\ h.segments[i].sequence = h.next_sequence - Len(h.segments) + i - 1
    /\ \A i \in 2..Len(h.segments) :
          h.segments[i].from = h.segments[i-1].to + 1

(* The segment being filled goes on from the window and holds the newest    *)
(* frame; there is one from the first keyframe on.                          *)
FillingJoined(h, n) ==
    /\ h.waiting_for_keyframe <=> h.current = <<>>
    /\ h.current = <<>> => h.segments = <<>>
    /\ h.current # <<>> =>
          /\ Len(h.current) = 1 /\ h.current[1].key /\ h.current[1].to = n
          /\ h.segments # <<>> =>
                h.current[1].from = h.segments[Len(h.segments)].to + 1

HlsInv == HlsTypeOK /\ WindowJoined(hls) /\ FillingJoined(hls, hlsFrames)

USE DEF ChannelHls

(* A channel without segments meets all conditions.                         *)
LEMMA EmptyJoined ==
    ASSUME NEW h, h = NewChannelHls \/ h = [NewChannelHls EXCEPT !.there = FALSE],
           NEW n
    PROVE  /\ h \in ChannelHls /\ h.segments = <<>>
           /\ WindowJoined(h) /\ FillingJoined(h, n)
<1>1. <<>> \in Seq(Segment) /\ <<>> \in Seq(Filling) /\ Len(<<>>) = 0
  OBVIOUS
<1>2. /\ h.segments = <<>> /\ h.current = <<>> /\ h.waiting_for_keyframe = TRUE
      /\ h.next_sequence = 0
  BY DEF NewChannelHls
<1>3. h \in ChannelHls
  <2>1. CASE h = NewChannelHls
    BY <1>1, <2>1 DEF NewChannelHls
  <2>2. CASE h = [NewChannelHls EXCEPT !.there = FALSE]
    BY <1>1, <2>2 DEF NewChannelHls
  <2> QED BY <2>1, <2>2
<1>4. WindowJoined(h)
  BY <1>1, <1>2 DEF WindowJoined
<1>5. FillingJoined(h, n)
  BY <1>2 DEF FillingJoined
<1> QED BY <1>2, <1>3, <1>4, <1>5

(* Window keeps the newest segments, one at least.                          *)
LEMMA WindowKeepsNewest ==
    ASSUME NEW S, NEW s \in Seq(S), s # <<>>, hlsConfig \in HlsConfigs
    PROVE  /\ Window(s) \in Seq(S) /\ Len(Window(s)) \in 1..Len(s)
           /\ \A i \in 1..Len(Window(s)) :
                 Window(s)[i] = s[Len(s) - Len(Window(s)) + i]
<1>1. hlsConfig.max_segments \in Nat \ {0}
  BY HlsAssumption
<1> DEFINE n == hlsConfig.max_segments
<1>2. n \in Nat \ {0}
  BY <1>1
<1>3. Window(s) = IF Len(s) <= n THEN s ELSE SubSeq(s, Len(s) - n + 1, Len(s))
  BY DEF Window
<1> HIDE DEF n
<1>4. Len(s) \in Nat \ {0}
  OBVIOUS
<1>5. CASE Len(s) <= n
  BY <1>3, <1>4, <1>5
<1>6. CASE ~(Len(s) <= n)
  <2>1. SubSeq(s, Len(s) - n + 1, Len(s)) \in Seq(S)
    BY <1>2, <1>4, <1>6
  <2>2. /\ Len(SubSeq(s, Len(s) - n + 1, Len(s))) = n
        /\ \A i \in 1..n : SubSeq(s, Len(s) - n + 1, Len(s))[i] = s[Len(s) - n + i]
    BY <1>2, <1>4, <1>6
  <2> QED BY <1>2, <1>3, <1>4, <1>6, <2>1, <2>2
<1> QED BY <1>5, <1>6

(* FinalizeSegment extends the window by the segment being filled.          *)
LEMMA FinalizeJoins ==
    ASSUME HlsInv, hls.current # <<>>,
           NEW h, h = [hls EXCEPT !.waiting_for_keyframe = FALSE],
           NEW f, f = HlsFinalizeSegment(h)
    PROVE  /\ f \in ChannelHls
           /\ WindowJoined(f)
           /\ f.there = hls.there /\ f.current = <<>> /\ f.segments # <<>>
           /\ f.waiting_for_keyframe = FALSE
           /\ f.segments[Len(f.segments)].to = hlsFrames
<1> DEFINE c == hls.current[1]
           e == [sequence |-> hls.next_sequence, from |-> c.from,
                 to |-> c.to, key |-> c.key]
           s == hls.segments
           a == Append(s, e)
           w == Window(a)
<1>1. c \in Filling /\ c.key /\ c.to = hlsFrames
  BY DEF HlsInv, HlsTypeOK, FillingJoined
<1>2. e \in Segment /\ e.key /\ e.to = hlsFrames /\ e.from = c.from
      /\ e.sequence = hls.next_sequence
  BY <1>1 DEF Segment, Filling, HlsInv, HlsTypeOK
<1>3. s \in Seq(Segment) /\ hls.next_sequence \in Nat
  BY DEF HlsInv, HlsTypeOK
<1>4. h.current = hls.current /\ h.segments = s
      /\ h.next_sequence = hls.next_sequence
      /\ h.there = hls.there /\ h.active = hls.active
      /\ h.waiting_for_keyframe = FALSE
      /\ hls.there \in BOOLEAN /\ hls.active \in BOOLEAN
  BY DEF HlsInv, HlsTypeOK
<1>5. f = [h EXCEPT !.segments = w, !.next_sequence = @ + 1, !.current = <<>>]
  BY <1>4 DEF HlsFinalizeSegment
<1> HIDE DEF e
<1>6. /\ a \in Seq(Segment) /\ a # <<>> /\ Len(a) = Len(s) + 1
      /\ a[Len(a)] = e /\ \A i \in 1..Len(s) : a[i] = s[i]
  BY <1>2, <1>3
<1>7. hlsConfig \in HlsConfigs
  BY DEF HlsInv, HlsTypeOK
<1> HIDE DEF a
<1>8. /\ w \in Seq(Segment) /\ Len(w) \in 1..Len(a)
      /\ \A i \in 1..Len(w) : w[i] = a[Len(a) - Len(w) + i]
  BY <1>6, <1>7, WindowKeepsNewest
<1> HIDE DEF w
<1>9. /\ f \in ChannelHls
      /\ f.segments = w /\ f.next_sequence = hls.next_sequence + 1
      /\ f.current = <<>> /\ f.there = hls.there
      /\ f.waiting_for_keyframe = FALSE
  <2>1. <<>> \in Seq(Filling)
    OBVIOUS
  <2>2. h \in ChannelHls
    BY DEF HlsInv, HlsTypeOK
  <2>3. f.segments = w /\ f.next_sequence = hls.next_sequence + 1
        /\ f.current = <<>> /\ f.there = hls.there
        /\ f.waiting_for_keyframe = FALSE
    BY <1>4, <1>5, <2>2
  <2>4. f \in ChannelHls
    <3> DEFINE m == hls.next_sequence + 1
    <3>1. m \in Nat /\ w \in Seq(Segment)
      BY <1>3, <1>8
    <3>2. f = [h EXCEPT !.segments = w, !.next_sequence = m, !.current = <<>>]
      BY <1>4, <1>5
    <3> HIDE DEF m
    <3> QED BY <2>1, <2>2, <3>1, <3>2
  <2> QED BY <2>3, <2>4
<1>10. /\ \A i \in 1..Len(a) :
            a[i].key /\ a[i].sequence = hls.next_sequence - Len(s) + i - 1
       /\ \A i \in 2..Len(a) : a[i].from = a[i-1].to + 1
  <2>1. /\ \A i \in 1..Len(s) :
             s[i].key /\ s[i].sequence = hls.next_sequence - Len(s) + i - 1
        /\ \A i \in 2..Len(s) : s[i].from = s[i-1].to + 1
        /\ s # <<>> => c.from = s[Len(s)].to + 1
    BY DEF HlsInv, WindowJoined, FillingJoined
  <2>2. Len(s) \in Nat
    BY <1>3
  <2>3. ASSUME NEW i \in 1..Len(a)
        PROVE  a[i].key /\ a[i].sequence = hls.next_sequence - Len(s) + i - 1
    <3>1. CASE i = Len(a)
      BY <1>2, <1>3, <1>6, <2>2, <3>1
    <3>2. CASE i # Len(a)
      BY <1>6, <2>1, <2>2, <2>3, <3>2
    <3> QED BY <3>1, <3>2
  <2>4. ASSUME NEW i \in 2..Len(a) PROVE a[i].from = a[i-1].to + 1
    <3>1. CASE i = Len(a)
      <4>1. i - 1 = Len(s) /\ Len(s) >= 1 /\ s # <<>> /\ a[i-1] = s[Len(s)]
        BY <1>3, <1>6, <2>2, <2>4, <3>1
      <4> QED BY <1>2, <1>6, <2>1, <3>1, <4>1
    <3>2. CASE i # Len(a)
      <4>1. i \in 2..Len(s) /\ i - 1 \in 1..Len(s) /\ i \in 1..Len(s)
        BY <1>6, <2>2, <2>4, <3>2
      <4>2. a[i] = s[i] /\ a[i-1] = s[i-1]
        BY <1>6, <4>1
      <4> QED BY <2>1, <4>1, <4>2
    <3> QED BY <3>1, <3>2
  <2> QED BY <2>3, <2>4
<1>11. Len(w) \in Nat /\ Len(a) \in Nat /\ Len(s) \in Nat /\ Len(a) = Len(s) + 1
  BY <1>3, <1>6, <1>8
<1>12. \A i \in 1..Len(w) :
          w[i].key /\ w[i].sequence = f.next_sequence - Len(w) + i - 1
  <2> SUFFICES ASSUME NEW i \in 1..Len(w)
               PROVE  w[i].key
                      /\ w[i].sequence = f.next_sequence - Len(w) + i - 1
    OBVIOUS
  <2>1. Len(a) - Len(w) + i \in 1..Len(a) /\ w[i] = a[Len(a) - Len(w) + i]
    BY <1>8, <1>11
  <2> DEFINE j == Len(a) - Len(w) + i
  <2>2. w[i].key /\ w[i].sequence = hls.next_sequence - Len(s) + j - 1
    BY <1>10, <2>1
  <2>3. hls.next_sequence - Len(s) + j - 1 = f.next_sequence - Len(w) + i - 1
    <3>1. i \in Nat
      BY <1>11
    <3>2. f.next_sequence = hls.next_sequence + 1
      BY <1>9
    <3>3. hls.next_sequence \in Nat
      BY <1>3
    <3> HIDE DEF s
    <3> QED BY <1>11, <3>1, <3>2, <3>3, SMT
  <2> QED BY <2>2, <2>3
<1>13. \A i \in 2..Len(w) : w[i].from = w[i-1].to + 1
  <2> SUFFICES ASSUME NEW i \in 2..Len(w) PROVE w[i].from = w[i-1].to + 1
    OBVIOUS
  <2>1. /\ Len(a) - Len(w) + i \in 2..Len(a)
        /\ w[i] = a[Len(a) - Len(w) + i]
        /\ w[i-1] = a[Len(a) - Len(w) + i - 1]
    <3>1. i \in 1..Len(w) /\ i - 1 \in 1..Len(w)
          /\ Len(a) - Len(w) + i \in 2..Len(a)
          /\ Len(a) - Len(w) + (i - 1) = Len(a) - Len(w) + i - 1
      BY <1>8, <1>11
    <3>2. w[i] = a[Len(a) - Len(w) + i] /\ w[i-1] = a[Len(a) - Len(w) + (i - 1)]
      BY <1>8, <3>1
    <3> QED BY <3>1, <3>2
  <2> QED BY <1>10, <2>1
<1>14. w[Len(w)] = e /\ w # <<>>
  BY <1>6, <1>8, <1>11
<1> QED BY <1>2, <1>9, <1>12, <1>13, <1>14 DEF WindowJoined

(* The channel is registered or removed: both the window and the segment    *)
(* being filled are empty.                                                  *)
LEMMA FreshChannelInv ==
    ASSUME HlsInv, hls' = NewChannelHls
                   \/ hls' = [NewChannelHls EXCEPT !.there = FALSE],
           hlsConfig' \in HlsConfigs, hlsFrames' \in Nat
    PROVE  HlsInv'
<1> QED BY EmptyJoined DEF HlsInv, HlsTypeOK

(* A pushed frame begins a segment, after a rotation or as the first        *)
(* keyframe, or extends the one being filled.                               *)
LEMMA HlsPushKeeps ==
    ASSUME HlsInv, NEW key \in BOOLEAN, HlsPushFrame(key)
    PROVE  HlsInv'
<1> DEFINE n == hlsFrames + 1
           h == [hls EXCEPT !.waiting_for_keyframe = FALSE]
           r == HlsRotate(h, n, key)
<1>1. hlsFrames \in Nat /\ n \in Nat /\ hls.there /\ hls \in ChannelHls
      /\ hlsConfig' \in HlsConfigs /\ hlsFrames' = n
  BY DEF HlsInv, HlsTypeOK, HlsPushFrame
<1>2. CASE hls.waiting_for_keyframe /\ ~key
  <2>1. hls' = hls
    BY <1>2 DEF HlsPushFrame
  <2>2. hls.current = <<>>
    BY <1>2 DEF HlsInv, FillingJoined
  <2> QED BY <1>1, <2>1, <2>2 DEF HlsInv, HlsTypeOK, WindowJoined, FillingJoined
<1>3. CASE ~(hls.waiting_for_keyframe /\ ~key)
  <2>1. hls' = HlsAppend(r, n, key)
    BY <1>3 DEF HlsPushFrame
  <2>2. /\ h \in ChannelHls /\ h.current = hls.current /\ h.segments = hls.segments
        /\ h.there = hls.there /\ h.next_sequence = hls.next_sequence
        /\ ~h.waiting_for_keyframe
    BY <1>1
  <2>3. CASE r.current = <<>>
    (* The frame begins a segment: the first one, or after a rotation.      *)
    <3>1. /\ r \in ChannelHls /\ WindowJoined(r) /\ r.there = hls.there /\ key
          /\ r.waiting_for_keyframe = FALSE
          /\ r.segments # <<>> => r.segments[Len(r.segments)].to = hlsFrames
      <4>1. CASE hls.current = <<>>
        <5>1. r = h
          BY <2>2, <4>1 DEF HlsRotate
        <5>2. hls.waiting_for_keyframe /\ hls.segments = <<>>
          BY <4>1 DEF HlsInv, FillingJoined
        <5>3. WindowJoined(h)
          BY <2>2 DEF HlsInv, WindowJoined
        <5>4. key
          BY <1>3, <5>2
        <5> QED BY <2>2, <5>1, <5>2, <5>3, <5>4
      <4>2. CASE hls.current # <<>>
        <5>1. key /\ r = HlsFinalizeSegment(h)
          BY <2>2, <2>3, <4>2 DEF HlsRotate
        <5> HIDE DEF h, r
        <5>2. /\ r \in ChannelHls /\ WindowJoined(r) /\ r.there = hls.there
              /\ r.waiting_for_keyframe = FALSE
              /\ r.segments[Len(r.segments)].to = hlsFrames
          BY <4>2, <5>1, FinalizeJoins DEF h
        <5> QED BY <5>1, <5>2
      <4> QED BY <4>1, <4>2
    <3> DEFINE c == [from |-> n, to |-> n, key |-> key]
    <3>2. hls' = [r EXCEPT !.current = <<c>>]
      BY <2>1, <2>3 DEF HlsAppend
    <3> HIDE DEF r
    <3>3. c \in Filling /\ c.from = n /\ c.to = n /\ c.key
      BY <1>1, <3>1 DEF Filling
    <3> HIDE DEF c
    <3>4. <<c>> \in Seq(Filling) /\ <<c>> # <<>> /\ Len(<<c>>) = 1 /\ <<c>>[1] = c
      BY <3>3
    <3>5. /\ hls' \in ChannelHls /\ hls'.segments = r.segments
          /\ hls'.next_sequence = r.next_sequence /\ hls'.there = r.there
          /\ hls'.current = <<c>> /\ hls'.waiting_for_keyframe = FALSE
      BY <3>1, <3>2, <3>4
    <3>6. WindowJoined(hls')
      BY <3>1, <3>5 DEF WindowJoined
    <3>7. FillingJoined(hls', hlsFrames')
      BY <1>1, <3>1, <3>3, <3>4, <3>5 DEF FillingJoined
    <3> QED BY <1>1, <3>1, <3>5, <3>6, <3>7 DEF HlsInv, HlsTypeOK
  <2>4. CASE r.current # <<>>
    (* The frame goes into the segment being filled.                        *)
    <3>1. r = h /\ hls.current # <<>>
      <4>1. CASE hls.current = <<>>
        BY <2>2, <2>4, <4>1 DEF HlsRotate
      <4>2. CASE hls.current # <<>> /\ r = HlsFinalizeSegment(h)
        <5> HIDE DEF h, r
        <5> QED BY <2>4, <4>2, FinalizeJoins DEF h
      <4> QED BY <4>1, <4>2 DEF HlsRotate
    <3>2. /\ Len(hls.current) = 1 /\ hls.current[1] \in Filling
          /\ hls.current \in Seq(Filling) /\ hls.current[1].key
          /\ hls.segments # <<>> =>
                hls.current[1].from = hls.segments[Len(hls.segments)].to + 1
      BY <1>1, <3>1 DEF HlsInv, FillingJoined
    <3> DEFINE d == [hls.current EXCEPT ![1] = [@ EXCEPT !.to = n]]
    <3>3. /\ d \in Seq(Filling) /\ Len(d) = 1 /\ d # <<>>
          /\ d[1].from = hls.current[1].from
          /\ d[1].to = n /\ d[1].key = hls.current[1].key
      <4> DEFINE e == [hls.current[1] EXCEPT !.to = n]
      <4>1. e \in Filling /\ e.from = hls.current[1].from /\ e.to = n
            /\ e.key = hls.current[1].key
        BY <1>1, <3>2 DEF Filling
      <4> HIDE DEF e
      <4>2. d = [hls.current EXCEPT ![1] = e]
        BY DEF e
      <4>3. d \in Seq(Filling) /\ Len(d) = 1 /\ d # <<>> /\ d[1] = e
        BY <3>2, <4>1, <4>2
      <4> QED BY <4>1, <4>3
    <3>4. hls' = [h EXCEPT !.current = d]
      BY <2>1, <2>2, <2>4, <3>1 DEF HlsAppend
    <3> HIDE DEF d
    <3>5. /\ hls' \in ChannelHls /\ hls'.segments = hls.segments
          /\ hls'.next_sequence = hls.next_sequence /\ hls'.there = hls.there
          /\ hls'.current = d /\ hls'.waiting_for_keyframe = FALSE
      BY <2>2, <3>3, <3>4
    <3>6. WindowJoined(hls')
      BY <3>5 DEF WindowJoined, HlsInv
    <3>7. FillingJoined(hls', hlsFrames')
      BY <1>1, <3>2, <3>3, <3>5 DEF FillingJoined
    <3> QED BY <1>1, <3>5, <3>6, <3>7 DEF HlsInv, HlsTypeOK
  <2> QED BY <2>3, <2>4
<1> QED BY <1>2, <1>3

(* Every step keeps the invariant.                                          *)
LEMMA HlsStep == HlsInv /\ [HlsNext]_hlsVars => HlsInv'
<1> SUFFICES ASSUME HlsInv, [HlsNext]_hlsVars PROVE HlsInv'
  OBVIOUS
<1>1. CASE HlsRegisterChannel \/ HlsUnregisterChannel
  BY <1>1, FreshChannelInv
     DEF HlsRegisterChannel, HlsUnregisterChannel, HlsInv, HlsTypeOK
<1>2. CASE HlsStopAll
  <2>1. /\ hls' \in ChannelHls
        /\ hls'.segments = hls.segments /\ hls'.current = hls.current
        /\ hls'.next_sequence = hls.next_sequence /\ hls'.there = hls.there
        /\ hls'.waiting_for_keyframe = hls.waiting_for_keyframe
        /\ hlsConfig' = hlsConfig /\ hlsFrames' = hlsFrames
    BY <1>2 DEF HlsStopAll, HlsInv, HlsTypeOK
  <2> QED BY <2>1 DEF HlsInv, HlsTypeOK, WindowJoined, FillingJoined
<1>3. ASSUME NEW key \in BOOLEAN, HlsPushFrame(key) PROVE HlsInv'
  BY <1>3, HlsPushKeeps
<1>4. ASSUME NEW config \in HlsConfigs, HlsUpdateConfig(config) PROVE HlsInv'
  BY <1>4 DEF HlsUpdateConfig, HlsInv, HlsTypeOK, WindowJoined, FillingJoined
<1>5. CASE UNCHANGED hlsVars
  BY <1>5 DEF hlsVars, HlsInv, HlsTypeOK, WindowJoined, FillingJoined
<1> QED BY <1>1, <1>2, <1>3, <1>4, <1>5 DEF HlsNext

(* A number of the playlist is that of one segment only, so a request gets  *)
(* that one.                                                                *)
LEMMA SegmentFound ==
    ASSUME HlsInv, hls.there, NEW i \in 1..Len(hls.segments)
    PROVE  GetSegment(hls.segments[i].sequence) = <<hls.segments[i]>>
<1> DEFINE s == hls.segments
           found == {j \in DOMAIN s : s[j].sequence = s[i].sequence}
<1>1. s \in Seq(Segment) /\ hls.next_sequence \in Nat /\ DOMAIN s = 1..Len(s)
      /\ Len(s) \in Nat
  BY DEF HlsInv, HlsTypeOK
<1>2. \A j \in 1..Len(s) : s[j].sequence = hls.next_sequence - Len(s) + j - 1
  BY DEF HlsInv, WindowJoined
<1> HIDE DEF s
<1>3. i \in 1..Len(s)
  BY DEF s
<1>4. found = {i}
  BY <1>1, <1>2, <1>3
<1> HIDE DEF found
<1>5. (CHOOSE k \in found : \A j \in found : k <= j) = i
  BY <1>1, <1>3, <1>4
<1>6. found # {}
  BY <1>4
<1> QED BY <1>5, <1>6 DEF GetSegment, found, s

(* The playlist and what it names are gapless and decodable at all times,   *)
(* for every sequence of configurations, frames and keyframes.              *)
THEOREM GaplessAlways == HlsSpec => []HlsGapless
<1>1. HlsInit => HlsInv
  <2> SUFFICES ASSUME HlsInit PROVE HlsInv
    OBVIOUS
  <2> QED BY EmptyJoined DEF HlsInit, HlsInv, HlsTypeOK
<1>2. HlsInv => HlsGapless
  <2> SUFFICES ASSUME HlsInv PROVE HlsGapless
    OBVIOUS
  <2> DEFINE s == hls.segments
             p == GeneratePlaylist
  <2>1. s \in Seq(Segment) /\ Len(s) \in Nat /\ DOMAIN s = 1..Len(s)
        /\ hls.next_sequence \in Nat
    BY DEF HlsInv, HlsTypeOK
  <2>2. CASE ~hls.there
    <3>1. p = <<>>
      BY <2>2 DEF GeneratePlaylist
    <3> QED BY <3>1 DEF HlsGapless
  <2>3. CASE hls.there
    <3>1. p = [i \in 1..Len(s) |-> s[i].sequence]
      BY <2>1, <2>3 DEF GeneratePlaylist
    <3>2. \A i \in 1..Len(s) : s[i] \in Segment /\ s[i].sequence \in Nat
      <4>1. \A x \in Segment : x.sequence \in Nat
        BY DEF Segment
      <4>2. \A i \in 1..Len(s) : s[i] \in Segment
        BY <2>1
      <4> QED BY <4>1, <4>2
    <3>3. /\ p \in Seq(Nat) /\ Len(p) = Len(s) /\ DOMAIN p = 1..Len(s)
          /\ (p = <<>>) = (s = <<>>)
      BY <2>1, <3>1, <3>2
    <3>4. \A i \in 1..Len(s) : GetSegment(p[i]) = <<s[i]>>
      BY <2>3, <3>1, SegmentFound
    <3>5. \A i \in 1..Len(s) : GetSegment(p[i]) # <<>> /\ GetSegment(p[i])[1] = s[i]
      BY <3>4
    <3>6. /\ \A i \in 1..Len(s) : s[i].key /\
                p[i] = hls.next_sequence - Len(s) + i - 1
          /\ \A i \in 2..Len(s) : s[i].from = s[i-1].to + 1
          /\ hls.current # <<>> /\ s # <<>> =>
                hls.current[1].from = s[Len(s)].to + 1
      BY <3>1 DEF HlsInv, WindowJoined, FillingJoined
    <3> HIDE DEF p, s
    <3>7. \A i \in 1..Len(s) : i > 1 =>
              /\ p[i] = p[i-1] + 1
              /\ GetSegment(p[i])[1].from = GetSegment(p[i-1])[1].to + 1
      <4> SUFFICES ASSUME NEW i \in 1..Len(s), i > 1
                   PROVE  /\ p[i] = p[i-1] + 1
                          /\ GetSegment(p[i])[1].from
                                = GetSegment(p[i-1])[1].to + 1
        OBVIOUS
      <4>1. i - 1 \in 1..Len(s) /\ i \in 2..Len(s)
        BY <2>1
      <4>2. p[i] = hls.next_sequence - Len(s) + i - 1
            /\ p[i-1] = hls.next_sequence - Len(s) + (i - 1) - 1
        BY <3>6, <4>1
      <4>3. p[i] = p[i-1] + 1
        BY <2>1, <4>2
      <4>4. GetSegment(p[i])[1] = s[i] /\ GetSegment(p[i-1])[1] = s[i-1]
        BY <3>5, <4>1
      <4>5. s[i].from = s[i-1].to + 1
        BY <3>6, <4>1
      <4> QED BY <4>3, <4>4, <4>5
    <3>8. p # <<>> => Len(p) \in 1..Len(s)
      BY <2>1, <3>3
    <3>9. p # <<>> /\ hls.current # <<>> =>
              hls.current[1].from = GetSegment(p[Len(p)])[1].to + 1
      BY <3>3, <3>5, <3>6, <3>8
    <3>10. \A i \in 1..Len(s) : GetSegment(p[i]) # <<>> /\ GetSegment(p[i])[1].key
      BY <3>5, <3>6
    <3> QED BY <3>3, <3>7, <3>9, <3>10 DEF HlsGapless, p
  <2> QED BY <2>2, <2>3
<1> QED BY <1>1, <1>2, HlsStep, PTL DEF HlsSpec

(* Whichever of unregister, push, client thread and removal come together,   *)
(* whether the service runs or is stopped, a client's descriptor is closed   *)
(* once.  It is closed a second time only where Stop crosses the client's    *)
(* own thread between reading the descriptor and closing it.                 *)
THEOREM DescriptorsAlwaysClosedOnce ==
    LiveSpec /\ SocketSpec => []DescriptorsClosedOnce
<1>1. WsClosedOnce /\ SocketClosedOnce => DescriptorsClosedOnce
  BY DEF DescriptorsClosedOnce
<1> QED BY <1>1, WsClosedOnceAlways, SocketClosedOnceAlways, PTL
=============================================================================
