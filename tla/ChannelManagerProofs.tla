------------------------ MODULE ChannelManagerProofs ------------------------
(* ChannelManager for any number of calling threads, slots, ids and calls.   *)
EXTENDS ChannelManager, FiniteSetTheorems, SequenceTheorems,
        WellFoundedInduction, TLAPS

-----------------------------------------------------------------------------
(* Helpers of the model.                                                    *)

(* A set of natural numbers has its least element.                          *)
LEMMA MinIsMember ==
    ASSUME NEW S, S \subseteq Nat, S # {}
    PROVE  Min(S) \in S /\ \A n \in S : Min(S) =< n
<1> DEFINE Below(n) == {m \in S : m < n}
           T == {Below(n) : n \in S}
<1>0. \A s \in S : s \in Nat
  OBVIOUS
<1>1. T # {} /\ \A B \in T : B \in FiniteSubsetsOf(Nat)
  <2> SUFFICES ASSUME NEW n \in S PROVE Below(n) \in FiniteSubsetsOf(Nat)
    OBVIOUS
  <2>1. n \in Nat /\ Below(n) \in SUBSET Nat /\ \A m \in Below(n) : m <= n
    <3>1. n \in Nat /\ \A m \in Below(n) : m \in Nat /\ m < n
      BY <1>0
    <3>2. Below(n) \in SUBSET Nat
      BY <3>1
    <3>3. \A m \in Below(n) : m <= n
      <4> HIDE DEF Below
      <4> QED BY <3>1
    <3> QED
      BY <3>1, <3>2, <3>3
  <2>2. IsFiniteSet(Below(n))
    <3> HIDE DEF Below
    <3> QED BY <2>1, FS_BoundedSetOfNaturals
  <2> QED
    BY <2>1, <2>2 DEF FiniteSubsetsOf
<1>2. PICK B \in T : \A C \in T : ~(<<C, B>> \in StrictSubsetOrdering(Nat))
  <2> HIDE DEF T
  <2> QED
    BY <1>1, FS_StrictSubsetOrderingWellFounded, WFMin, Zenon
<1>3. PICK x \in S : B = Below(x)
  OBVIOUS
<1>4. \A y \in S : x =< y
  <2> SUFFICES ASSUME NEW y \in S, y < x PROVE FALSE
    OBVIOUS
  <2>1. Below(y) \subseteq Below(x) /\ y \in Below(x) /\ y \notin Below(y)
    <3>1. x \in Nat /\ y \in Nat
      BY <1>0
    <3>2. \A m \in Nat : m < y => m < x
      BY <3>1
    <3>3. ~(y < y)
      BY <3>1
    <3> QED
      BY <1>0, <3>2, <3>3
  <2>2. Below(y) \in T
    OBVIOUS
  <2>3. Below(y) \in SUBSET Nat /\ Below(x) \in SUBSET Nat
    OBVIOUS
  <2> QED
    BY <1>1, <1>2, <1>3, <2>1, <2>2, <2>3 DEF StrictSubsetOrdering, FiniteSubsetsOf
<1>5. Min(S) = CHOOSE m \in S : \A n \in S : m =< n
  BY DEF Min
<1> QED
  BY <1>4, <1>5

(* LoadChannels moves the id counter past a restored id.                    *)
LEMMA MaxOfTwo ==
    ASSUME NEW a \in Nat, NEW b \in Nat
    PROVE  Max({a, b}) \in {a, b} /\ a =< Max({a, b}) /\ b =< Max({a, b})
<1>1. \E x \in {a, b} : \A y \in {a, b} : x >= y
  <2>1. a >= b \/ b >= a
    OBVIOUS
  <2> QED
    BY <2>1
<1>2. Max({a, b}) = CHOOSE x \in {a, b} : \A y \in {a, b} : x >= y
  BY DEF Max
<1>3. /\ Max({a, b}) \in {a, b}
      /\ \A y \in {a, b} : Max({a, b}) >= y
  BY <1>1, <1>2
<1> QED
  BY <1>3

-----------------------------------------------------------------------------
(* The course of a call.                                                    *)

Busy(t) == thread[t].todo # <<>>
Here(t) == Head(thread[t].todo)

(* Step b may follow step a in a call.                                      *)
After(a, b) ==
    \/ a = "drain" /\ b = "joined"
    \/ a = "joined" /\ b = "unregister"
    \/ a = "unregister" /\ b \in {"setStopped", "release"}
    \/ a = "setStopped" /\ b \in {"build", "beginStart"}
    \/ a = "release" /\ b = "deleteRow"
    \/ a = "initialize" /\ b = "launch"
    \/ a = "launch" /\ b = "opened"
    \/ a = "opened" /\ b = "detect"
    \/ a = "detect" /\ b = "register"
    \/ a = "register" /\ b = "setRunning"
    \/ a = "build" /\ b = "install"
    \/ a = "install" /\ b = "saveRow"
    \/ a = "saveRow" /\ b = "beginStart"
    \/ a = "beginStop" /\ b = "beginStart"
    \/ a \in {"setRunning", "beginStart"} /\ b = "loadNext"

FinalSteps == {"setStopped", "deleteRow", "setRunning", "saveRow",
               "beginStart", "loadAll", "loadNext"}
DeleteSteps == {"drain", "joined", "unregister", "release", "deleteRow"}
LoadSteps == {"beginStart", "initialize", "launch", "opened", "detect",
              "register", "setRunning", "loadNext"}

(* The steps left are the end of some call; the calls that give up the slot *)
(* and the row are the ones that delete the channel.                        *)
Flow(s) ==
    /\ s \in Seq(Steps)
    /\ s # <<>> => Last(s) \in FinalSteps
    /\ \A i \in 1..Len(s) :
          /\ i < Len(s) => After(s[i], s[i + 1])
          /\ Last(s) = "deleteRow" => s[i] \in DeleteSteps
          /\ Last(s) = "loadNext" => s[i] \in LoadSteps
          /\ s[i] \in {"release", "deleteRow"} => Last(s) = "deleteRow"

(* Steps that use the local copy of the pipeline, and steps without one.    *)
PipeSteps == {"drain", "joined", "initialize", "launch", "opened", "detect",
              "register", "setRunning", "install"}
BareSteps == {"saveRow", "loadAll", "loadNext", "beginStop", "beginStart"}

Calls == [todo : Seq(Steps), id : Ids \union {0},
          pipe : PipeIds \union {NoPipe}]

ThreadOK(t, r) ==
    /\ r \in Calls
    /\ Flow(r.todo)
    /\ r.todo = <<>> => r = Quiet
    /\ r.todo # <<>> =>
          /\ Head(r.todo) \in PipeSteps => r.pipe \in PipeIds
          /\ Head(r.todo) \in BareSteps => r.pipe = NoPipe
          /\ t # boot =>
                r.id \in Ids /\ Last(r.todo) \notin {"loadAll", "loadNext"}
          /\ t = boot =>
                \/ r.todo = <<"loadAll">> /\ r.id = 0
                \/ /\ Last(r.todo) = "loadNext"
                   /\ r.id = 0 => Head(r.todo) = "loadNext"

ThreadsInv == \A t \in Threads : ThreadOK(t, thread[t])

LoaderInv == loading # {} => Busy(boot) /\ Last(thread[boot].todo) = "loadNext"

(* A call with no steps left is a course.                                   *)
LEMMA FlowEmpty == Flow(<<>>)
<1>1. <<>> \in Seq(Steps) /\ Len(<<>>) = 0
  BY EmptySeq
<1> QED
  BY <1>1 DEF Flow

(* What is known of a call's first step, its last and the ones between.     *)
LEMMA FlowTail ==
    ASSUME NEW s, Flow(s), s # <<>>
    PROVE  /\ Head(s) \in Steps /\ Tail(s) \in Seq(Steps) /\ Flow(Tail(s))
           /\ Last(s) \in FinalSteps
           /\ Tail(s) = <<>> => Last(s) = Head(s)
           /\ Tail(s) # <<>> => /\ After(Head(s), Head(Tail(s)))
                               /\ Last(Tail(s)) = Last(s)
           /\ Last(s) = "deleteRow" => Head(s) \in DeleteSteps
           /\ Last(s) = "loadNext" => Head(s) \in LoadSteps
           /\ Head(s) \in {"release", "deleteRow"} => Last(s) = "deleteRow"
<1>1. /\ s \in Seq(Steps) /\ Last(s) \in FinalSteps
      /\ \A i \in 1..Len(s) :
            /\ i < Len(s) => After(s[i], s[i + 1])
            /\ Last(s) = "deleteRow" => s[i] \in DeleteSteps
            /\ Last(s) = "loadNext" => s[i] \in LoadSteps
            /\ s[i] \in {"release", "deleteRow"} => Last(s) = "deleteRow"
  BY DEF Flow
<1>2. /\ Len(s) \in Nat \ {0} /\ Head(s) = s[1] /\ s[1] \in Steps
      /\ Tail(s) \in Seq(Steps) /\ Len(Tail(s)) = Len(s) - 1
      /\ \A i \in 1..Len(Tail(s)) : Tail(s)[i] = s[i + 1]
  BY <1>1, EmptySeq, LenProperties, HeadTailProperties, ElementOfSeq
<1>3. Last(s) = s[Len(s)] /\ Last(Tail(s)) = Tail(s)[Len(Tail(s))]
  BY DEF Last
<1>4. CASE Tail(s) = <<>>
  <2>1. Len(s) = 1
    <3>1. Len(Tail(s)) = 0
      BY <1>4, EmptySeq, Zenon
    <3> QED
      BY <1>2, <3>1
  <2>2. Flow(Tail(s))
    BY <1>4, FlowEmpty
  <2> QED
    BY <1>1, <1>2, <1>3, <1>4, <2>1, <2>2
<1>5. CASE Tail(s) # <<>>
  <2>1. Len(Tail(s)) \in Nat \ {0} /\ Head(Tail(s)) = Tail(s)[1]
    BY <1>2, <1>5, EmptySeq, HeadTailProperties
  <2>2. Last(Tail(s)) = Last(s)
    BY <1>2, <1>3, <2>1
  <2>3. After(Head(s), Head(Tail(s)))
    BY <1>1, <1>2, <2>1
  <2>4. Flow(Tail(s))
    <3> SUFFICES ASSUME NEW i \in 1..Len(Tail(s))
                 PROVE  /\ i < Len(Tail(s)) => After(Tail(s)[i], Tail(s)[i + 1])
                        /\ Last(s) = "deleteRow" => Tail(s)[i] \in DeleteSteps
                        /\ Last(s) = "loadNext" => Tail(s)[i] \in LoadSteps
                        /\ Tail(s)[i] \in {"release", "deleteRow"} =>
                              Last(s) = "deleteRow"
      BY <1>1, <1>2, <2>2 DEF Flow
    <3>1. i + 1 \in 1..Len(s) /\ Tail(s)[i] = s[i + 1]
      BY <1>2
    <3>2. i < Len(Tail(s)) => /\ i + 1 < Len(s)
                              /\ Tail(s)[i + 1] = s[(i + 1) + 1]
      BY <1>2
    <3> QED
      BY <1>1, <3>1, <3>2
  <2> QED
    BY <1>1, <1>2, <1>5, <2>2, <2>3, <2>4
<1> QED
  BY <1>4, <1>5

(* A call runs the steps of another call it makes before its own rest.      *)
LEMMA FlowConcat ==
    ASSUME NEW s, NEW r, Flow(s), Flow(r), s # <<>>, r # <<>>,
           After(Last(s), Head(r)), Last(s) # "deleteRow",
           Last(r) # "deleteRow",
           Last(r) = "loadNext" => \A i \in 1..Len(s) : s[i] \in LoadSteps
    PROVE  /\ Flow(s \o r) /\ s \o r # <<>>
           /\ Head(s \o r) = Head(s) /\ Last(s \o r) = Last(r)
<1>1. /\ s \in Seq(Steps) /\ r \in Seq(Steps)
      /\ Len(s) \in Nat \ {0} /\ Len(r) \in Nat \ {0}
  BY EmptySeq DEF Flow
<1>2. /\ s \o r \in Seq(Steps) /\ Len(s \o r) = Len(s) + Len(r)
      /\ \A i \in 1..(Len(s) + Len(r)) :
            (s \o r)[i] = IF i <= Len(s) THEN s[i] ELSE r[i - Len(s)]
  BY <1>1, ConcatProperties
<1>3. s \o r # <<>> /\ Head(s \o r) = s[1] /\ Head(s) = s[1] /\ Head(r) = r[1]
  BY <1>1, <1>2, HeadTailProperties
<1>4. /\ Last(s \o r) = Last(r) /\ Last(r) = r[Len(r)] /\ Last(s) = s[Len(s)]
  BY <1>1, <1>2 DEF Last
<1>5. /\ Last(r) \in FinalSteps
      /\ \A i \in 1..Len(s) : /\ i < Len(s) => After(s[i], s[i + 1])
                              /\ s[i] \notin {"release", "deleteRow"}
      /\ \A i \in 1..Len(r) : /\ i < Len(r) => After(r[i], r[i + 1])
                              /\ r[i] \notin {"release", "deleteRow"}
                              /\ Last(r) = "loadNext" => r[i] \in LoadSteps
  BY DEF Flow
<1>6. ASSUME NEW i \in 1..Len(s \o r)
      PROVE  /\ i < Len(s \o r) => After((s \o r)[i], (s \o r)[i + 1])
             /\ (s \o r)[i] \notin {"release", "deleteRow"}
             /\ Last(r) = "loadNext" => (s \o r)[i] \in LoadSteps
  <2>1. CASE i < Len(s)
    <3>1. (s \o r)[i] = s[i] /\ (s \o r)[i + 1] = s[i + 1] /\ i \in 1..Len(s)
      BY <1>1, <1>2, <2>1
    <3> QED
      BY <1>5, <2>1, <3>1
  <2>2. CASE i = Len(s)
    <3>1. (s \o r)[i] = Last(s) /\ (s \o r)[i + 1] = r[1] /\ i \in 1..Len(s)
      BY <1>1, <1>2, <1>4, <2>2
    <3> QED
      BY <1>3, <1>4, <1>5, <2>2, <3>1
  <2>3. CASE i > Len(s)
    <3> DEFINE j == i - Len(s)
    <3>1. j \in 1..Len(r) /\ (s \o r)[i] = r[j]
      BY <1>1, <1>2, <2>3
    <3>2. i < Len(s \o r) => j < Len(r) /\ (s \o r)[i + 1] = r[j + 1]
      BY <1>1, <1>2, <2>3
    <3> HIDE DEF j
    <3> QED
      BY <1>5, <3>1, <3>2
  <2> QED
    BY <1>1, <1>2, <2>1, <2>2, <2>3
<1> QED
  BY <1>2, <1>3, <1>4, <1>5, <1>6 DEF Flow

(* The calls of the model.                                                  *)
LEMMA FlowOfStart ==
    /\ Flow(StartSteps) /\ StartSteps # <<>>
    /\ Head(StartSteps) = "initialize" /\ Last(StartSteps) = "setRunning"
    /\ \A i \in 1..Len(StartSteps) : StartSteps[i] \in LoadSteps
BY DEF StartSteps, Flow, Last, FinalSteps, DeleteSteps, LoadSteps, After, Steps

(* StopChannel drains, unregisters and records the state.                   *)
LEMMA FlowOfStop ==
    /\ Flow(StopSteps) /\ StopSteps # <<>>
    /\ Head(StopSteps) = "drain" /\ Last(StopSteps) = "setStopped"
BY DEF StopSteps, Flow, Last, FinalSteps, DeleteSteps, LoadSteps, After, Steps

(* DeleteChannel stops the pipeline first if the channel was running.       *)
LEMMA FlowOfDelete ==
    ASSUME NEW running \in BOOLEAN
    PROVE  LET s == (IF running THEN <<"drain", "joined">> ELSE <<>>)
                        \o <<"unregister", "release", "deleteRow">>
           IN  /\ Flow(s) /\ s # <<>> /\ Last(s) = "deleteRow"
               /\ Head(s) = IF running THEN "drain" ELSE "unregister"
<1> DEFINE d == <<"unregister", "release", "deleteRow">>
           e == <<"drain", "joined", "unregister", "release", "deleteRow">>
<1>1. Flow(d) /\ d # <<>> /\ Last(d) = "deleteRow" /\ Head(d) = "unregister"
  BY DEF Flow, Last, FinalSteps, DeleteSteps, LoadSteps, After, Steps
<1>2. Flow(e) /\ e # <<>> /\ Last(e) = "deleteRow" /\ Head(e) = "drain"
  BY DEF Flow, Last, FinalSteps, DeleteSteps, LoadSteps, After, Steps
<1>3. <<"drain", "joined">> \o d = e
  <2> DEFINE b == <<"drain", "joined">>
  <2>1. b \in Seq(Steps) /\ d \in Seq(Steps) /\ Len(b) = 2 /\ Len(d) = 3
    BY DEF Steps
  <2>2. /\ b \o d \in Seq(Steps) /\ Len(b \o d) = 5
        /\ \A i \in 1..5 : (b \o d)[i] = IF i <= 2 THEN b[i] ELSE d[i - 2]
    <3> HIDE DEF b, d
    <3>1. /\ b \o d \in Seq(Steps) /\ Len(b \o d) = Len(b) + Len(d)
          /\ \A i \in 1..(Len(b) + Len(d)) :
                (b \o d)[i] = IF i <= Len(b) THEN b[i] ELSE d[i - Len(b)]
      BY <2>1, ConcatProperties, Zenon
    <3> HIDE DEF Steps
    <3> QED
      BY <2>1, <3>1
  <2>3. \A i \in 1..5 : i = 1 \/ i = 2 \/ i = 3 \/ i = 4 \/ i = 5
    OBVIOUS
  <2>4. \A i \in 1..5 : (b \o d)[i] = e[i]
    <3>1. /\ (b \o d)[1] = b[1] /\ (b \o d)[2] = b[2] /\ (b \o d)[3] = d[1]
          /\ (b \o d)[4] = d[2] /\ (b \o d)[5] = d[3]
      <4> HIDE DEF b, d
      <4> QED
        BY <2>2
    <3> QED
      BY <2>3, <3>1
  <2>5. e \in Seq(Steps) /\ Len(e) = 5
    BY DEF Steps
  <2>6. b \o d = e
    <3> HIDE DEF b, d, e
    <3> QED
      BY <2>2, <2>4, <2>5, SeqEqual, Zenon
  <2> QED
    BY <2>6
<1>4. <<>> \o d = d
  OBVIOUS
<1> QED
  BY <1>1, <1>2, <1>3, <1>4

(* A recovery stops and starts the channel.                                 *)
LEMMA FlowOfRecover ==
    LET s == <<"beginStop", "beginStart">>
    IN  /\ Flow(s) /\ s # <<>> /\ Last(s) = "beginStart"
        /\ Head(s) = "beginStop"
BY DEF Flow, Last, FinalSteps, DeleteSteps, LoadSteps, After, Steps

(* LoadChannels, before and between its restores.                           *)
LEMMA FlowOfLoad ==
    /\ LET s == <<"beginStart", "loadNext">>
       IN  /\ Flow(s) /\ s # <<>> /\ Last(s) = "loadNext"
           /\ Head(s) = "beginStart"
    /\ LET s == <<"loadNext">>
       IN  /\ Flow(s) /\ s # <<>> /\ Last(s) = "loadNext"
           /\ Head(s) = "loadNext"
    /\ LET s == <<"loadAll">>
       IN  /\ Flow(s) /\ s # <<>> /\ Last(s) = "loadAll"
           /\ Head(s) = "loadAll"
BY DEF Flow, Last, FinalSteps, DeleteSteps, LoadSteps, After, Steps

(* EditChannel stops and starts a channel that was running.                 *)
LEMMA FlowOfEdit ==
    ASSUME NEW running \in BOOLEAN
    PROVE  LET s == (IF running THEN StopSteps ELSE <<>>)
                        \o <<"build", "install", "saveRow">>
                        \o (IF running THEN <<"beginStart">> ELSE <<>>)
           IN  /\ Flow(s) /\ s # <<>>
               /\ Last(s) \in {"saveRow", "beginStart"}
               /\ Head(s) = IF running THEN "drain" ELSE "build"
<1> DEFINE e == <<"build", "install", "saveRow">>
           b == <<"beginStart">>
<1>1. Flow(e) /\ e # <<>> /\ Last(e) = "saveRow" /\ Head(e) = "build"
  BY DEF Flow, Last, FinalSteps, DeleteSteps, LoadSteps, After, Steps
<1>2. Flow(b) /\ b # <<>> /\ Last(b) = "beginStart" /\ Head(b) = "beginStart"
  BY DEF Flow, Last, FinalSteps, DeleteSteps, LoadSteps, After, Steps
<1>3. LET f == StopSteps \o e \o b
      IN  Flow(f) /\ f # <<>> /\ Last(f) = "beginStart" /\ Head(f) = "drain"
  <2>1. After("setStopped", "build") /\ After("saveRow", "beginStart")
    BY DEF After
  <2> HIDE DEF e, b
  <2>2. LET f == StopSteps \o e
        IN  Flow(f) /\ f # <<>> /\ Last(f) = "saveRow" /\ Head(f) = "drain"
    BY <1>1, <2>1, FlowOfStop, FlowConcat
  <2> QED
    BY <1>2, <2>1, <2>2, FlowConcat
<1>4. <<>> \o e \o <<>> = e
  OBVIOUS
<1> QED
  BY <1>1, <1>2, <1>3, <1>4

-----------------------------------------------------------------------------
(* How the steps of the model move a thread.                                *)

(* A thread that is in no call has no locals.                               *)
LEMMA QuietOK ==
    ASSUME NEW t
    PROVE  ThreadOK(t, Quiet) /\ Quiet.todo = <<>> /\ Quiet.id = 0
           /\ Quiet.pipe = NoPipe
<1>1. <<>> \in Seq(Steps)
  BY EmptySeq
<1> QED
  BY <1>1, FlowEmpty DEF ThreadOK, Quiet, Calls

(* The other threads stay where they are.                                   *)
Others(t) == \A u \in Threads \ {t} : thread'[u] = thread[u]

(* Moving one thread to a well-formed call keeps the others.                *)
LEMMA ThreadMoves ==
    ASSUME TypeOK, ThreadsInv, NEW t \in Threads, NEW r, ThreadOK(t, r),
           thread' = [thread EXCEPT ![t] = r]
    PROVE  /\ thread' \in [Threads -> Calls] /\ ThreadsInv'
           /\ thread'[t] = r /\ Others(t)
<1>1. thread \in [Threads -> Calls] /\ r \in Calls
  BY DEF TypeOK, Calls, ThreadOK
<1>2. /\ thread' \in [Threads -> Calls]
      /\ thread'[t] = r /\ \A u \in Threads \ {t} : thread'[u] = thread[u]
  BY <1>1
<1>3. \A u \in Threads : ThreadOK(u, thread'[u])
  BY <1>2 DEF ThreadsInv
<1>4. \A u \in Threads : ThreadOK(u, thread[u])'
  BY <1>3 DEF ThreadOK, Flow, After
<1> QED
  BY <1>2, <1>4 DEF ThreadsInv, Others

(* The thread goes on to the next step of its call.                         *)
Follows(t) ==
    /\ Busy(t)' /\ After(Here(t), Here(t)')
    /\ Last(thread'[t].todo) = Last(thread[t].todo)
    /\ thread'[t].id = thread[t].id

Returns(t) ==
    /\ Here(t) \in FinalSteps /\ Last(thread[t].todo) = Here(t)
    /\ thread'[t] = Quiet

(* The rest of a call is well formed if its next step has its pipeline.     *)
LEMMA ContinueOK ==
    ASSUME NEW t, NEW r, ThreadOK(t, r), r.todo # <<>>, Tail(r.todo) # <<>>,
           NEW p \in PipeIds \union {NoPipe},
           Head(Tail(r.todo)) \in PipeSteps => p \in PipeIds,
           Head(Tail(r.todo)) \in BareSteps => p = NoPipe
    PROVE  ThreadOK(t, [todo |-> Tail(r.todo), id |-> r.id, pipe |-> p])
<1> DEFINE s == r.todo
           q == [todo |-> Tail(s), id |-> r.id, pipe |-> p]
<1>1. /\ r \in Calls /\ Flow(s)
      /\ t # boot => r.id \in Ids /\ Last(s) \notin {"loadAll", "loadNext"}
      /\ t = boot => \/ s = <<"loadAll">> /\ r.id = 0
                     \/ /\ Last(s) = "loadNext"
                        /\ r.id = 0 => Head(s) = "loadNext"
  BY DEF ThreadOK
<1>2. /\ Flow(Tail(s)) /\ Tail(s) \in Seq(Steps) /\ Last(Tail(s)) = Last(s)
      /\ After(Head(s), Head(Tail(s)))
  BY <1>1, FlowTail
<1>3. Head(s) \notin {"loadAll", "loadNext"}
  BY <1>2 DEF After
<1>4. s # <<"loadAll">>
  BY <1>3, FlowOfLoad
<1>5. q \in Calls
  BY <1>1, <1>2 DEF Calls
<1>6. q.todo = Tail(s) /\ q.id = r.id /\ q.pipe = p
  OBVIOUS
<1> HIDE DEF q, s
<1>7. ThreadOK(t, q)
  BY <1>1, <1>2, <1>3, <1>4, <1>5, <1>6 DEF ThreadOK, s
<1> QED
  BY <1>7 DEF q, s

(* A step that keeps the local pipeline goes on with the call or ends it.   *)
LEMMA GotoRest ==
    ASSUME TypeOK, ThreadsInv, NEW t \in Threads, Busy(t),
           Here(t) \notin {"setRunning", "install", "setStopped", "build",
                           "beginStart"},
           Goto(t, Rest(t))
    PROVE  /\ thread' \in [Threads -> Calls] /\ ThreadsInv' /\ Others(t)
           /\ \/ Returns(t)
              \/ Follows(t) /\ thread'[t].pipe = thread[t].pipe
<1> DEFINE r == thread[t]
           s == r.todo
<1>1. ThreadOK(t, r) /\ s # <<>> /\ Flow(s) /\ r \in Calls
  BY DEF ThreadsInv, ThreadOK, Busy
<1>2. CASE Tail(s) = <<>>
  <2>1. thread' = [thread EXCEPT ![t] = Quiet]
    BY <1>2 DEF Goto, Rest
  <2>2. thread' \in [Threads -> Calls] /\ ThreadsInv' /\ thread'[t] = Quiet
        /\ Others(t)
    BY <2>1, QuietOK, ThreadMoves
  <2>3. Head(s) \in FinalSteps /\ Last(s) = Head(s)
    BY <1>1, <1>2, FlowTail
  <2> QED
    BY <2>2, <2>3 DEF Returns, Here
<1>3. CASE Tail(s) # <<>>
  <2> DEFINE q == [todo |-> Tail(s), id |-> r.id, pipe |-> r.pipe]
  <2>1. thread' = [thread EXCEPT ![t] = q]
    <3>1. thread' = [thread EXCEPT ![t] = [thread[t] EXCEPT !.todo = Tail(s)]]
      BY <1>3 DEF Goto, Rest
    <3>2. [thread[t] EXCEPT !.todo = Tail(s)] = q
      BY <1>1 DEF Calls
    <3> QED
      BY <3>1, <3>2
  <2>2. /\ After(Head(s), Head(Tail(s))) /\ Last(Tail(s)) = Last(s)
        /\ Head(s) \notin {"setRunning", "install", "setStopped", "build",
                           "beginStart"}
    BY <1>1, <1>3, FlowTail DEF Here
  <2>3. /\ Head(s) \in PipeSteps => r.pipe \in PipeIds
        /\ Head(s) \in BareSteps => r.pipe = NoPipe
        /\ r.pipe \in PipeIds \union {NoPipe}
    BY <1>1 DEF ThreadOK, Calls
  <2>4. /\ Head(Tail(s)) \in PipeSteps => r.pipe \in PipeIds
        /\ Head(Tail(s)) \in BareSteps => r.pipe = NoPipe
    BY <2>2, <2>3 DEF After, PipeSteps, BareSteps
  <2>5. ThreadOK(t, q)
    BY <1>1, <1>3, <2>3, <2>4, ContinueOK
  <2>6. thread' \in [Threads -> Calls] /\ ThreadsInv' /\ thread'[t] = q
        /\ Others(t)
    BY <2>1, <2>5, ThreadMoves
  <2>7. Follows(t) /\ thread'[t].pipe = thread[t].pipe
    BY <1>3, <2>2, <2>6 DEF Follows, Busy, Here
  <2> QED
    BY <2>6, <2>7
<1> QED
  BY <1>2, <1>3

(* So does a step that lets go of the local pipeline.                       *)
LEMMA LeaveRest ==
    ASSUME TypeOK, ThreadsInv, NEW t \in Threads, Busy(t),
           Here(t) \in {"setStopped", "deleteRow", "setRunning", "install",
                        "beginStart"},
           Leave(t, Rest(t))
    PROVE  /\ thread' \in [Threads -> Calls] /\ ThreadsInv' /\ Others(t)
           /\ \/ Returns(t)
              \/ Follows(t) /\ thread'[t].pipe = NoPipe
<1> DEFINE r == thread[t]
           s == r.todo
<1>1. ThreadOK(t, r) /\ s # <<>> /\ Flow(s) /\ r \in Calls
  BY DEF ThreadsInv, ThreadOK, Busy
<1>2. CASE Tail(s) = <<>>
  <2>1. thread' = [thread EXCEPT ![t] = Quiet]
    BY <1>2 DEF Leave, Rest
  <2>2. thread' \in [Threads -> Calls] /\ ThreadsInv' /\ thread'[t] = Quiet
        /\ Others(t)
    BY <2>1, QuietOK, ThreadMoves
  <2>3. Head(s) \in FinalSteps /\ Last(s) = Head(s)
    BY <1>1, <1>2, FlowTail
  <2> QED
    BY <2>2, <2>3 DEF Returns, Here
<1>3. CASE Tail(s) # <<>>
  <2> DEFINE q == [todo |-> Tail(s), id |-> r.id, pipe |-> NoPipe]
  <2>1. thread' = [thread EXCEPT ![t] = q]
    BY <1>1, <1>3 DEF Leave, Rest
  <2>2. /\ After(Head(s), Head(Tail(s))) /\ Last(Tail(s)) = Last(s)
        /\ Head(s) \in {"setStopped", "deleteRow", "setRunning", "install",
                        "beginStart"}
    BY <1>1, <1>3, FlowTail DEF Here
  <2>3. Head(Tail(s)) \notin PipeSteps
    BY <2>2 DEF After, PipeSteps
  <2>4. ThreadOK(t, q)
    BY <1>1, <1>3, <2>3, ContinueOK
  <2>5. thread' \in [Threads -> Calls] /\ ThreadsInv' /\ thread'[t] = q
        /\ Others(t)
    BY <2>1, <2>4, ThreadMoves
  <2>6. Follows(t) /\ thread'[t].pipe = NoPipe
    BY <1>3, <2>2, <2>5 DEF Follows, Busy, Here
  <2> QED
    BY <2>5, <2>6
<1> QED
  BY <1>2, <1>3

(* The locals a step finds.                                                 *)
LEMMA AtStep ==
    ASSUME ThreadsInv, NEW t \in Threads, NEW h, At(t, h)
    PROVE  /\ Busy(t) /\ Here(t) = h /\ thread[t] \in Calls
           /\ h \in PipeSteps => thread[t].pipe \in PipeIds
           /\ h \in BareSteps => thread[t].pipe = NoPipe
           /\ h \notin {"loadAll", "loadNext"} => thread[t].id \in Ids
           /\ h \notin DeleteSteps => Last(thread[t].todo) # "deleteRow"
           /\ h \in {"release", "deleteRow"} =>
                 Last(thread[t].todo) = "deleteRow"
           /\ t = boot => h \in LoadSteps \union {"loadAll"}
<1> DEFINE r == thread[t]
<1>1. ThreadOK(t, r) /\ r.todo # <<>> /\ Head(r.todo) = h
  BY DEF ThreadsInv, At
<1>2. /\ r \in Calls /\ Flow(r.todo)
      /\ h \in PipeSteps => r.pipe \in PipeIds
      /\ h \in BareSteps => r.pipe = NoPipe
  BY <1>1 DEF ThreadOK
<1>3. h \notin {"loadAll", "loadNext"} => r.id \in Ids
  <2> SUFFICES ASSUME h \notin {"loadAll", "loadNext"} PROVE r.id \in Ids
    OBVIOUS
  <2>1. r.todo # <<"loadAll">>
    BY <1>1, FlowOfLoad
  <2>2. r.id \in Ids \union {0}
    BY <1>2 DEF Calls
  <2> QED
    BY <1>1, <2>1, <2>2 DEF ThreadOK
<1>4. /\ h \notin DeleteSteps => Last(r.todo) # "deleteRow"
      /\ h \in {"release", "deleteRow"} => Last(r.todo) = "deleteRow"
  BY <1>1, <1>2, FlowTail
<1>5. t = boot => h \in LoadSteps \union {"loadAll"}
  <2>1. r.todo = <<"loadAll">> => h = "loadAll"
    BY <1>1, FlowOfLoad
  <2> QED
    BY <1>1, <1>2, <2>1, FlowTail DEF ThreadOK
<1> QED
  BY <1>1, <1>2, <1>3, <1>4, <1>5 DEF Busy, Here

(* A call that gives up leaves its thread quiet.                            *)
LEMMA Abandons ==
    ASSUME TypeOK, ThreadsInv, NEW t \in Threads,
           Leave(t, <<>>) \/ Goto(t, <<>>)
    PROVE  /\ thread' \in [Threads -> Calls] /\ ThreadsInv' /\ Others(t)
           /\ thread'[t] = Quiet
<1>1. thread' = [thread EXCEPT ![t] = Quiet]
  BY DEF Leave, Goto
<1> QED
  BY <1>1, QuietOK, ThreadMoves

(* A call begins, for a caller or inside the call a thread is in.           *)
Enters(t, id, p, h) ==
    /\ Busy(t)' /\ Here(t)' = h
    /\ thread'[t].id = id /\ thread'[t].pipe = p

(* The thread is at the first step of the call it begins.                   *)
LEMMA Called ==
    ASSUME TypeOK, ThreadsInv, NEW t \in Threads, NEW id \in Ids,
           NEW p \in PipeIds \union {NoPipe}, NEW s, Flow(s), s # <<>>,
           Head(s) \in PipeSteps => p \in PipeIds,
           Head(s) \in BareSteps => p = NoPipe,
           t # boot => Last(s) \notin {"loadAll", "loadNext"},
           t = boot => Last(s) = "loadNext",
           Call(t, id, p, s)
    PROVE  /\ thread' \in [Threads -> Calls] /\ ThreadsInv' /\ Others(t)
           /\ Enters(t, id, p, Head(s)) /\ Last(thread'[t].todo) = Last(s)
<1> DEFINE q == [todo |-> s, id |-> id, pipe |-> p]
<1>1. q \in Calls /\ q.todo = s /\ q.id = id /\ q.pipe = p /\ id # 0
  BY DEF Calls, Flow, Ids
<1>2. thread' = [thread EXCEPT ![t] = q]
  BY DEF Call
<1> HIDE DEF q
<1>3. ThreadOK(t, q)
  BY <1>1 DEF ThreadOK
<1>4. thread' \in [Threads -> Calls] /\ ThreadsInv' /\ Others(t)
      /\ thread'[t] = q
  BY <1>2, <1>3, ThreadMoves
<1> QED
  BY <1>1, <1>4 DEF Enters, Busy, Here

(* Who the main thread and the callers are shows in how their calls end.    *)
LEMMA LastStep ==
    ASSUME ThreadsInv, NEW t \in Threads, Busy(t), Here(t) # "loadAll"
    PROVE  /\ t # boot => Last(thread[t].todo) \notin {"loadAll", "loadNext"}
           /\ t = boot => Last(thread[t].todo) = "loadNext"
<1>1. ThreadOK(t, thread[t]) /\ thread[t].todo # <<>>
  BY DEF ThreadsInv, Busy
<1>2. thread[t].todo # <<"loadAll">>
  BY FlowOfLoad DEF Here
<1> QED
  BY <1>1, <1>2 DEF ThreadOK

(* A failed start returns; LoadChannels goes on with the next row.          *)
LEMMA LeaveStart ==
    ASSUME TypeOK, ThreadsInv, NEW t \in Threads, NEW h, At(t, h),
           h \in {"initialize", "launch"}, Leave(t, AfterStart(t))
    PROVE  /\ thread' \in [Threads -> Calls] /\ ThreadsInv' /\ Others(t)
           /\ \/ thread'[t] = Quiet /\ t # boot
              \/ /\ Enters(t, thread[t].id, NoPipe, "loadNext")
                 /\ Last(thread'[t].todo) = "loadNext"
<1>1. Busy(t) /\ Here(t) = h /\ thread[t].id \in Ids
  BY AtStep
<1>2. CASE Last(thread[t].todo) = "loadNext"
  <2>1. AfterStart(t) = <<"loadNext">>
    BY <1>2 DEF AfterStart
  <2>2. Call(t, thread[t].id, NoPipe, <<"loadNext">>)
    <3>1. <<"loadNext">> # <<>>
      OBVIOUS
    <3> QED
      BY <2>1, <3>1 DEF Leave, Call
  <2>3. t = boot
    BY <1>1, <1>2, LastStep
  <2>4. "loadNext" \notin PipeSteps
    BY DEF PipeSteps
  <2> QED
    BY <1>1, <2>2, <2>3, <2>4, FlowOfLoad, Called
<1>3. CASE Last(thread[t].todo) # "loadNext"
  <2>1. Leave(t, <<>>)
    BY <1>3 DEF AfterStart
  <2>2. t # boot
    BY <1>1, <1>3, LastStep
  <2> QED
    BY <2>1, <2>2, Abandons
<1> QED
  BY <1>2, <1>3

(* The recovery is in StopChannel, and will go on to StartChannel.          *)
LEMMA StopCalled ==
    ASSUME TypeOK, ThreadsInv, NEW t \in Threads, At(t, "beginStop"),
           NEW p \in PipeIds, Call(t, thread[t].id, p, StopSteps \o Rest(t))
    PROVE  /\ thread' \in [Threads -> Calls] /\ ThreadsInv' /\ Others(t)
           /\ Enters(t, thread[t].id, p, "drain")
           /\ Last(thread'[t].todo) # "deleteRow"
<1> DEFINE s == thread[t].todo
<1>1. /\ s # <<>> /\ Head(s) = "beginStop" /\ thread[t].id \in Ids
      /\ Last(s) # "deleteRow" /\ Busy(t) /\ Here(t) = "beginStop"
  BY AtStep DEF Busy, Here, DeleteSteps
<1>2. Flow(s)
  BY DEF ThreadsInv, ThreadOK
<1>3. /\ Flow(Tail(s)) /\ Tail(s) # <<>> /\ Last(Tail(s)) = Last(s)
      /\ Head(Tail(s)) = "beginStart"
  BY <1>1, <1>2, FlowTail DEF After, FinalSteps
<1>4. /\ Flow(StopSteps \o Tail(s)) /\ StopSteps \o Tail(s) # <<>>
      /\ Head(StopSteps \o Tail(s)) = "drain"
      /\ Last(StopSteps \o Tail(s)) = Last(s)
  <2>1. After("setStopped", "beginStart")
    BY DEF After
  <2>2. Last(s) # "loadNext"
    BY <1>1, <1>2, FlowTail DEF LoadSteps
  <2> QED
    BY <2>2, <1>1, <1>3, <2>1, FlowOfStop, FlowConcat
<1>5. "drain" \notin BareSteps
  BY DEF BareSteps
<1>6. /\ t # boot => Last(s) \notin {"loadAll", "loadNext"}
      /\ t = boot => Last(s) = "loadNext"
  BY <1>1, LastStep
<1> QED
  BY <1>1, <1>4, <1>5, <1>6, Called DEF Rest

(* The call that starts the channel again is in StartChannel.               *)
LEMMA StartCalled ==
    ASSUME TypeOK, ThreadsInv, NEW t \in Threads, At(t, "beginStart"),
           NEW p \in PipeIds, Call(t, thread[t].id, p, StartSteps \o Rest(t))
    PROVE  /\ thread' \in [Threads -> Calls] /\ ThreadsInv' /\ Others(t)
           /\ Enters(t, thread[t].id, p, "initialize")
           /\ Last(thread'[t].todo) # "deleteRow"
<1> DEFINE s == thread[t].todo
<1>1. /\ s # <<>> /\ Head(s) = "beginStart" /\ thread[t].id \in Ids
      /\ Last(s) # "deleteRow" /\ Busy(t) /\ Here(t) = "beginStart"
  BY AtStep DEF Busy, Here, DeleteSteps
<1>2. Flow(s)
  BY DEF ThreadsInv, ThreadOK
<1>3. /\ t # boot => Last(s) \notin {"loadAll", "loadNext"}
      /\ t = boot => Last(s) = "loadNext"
  BY <1>1, LastStep
<1>4. "initialize" \notin BareSteps
  BY DEF BareSteps
<1>5. CASE Tail(s) = <<>>
  <2>1. StartSteps \o Tail(s) = StartSteps
    BY <1>5, FlowOfStart, ConcatEmptySeq DEF Flow
  <2>2. t # boot
    BY <1>1, <1>2, <1>3, <1>5, FlowTail
  <2> QED
    BY <1>1, <1>4, <2>1, <2>2, FlowOfStart, Called DEF Rest
<1>6. CASE Tail(s) # <<>>
  <2>1. /\ Flow(Tail(s)) /\ Last(Tail(s)) = Last(s)
        /\ Head(Tail(s)) = "loadNext"
    BY <1>1, <1>2, <1>6, FlowTail DEF After
  <2>2. After("setRunning", "loadNext")
    BY DEF After
  <2>3. /\ Flow(StartSteps \o Tail(s)) /\ StartSteps \o Tail(s) # <<>>
        /\ Head(StartSteps \o Tail(s)) = "initialize"
        /\ Last(StartSteps \o Tail(s)) = Last(s)
    BY <1>1, <1>6, <2>1, <2>2, FlowOfStart, FlowConcat
  <2> QED
    BY <1>1, <1>3, <1>4, <2>3, Called DEF Rest
<1> QED
  BY <1>5, <1>6

(* EditChannel has the pipeline it built.                                   *)
LEMMA BuildCalled ==
    ASSUME TypeOK, ThreadsInv, NEW t \in Threads, At(t, "build"),
           NEW p \in PipeIds, Call(t, thread[t].id, p, Rest(t))
    PROVE  /\ thread' \in [Threads -> Calls] /\ ThreadsInv' /\ Others(t)
           /\ Enters(t, thread[t].id, p, "install")
           /\ Last(thread'[t].todo) # "deleteRow"
<1> DEFINE s == thread[t].todo
<1>1. /\ s # <<>> /\ Head(s) = "build" /\ thread[t].id \in Ids
      /\ Last(s) # "deleteRow" /\ Busy(t) /\ Here(t) = "build"
  BY AtStep DEF Busy, Here, DeleteSteps
<1>2. Flow(s)
  BY DEF ThreadsInv, ThreadOK
<1>3. /\ t # boot => Last(s) \notin {"loadAll", "loadNext"}
      /\ t = boot => Last(s) = "loadNext"
  BY <1>1, LastStep
<1>4. /\ Flow(Tail(s)) /\ Tail(s) # <<>> /\ Last(Tail(s)) = Last(s)
      /\ Head(Tail(s)) = "install"
  BY <1>1, <1>2, FlowTail DEF After, FinalSteps
<1>5. "install" \notin BareSteps
  BY DEF BareSteps
<1> QED
  BY <1>1, <1>3, <1>4, <1>5, Called DEF Rest

(* DrainAndStop passes over the joins when the pipeline is not running.     *)
LEMMA DrainMoves ==
    ASSUME TypeOK, ThreadsInv, NEW t \in Threads, Drain(t)
    PROVE  /\ thread' \in [Threads -> Calls] /\ ThreadsInv' /\ Others(t)
           /\ Enters(t, thread[t].id, thread[t].pipe,
                     IF pipes[thread[t].pipe].running_ THEN "joined"
                                                       ELSE "unregister")
           /\ Last(thread'[t].todo) = Last(thread[t].todo)
<1> DEFINE r == thread[t]
           s == r.todo
<1>1. /\ s # <<>> /\ Head(s) = "drain" /\ r.id \in Ids /\ r \in Calls
      /\ Busy(t) /\ Here(t) = "drain" /\ r.pipe \in PipeIds
  BY AtStep DEF Busy, Here, Drain, PipeSteps
<1>2. Flow(s)
  BY DEF ThreadsInv, ThreadOK
<1>3. /\ Flow(Tail(s)) /\ Tail(s) # <<>> /\ Last(Tail(s)) = Last(s)
      /\ Head(Tail(s)) = "joined"
  BY <1>1, <1>2, FlowTail DEF After, FinalSteps
<1>4. /\ Flow(Tail(Tail(s))) /\ Tail(Tail(s)) # <<>>
      /\ Last(Tail(Tail(s))) = Last(s) /\ Head(Tail(Tail(s))) = "unregister"
  BY <1>3, FlowTail DEF After, FinalSteps
<1>5. /\ t # boot => Last(s) \notin {"loadAll", "loadNext"}
      /\ t = boot => Last(s) = "loadNext"
  BY <1>1, LastStep
<1>6. "joined" \notin BareSteps /\ "unregister" \notin BareSteps
  BY DEF BareSteps
<1> DEFINE n == IF pipes[r.pipe].running_ THEN Tail(s) ELSE Tail(Tail(s))
<1>7. n # <<>> /\ Goto(t, n)
  BY <1>3, <1>4 DEF Drain, Rest
<1>8. Call(t, r.id, r.pipe, n)
  <2> HIDE DEF n
  <2>1. [thread[t] EXCEPT !.todo = n] = [todo |-> n, id |-> r.id, pipe |-> r.pipe]
    BY <1>1 DEF Calls
  <2> QED
    BY <1>7, <2>1 DEF Goto, Call
<1>9. Flow(n) /\ Last(n) = Last(s)
      /\ Head(n) = IF pipes[r.pipe].running_ THEN "joined" ELSE "unregister"
  BY <1>3, <1>4
<1> HIDE DEF n
<1> QED
  BY <1>1, <1>5, <1>6, <1>7, <1>8, <1>9, Called
-----------------------------------------------------------------------------
(* The parts of the invariant.                                              *)

(* Channel id, or a call for it, has a reference to pipeline p.             *)
Holds(p, id) ==
    \/ Exists(id) /\ channels_[id].pipe = p
    \/ \E t \in Threads : thread[t].pipe = p /\ thread[t].id = id

InUse(p) == \E id \in Ids \union {0} : Holds(p, id)

(* Channels do not share a pipeline, and unused ones have been destroyed.   *)
PipesInv ==
    /\ \A p \in PipeIds : \A i, j \in Ids \union {0} :
          Holds(p, i) /\ Holds(p, j) => i = j
    /\ \A p \in PipeIds : ~InUse(p) => pipes[p] = FreshPipe

(* Two calls at work on one channel have been noticed.                      *)
Exclusive ==
    \A t, u \in Threads, id \in Ids :
        t # u /\ WorkingOn(t, id) /\ WorkingOn(u, id) => id \in overlapped

IdsInv ==
    /\ IdsAreFresh
    /\ \A t \in Threads : thread[t].id < next_channel_id_
    /\ \A id \in deleted \union registered : id < next_channel_id_

SlotsInv ==
    /\ Cardinality(resources) <= kMaxChannels
    /\ DOMAIN channels_ \ overlapped \subseteq resources

RowsInv == (DOMAIN channels_ \union loading) \ overlapped \subseteq rows

Runs(id) == pipes[channels_[id].pipe].running_

(* Between calls the channel is what it reports to be.                      *)
AtRest(id) ==
    /\ Exists(id) => /\ ~Reports(id, "kStopping")
                     /\ Reports(id, "kRunning") <=> Runs(id)
                     /\ Reports(id, "kRunning") <=> id \in registered
    /\ ~Exists(id) => id \notin registered

(* A delete took the channel out of the map first and undoes the rest.      *)
DeletePhase(t, id) ==
    /\ ~Exists(id)
    /\ Here(t) \in {"release", "deleteRow"} => id \notin registered
    /\ Here(t) = "deleteRow" => id \notin resources

(* Where the other calls are, and what holds of the channel there.          *)
StoppedAt == {"build", "install", "saveRow", "beginStart", "initialize",
              "launch"}
RunningAt == {"opened", "detect", "register", "setRunning"}

CallPhase(t, id) ==
    /\ Exists(id)
    /\ Here(t) \in PipeSteps \ {"install"} =>
          thread[t].pipe = channels_[id].pipe
    /\ Here(t) \in StoppedAt \union RunningAt =>
          channels_[id].state \notin {"kRunning", "kStopping"}
    /\ Here(t) \in StoppedAt \union {"unregister", "setStopped"} => ~Runs(id)
    /\ Here(t) \in RunningAt => Runs(id)
    /\ Here(t) \in StoppedAt \union (RunningAt \ {"setRunning"})
                     \union {"setStopped"} => id \notin registered
    /\ Here(t) = "setRunning" => id \in registered
    /\ Here(t) = "install" => ~pipes[thread[t].pipe].running_
    /\ Here(t) \in {"beginStop", "loadNext"} => AtRest(id)

Phase(t, id) ==
    IF Last(thread[t].todo) = "deleteRow" THEN DeletePhase(t, id)
                                          ELSE CallPhase(t, id)

Gone(id) ==
    ~Exists(id) /\ id \notin registered \union resources \union rows \union loading

ChannelOK(id) ==
    /\ \A t \in Threads : Busy(t) /\ thread[t].id = id => Phase(t, id)
    /\ (\A t \in Threads : ~(Busy(t) /\ thread[t].id = id)) => AtRest(id)
    /\ id \in deleted => Gone(id)

PhaseInv ==
    /\ \A id \in Ids \ overlapped : ChannelOK(id)
    /\ aborted => overlapped # {}

ManagerInv ==
    /\ TypeOK /\ ThreadsInv /\ LoaderInv /\ PipesInv /\ Exclusive /\ IdsInv
    /\ SlotsInv /\ RowsInv /\ PhaseInv


-----------------------------------------------------------------------------
(* Pipelines.                                                               *)

(* The pipelines in use are the ones some channel or call holds.            *)
LEMMA UsedPipesHeld ==
    ASSUME NEW chs, NEW thr, DOMAIN chs \subseteq Ids,
           thr \in [Threads -> Calls], NEW p
    PROVE  p \in UsedPipes(chs, thr) <=>
              \E id \in Ids \union {0} :
                 \/ id \in DOMAIN chs /\ chs[id].pipe = p
                 \/ \E t \in Threads : thr[t].pipe = p /\ thr[t].id = id
<1>1. \A t \in Threads : thr[t].id \in Ids \union {0}
  BY DEF Calls
<1> QED
  BY <1>1 DEF UsedPipes

(* There are more pipelines in the model than the manager can hold.         *)
LEMMA NewPipeIsFree ==
    ASSUME TypeOK
    PROVE  NewPipe \in PipeIds /\ ~InUse(NewPipe)
<1> DEFINE D == DOMAIN channels_
           A == {channels_[id].pipe : id \in D}
           B == {thread[t].pipe : t \in Threads}
           U == UsedPipes(channels_, thread)
<1>1. D \subseteq Ids /\ thread \in [Threads -> Calls]
  BY DEF TypeOK, Calls
<1>2. IsFiniteSet(Threads) /\ Cardinality(Threads) \in Nat
  <2>1. IsFiniteSet(Callers \union {boot})
    BY ChannelManagerAssumption, FS_AddElement
  <2> QED
    BY <2>1, FS_CardinalityType DEF Threads
<1>3. IsFiniteSet(D) /\ Cardinality(D) <= MaxId /\ Cardinality(D) \in Nat
  <2>1. MaxId \in Nat /\ IsFiniteSet(1..MaxId) /\ Cardinality(1..MaxId) = MaxId
    BY ChannelManagerAssumption, FS_Interval
  <2>2. D \in SUBSET (1..MaxId)
    BY <1>1 DEF Ids
  <2> QED
    BY <2>1, <2>2, FS_Subset, FS_CardinalityType
<1>4. IsFiniteSet(A) /\ Cardinality(A) <= Cardinality(D)
  <2> DEFINE f == [id \in D |-> channels_[id].pipe]
  <2>1. f \in Surjection(D, A)
    BY DEF Surjection
  <2> HIDE DEF f, A, D
  <2> QED
    BY <1>3, <2>1, FS_Surjection
<1>5. IsFiniteSet(B) /\ Cardinality(B) <= Cardinality(Threads)
  <2> DEFINE f == [t \in Threads |-> thread[t].pipe]
  <2>1. f \in Surjection(Threads, B)
    BY DEF Surjection
  <2> HIDE DEF f, B
  <2> QED
    BY <1>2, <2>1, FS_Surjection
<1>6. U = A \union B
  BY DEF UsedPipes
<1>7. IsFiniteSet(U) /\ Cardinality(U) <= MaxId + Cardinality(Threads)
  <2> HIDE DEF A, B, D, U
  <2>1. /\ IsFiniteSet(A \union B) /\ IsFiniteSet(A \cap B)
        /\ Cardinality(A \union B) =
              Cardinality(A) + Cardinality(B) - Cardinality(A \cap B)
    BY <1>4, <1>5, FS_Union, FS_Intersection
  <2>2. /\ Cardinality(A) \in Nat /\ Cardinality(B) \in Nat
        /\ Cardinality(A \cap B) \in Nat /\ MaxId \in Nat
    BY <1>4, <1>5, <2>1, FS_CardinalityType, ChannelManagerAssumption
  <2> QED
    BY <1>2, <1>3, <1>4, <1>5, <1>6, <2>1, <2>2
<1>8. PipeIds \ U # {}
  <2> SUFFICES ASSUME PipeIds \subseteq U PROVE FALSE
    OBVIOUS
  <2> DEFINE n == MaxId + Cardinality(Threads) + 1
  <2>1. n \in Nat \ {0}
    BY <1>2, ChannelManagerAssumption
  <2>2. Cardinality(1..n) = n
    <3> HIDE DEF n
    <3> QED
      BY <2>1, FS_Interval
  <2>3. Cardinality(PipeIds) = n
    BY <2>2 DEF PipeIds
  <2>4. PipeIds \in SUBSET U
    OBVIOUS
  <2>5. Cardinality(PipeIds) <= Cardinality(U)
    <3> HIDE DEF U
    <3> QED
      BY <1>7, <2>4, FS_Subset
  <2>6. Cardinality(U) \in Nat
    <3> HIDE DEF U
    <3> QED
      BY <1>7, FS_CardinalityType
  <2> HIDE DEF U
  <2> QED
    BY <1>2, <1>7, <2>1, <2>3, <2>5, <2>6, ChannelManagerAssumption
<1>9. PipeIds \ U \subseteq Nat
  BY ChannelManagerAssumption DEF PipeIds
<1>10. NewPipe \in PipeIds \ U
  <2> HIDE DEF U
  <2>1. Min(PipeIds \ U) \in PipeIds \ U
    BY <1>8, <1>9, MinIsMember
  <2> QED
    BY <2>1 DEF NewPipe, U
<1> QED
  BY <1>1, <1>10, UsedPipesHeld DEF InUse, Holds, Exists

PipeStates == [state_ : States, running_ : BOOLEAN]

(* The pipelines nobody refers to any more are destroyed.                   *)
LEMMA ReleaseEffect ==
    ASSUME DOMAIN channels_' \subseteq Ids, thread' \in [Threads -> Calls],
           NEW new \in [PipeIds -> PipeStates], ReleasePipes(new)
    PROVE  /\ pipes' \in [PipeIds -> PipeStates]
           /\ \A p \in PipeIds :
                 pipes'[p] = IF InUse(p)' THEN new[p] ELSE FreshPipe
<1>1. \A p : p \in UsedPipes(channels_', thread') <=> InUse(p)'
  BY UsedPipesHeld DEF InUse, Holds, Exists
<1>2. FreshPipe \in PipeStates
  BY DEF FreshPipe, PipeStates, States
<1> QED
  BY <1>1, <1>2 DEF ReleasePipes

ChannelsOK(chs) ==
    /\ DOMAIN chs \subseteq Ids
    /\ \A id \in DOMAIN chs : chs[id] \in [state : States, pipe : PipeIds]

(* Recording a state changes the entry of one channel, not its pipeline.    *)
LEMMA SetStateEffect ==
    ASSUME ChannelsOK(channels_), NEW id, NEW s \in States, SetState(id, s)
    PROVE  /\ ChannelsOK(channels_')
           /\ DOMAIN channels_' = DOMAIN channels_
           /\ \A x \in DOMAIN channels_ :
                 /\ channels_'[x].pipe = channels_[x].pipe
                 /\ x # id => channels_'[x] = channels_[x]
           /\ id \in DOMAIN channels_ => channels_'[id].state = s
BY DEF ChannelsOK, SetState, Exists

-----------------------------------------------------------------------------
(* What a step does not touch keeps its part of the invariant.              *)

Untouched(x) ==
    /\ Exists(x)' <=> Exists(x)
    /\ Exists(x) => channels_'[x] = channels_[x]
    /\ x \in registered' <=> x \in registered
    /\ x \in resources' <=> x \in resources
    /\ x \in rows' <=> x \in rows
    /\ x \in deleted' <=> x \in deleted
    /\ x \in loading' => x \in loading \union rows

PipesUntouched(x) ==
    \A p \in PipeIds : Holds(p, x) => pipes'[p].running_ = pipes[p].running_

CallsUntouched(x) ==
    \A u \in Threads :
        /\ (Busy(u)' /\ thread'[u].id = x) <=> (Busy(u) /\ thread[u].id = x)
        /\ Busy(u) /\ thread[u].id = x => thread'[u] = thread[u]

(* A channel the step does not touch stays at rest.                         *)
LEMMA AtRestStays ==
    ASSUME TypeOK, NEW x \in Ids, Untouched(x), PipesUntouched(x)
    PROVE  AtRest(x)' <=> AtRest(x)
<1>1. Exists(x) => channels_[x].pipe \in PipeIds /\ Holds(channels_[x].pipe, x)
  BY DEF TypeOK, Exists, Holds
<1>2. Exists(x) => (Runs(x)' <=> Runs(x))
  BY <1>1 DEF Runs, Untouched, PipesUntouched
<1> QED
  BY <1>2 DEF AtRest, Untouched, Reports, Exists

(* A call for a channel the step does not touch finds it as it was.         *)
LEMMA PhaseStays ==
    ASSUME TypeOK, ThreadsInv, NEW x \in Ids, Untouched(x), PipesUntouched(x),
           CallsUntouched(x), NEW u \in Threads, Busy(u), thread[u].id = x,
           Phase(u, x)
    PROVE  Phase(u, x)'
<1>1. thread'[u] = thread[u] /\ Here(u)' = Here(u)
  BY DEF CallsUntouched, Here
<1>2. CASE Last(thread[u].todo) = "deleteRow"
  BY <1>1, <1>2 DEF Phase, DeletePhase, Untouched
<1>3. CASE Last(thread[u].todo) # "deleteRow"
  <2>1. CallPhase(u, x)
    BY <1>3 DEF Phase
  <2>2. /\ Exists(x) /\ Exists(x)' /\ channels_'[x] = channels_[x]
        /\ x \in registered' <=> x \in registered
    BY <2>1 DEF Untouched, CallPhase
  <2>3. channels_[x].pipe \in PipeIds /\ Holds(channels_[x].pipe, x)
    BY <2>2 DEF TypeOK, Exists, Holds
  <2>4. Runs(x)' <=> Runs(x)
    BY <2>2, <2>3 DEF Runs, PipesUntouched
  <2>5. Here(u) = "install" =>
           pipes'[thread[u].pipe].running_ = pipes[thread[u].pipe].running_
    <3> SUFFICES ASSUME Here(u) = "install"
                 PROVE  pipes'[thread[u].pipe].running_ =
                        pipes[thread[u].pipe].running_
      OBVIOUS
    <3>1. At(u, "install")
      BY DEF At, Busy, Here
    <3>2. thread[u].pipe \in PipeIds
      BY <3>1, AtStep DEF PipeSteps
    <3>3. Holds(thread[u].pipe, x)
      BY DEF Holds
    <3> QED
      BY <3>2, <3>3 DEF PipesUntouched
  <2>6. AtRest(x)' <=> AtRest(x)
    BY AtRestStays
  <2>7. CallPhase(u, x)'
    BY <1>1, <2>1, <2>2, <2>4, <2>5, <2>6 DEF CallPhase
  <2> QED
    BY <1>1, <1>3, <2>7 DEF Phase
<1> QED
  BY <1>2, <1>3

(* The channels a step does not touch keep their part of the invariant.     *)
LEMMA ChannelStays ==
    ASSUME TypeOK, ThreadsInv, NEW x \in Ids, ChannelOK(x), Untouched(x),
           PipesUntouched(x), CallsUntouched(x)
    PROVE  ChannelOK(x)'
<1>1. ASSUME NEW u \in Threads, Busy(u)', thread'[u].id = x
      PROVE  Phase(u, x)'
  <2>1. Busy(u) /\ thread[u].id = x
    BY <1>1 DEF CallsUntouched
  <2> QED
    BY <2>1, PhaseStays DEF ChannelOK
<1>2. ASSUME \A u \in Threads : ~(Busy(u)' /\ thread'[u].id = x)
      PROVE  AtRest(x)'
  <2>1. AtRest(x)
    BY <1>2 DEF CallsUntouched, ChannelOK
  <2> QED
    BY <2>1, AtRestStays
<1>3. x \in deleted' => Gone(x)'
  BY DEF ChannelOK, Gone, Untouched
<1> QED
  BY <1>1, <1>2, <1>3 DEF ChannelOK

-----------------------------------------------------------------------------
(* Steps of one thread that are about one channel.                          *)

(* The thread is in a call for the channel, or begins one.                  *)
Concerns(t, id) ==
    \/ Busy(t) /\ thread[t].id = id /\ overlapped' = overlapped
    \/ ~Busy(t) /\ t # boot /\ Exists(id) /\ NoteOverlap(t, id)

Confined(t, id) ==
    /\ Others(t)
    /\ ~Busy(t)' => t # boot /\ thread'[t] = Quiet
    /\ Busy(t)' => thread'[t].id = id
    /\ \A x \in Ids \ {id} : Untouched(x)
    /\ loading' = loading /\ next_channel_id_' = next_channel_id_
    /\ unrestored' = unrestored
    /\ \/ resources' \subseteq resources
       \/ CanBuild /\ resources' = resources \union {id}

(* What the step does to pipelines.                                         *)
PipesConfined(id) ==
    \A p \in PipeIds :
        /\ pipes'[p] = pipes[p] \/ Holds(p, id) \/ ~InUse(p)'
        /\ Holds(p, id)' => Holds(p, id) \/ ~InUse(p)
        /\ ~InUse(p)' => pipes'[p] = FreshPipe

(* Noticed overlaps are not forgotten while the process lives.              *)
LEMMA OverlapGrows ==
    ASSUME NEW t, NEW id, Concerns(t, id)
    PROVE  overlapped \subseteq overlapped'
BY DEF Concerns, NoteOverlap

(* Nobody else is at work on the channel as long as no overlap is noted.    *)
LEMMA Alone ==
    ASSUME Exclusive, NEW t \in Threads, NEW id \in Ids, Concerns(t, id),
           id \notin overlapped', NEW u \in Threads \ {t}
    PROVE  ~WorkingOn(u, id)
<1>1. CASE Busy(t) /\ thread[t].id = id /\ overlapped' = overlapped
  <2>1. WorkingOn(t, id)
    BY <1>1 DEF WorkingOn, Busy
  <2> QED
    BY <1>1, <2>1 DEF Exclusive
<1>2. CASE NoteOverlap(t, id)
  BY <1>2 DEF NoteOverlap
<1> QED
  BY <1>1, <1>2 DEF Concerns

(* Pipelines stay with one channel, and those of others are left alone.     *)
LEMMA PipesStep ==
    ASSUME TypeOK, TypeOK', ThreadsInv, PipesInv, NEW t \in Threads,
           NEW id \in Ids, Concerns(t, id), Confined(t, id), PipesConfined(id)
    PROVE  /\ PipesInv'
           /\ \A x \in Ids \ {id} : PipesUntouched(x)
<1>1. ASSUME NEW p \in PipeIds, NEW x \in (Ids \union {0}) \ {id},
             Holds(p, x)'
      PROVE  Holds(p, x)
  <2>0. p # NoPipe
    BY ChannelManagerAssumption
  <2>1. CASE Exists(x)' /\ channels_'[x].pipe = p
    <3>1. x \in Ids
      BY <2>1 DEF TypeOK, Exists
    <3>2. Untouched(x)
      BY <3>1 DEF Confined
    <3> QED
      BY <2>1, <3>2 DEF Untouched, Holds
  <2>2. ASSUME NEW u \in Threads, thread'[u].pipe = p, thread'[u].id = x
        PROVE  Holds(p, x)
    <3>1. u # t
      BY <2>0, <2>2, QuietOK DEF Confined
    <3> QED
      BY <2>2, <3>1 DEF Confined, Others, Holds
  <2> QED
    BY <1>1, <2>1, <2>2 DEF Holds
<1>2. ASSUME NEW p \in PipeIds, NEW x \in Ids \ {id}, Holds(p, x)
      PROVE  Holds(p, x)'
  <2>0. p # NoPipe
    BY ChannelManagerAssumption
  <2>1. CASE Exists(x) /\ channels_[x].pipe = p
    BY <2>1 DEF Confined, Untouched, Holds
  <2>2. ASSUME NEW u \in Threads, thread[u].pipe = p, thread[u].id = x
        PROVE  Holds(p, x)'
    <3>1. ~Busy(t) => thread[t] = Quiet
      BY DEF ThreadsInv, ThreadOK, Busy
    <3>2. u # t
      BY <2>0, <2>2, <3>1, QuietOK DEF Concerns
    <3> QED
      BY <2>2, <3>2 DEF Confined, Others, Holds
  <2> QED
    BY <1>2, <2>1, <2>2 DEF Holds
<1>3. ASSUME NEW p \in PipeIds, NEW i \in Ids \union {0},
             NEW j \in Ids \union {0}, Holds(p, i)', Holds(p, j)'
      PROVE  i = j
  <2>1. ASSUME NEW x \in (Ids \union {0}) \ {id}, Holds(p, x)', Holds(p, id)'
        PROVE  FALSE
    <3>1. Holds(p, x) /\ InUse(p)
      BY <1>1, <2>1 DEF InUse
    <3>2. Holds(p, id)
      BY <2>1, <3>1 DEF PipesConfined
    <3> QED
      BY <3>1, <3>2 DEF PipesInv
  <2> QED
    BY <1>1, <1>3, <2>1 DEF PipesInv
<1>4. ASSUME NEW x \in Ids \ {id}, NEW p \in PipeIds, Holds(p, x)
      PROVE  pipes'[p] = pipes[p]
  <2>1. ~Holds(p, id)
    BY <1>4 DEF PipesInv
  <2>2. InUse(p)'
    BY <1>2, <1>4 DEF InUse
  <2> QED
    BY <2>1, <2>2 DEF PipesConfined
<1>5. PipesInv'
  BY <1>3 DEF PipesInv, PipesConfined
<1>6. \A x \in Ids \ {id} : PipesUntouched(x)
  BY <1>4 DEF PipesUntouched
<1> QED
  BY <1>5, <1>6

(* Rows wait to be restored only while the main thread is loading.          *)
LEMMA LoaderStep ==
    ASSUME LoaderInv, ThreadsInv', NEW t \in Threads, NEW id \in Ids,
           Confined(t, id)
    PROVE  LoaderInv'
<1> SUFFICES ASSUME loading # {}
             PROVE  Busy(boot)' /\ Last(thread'[boot].todo) = "loadNext"
  BY DEF LoaderInv, Confined
<1>1. boot \in Threads
  BY DEF Threads
<1>2. CASE t = boot
  <2>1. Busy(boot)' /\ thread'[boot].id = id /\ id # 0
    BY <1>2 DEF Confined, Ids
  <2>2. ThreadOK(boot, thread[boot])'
    BY <1>1 DEF ThreadsInv
  <2> QED
    BY <2>1, <2>2 DEF ThreadOK, Busy
<1>3. CASE t # boot
  BY <1>1, <1>3 DEF Confined, Others, LoaderInv, Busy
<1> QED
  BY <1>2, <1>3

(* A second call at work on a channel is noticed when it begins.            *)
LEMMA ExclusiveStep ==
    ASSUME Exclusive, NEW t \in Threads, NEW id \in Ids, Concerns(t, id),
           Confined(t, id)
    PROVE  Exclusive'
<1> SUFFICES ASSUME NEW u \in Threads, NEW v \in Threads, NEW x \in Ids,
                    u # v, WorkingOn(u, x)', WorkingOn(v, x)',
                    x \notin overlapped'
             PROVE  FALSE
  BY DEF Exclusive
<1>1. x \notin overlapped
  BY OverlapGrows
<1>2. ASSUME NEW w \in Threads, WorkingOn(w, x)'
      PROVE  WorkingOn(w, x) \/ (w = t /\ x = id)
  BY <1>2 DEF WorkingOn, Confined, Others, Busy, Concerns
<1>3. ASSUME x = id, NEW w \in Threads \ {t} PROVE ~WorkingOn(w, x)'
  <2>1. ~WorkingOn(w, id)
    BY <1>3, Alone
  <2> QED
    BY <1>3, <2>1 DEF WorkingOn, Confined, Others
<1> QED
  BY <1>1, <1>2, <1>3 DEF Exclusive

(* Ids in use stay below the next one.                                      *)
LEMMA IdsStep ==
    ASSUME TypeOK, TypeOK', IdsInv, NEW t \in Threads, NEW id \in Ids,
           Concerns(t, id), Confined(t, id)
    PROVE  IdsInv'
<1>1. id < next_channel_id_
  BY DEF Concerns, IdsInv, IdsAreFresh, Exists
<1>2. next_channel_id_' = next_channel_id_ /\ next_channel_id_ \in Nat \ {0}
  BY DEF Confined, TypeOK
<1>3. \A x \in DOMAIN channels_' \union (rows' \ unrestored') :
          x < next_channel_id_'
  <2> SUFFICES ASSUME NEW x \in DOMAIN channels_' \union (rows' \ unrestored'),
                      x # id
               PROVE  x < next_channel_id_
    BY <1>1, <1>2
  <2>1. x \in Ids
    BY DEF TypeOK
  <2> QED
    BY <2>1 DEF Confined, Untouched, Exists, IdsInv, IdsAreFresh
<1>4. \A u \in Threads : thread'[u].id < next_channel_id_'
  BY <1>1, <1>2, QuietOK DEF Confined, Others, IdsInv
<1>5. \A x \in deleted' \union registered' : x < next_channel_id_'
  <2> SUFFICES ASSUME NEW x \in deleted' \union registered', x # id
               PROVE  x < next_channel_id_
    BY <1>1, <1>2
  <2>1. x \in Ids
    BY DEF TypeOK
  <2> QED
    BY <2>1 DEF Confined, Untouched, IdsInv
<1> QED
  BY <1>3, <1>4, <1>5 DEF IdsInv, IdsAreFresh

(* The channel keeps its slot and its row as long as it exists.             *)
Kept(id) ==
    id \notin overlapped' =>
        /\ Exists(id)' => id \in resources' /\ id \in rows'
        /\ id \in loading => id \in rows'

(* Slots and rows outlive the channel, and slots are within the limit.      *)
LEMMA SlotsStep ==
    ASSUME TypeOK, TypeOK', SlotsInv, RowsInv, NEW t \in Threads,
           NEW id \in Ids, Concerns(t, id), Confined(t, id), Kept(id)
    PROVE  SlotsInv' /\ RowsInv'
<1>1. IsFiniteSet(resources)
  <2>1. IsFiniteSet(1..MaxId)
    BY ChannelManagerAssumption, FS_Interval
  <2> QED
    BY <2>1, FS_Subset DEF TypeOK, Ids
<1>2. Cardinality(resources') <= kMaxChannels
  <2>1. Cardinality(resources) \in Nat /\ kMaxChannels \in Nat
    BY <1>1, FS_CardinalityType, ChannelManagerAssumption
  <2>2. CASE resources' \subseteq resources
    <3>1. Cardinality(resources') <= Cardinality(resources)
          /\ Cardinality(resources') \in Nat
      BY <1>1, <2>2, FS_Subset, FS_CardinalityType
    <3> QED
      BY <2>1, <3>1 DEF SlotsInv
  <2>3. CASE CanBuild /\ resources' = resources \union {id}
    <3>1. Cardinality(resources') = Cardinality(resources)
          \/ Cardinality(resources') = Cardinality(resources) + 1
      BY <1>1, <2>3, FS_AddElement
    <3> QED
      BY <2>1, <2>3, <3>1 DEF CanBuild
  <2> QED
    BY <2>2, <2>3 DEF Confined
<1>3. overlapped \subseteq overlapped'
  BY OverlapGrows
<1>4. \A x \in DOMAIN channels_' : x \in Ids
  BY DEF TypeOK
<1>5. \A x \in DOMAIN channels_' : x \notin overlapped' => x \in resources'
  BY <1>3, <1>4 DEF Confined, Untouched, SlotsInv, Kept, Exists
<1>6. \A x \in DOMAIN channels_' : x \notin overlapped' => x \in rows'
  BY <1>3, <1>4 DEF Confined, Untouched, RowsInv, Kept, Exists
<1>7. \A x \in loading' : x \notin overlapped' => x \in rows'
  <2>1. \A x \in loading' : x \in Ids /\ x \in loading
    BY DEF TypeOK, Confined
  <2> QED
    BY <1>3, <2>1 DEF Confined, Untouched, RowsInv, Kept
<1> QED
  BY <1>2, <1>5, <1>6, <1>7 DEF SlotsInv, RowsInv

(* What is left to show of the step: its own channel.                       *)
Local(t, id) ==
    /\ Busy(t) => Phase(t, id)
    /\ ~Busy(t) => AtRest(id)
    /\ id \in deleted => Gone(id)

(* So it is enough to look at the step's own channel.                       *)
LEMMA ConfinedStep ==
    ASSUME ManagerInv, TypeOK', ThreadsInv', NEW t \in Threads,
           NEW id \in Ids, Concerns(t, id), Confined(t, id),
           PipesConfined(id), Kept(id),
           id \notin overlapped' => Local(t, id)',
           aborted' => overlapped' # {}
    PROVE  ManagerInv'
<1> USE DEF ManagerInv
<1>1. PipesInv' /\ \A x \in Ids \ {id} : PipesUntouched(x)
  BY PipesStep
<1>2. LoaderInv' /\ Exclusive' /\ IdsInv' /\ SlotsInv' /\ RowsInv'
  BY LoaderStep, ExclusiveStep, IdsStep, SlotsStep
<1>3. overlapped \subseteq overlapped'
  BY OverlapGrows
<1>4. ASSUME NEW x \in Ids \ {id}, x \notin overlapped'
      PROVE  ChannelOK(x)'
  <2>1. ChannelOK(x)
    BY <1>3, <1>4 DEF PhaseInv
  <2>2. CallsUntouched(x)
    <3>1. ~Busy(t) => thread[t] = Quiet
      BY DEF ThreadsInv, ThreadOK, Busy
    <3> QED
      BY <3>1, QuietOK DEF CallsUntouched, Confined, Others, Concerns, Busy
  <2> QED
    BY <1>1, <2>1, <2>2, ChannelStays DEF Confined
<1>5. ASSUME id \notin overlapped' PROVE ChannelOK(id)'
  <2>1. \A u \in Threads \ {t} : ~(Busy(u)' /\ thread'[u].id = id)
    <3> SUFFICES ASSUME NEW u \in Threads \ {t}, Busy(u)', thread'[u].id = id
                 PROVE  FALSE
      OBVIOUS
    <3>1. ~WorkingOn(u, id)
      BY <1>5, Alone
    <3> QED
      BY <3>1 DEF WorkingOn, Confined, Others, Busy
  <2>2. Local(t, id)'
    BY <1>5
  <2> QED
    BY <2>1, <2>2 DEF Local, ChannelOK, Confined
<1>6. PhaseInv'
  BY <1>4, <1>5 DEF PhaseInv
<1> QED
  BY <1>1, <1>2, <1>6

-----------------------------------------------------------------------------
(* The steps within a call.                                                 *)

(* References stay where they are when neither map nor local moves them.    *)
LEMMA SameHolds ==
    ASSUME NEW t \in Threads, Others(t),
           DOMAIN channels_' = DOMAIN channels_,
           \A x \in DOMAIN channels_ : channels_'[x].pipe = channels_[x].pipe,
           \/ thread'[t].pipe = thread[t].pipe /\ thread'[t].id = thread[t].id
           \/ thread[t].pipe = NoPipe /\ thread'[t].pipe = NoPipe,
           NEW p \in PipeIds
    PROVE  /\ \A x : Holds(p, x)' <=> Holds(p, x)
           /\ InUse(p)' <=> InUse(p)
<1>1. p # NoPipe
  BY ChannelManagerAssumption
<1>2. ASSUME NEW x PROVE Holds(p, x)' <=> Holds(p, x)
  <2>1. (Exists(x)' /\ channels_'[x].pipe = p) <=>
           (Exists(x) /\ channels_[x].pipe = p)
    BY DEF Exists
  <2>2. \A u \in Threads : (thread'[u].pipe = p /\ thread'[u].id = x) <=>
                              (thread[u].pipe = p /\ thread[u].id = x)
    BY <1>1 DEF Others
  <2> QED
    BY <2>1, <2>2 DEF Holds
<1> QED
  BY <1>2 DEF InUse

(* The sets that are keyed by channel change for this one only.             *)
SetsFor(id) ==
    /\ resources' \subseteq Ids /\ rows' \subseteq Ids
    /\ registered' \subseteq Ids /\ deleted' \subseteq Ids
    /\ \A x \in Ids \ {id} : /\ x \in registered' <=> x \in registered
                             /\ x \in resources' <=> x \in resources
                             /\ x \in rows' <=> x \in rows
                             /\ x \in deleted' <=> x \in deleted

(* Steps that leave the map alone and keep the local pipeline.              *)
LEMMA KeepingStep ==
    ASSUME ManagerInv, NEW t \in Threads, NEW id \in Ids, id = thread[t].id,
           Busy(t), thread' \in [Threads -> Calls], ThreadsInv', Others(t),
           \/ thread'[t].pipe = thread[t].pipe /\ thread'[t].id = id
           \/ thread[t].pipe = NoPipe /\ thread'[t] = Quiet /\ t # boot,
           Busy(t)' => thread'[t].id = id,
           ~Busy(t)' => t # boot,
           UNCHANGED <<channels_, next_channel_id_, unrestored, loading,
                       overlapped>>,
           events' \in 0..MaxEvents, aborted' \in BOOLEAN,
           aborted' => overlapped # {},
           pipes' \in [PipeIds -> PipeStates],
           \A p \in PipeIds \ {thread[t].pipe} : pipes'[p] = pipes[p],
           SetsFor(id), resources' \subseteq resources, Kept(id),
           id \notin overlapped' => Local(t, id)'
    PROVE  ManagerInv'
<1> USE DEF ManagerInv
<1>1. TypeOK'
  BY DEF TypeOK, Calls, PipeStates, SetsFor
<1>2. Concerns(t, id)
  BY DEF Concerns
<1>3. ~Busy(t)' => thread'[t] = Quiet
  BY DEF ThreadsInv, ThreadOK, Busy
<1>4. \A x \in Ids \ {id} : Untouched(x)
  BY DEF Untouched, SetsFor, Exists
<1>5. Confined(t, id)
  BY <1>3, <1>4 DEF Confined
<1>6. PipesConfined(id)
  <2>1. ASSUME NEW p \in PipeIds
        PROVE  /\ \A x : Holds(p, x)' <=> Holds(p, x)
               /\ InUse(p)' <=> InUse(p)
    BY QuietOK, SameHolds
  <2>2. ASSUME NEW p \in PipeIds, p = thread[t].pipe PROVE Holds(p, id)
    BY <2>2 DEF Holds
  <2>3. ASSUME NEW p \in PipeIds, Holds(p, id) PROVE InUse(p)
    BY <2>3 DEF InUse
  <2> QED
    BY <2>1, <2>2, <2>3 DEF PipesConfined, PipesInv
<1> QED
  BY <1>1, <1>2, <1>5, <1>6, ConfinedStep

(* What a thread finds its channel in, unless calls have overlapped.        *)
LEMMA OwnPhase ==
    ASSUME ManagerInv, NEW t \in Threads, Busy(t), NEW id \in Ids,
           id = thread[t].id, id \notin overlapped
    PROVE  Phase(t, id) /\ (id \in deleted => Gone(id))
BY DEF ManagerInv, PhaseInv, ChannelOK

(* Steps that touch nothing the other parts of the invariant look at.       *)
LEMMA QuietParts ==
    ASSUME ManagerInv, NEW id,
           UNCHANGED <<channels_, pipes, resources, rows, registered,
                       unrestored, loading, aborted, overlapped, deleted,
                       events>>
    PROVE  /\ SetsFor(id) /\ Kept(id) /\ pipes' \in [PipeIds -> PipeStates]
           /\ events' \in 0..MaxEvents /\ aborted' \in BOOLEAN
           /\ aborted' => overlapped # {}
           /\ resources' \subseteq resources
           /\ Gone(id)' <=> Gone(id)
<1>1. /\ SetsFor(id) /\ pipes' \in [PipeIds -> PipeStates]
      /\ events' \in 0..MaxEvents /\ aborted' \in BOOLEAN
  BY DEF ManagerInv, TypeOK, SetsFor, PipeStates
<1>2. Kept(id) /\ (aborted' => overlapped # {})
  BY DEF ManagerInv, Kept, SlotsInv, RowsInv, PhaseInv, Exists
<1>3. Gone(id)' <=> Gone(id)
  BY DEF Gone, Exists
<1> QED
  BY <1>1, <1>2, <1>3

(* DrainAndStop returns at once, or goes on to the joins.                   *)
LEMMA DrainKeeps ==
    ASSUME ManagerInv, NEW t \in Threads, Drain(t), UNCHANGED events,
           NEW id, id = thread[t].id, NEW pipe, pipe = thread[t].pipe
    PROVE  ManagerInv'
<1>0. TypeOK /\ ThreadsInv
  BY DEF ManagerInv
<1>1. /\ Busy(t) /\ Here(t) = "drain" /\ id \in Ids /\ pipe \in PipeIds
      /\ t # boot
  BY <1>0, AtStep DEF Drain, PipeSteps, LoadSteps
<1>2. /\ thread' \in [Threads -> Calls] /\ ThreadsInv' /\ Others(t)
      /\ Enters(t, id, pipe, IF pipes[pipe].running_ THEN "joined"
                                                     ELSE "unregister")
      /\ Last(thread'[t].todo) = Last(thread[t].todo)
  BY <1>0, DrainMoves
<1>3. UNCHANGED <<channels_, next_channel_id_, pipes, resources, rows,
                  registered, unrestored, loading, aborted, overlapped,
                  deleted>>
  BY DEF Drain
<1>4. /\ SetsFor(id) /\ Kept(id) /\ pipes' \in [PipeIds -> PipeStates]
      /\ events' \in 0..MaxEvents /\ aborted' \in BOOLEAN
      /\ aborted' => overlapped # {}
      /\ Gone(id)' <=> Gone(id)
  BY <1>3, QuietParts
<1>5. ASSUME id \notin overlapped PROVE Local(t, id)'
  <2>1. Phase(t, id) /\ (id \in deleted => Gone(id))
    BY <1>1, <1>5, OwnPhase
  <2>2. /\ Busy(t)' /\ Here(t)' \in {"joined", "unregister"}
        /\ thread'[t].pipe = pipe
        /\ Here(t)' = "unregister" => ~pipes[pipe].running_
    BY <1>2 DEF Enters
  <2>3. CASE Last(thread[t].todo) = "deleteRow"
    BY <1>2, <1>3, <1>4, <2>1, <2>2, <2>3
       DEF Local, Phase, DeletePhase, Exists
  <2>4. CASE Last(thread[t].todo) # "deleteRow"
    <3>1. Exists(id) /\ pipe = channels_[id].pipe
      BY <1>1, <2>1, <2>4 DEF Phase, CallPhase, PipeSteps
    <3>2. CallPhase(t, id)'
      BY <1>3, <2>2, <3>1 DEF CallPhase, Exists, StoppedAt, RunningAt, Runs
    <3> QED
      BY <1>2, <1>3, <1>4, <2>1, <2>2, <2>4, <3>2 DEF Local, Phase
  <2> QED
    BY <2>3, <2>4
<1>6. thread'[t].pipe = thread[t].pipe /\ thread'[t].id = id /\ Busy(t)'
  BY <1>2 DEF Enters
<1> QED
  BY <1>1, <1>2, <1>3, <1>4, <1>5, <1>6, KeepingStep

GotoSteps == {"joined", "unregister", "release", "initialize", "launch",
              "opened", "detect", "register", "saveRow", "beginStop"}

(* Where the steps that keep the local pipeline lead.                       *)
LEMMA GotoStep ==
    ASSUME ManagerInv, NEW t \in Threads, NEW h \in GotoSteps, At(t, h),
           Goto(t, Rest(t)), NEW id, id = thread[t].id,
           NEW pipe, pipe = thread[t].pipe
    PROVE  /\ Busy(t) /\ Here(t) = h /\ id \in Ids
           /\ thread' \in [Threads -> Calls] /\ ThreadsInv' /\ Others(t)
           /\ \/ /\ Busy(t)' /\ After(h, Here(t)') /\ thread'[t].pipe = pipe
                 /\ thread'[t].id = id
                 /\ Last(thread'[t].todo) = Last(thread[t].todo)
              \/ /\ h = "saveRow" /\ ~Busy(t)' /\ thread'[t] = Quiet
                 /\ pipe = NoPipe /\ t # boot
<1>0. TypeOK /\ ThreadsInv
  BY DEF ManagerInv
<1>1. /\ Busy(t) /\ Here(t) = h /\ id \in Ids
      /\ h = "saveRow" => pipe = NoPipe /\ t # boot
  BY <1>0, AtStep DEF GotoSteps, BareSteps, LoadSteps
<1>2. h \notin {"setRunning", "install", "setStopped", "build", "beginStart"}
  BY DEF GotoSteps
<1>3. /\ thread' \in [Threads -> Calls] /\ ThreadsInv' /\ Others(t)
      /\ \/ Returns(t)
         \/ Follows(t) /\ thread'[t].pipe = thread[t].pipe
  BY <1>0, <1>1, <1>2, GotoRest
<1>4. CASE Returns(t)
  <2>1. h = "saveRow"
    BY <1>1, <1>4 DEF Returns, FinalSteps, GotoSteps
  <2> QED
    BY <1>1, <1>3, <1>4, <2>1, QuietOK DEF Returns, Busy
<1>5. CASE Follows(t) /\ thread'[t].pipe = thread[t].pipe
  BY <1>1, <1>3, <1>5 DEF Follows
<1> QED
  BY <1>3, <1>4, <1>5

(* The workers are joined and the pipeline is stopped.                      *)
LEMMA JoinedKeeps ==
    ASSUME ManagerInv, NEW t \in Threads, Joined(t), UNCHANGED events,
           NEW id, id = thread[t].id, NEW pipe, pipe = thread[t].pipe
    PROVE  ManagerInv'
<1>0. TypeOK /\ ThreadsInv /\ At(t, "joined")
  BY DEF ManagerInv, Joined
<1>1. /\ Busy(t) /\ Here(t) = "joined" /\ id \in Ids
      /\ thread' \in [Threads -> Calls] /\ ThreadsInv' /\ Others(t)
      /\ Busy(t)' /\ Here(t)' = "unregister" /\ thread'[t].pipe = pipe
      /\ thread'[t].id = id /\ Last(thread'[t].todo) = Last(thread[t].todo)
  BY <1>0, GotoStep DEF Joined, GotoSteps, After
<1>2. pipe \in PipeIds
  BY <1>0, AtStep DEF PipeSteps
<1>3. UNCHANGED <<channels_, next_channel_id_, resources, rows, registered,
                  unrestored, loading, overlapped, deleted>>
  BY DEF Joined
<1>4. /\ pipes' \in [PipeIds -> PipeStates] /\ ~pipes'[pipe].running_
      /\ \A p \in PipeIds \ {pipe} : pipes'[p] = pipes[p]
  <2>1. [state_ |-> "kStopped", running_ |-> FALSE] \in PipeStates
    BY DEF PipeStates, States
  <2> QED
    BY <1>0, <1>2, <2>1 DEF Joined, TypeOK, PipeStates
<1>5. aborted' \in BOOLEAN
  BY DEF Joined
<1>6. aborted' => overlapped # {}
  <2> SUFFICES ASSUME aborted' PROVE overlapped # {}
    OBVIOUS
  <2>1. PICK u \in Threads \ {t} : At(u, "joined") /\ thread[u].pipe = pipe
    BY DEF Joined
  <2>2. thread[u].id \in Ids /\ Busy(u)
    BY <1>0, <2>1, AtStep
  <2>3. Holds(pipe, id) /\ Holds(pipe, thread[u].id)
    BY <2>1 DEF Holds
  <2>4. thread[u].id = id
    BY <1>1, <1>2, <2>2, <2>3 DEF ManagerInv, PipesInv
  <2>5. WorkingOn(t, id) /\ WorkingOn(u, id)
    BY <1>1, <2>2, <2>4 DEF WorkingOn, Busy
  <2> QED
    BY <1>1, <2>5 DEF ManagerInv, Exclusive
<1>7. SetsFor(id) /\ Kept(id) /\ events' \in 0..MaxEvents
  BY <1>0, <1>3 DEF ManagerInv, TypeOK, SetsFor, Kept, SlotsInv, RowsInv,
                    Exists
<1>8. ASSUME id \notin overlapped PROVE Local(t, id)'
  <2>1. Phase(t, id) /\ (id \in deleted => Gone(id))
    BY <1>1, <1>8, OwnPhase
  <2>2. id \in deleted' => Gone(id)'
    BY <1>3, <2>1 DEF Gone, Exists
  <2>3. CASE Last(thread[t].todo) = "deleteRow"
    BY <1>1, <1>3, <2>1, <2>2, <2>3 DEF Local, Phase, DeletePhase, Exists
  <2>4. CASE Last(thread[t].todo) # "deleteRow"
    <3>1. Exists(id) /\ pipe = channels_[id].pipe
      BY <1>1, <2>1, <2>4 DEF Phase, CallPhase, PipeSteps
    <3>2. CallPhase(t, id)'
      BY <1>1, <1>3, <1>4, <3>1
         DEF CallPhase, Exists, StoppedAt, RunningAt, PipeSteps, Runs
    <3> QED
      BY <1>1, <2>2, <2>4, <3>2 DEF Local, Phase
  <2> QED
    BY <2>3, <2>4
<1> QED
  BY <1>1, <1>3, <1>4, <1>5, <1>6, <1>7, <1>8, KeepingStep

(* The streaming services forget the channel.                               *)
LEMMA UnregisterKeeps ==
    ASSUME ManagerInv, NEW t \in Threads, UnregisterFromStreamingServices(t),
           UNCHANGED events, NEW id, id = thread[t].id,
           NEW pipe, pipe = thread[t].pipe
    PROVE  ManagerInv'
<1>0. TypeOK /\ ThreadsInv /\ At(t, "unregister")
  BY DEF ManagerInv, UnregisterFromStreamingServices
<1>1. /\ Busy(t) /\ Here(t) = "unregister" /\ id \in Ids
      /\ thread' \in [Threads -> Calls] /\ ThreadsInv' /\ Others(t)
      /\ Busy(t)' /\ Here(t)' \in {"setStopped", "release"}
      /\ thread'[t].pipe = pipe
      /\ thread'[t].id = id /\ Last(thread'[t].todo) = Last(thread[t].todo)
  BY <1>0, GotoStep DEF UnregisterFromStreamingServices, GotoSteps, After
<1>2. /\ registered' = registered \ {id}
      /\ UNCHANGED <<channels_, next_channel_id_, pipes, resources, rows,
                     unrestored, loading, aborted, overlapped, deleted>>
  BY DEF UnregisterFromStreamingServices
<1>3. /\ SetsFor(id) /\ Kept(id) /\ events' \in 0..MaxEvents
      /\ pipes' \in [PipeIds -> PipeStates] /\ aborted' \in BOOLEAN
      /\ aborted' => overlapped # {}
  BY <1>0, <1>2 DEF ManagerInv, TypeOK, SetsFor, Kept, SlotsInv, RowsInv,
                    PhaseInv, PipeStates, Exists
<1>4. ASSUME id \notin overlapped PROVE Local(t, id)'
  <2>1. Phase(t, id) /\ (id \in deleted => Gone(id))
    BY <1>1, <1>4, OwnPhase
  <2>2. id \in deleted' => Gone(id)'
    BY <1>2, <2>1 DEF Gone, Exists
  <2>3. CASE Last(thread[t].todo) = "deleteRow"
    <3>1. Here(t)' # "deleteRow"
      BY <1>1
    <3> QED
      BY <1>1, <1>2, <2>1, <2>2, <2>3, <3>1
         DEF Local, Phase, DeletePhase, Exists
  <2>4. CASE Last(thread[t].todo) # "deleteRow"
    <3>1. Exists(id) /\ ~Runs(id)
      BY <1>1, <2>1, <2>4 DEF Phase, CallPhase
    <3>2. Here(t)' \in {"setStopped", "release"} /\ Exists(id)' /\ ~Runs(id)'
          /\ id \notin registered'
      BY <1>1, <1>2, <3>1 DEF Runs, Exists
    <3>3. CallPhase(t, id)'
      BY <3>2 DEF CallPhase, StoppedAt, RunningAt, PipeSteps
    <3> QED
      BY <1>1, <2>2, <2>4, <3>3 DEF Local, Phase
  <2> QED
    BY <2>3, <2>4
<1> QED
  BY <1>1, <1>2, <1>3, <1>4, KeepingStep

(* The orchestrator gives the slot of a deleted channel back.               *)
LEMMA OnChannelRemovedKeeps ==
    ASSUME ManagerInv, NEW t \in Threads, OnChannelRemoved(t),
           UNCHANGED events, NEW id, id = thread[t].id,
           NEW pipe, pipe = thread[t].pipe
    PROVE  ManagerInv'
<1>0. TypeOK /\ ThreadsInv /\ At(t, "release")
  BY DEF ManagerInv, OnChannelRemoved
<1>1. /\ Busy(t) /\ Here(t) = "release" /\ id \in Ids
      /\ thread' \in [Threads -> Calls] /\ ThreadsInv' /\ Others(t)
      /\ Busy(t)' /\ Here(t)' = "deleteRow" /\ thread'[t].pipe = pipe
      /\ thread'[t].id = id /\ Last(thread'[t].todo) = Last(thread[t].todo)
  BY <1>0, GotoStep DEF OnChannelRemoved, GotoSteps, After
<1>2. Last(thread[t].todo) = "deleteRow"
  BY <1>0, AtStep
<1>3. /\ resources' = resources \ {id}
      /\ UNCHANGED <<channels_, next_channel_id_, pipes, registered, rows,
                     unrestored, loading, aborted, overlapped, deleted>>
  BY DEF OnChannelRemoved
<1>4. id \notin overlapped =>
         /\ ~Exists(id) /\ id \notin registered
         /\ id \in deleted => Gone(id)
  BY <1>1, <1>2, OwnPhase DEF Phase, DeletePhase
<1>5. /\ SetsFor(id) /\ events' \in 0..MaxEvents
      /\ pipes' \in [PipeIds -> PipeStates] /\ aborted' \in BOOLEAN
      /\ aborted' => overlapped # {}
  BY <1>0, <1>3 DEF ManagerInv, TypeOK, SetsFor, PhaseInv, PipeStates
<1>6. Kept(id)
  BY <1>3, <1>4 DEF ManagerInv, Kept, RowsInv, Exists
<1>7. ASSUME id \notin overlapped PROVE Local(t, id)'
  <2>1. id \in deleted' => Gone(id)'
    BY <1>3, <1>4, <1>7 DEF Gone, Exists
  <2>2. DeletePhase(t, id)'
    BY <1>3, <1>4, <1>7 DEF DeletePhase, Exists
  <2> QED
    BY <1>1, <1>2, <2>1, <2>2 DEF Local, Phase
<1> QED
  BY <1>1, <1>3, <1>5, <1>6, <1>7, KeepingStep

(* A channel with a call other than a delete exists, and so is not deleted. *)
LEMMA OwnCall ==
    ASSUME ManagerInv, NEW t \in Threads, NEW h, At(t, h),
           h \notin DeleteSteps, NEW id \in Ids, id = thread[t].id,
           id \notin overlapped
    PROVE  CallPhase(t, id) /\ Here(t) = h /\ id \notin deleted
<1>1. /\ Busy(t) /\ Here(t) = h /\ Last(thread[t].todo) # "deleteRow"
  BY AtStep DEF ManagerInv
<1>2. CallPhase(t, id) /\ (id \in deleted => Gone(id))
  BY <1>1, OwnPhase DEF Phase
<1> QED
  BY <1>1, <1>2 DEF Gone, CallPhase

(* The steps of StartChannel that succeed.                                  *)
LEMMA StartStepKeeps ==
    ASSUME ManagerInv, NEW t \in Threads, NEW id, id = thread[t].id,
           NEW pipe, pipe = thread[t].pipe,
           NEW h \in {"initialize", "launch", "opened", "detect", "register"},
           At(t, h), Goto(t, Rest(t)), UNCHANGED events,
           UNCHANGED <<channels_, next_channel_id_, resources, unrestored,
                       loading, overlapped, deleted>>,
           rows' = rows \/ rows' = rows \union {id},
           registered' = IF h = "register" THEN registered \union {id}
                         ELSE registered,
           pipes' \in [PipeIds -> PipeStates],
           \A p \in PipeIds \ {pipe} : pipes'[p] = pipes[p],
           h = "launch" => pipes'[pipe].running_,
           h # "launch" => pipes'[pipe].running_ = pipes[pipe].running_,
           aborted' \in BOOLEAN, aborted' => overlapped # {}
    PROVE  ManagerInv'
<1>0. TypeOK /\ ThreadsInv /\ h \in GotoSteps /\ h \notin DeleteSteps
  BY DEF ManagerInv, GotoSteps, DeleteSteps
<1>1. /\ Busy(t) /\ id \in Ids
      /\ thread' \in [Threads -> Calls] /\ ThreadsInv' /\ Others(t)
      /\ Busy(t)' /\ After(h, Here(t)') /\ thread'[t].pipe = pipe
      /\ thread'[t].id = id /\ Last(thread'[t].todo) = Last(thread[t].todo)
  BY <1>0, GotoStep
<1>2. Last(thread[t].todo) # "deleteRow" /\ pipe \in PipeIds
  BY <1>0, AtStep DEF PipeSteps
<1>3. SetsFor(id) /\ Kept(id) /\ events' \in 0..MaxEvents
  BY <1>0, <1>1 DEF ManagerInv, TypeOK, SetsFor, Kept, SlotsInv, RowsInv,
                    Exists
<1>4. ASSUME id \notin overlapped PROVE Local(t, id)'
  <2>1. CallPhase(t, id) /\ Here(t) = h /\ id \notin deleted
    BY <1>0, <1>1, <1>4, OwnCall
  <2>2. /\ Exists(id) /\ pipe = channels_[id].pipe
        /\ channels_[id].state \notin {"kRunning", "kStopping"}
    BY <2>1 DEF CallPhase, PipeSteps, StoppedAt, RunningAt
  <2>3. /\ h \in {"initialize", "launch"} => ~pipes[pipe].running_
        /\ h \in {"opened", "detect", "register"} => pipes[pipe].running_
        /\ id \notin registered
    BY <2>1, <2>2 DEF CallPhase, StoppedAt, RunningAt, Runs
  <2>4. \/ h = "initialize" /\ Here(t)' = "launch"
        \/ h = "launch" /\ Here(t)' = "opened"
        \/ h = "opened" /\ Here(t)' = "detect"
        \/ h = "detect" /\ Here(t)' = "register"
        \/ h = "register" /\ Here(t)' = "setRunning"
    BY <1>1 DEF After
  <2>5. Exists(id)' /\ channels_'[id] = channels_[id] /\ id \notin deleted'
    BY <2>1, <2>2 DEF Exists
  <2>6. /\ Here(t)' = "launch" => ~Runs(id)'
        /\ Here(t)' # "launch" => Runs(id)'
        /\ Here(t)' # "setRunning" => id \notin registered'
        /\ Here(t)' = "setRunning" => id \in registered'
    BY <2>2, <2>3, <2>4, <2>5 DEF Runs
  <2>7. CallPhase(t, id)'
    BY <1>1, <2>2, <2>4, <2>5, <2>6
       DEF CallPhase, PipeSteps, StoppedAt, RunningAt
  <2> QED
    BY <1>1, <1>2, <2>5, <2>7 DEF Local, Phase
<1> QED
  BY <1>1, <1>3, <1>4, KeepingStep

(* A pipeline's new state_ is not a new running_.                           *)
LEMMA SetPipeState ==
    ASSUME pipes \in [PipeIds -> PipeStates], NEW pipe \in PipeIds,
           NEW s \in States
    PROVE  LET new == [pipes EXCEPT ![pipe].state_ = s]
           IN  /\ new \in [PipeIds -> PipeStates]
               /\ new[pipe].running_ = pipes[pipe].running_
               /\ \A p \in PipeIds \ {pipe} : new[p] = pipes[p]
BY DEF PipeStates

(* The pipeline's source is open.                                           *)
LEMMA PipelineStartedKeeps ==
    ASSUME ManagerInv, NEW t \in Threads, PipelineStarted(t),
           UNCHANGED events, NEW id, id = thread[t].id,
           NEW pipe, pipe = thread[t].pipe
    PROVE  ManagerInv'
<1>0. TypeOK /\ ThreadsInv /\ At(t, "opened")
  BY DEF ManagerInv, PipelineStarted
<1>1. pipe \in PipeIds
  BY <1>0, AtStep DEF PipeSteps
<1>2. /\ pipes' \in [PipeIds -> PipeStates]
      /\ pipes'[pipe].running_ = pipes[pipe].running_
      /\ \A p \in PipeIds \ {pipe} : pipes'[p] = pipes[p]
  <2>1. "kRunning" \in States /\ pipes \in [PipeIds -> PipeStates]
    BY <1>0 DEF States, TypeOK, PipeStates
  <2> QED
    BY <1>1, <2>1, SetPipeState DEF PipelineStarted
<1>3. aborted' \in BOOLEAN /\ (aborted' => overlapped # {})
  BY <1>0 DEF PipelineStarted, ManagerInv, PhaseInv, TypeOK
<1> QED
  BY <1>0, <1>2, <1>3, StartStepKeeps DEF PipelineStarted

(* The stream's parameters are saved with the channel.                      *)
LEMMA DetectStreamKeeps ==
    ASSUME ManagerInv, NEW t \in Threads, DetectStream(t),
           UNCHANGED events, NEW id, id = thread[t].id,
           NEW pipe, pipe = thread[t].pipe
    PROVE  ManagerInv'
<1>0. TypeOK /\ At(t, "detect")
  BY DEF ManagerInv, DetectStream
<1>1. pipes' \in [PipeIds -> PipeStates] /\ pipes' = pipes
  BY <1>0 DEF DetectStream, TypeOK, PipeStates
<1>2. aborted' \in BOOLEAN /\ (aborted' => overlapped # {})
  BY <1>0 DEF DetectStream, ManagerInv, PhaseInv, TypeOK
<1> QED
  BY <1>0, <1>1, <1>2, StartStepKeeps DEF DetectStream

(* The streaming services know the channel.                                 *)
LEMMA RegisterKeeps ==
    ASSUME ManagerInv, NEW t \in Threads, RegisterWithStreamingServices(t),
           UNCHANGED events, NEW id, id = thread[t].id,
           NEW pipe, pipe = thread[t].pipe
    PROVE  ManagerInv'
<1>0. TypeOK /\ At(t, "register")
  BY DEF ManagerInv, RegisterWithStreamingServices
<1>1. pipes' \in [PipeIds -> PipeStates] /\ pipes' = pipes
  BY <1>0 DEF RegisterWithStreamingServices, TypeOK, PipeStates
<1>2. aborted' \in BOOLEAN /\ (aborted' => overlapped # {})
  BY <1>0 DEF RegisterWithStreamingServices, ManagerInv, PhaseInv, TypeOK
<1> QED
  BY <1>0, <1>1, <1>2, StartStepKeeps DEF RegisterWithStreamingServices

(* EditChannel has the new pipeline in place and saves the configuration.   *)
LEMMA SaveRowKeeps ==
    ASSUME ManagerInv, NEW t \in Threads, SaveRow(t),
           UNCHANGED events, NEW id, id = thread[t].id,
           NEW pipe, pipe = thread[t].pipe
    PROVE  ManagerInv'
<1>0. /\ TypeOK /\ ThreadsInv /\ At(t, "saveRow") /\ "saveRow" \in GotoSteps
      /\ "saveRow" \notin DeleteSteps
  BY DEF ManagerInv, SaveRow, GotoSteps, DeleteSteps
<1>1. /\ Busy(t) /\ id \in Ids
      /\ thread' \in [Threads -> Calls] /\ ThreadsInv' /\ Others(t)
      /\ \/ /\ Busy(t)' /\ Here(t)' = "beginStart" /\ thread'[t].pipe = pipe
            /\ thread'[t].id = id
            /\ Last(thread'[t].todo) = Last(thread[t].todo)
         \/ /\ ~Busy(t)' /\ thread'[t] = Quiet
            /\ pipe = NoPipe /\ t # boot
  BY <1>0, GotoStep DEF SaveRow, After
<1>2. Last(thread[t].todo) # "deleteRow"
  BY <1>0, AtStep
<1>3. /\ rows' = rows \union {id}
      /\ UNCHANGED <<channels_, next_channel_id_, pipes, registered,
                     resources, unrestored, loading, aborted, overlapped,
                     deleted>>
  BY DEF SaveRow
<1>4. /\ SetsFor(id) /\ Kept(id) /\ events' \in 0..MaxEvents
      /\ pipes' \in [PipeIds -> PipeStates] /\ aborted' \in BOOLEAN
      /\ aborted' => overlapped # {}
  BY <1>0, <1>1, <1>3 DEF ManagerInv, TypeOK, SetsFor, Kept, SlotsInv,
                          RowsInv, PhaseInv, PipeStates, Exists
<1>5. ASSUME id \notin overlapped PROVE Local(t, id)'
  <2>1. CallPhase(t, id) /\ Here(t) = "saveRow" /\ id \notin deleted
    BY <1>0, <1>1, <1>5, OwnCall
  <2>2. /\ Exists(id) /\ channels_[id].state \notin {"kRunning", "kStopping"}
        /\ ~Runs(id) /\ id \notin registered
    BY <2>1 DEF CallPhase, StoppedAt
  <2>3. /\ Exists(id)' /\ channels_'[id].state \notin {"kRunning", "kStopping"}
        /\ ~Runs(id)' /\ id \notin registered' /\ id \notin deleted'
    BY <1>3, <2>1, <2>2 DEF Runs, Exists
  <2>4. CASE Busy(t)'
    <3>1. CallPhase(t, id)'
      BY <1>1, <2>3, <2>4 DEF CallPhase, PipeSteps, RunningAt
    <3> QED
      BY <1>1, <1>2, <2>3, <2>4, <3>1 DEF Local, Phase
  <2>5. CASE ~Busy(t)'
    BY <2>3, <2>5 DEF Local, AtRest, Reports
  <2> QED
    BY <2>4, <2>5
<1> QED
  BY <1>1, <1>3, <1>4, <1>5, KeepingStep

-----------------------------------------------------------------------------
(* The steps that move references to pipelines.                             *)

(* A step that may change the channel's entry and its thread's local.       *)
LEMMA ChannelStep ==
    ASSUME ManagerInv, NEW t \in Threads, NEW id \in Ids, Concerns(t, id),
           thread' \in [Threads -> Calls], ThreadsInv', Others(t),
           Busy(t)' => thread'[t].id = id, ~Busy(t)' => t # boot,
           ChannelsOK(channels_'),
           \A x \in Ids \ {id} : /\ Exists(x)' <=> Exists(x)
                                 /\ Exists(x) => channels_'[x] = channels_[x],
           Exists(id)' => Holds(channels_'[id].pipe, id),
           \/ thread'[t].pipe = NoPipe
           \/ Holds(thread'[t].pipe, id)
           \/ ~InUse(thread'[t].pipe),
           NEW new, \A p \in PipeIds : new[p] = pipes[p] \/ Holds(p, id),
           pipes' \in [PipeIds -> PipeStates],
           \A p \in PipeIds :
               pipes'[p] = IF InUse(p)' THEN new[p] ELSE FreshPipe,
           UNCHANGED <<next_channel_id_, unrestored, loading>>,
           events' \in 0..MaxEvents, aborted' \in BOOLEAN,
           aborted' => overlapped' # {}, SetsFor(id),
           \/ resources' \subseteq resources
           \/ CanBuild /\ resources' = resources \union {id},
           Kept(id), id \notin overlapped' => Local(t, id)'
    PROVE  ManagerInv'
<1>0. TypeOK /\ ThreadsInv
  BY DEF ManagerInv
<1>1. TypeOK'
  <2>1. overlapped' \subseteq Ids
    BY <1>0 DEF Concerns, NoteOverlap, TypeOK
  <2> QED
    BY <1>0, <2>1 DEF TypeOK, Calls, PipeStates, SetsFor, ChannelsOK
<1>2. ~Busy(t)' => thread'[t] = Quiet
  BY DEF ThreadsInv, ThreadOK, Busy
<1>3. \A x \in Ids \ {id} : Untouched(x)
  BY DEF Untouched, SetsFor
<1>4. Confined(t, id)
  BY <1>2, <1>3 DEF Confined
<1>5. PipesConfined(id)
  <2>1. ASSUME NEW p \in PipeIds, Holds(p, id)'
        PROVE  Holds(p, id) \/ ~InUse(p)
    <3>1. p # NoPipe
      BY ChannelManagerAssumption
    <3>2. CASE Exists(id)' /\ channels_'[id].pipe = p
      BY <3>2
    <3>3. ASSUME NEW u \in Threads, thread'[u].pipe = p, thread'[u].id = id
          PROVE  Holds(p, id) \/ ~InUse(p)
      <4>1. CASE u = t
        BY <3>1, <3>3, <4>1
      <4>2. CASE u # t
        BY <3>3, <4>2 DEF Others, Holds
      <4> QED
        BY <4>1, <4>2
    <3> QED
      BY <2>1, <3>2, <3>3 DEF Holds
  <2>2. \A p \in PipeIds :
           /\ pipes'[p] = pipes[p] \/ Holds(p, id) \/ ~InUse(p)'
           /\ ~InUse(p)' => pipes'[p] = FreshPipe
    OBVIOUS
  <2> QED
    BY <2>1, <2>2 DEF PipesConfined
<1> QED
  BY <1>0, <1>1, <1>4, <1>5, ConfinedStep

(* The sets keyed by channel are left alone.                                *)
LEMMA SetsLeft ==
    ASSUME ManagerInv, NEW id \in Ids,
           UNCHANGED <<resources, rows, registered, deleted, unrestored,
                       loading>>,
           overlapped \subseteq overlapped', Exists(id)' => Exists(id)
    PROVE  SetsFor(id) /\ Kept(id) /\ resources' \subseteq resources
BY DEF ManagerInv, TypeOK, SetsFor, Kept, SlotsInv, RowsInv, Exists

(* The pipeline of a channel that exists is not among the released ones.    *)
LEMMA StillUsed ==
    ASSUME NEW id \in Ids, Exists(id)', ChannelsOK(channels_'), NEW new,
           \A p \in PipeIds :
               pipes'[p] = IF InUse(p)' THEN new[p] ELSE FreshPipe
    PROVE  /\ channels_'[id].pipe \in PipeIds
           /\ pipes'[channels_'[id].pipe] = new[channels_'[id].pipe]
<1>1. PICK p : p = channels_'[id].pipe
  OBVIOUS
<1>2. p \in PipeIds
  BY <1>1 DEF ChannelsOK, Exists
<1>3. InUse(p)'
  BY <1>1 DEF InUse, Holds
<1> QED
  BY <1>1, <1>2, <1>3

(* Steps that record the outcome of a call, or of the stop within one, and  *)
(* let go of the local pipeline.                                            *)
LEMMA StateStep ==
    ASSUME ManagerInv, NEW t \in Threads, NEW id \in Ids, id = thread[t].id,
           Busy(t), thread' \in [Threads -> Calls], ThreadsInv', Others(t),
           thread'[t].pipe = NoPipe, ~Busy(t)' => t # boot,
           Busy(t)' => /\ thread'[t].id = id
                       /\ Last(thread'[t].todo) # "deleteRow"
                       /\ Here(t)' \in {"build", "beginStart", "loadNext"},
           NEW s \in States, SetState(id, s),
           Busy(t)' /\ Here(t)' # "loadNext" => s # "kRunning",
           NEW new \in [PipeIds -> PipeStates], ReleasePipes(new),
           \A p \in PipeIds : new[p] = pipes[p] \/ Holds(p, id),
           UNCHANGED <<next_channel_id_, resources, rows, registered,
                       unrestored, loading, aborted, overlapped, deleted,
                       events>>,
           id \notin overlapped =>
              /\ Exists(id) /\ id \notin deleted /\ s # "kStopping"
              /\ s = "kRunning" <=> new[channels_[id].pipe].running_
              /\ s = "kRunning" <=> id \in registered
    PROVE  ManagerInv'
<1>0. TypeOK
  BY DEF ManagerInv
<1>1. /\ ChannelsOK(channels_') /\ DOMAIN channels_' = DOMAIN channels_
      /\ \A x \in DOMAIN channels_ :
            /\ channels_'[x].pipe = channels_[x].pipe
            /\ x # id => channels_'[x] = channels_[x]
      /\ id \in DOMAIN channels_ => channels_'[id].state = s
  BY <1>0, SetStateEffect DEF TypeOK, ChannelsOK
<1>2. /\ pipes' \in [PipeIds -> PipeStates]
      /\ \A p \in PipeIds :
            pipes'[p] = IF InUse(p)' THEN new[p] ELSE FreshPipe
  BY <1>1, ReleaseEffect DEF ChannelsOK
<1>3. Exists(id)' => Holds(channels_'[id].pipe, id)
  BY <1>1 DEF Exists, Holds
<1>4. SetsFor(id) /\ Kept(id) /\ resources' \subseteq resources
  BY <1>1, SetsLeft DEF Exists
<1>5. /\ events' \in 0..MaxEvents /\ aborted' \in BOOLEAN
      /\ aborted' => overlapped' # {}
  BY <1>0 DEF ManagerInv, PhaseInv, TypeOK
<1>6. ASSUME id \notin overlapped' PROVE Local(t, id)'
  <2>1. /\ Exists(id)' /\ channels_'[id].state = s
        /\ channels_'[id].pipe = channels_[id].pipe
        /\ id \notin deleted' /\ s # "kStopping"
        /\ s = "kRunning" <=> id \in registered'
    BY <1>1, <1>6 DEF Exists
  <2>2. Runs(id)' <=> s = "kRunning"
    BY <1>1, <1>2, <1>6, <2>1, StillUsed DEF Runs
  <2>3. AtRest(id)'
    BY <2>1, <2>2 DEF AtRest, Reports
  <2>4. CASE Busy(t)'
    <3>1. CallPhase(t, id)'
      BY <2>1, <2>2, <2>3, <2>4
         DEF CallPhase, PipeSteps, RunningAt, StoppedAt
    <3> QED
      BY <2>1, <2>4, <3>1 DEF Local, Phase
  <2>5. CASE ~Busy(t)'
    BY <2>1, <2>3, <2>5 DEF Local
  <2> QED
    BY <2>4, <2>5
<1>7. Concerns(t, id)
  BY DEF Concerns
<1> QED
  BY <1>1, <1>2, <1>3, <1>4, <1>5, <1>6, <1>7, ChannelStep DEF Exists

(* StopChannel records kStopped and lets go of the pipeline.                *)
LEMMA SetStoppedKeeps ==
    ASSUME ManagerInv, NEW t \in Threads, SetStopped(t), UNCHANGED events,
           NEW id, id = thread[t].id
    PROVE  ManagerInv'
<1>0. /\ TypeOK /\ ThreadsInv /\ At(t, "setStopped")
      /\ "setStopped" \notin DeleteSteps
  BY DEF ManagerInv, SetStopped, DeleteSteps
<1>1. /\ Busy(t) /\ Here(t) = "setStopped" /\ id \in Ids /\ t # boot
      /\ Last(thread[t].todo) # "deleteRow"
  BY <1>0, AtStep DEF LoadSteps
<1>2. /\ thread' \in [Threads -> Calls] /\ ThreadsInv' /\ Others(t)
      /\ Busy(t)' => /\ Here(t)' \in {"build", "beginStart"}
                     /\ Last(thread'[t].todo) # "deleteRow"
                     /\ thread'[t].id = id
      /\ thread'[t].pipe = NoPipe
  BY <1>0, <1>1, LeaveRest, QuietOK
     DEF SetStopped, Returns, Follows, After, Busy
<1>3. /\ SetState(id, "kStopped") /\ ReleasePipes(pipes)
      /\ UNCHANGED <<next_channel_id_, resources, rows, registered,
                     unrestored, loading, aborted, overlapped, deleted>>
  BY DEF SetStopped
<1>4. "kStopped" \in States /\ pipes \in [PipeIds -> PipeStates]
  BY <1>0 DEF TypeOK, PipeStates, States
<1>5. id \notin overlapped =>
         /\ Exists(id) /\ id \notin deleted /\ id \notin registered
         /\ ~pipes[channels_[id].pipe].running_
  BY <1>0, <1>1, OwnCall DEF CallPhase, Runs
<1> QED
  BY <1>1, <1>2, <1>3, <1>4, <1>5, StateStep

(* StartChannel records kRunning and returns.                               *)
LEMMA SetRunningKeeps ==
    ASSUME ManagerInv, NEW t \in Threads, SetRunning(t), UNCHANGED events,
           NEW id, id = thread[t].id
    PROVE  ManagerInv'
<1>0. /\ TypeOK /\ ThreadsInv /\ At(t, "setRunning")
      /\ "setRunning" \notin DeleteSteps
  BY DEF ManagerInv, SetRunning, DeleteSteps
<1>1. /\ Busy(t) /\ Here(t) = "setRunning" /\ id \in Ids
      /\ Last(thread[t].todo) # "deleteRow"
  BY <1>0, AtStep
<1>2. /\ thread' \in [Threads -> Calls] /\ ThreadsInv' /\ Others(t)
      /\ Busy(t)' => /\ Here(t)' = "loadNext"
                     /\ Last(thread'[t].todo) # "deleteRow"
                     /\ thread'[t].id = id
      /\ ~Busy(t)' => t # boot
      /\ thread'[t].pipe = NoPipe
  <2>1. t = boot => Last(thread[t].todo) = "loadNext"
    BY <1>0, <1>1, LastStep
  <2> QED
    BY <1>0, <1>1, <2>1, LeaveRest, QuietOK
       DEF SetRunning, Returns, Follows, After, Busy
<1>3. /\ SetState(id, "kRunning") /\ ReleasePipes(pipes)
      /\ UNCHANGED <<next_channel_id_, resources, rows, registered,
                     unrestored, loading, aborted, overlapped, deleted>>
  BY DEF SetRunning
<1>4. "kRunning" \in States /\ pipes \in [PipeIds -> PipeStates]
  BY <1>0 DEF TypeOK, PipeStates, States
<1>5. id \notin overlapped =>
         /\ Exists(id) /\ id \notin deleted /\ id \in registered
         /\ pipes[channels_[id].pipe].running_
  BY <1>0, <1>1, OwnCall DEF CallPhase, RunningAt, Runs
<1> QED
  BY <1>1, <1>2, <1>3, <1>4, <1>5, StateStep

(* StartChannel fails.                                                      *)
LEMMA StartFails ==
    ASSUME ManagerInv, NEW t \in Threads, UNCHANGED events,
           NEW id, id = thread[t].id, NEW pipe, pipe = thread[t].pipe,
           NEW h \in {"initialize", "launch"}, At(t, h), SetState(id, "kError"),
           Leave(t, AfterStart(t)), NEW new \in [PipeIds -> PipeStates],
           ReleasePipes(new),
           \A p \in PipeIds \ {pipe} : new[p] = pipes[p],
           new[pipe].running_ = pipes[pipe].running_,
           UNCHANGED <<next_channel_id_, resources, rows, registered,
                       unrestored, loading, aborted, overlapped, deleted>>
    PROVE  ManagerInv'
<1>0. TypeOK /\ ThreadsInv /\ h \notin DeleteSteps
  BY DEF ManagerInv, DeleteSteps
<1>1. Busy(t) /\ Here(t) = h /\ id \in Ids /\ pipe \in PipeIds
  BY <1>0, AtStep DEF PipeSteps
<1>2. /\ thread' \in [Threads -> Calls] /\ ThreadsInv' /\ Others(t)
      /\ Busy(t)' => /\ Here(t)' = "loadNext"
                     /\ Last(thread'[t].todo) # "deleteRow"
                     /\ thread'[t].id = id
      /\ ~Busy(t)' => t # boot
      /\ thread'[t].pipe = NoPipe
  BY <1>0, LeaveStart, QuietOK DEF Enters, Busy
<1>3. "kError" \in States
  BY DEF States
<1>4. id \notin overlapped =>
         /\ Exists(id) /\ id \notin deleted /\ id \notin registered
         /\ channels_[id].pipe = pipe /\ ~pipes[pipe].running_
  BY <1>0, <1>1, OwnCall DEF CallPhase, StoppedAt, PipeSteps, Runs
<1>5. \A p \in PipeIds : new[p] = pipes[p] \/ Holds(p, id)
  BY DEF Holds
<1> QED
  BY <1>1, <1>2, <1>3, <1>4, <1>5, StateStep

(* Initialize configures the pipeline, or the start fails.                  *)
LEMMA InitializePipelineKeeps ==
    ASSUME ManagerInv, NEW t \in Threads, InitializePipeline(t),
           UNCHANGED events, NEW id, id = thread[t].id,
           NEW pipe, pipe = thread[t].pipe
    PROVE  ManagerInv'
<1>0. TypeOK /\ ThreadsInv /\ At(t, "initialize")
  BY DEF ManagerInv, InitializePipeline
<1>1. pipe \in PipeIds /\ pipes \in [PipeIds -> PipeStates]
  BY <1>0, AtStep DEF PipeSteps, TypeOK, PipeStates
<1>2. UNCHANGED <<next_channel_id_, resources, rows, registered, unrestored,
                  loading, aborted, overlapped, deleted>>
  BY DEF InitializePipeline
<1>3. aborted' \in BOOLEAN /\ (aborted' => overlapped # {})
  BY <1>0, <1>2 DEF ManagerInv, PhaseInv, TypeOK
<1>4. "kConfigured" \in States /\ "kError" \in States
  BY DEF States
<1>5. CASE /\ pipes' = [pipes EXCEPT ![pipe].state_ = "kConfigured"]
           /\ Goto(t, Rest(t)) /\ UNCHANGED channels_
  <2>1. /\ pipes' \in [PipeIds -> PipeStates]
        /\ pipes'[pipe].running_ = pipes[pipe].running_
        /\ \A p \in PipeIds \ {pipe} : pipes'[p] = pipes[p]
    BY <1>1, <1>4, <1>5, SetPipeState
  <2> QED
    BY <1>0, <1>2, <1>3, <1>5, <2>1, StartStepKeeps
<1>6. CASE /\ SetState(id, "kError") /\ Leave(t, AfterStart(t))
           /\ ReleasePipes([pipes EXCEPT ![pipe].state_ = "kError"])
  <2> DEFINE new == [pipes EXCEPT ![pipe].state_ = "kError"]
  <2>1. /\ new \in [PipeIds -> PipeStates]
        /\ new[pipe].running_ = pipes[pipe].running_
        /\ \A p \in PipeIds \ {pipe} : new[p] = pipes[p]
    BY <1>1, <1>4, SetPipeState
  <2>2. ReleasePipes(new)
    BY <1>6
  <2> HIDE DEF new
  <2> QED
    BY <1>0, <1>2, <1>6, <2>1, <2>2, StartFails
<1> QED
  BY <1>5, <1>6 DEF InitializePipeline

(* Start creates the workers, or refuses the pipeline's state.              *)
LEMMA LaunchPipelineKeeps ==
    ASSUME ManagerInv, NEW t \in Threads, LaunchPipeline(t), ~aborted,
           UNCHANGED events, NEW id, id = thread[t].id,
           NEW pipe, pipe = thread[t].pipe
    PROVE  ManagerInv'
<1>0. /\ TypeOK /\ ThreadsInv /\ At(t, "launch")
      /\ "launch" \notin DeleteSteps
  BY DEF ManagerInv, LaunchPipeline, DeleteSteps
<1>1. /\ pipe \in PipeIds /\ pipes \in [PipeIds -> PipeStates] /\ id \in Ids
  BY <1>0, AtStep DEF PipeSteps, TypeOK, PipeStates
<1>2. UNCHANGED <<next_channel_id_, resources, rows, registered, unrestored,
                  loading, overlapped, deleted>>
  BY DEF LaunchPipeline
<1>3. CASE /\ pipes' = [pipes EXCEPT ![pipe].running_ = TRUE]
           /\ aborted' = pipes[pipe].running_
           /\ Goto(t, Rest(t)) /\ UNCHANGED channels_
  <2>1. /\ pipes' \in [PipeIds -> PipeStates] /\ pipes'[pipe].running_
        /\ \A p \in PipeIds \ {pipe} : pipes'[p] = pipes[p]
    BY <1>1, <1>3 DEF PipeStates
  <2>2. aborted' \in BOOLEAN
    BY <1>1, <1>3 DEF PipeStates
  <2>3. aborted' => overlapped # {}
    <3>1. id \notin overlapped => ~pipes[pipe].running_
      BY <1>0, <1>1, OwnCall DEF CallPhase, StoppedAt, PipeSteps, Runs
    <3> QED
      BY <1>3, <3>1
  <2> QED
    BY <1>0, <1>2, <1>3, <2>1, <2>2, <2>3, StartStepKeeps
<1>4. CASE /\ SetState(id, "kError") /\ Leave(t, AfterStart(t))
           /\ ReleasePipes(pipes) /\ UNCHANGED aborted
  BY <1>0, <1>1, <1>2, <1>4, StartFails
<1> QED
  BY <1>3, <1>4 DEF LaunchPipeline

(* DeleteChannel has removed everything and returns.                        *)
LEMMA DeleteRowKeeps ==
    ASSUME ManagerInv, NEW t \in Threads, DeleteRow(t), UNCHANGED events,
           NEW id, id = thread[t].id
    PROVE  ManagerInv'
<1>0. TypeOK /\ ThreadsInv /\ At(t, "deleteRow")
  BY DEF ManagerInv, DeleteRow
<1>1. /\ Busy(t) /\ Here(t) = "deleteRow" /\ id \in Ids /\ t # boot
      /\ Last(thread[t].todo) = "deleteRow"
  BY <1>0, AtStep DEF LoadSteps
<1>2. /\ thread' \in [Threads -> Calls] /\ ThreadsInv' /\ Others(t)
      /\ ~Busy(t)' /\ thread'[t].pipe = NoPipe
  BY <1>0, <1>1, LeaveRest, QuietOK
     DEF DeleteRow, Returns, Follows, After, Busy
<1>3. /\ rows' = rows \ {id} /\ deleted' = deleted \union {id}
      /\ ReleasePipes(pipes)
      /\ UNCHANGED <<channels_, next_channel_id_, resources, registered,
                     unrestored, loading, aborted, overlapped>>
  BY DEF DeleteRow
<1>4. /\ pipes' \in [PipeIds -> PipeStates]
      /\ \A p \in PipeIds :
            pipes'[p] = IF InUse(p)' THEN pipes[p] ELSE FreshPipe
  <2>1. pipes \in [PipeIds -> PipeStates] /\ DOMAIN channels_' \subseteq Ids
    BY <1>0, <1>3 DEF TypeOK, PipeStates
  <2> QED
    BY <1>2, <1>3, <2>1, ReleaseEffect
<1>5. SetsFor(id)
  BY <1>0, <1>1, <1>3 DEF SetsFor, TypeOK
<1>6. /\ events' \in 0..MaxEvents /\ aborted' \in BOOLEAN
      /\ aborted' => overlapped' # {}
  BY <1>0, <1>3 DEF ManagerInv, PhaseInv, TypeOK
<1>7. ASSUME id \notin overlapped
      PROVE  /\ ~Exists(id) /\ id \notin registered
             /\ id \notin resources /\ id \notin loading
  <2>1. ~Exists(id) /\ id \notin registered /\ id \notin resources
    BY <1>1, <1>7, OwnPhase DEF Phase, DeletePhase
  <2>2. id \notin loading
    <3> SUFFICES ASSUME id \in loading PROVE FALSE
      OBVIOUS
    <3>1. WorkingOn(boot, id)
      BY DEF ManagerInv, LoaderInv, WorkingOn, Busy
    <3>2. WorkingOn(t, id) /\ boot \in Threads
      BY <1>1 DEF WorkingOn, Busy, Threads
    <3> QED
      BY <1>1, <1>7, <3>1, <3>2 DEF ManagerInv, Exclusive
  <2> QED
    BY <2>1, <2>2
<1>8. Kept(id)
  BY <1>3, <1>7 DEF Kept, Exists
<1>9. id \notin overlapped' => Local(t, id)'
  BY <1>2, <1>3, <1>7 DEF Local, AtRest, Gone, Exists, Reports
<1>10. Concerns(t, id)
  BY <1>1, <1>3 DEF Concerns
<1>11. Exists(id)' => Holds(channels_'[id].pipe, id)
  BY <1>3 DEF Exists, Holds
<1>12. ChannelsOK(channels_')
  BY <1>0, <1>3 DEF TypeOK, ChannelsOK
<1> QED
  BY <1>1, <1>2, <1>3, <1>4, <1>5, <1>6, <1>8, <1>9, <1>10, <1>11, <1>12,
     ChannelStep DEF Exists

(* EditChannel builds a second pipeline, or gives up with kError.           *)
LEMMA BuildPipelineKeeps ==
    ASSUME ManagerInv, NEW t \in Threads, BuildPipeline(t), UNCHANGED events,
           NEW id, id = thread[t].id
    PROVE  ManagerInv'
<1>0. TypeOK /\ ThreadsInv /\ At(t, "build") /\ "build" \notin DeleteSteps
  BY DEF ManagerInv, BuildPipeline, DeleteSteps
<1>1. /\ Busy(t) /\ Here(t) = "build" /\ id \in Ids /\ t # boot
      /\ pipes \in [PipeIds -> PipeStates] /\ ChannelsOK(channels_)
  BY <1>0, AtStep DEF LoadSteps, TypeOK, PipeStates, ChannelsOK
<1>2. /\ ReleasePipes(pipes)
      /\ UNCHANGED <<next_channel_id_, rows, registered, unrestored, loading,
                     aborted, overlapped, deleted>>
  BY DEF BuildPipeline
<1>3. id \notin overlapped =>
         /\ Exists(id) /\ id \notin deleted /\ id \notin registered
         /\ channels_[id].state \notin {"kRunning", "kStopping"}
         /\ ~pipes[channels_[id].pipe].running_
  BY <1>0, <1>1, OwnCall DEF CallPhase, StoppedAt, Runs
<1>4. CASE /\ CanBuild /\ resources' = resources \union {id}
           /\ Call(t, id, NewPipe, Rest(t)) /\ UNCHANGED channels_
  <2>1. PICK new : new = NewPipe
    OBVIOUS
  <2>2. new \in PipeIds /\ ~InUse(new)
    BY <1>0, <2>1, NewPipeIsFree
  <2>3. /\ thread' \in [Threads -> Calls] /\ ThreadsInv' /\ Others(t)
        /\ Busy(t)' /\ Here(t)' = "install" /\ thread'[t].id = id
        /\ thread'[t].pipe = new /\ Last(thread'[t].todo) # "deleteRow"
    BY <1>0, <1>4, <2>1, <2>2, BuildCalled DEF Enters
  <2>4. /\ pipes' \in [PipeIds -> PipeStates]
        /\ \A p \in PipeIds :
              pipes'[p] = IF InUse(p)' THEN pipes[p] ELSE FreshPipe
    BY <1>1, <1>2, <1>4, <2>3, ReleaseEffect DEF ChannelsOK
  <2>5. SetsFor(id) /\ Kept(id)
    BY <1>0, <1>1, <1>2, <1>4
       DEF ManagerInv, TypeOK, SetsFor, Kept, RowsInv, Exists
  <2>6. /\ events' \in 0..MaxEvents /\ aborted' \in BOOLEAN
        /\ aborted' => overlapped' # {}
    BY <1>0, <1>2 DEF ManagerInv, PhaseInv, TypeOK
  <2>7. ASSUME id \notin overlapped' PROVE Local(t, id)'
    <3>1. /\ Exists(id)' /\ id \notin deleted' /\ id \notin registered'
          /\ channels_'[id].state \notin {"kRunning", "kStopping"}
          /\ channels_'[id].pipe = channels_[id].pipe
      BY <1>2, <1>3, <1>4, <2>7 DEF Exists
    <3>2. ~Runs(id)'
      BY <1>1, <1>2, <1>3, <1>4, <2>4, <2>7, <3>1, StillUsed DEF Runs
    <3>3. ~pipes'[new].running_
      <4>1. pipes[new] = FreshPipe
        BY <2>2 DEF ManagerInv, PipesInv
      <4> QED
        BY <2>2, <2>4, <4>1 DEF FreshPipe
    <3>4. CallPhase(t, id)'
      BY <2>3, <3>1, <3>2, <3>3
         DEF CallPhase, PipeSteps, RunningAt, StoppedAt
    <3> QED
      BY <2>3, <3>1, <3>4 DEF Local, Phase
  <2>8. Concerns(t, id)
    BY <1>1, <1>2 DEF Concerns
  <2>9. Exists(id)' => Holds(channels_'[id].pipe, id)
    BY <1>4 DEF Exists, Holds
  <2>10. ~InUse(thread'[t].pipe)
    BY <2>2, <2>3
  <2> QED
    BY <1>1, <1>2, <1>4, <2>3, <2>4, <2>5, <2>6, <2>7, <2>8, <2>9, <2>10,
       ChannelStep DEF Exists
<1>5. CASE /\ SetState(id, "kError") /\ Leave(t, <<>>) /\ UNCHANGED resources
  <2>1. /\ thread' \in [Threads -> Calls] /\ ThreadsInv' /\ Others(t)
        /\ ~Busy(t)' /\ thread'[t].pipe = NoPipe
    BY <1>0, <1>5, Abandons, QuietOK DEF Busy
  <2>2. "kError" \in States
    BY DEF States
  <2> QED
    BY <1>1, <1>2, <1>3, <1>5, <2>1, <2>2, StateStep
<1> QED
  BY <1>4, <1>5 DEF BuildPipeline

(* EditChannel replaces the pipeline of a channel that is still there.      *)
LEMMA InstallPipelineKeeps ==
    ASSUME ManagerInv, NEW t \in Threads, InstallPipeline(t),
           UNCHANGED events, NEW id, id = thread[t].id,
           NEW pipe, pipe = thread[t].pipe
    PROVE  ManagerInv'
<1>0. TypeOK /\ ThreadsInv /\ At(t, "install") /\ "install" \notin DeleteSteps
  BY DEF ManagerInv, InstallPipeline, DeleteSteps
<1>1. /\ Busy(t) /\ Here(t) = "install" /\ id \in Ids /\ t # boot
      /\ pipes \in [PipeIds -> PipeStates] /\ ChannelsOK(channels_)
      /\ pipe \in PipeIds /\ Last(thread[t].todo) # "deleteRow"
  BY <1>0, AtStep DEF LoadSteps, TypeOK, PipeStates, ChannelsOK, PipeSteps
<1>2. /\ ReleasePipes(pipes)
      /\ UNCHANGED <<next_channel_id_, resources, rows, registered,
                     unrestored, loading, aborted, overlapped, deleted>>
  BY DEF InstallPipeline
<1>3. /\ events' \in 0..MaxEvents /\ aborted' \in BOOLEAN
      /\ aborted' => overlapped' # {}
  BY <1>0, <1>2 DEF ManagerInv, PhaseInv, TypeOK
<1>4. Concerns(t, id)
  BY <1>1, <1>2 DEF Concerns
<1>5. id \notin overlapped =>
         /\ Exists(id) /\ id \notin deleted /\ id \notin registered
         /\ ~pipes[pipe].running_
  BY <1>0, <1>1, OwnCall DEF CallPhase, StoppedAt
<1>6. CASE /\ Exists(id) /\ Leave(t, Rest(t))
           /\ channels_' = [channels_ EXCEPT ![id] =
                  [state |-> "kConfigured", pipe |-> pipe]]
  <2>1. /\ thread' \in [Threads -> Calls] /\ ThreadsInv' /\ Others(t)
        /\ Busy(t)' /\ Here(t)' = "saveRow" /\ thread'[t].id = id
        /\ thread'[t].pipe = NoPipe /\ Last(thread'[t].todo) # "deleteRow"
    BY <1>0, <1>1, <1>6, LeaveRest
       DEF Returns, Follows, After, FinalSteps
  <2>2. /\ ChannelsOK(channels_') /\ DOMAIN channels_' = DOMAIN channels_
        /\ \A x \in DOMAIN channels_ \ {id} : channels_'[x] = channels_[x]
        /\ channels_'[id].state = "kConfigured" /\ channels_'[id].pipe = pipe
    BY <1>1, <1>6 DEF ChannelsOK, States, Exists
  <2>3. /\ pipes' \in [PipeIds -> PipeStates]
        /\ \A p \in PipeIds :
              pipes'[p] = IF InUse(p)' THEN pipes[p] ELSE FreshPipe
    BY <1>1, <1>2, <2>1, <2>2, ReleaseEffect DEF ChannelsOK
  <2>4. SetsFor(id) /\ Kept(id) /\ resources' \subseteq resources
    BY <1>1, <1>2, <1>6, SetsLeft
  <2>5. ASSUME id \notin overlapped' PROVE Local(t, id)'
    <3>1. /\ Exists(id)' /\ id \notin deleted' /\ id \notin registered'
          /\ channels_'[id].state = "kConfigured"
      BY <1>2, <1>5, <2>2, <2>5 DEF Exists
    <3>2. ~Runs(id)'
      BY <1>1, <1>2, <1>5, <2>2, <2>3, <2>5, <3>1, StillUsed DEF Runs
    <3>3. CallPhase(t, id)'
      BY <2>1, <3>1, <3>2 DEF CallPhase, PipeSteps, RunningAt, StoppedAt
    <3> QED
      BY <2>1, <3>1, <3>3 DEF Local, Phase
  <2>6. Holds(channels_'[id].pipe, id)
    BY <2>2 DEF Holds
  <2> QED
    BY <1>1, <1>2, <1>3, <1>4, <2>1, <2>2, <2>3, <2>4, <2>5, <2>6,
       ChannelStep DEF Exists
<1>7. CASE ~Exists(id) /\ Leave(t, <<>>) /\ UNCHANGED channels_
  <2>1. /\ thread' \in [Threads -> Calls] /\ ThreadsInv' /\ Others(t)
        /\ ~Busy(t)' /\ thread'[t].pipe = NoPipe
    BY <1>0, <1>7, Abandons, QuietOK DEF Busy
  <2>2. /\ pipes' \in [PipeIds -> PipeStates]
        /\ \A p \in PipeIds :
              pipes'[p] = IF InUse(p)' THEN pipes[p] ELSE FreshPipe
    BY <1>1, <1>2, <1>7, <2>1, ReleaseEffect DEF ChannelsOK
  <2>3. SetsFor(id) /\ Kept(id) /\ resources' \subseteq resources
    BY <1>1, <1>2, <1>7, SetsLeft DEF Exists
  <2> QED
    BY <1>1, <1>2, <1>3, <1>4, <1>5, <1>7, <2>1, <2>2, <2>3, ChannelStep
       DEF Exists
<1> QED
  BY <1>6, <1>7 DEF InstallPipeline

(* StartChannel called by EditChannel, a recovery or LoadChannels.          *)
LEMMA BeginStartKeeps ==
    ASSUME ManagerInv, NEW t \in Threads, BeginStart(t), UNCHANGED events,
           NEW id, id = thread[t].id
    PROVE  ManagerInv'
<1>0. /\ TypeOK /\ ThreadsInv /\ At(t, "beginStart")
      /\ "beginStart" \notin DeleteSteps
  BY DEF ManagerInv, BeginStart, DeleteSteps
<1>1. /\ Busy(t) /\ Here(t) = "beginStart" /\ id \in Ids
      /\ pipes \in [PipeIds -> PipeStates] /\ ChannelsOK(channels_)
      /\ thread[t].pipe = NoPipe /\ Last(thread[t].todo) # "deleteRow"
      /\ thread[t] \in Calls
  BY <1>0, AtStep DEF TypeOK, PipeStates, ChannelsOK, BareSteps
<1>2. /\ ReleasePipes(pipes)
      /\ UNCHANGED <<channels_, next_channel_id_, resources, rows,
                     registered, unrestored, loading, aborted, overlapped,
                     deleted>>
  BY DEF BeginStart
<1>3. /\ events' \in 0..MaxEvents /\ aborted' \in BOOLEAN
      /\ aborted' => overlapped' # {}
  BY <1>0, <1>2 DEF ManagerInv, PhaseInv, TypeOK
<1>4. Concerns(t, id)
  BY <1>1, <1>2 DEF Concerns
<1>5. id \notin overlapped =>
         /\ Exists(id) /\ id \notin deleted /\ id \notin registered
         /\ channels_[id].state \notin {"kRunning", "kStopping"}
         /\ ~pipes[channels_[id].pipe].running_
  BY <1>0, <1>1, OwnCall DEF CallPhase, StoppedAt, Runs
<1>6. SetsFor(id) /\ Kept(id) /\ resources' \subseteq resources
  BY <1>1, <1>2, SetsLeft DEF Exists
<1>7. Exists(id)' => Holds(channels_'[id].pipe, id)
  BY <1>2 DEF Exists, Holds
<1>8. ASSUME thread' \in [Threads -> Calls]
      PROVE  /\ pipes' \in [PipeIds -> PipeStates]
             /\ \A p \in PipeIds :
                   pipes'[p] = IF InUse(p)' THEN pipes[p] ELSE FreshPipe
  BY <1>1, <1>2, <1>8, ReleaseEffect DEF ChannelsOK
<1>9. CASE Exists(id) /\ Call(t, id, channels_[id].pipe, StartSteps \o Rest(t))
  <2>1. PICK pipe : pipe = channels_[id].pipe
    OBVIOUS
  <2>2. pipe \in PipeIds
    BY <1>1, <1>9, <2>1 DEF ChannelsOK, Exists
  <2>3. /\ thread' \in [Threads -> Calls] /\ ThreadsInv' /\ Others(t)
        /\ Busy(t)' /\ Here(t)' = "initialize" /\ thread'[t].id = id
        /\ thread'[t].pipe = pipe /\ Last(thread'[t].todo) # "deleteRow"
    BY <1>0, <1>9, <2>1, <2>2, StartCalled DEF Enters
  <2>4. /\ pipes' \in [PipeIds -> PipeStates]
        /\ \A p \in PipeIds :
              pipes'[p] = IF InUse(p)' THEN pipes[p] ELSE FreshPipe
    BY <1>8, <2>3
  <2>5. ASSUME id \notin overlapped' PROVE Local(t, id)'
    <3>1. /\ Exists(id)' /\ id \notin deleted' /\ id \notin registered'
          /\ channels_'[id].state \notin {"kRunning", "kStopping"}
          /\ channels_'[id].pipe = pipe
      BY <1>2, <1>5, <2>1, <2>5 DEF Exists
    <3>2. ~Runs(id)'
      BY <1>1, <1>2, <1>5, <2>1, <2>4, <2>5, <3>1, StillUsed DEF Runs
    <3>3. CallPhase(t, id)'
      BY <2>3, <3>1, <3>2 DEF CallPhase, PipeSteps, RunningAt, StoppedAt
    <3> QED
      BY <2>3, <3>1, <3>3 DEF Local, Phase
  <2>6. Holds(thread'[t].pipe, id)
    BY <1>9, <2>1, <2>3 DEF Holds
  <2> QED
    BY <1>1, <1>2, <1>3, <1>4, <1>6, <1>7, <2>3, <2>4, <2>5, <2>6,
       ChannelStep DEF Exists
<1>10. CASE ~(Exists(id) /\ ~Reports(id, "kRunning")) /\ Goto(t, Rest(t))
  <2>1. Leave(t, Rest(t))
    <3>1. [thread[t] EXCEPT !.todo = Rest(t)] =
             [todo |-> Rest(t), id |-> thread[t].id, pipe |-> NoPipe]
      BY <1>1 DEF Calls
    <3> QED
      BY <1>10, <3>1 DEF Goto, Leave
  <2>2. t = boot => Last(thread[t].todo) = "loadNext"
    BY <1>0, <1>1, LastStep
  <2>3. /\ thread' \in [Threads -> Calls] /\ ThreadsInv' /\ Others(t)
        /\ Busy(t)' => thread'[t].id = id
        /\ ~Busy(t)' => t # boot
        /\ thread'[t].pipe = NoPipe
    BY <1>0, <1>1, <2>1, <2>2, LeaveRest, QuietOK
       DEF Returns, Follows, Busy
  <2>4. id \in overlapped'
    BY <1>2, <1>5, <1>10 DEF Reports
  <2> QED
    BY <1>1, <1>2, <1>3, <1>4, <1>6, <1>7, <1>8, <2>3, <2>4, ChannelStep
       DEF Exists
<1> QED
  BY <1>9, <1>10 DEF BeginStart

(* A thread that had no pipeline takes one: no reference is lost.           *)
LEMMA NothingReleased ==
    ASSUME TypeOK, PipesInv, NEW t \in Threads, Others(t),
           thread[t].pipe = NoPipe, pipes' = pipes,
           \A x \in DOMAIN channels_ :
               \/ /\ x \in DOMAIN channels_'
                  /\ channels_'[x].pipe = channels_[x].pipe
               \/ thread'[t].pipe = channels_[x].pipe /\ thread'[t].id = x,
           NEW p \in PipeIds
    PROVE  pipes'[p] = IF InUse(p)' THEN pipes[p] ELSE FreshPipe
<1>1. ASSUME InUse(p) PROVE InUse(p)'
  <2>1. PICK x \in Ids \union {0} : Holds(p, x)
    BY <1>1 DEF InUse
  <2>2. p # NoPipe
    BY ChannelManagerAssumption
  <2>3. Holds(p, x)'
    BY <2>1, <2>2 DEF Holds, Exists, Others
  <2> QED
    BY <2>1, <2>3 DEF InUse
<1>2. ~InUse(p) => pipes[p] = FreshPipe
  BY DEF PipesInv
<1> QED
  BY <1>1, <1>2

(* StopChannel called by a recovery.                                        *)
LEMMA BeginStopKeeps ==
    ASSUME ManagerInv, NEW t \in Threads, BeginStop(t), UNCHANGED events,
           NEW id, id = thread[t].id
    PROVE  ManagerInv'
<1>0. /\ TypeOK /\ ThreadsInv /\ At(t, "beginStop")
      /\ "beginStop" \notin DeleteSteps /\ "beginStop" \in GotoSteps
  BY DEF ManagerInv, BeginStop, DeleteSteps, GotoSteps
<1>1. /\ Busy(t) /\ Here(t) = "beginStop" /\ id \in Ids /\ t # boot
      /\ pipes \in [PipeIds -> PipeStates] /\ ChannelsOK(channels_)
      /\ thread[t].pipe = NoPipe /\ Last(thread[t].todo) # "deleteRow"
  BY <1>0, AtStep DEF TypeOK, PipeStates, ChannelsOK, BareSteps, LoadSteps
<1>2. UNCHANGED <<next_channel_id_, pipes, resources, rows, registered,
                  unrestored, loading, aborted, overlapped, deleted>>
  BY DEF BeginStop
<1>3. /\ events' \in 0..MaxEvents /\ aborted' \in BOOLEAN
      /\ aborted' => overlapped' # {}
  BY <1>0, <1>2 DEF ManagerInv, PhaseInv, TypeOK
<1>4. id \notin overlapped => Exists(id) /\ id \notin deleted /\ AtRest(id)
  BY <1>0, <1>1, OwnCall DEF CallPhase
<1>5. CASE /\ Reports(id, "kRunning") /\ SetState(id, "kStopping")
           /\ Call(t, id, channels_[id].pipe, StopSteps \o Rest(t))
  <2>1. PICK pipe : pipe = channels_[id].pipe
    OBVIOUS
  <2>2. pipe \in PipeIds /\ Exists(id)
    BY <1>1, <1>5, <2>1 DEF ChannelsOK, Exists, Reports
  <2>3. /\ thread' \in [Threads -> Calls] /\ ThreadsInv' /\ Others(t)
        /\ Busy(t)' /\ Here(t)' = "drain" /\ thread'[t].id = id
        /\ thread'[t].pipe = pipe /\ Last(thread'[t].todo) # "deleteRow"
    BY <1>0, <1>5, <2>1, <2>2, StopCalled DEF Enters
  <2>4. /\ ChannelsOK(channels_') /\ DOMAIN channels_' = DOMAIN channels_
        /\ \A x \in DOMAIN channels_ :
              /\ channels_'[x].pipe = channels_[x].pipe
              /\ x # id => channels_'[x] = channels_[x]
    BY <1>1, <1>5, SetStateEffect DEF States
  <2>5. /\ pipes' \in [PipeIds -> PipeStates]
        /\ \A p \in PipeIds :
              pipes'[p] = IF InUse(p)' THEN pipes[p] ELSE FreshPipe
    BY <1>0, <1>1, <1>2, <2>3, <2>4, NothingReleased DEF ManagerInv
  <2>6. SetsFor(id) /\ Kept(id) /\ resources' \subseteq resources
    BY <1>1, <1>2, <2>2, SetsLeft
  <2>7. ASSUME id \notin overlapped' PROVE Local(t, id)'
    <3>1. /\ Exists(id)' /\ id \notin deleted' /\ channels_'[id].pipe = pipe
      BY <1>2, <1>4, <2>1, <2>4, <2>7 DEF Exists
    <3>2. CallPhase(t, id)'
      BY <2>3, <3>1 DEF CallPhase, PipeSteps, RunningAt, StoppedAt
    <3> QED
      BY <2>3, <3>1, <3>2 DEF Local, Phase
  <2>8. Holds(thread'[t].pipe, id) /\ Holds(channels_'[id].pipe, id)
    BY <2>1, <2>2, <2>3, <2>4 DEF Holds, Exists
  <2>9. Concerns(t, id)
    BY <1>1, <1>2 DEF Concerns
  <2> QED
    BY <1>1, <1>2, <1>3, <2>3, <2>4, <2>5, <2>6, <2>7, <2>8, <2>9,
       ChannelStep DEF Exists
<1>6. CASE ~Reports(id, "kRunning") /\ Goto(t, Rest(t)) /\ UNCHANGED channels_
  <2>1. /\ thread' \in [Threads -> Calls] /\ ThreadsInv' /\ Others(t)
        /\ Busy(t)' /\ Here(t)' = "beginStart"
        /\ thread'[t].pipe = thread[t].pipe /\ thread'[t].id = id
        /\ Last(thread'[t].todo) # "deleteRow"
    BY <1>0, <1>1, <1>6, GotoStep DEF After
  <2>2. SetsFor(id) /\ Kept(id) /\ resources' \subseteq resources
    BY <1>1, <1>2, <1>6, SetsLeft DEF Exists
  <2>3. ASSUME id \notin overlapped PROVE Local(t, id)'
    <3>1. /\ Exists(id) /\ ~Runs(id) /\ id \notin registered
          /\ channels_[id].state \notin {"kRunning", "kStopping"}
      BY <1>4, <1>6, <2>3 DEF AtRest, Reports
    <3>2. /\ Exists(id)' /\ ~Runs(id)' /\ id \notin registered'
          /\ channels_'[id].state \notin {"kRunning", "kStopping"}
          /\ id \notin deleted'
      BY <1>2, <1>4, <1>6, <2>3, <3>1 DEF Exists, Runs
    <3>3. CallPhase(t, id)'
      BY <2>1, <3>2 DEF CallPhase, PipeSteps, RunningAt, StoppedAt
    <3> QED
      BY <2>1, <3>2, <3>3 DEF Local, Phase
  <2>4. pipes' \in [PipeIds -> PipeStates]
    BY <1>1, <1>2
  <2> QED
    BY <1>1, <1>2, <1>3, <1>6, <2>1, <2>2, <2>3, <2>4, KeepingStep
<1> QED
  BY <1>5, <1>6 DEF BeginStop
-----------------------------------------------------------------------------
(* The calls that begin.                                                    *)

(* A caller finds the channel between calls, unless it makes an overlap.    *)
LEMMA RestingChannel ==
    ASSUME ManagerInv, NEW t \in Threads, Idle(t), NEW id \in Ids, Exists(id),
           NoteOverlap(t, id), id \notin overlapped'
    PROVE  AtRest(id) /\ id \notin deleted
<1>1. Concerns(t, id) /\ ~Busy(t)
  BY DEF Concerns, Idle, Busy
<1>2. id \notin overlapped
  BY <1>1, OverlapGrows
<1>3. ChannelOK(id)
  BY <1>2 DEF ManagerInv, PhaseInv
<1>4. \A u \in Threads : ~(Busy(u) /\ thread[u].id = id)
  <2> SUFFICES ASSUME NEW u \in Threads, Busy(u), thread[u].id = id, u # t
               PROVE  FALSE
    BY <1>1
  <2>1. WorkingOn(u, id)
    BY DEF WorkingOn, Busy
  <2> QED
    BY <1>1, <2>1, Alone DEF ManagerInv
<1> QED
  BY <1>3, <1>4 DEF ChannelOK, Gone

(* What a call for a channel does under its first lock.                     *)
LEMMA CallBegins ==
    ASSUME ManagerInv, NEW t \in Callers, Idle(t), NEW id \in Ids, Exists(id),
           NoteOverlap(t, id), NEW p, p = channels_[id].pipe \/ p = NoPipe,
           NEW s, Flow(s), s # <<>>, Last(s) \notin {"loadAll", "loadNext"},
           Head(s) \in PipeSteps => p # NoPipe,
           Head(s) \in BareSteps => p = NoPipe,
           Call(t, id, p, s), events' \in 0..MaxEvents,
           UNCHANGED <<next_channel_id_, pipes, resources, rows, registered,
                       unrestored, loading, aborted, deleted>>,
           ChannelsOK(channels_'),
           \A x \in Ids \ {id} : /\ Exists(x)' <=> Exists(x)
                                 /\ Exists(x) => channels_'[x] = channels_[x],
           \/ Exists(id)' /\ channels_'[id].pipe = channels_[id].pipe
           \/ ~Exists(id)' /\ p = channels_[id].pipe,
           /\ AtRest(id) /\ Enters(t, id, p, Head(s))
           /\ Last(thread'[t].todo) = Last(s)
           => Phase(t, id)'
    PROVE  ManagerInv'
<1>1. /\ TypeOK /\ ThreadsInv /\ PipesInv /\ t \in Threads /\ t # boot
      /\ ~Busy(t)
  BY ChannelManagerAssumption DEF ManagerInv, Threads, Idle, Busy
<1>2. thread[t].pipe = NoPipe
  BY <1>1, QuietOK DEF ThreadsInv, ThreadOK, Busy
<1>3. p \in PipeIds \union {NoPipe} /\ channels_[id].pipe \in PipeIds
  BY <1>1 DEF TypeOK, Exists
<1>4. /\ thread' \in [Threads -> Calls] /\ ThreadsInv' /\ Others(t)
      /\ Enters(t, id, p, Head(s)) /\ Last(thread'[t].todo) = Last(s)
  BY <1>1, <1>3, Called
<1>5. Busy(t)' /\ thread'[t].id = id /\ thread'[t].pipe = p
  BY <1>4 DEF Enters
<1>6. Concerns(t, id)
  BY <1>1 DEF Concerns
<1>7. pipes' \in [PipeIds -> PipeStates]
  BY <1>1 DEF TypeOK, PipeStates
<1>8. \A q \in PipeIds : pipes'[q] = IF InUse(q)' THEN pipes[q] ELSE FreshPipe
  <2>1. \A x \in DOMAIN channels_ :
           \/ /\ x \in DOMAIN channels_'
              /\ channels_'[x].pipe = channels_[x].pipe
           \/ thread'[t].pipe = channels_[x].pipe /\ thread'[t].id = x
    BY <1>1, <1>5 DEF TypeOK, Exists
  <2> QED
    BY <1>1, <1>2, <1>4, <2>1, NothingReleased
<1>9. SetsFor(id) /\ Kept(id) /\ resources' \subseteq resources
  BY <1>6, OverlapGrows, SetsLeft
<1>10. aborted' \in BOOLEAN /\ (aborted' => overlapped' # {})
  BY <1>1, <1>6, OverlapGrows DEF ManagerInv, PhaseInv, TypeOK
<1>11. id \notin overlapped' => Local(t, id)'
  BY <1>1, <1>4, <1>5, RestingChannel DEF Local
<1>12. Exists(id)' => Holds(channels_'[id].pipe, id)
  BY DEF Holds
<1>13. thread'[t].pipe = NoPipe \/ Holds(thread'[t].pipe, id)
  BY <1>5 DEF Holds
<1> QED
  BY <1>1, <1>4, <1>5, <1>6, <1>7, <1>8, <1>9, <1>10, <1>11, <1>12, <1>13,
     ChannelStep

(* DeleteChannel takes the entry out of the map first.                      *)
LEMMA DeleteChannelKeeps ==
    ASSUME ManagerInv, NEW t \in Callers, NEW id \in Ids,
           DeleteChannel(t, id), events' \in 0..MaxEvents
    PROVE  ManagerInv'
<1> DEFINE s == (IF Reports(id, "kRunning") THEN <<"drain", "joined">> ELSE <<>>)
                    \o <<"unregister", "release", "deleteRow">>
<1>1. PICK p : p = channels_[id].pipe
  OBVIOUS
<1>2. PICK w : w = s
  OBVIOUS
<1>3. /\ Flow(w) /\ w # <<>> /\ Last(w) = "deleteRow"
      /\ Head(w) \in {"drain", "unregister"}
  <2>1. Reports(id, "kRunning") \in BOOLEAN
    BY DEF Reports, Exists
  <2> QED
    BY <1>2, <2>1, FlowOfDelete
<1>4. /\ Idle(t) /\ Exists(id) /\ NoteOverlap(t, id) /\ Call(t, id, p, w)
      /\ channels_' = Drop(channels_, id)
      /\ UNCHANGED <<next_channel_id_, pipes, resources, rows, registered,
                     unrestored, loading, aborted, deleted>>
  BY <1>1, <1>2 DEF DeleteChannel
<1> HIDE DEF s
<1>5. ChannelsOK(channels_) /\ p \in PipeIds
  BY <1>1, <1>4 DEF ManagerInv, TypeOK, ChannelsOK, Exists
<1>6. /\ ChannelsOK(channels_') /\ ~Exists(id)'
      /\ \A x \in Ids \ {id} : /\ Exists(x)' <=> Exists(x)
                               /\ Exists(x) => channels_'[x] = channels_[x]
  BY <1>4, <1>5 DEF Drop, ChannelsOK, Exists
<1>7. Enters(t, id, p, Head(w)) /\ Last(thread'[t].todo) = Last(w)
         => Phase(t, id)'
  BY <1>3, <1>6 DEF Enters, Phase, DeletePhase
<1>8. p # NoPipe /\ Head(w) \notin BareSteps
  BY <1>3, <1>5, ChannelManagerAssumption DEF BareSteps
<1> QED
  BY <1>1, <1>3, <1>4, <1>6, <1>7, <1>8, CallBegins

(* StartChannel begins with the pipeline it found in the map.               *)
LEMMA StartChannelKeeps ==
    ASSUME ManagerInv, NEW t \in Callers, NEW id \in Ids,
           StartChannel(t, id), events' \in 0..MaxEvents
    PROVE  ManagerInv'
<1>1. PICK p : p = channels_[id].pipe
  OBVIOUS
<1>2. /\ Idle(t) /\ Exists(id) /\ ~Reports(id, "kRunning")
      /\ NoteOverlap(t, id) /\ Call(t, id, p, StartSteps)
      /\ UNCHANGED <<channels_, next_channel_id_, pipes, resources, rows,
                     registered, unrestored, loading, aborted, deleted>>
  BY <1>1 DEF StartChannel
<1>3. ChannelsOK(channels_') /\ p \in PipeIds
  BY <1>1, <1>2 DEF ManagerInv, TypeOK, ChannelsOK, Exists
<1>4. \A x : /\ Exists(x)' <=> Exists(x)
             /\ Exists(x) => channels_'[x] = channels_[x]
  BY <1>2 DEF Exists
<1>5. ASSUME AtRest(id), Enters(t, id, p, Head(StartSteps)),
             Last(thread'[t].todo) = Last(StartSteps)
      PROVE  Phase(t, id)'
  <2>1. /\ Exists(id)' /\ channels_'[id].pipe = p /\ id \notin registered'
        /\ channels_'[id].state \notin {"kRunning", "kStopping"} /\ ~Runs(id)'
    BY <1>1, <1>2, <1>5 DEF AtRest, Reports, Runs, Exists
  <2>2. Here(t)' = "initialize" /\ thread'[t].pipe = p
        /\ Last(thread'[t].todo) # "deleteRow"
    BY <1>5, FlowOfStart DEF Enters
  <2>3. CallPhase(t, id)'
    BY <2>1, <2>2 DEF CallPhase, PipeSteps, RunningAt, StoppedAt
  <2> QED
    BY <2>2, <2>3 DEF Phase
<1>6. /\ p # NoPipe /\ Head(StartSteps) \notin BareSteps
      /\ Last(StartSteps) \notin {"loadAll", "loadNext"}
  BY <1>3, FlowOfStart, ChannelManagerAssumption DEF BareSteps
<1> QED
  BY <1>1, <1>2, <1>3, <1>4, <1>5, <1>6, FlowOfStart, CallBegins

(* StopChannel records kStopping and begins.                                *)
LEMMA StopChannelKeeps ==
    ASSUME ManagerInv, NEW t \in Callers, NEW id \in Ids,
           StopChannel(t, id), events' \in 0..MaxEvents
    PROVE  ManagerInv'
<1>1. PICK p : p = channels_[id].pipe
  OBVIOUS
<1>2. /\ Idle(t) /\ Exists(id) /\ Reports(id, "kRunning")
      /\ NoteOverlap(t, id) /\ Call(t, id, p, StopSteps)
      /\ SetState(id, "kStopping")
      /\ UNCHANGED <<next_channel_id_, pipes, resources, rows, registered,
                     unrestored, loading, aborted, deleted>>
  BY <1>1 DEF StopChannel, Reports
<1>3. ChannelsOK(channels_) /\ p \in PipeIds
  BY <1>1, <1>2 DEF ManagerInv, TypeOK, ChannelsOK, Exists
<1>4. /\ ChannelsOK(channels_') /\ DOMAIN channels_' = DOMAIN channels_
      /\ \A x \in DOMAIN channels_ :
            /\ channels_'[x].pipe = channels_[x].pipe
            /\ x # id => channels_'[x] = channels_[x]
  BY <1>2, <1>3, SetStateEffect DEF States
<1>5. ASSUME Enters(t, id, p, Head(StopSteps)),
             Last(thread'[t].todo) = Last(StopSteps)
      PROVE  Phase(t, id)'
  <2>1. Exists(id)' /\ channels_'[id].pipe = p
    BY <1>1, <1>2, <1>4 DEF Exists
  <2>2. Here(t)' = "drain" /\ thread'[t].pipe = p
        /\ Last(thread'[t].todo) # "deleteRow"
    BY <1>5, FlowOfStop DEF Enters
  <2>3. CallPhase(t, id)'
    BY <2>1, <2>2 DEF CallPhase, PipeSteps, RunningAt, StoppedAt
  <2> QED
    BY <2>2, <2>3 DEF Phase
<1>6. /\ p # NoPipe /\ Head(StopSteps) \notin BareSteps
      /\ Last(StopSteps) \notin {"loadAll", "loadNext"}
  BY <1>3, FlowOfStop, ChannelManagerAssumption DEF BareSteps
<1> QED
  BY <1>1, <1>2, <1>4, <1>5, <1>6, FlowOfStop, CallBegins DEF Exists

(* EditChannel begins.                                                      *)
LEMMA EditChannelKeeps ==
    ASSUME ManagerInv, NEW t \in Callers, NEW id \in Ids,
           EditChannel(t, id), events' \in 0..MaxEvents
    PROVE  ManagerInv'
<1> DEFINE s == (IF Reports(id, "kRunning") THEN StopSteps ELSE <<>>)
                    \o <<"build", "install", "saveRow">>
                    \o (IF Reports(id, "kRunning") THEN <<"beginStart">>
                                                   ELSE <<>>)
<1>1. PICK p : p = channels_[id].pipe
  OBVIOUS
<1>2. PICK w : w = s
  OBVIOUS
<1>3. /\ Flow(w) /\ w # <<>> /\ Last(w) \in {"saveRow", "beginStart"}
      /\ Head(w) = IF Reports(id, "kRunning") THEN "drain" ELSE "build"
  <2>1. Reports(id, "kRunning") \in BOOLEAN
    BY DEF Reports, Exists
  <2> QED
    BY <1>2, <2>1, FlowOfEdit
<1>4. /\ Idle(t) /\ Exists(id) /\ NoteOverlap(t, id) /\ Call(t, id, p, w)
      /\ UNCHANGED <<channels_, next_channel_id_, pipes, resources, rows,
                     registered, unrestored, loading, aborted, deleted>>
  BY <1>1, <1>2 DEF EditChannel
<1> HIDE DEF s
<1>5. ChannelsOK(channels_') /\ p \in PipeIds
  BY <1>1, <1>4 DEF ManagerInv, TypeOK, ChannelsOK, Exists
<1>6. \A x : /\ Exists(x)' <=> Exists(x)
             /\ Exists(x) => channels_'[x] = channels_[x]
  BY <1>4 DEF Exists
<1>7. ASSUME AtRest(id), Enters(t, id, p, Head(w)),
             Last(thread'[t].todo) = Last(w)
      PROVE  Phase(t, id)'
  <2>1. /\ Exists(id)' /\ channels_'[id].pipe = p
        /\ ~Reports(id, "kRunning") =>
              /\ id \notin registered' /\ ~Runs(id)'
              /\ channels_'[id].state \notin {"kRunning", "kStopping"}
    BY <1>1, <1>4, <1>7 DEF AtRest, Reports, Runs, Exists
  <2>2. /\ thread'[t].pipe = p /\ Last(thread'[t].todo) # "deleteRow"
        /\ Here(t)' = IF Reports(id, "kRunning") THEN "drain" ELSE "build"
    BY <1>3, <1>7 DEF Enters
  <2>3. CallPhase(t, id)'
    BY <2>1, <2>2 DEF CallPhase, PipeSteps, RunningAt, StoppedAt
  <2> QED
    BY <2>2, <2>3 DEF Phase
<1>8. /\ p # NoPipe /\ Head(w) \notin BareSteps
      /\ Last(w) \notin {"loadAll", "loadNext"}
  BY <1>3, <1>5, ChannelManagerAssumption DEF BareSteps
<1> QED
  BY <1>1, <1>3, <1>4, <1>5, <1>6, <1>7, <1>8, CallBegins

(* A recovery begins without a pipeline of its own.                         *)
LEMMA RecoverKeeps ==
    ASSUME ManagerInv, NEW t \in Callers, NEW id \in Ids,
           Recover(t, id), events' \in 0..MaxEvents
    PROVE  ManagerInv'
<1> DEFINE s == <<"beginStop", "beginStart">>
<1>1. /\ Idle(t) /\ Exists(id) /\ NoteOverlap(t, id)
      /\ Call(t, id, NoPipe, s)
      /\ UNCHANGED <<channels_, next_channel_id_, pipes, resources, rows,
                     registered, unrestored, loading, aborted, deleted>>
  BY DEF Recover, Reports
<1>2. Flow(s) /\ s # <<>> /\ Last(s) = "beginStart" /\ Head(s) = "beginStop"
  BY FlowOfRecover
<1> HIDE DEF s
<1>3. ChannelsOK(channels_')
  BY <1>1 DEF ManagerInv, TypeOK, ChannelsOK, Exists
<1>4. \A x : /\ Exists(x)' <=> Exists(x)
             /\ Exists(x) => channels_'[x] = channels_[x]
  BY <1>1 DEF Exists
<1>5. ASSUME AtRest(id), Enters(t, id, NoPipe, Head(s)),
             Last(thread'[t].todo) = Last(s)
      PROVE  Phase(t, id)'
  <2>1. Exists(id)' /\ AtRest(id)'
    BY <1>1, <1>5 DEF AtRest, Reports, Runs, Exists
  <2>2. Here(t)' = "beginStop" /\ Last(thread'[t].todo) # "deleteRow"
    BY <1>2, <1>5 DEF Enters
  <2>3. CallPhase(t, id)'
    BY <2>1, <2>2 DEF CallPhase, PipeSteps, RunningAt, StoppedAt
  <2> QED
    BY <2>2, <2>3 DEF Phase
<1>6. Head(s) \notin PipeSteps /\ Last(s) \notin {"loadAll", "loadNext"}
  BY <1>2 DEF PipeSteps
<1> QED
  BY <1>1, <1>2, <1>3, <1>4, <1>5, <1>6, CallBegins
-----------------------------------------------------------------------------
(* New channels: CreateChannel and LoadChannels.                            *)

(* The entry holds a pipeline that nobody had.                              *)
LEMMA PipeAdded ==
    ASSUME ManagerInv, NEW id \in Ids, ~Exists(id), NEW new,
           new = NewPipe, pipes' = pipes,
           channels_' = Put(channels_, id, [state |-> "kCreated",
                                            pipe |-> new]),
           NEW t \in Threads, Others(t), thread'[t].pipe = thread[t].pipe,
           thread[t].pipe = NoPipe \/ thread'[t].id = thread[t].id
    PROVE  /\ PipesInv' /\ \A x : PipesUntouched(x)
           /\ ChannelsOK(channels_')
           /\ DOMAIN channels_' = DOMAIN channels_ \union {id}
           /\ \A x \in DOMAIN channels_ : channels_'[x] = channels_[x]
           /\ channels_'[id] = [state |-> "kCreated", pipe |-> new]
           /\ ~Runs(id)'
<1>0. TypeOK /\ PipesInv
  BY DEF ManagerInv
<1>1. new \in PipeIds /\ ~InUse(new)
  BY <1>0, NewPipeIsFree
<1>2. /\ DOMAIN channels_' = DOMAIN channels_ \union {id}
      /\ \A x \in DOMAIN channels_ : channels_'[x] = channels_[x]
      /\ channels_'[id] = [state |-> "kCreated", pipe |-> new]
  BY DEF Put, Exists
<1>3. ChannelsOK(channels_')
  <2>1. [state |-> "kCreated", pipe |-> new] \in [state : States, pipe : PipeIds]
    BY <1>1 DEF States
  <2>2. ChannelsOK(channels_)
    BY <1>0 DEF TypeOK, ChannelsOK
  <2> QED
    BY <1>2, <2>1, <2>2 DEF ChannelsOK
<1>4. ASSUME NEW p \in PipeIds, NEW x
      PROVE  Holds(p, x)' <=> Holds(p, x) \/ (p = new /\ x = id)
  <2>1. p # NoPipe
    BY ChannelManagerAssumption
  <2>2. (Exists(x)' /\ channels_'[x].pipe = p) <=>
           \/ Exists(x) /\ channels_[x].pipe = p
           \/ p = new /\ x = id
    BY <1>2 DEF Exists
  <2>3. \A u \in Threads : (thread'[u].pipe = p /\ thread'[u].id = x) <=>
                              (thread[u].pipe = p /\ thread[u].id = x)
    BY <2>1 DEF Others
  <2> QED
    BY <2>2, <2>3 DEF Holds
<1>5. PipesInv'
  <2>1. ASSUME NEW p \in PipeIds, NEW i \in Ids \union {0},
               NEW j \in Ids \union {0}, Holds(p, i)', Holds(p, j)'
        PROVE  i = j
    BY <1>0, <1>1, <1>4, <2>1 DEF PipesInv, InUse
  <2>2. ASSUME NEW p \in PipeIds, ~InUse(p)' PROVE pipes'[p] = FreshPipe
    <3>1. ~InUse(p)
      BY <1>4, <2>2 DEF InUse
    <3> QED
      BY <1>0, <3>1 DEF PipesInv
  <2> QED
    BY <2>1, <2>2 DEF PipesInv
<1>6. ~Runs(id)'
  BY <1>0, <1>1, <1>2 DEF PipesInv, Runs, FreshPipe
<1> QED
  BY <1>2, <1>3, <1>5, <1>6 DEF PipesUntouched

(* The orchestrator builds a pipeline only while it has a slot.             *)
LEMMA SlotTaken ==
    ASSUME TypeOK, SlotsInv, NEW id, CanBuild,
           resources' = resources \union {id}
    PROVE  Cardinality(resources') <= kMaxChannels
<1>1. IsFiniteSet(resources)
  <2>1. IsFiniteSet(1..MaxId)
    BY ChannelManagerAssumption, FS_Interval
  <2> QED
    BY <2>1, FS_Subset DEF TypeOK, Ids
<1>2. Cardinality(resources) \in Nat /\ kMaxChannels \in Nat
  BY <1>1, FS_CardinalityType, ChannelManagerAssumption
<1>3. Cardinality(resources') = Cardinality(resources)
      \/ Cardinality(resources') = Cardinality(resources) + 1
  BY <1>1, FS_AddElement
<1> QED
  BY <1>2, <1>3 DEF CanBuild

(* The calls of the threads, and the loader, stay where they are.           *)
LEMMA ThreadsStay ==
    ASSUME ManagerInv, thread' = thread
    PROVE  ThreadsInv' /\ \A x : CallsUntouched(x)
<1>1. \A u \in Threads : ThreadOK(u, thread[u])'
  BY DEF ManagerInv, ThreadsInv, ThreadOK, Flow, After
<1> QED
  BY <1>1 DEF ThreadsInv, CallsUntouched, Busy

(* CreateChannel adds a channel, or loses an id to a failed build.          *)
LEMMA CreateChannelKeeps ==
    ASSUME ManagerInv, CreateChannel, events' \in 0..MaxEvents
    PROVE  ManagerInv'
<1>0. TypeOK
  BY DEF ManagerInv
<1>1. PICK id : id = next_channel_id_
  OBVIOUS
<1>2. /\ id \in Ids /\ next_channel_id_' = id + 1 /\ id \in Nat
      /\ UNCHANGED <<pipes, registered, thread, loading, aborted, overlapped,
                     deleted>>
  BY <1>0, <1>1, ChannelManagerAssumption DEF CreateChannel, Ids, TypeOK
<1>3. /\ id \notin DOMAIN channels_ /\ id \notin registered
      /\ id \notin deleted /\ \A t \in Threads : thread[t].id # id
      /\ \A n \in Ids \union {0} : n < id => n < id + 1
  BY <1>0, <1>1, <1>2, ChannelManagerAssumption
     DEF ManagerInv, IdsInv, IdsAreFresh, Ids
<1>4. ThreadsInv' /\ LoaderInv' /\ \A x : CallsUntouched(x)
  BY <1>2, ThreadsStay DEF ManagerInv, LoaderInv, Busy
<1>5. CASE /\ CanBuild
           /\ channels_' = Put(channels_, id, [state |-> "kCreated",
                                               pipe |-> NewPipe])
           /\ resources' = resources \union {id} /\ rows' = rows \union {id}
           /\ unrestored' = unrestored \ {id}
  <2>1. PICK new : new = NewPipe
    OBVIOUS
  <2>2. /\ PipesInv' /\ \A x : PipesUntouched(x)
        /\ ChannelsOK(channels_')
        /\ DOMAIN channels_' = DOMAIN channels_ \union {id}
        /\ \A x \in DOMAIN channels_ : channels_'[x] = channels_[x]
        /\ channels_'[id] = [state |-> "kCreated", pipe |-> new]
        /\ ~Runs(id)'
    <3>1. boot \in Threads /\ Others(boot)
      BY <1>2 DEF Others, Threads
    <3> QED
      BY <1>2, <1>3, <1>5, <2>1, <3>1, PipeAdded DEF Exists
  <2>3. TypeOK'
    BY <1>0, <1>2, <1>5, <2>2 DEF TypeOK, ChannelsOK
  <2>4. overlapped \subseteq overlapped'
    BY <1>2
  <2>5. Exclusive'
    BY <1>2, <2>4 DEF ManagerInv, Exclusive, WorkingOn
  <2>6. IdsInv'
    <3>1. /\ \A x \in DOMAIN channels_' \union (rows' \ unrestored') :
                x \in DOMAIN channels_ \union (rows \ unrestored) \/ x = id
          /\ \A x \in DOMAIN channels_ \union (rows \ unrestored)
                         \union deleted \union registered :
                x \in Ids /\ x < id
          /\ \A u \in Threads : thread[u].id \in Ids \union {0} /\ thread[u].id < id
      BY <1>0, <1>1, <1>5, <2>2
         DEF ManagerInv, TypeOK, IdsInv, IdsAreFresh
    <3>2. id < id + 1
      BY <1>2
    <3> QED
      BY <1>2, <1>3, <3>1, <3>2 DEF IdsInv, IdsAreFresh
  <2>7. SlotsInv' /\ RowsInv'
    BY <1>0, <1>2, <1>5, <2>2, <2>4, SlotTaken
       DEF ManagerInv, SlotsInv, RowsInv
  <2>8. ASSUME NEW x \in Ids \ overlapped' PROVE ChannelOK(x)'
    <3>1. CASE x = id
      <4>1. AtRest(x)'
        BY <1>2, <1>3, <2>2, <3>1 DEF AtRest, Reports, Exists
      <4> QED
        BY <1>2, <1>3, <3>1, <4>1 DEF ChannelOK
    <3>2. CASE x # id
      <4>1. Untouched(x)
        BY <1>2, <1>5, <2>2, <3>2 DEF Untouched, Exists
      <4>2. ChannelOK(x)
        BY <2>4, <2>8 DEF ManagerInv, PhaseInv
      <4> QED
        BY <1>0, <1>4, <2>2, <4>1, <4>2, ChannelStays DEF ManagerInv
    <3> QED
      BY <3>1, <3>2
  <2>9. PhaseInv'
    BY <1>2, <2>4, <2>8 DEF ManagerInv, PhaseInv
  <2> QED
    BY <1>4, <2>2, <2>3, <2>5, <2>6, <2>7, <2>9 DEF ManagerInv
<1>6. CASE UNCHANGED <<channels_, resources, rows, unrestored>>
  <2>1. TypeOK'
    BY <1>0, <1>2, <1>6 DEF TypeOK
  <2>2. IdsInv'
    <3>1. /\ \A x \in DOMAIN channels_ \union (rows \ unrestored)
                         \union deleted \union registered :
                x \in Ids /\ x < id
          /\ \A u \in Threads : thread[u].id \in Ids \union {0} /\ thread[u].id < id
      BY <1>0, <1>1 DEF ManagerInv, TypeOK, IdsInv, IdsAreFresh
    <3> QED
      BY <1>2, <1>3, <1>6, <3>1 DEF IdsInv, IdsAreFresh
  <2>3. PipesInv' /\ Exclusive' /\ SlotsInv' /\ RowsInv'
    BY <1>2, <1>6 DEF ManagerInv, PipesInv, InUse, Holds, Exists, Exclusive,
                      WorkingOn, SlotsInv, RowsInv
  <2>4. ASSUME NEW x \in Ids \ overlapped' PROVE ChannelOK(x)'
    <3>1. Untouched(x) /\ PipesUntouched(x)
      BY <1>2, <1>6 DEF Untouched, PipesUntouched, Exists
    <3> QED
      BY <1>0, <1>2, <1>4, <1>6, <2>4, <3>1, ChannelStays
         DEF ManagerInv, PhaseInv
  <2>5. PhaseInv'
    BY <1>2, <1>6, <2>4 DEF ManagerInv, PhaseInv
  <2> QED
    BY <1>4, <2>1, <2>2, <2>3, <2>5 DEF ManagerInv
<1> QED
  BY <1>1, <1>5, <1>6 DEF CreateChannel
(* Only the main thread is in LoadChannels, between two restores with no    *)
(* pipeline and with the channel it restored last at rest.                  *)
LEMMA LoaderAt ==
    ASSUME ManagerInv, NEW t \in Threads, NEW h, At(t, h),
           h \in {"loadAll", "loadNext"}, NEW o, o = thread[t].id
    PROVE  /\ t = boot /\ Busy(t) /\ thread[t].pipe = NoPipe
           /\ Last(thread[t].todo) = h /\ o \in Ids \union {0}
           /\ h = "loadAll" => o = 0
           /\ o \in Ids \ overlapped => AtRest(o) /\ Exists(o)
<1>1. /\ Busy(t) /\ Here(t) = h /\ thread[t] \in Calls
      /\ thread[t].pipe = NoPipe /\ Last(thread[t].todo) # "deleteRow"
  BY AtStep DEF ManagerInv, BareSteps, DeleteSteps
<1>2. ThreadOK(t, thread[t]) /\ Flow(thread[t].todo)
  BY DEF ManagerInv, ThreadsInv, ThreadOK
<1>3. Last(thread[t].todo) = h
  <2>1. Tail(thread[t].todo) = <<>>
    BY <1>1, <1>2, FlowTail DEF Busy, Here, After
  <2> QED
    BY <1>1, <1>2, <2>1, FlowTail DEF Busy, Here
<1>4. t = boot /\ (h = "loadAll" => o = 0)
  BY <1>1, <1>2, <1>3 DEF ThreadOK, Busy, Here
<1>5. o \in Ids \ overlapped => AtRest(o) /\ Exists(o)
  <2> SUFFICES ASSUME o \in Ids \ overlapped PROVE AtRest(o) /\ Exists(o)
    OBVIOUS
  <2>1. h = "loadNext"
    BY <1>4 DEF Ids
  <2> QED
    BY <1>1, <2>1, OwnPhase DEF Phase, CallPhase
<1> QED
  BY <1>1, <1>3, <1>4, <1>5 DEF Calls

(* LoadChannels reads the rows; it is then at work on all of them.          *)
LEMMA LoadAllKeeps ==
    ASSUME ManagerInv, NEW t \in Threads, LoadAll(t), UNCHANGED events
    PROVE  ManagerInv'
<1>0. TypeOK /\ ThreadsInv
  BY DEF ManagerInv
<1>1. /\ At(t, "loadAll") /\ loading' = rows /\ Goto(t, <<"loadNext">>)
      /\ overlapped' = overlapped \union
                {id \in rows : \E u \in Callers : WorkingOn(u, id)}
      /\ UNCHANGED <<channels_, next_channel_id_, pipes, resources, rows,
                     unrestored, registered, aborted, deleted, events>>
  BY DEF LoadAll
<1>2. /\ t = boot /\ Busy(t) /\ thread[t].pipe = NoPipe /\ thread[t].id = 0
  BY <1>1, LoaderAt
<1> DEFINE q == [todo |-> <<"loadNext">>, id |-> 0, pipe |-> NoPipe]
<1>3. q.todo = <<"loadNext">> /\ q.id = 0 /\ q.pipe = NoPipe
  OBVIOUS
<1>4. thread' = [thread EXCEPT ![t] = q]
  <2>1. [thread[t] EXCEPT !.todo = <<"loadNext">>] = q
    BY <1>0, <1>2 DEF TypeOK
  <2> QED
    BY <1>1, <2>1 DEF Goto
<1>5. ThreadOK(t, q)
  <2>1. q \in Calls
    BY FlowOfLoad DEF Calls, Flow
  <2> HIDE DEF q
  <2> QED
    BY <1>2, <1>3, <2>1, FlowOfLoad DEF ThreadOK, PipeSteps
<1> HIDE DEF q
<1>6. /\ thread' \in [Threads -> Calls] /\ ThreadsInv' /\ Others(t)
      /\ thread'[t] = q
  BY <1>0, <1>4, <1>5, ThreadMoves
<1>7. /\ Busy(t)' /\ Last(thread'[t].todo) = "loadNext"
      /\ thread'[t].id = 0 /\ thread'[t].pipe = NoPipe
  BY <1>3, <1>6, FlowOfLoad DEF Busy
<1>8. TypeOK'
  BY <1>0, <1>1, <1>6 DEF TypeOK, Calls
<1>9. LoaderInv'
  BY <1>2, <1>7 DEF LoaderInv
<1>10. overlapped \subseteq overlapped'
  BY <1>1
<1>11. Exclusive'
  <2> SUFFICES ASSUME NEW u \in Threads, NEW v \in Threads, NEW x \in Ids,
                      u # v, WorkingOn(u, x)', WorkingOn(v, x)',
                      x \notin overlapped'
               PROVE  FALSE
    BY DEF Exclusive
  <2>1. ASSUME NEW w \in Threads \ {boot} PROVE WorkingOn(w, x)' <=> WorkingOn(w, x)
    BY <1>2, <1>6, <2>1 DEF WorkingOn, Others
  <2>2. ASSUME WorkingOn(boot, x)' PROVE x \in rows
    BY <1>1, <1>2, <1>7, <2>2 DEF WorkingOn, Ids
  <2>3. \A w \in Threads \ {boot} : w \in Callers
    BY DEF Threads
  <2>4. CASE u # boot /\ v # boot
    BY <1>10, <2>1, <2>4 DEF ManagerInv, Exclusive
  <2>5. CASE u = boot \/ v = boot
    BY <1>1, <2>1, <2>2, <2>3, <2>5
  <2> QED
    BY <2>4, <2>5
<1>12. PipesInv'
  <2>1. ASSUME NEW p \in PipeIds
        PROVE  /\ \A x : Holds(p, x)' <=> Holds(p, x)
               /\ InUse(p)' <=> InUse(p)
    BY <1>1, <1>2, <1>6, <1>7, SameHolds
  <2> QED
    BY <1>1, <2>1 DEF ManagerInv, PipesInv
<1>13. IdsInv' /\ SlotsInv' /\ RowsInv'
  <2>1. \A u \in Threads : thread'[u].id = thread[u].id
    BY <1>2, <1>6, <1>7 DEF Others
  <2> QED
    BY <1>1, <1>10, <2>1
       DEF ManagerInv, IdsInv, IdsAreFresh, SlotsInv, RowsInv
<1>14. ASSUME NEW x \in Ids \ overlapped' PROVE ChannelOK(x)'
  <2>1. Untouched(x) /\ PipesUntouched(x)
    BY <1>1 DEF Untouched, PipesUntouched, Exists
  <2>2. CallsUntouched(x)
    BY <1>2, <1>6, <1>7 DEF CallsUntouched, Others, Busy, Ids
  <2>3. ChannelOK(x)
    BY <1>10, <1>14 DEF ManagerInv, PhaseInv
  <2> QED
    BY <1>0, <2>1, <2>2, <2>3, ChannelStays
<1>15. PhaseInv'
  BY <1>1, <1>10, <1>14 DEF ManagerInv, PhaseInv
<1> QED
  BY <1>6, <1>8, <1>9, <1>11, <1>12, <1>13, <1>15 DEF ManagerInv

(* The main thread leaves the channel it restored last as it is.            *)
LEMMA RestoredStays ==
    ASSUME ManagerInv, NEW t \in Threads, Busy(t), Others(t),
           NEW o \in Ids \ overlapped, o = thread[t].id, AtRest(o),
           Busy(t)' => thread'[t].id # o, Untouched(o), PipesUntouched(o)
    PROVE  ChannelOK(o)'
<1>1. ChannelOK(o)
  BY DEF ManagerInv, PhaseInv
<1>2. ASSUME NEW u \in Threads, Busy(u)', thread'[u].id = o PROVE FALSE
  <2>1. u # t /\ thread'[u] = thread[u]
    BY <1>2 DEF Others
  <2>2. WorkingOn(u, o) /\ WorkingOn(t, o)
    BY <1>2, <2>1 DEF WorkingOn, Busy
  <2> QED
    BY <2>1, <2>2 DEF ManagerInv, Exclusive
<1>3. AtRest(o)'
  BY AtRestStays DEF ManagerInv
<1>4. o \in deleted' => Gone(o)'
  BY <1>1 DEF ChannelOK, Gone, Untouched
<1> QED
  BY <1>2, <1>3, <1>4 DEF ChannelOK

(* LoadChannels returns.                                                    *)
LEMMA LoadDoneKeeps ==
    ASSUME ManagerInv, NEW t \in Threads, LoadDone(t), UNCHANGED events,
           NEW o, o = thread[t].id
    PROVE  ManagerInv'
<1>0. TypeOK /\ ThreadsInv
  BY DEF ManagerInv
<1>1. /\ At(t, "loadNext") /\ loading = {} /\ Goto(t, <<>>)
      /\ UNCHANGED <<channels_, next_channel_id_, pipes, resources, rows,
                     registered, unrestored, loading, aborted, overlapped,
                     deleted, events>>
  BY DEF LoadDone
<1>2. /\ t = boot /\ Busy(t) /\ thread[t].pipe = NoPipe
      /\ o \in Ids \ overlapped => AtRest(o)
  BY <1>1, LoaderAt
<1>3. /\ thread' \in [Threads -> Calls] /\ ThreadsInv' /\ Others(t)
      /\ thread'[t].id = 0 /\ thread'[t].pipe = NoPipe /\ ~Busy(t)'
  BY <1>0, <1>1, Abandons, QuietOK DEF Busy
<1>4. TypeOK' /\ LoaderInv'
  BY <1>0, <1>1, <1>3 DEF TypeOK, Calls, LoaderInv
<1>5. Exclusive'
  <2>1. \A u \in Threads, x \in Ids : WorkingOn(u, x)' => WorkingOn(u, x)
    BY <1>1, <1>3 DEF WorkingOn, Others, Busy
  <2> QED
    BY <1>1, <2>1 DEF ManagerInv, Exclusive
<1>6. PipesInv'
  <2>1. ASSUME NEW p \in PipeIds
        PROVE  /\ \A x : Holds(p, x)' <=> Holds(p, x)
               /\ InUse(p)' <=> InUse(p)
    BY <1>1, <1>2, <1>3, SameHolds
  <2> QED
    BY <1>1, <2>1 DEF ManagerInv, PipesInv
<1>7. IdsInv' /\ SlotsInv' /\ RowsInv'
  <2>1. next_channel_id_ \in Nat \ {0}
    BY <1>0 DEF TypeOK
  <2>2. \A u \in Threads : thread'[u].id < next_channel_id_
    BY <1>3, <2>1 DEF Others, ManagerInv, IdsInv
  <2> QED
    BY <1>1, <2>2
       DEF ManagerInv, IdsInv, IdsAreFresh, SlotsInv, RowsInv
<1>8. ASSUME NEW x \in Ids \ overlapped' PROVE ChannelOK(x)'
  <2>1. Untouched(x) /\ PipesUntouched(x)
    BY <1>1 DEF Untouched, PipesUntouched, Exists
  <2>2. CASE x = o
    BY <1>1, <1>2, <1>3, <1>8, <2>1, <2>2, RestoredStays
  <2>3. CASE x # o
    <3>1. CallsUntouched(x)
      BY <1>3, <2>3 DEF CallsUntouched, Others, Busy
    <3> QED
      BY <1>0, <1>1, <1>8, <2>1, <3>1, ChannelStays DEF ManagerInv, PhaseInv
  <2> QED
    BY <2>2, <2>3
<1>9. PhaseInv'
  BY <1>1, <1>8 DEF ManagerInv, PhaseInv
<1> QED
  BY <1>3, <1>4, <1>5, <1>6, <1>7, <1>9 DEF ManagerInv
(* LoadChannels restores the next row, or passes over it.                   *)
LEMMA LoadNextKeeps ==
    ASSUME ManagerInv, NEW t \in Threads, LoadNext(t), UNCHANGED events,
           NEW o, o = thread[t].id, NEW id, id = Min(loading)
    PROVE  ManagerInv'
<1>0. TypeOK /\ ThreadsInv
  BY DEF ManagerInv
<1>1. /\ At(t, "loadNext") /\ loading # {} /\ loading' = loading \ {id}
      /\ UNCHANGED <<pipes, rows, registered, aborted, deleted, events>>
  BY DEF LoadNext
<1>2. /\ t = boot /\ Busy(t) /\ thread[t].pipe = NoPipe
      /\ Last(thread[t].todo) = "loadNext"
      /\ o \in Ids \ overlapped => AtRest(o) /\ Exists(o)
  BY <1>1, LoaderAt
<1>3. id \in loading /\ id \in Ids /\ id \in Nat
  <2>1. loading \subseteq Nat /\ loading \subseteq Ids
    BY <1>0, ChannelManagerAssumption DEF TypeOK, Ids
  <2>2. Min(loading) \in loading
    BY <1>1, <2>1, MinIsMember
  <2> QED
    BY <2>1, <2>2
<1>4. CASE UNCHANGED <<channels_, next_channel_id_, resources, unrestored,
                       thread, overlapped>>
  <2>1. ThreadsInv' /\ \A x : CallsUntouched(x)
    BY <1>4, ThreadsStay
  <2>2. TypeOK' /\ LoaderInv'
    BY <1>0, <1>1, <1>4 DEF ManagerInv, TypeOK, LoaderInv, Busy
  <2>3. Exclusive'
    <3>1. \A u \in Threads, x \in Ids : WorkingOn(u, x)' => WorkingOn(u, x)
      BY <1>1, <1>4 DEF WorkingOn
    <3> QED
      BY <1>4, <3>1 DEF ManagerInv, Exclusive
  <2>4. PipesInv' /\ IdsInv' /\ SlotsInv' /\ RowsInv'
    BY <1>1, <1>4 DEF ManagerInv, PipesInv, InUse, Holds, Exists, IdsInv,
                      IdsAreFresh, SlotsInv, RowsInv
  <2>5. ASSUME NEW x \in Ids \ overlapped' PROVE ChannelOK(x)'
    <3>1. Untouched(x) /\ PipesUntouched(x)
      BY <1>1, <1>4 DEF Untouched, PipesUntouched, Exists
    <3> QED
      BY <1>0, <1>4, <2>1, <2>5, <3>1, ChannelStays DEF ManagerInv, PhaseInv
  <2>6. PhaseInv'
    BY <1>1, <1>4, <2>5 DEF ManagerInv, PhaseInv
  <2> QED
    BY <2>1, <2>2, <2>3, <2>4, <2>6 DEF ManagerInv
<1>5. CASE /\ ~Exists(id) /\ CanBuild
           /\ channels_' = Put(channels_, id, [state |-> "kCreated",
                                               pipe |-> NewPipe])
           /\ next_channel_id_' = Max({next_channel_id_, id + 1})
           /\ resources' = resources \union {id}
           /\ unrestored' = unrestored \ {id}
           /\ Call(t, id, NoPipe, <<"beginStart", "loadNext">>)
           /\ NoteOverlap(t, id)
  <2>1. PICK new : new = NewPipe
    OBVIOUS
  <2>2. /\ thread' \in [Threads -> Calls] /\ ThreadsInv' /\ Others(t)
        /\ Busy(t)' /\ Here(t)' = "beginStart" /\ thread'[t].id = id
        /\ thread'[t].pipe = NoPipe /\ Last(thread'[t].todo) = "loadNext"
    <3> DEFINE s == <<"beginStart", "loadNext">>
    <3>1. /\ Flow(s) /\ s # <<>> /\ Last(s) = "loadNext"
          /\ Head(s) = "beginStart" /\ Head(s) \notin PipeSteps
      BY FlowOfLoad DEF PipeSteps
    <3>2. Call(t, id, NoPipe, s)
      BY <1>5
    <3> HIDE DEF s
    <3> QED
      BY <1>0, <1>2, <1>3, <3>1, <3>2, Called DEF Enters
  <2>3. /\ PipesInv' /\ \A x : PipesUntouched(x)
        /\ ChannelsOK(channels_')
        /\ DOMAIN channels_' = DOMAIN channels_ \union {id}
        /\ \A x \in DOMAIN channels_ : channels_'[x] = channels_[x]
        /\ channels_'[id] = [state |-> "kCreated", pipe |-> new]
        /\ ~Runs(id)'
    BY <1>1, <1>2, <1>3, <1>5, <2>1, <2>2, PipeAdded
  <2>4. /\ overlapped \subseteq overlapped' /\ overlapped' \subseteq Ids
        /\ overlapped' \subseteq overlapped \union {id}
    BY <1>0, <1>3, <1>5 DEF NoteOverlap, TypeOK
  <2>5. /\ next_channel_id_' \in Nat \ {0} /\ next_channel_id_ \in Nat
        /\ next_channel_id_ <= next_channel_id_' /\ id < next_channel_id_'
    <3>1. next_channel_id_ \in Nat \ {0} /\ id + 1 \in Nat \ {0}
      BY <1>0, <1>3 DEF TypeOK
    <3>2. /\ next_channel_id_' \in {next_channel_id_, id + 1}
          /\ next_channel_id_ =< next_channel_id_' /\ id + 1 =< next_channel_id_'
      BY <1>5, <3>1, MaxOfTwo
    <3> QED
      BY <1>3, <3>1, <3>2
  <2>6. TypeOK'
    BY <1>0, <1>1, <1>3, <1>5, <2>2, <2>3, <2>4, <2>5
       DEF TypeOK, ChannelsOK, Calls
  <2>7. LoaderInv'
    BY <1>2, <2>2 DEF LoaderInv
  <2>8. ASSUME NEW x \in Ids, NEW u \in Threads \ {t}
        PROVE  WorkingOn(u, x)' <=> WorkingOn(u, x)
    BY <1>2, <2>2, <2>8 DEF WorkingOn, Others
  <2>9. ASSUME id \notin overlapped', NEW u \in Threads \ {t}
        PROVE  ~WorkingOn(u, id)
    BY <1>5, <2>9 DEF NoteOverlap
  <2>10. Exclusive'
    <3> SUFFICES ASSUME NEW u \in Threads, NEW v \in Threads, NEW x \in Ids,
                        u # v, WorkingOn(u, x)', WorkingOn(v, x)',
                        x \notin overlapped'
                 PROVE  FALSE
      BY DEF Exclusive
    <3>1. CASE x = id
      BY <1>3, <2>8, <2>9, <3>1
    <3>2. CASE x # id
      <4>1. WorkingOn(t, x)' => WorkingOn(t, x)
        BY <1>1, <1>2, <2>2, <3>2 DEF WorkingOn, Busy
      <4> QED
        BY <2>4, <2>8, <4>1 DEF ManagerInv, Exclusive
    <3> QED
      BY <3>1, <3>2
  <2>11. IdsInv'
    <3>1. /\ \A x \in DOMAIN channels_ \union (rows \ unrestored)
                         \union deleted \union registered :
                x \in Nat /\ x < next_channel_id_
          /\ \A u \in Threads : /\ thread[u].id \in Nat
                                /\ thread[u].id < next_channel_id_
      <4>1. Ids \union {0} \subseteq Nat
        BY ChannelManagerAssumption DEF Ids
      <4> QED
        BY <1>0, <4>1 DEF ManagerInv, TypeOK, IdsInv, IdsAreFresh
    <3>2. \A n \in Nat : n < next_channel_id_ => n < next_channel_id_'
      BY <2>5
    <3>3. \A x \in DOMAIN channels_' \union (rows' \ unrestored') :
              x < next_channel_id_'
      BY <1>1, <1>5, <2>3, <2>5, <3>1, <3>2
    <3>4. \A u \in Threads : thread'[u].id < next_channel_id_'
      BY <2>2, <2>5, <3>1, <3>2 DEF Others
    <3>5. \A x \in deleted' \union registered' : x < next_channel_id_'
      BY <1>1, <3>1, <3>2
    <3> QED
      BY <3>3, <3>4, <3>5 DEF IdsInv, IdsAreFresh
  <2>12. SlotsInv'
    BY <1>0, <1>5, <2>3, <2>4, SlotTaken DEF ManagerInv, SlotsInv
  <2>13. RowsInv'
    BY <1>1, <1>3, <2>3, <2>4 DEF ManagerInv, RowsInv
  <2>14. ASSUME id \notin overlapped' PROVE ChannelOK(id)'
    <3>1. id \notin overlapped /\ ChannelOK(id)
      BY <1>3, <2>4, <2>14 DEF ManagerInv, PhaseInv
    <3>2. \A u \in Threads \ {t} : ~(Busy(u) /\ thread[u].id = id)
      BY <2>9, <2>14 DEF WorkingOn, Busy
    <3>3. o # id
      BY <1>2, <1>3, <1>5, <3>1
    <3>4. id \notin registered /\ id \notin deleted
      BY <1>3, <1>5, <3>1, <3>2, <3>3 DEF ChannelOK, AtRest, Gone
    <3>5. CallPhase(t, id)'
      <4>1. /\ Exists(id)' /\ channels_'[id].state = "kCreated"
            /\ id \notin registered'
        BY <1>1, <2>3, <3>4 DEF Exists
      <4> QED
        BY <2>2, <2>3, <4>1 DEF CallPhase, PipeSteps, RunningAt, StoppedAt
    <3>6. Phase(t, id)'
      BY <2>2, <3>5 DEF Phase
    <3>7. \A u \in Threads \ {t} : ~(Busy(u)' /\ thread'[u].id = id)
      BY <2>2, <3>2 DEF Others, Busy
    <3> QED
      BY <1>1, <2>2, <3>4, <3>6, <3>7 DEF ChannelOK
  <2>15. ASSUME NEW x \in Ids \ overlapped', x # id PROVE ChannelOK(x)'
    <3>1. Untouched(x) /\ PipesUntouched(x)
      BY <1>1, <1>5, <2>3, <2>15 DEF Untouched, Exists
    <3>2. CASE x = o
      BY <1>2, <2>2, <2>4, <2>15, <3>1, <3>2, RestoredStays
    <3>3. CASE x # o
      <4>1. CallsUntouched(x)
        BY <2>2, <2>15, <3>3 DEF CallsUntouched, Others, Busy
      <4>2. ChannelOK(x)
        BY <2>4, <2>15 DEF ManagerInv, PhaseInv
      <4> QED
        BY <1>0, <3>1, <4>1, <4>2, ChannelStays
    <3> QED
      BY <3>2, <3>3
  <2>16. PhaseInv'
    BY <1>1, <2>4, <2>14, <2>15 DEF ManagerInv, PhaseInv
  <2> QED
    BY <2>2, <2>3, <2>6, <2>7, <2>10, <2>11, <2>12, <2>13, <2>16
       DEF ManagerInv
<1> QED
  BY <1>4, <1>5 DEF LoadNext

-----------------------------------------------------------------------------
(* The process starts, and starts again.                                    *)

(* Nothing is there but the rows, and the main thread is about to load.     *)
Booting ==
    /\ channels_ = <<>> /\ next_channel_id_ = 1
    /\ pipes = [p \in PipeIds |-> FreshPipe]
    /\ resources = {} /\ registered = {} /\ loading = {} /\ deleted = {}
    /\ aborted = FALSE /\ overlapped = {}
    /\ thread = [t \in Threads |-> IF t = boot
                                   THEN [Quiet EXCEPT !.todo = <<"loadAll">>]
                                   ELSE Quiet]
    /\ rows \subseteq Ids /\ events \in 0..MaxEvents
    /\ rows \subseteq unrestored /\ unrestored \subseteq Ids

(* A process that starts satisfies the invariant.                           *)
LEMMA BootingOK == Booting => ManagerInv
<1> SUFFICES ASSUME Booting PROVE ManagerInv
  OBVIOUS
<1> DEFINE q == [todo |-> <<"loadAll">>, id |-> 0, pipe |-> NoPipe]
<1>1. q.todo = <<"loadAll">> /\ q.id = 0 /\ q.pipe = NoPipe
  OBVIOUS
<1>2. thread = [t \in Threads |-> IF t = boot THEN q ELSE Quiet]
  BY DEF Booting, Quiet
<1>3. q \in Calls
  BY FlowOfLoad DEF Calls, Flow
<1> HIDE DEF q
<1>4. ThreadOK(boot, q)
  BY <1>1, <1>3, FlowOfLoad DEF ThreadOK, PipeSteps
<1>5. ThreadsInv
  BY <1>2, <1>4, QuietOK DEF ThreadsInv
<1>6. thread \in [Threads -> Calls]
  BY <1>2, <1>3, QuietOK DEF ThreadOK
<1>7. \A t \in Threads : /\ thread[t].id = 0 /\ thread[t].pipe = NoPipe
                         /\ Busy(t) <=> t = boot
  BY <1>1, <1>2, FlowOfLoad, QuietOK DEF Busy
<1>8. DOMAIN channels_ = {}
  BY DEF Booting
<1>9. TypeOK
  <2>1. pipes \in [PipeIds -> [state_ : States, running_ : BOOLEAN]]
    BY DEF Booting, FreshPipe, States
  <2>2. /\ next_channel_id_ \in Nat \ {0}
        /\ resources \subseteq Ids /\ registered \subseteq Ids
        /\ loading \subseteq Ids /\ deleted \subseteq Ids
        /\ overlapped \subseteq Ids
        /\ rows \subseteq Ids /\ events \in 0..MaxEvents
        /\ unrestored \subseteq Ids
    BY DEF Booting
  <2>3. aborted \in BOOLEAN
    BY Zenon DEF Booting
  <2> QED
    BY <1>6, <1>8, <2>1, <2>2, <2>3 DEF TypeOK, Calls
<1>10. \A p \in PipeIds, id \in Ids : ~Holds(p, id)
  BY <1>7, <1>8 DEF Holds, Exists, Ids
<1>11. PipesInv /\ LoaderInv /\ Exclusive
  <2>1. PipesInv
    <3>1. \A p \in PipeIds : pipes[p] = FreshPipe
      BY DEF Booting
    <3>2. \A p \in PipeIds, i \in Ids \union {0} : Holds(p, i) => i = 0
      BY <1>10
    <3> QED
      BY <3>1, <3>2 DEF PipesInv
  <2>2. LoaderInv
    BY DEF Booting, LoaderInv
  <2>3. \A t \in Threads, id \in Ids : ~WorkingOn(t, id)
    BY <1>7 DEF Booting, WorkingOn, Ids
  <2> QED
    BY <2>1, <2>2, <2>3 DEF Exclusive
<1>12. IdsInv /\ SlotsInv /\ RowsInv
  <2>1. \A t \in Threads : thread[t].id < next_channel_id_
    BY <1>7 DEF Booting
  <2>2. Cardinality(resources) <= kMaxChannels
    BY FS_EmptySet, ChannelManagerAssumption DEF Booting
  <2> QED
    BY <1>8, <2>1, <2>2
       DEF Booting, IdsInv, IdsAreFresh, SlotsInv, RowsInv
<1>13. PhaseInv
  <2>1. \A id \in Ids : AtRest(id)
    BY <1>8 DEF AtRest, Exists, Booting
  <2> QED
    BY <1>7, <2>1 DEF PhaseInv, ChannelOK, Booting, Ids
<1> QED
  BY <1>5, <1>9, <1>11, <1>12, <1>13 DEF ManagerInv

(* So does one that starts again after it was killed.                       *)
LEMMA RestartKeeps ==
    ASSUME ManagerInv, Restart, events' \in 0..MaxEvents
    PROVE  ManagerInv'
<1>1. Booting'
  BY DEF Restart, Booting, ManagerInv, TypeOK
<1>2. Booting' => ManagerInv'
  BY BootingOK, PTL
<1> QED
  BY <1>1, <1>2

-----------------------------------------------------------------------------
(* The theorems.                                                            *)

(* The first start.                                                         *)
LEMMA InitManager == Init => ManagerInv
<1>1. Init => Booting
  BY ChannelManagerAssumption DEF Init, Booting
<1> QED
  BY <1>1, BootingOK

(* Every step within a call keeps the invariant.                            *)
LEMMA StepKeeps ==
    ASSUME ManagerInv, NEW t \in Threads, Step(t), ~aborted, UNCHANGED events
    PROVE  ManagerInv'
<1>1. PICK id : id = thread[t].id
  OBVIOUS
<1>2. PICK pipe : pipe = thread[t].pipe
  OBVIOUS
<1>3. PICK least : least = Min(loading)
  OBVIOUS
<1>4. CASE BeginStop(t) \/ BeginStart(t)
  BY <1>1, <1>4, BeginStopKeeps, BeginStartKeeps
<1>5. CASE Drain(t) \/ Joined(t)
  BY <1>1, <1>2, <1>5, DrainKeeps, JoinedKeeps
<1>6. CASE UnregisterFromStreamingServices(t) \/ SetStopped(t)
  BY <1>1, <1>2, <1>6, UnregisterKeeps, SetStoppedKeeps
<1>7. CASE OnChannelRemoved(t) \/ DeleteRow(t)
  BY <1>1, <1>2, <1>7, OnChannelRemovedKeeps, DeleteRowKeeps
<1>8. CASE InitializePipeline(t) \/ LaunchPipeline(t) \/ PipelineStarted(t)
  BY <1>1, <1>2, <1>8, InitializePipelineKeeps, LaunchPipelineKeeps,
     PipelineStartedKeeps
<1>9. CASE \/ DetectStream(t) \/ RegisterWithStreamingServices(t)
           \/ SetRunning(t)
  BY <1>1, <1>2, <1>9, DetectStreamKeeps, RegisterKeeps, SetRunningKeeps
<1>10. CASE BuildPipeline(t) \/ InstallPipeline(t) \/ SaveRow(t)
  BY <1>1, <1>2, <1>10, BuildPipelineKeeps, InstallPipelineKeeps, SaveRowKeeps
<1>11. CASE LoadAll(t) \/ LoadNext(t) \/ LoadDone(t)
  BY <1>1, <1>3, <1>11, LoadAllKeeps, LoadNextKeeps, LoadDoneKeeps
<1> QED
  BY <1>4, <1>5, <1>6, <1>7, <1>8, <1>9, <1>10, <1>11 DEF Step

(* ManagerInv is inductive.                                                 *)
LEMMA NextManager == ManagerInv /\ [Next]_vars => ManagerInv'
<1> SUFFICES ASSUME ManagerInv, [Next]_vars PROVE ManagerInv'
  OBVIOUS
<1>1. ASSUME events < MaxEvents, events' = events + 1
      PROVE  events' \in 0..MaxEvents
  BY <1>1, ChannelManagerAssumption DEF ManagerInv, TypeOK
<1>2. CASE CreateChannel /\ events' \in 0..MaxEvents
  BY <1>2, CreateChannelKeeps
<1>3. ASSUME NEW t \in Callers, NEW id \in Ids, events' \in 0..MaxEvents,
             \/ DeleteChannel(t, id) \/ StartChannel(t, id)
             \/ StopChannel(t, id) \/ EditChannel(t, id) \/ Recover(t, id)
      PROVE  ManagerInv'
  BY <1>3, DeleteChannelKeeps, StartChannelKeeps, StopChannelKeeps,
     EditChannelKeeps, RecoverKeeps
<1>4. CASE Restart /\ events' \in 0..MaxEvents
  BY <1>4, RestartKeeps
<1>5. ASSUME NEW t \in Threads, Step(t), ~aborted, UNCHANGED events
      PROVE  ManagerInv'
  BY <1>5, StepKeeps
<1>6. CASE UNCHANGED vars
  <2>1. ThreadsInv'
    BY <1>6, ThreadsStay DEF vars
  <2>2. TypeOK' /\ LoaderInv' /\ PipesInv' /\ Exclusive' /\ IdsInv'
        /\ SlotsInv' /\ RowsInv'
    BY <1>6 DEF vars, ManagerInv, TypeOK, LoaderInv, Busy, PipesInv, InUse,
                Holds, Exists, Exclusive, WorkingOn, IdsInv, IdsAreFresh,
                SlotsInv, RowsInv
  <2>3. ASSUME NEW x \in Ids \ overlapped' PROVE ChannelOK(x)'
    <3>1. Untouched(x) /\ PipesUntouched(x) /\ CallsUntouched(x)
      BY <1>6 DEF vars, Untouched, PipesUntouched, CallsUntouched, Exists,
                  Busy
    <3> QED
      BY <1>6, <2>3, <3>1, ChannelStays DEF vars, ManagerInv, PhaseInv
  <2>4. PhaseInv'
    BY <1>6, <2>3 DEF vars, ManagerInv, PhaseInv
  <2> QED
    BY <2>1, <2>2, <2>4 DEF ManagerInv
<1> QED
  BY <1>1, <1>2, <1>3, <1>4, <1>5, <1>6 DEF Next, ApiCall

(* All of ManagerInv holds of every state the manager can reach.            *)
THEOREM ManagerInvariant == Spec => []ManagerInv
<1> QED
  BY InitManager, NextManager, PTL DEF Spec

(* Every variable of the manager keeps its type.                            *)
THEOREM ManagerTypeCorrect == Spec => []TypeOK
<1>1. ManagerInv => TypeOK
  BY DEF ManagerInv
<1> QED
  BY <1>1, ManagerInvariant, PTL

(* CreateChannel, LoadChannels and what is left of other calls, in whatever *)
(* order they meet, hand out no id of a channel that exists or of a row     *)
(* written or restored since the process came up.  It says nothing of rows  *)
(* that LoadChannels has not restored: those do lose their ids.             *)
THEOREM FreshIds == Spec => []IdsAreFresh
<1>1. ManagerInv => IdsAreFresh
  BY DEF ManagerInv, IdsInv
<1> QED
  BY <1>1, ManagerInvariant, PTL

(* The manager stays within kMaxChannels: each channel whose calls did not  *)
(* overlap has a slot in the orchestrator's table.                          *)
THEOREM LimitHolds == Spec => []WithinLimit
<1>1. ASSUME ManagerInv PROVE WithinLimit
  <2> DEFINE D == DOMAIN channels_ \ overlapped
  <2>1. D \in SUBSET resources /\ Cardinality(resources) <= kMaxChannels
    BY <1>1 DEF ManagerInv, SlotsInv
  <2>2. IsFiniteSet(resources)
    <3>1. IsFiniteSet(1..MaxId)
      BY ChannelManagerAssumption, FS_Interval
    <3> QED
      BY <1>1, <3>1, FS_Subset DEF ManagerInv, TypeOK, Ids
  <2> HIDE DEF D
  <2>3. /\ Cardinality(D) <= Cardinality(resources)
        /\ Cardinality(D) \in Nat /\ Cardinality(resources) \in Nat
    BY <2>1, <2>2, FS_Subset, FS_CardinalityType
  <2>4. Cardinality(D) <= kMaxChannels
    BY <2>1, <2>3, ChannelManagerAssumption
  <2> QED
    BY <2>1, <2>4 DEF WithinLimit, D
<1> QED
  BY <1>1, ManagerInvariant, PTL

(* As long as calls for a channel do not overlap, what the manager reports  *)
(* between them is what is there, a deleted channel has left nothing, and   *)
(* the process is not terminated.                                           *)
THEOREM ConsistentUnlessOverlapped == Spec => []ConsistentWithoutOverlap
<1>1. ASSUME ManagerInv PROVE ConsistentWithoutOverlap
  <2>1. aborted => overlapped # {}
    BY <1>1 DEF ManagerInv, PhaseInv
  <2>2. ASSUME NEW id \in Ids \ overlapped,
               \A t \in Threads : ~WorkingOn(t, id)
        PROVE  /\ Exists(id) =>
                     /\ id \in rows
                     /\ Reports(id, "kRunning") <=>
                            pipes[channels_[id].pipe].running_
                     /\ Reports(id, "kRunning") <=> id \in registered
                     /\ ~Reports(id, "kStopping")
               /\ id \in deleted =>
                     id \notin registered \union resources \union rows
    <3>1. ChannelOK(id)
      BY <1>1 DEF ManagerInv, PhaseInv
    <3>2. AtRest(id)
      BY <2>2, <3>1 DEF ChannelOK, WorkingOn, Busy
    <3>3. Exists(id) => id \in rows
      BY <1>1 DEF ManagerInv, RowsInv, Exists
    <3> QED
      BY <3>1, <3>2, <3>3 DEF ChannelOK, AtRest, Gone, Runs
  <2> QED
    BY <2>1, <2>2 DEF ConsistentWithoutOverlap
<1> QED
  BY <1>1, ManagerInvariant, PTL

=============================================================================
