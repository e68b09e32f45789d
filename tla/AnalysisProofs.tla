--------------------------- MODULE AnalysisProofs ---------------------------
(* What becomes of a frame's detections, for every value of the constants.  *)
(* First the tracker and the evaluators of a rule: they report exactly the  *)
(* events that the observed positions mean.  The invariant relates what     *)
(* each evaluator remembers of a track (the last side, whether it was       *)
(* inside, the state of its stay) to the history of its positions.  Then    *)
(* the hand-over between the stage thread and the inference thread, for     *)
(* every number of channels, frames and rules.                              *)
EXTENDS DetectionEvents, Tracking, FiniteSetTheorems, SequenceTheorems, TLAPS

-----------------------------------------------------------------------------
(* Tracking.  What a frame makes of the tracks.                             *)

Places == {d.at : d \in Detections}
Track == [at : Places, age : Nat, missing : Nat, active : BOOLEAN, lost : Nat,
          given : Detections]
Observation == [time : Nat, at : Places, age : Nat]

(* No two tracks were given one detection.                                  *)
GivenOnce(tracks) ==
    \A t, u \in DOMAIN tracks :
        tracks[t].lost = 0 /\ tracks[u].lost = 0 /\ tracks[t].given = tracks[u].given
          => t = u

TracksOK ==
    /\ next_track_id_ \in Nat \ {0}
    /\ tracks_ \in [DOMAIN tracks_ -> Track]
    /\ DOMAIN tracks_ \subseteq 1..(next_track_id_ - 1)

(* The tracks after a frame: those before it, fewer or not, and new ones of *)
(* ids that were never used.                                                *)
UpdatedTracks(tracks, n) ==
    /\ n \in Nat
    /\ tracks \in [DOMAIN tracks -> Track]
    /\ \A t \in DOMAIN tracks :
          t \in DOMAIN tracks_ \/ t \in next_track_id_..(next_track_id_ + n - 1)
    /\ GivenOnce(tracks)

(* SetToSeq puts a finite set in some order.                                *)
LEMMA InOrder ==
    ASSUME NEW S, IsFiniteSet(S)
    PROVE  /\ Cardinality(S) \in Nat
           /\ SetToSeq(S) \in [1..Cardinality(S) -> S]
           /\ \A i, j \in 1..Cardinality(S) : SetToSeq(S)[i] = SetToSeq(S)[j] => i = j
<1>1. Cardinality(S) \in Nat /\ ExistsBijection(1..Cardinality(S), S)
  BY FS_CardinalityType
<1>2. \E f \in [1..Cardinality(S) -> S] : IsInjective(f)
  BY <1>1 DEF ExistsBijection, Bijection, Injection
<1>3. SetToSeq(S) \in [1..Cardinality(S) -> S] /\ IsInjective(SetToSeq(S))
  BY <1>2, Zenon DEF SetToSeq
<1> QED BY <1>1, <1>3 DEF IsInjective

(* A match gives the track the detection.                                   *)
LEMMA MatchedTrack ==
    ASSUME NEW k \in Track, NEW d \in Detections
    PROVE  Matched(k, d) \in Track /\ Matched(k, d).given = d
<1> DEFINE p == d.at
           a == k.age + 1
           new == [at |-> p, age |-> a, missing |-> 0, active |-> k.active, lost |-> 0,
                   given |-> d]
<1>1. p \in Places /\ a \in Nat /\ k.active \in BOOLEAN
  BY DEF Track, Places
<1>2. Matched(k, d) = new
  <2>1. /\ DOMAIN k = {"at", "age", "missing", "active", "lost", "given"}
        /\ k = [f \in {"at", "age", "missing", "active", "lost", "given"} |-> k[f]]
    BY DEF Track
  <2>2. Matched(k, d) = [k EXCEPT !["at"] = d.at, !["missing"] = 0,
                                  !["age"] = k["age"] + 1, !["lost"] = 0, !["given"] = d]
    BY DEF Matched
  <2> QED BY <2>1, <2>2, Zenon
<1> HIDE DEF p, a
<1>3. new \in Track /\ new.given = d
  BY <1>1 DEF Track
<1> QED BY <1>2, <1>3

(* IouTracker::Update.                                                      *)
LEMMA UpdateOutcome ==
    ASSUME TracksOK, NEW found \in SUBSET Detections, NEW M \in GreedyMatches(found)
    PROVE  /\ UpdatedTracks(Update(found, M), Cardinality(found \ {p[2] : p \in M}))
           /\ found = {} => Cardinality(found \ {p[2] : p \in M}) = 0
<1> DEFINE F == found \ {p[2] : p \in M}
           n == Cardinality(F)
           next == next_track_id_
           fresh == SetToSeq(F)
           matchOf(t) == {p[2] : p \in {q \in M : q[1] = t}}
           ids == DOMAIN tracks_ \union {next + i - 1 : i \in DOMAIN fresh}
           after == [t \in ids |->
                      IF t >= next THEN NewTrack(fresh[t - next + 1])
                      ELSE IF matchOf(t) # {}
                      THEN Matched(tracks_[t], CHOOSE d \in matchOf(t) : TRUE)
                      ELSE Unmatched(tracks_[t])]
<1>1. IsFiniteSet(F) /\ F \subseteq Detections
  BY TrackingAssumption, FS_Subset
<1>2. /\ n \in Nat /\ fresh \in [1..n -> F]
      /\ \A i, j \in 1..n : fresh[i] = fresh[j] => i = j
  <2> HIDE DEF F
  <2> QED BY <1>1, InOrder
<1>3. found = {} => n = 0
  <2> SUFFICES ASSUME found = {} PROVE n = 0
    OBVIOUS
  <2>1. F = {}
    OBVIOUS
  <2> QED BY <2>1, FS_EmptySet
<1>4. Update(found, M) = [t \in {u \in ids : ~LongDead(after[u])} |-> after[t]]
  BY DEF Update
<1>5. /\ \A p \in M : p = <<p[1], p[2]>> /\ p[1] \in DOMAIN tracks_ /\ p[2] \in found
      /\ \A p, q \in M : p = q \/ (p[1] # q[1] /\ p[2] # q[2])
  BY DEF GreedyMatches, Pairs
<1>6. next \in Nat /\ \A t \in DOMAIN tracks_ : t \in Nat /\ t < next /\ tracks_[t] \in Track
  BY DEF TracksOK
<1>7. \A d \in F : d \notin {p[2] : p \in M}
  OBVIOUS
<1> HIDE DEF F, n, fresh
<1>8. ASSUME NEW t \in ids
      PROVE  /\ t \in DOMAIN tracks_ \/ t \in next..(next + n - 1)
             /\ t \in DOMAIN tracks_ <=> ~(t >= next)
             /\ t \in Nat
             /\ t >= next => t - next + 1 \in 1..n
  BY <1>2, <1>6
<1>9. ASSUME NEW t \in ids, t >= next
      PROVE  /\ after[t] \in Track /\ after[t].lost = 0
             /\ after[t].given = fresh[t - next + 1] /\ t - next + 1 \in 1..n
  <2>1. t - next + 1 \in 1..n
    BY <1>8, <1>9
  <2>2. PICK d : d = fresh[t - next + 1]
    OBVIOUS
  <2>3. d \in Detections /\ d.at \in Places
    BY <1>1, <1>2, <2>1, <2>2 DEF Places
  <2>4. after[t] = NewTrack(d)
    BY <1>9, <2>2
  <2>5. NewTrack(d) \in Track /\ NewTrack(d).lost = 0 /\ NewTrack(d).given = d
    BY <2>3 DEF NewTrack, Track
  <2> QED BY <2>1, <2>2, <2>4, <2>5
<1>10. ASSUME NEW t \in DOMAIN tracks_
       PROVE  /\ after[t] \in Track
              /\ after[t].lost = 0 => <<t, after[t].given>> \in M
  <2>1. t \in ids /\ ~(t >= next) /\ tracks_[t] \in Track
    BY <1>6
  <2>2. CASE matchOf(t) # {}
    <3>1. PICK d : d = CHOOSE e \in matchOf(t) : TRUE
      OBVIOUS
    <3>2. d \in matchOf(t)
      BY <2>2, <3>1
    <3>3. <<t, d>> \in M /\ d \in Detections /\ d.at \in Places
      BY <1>5, <3>2 DEF Places
    <3>4. after[t] = Matched(tracks_[t], d)
      BY <2>1, <2>2, <3>1
    <3>5. Matched(tracks_[t], d) \in Track /\ Matched(tracks_[t], d).given = d
      BY <2>1, <3>3, MatchedTrack
    <3> QED BY <3>3, <3>4, <3>5
  <2>3. CASE matchOf(t) = {}
    <3>1. after[t] = Unmatched(tracks_[t])
      BY <2>1, <2>3
    <3>2. Unmatched(tracks_[t]) \in Track /\ Unmatched(tracks_[t]).lost # 0
      <4> DEFINE k == tracks_[t]
                 miss == IF k.active THEN k.missing + 1 ELSE k.missing
                 act == k.active /\ k.missing < max_frames_missing
                 l == k.lost + 1
      <4>1. k \in Track /\ miss \in Nat /\ act \in BOOLEAN /\ l \in Nat /\ l # 0
        BY <2>1 DEF Track
      <4>2. Unmatched(k) = [k EXCEPT !.missing = miss, !.active = act, !.lost = l]
        BY DEF Unmatched
      <4> HIDE DEF miss, act, l, k
      <4>3. [k EXCEPT !.missing = miss, !.active = act, !.lost = l] \in Track
            /\ [k EXCEPT !.missing = miss, !.active = act, !.lost = l].lost = l
        BY <4>1 DEF Track
      <4>4. Unmatched(k) \in Track /\ Unmatched(k).lost # 0
        BY <4>1, <4>2, <4>3
      <4> QED BY <4>4 DEF k
    <3> QED BY <3>1, <3>2
  <2> QED BY <2>2, <2>3
<1> HIDE DEF after, ids, matchOf
<1>11. ASSUME NEW t \in ids, NEW u \in ids, after[t].lost = 0, after[u].lost = 0,
              after[t].given = after[u].given
       PROVE  t = u
  <2>1. CASE t >= next /\ u >= next
    <3>1. t - next + 1 = u - next + 1
      BY <1>2, <1>9, <1>11, <2>1
    <3> QED BY <1>6, <1>8, <3>1
  <2>2. CASE t >= next /\ ~(u >= next)
    <3>1. <<u, after[u].given>> \in M
      BY <1>8, <1>10, <1>11, <2>2
    <3>2. after[t].given \in F
      BY <1>2, <1>9, <2>2
    <3> QED BY <1>7, <1>11, <3>1, <3>2
  <2>3. CASE ~(t >= next) /\ u >= next
    <3>1. <<t, after[t].given>> \in M
      BY <1>8, <1>10, <1>11, <2>3
    <3>2. after[u].given \in F
      BY <1>2, <1>9, <2>3
    <3> QED BY <1>7, <1>11, <3>1, <3>2
  <2>4. CASE ~(t >= next) /\ ~(u >= next)
    <3>1. <<t, after[t].given>> \in M /\ <<u, after[u].given>> \in M
      BY <1>8, <1>10, <1>11, <2>4
    <3> QED BY <1>5, <1>11, <3>1
  <2> QED BY <2>1, <2>2, <2>3, <2>4
<1>12. ASSUME NEW t \in ids PROVE after[t] \in Track
  BY <1>8, <1>9, <1>10
<1>13. UpdatedTracks([t \in {u \in ids : ~LongDead(after[u])} |-> after[t]], n)
  BY <1>2, <1>8, <1>11, <1>12 DEF UpdatedTracks, GivenOnce
<1> QED BY <1>3, <1>4, <1>13 DEF n, F

-----------------------------------------------------------------------------
(* What one observation more means.                                         *)

Longer(s, o, r) ==
    /\ s \in Seq(Observation) /\ r \in Seq(Observation) /\ o \in Observation
    /\ Len(r) = Len(s) + 1 /\ r[Len(s) + 1] = o
    /\ \A i \in 1..Len(s) : r[i] = s[i]

(* The last observation off the line.                                       *)
LastOff(s, k) ==
    /\ k \in DOMAIN s /\ OffLine(s[k])
    /\ \A i \in (k + 1)..Len(s) : ~OffLine(s[i])

(* A longer sequence agrees with the shorter one on its positions.          *)
LEMMA LongerDomains ==
    ASSUME NEW s, NEW o, NEW r, Longer(s, o, r)
    PROVE  /\ Len(s) \in Nat /\ DOMAIN s = 1..Len(s)
           /\ DOMAIN r = 1..(Len(s) + 1) /\ DOMAIN r = DOMAIN s \union {Len(s) + 1}
           /\ \A k \in DOMAIN s : r[k] = s[k]
BY DEF Longer

(* The last observation off the line is the new one, if it is off the line. *)
LEMMA LastOffGrows ==
    ASSUME NEW s, NEW o, NEW r, Longer(s, o, r)
    PROVE  /\ OffLine(o) => \A k : LastOff(r, k) <=> k = Len(s) + 1
           /\ ~OffLine(o) => \A k : LastOff(r, k) <=> LastOff(s, k)
<1> DEFINE n == Len(s)
<1>1. /\ n \in Nat /\ DOMAIN s = 1..n /\ DOMAIN r = 1..(n + 1) /\ Len(r) = n + 1
      /\ r[n + 1] = o /\ \A i \in 1..n : r[i] = s[i]
  BY LongerDomains DEF Longer
<1> HIDE DEF n
<1>2. ASSUME OffLine(o), NEW k PROVE LastOff(r, k) <=> k = n + 1
  <2>1. LastOff(r, n + 1)
    BY <1>1, <1>2 DEF LastOff
  <2>2. ASSUME LastOff(r, k), k # n + 1 PROVE FALSE
    <3>1. k \in 1..n /\ n + 1 \in (k + 1)..Len(r)
      BY <1>1, <2>2 DEF LastOff
    <3> QED BY <1>1, <1>2, <2>2, <3>1 DEF LastOff
  <2> QED BY <2>1, <2>2
<1>3. ASSUME ~OffLine(o), NEW k PROVE LastOff(r, k) <=> LastOff(s, k)
  <2>1. ASSUME LastOff(r, k) PROVE LastOff(s, k)
    <3>1. k \in 1..n
      BY <1>1, <1>3, <2>1 DEF LastOff
    <3>2. ASSUME NEW i \in (k + 1)..Len(s) PROVE ~OffLine(s[i])
      <4>1. i \in (k + 1)..Len(r) /\ i \in 1..n
        BY <1>1, <3>1 DEF n
      <4> QED BY <1>1, <2>1, <4>1 DEF LastOff
    <3> QED BY <1>1, <2>1, <3>1, <3>2 DEF LastOff
  <2>2. ASSUME LastOff(s, k) PROVE LastOff(r, k)
    <3>1. k \in 1..n /\ OffLine(r[k])
      BY <1>1, <2>2 DEF LastOff
    <3>2. ASSUME NEW i \in (k + 1)..Len(r) PROVE ~OffLine(r[i])
      <4>1. i = n + 1 \/ (i \in (k + 1)..Len(s) /\ i \in 1..n)
        BY <1>1, <3>1 DEF n
      <4> QED BY <1>1, <1>3, <2>2, <4>1 DEF LastOff
    <3> QED BY <1>1, <3>1, <3>2 DEF LastOff
  <2> QED BY <2>1, <2>2
<1> QED BY <1>2, <1>3 DEF n

CrossesAgain(s, o) ==
    OffLine(o) /\ \E k : LastOff(s, k) /\ Side(s[k].at) # Side(o.at)

(* The new observation changes no crossing before it, and is one itself     *)
(* exactly when it is off the line on the other side than the last one that *)
(* was.                                                                     *)
LEMMA CrossedGrows ==
    ASSUME NEW s, NEW o, NEW r, Longer(s, o, r)
    PROVE  /\ \A k \in DOMAIN s : Crossed(r, k) <=> Crossed(s, k)
           /\ Crossed(r, Len(s) + 1) <=> CrossesAgain(s, o)
<1> DEFINE n == Len(s)
<1>1. /\ n \in Nat /\ DOMAIN s = 1..n /\ DOMAIN r = 1..(n + 1) /\ Len(r) = n + 1
      /\ r[n + 1] = o /\ \A i \in 1..n : r[i] = s[i]
  BY LongerDomains DEF Longer
<1>2. ASSUME NEW k \in DOMAIN s PROVE Crossed(r, k) <=> Crossed(s, k)
  <2>1. r[k] = s[k] /\ \A j \in 1..(k - 1) : r[j] = s[j]
    BY <1>1
  <2>2. ASSUME NEW j \in 1..(k - 1)
        PROVE  (\A i \in (j + 1)..(k - 1) : ~OffLine(r[i])) <=> (\A i \in (j + 1)..(k - 1) : ~OffLine(s[i]))
    BY <1>1, <2>1
  <2> QED BY <2>1, <2>2 DEF Crossed
<1>3. Crossed(r, n + 1) <=> CrossesAgain(s, o)
  <2>1. ASSUME NEW k \in 1..n
        PROVE  LastOff(s, k) <=> OffLine(r[k]) /\ \A i \in (k + 1)..n : ~OffLine(r[i])
    BY <1>1 DEF LastOff
  <2>2. \A k : LastOff(s, k) => k \in 1..n
    BY <1>1 DEF LastOff
  <2>3. (n + 1) - 1 = n
    BY <1>1
  <2>4. Crossed(r, n + 1) <=>
          OffLine(o) /\ \E j \in 1..n : /\ OffLine(r[j]) /\ Side(r[j].at) # Side(o.at)
                                        /\ \A i \in (j + 1)..n : ~OffLine(r[i])
    BY <1>1, <2>3 DEF Crossed
  <2> HIDE DEF n
  <2> QED BY <1>1, <2>1, <2>2, <2>4 DEF CrossesAgain
<1> QED BY <1>2, <1>3

(* The crossings expected after one observation more.                       *)
LEMMA CrossingsGrow ==
    ASSUME NEW s, NEW o, NEW r, Longer(s, o, r)
    PROVE  ExpectedCrossings(r) =
             ExpectedCrossings(s) \union
               (IF CrossesAgain(s, o) /\ Reportable(Side(o.at))
                THEN {[time |-> o.time, what |-> Direction(Side(o.at))]} ELSE {})
<1> DEFINE n == Len(s) + 1
           new(q, k) == [time |-> q[k].time, what |-> Direction(Side(q[k].at))]
           at(q, k) == Crossed(q, k) /\ Reportable(Side(q[k].at))
<1>1. /\ DOMAIN r = DOMAIN s \union {n} /\ r[n] = o
      /\ \A k \in DOMAIN s : r[k] = s[k]
  BY LongerDomains DEF Longer
<1>2. /\ \A k \in DOMAIN s : at(r, k) <=> at(s, k)
      /\ at(r, n) <=> CrossesAgain(s, o) /\ Reportable(Side(o.at))
      /\ \A k \in DOMAIN s : new(r, k) = new(s, k)
      /\ new(r, n) = [time |-> o.time, what |-> Direction(Side(o.at))]
  BY <1>1, CrossedGrows
<1>3. /\ ExpectedCrossings(r) = {new(r, k) : k \in {j \in DOMAIN r : at(r, j)}}
      /\ ExpectedCrossings(s) = {new(s, k) : k \in {j \in DOMAIN s : at(s, j)}}
  BY DEF ExpectedCrossings
<1> HIDE DEF at, new, n
<1>4. {new(r, k) : k \in {j \in DOMAIN r : at(r, j)}} =
        {new(s, k) : k \in {j \in DOMAIN s : at(s, j)}} \union
        (IF at(r, n) THEN {new(r, n)} ELSE {})
  BY <1>1, <1>2
<1> QED BY <1>2, <1>3, <1>4

(* The entries expected after one observation more: the new one is an entry *)
(* if it is inside and the one before it was not.                           *)
LEMMA EntriesGrow ==
    ASSUME NEW s, NEW o, NEW r, Longer(s, o, r)
    PROVE  ExpectedEntries(r) =
             ExpectedEntries(s) \union
               (IF PointInPolygon(o.at) /\ (Len(s) = 0 \/ ~PointInPolygon(s[Len(s)].at))
                THEN {[time |-> o.time, what |-> "enter"]} ELSE {})
<1> DEFINE n == Len(s) + 1
           new(q, k) == [time |-> q[k].time, what |-> "enter"]
           at(q, k) == /\ PointInPolygon(q[k].at)
                       /\ k = 1 \/ ~PointInPolygon(q[k - 1].at)
<1>1. /\ Len(s) \in Nat /\ DOMAIN s = 1..Len(s)
      /\ DOMAIN r = DOMAIN s \union {n} /\ r[n] = o
      /\ \A k \in DOMAIN s : r[k] = s[k]
  BY LongerDomains DEF Longer
<1>2. /\ \A k \in DOMAIN s : at(r, k) <=> at(s, k)
      /\ at(r, n) <=> PointInPolygon(o.at) /\ (Len(s) = 0 \/ ~PointInPolygon(s[Len(s)].at))
      /\ \A k \in DOMAIN s : new(r, k) = new(s, k)
      /\ new(r, n) = [time |-> o.time, what |-> "enter"]
  <2>1. ASSUME NEW k \in DOMAIN s PROVE at(r, k) <=> at(s, k)
    <3>1. k = 1 \/ k - 1 \in DOMAIN s
      BY <1>1
    <3> QED BY <1>1, <3>1
  <2>2. n = 1 <=> Len(s) = 0
    BY <1>1
  <2>3. Len(s) # 0 => Len(s) \in DOMAIN s /\ n - 1 = Len(s)
    BY <1>1
  <2> QED BY <1>1, <2>1, <2>2, <2>3
<1>3. /\ ExpectedEntries(r) = {new(r, k) : k \in {j \in DOMAIN r : at(r, j)}}
      /\ ExpectedEntries(s) = {new(s, k) : k \in {j \in DOMAIN s : at(s, j)}}
  BY DEF ExpectedEntries
<1> HIDE DEF at, new, n
<1>4. {new(r, k) : k \in {j \in DOMAIN r : at(r, j)}} =
        {new(s, k) : k \in {j \in DOMAIN s : at(s, j)}} \union
        (IF at(r, n) THEN {new(r, n)} ELSE {})
  BY <1>1, <1>2
<1> QED BY <1>2, <1>3, <1>4

-----------------------------------------------------------------------------
(* Loitering.                                                               *)

TrackState == [inside : BOOLEAN, enter : Nat, alerted : BOOLEAN, last : Nat]

(* The stay that goes on began when the state says, and the alerts of it    *)
(* are those the state knows of.                                            *)
StayKnown(s, alerts, st) ==
    /\ \E j \in 1..Len(s) : StayBegan(s, j, Len(s)) /\ st.enter = s[j].time
    /\ IF st.alerted
       THEN /\ st.last \in alerts /\ st.enter =< st.last
            /\ \A a \in alerts : st.enter =< a => a =< st.last
       ELSE \A a \in alerts : a < st.enter

StateKnown(s, alerts, st) ==
    /\ st \in TrackState
    /\ st.inside <=> Len(s) > 0 /\ PointInPolygon(s[Len(s)].at)
    /\ st.inside => StayKnown(s, alerts, st)

(* All that is known was before now.                                        *)
Before(s, alerts, now) ==
    /\ now \in Nat
    /\ alerts \subseteq Nat /\ \A a \in alerts : a < now
    /\ \A i \in DOMAIN s : s[i].time \in Nat /\ s[i].time < now
    /\ \A i, j \in DOMAIN s : i < j => s[i].time < s[j].time

(* The stay an observation belongs to has one beginning.                    *)
LEMMA OneBeginning ==
    ASSUME NEW s, NEW k \in Nat, NEW i \in 1..k, NEW j \in 1..k,
           StayBegan(s, i, k), StayBegan(s, j, k)
    PROVE  i = j
<1>1. CASE i < j
  <2>1. j - 1 \in i..k /\ j # 1
    BY <1>1
  <2> QED BY <2>1 DEF StayBegan
<1>2. CASE j < i
  <2>1. i - 1 \in j..k /\ i # 1
    BY <1>2
  <2> QED BY <2>1 DEF StayBegan
<1> QED BY <1>1, <1>2

(* The new observation moves no beginning of an earlier stay.               *)
LEMMA StaysKept ==
    ASSUME NEW s, NEW o, NEW r, Longer(s, o, r), NEW k \in DOMAIN s, NEW j \in 1..k
    PROVE  StayBegan(r, j, k) <=> StayBegan(s, j, k)
<1>1. /\ Len(s) \in Nat /\ DOMAIN s = 1..Len(s) /\ \A i \in 1..Len(s) : r[i] = s[i]
  BY LongerDomains DEF Longer
<1>2. \A i \in j..k : r[i] = s[i]
  BY <1>1
<1>3. j # 1 => r[j - 1] = s[j - 1]
  BY <1>1
<1> QED BY <1>2, <1>3 DEF StayBegan

(* Whoever is inside now: since now, or since the stay that goes on began.  *)
LEMMA EnteredKnown ==
    ASSUME NEW s, NEW o, NEW r, Longer(s, o, r), NEW alerts, NEW st,
           StateKnown(s, alerts, st), Before(s, alerts, o.time),
           PointInPolygon(o.at), frameTime' = o.time
    PROVE  /\ Entered(st) \in TrackState /\ Entered(st).inside
           /\ StayKnown(r, alerts, Entered(st))
<1> DEFINE n == Len(s)
<1>1. /\ n \in Nat /\ DOMAIN s = 1..n /\ DOMAIN r = 1..(n + 1) /\ Len(r) = n + 1
      /\ r[n + 1] = o /\ \A i \in 1..n : r[i] = s[i]
  BY LongerDomains DEF Longer
<1>2. st \in TrackState /\ o.time \in Nat
  BY DEF StateKnown, Before
<1>3. CASE st.inside
  <2>1. Entered(st) = st
    BY <1>3 DEF Entered
  <2>2. StayKnown(s, alerts, st)
    BY <1>3 DEF StateKnown
  <2>3. PICK j \in 1..n : StayBegan(s, j, n) /\ st.enter = s[j].time
    BY <2>2 DEF StayKnown
  <2>4. StayBegan(r, j, n)
    <3>1. n \in DOMAIN s
      BY <1>1, <2>3
    <3> QED BY <2>3, <3>1, StaysKept
  <2>5. StayBegan(r, j, n + 1)
    <3>1. \A i \in j..(n + 1) : i \in j..n \/ i = n + 1
      BY <1>1
    <3> QED BY <1>1, <2>4, <3>1 DEF StayBegan
  <2>6. j \in 1..Len(r) /\ st.enter = r[j].time
    BY <1>1, <2>3
  <2>7. StayKnown(r, alerts, st)
    <3>1. \E i \in 1..Len(r) : StayBegan(r, i, Len(r)) /\ st.enter = r[i].time
      BY <1>1, <2>5, <2>6
    <3> QED BY <2>2, <3>1 DEF StayKnown
  <2> QED BY <1>2, <1>3, <2>1, <2>7
<1>4. CASE ~st.inside
  <2> DEFINE e == [st EXCEPT !.inside = TRUE, !.enter = o.time, !.alerted = FALSE]
  <2>1. Entered(st) = e
    BY <1>4 DEF Entered
  <2>2. e \in TrackState /\ e.inside /\ e.enter = o.time /\ ~e.alerted
    BY <1>2 DEF TrackState
  <2> HIDE DEF e
  <2>3. StayBegan(r, n + 1, n + 1)
    <3>1. \A i \in (n + 1)..(n + 1) : i = n + 1
      BY <1>1
    <3>2. n + 1 = 1 \/ ~PointInPolygon(r[(n + 1) - 1].at)
      <4>1. n = 0 \/ ~PointInPolygon(s[n].at)
        BY <1>1, <1>4 DEF StateKnown
      <4>2. n # 0 => r[(n + 1) - 1] = s[n]
        BY <1>1
      <4> QED BY <1>1, <4>1, <4>2
    <3> QED BY <1>1, <3>1, <3>2 DEF StayBegan
  <2>4. \A a \in alerts : a < e.enter
    BY <2>2 DEF Before
  <2>5. \E i \in 1..Len(r) : StayBegan(r, i, Len(r)) /\ e.enter = r[i].time
    BY <1>1, <2>2, <2>3
  <2>6. StayKnown(r, alerts, e)
    BY <2>2, <2>4, <2>5 DEF StayKnown
  <2> QED BY <2>1, <2>2, <2>6
<1> QED BY <1>3, <1>4

(* The observations before are judged as they were: an alert now is none of *)
(* theirs.                                                                  *)
JudgedAt(s, alerts, k) ==
    /\ s[k].time \in alerts =>
          \E j \in 1..k : StayBegan(s, j, k)
                          /\ s[k].time - s[j].time >= loiter_time_sec
    /\ \A j \in 1..k :
          /\ StayBegan(s, j, k) /\ s[k].time - s[j].time >= loiter_time_sec
             => \E a \in alerts : a \in s[j].time..s[k].time
          /\ StayBegan(s, j, k) /\ s[k].time \in alerts
             => \A a \in alerts \intersect s[j].time..(s[k].time - 1) :
                   cooldown_sec > 0 /\ s[k].time - a >= cooldown_sec

(* LoiterRight judges each observation by itself.                           *)
LEMMA JudgedEach ==
    ASSUME NEW s, NEW alerts
    PROVE  LoiterRight(s, alerts) <=> \A k \in DOMAIN s : JudgedAt(s, alerts, k)
BY DEF LoiterRight, JudgedAt

(* An alert of now disturbs no judgement of an earlier observation.         *)
LEMMA JudgedBefore ==
    ASSUME NEW s, NEW o, NEW r, Longer(s, o, r), NEW alerts, Before(s, alerts, o.time),
           NEW later, later = alerts \/ later = alerts \union {o.time},
           NEW k \in DOMAIN s, JudgedAt(s, alerts, k)
    PROVE  JudgedAt(r, later, k)
<1>1. /\ k \in Nat /\ \A j \in 1..k : j \in DOMAIN s /\ r[j] = s[j]
      /\ r[k] = s[k]
  BY LongerDomains DEF Longer
<1>2. \A j \in 1..k : s[j].time \in Nat /\ s[j].time < o.time
  BY <1>1 DEF Before
<1>3. s[k].time \in Nat /\ s[k].time < o.time /\ o.time \in Nat
  BY DEF Before
<1>4. \A a \in later : a \in Nat
  BY <1>3 DEF Before
<1>5. \A a \in later : a =< s[k].time => a \in alerts
  BY <1>3
<1>6. alerts \subseteq later
  OBVIOUS
<1>7. s[k].time \in later <=> s[k].time \in alerts
  BY <1>3, <1>5, <1>6
<1>8. ASSUME NEW j \in 1..k
      PROVE  /\ StayBegan(r, j, k) <=> StayBegan(s, j, k)
             /\ r[j] = s[j] /\ s[j].time \in Nat
  BY <1>1, <1>2, StaysKept
<1>9. r[k].time \in later =>
        \E j \in 1..k : StayBegan(r, j, k) /\ r[k].time - r[j].time >= loiter_time_sec
  BY <1>1, <1>7, <1>8 DEF JudgedAt
<1>10. ASSUME NEW j \in 1..k, StayBegan(r, j, k), r[k].time - r[j].time >= loiter_time_sec
       PROVE  \E a \in later : a \in r[j].time..r[k].time
  BY <1>1, <1>6, <1>8, <1>10 DEF JudgedAt
<1>11. ASSUME NEW j \in 1..k, StayBegan(r, j, k), r[k].time \in later,
              NEW a \in later \intersect r[j].time..(r[k].time - 1)
       PROVE  cooldown_sec > 0 /\ r[k].time - a >= cooldown_sec
  <2>1. a \in alerts \intersect s[j].time..(s[k].time - 1)
    BY <1>1, <1>3, <1>4, <1>5, <1>8
  <2> QED BY <1>1, <1>7, <1>8, <1>11, <2>1 DEF JudgedAt
<1> QED BY <1>9, <1>10, <1>11 DEF JudgedAt

(* An alert is raised exactly when the stay is long enough and the last     *)
(* alert of it long enough ago.                                             *)
LEMMA InsideJudged ==
    ASSUME NEW s, NEW o, NEW r, Longer(s, o, r), NEW alerts, NEW st,
           Before(s, alerts, o.time), PointInPolygon(o.at), frameTime' = o.time,
           st \in TrackState, st.inside, StayKnown(r, alerts, st),
           NEW later, later = IF ShouldAlert(st) THEN alerts \union {o.time} ELSE alerts,
           NEW next, next = IF ShouldAlert(st)
                            THEN [st EXCEPT !.alerted = TRUE, !.last = o.time] ELSE st
    PROVE  JudgedAt(r, later, Len(s) + 1) /\ StateKnown(r, later, next)
<1> DEFINE n == Len(s)
           k == n + 1
           now == o.time
<1>1. /\ n \in Nat /\ k \in Nat /\ Len(r) = k /\ r[k] = o /\ now \in Nat
      /\ alerts \subseteq Nat /\ \A a \in alerts : a < now
      /\ loiter_time_sec \in Nat /\ cooldown_sec \in Nat
  BY LongerDomains, TrackingAssumption DEF Longer, Before
<1>2. PICK j \in 1..k : StayBegan(r, j, k) /\ st.enter = r[j].time
  BY <1>1 DEF StayKnown
<1>3. st.enter \in Nat /\ st.last \in Nat /\ st.enter =< now
  <2>1. st.enter \in Nat /\ st.last \in Nat
    BY DEF TrackState
  <2>2. r[j].time =< now
    <3>1. CASE j = k
      BY <1>1, <3>1
    <3>2. CASE j # k
      <4>1. DOMAIN s = 1..n /\ \A i \in DOMAIN s : r[i] = s[i]
        BY LongerDomains
      <4>2. j \in DOMAIN s /\ r[j] = s[j]
        BY <1>1, <3>2, <4>1
      <4> QED BY <1>1, <4>2 DEF Before
    <3> QED BY <3>1, <3>2
  <2> QED BY <1>2, <2>1, <2>2
<1>4. now \notin alerts
  BY <1>1
<1>5. IF st.alerted
      THEN /\ st.last \in alerts /\ st.enter =< st.last
           /\ \A a \in alerts : st.enter =< a => a =< st.last
      ELSE \A a \in alerts : a < st.enter
  BY DEF StayKnown
<1>6. ShouldAlert(st) <=>
        /\ now - st.enter >= loiter_time_sec
        /\ ~st.alerted \/ (cooldown_sec > 0 /\ now - st.last >= cooldown_sec)
  BY DEF ShouldAlert
<1>7. \A i \in 1..k : StayBegan(r, i, k) => i = j
  BY <1>1, <1>2, OneBeginning
<1> HIDE DEF n, k, now
<1>8. now \in later <=> ShouldAlert(st)
  BY <1>4 DEF now
<1>9. JudgedAt(r, later, k)
  <2>1. r[k].time = now
    BY <1>1 DEF now
  <2>2. now \in later => now - r[j].time >= loiter_time_sec
    BY <1>2, <1>6, <1>8
  <2>3. ASSUME now - r[j].time >= loiter_time_sec
        PROVE  \E a \in later : a \in r[j].time..now
    <3>1. CASE ShouldAlert(st)
      BY <1>1, <1>2, <1>3, <1>8, <3>1
    <3>2. CASE ~ShouldAlert(st)
      <4>1. st.alerted /\ later = alerts
        BY <1>2, <1>6, <2>3, <3>2
      <4>2. st.last \in alerts /\ st.enter =< st.last /\ st.last < now
        BY <1>1, <1>5, <4>1
      <4>3. st.last \in r[j].time..now
        BY <1>1, <1>2, <1>3, <4>2
      <4> QED BY <4>1, <4>2, <4>3
    <3> QED BY <3>1, <3>2
  <2>4. ASSUME now \in later, NEW a \in later \intersect r[j].time..(now - 1)
        PROVE  cooldown_sec > 0 /\ now - a >= cooldown_sec
    <3>1. ShouldAlert(st)
      BY <1>8, <2>4
    <3>2. a \in alerts /\ st.enter =< a /\ a \in Nat
      BY <1>1, <1>2, <1>3, <2>4, <3>1 DEF now
    <3>3. st.alerted /\ a =< st.last
      BY <1>1, <1>3, <1>5, <3>2
    <3>4. cooldown_sec > 0 /\ now - st.last >= cooldown_sec
      BY <1>6, <3>1, <3>3
    <3> QED BY <1>1, <1>3, <3>2, <3>3, <3>4
  <2> QED BY <1>2, <1>7, <2>1, <2>2, <2>3, <2>4 DEF JudgedAt
<1>10. PointInPolygon(r[Len(r)].at) /\ Len(r) > 0
  BY <1>1 DEF k
<1>11. \E i \in 1..Len(r) : StayBegan(r, i, Len(r)) /\ st.enter = r[i].time
  BY <1>1, <1>2
<1>12. StateKnown(r, later, next)
  <2>1. CASE ShouldAlert(st)
    <3>1. /\ next \in TrackState /\ next.inside /\ next.enter = st.enter
          /\ next.alerted /\ next.last = now
      BY <1>1, <2>1 DEF TrackState, now
    <3>2. later = alerts \union {now}
      BY <2>1 DEF now
    <3>3. StayKnown(r, later, next)
      BY <1>1, <1>3, <1>11, <3>1, <3>2 DEF StayKnown
    <3> QED BY <1>10, <3>1, <3>3 DEF StateKnown
  <2>2. CASE ~ShouldAlert(st)
    BY <1>10, <2>2 DEF StateKnown
  <2> QED BY <2>1, <2>2
<1> QED BY <1>9, <1>12 DEF n, k

(* No alert outside.                                                        *)
LEMMA OutsideJudged ==
    ASSUME NEW s, NEW o, NEW r, Longer(s, o, r), NEW alerts, NEW st,
           StateKnown(s, alerts, st), Before(s, alerts, o.time), ~PointInPolygon(o.at)
    PROVE  /\ JudgedAt(r, alerts, Len(s) + 1) /\ StateKnown(r, alerts, Left(st))
           /\ ~Left(st).inside
<1> DEFINE k == Len(s) + 1
<1>1. Len(s) \in Nat /\ k \in Nat /\ Len(r) = k /\ r[k] = o /\ o.time \notin alerts
  BY LongerDomains DEF Longer, Before
<1>2. \A j \in 1..k : ~StayBegan(r, j, k)
  <2>1. \A j \in 1..k : k \in j..k
    BY <1>1
  <2> QED BY <1>1, <2>1 DEF StayBegan
<1>3. JudgedAt(r, alerts, k)
  BY <1>1, <1>2 DEF JudgedAt
<1>4. Left(st) \in TrackState /\ ~Left(st).inside
  BY DEF Left, StateKnown, TrackState
<1>5. StateKnown(r, alerts, Left(st))
  BY <1>1, <1>4 DEF StateKnown
<1> QED BY <1>3, <1>4, <1>5

-----------------------------------------------------------------------------
(* The invariant.                                                           *)

EvaluatorTypes == {"kCrossLine", "kObjectCounting", "kRegionIntrusion", "kLoitering"}

HistoryOK ==
    /\ frameTime \in Nat
    /\ seen \in [DOMAIN seen -> Seq(Observation)]
    /\ DOMAIN tracks_ \subseteq DOMAIN seen
    /\ DOMAIN seen \subseteq 1..(next_track_id_ - 1)
    /\ \A t \in DOMAIN seen :
          /\ \A i \in DOMAIN seen[t] : seen[t][i].time =< frameTime
          /\ \A i, j \in DOMAIN seen[t] : i < j => seen[t][i].time < seen[t][j].time
    /\ IsFiniteSet(reported)
    /\ \A e \in reported :
          /\ e = [track |-> e.track, time |-> e.time, what |-> e.what]
          /\ e.track \in DOMAIN seen /\ e.time \in Nat /\ e.time =< frameTime

OldSeen(t) == IF t \in DOMAIN seen THEN seen[t] ELSE <<>>

Now(tracks, t) == [time |-> frameTime', at |-> tracks[t].at, age |-> tracks[t].age]

Observed(tracks) ==
    /\ DOMAIN seen' = DOMAIN seen \union DOMAIN tracks
    /\ seen' = [t \in DOMAIN seen' |-> seen'[t]]
    /\ \A t \in DOMAIN seen' :
          IF t \in Active(tracks) THEN Longer(OldSeen(t), Now(tracks, t), seen'[t])
          ELSE seen'[t] = OldSeen(t)

(* Observe adds one observation to the active tracks.                       *)
LEMMA ObserveOutcome ==
    ASSUME HistoryOK, NEW tracks, NEW n, UpdatedTracks(tracks, n),
           frameTime' = frameTime + 1, Observe(tracks)
    PROVE  Observed(tracks)
<1>1. DOMAIN seen' = DOMAIN seen \union DOMAIN tracks /\ seen' = [t \in DOMAIN seen' |-> seen'[t]]
  BY DEF Observe
<1>2. ASSUME NEW t \in DOMAIN seen'
      PROVE  IF t \in Active(tracks) THEN Longer(OldSeen(t), Now(tracks, t), seen'[t])
             ELSE seen'[t] = OldSeen(t)
  <2>1. PICK s : s = OldSeen(t)
    OBVIOUS
  <2>2. s \in Seq(Observation)
    BY <2>1 DEF OldSeen, HistoryOK
  <2>3. CASE t \in Active(tracks)
    <3>1. PICK o : o = Now(tracks, t)
      OBVIOUS
    <3>2. seen'[t] = s \o <<o>>
      BY <1>1, <1>2, <2>1, <2>3, <3>1 DEF Observe, OldSeen, Now
    <3>3. o \in Observation
      <4>1. tracks[t] \in Track
        BY <2>3 DEF UpdatedTracks, Active
      <4>2. frameTime' \in Nat
        BY DEF HistoryOK
      <4> QED BY <3>1, <4>1, <4>2 DEF Track, Now, Observation
    <3>4. PICK r : r = s \o <<o>>
      OBVIOUS
    <3>5. /\ r \in Seq(Observation) /\ Len(r) = Len(s) + 1 /\ r[Len(s) + 1] = o
          /\ \A i \in 1..Len(s) : r[i] = s[i]
      BY <2>2, <3>3, <3>4
    <3>6. Longer(s, o, r)
      BY <2>2, <3>3, <3>5 DEF Longer
    <3> QED BY <2>1, <2>3, <3>1, <3>2, <3>4, <3>6
  <2>4. CASE t \notin Active(tracks)
    <3>1. seen'[t] = s \o <<>>
      BY <1>1, <1>2, <2>1, <2>4 DEF Observe, OldSeen
    <3>2. s \o <<>> = s
      BY <2>2
    <3> QED BY <2>1, <2>4, <3>1, <3>2
  <2> QED BY <2>3, <2>4
<1> QED BY <1>1, <1>2 DEF Observed

(* Events of this frame, at most one per track.                             *)
NewReports(A, w) ==
    reported' = reported \union {[track |-> t, time |-> frameTime', what |-> w[t]] : t \in A}

(* What is reported of one track after a frame that reports of the tracks   *)
(* of A.                                                                    *)
LEMMA ReportsStep ==
    ASSUME NEW A, NEW w, NewReports(A, w), NEW t
    PROVE  Reports(t)' = Reports(t) \union
             (IF t \in A THEN {[time |-> frameTime', what |-> w[t]]} ELSE {})
<1> DEFINE cut(e) == [time |-> e.time, what |-> e.what]
           new(u) == [track |-> u, time |-> frameTime', what |-> w[u]]
<1>1. \A u : cut(new(u)) = [time |-> frameTime', what |-> w[u]] /\ new(u).track = u
  OBVIOUS
<1>2. /\ Reports(t)' = {cut(e) : e \in {f \in reported' : f.track = t}}
      /\ Reports(t) = {cut(e) : e \in {f \in reported : f.track = t}}
      /\ reported' = reported \union {new(u) : u \in A}
  BY DEF Reports, NewReports
<1> HIDE DEF cut, new
<1>3. {cut(e) : e \in {f \in reported' : f.track = t}} =
        {cut(e) : e \in {f \in reported : f.track = t}} \union
        (IF t \in A THEN {cut(new(t))} ELSE {})
  <2>1. ASSUME NEW x \in {cut(e) : e \in {f \in reported' : f.track = t}}
        PROVE  x \in {cut(e) : e \in {f \in reported : f.track = t}} \union
                       (IF t \in A THEN {cut(new(t))} ELSE {})
    <3>1. PICK e \in reported' : e.track = t /\ x = cut(e)
      OBVIOUS
    <3>2. CASE e \in reported
      BY <3>1, <3>2
    <3>3. CASE e \notin reported
      <4>1. PICK u \in A : e = new(u)
        BY <1>2, <3>1, <3>3
      <4> QED BY <1>1, <3>1, <4>1
    <3> QED BY <3>2, <3>3
  <2>2. ASSUME NEW x \in {cut(e) : e \in {f \in reported : f.track = t}} \union
                          (IF t \in A THEN {cut(new(t))} ELSE {})
        PROVE  x \in {cut(e) : e \in {f \in reported' : f.track = t}}
    <3>1. CASE x \in {cut(e) : e \in {f \in reported : f.track = t}}
      BY <1>2, <3>1
    <3>2. CASE t \in A /\ x = cut(new(t))
      BY <1>1, <1>2, <3>2
    <3> QED BY <3>1, <3>2
  <2> QED BY <2>1, <2>2
<1> QED BY <1>1, <1>2, <1>3

(* A frame keeps the tracks' types and the histories ordered in time,       *)
(* whatever it reports of its active tracks.                                *)
LEMMA HistoryStep ==
    ASSUME TracksOK, HistoryOK, NEW tracks, NEW n, UpdatedTracks(tracks, n),
           frameTime' = frameTime + 1, tracks_' = tracks, next_track_id_' = next_track_id_ + n,
           Observed(tracks), NEW A \in SUBSET Active(tracks), NEW w, NewReports(A, w)
    PROVE  TracksOK' /\ HistoryOK' /\ GivenOnce(tracks_)'
<1>1. frameTime \in Nat /\ next_track_id_ \in Nat \ {0} /\ n \in Nat
  BY DEF HistoryOK, TracksOK, UpdatedTracks
<1>2. ASSUME NEW t \in DOMAIN tracks PROVE t \in 1..(next_track_id_ + n - 1)
  BY <1>1 DEF UpdatedTracks, TracksOK
<1>3. TracksOK'
  BY <1>1, <1>2 DEF TracksOK, UpdatedTracks
<1>4. GivenOnce(tracks_)'
  BY DEF GivenOnce, UpdatedTracks
<1>5. DOMAIN seen' = DOMAIN seen \union DOMAIN tracks
  BY DEF Observed
<1>6. DOMAIN seen' \subseteq 1..(next_track_id_' - 1)
  <2>1. ASSUME NEW t \in DOMAIN seen PROVE t \in 1..(next_track_id_ + n - 1)
    BY <1>1 DEF HistoryOK
  <2>2. next_track_id_' - 1 = next_track_id_ + n - 1
    BY <1>1
  <2>3. ASSUME NEW t \in DOMAIN seen' PROVE t \in 1..(next_track_id_ + n - 1)
    BY <1>2, <1>5, <2>1
  <2> QED BY <2>2, <2>3
<1>7. ASSUME NEW t \in DOMAIN seen'
      PROVE  /\ seen'[t] \in Seq(Observation)
             /\ \A i \in DOMAIN seen'[t] : seen'[t][i].time =< frameTime'
             /\ \A i, j \in DOMAIN seen'[t] : i < j => seen'[t][i].time < seen'[t][j].time
  <2>1. PICK s : s = OldSeen(t)
    OBVIOUS
  <2>2. /\ s \in Seq(Observation)
        /\ \A i \in DOMAIN s : s[i].time \in Nat /\ s[i].time =< frameTime
        /\ \A i, j \in DOMAIN s : i < j => s[i].time < s[j].time
    <3>1. CASE t \in DOMAIN seen
      <4>1. s = seen[t] /\ s \in Seq(Observation)
        BY <2>1, <3>1 DEF OldSeen, HistoryOK
      <4>2. \A i \in DOMAIN s : s[i] \in Observation
        BY <4>1
      <4> QED BY <3>1, <4>1, <4>2 DEF HistoryOK, Observation
    <3>2. CASE t \notin DOMAIN seen
      BY <2>1, <3>2 DEF OldSeen
    <3> QED BY <3>1, <3>2
  <2>3. CASE t \in Active(tracks)
    <3>1. PICK r, o : r = seen'[t] /\ o = Now(tracks, t)
      OBVIOUS
    <3>2. Longer(s, o, r) /\ o.time = frameTime'
      BY <1>7, <2>1, <2>3, <3>1 DEF Observed, Now
    <3>3. /\ Len(s) \in Nat /\ DOMAIN s = 1..Len(s) /\ DOMAIN r = 1..(Len(s) + 1)
          /\ \A k \in DOMAIN s : r[k] = s[k]
          /\ r[Len(s) + 1] = o /\ r \in Seq(Observation)
      BY <3>2, LongerDomains DEF Longer
    <3>4. ASSUME NEW i \in DOMAIN r
          PROVE  \/ i \in DOMAIN s /\ r[i] = s[i] /\ r[i].time =< frameTime /\ r[i].time \in Nat
                 \/ i = Len(s) + 1 /\ r[i].time = frameTime'
      BY <2>2, <3>2, <3>3
    <3>5. \A i \in DOMAIN r : r[i].time =< frameTime'
      BY <1>1, <3>4
    <3>6. ASSUME NEW i \in DOMAIN r, NEW j \in DOMAIN r, i < j
          PROVE  r[i].time < r[j].time
      <4>1. i \in DOMAIN s /\ r[i] = s[i] /\ r[i].time =< frameTime /\ r[i].time \in Nat
        BY <3>3, <3>4, <3>6
      <4>2. CASE j \in DOMAIN s
        BY <2>2, <3>3, <3>6, <4>1, <4>2
      <4>3. CASE j \notin DOMAIN s
        BY <1>1, <3>4, <4>1, <4>3
      <4> QED BY <4>2, <4>3
    <3> QED BY <3>1, <3>3, <3>5, <3>6
  <2>4. CASE t \notin Active(tracks)
    <3>1. seen'[t] = s
      BY <1>7, <2>1, <2>4 DEF Observed
    <3>2. \A i \in DOMAIN s : s[i].time =< frameTime'
      BY <1>1, <2>2
    <3> QED BY <2>2, <3>1, <3>2
  <2> QED BY <2>3, <2>4
<1>8. IsFiniteSet(reported') /\ IsFiniteSet(A)
  <2>1. IsFiniteSet(A)
    <3>1. IsFiniteSet(1..(next_track_id_ + n - 1))
      BY <1>1, FS_Interval
    <3>2. A \subseteq 1..(next_track_id_ + n - 1)
      BY <1>2 DEF Active
    <3> QED BY <3>1, <3>2, FS_Subset
  <2> DEFINE new == [t \in A |-> [track |-> t, time |-> frameTime', what |-> w[t]]]
             N == {new[t] : t \in A}
  <2>2. new \in Surjection(A, N)
    BY DEF Surjection
  <2>3. IsFiniteSet(N)
    <3> HIDE DEF N, new
    <3> QED BY <2>1, <2>2, FS_Surjection
  <2>4. reported' = reported \union N
    BY DEF NewReports
  <2> HIDE DEF N
  <2> QED BY <2>1, <2>3, <2>4, FS_Union DEF HistoryOK
<1>9. ASSUME NEW e \in reported'
      PROVE  /\ e = [track |-> e.track, time |-> e.time, what |-> e.what]
             /\ e.track \in DOMAIN seen' /\ e.time \in Nat /\ e.time =< frameTime'
  <2>1. CASE e \in reported
    BY <1>1, <1>5, <2>1 DEF HistoryOK
  <2>2. CASE e \notin reported
    <3>1. PICK t \in A : e = [track |-> t, time |-> frameTime', what |-> w[t]]
      BY <1>9, <2>2 DEF NewReports
    <3>2. t \in DOMAIN seen'
      BY <1>5 DEF Active
    <3> QED BY <1>1, <3>1, <3>2
  <2> QED BY <2>1, <2>2
<1>10. seen' \in [DOMAIN seen' -> Seq(Observation)]
  BY <1>7 DEF Observed
<1>11. frameTime' \in Nat /\ DOMAIN tracks_' \subseteq DOMAIN seen'
  BY <1>1, <1>5
<1>12. HistoryOK'
  BY <1>6, <1>7, <1>8, <1>9, <1>10, <1>11 DEF HistoryOK
<1> QED BY <1>3, <1>4, <1>12

(* The events of one kind: those of this frame are new.                     *)
OfKind(R, x) == {e \in R : e.what = x}

(* A frame adds as many events of one kind as it has tracks that report it: *)
(* no event was reported before.                                            *)
LEMMA CountStep ==
    ASSUME HistoryOK, frameTime' = frameTime + 1, NEW A, IsFiniteSet(A), NEW w,
           NewReports(A, w), NEW x, NEW B, B = {t \in A : w[t] = x}
    PROVE  Cardinality(OfKind(reported', x)) =
             Cardinality(OfKind(reported, x)) + Cardinality(B)
<1> DEFINE old == {e \in reported : e.what = x}
           new == [t \in B |-> [track |-> t, time |-> frameTime', what |-> w[t]]]
           N == {new[t] : t \in B}
<1>1. IsFiniteSet(B) /\ IsFiniteSet(old)
  BY FS_Subset DEF HistoryOK
<1>2. new \in Surjection(B, N) /\ new \in Injection(B, N)
  BY DEF Surjection, Injection, IsInjective
<1>3. IsFiniteSet(N) /\ Cardinality(N) = Cardinality(B)
  <2> HIDE DEF N, new
  <2> QED BY <1>1, <1>2, FS_Surjection
<1>4. {e \in reported' : e.what = x} = old \union N
  <2> DEFINE all == {[track |-> t, time |-> frameTime', what |-> w[t]] : t \in A}
  <2>1. \A e \in all : \E t \in A : e = [track |-> t, time |-> frameTime', what |-> w[t]] /\ e.what = w[t]
    OBVIOUS
  <2>2. {e \in all : e.what = x} = N
    <3>1. ASSUME NEW e \in all, e.what = x PROVE e \in N
      <4>1. PICK t \in A : e = [track |-> t, time |-> frameTime', what |-> w[t]] /\ e.what = w[t]
        BY <2>1
      <4>2. t \in B /\ e = new[t]
        BY <3>1, <4>1
      <4> QED BY <4>2
    <3>2. ASSUME NEW t \in B PROVE new[t] \in all /\ new[t].what = x
      OBVIOUS
    <3>3. ASSUME NEW e \in N PROVE e \in {f \in all : f.what = x}
      <4>1. PICK t \in B : e = new[t]
        OBVIOUS
      <4> HIDE DEF new, all
      <4> QED BY <3>2, <4>1
    <3>4. {e \in all : e.what = x} \subseteq N
      BY <3>1
    <3> QED BY <3>3, <3>4
  <2>3. reported' = reported \union all
    BY DEF NewReports
  <2> HIDE DEF all, N
  <2> QED BY <2>2, <2>3
<1>5. old \intersect N = {}
  <2>1. \A e \in old : e.time =< frameTime
    BY DEF HistoryOK
  <2>2. ASSUME NEW e \in N PROVE e.time = frameTime'
    <3>1. PICK t \in B : e = new[t]
      OBVIOUS
    <3>2. new[t].time = frameTime'
      OBVIOUS
    <3> QED BY <3>1, <3>2
  <2>3. frameTime \in Nat
    BY DEF HistoryOK
  <2> HIDE DEF old, N
  <2> QED BY <2>1, <2>2, <2>3
<1>6. /\ Cardinality(old) \in Nat /\ Cardinality(B) \in Nat
      /\ Cardinality({}) = 0
  BY <1>1, FS_CardinalityType, FS_EmptySet
<1>7. Cardinality(old \union N) = Cardinality(old) + Cardinality(N) - Cardinality(old \intersect N)
  <2> HIDE DEF old, N
  <2> QED BY <1>1, <1>3, FS_Union
<1>8. Cardinality(old \intersect N) = 0
  BY <1>5, <1>6, Zenon
<1>9. Cardinality(old \union N) = Cardinality(old) + Cardinality(B)
  <2> HIDE DEF old, N
  <2> QED BY <1>3, <1>6, <1>7, <1>8
<1> QED BY <1>4, <1>9 DEF OfKind

-----------------------------------------------------------------------------
(* Lines.                                                                   *)

(* The evaluator remembers the side on which a track was last seen.         *)
SideKnown(last, s, t) ==
    /\ t \in DOMAIN last <=> \E k : LastOff(s, k)
    /\ \A k : LastOff(s, k) => last[t] = Side(s[k].at)

(* If the evaluator updates what it remembers of a track exactly when it is *)
(* off the line, it still knows the last side.                              *)
LEMMA SideKnownGrows ==
    ASSUME NEW s, NEW o, NEW r, Longer(s, o, r), NEW t, NEW last, SideKnown(last, s, t),
           NEW later,
           OffLine(o) => t \in DOMAIN later /\ later[t] = Side(o.at),
           ~OffLine(o) => /\ t \in DOMAIN later <=> t \in DOMAIN last
                          /\ t \in DOMAIN last => later[t] = last[t]
    PROVE  SideKnown(later, r, t)
<1>1. CASE OffLine(o)
  <2>1. \A k : LastOff(r, k) <=> k = Len(s) + 1
    BY <1>1, LastOffGrows
  <2>2. r[Len(s) + 1] = o
    BY DEF Longer
  <2> QED BY <1>1, <2>1, <2>2 DEF SideKnown
<1>2. CASE ~OffLine(o)
  <2>1. \A k : LastOff(r, k) <=> LastOff(s, k)
    BY <1>2, LastOffGrows
  <2>2. ASSUME NEW k, LastOff(s, k) PROVE r[k] = s[k]
    <3>1. k \in DOMAIN s
      BY <2>2 DEF LastOff
    <3> QED BY <3>1, LongerDomains
  <2>3. t \in DOMAIN last <=> \E k : LastOff(s, k)
    BY DEF SideKnown
  <2>4. ASSUME NEW k, LastOff(r, k) PROVE later[t] = Side(r[k].at)
    <3>1. LastOff(s, k) /\ r[k] = s[k]
      BY <2>1, <2>2, <2>4
    <3>2. last[t] = Side(s[k].at)
      BY <3>1 DEF SideKnown
    <3> QED BY <1>2, <2>3, <3>1, <3>2
  <2>5. t \in DOMAIN later <=> \E k : LastOff(r, k)
    BY <1>2, <2>1, <2>3
  <2> QED BY <2>4, <2>5 DEF SideKnown
<1> QED BY <1>1, <1>2

LineInv ==
    /\ DOMAIN last_side_ \subseteq DOMAIN seen
    /\ \A t \in DOMAIN seen : Reports(t) = ExpectedCrossings(seen[t])
    /\ \A t \in DOMAIN tracks_ : SideKnown(last_side_, seen[t], t)
    /\ evaluator.type = "kObjectCounting" =>
          /\ count_a_to_b_ = Cardinality({e \in reported : e.what = "A_to_B"})
          /\ count_b_to_a_ = Cardinality({e \in reported : e.what = "B_to_A"})

(* A new track has no past.                                                 *)
LEMMA FreshUnknown ==
    ASSUME TracksOK, HistoryOK, NEW tracks, NEW n, UpdatedTracks(tracks, n),
           NEW t \in DOMAIN tracks, t \notin DOMAIN tracks_
    PROVE  t \notin DOMAIN seen /\ OldSeen(t) = <<>>
<1>1. t \in next_track_id_..(next_track_id_ + n - 1) /\ next_track_id_ \in Nat /\ n \in Nat
  BY DEF UpdatedTracks, TracksOK
<1>2. t \notin DOMAIN seen
  BY <1>1 DEF HistoryOK
<1> QED BY <1>2 DEF OldSeen

(* A side is one of the two, or the line.                                   *)
LEMMA SideType ==
    ASSUME NEW p
    PROVE  Side(p) \in {-1, 0, 1}
BY DEF Side

(* Before the frame the sides of all tracks are known.                      *)
LEMMA SidesKnown ==
    ASSUME TracksOK, HistoryOK, LineInv, NEW tracks, NEW n, UpdatedTracks(tracks, n),
           NEW t \in DOMAIN tracks
    PROVE  SideKnown(last_side_, OldSeen(t), t)
<1>1. CASE t \in DOMAIN tracks_
  <2>1. t \in DOMAIN seen /\ OldSeen(t) = seen[t]
    BY <1>1 DEF HistoryOK, OldSeen
  <2> QED BY <1>1, <2>1 DEF LineInv
<1>2. CASE t \notin DOMAIN tracks_
  <2>1. t \notin DOMAIN seen /\ OldSeen(t) = <<>>
    BY <1>2, FreshUnknown
  <2>2. t \notin DOMAIN last_side_
    BY <2>1 DEF LineInv
  <2>3. \A k : ~LastOff(<<>>, k)
    BY DEF LastOff
  <2> QED BY <2>1, <2>2, <2>3 DEF SideKnown
<1> QED BY <1>1, <1>2

(* A frame evaluated for crossings keeps LineInv: of each track seen, it    *)
(* reports the crossing its new position means, and a counter grows by the  *)
(* crossings of its direction.                                              *)
LEMMA LineStep ==
    ASSUME TracksOK, HistoryOK, LineInv, NEW tracks, NEW n, UpdatedTracks(tracks, n),
           frameTime' = frameTime + 1, tracks_' = tracks, next_track_id_' = next_track_id_ + n,
           evaluator' = evaluator, Observed(tracks), NEW found,
           ~(evaluator.type = "kCrossLine" /\ found = {}), EvaluateLine(found, tracks)
    PROVE  TracksOK' /\ HistoryOK' /\ GivenOnce(tracks_)' /\ LineInv'
<1>1. PICK sides : sides = OnSide(tracks)
  OBVIOUS
<1>2. PICK crossed : crossed = Crossings(sides)
  OBVIOUS
<1>3. PICK A : A = {t \in crossed : Reportable(sides[t])}
  OBVIOUS
<1>4. PICK w : w = [t \in A |-> Direction(sides[t])]
  OBVIOUS
<1>5. /\ DOMAIN sides = {t \in Active(tracks) : tracks[t].age >= 2 /\ Side(tracks[t].at) # 0}
      /\ \A t \in DOMAIN sides : sides[t] = Side(tracks[t].at)
  BY <1>1 DEF OnSide
<1>6. /\ crossed = {t \in DOMAIN sides \intersect DOMAIN last_side_ : last_side_[t] # sides[t]}
      /\ crossed \subseteq Active(tracks) /\ A \in SUBSET Active(tracks)
      /\ Active(tracks) \subseteq DOMAIN tracks
  BY <1>2, <1>3, <1>5 DEF Crossings, Active
<1>7. NewReports(A, w)
  BY <1>1, <1>2, <1>3, <1>4 DEF EvaluateLine, NewReports, Event
<1>8. TracksOK' /\ HistoryOK' /\ GivenOnce(tracks_)'
  BY <1>6, <1>7, HistoryStep
<1>9. last_side_' = Remember(last_side_, sides, tracks)
  BY <1>1 DEF EvaluateLine, SidesSeen
<1>10. DOMAIN seen' = DOMAIN seen \union DOMAIN tracks
  BY DEF Observed
<1>11. DOMAIN last_side_' \subseteq DOMAIN seen'
  BY <1>9, <1>10 DEF Remember
<1>12. ASSUME NEW t \in Active(tracks), NEW s, NEW o, NEW r, s = OldSeen(t),
              o = Now(tracks, t), r = seen'[t]
       PROVE  /\ Longer(s, o, r)
              /\ t \in DOMAIN sides <=> OffLine(o)
              /\ t \in DOMAIN sides => sides[t] = Side(o.at)
              /\ t \in crossed <=> CrossesAgain(s, o)
              /\ o.time = frameTime'
  <2>1. Longer(s, o, r)
    BY <1>6, <1>10, <1>12 DEF Observed
  <2>2. /\ o.time = frameTime' /\ o.age = tracks[t].age /\ o.at = tracks[t].at
    BY <1>12 DEF Now
  <2>3. /\ t \in DOMAIN sides <=> OffLine(o)
        /\ t \in DOMAIN sides => sides[t] = Side(o.at)
    BY <1>5, <2>2 DEF OffLine
  <2>4. SideKnown(last_side_, s, t)
    BY <1>6, <1>12, SidesKnown
  <2>5. t \in crossed <=> CrossesAgain(s, o)
    BY <1>6, <2>3, <2>4 DEF SideKnown, CrossesAgain
  <2> QED BY <2>1, <2>2, <2>3, <2>5
<1>13. ASSUME NEW t \in DOMAIN tracks PROVE SideKnown(last_side_', seen'[t], t)
  <2>1. PICK s : s = OldSeen(t)
    OBVIOUS
  <2>2. PICK r : r = seen'[t]
    OBVIOUS
  <2>3. SideKnown(last_side_, s, t)
    BY <2>1, SidesKnown
  <2>4. /\ t \in DOMAIN last_side_' <=> t \in DOMAIN last_side_ \/ t \in DOMAIN sides
        /\ t \in DOMAIN sides => last_side_'[t] = sides[t]
        /\ t \in DOMAIN last_side_ /\ t \notin DOMAIN sides => last_side_'[t] = last_side_[t]
    BY <1>9 DEF Remember
  <2>5. CASE t \in Active(tracks)
    <3>1. PICK o : o = Now(tracks, t)
      OBVIOUS
    <3>2. /\ Longer(s, o, r)
          /\ t \in DOMAIN sides <=> OffLine(o)
          /\ t \in DOMAIN sides => sides[t] = Side(o.at)
      BY <1>12, <2>1, <2>2, <2>5, <3>1
    <3>3. r[Len(s) + 1] = o
      BY <3>2 DEF Longer
    <3>4. Longer(s, o, r)
      BY <3>2
    <3>5. OffLine(o) => t \in DOMAIN last_side_' /\ last_side_'[t] = Side(o.at)
      BY <2>4, <3>2
    <3>6. ~OffLine(o) => /\ t \in DOMAIN last_side_' <=> t \in DOMAIN last_side_
                         /\ t \in DOMAIN last_side_ => last_side_'[t] = last_side_[t]
      BY <2>4, <3>2
    <3>7. PICK later : later = last_side_'
      OBVIOUS
    <3>8. SideKnown(later, r, t)
      BY <2>3, <3>4, <3>5, <3>6, <3>7, SideKnownGrows
    <3> QED BY <2>2, <3>7, <3>8
  <2>6. CASE t \notin Active(tracks)
    <3>1. r = s
      BY <1>10, <2>1, <2>2, <2>6 DEF Observed
    <3>2. t \notin DOMAIN sides
      BY <1>5, <2>6
    <3>3. SideKnown(last_side_', s, t)
      BY <2>3, <2>4, <3>2 DEF SideKnown
    <3> QED BY <2>2, <3>1, <3>3
  <2> QED BY <2>5, <2>6
<1>14. ASSUME NEW t \in DOMAIN seen'
       PROVE  Reports(t)' = ExpectedCrossings(seen[t])'
  <2>1. PICK s : s = OldSeen(t)
    OBVIOUS
  <2>2. PICK r : r = seen'[t]
    OBVIOUS
  <2>3. ExpectedCrossings(seen[t])' = ExpectedCrossings(r)
    BY <2>2 DEF ExpectedCrossings, Reportable
  <2>4. Reports(t)' = Reports(t) \union
             (IF t \in A THEN {[time |-> frameTime', what |-> w[t]]} ELSE {})
    BY <1>7, ReportsStep
  <2>5. Reports(t) = ExpectedCrossings(s)
    <3>1. CASE t \in DOMAIN seen
      BY <2>1, <3>1 DEF OldSeen, LineInv
    <3>2. CASE t \notin DOMAIN seen
      <4>1. Reports(t) = {}
        BY <3>2 DEF Reports, HistoryOK
      <4>2. s = <<>>
        BY <2>1, <3>2 DEF OldSeen
      <4>3. ExpectedCrossings(<<>>) = {}
        BY DEF ExpectedCrossings
      <4> QED BY <4>1, <4>2, <4>3
    <3> QED BY <3>1, <3>2
  <2>6. CASE t \in Active(tracks)
    <3>1. PICK o : o = Now(tracks, t)
      OBVIOUS
    <3>2. /\ Longer(s, o, r)
          /\ t \in DOMAIN sides => sides[t] = Side(o.at)
          /\ t \in crossed <=> CrossesAgain(s, o)
          /\ o.time = frameTime'
      BY <1>12, <2>1, <2>2, <2>6, <3>1
    <3>3. t \in A <=> CrossesAgain(s, o) /\ Reportable(Side(o.at))
      BY <1>3, <1>6, <3>2
    <3>4. t \in A => w[t] = Direction(Side(o.at))
      BY <1>3, <1>4, <1>6, <3>2
    <3>5. ExpectedCrossings(r) = ExpectedCrossings(s) \union
               (IF CrossesAgain(s, o) /\ Reportable(Side(o.at))
                THEN {[time |-> o.time, what |-> Direction(Side(o.at))]} ELSE {})
      BY <3>2, CrossingsGrow
    <3>6. CASE t \in A
      BY <2>3, <2>4, <2>5, <3>2, <3>3, <3>4, <3>5, <3>6
    <3>7. CASE t \notin A
      BY <2>3, <2>4, <2>5, <3>3, <3>5, <3>7
    <3> QED BY <3>6, <3>7
  <2>7. CASE t \notin Active(tracks)
    <3>1. r = s /\ t \notin A
      BY <1>6, <2>1, <2>2, <2>7 DEF Observed
    <3> QED BY <2>3, <2>4, <2>5, <3>1
  <2> QED BY <2>6, <2>7
<1>15. ASSUME evaluator.type = "kObjectCounting"
       PROVE  /\ count_a_to_b_' = Cardinality({e \in reported' : e.what = "A_to_B"})
              /\ count_b_to_a_' = Cardinality({e \in reported' : e.what = "B_to_A"})
  <2>1. A = crossed
    BY <1>3, <1>15 DEF Reportable
  <2>2. ASSUME NEW t \in crossed
        PROVE  /\ w[t] = "A_to_B" <=> sides[t] < 0
               /\ w[t] = "B_to_A" <=> sides[t] > 0
    <3>1. sides[t] \in {-1, 1}
      BY <1>5, <1>6, SideType
    <3>2. w[t] = Direction(sides[t])
      BY <1>4, <2>1
    <3> QED BY <3>1, <3>2 DEF Direction
  <2>3. /\ {t \in A : w[t] = "A_to_B"} = {t \in crossed : sides[t] < 0}
        /\ {t \in A : w[t] = "B_to_A"} = {t \in crossed : sides[t] > 0}
    BY <2>1, <2>2
  <2>4. IsFiniteSet(A)
    <3>1. PICK top \in Int : top = next_track_id_' - 1
      BY <1>8 DEF TracksOK
    <3>2. A \subseteq 1..top
      BY <1>6, <1>8, <3>1 DEF TracksOK
    <3>3. IsFiniteSet(1..top)
      BY FS_Interval
    <3> QED BY <3>2, <3>3, FS_Subset
  <2>5. /\ Cardinality(OfKind(reported', "A_to_B")) =
             Cardinality(OfKind(reported, "A_to_B"))
               + Cardinality({t \in crossed : sides[t] < 0})
        /\ Cardinality(OfKind(reported', "B_to_A")) =
             Cardinality(OfKind(reported, "B_to_A"))
               + Cardinality({t \in crossed : sides[t] > 0})
    BY <1>7, <2>3, <2>4, CountStep
  <2>6. /\ count_a_to_b_' = count_a_to_b_ + Cardinality({t \in crossed : sides[t] < 0})
        /\ count_b_to_a_' = count_b_to_a_ + Cardinality({t \in crossed : sides[t] > 0})
    BY <1>1, <1>2, <1>15 DEF EvaluateLine
  <2>7. /\ count_a_to_b_ = Cardinality({e \in reported : e.what = "A_to_B"})
        /\ count_b_to_a_ = Cardinality({e \in reported : e.what = "B_to_A"})
    BY <1>15 DEF LineInv
  <2> QED BY <2>5, <2>6, <2>7 DEF OfKind
<1>16. LineInv'
  BY <1>11, <1>13, <1>14, <1>15 DEF LineInv
<1> QED BY <1>8, <1>16

(* CrossLineEvaluator returns early when nothing was found: the tracks have *)
(* grown older, and some are gone.                                          *)
LEMMA SkippedStep ==
    ASSUME TracksOK, HistoryOK, LineInv, NEW tracks, UpdatedTracks(tracks, 0),
           frameTime' = frameTime + 1, tracks_' = tracks, next_track_id_' = next_track_id_ + 0,
           UNCHANGED <<evaluator, seen, last_side_, count_a_to_b_, count_b_to_a_, reported>>
    PROVE  TracksOK' /\ HistoryOK' /\ GivenOnce(tracks_)' /\ LineInv'
<1>1. next_track_id_ \in Nat \ {0} /\ next_track_id_' = next_track_id_ /\ frameTime \in Nat
  BY DEF TracksOK, HistoryOK
<1>2. DOMAIN tracks \subseteq DOMAIN tracks_
  BY <1>1 DEF UpdatedTracks
<1>3. TracksOK' /\ GivenOnce(tracks_)'
  BY <1>1, <1>2 DEF TracksOK, UpdatedTracks, GivenOnce
<1>4. ASSUME NEW e \in reported PROVE e.time =< frameTime'
  BY <1>1 DEF HistoryOK
<1>5. ASSUME NEW t \in DOMAIN seen, NEW i \in DOMAIN seen[t]
      PROVE  seen[t][i].time =< frameTime'
  <2>1. seen[t] \in Seq(Observation)
    BY DEF HistoryOK
  <2>2. seen[t][i] \in Observation
    BY <2>1
  <2>3. seen[t][i].time \in Nat /\ seen[t][i].time =< frameTime
    BY <2>2 DEF Observation, HistoryOK
  <2> QED BY <1>1, <2>3
<1>6. HistoryOK'
  BY <1>1, <1>2, <1>4, <1>5 DEF HistoryOK
<1>7. ASSUME NEW t \in DOMAIN seen PROVE Reports(t)' = ExpectedCrossings(seen[t])'
  <2>1. Reports(t)' = Reports(t)
    BY DEF Reports
  <2>2. ExpectedCrossings(seen[t])' = ExpectedCrossings(seen[t])
    BY DEF ExpectedCrossings, Reportable
  <2> QED BY <2>1, <2>2 DEF LineInv
<1>8. LineInv'
  BY <1>2, <1>7 DEF LineInv
<1> QED BY <1>3, <1>6, <1>8

-----------------------------------------------------------------------------
(* Regions.                                                                 *)

(* The evaluator remembers whether a track was last seen inside.            *)
InsideKnown(was, s, t) ==
    /\ t \in DOMAIN was <=> Len(s) > 0
    /\ Len(s) > 0 => (was[t] <=> PointInPolygon(s[Len(s)].at))

RegionInv ==
    /\ DOMAIN was_inside_ \subseteq DOMAIN seen
    /\ \A t \in DOMAIN seen : Reports(t) = ExpectedEntries(seen[t])
    /\ \A t \in DOMAIN tracks_ : InsideKnown(was_inside_, seen[t], t)

(* Nothing is reported of a track that was never seen.                      *)
LEMMA NoReports ==
    ASSUME HistoryOK, NEW t, t \notin DOMAIN seen
    PROVE  Reports(t) = {} /\ OldSeen(t) = <<>>
BY DEF Reports, HistoryOK, OldSeen

(* Before the frame it is known of all tracks whether they were inside.     *)
LEMMA InsidesKnown ==
    ASSUME TracksOK, HistoryOK, RegionInv, NEW tracks, NEW n, UpdatedTracks(tracks, n),
           NEW t \in DOMAIN tracks
    PROVE  InsideKnown(was_inside_, OldSeen(t), t)
<1>1. CASE t \in DOMAIN tracks_
  <2>1. t \in DOMAIN seen /\ OldSeen(t) = seen[t]
    BY <1>1 DEF HistoryOK, OldSeen
  <2> QED BY <1>1, <2>1 DEF RegionInv
<1>2. CASE t \notin DOMAIN tracks_
  <2>1. t \notin DOMAIN seen /\ OldSeen(t) = <<>>
    BY <1>2, FreshUnknown
  <2>2. t \notin DOMAIN was_inside_
    BY <2>1 DEF RegionInv
  <2> QED BY <2>1, <2>2 DEF InsideKnown
<1> QED BY <1>1, <1>2

(* A frame evaluated for intrusion keeps RegionInv: a track is reported     *)
(* exactly when it enters.                                                  *)
LEMMA RegionStep ==
    ASSUME TracksOK, HistoryOK, RegionInv, NEW tracks, NEW n, UpdatedTracks(tracks, n),
           frameTime' = frameTime + 1, tracks_' = tracks, next_track_id_' = next_track_id_ + n,
           evaluator' = evaluator, Observed(tracks), EvaluateRegion(tracks)
    PROVE  TracksOK' /\ HistoryOK' /\ GivenOnce(tracks_)' /\ RegionInv'
<1>1. PICK inside : inside = [t \in Active(tracks) |-> PointInPolygon(tracks[t].at)]
  OBVIOUS
<1>2. PICK A : A = {u \in DOMAIN inside : inside[u] /\ ~(u \in DOMAIN was_inside_ /\ was_inside_[u])}
  OBVIOUS
<1>3. PICK w : w = [t \in A |-> "enter"]
  OBVIOUS
<1>4. DOMAIN inside = Active(tracks) /\ A \in SUBSET Active(tracks) /\ Active(tracks) \subseteq DOMAIN tracks
  BY <1>1, <1>2 DEF Active
<1>5. \A t \in Active(tracks) : inside[t] <=> PointInPolygon(tracks[t].at)
  BY <1>1
<1>6. NewReports(A, w)
  BY <1>1, <1>2, <1>3 DEF EvaluateRegion, NewReports, Event
<1>7. TracksOK' /\ HistoryOK' /\ GivenOnce(tracks_)'
  BY <1>4, <1>6, HistoryStep
<1>8. was_inside_' = Remember(was_inside_, inside, tracks)
  BY <1>1 DEF EvaluateRegion
<1>9. DOMAIN seen' = DOMAIN seen \union DOMAIN tracks
  BY DEF Observed
<1>10. DOMAIN was_inside_' \subseteq DOMAIN seen'
  BY <1>8, <1>9 DEF Remember
<1>11. ASSUME NEW t \in Active(tracks), NEW s, NEW o, NEW r, s = OldSeen(t),
              o = Now(tracks, t), r = seen'[t]
       PROVE  /\ Longer(s, o, r)
              /\ inside[t] <=> PointInPolygon(o.at)
              /\ t \in A <=> PointInPolygon(o.at) /\ (Len(s) = 0 \/ ~PointInPolygon(s[Len(s)].at))
              /\ o.time = frameTime'
  <2>1. Longer(s, o, r)
    BY <1>4, <1>9, <1>11 DEF Observed
  <2>2. o.time = frameTime' /\ o.at = tracks[t].at
    BY <1>11 DEF Now
  <2>3. inside[t] <=> PointInPolygon(o.at)
    BY <1>5, <2>2
  <2>4. InsideKnown(was_inside_, s, t)
    BY <1>4, <1>11, InsidesKnown
  <2>5. Len(s) \in Nat
    BY <2>1, LongerDomains
  <2>6. t \in A <=> inside[t] /\ ~(t \in DOMAIN was_inside_ /\ was_inside_[t])
    BY <1>2, <1>4
  <2>7. t \in DOMAIN was_inside_ /\ was_inside_[t] <=> Len(s) # 0 /\ PointInPolygon(s[Len(s)].at)
    BY <2>4, <2>5 DEF InsideKnown
  <2> QED BY <2>1, <2>2, <2>3, <2>6, <2>7
<1>12. ASSUME NEW t \in DOMAIN tracks PROVE InsideKnown(was_inside_', seen'[t], t)
  <2>1. PICK s : s = OldSeen(t)
    OBVIOUS
  <2>2. PICK r : r = seen'[t]
    OBVIOUS
  <2>3. InsideKnown(was_inside_, s, t)
    BY <2>1, InsidesKnown
  <2>4. /\ t \in DOMAIN was_inside_' <=> t \in DOMAIN was_inside_ \/ t \in DOMAIN inside
        /\ t \in DOMAIN inside => was_inside_'[t] = inside[t]
        /\ t \in DOMAIN was_inside_ /\ t \notin DOMAIN inside => was_inside_'[t] = was_inside_[t]
    BY <1>8 DEF Remember
  <2>5. CASE t \in Active(tracks)
    <3>1. PICK o : o = Now(tracks, t)
      OBVIOUS
    <3>2. Longer(s, o, r)
      BY <1>11, <2>1, <2>2, <2>5, <3>1
    <3>3. inside[t] <=> PointInPolygon(o.at)
      BY <1>11, <2>1, <2>2, <2>5, <3>1
    <3>4. Len(s) \in Nat /\ Len(r) = Len(s) + 1 /\ r[Len(r)] = o
      BY <3>2, LongerDomains DEF Longer
    <3>5. Len(r) > 0
      BY <3>4
    <3>6. t \in DOMAIN was_inside_' /\ was_inside_'[t] = inside[t]
      BY <1>4, <2>4, <2>5
    <3> QED BY <2>2, <3>3, <3>4, <3>5, <3>6 DEF InsideKnown
  <2>6. CASE t \notin Active(tracks)
    <3>1. r = s
      BY <1>9, <2>1, <2>2, <2>6 DEF Observed
    <3>2. t \notin DOMAIN inside
      BY <1>4, <2>6
    <3>3. InsideKnown(was_inside_', s, t)
      BY <2>3, <2>4, <3>2 DEF InsideKnown
    <3> QED BY <2>2, <3>1, <3>3
  <2> QED BY <2>5, <2>6
<1>13. ASSUME NEW t \in DOMAIN seen'
       PROVE  Reports(t)' = ExpectedEntries(seen'[t])
  <2>1. PICK s : s = OldSeen(t)
    OBVIOUS
  <2>2. PICK r : r = seen'[t]
    OBVIOUS
  <2>3. Reports(t)' = Reports(t) \union
             (IF t \in A THEN {[time |-> frameTime', what |-> w[t]]} ELSE {})
    BY <1>6, ReportsStep
  <2>4. Reports(t) = ExpectedEntries(s)
    <3>1. CASE t \in DOMAIN seen
      BY <2>1, <3>1 DEF OldSeen, RegionInv
    <3>2. CASE t \notin DOMAIN seen
      <4>1. ExpectedEntries(<<>>) = {}
        BY DEF ExpectedEntries
      <4> QED BY <2>1, <3>2, <4>1, NoReports
    <3> QED BY <3>1, <3>2
  <2>5. CASE t \in Active(tracks)
    <3>1. PICK o : o = Now(tracks, t)
      OBVIOUS
    <3>2. Longer(s, o, r) /\ o.time = frameTime'
      BY <1>11, <2>1, <2>2, <2>5, <3>1
    <3>3. t \in A <=> PointInPolygon(o.at) /\ (Len(s) = 0 \/ ~PointInPolygon(s[Len(s)].at))
      BY <1>11, <2>1, <2>2, <2>5, <3>1
    <3>4. t \in A => w[t] = "enter"
      BY <1>3
    <3>5. ExpectedEntries(r) = ExpectedEntries(s) \union
               (IF PointInPolygon(o.at) /\ (Len(s) = 0 \/ ~PointInPolygon(s[Len(s)].at))
                THEN {[time |-> o.time, what |-> "enter"]} ELSE {})
      BY <3>2, EntriesGrow
    <3>6. CASE t \in A
      BY <2>2, <2>3, <2>4, <3>2, <3>3, <3>4, <3>5, <3>6
    <3>7. CASE t \notin A
      BY <2>2, <2>3, <2>4, <3>3, <3>5, <3>7
    <3> QED BY <3>6, <3>7
  <2>6. CASE t \notin Active(tracks)
    <3>1. r = s /\ t \notin A
      BY <1>4, <2>1, <2>2, <2>6 DEF Observed
    <3> QED BY <2>2, <2>3, <2>4, <3>1
  <2> QED BY <2>5, <2>6
<1>14. RegionInv'
  BY <1>10, <1>12, <1>13 DEF RegionInv
<1> QED BY <1>7, <1>14

-----------------------------------------------------------------------------
(* Stays.                                                                   *)

Alerts(t) == {r.time : r \in Reports(t)}

StateOf(t) == IF t \in DOMAIN track_states_ THEN track_states_[t] ELSE NewTrackState

LoiterInv ==
    /\ DOMAIN track_states_ \subseteq DOMAIN seen
    /\ \A t \in DOMAIN seen : LoiterRight(seen[t], Alerts(t))
    /\ \A t \in DOMAIN tracks_ : StateKnown(seen[t], Alerts(t), StateOf(t))

(* The times of a track's alerts after a frame that reports of the tracks   *)
(* of A.                                                                    *)
LEMMA AlertsStep ==
    ASSUME NEW A, NEW w, NewReports(A, w), NEW t
    PROVE  Alerts(t)' = IF t \in A THEN Alerts(t) \union {frameTime'} ELSE Alerts(t)
<1>1. PICK R : R = Reports(t)
  OBVIOUS
<1>2. PICK Q : Q = Reports(t)'
  OBVIOUS
<1>3. Q = R \union (IF t \in A THEN {[time |-> frameTime', what |-> w[t]]} ELSE {})
  BY <1>1, <1>2, ReportsStep
<1>4. Alerts(t) = {r.time : r \in R} /\ Alerts(t)' = {r.time : r \in Q}
  BY <1>1, <1>2 DEF Alerts
<1>5. [time |-> frameTime', what |-> w[t]].time = frameTime'
  OBVIOUS
<1>6. {r.time : r \in Q} = IF t \in A THEN {r.time : r \in R} \union {frameTime'} ELSE {r.time : r \in R}
  <2>1. CASE t \in A
    BY <1>3, <1>5, <2>1
  <2>2. CASE t \notin A
    BY <1>3, <2>2
  <2> QED BY <2>1, <2>2
<1> QED BY <1>4, <1>6

(* What is known of a track is of earlier frames.                           *)
LEMMA KnownBefore ==
    ASSUME HistoryOK, NEW t, NEW now, now = frameTime + 1
    PROVE  Before(OldSeen(t), Alerts(t), now)
<1>1. frameTime \in Nat /\ now \in Nat
  BY DEF HistoryOK
<1>2. ASSUME NEW a \in Alerts(t) PROVE a \in Nat /\ a < now
  <2>1. PICK e \in reported : a = e.time
    BY DEF Alerts, Reports
  <2>2. e.time \in Nat /\ e.time =< frameTime
    BY DEF HistoryOK
  <2> QED BY <1>1, <2>1, <2>2
<1>3. CASE t \in DOMAIN seen
  <2>1. PICK s : s = seen[t]
    OBVIOUS
  <2>2. /\ s \in Seq(Observation) /\ OldSeen(t) = s
        /\ \A i \in DOMAIN s : s[i].time =< frameTime
        /\ \A i, j \in DOMAIN s : i < j => s[i].time < s[j].time
    BY <1>3, <2>1 DEF HistoryOK, OldSeen
  <2>3. \A i \in DOMAIN s : s[i] \in Observation
    BY <2>2
  <2>4. \A i \in DOMAIN s : s[i].time \in Nat /\ s[i].time < now
    BY <1>1, <2>2, <2>3 DEF Observation
  <2> QED BY <1>1, <1>2, <2>2, <2>4 DEF Before
<1>4. CASE t \notin DOMAIN seen
  <2>1. OldSeen(t) = <<>> /\ DOMAIN <<>> = {}
    BY <1>4 DEF OldSeen
  <2> QED BY <1>1, <1>2, <2>1 DEF Before
<1> QED BY <1>3, <1>4

(* Before the frame the states of all tracks are known, those of new ones   *)
(* being the initial state.                                                 *)
LEMMA StatesKnown ==
    ASSUME TracksOK, HistoryOK, LoiterInv, NEW tracks, NEW n, UpdatedTracks(tracks, n),
           NEW t \in DOMAIN tracks
    PROVE  StateKnown(OldSeen(t), Alerts(t), StateOf(t))
<1>1. CASE t \in DOMAIN tracks_
  <2>1. t \in DOMAIN seen /\ OldSeen(t) = seen[t]
    BY <1>1 DEF HistoryOK, OldSeen
  <2> QED BY <1>1, <2>1 DEF LoiterInv
<1>2. CASE t \notin DOMAIN tracks_
  <2>1. t \notin DOMAIN seen /\ OldSeen(t) = <<>>
    BY <1>2, FreshUnknown
  <2>2. StateOf(t) = NewTrackState
    BY <2>1 DEF LoiterInv, StateOf
  <2>3. NewTrackState \in TrackState /\ ~NewTrackState.inside
    BY DEF NewTrackState, TrackState
  <2> QED BY <2>1, <2>2, <2>3 DEF StateKnown
<1> QED BY <1>1, <1>2

(* A frame evaluated for loitering keeps LoiterInv: a track is reported     *)
(* exactly when its stay is long enough and its last alert long enough ago. *)
LEMMA LoiterStep ==
    ASSUME TracksOK, HistoryOK, LoiterInv, NEW tracks, NEW n, UpdatedTracks(tracks, n),
           frameTime' = frameTime + 1, tracks_' = tracks, next_track_id_' = next_track_id_ + n,
           evaluator' = evaluator, Observed(tracks), EvaluateLoitering(tracks)
    PROVE  TracksOK' /\ HistoryOK' /\ GivenOnce(tracks_)' /\ LoiterInv'
<1> DEFINE In(t) == PointInPolygon(tracks[t].at)
           nowOf(t) == IF In(t) THEN Entered(StateOf(t)) ELSE Left(StateOf(t))
           raised(t) == [nowOf(t) EXCEPT !.alerted = TRUE, !.last = frameTime']
<1>1. PICK A : A = {t \in Active(tracks) : nowOf(t).inside /\ ShouldAlert(nowOf(t))}
  OBVIOUS
<1>2. PICK states : states = [t \in Active(tracks) |-> IF t \in A THEN raised(t) ELSE nowOf(t)]
  OBVIOUS
<1>3. PICK w : w = [t \in A |-> "loiter"]
  OBVIOUS
<1>4. /\ DOMAIN states = Active(tracks) /\ A \in SUBSET Active(tracks)
      /\ Active(tracks) \subseteq DOMAIN tracks
  BY <1>1, <1>2 DEF Active
<1>5. NewReports(A, w)
  BY <1>1, <1>3 DEF EvaluateLoitering, NewReports, Event, StateOf
<1>6. track_states_' = Remember(track_states_, states, tracks)
  BY <1>1, <1>2 DEF EvaluateLoitering, StateOf
<1>7. TracksOK' /\ HistoryOK' /\ GivenOnce(tracks_)'
  BY <1>4, <1>5, HistoryStep
<1>8. DOMAIN seen' = DOMAIN seen \union DOMAIN tracks
  BY DEF Observed
<1>9. DOMAIN track_states_' \subseteq DOMAIN seen'
  BY <1>6, <1>8 DEF Remember
<1>10. ASSUME NEW t
       PROVE  Alerts(t)' = IF t \in A THEN Alerts(t) \union {frameTime'} ELSE Alerts(t)
  BY <1>5, AlertsStep
<1>11. ASSUME NEW t \in DOMAIN seen'
       PROVE  LoiterRight(OldSeen(t), Alerts(t))
  <2>1. CASE t \in DOMAIN seen
    BY <2>1 DEF OldSeen, LoiterInv
  <2>2. CASE t \notin DOMAIN seen
    <3>1. OldSeen(t) = <<>> /\ DOMAIN <<>> = {}
      BY <2>2 DEF OldSeen
    <3> QED BY <3>1 DEF LoiterRight
  <2> QED BY <2>1, <2>2
<1>12. ASSUME NEW t \in Active(tracks)
       PROVE  /\ LoiterRight(seen'[t], Alerts(t)')
              /\ StateKnown(seen'[t], Alerts(t)', states[t])
  <2>1. PICK s, o, r : s = OldSeen(t) /\ o = Now(tracks, t) /\ r = seen'[t]
    OBVIOUS
  <2>2. PICK alerts, later : alerts = Alerts(t) /\ later = Alerts(t)'
    OBVIOUS
  <2>3. PICK st : st = StateOf(t)
    OBVIOUS
  <2>4. PICK next : next = states[t]
    OBVIOUS
  <2>5. t \in DOMAIN tracks /\ t \in DOMAIN seen'
    BY <1>4, <1>8
  <2>6. Longer(s, o, r)
    BY <2>1, <2>5 DEF Observed
  <2>7. o.time = frameTime' /\ o.at = tracks[t].at
    BY <2>1 DEF Now
  <2>8. Before(s, alerts, o.time)
    BY <2>1, <2>2, <2>7, KnownBefore
  <2>9. StateKnown(s, alerts, st)
    BY <2>1, <2>2, <2>3, <2>5, StatesKnown
  <2>10. later = IF t \in A THEN alerts \union {o.time} ELSE alerts
    BY <1>10, <2>2, <2>7
  <2>11. later = alerts \/ later = alerts \union {o.time}
    BY <2>10
  <2>12. JudgedAt(r, later, Len(s) + 1) /\ StateKnown(r, later, next)
    <3>1. CASE PointInPolygon(o.at)
      <4>1. PICK k : k = Entered(st)
        OBVIOUS
      <4>2. k \in TrackState /\ k.inside /\ StayKnown(r, alerts, k)
        BY <2>6, <2>7, <2>8, <2>9, <3>1, <4>1, EnteredKnown
      <4>3. nowOf(t) = k
        BY <2>3, <2>7, <3>1, <4>1
      <4>4. t \in A <=> ShouldAlert(k)
        BY <1>1, <4>2, <4>3
      <4>5. next = IF ShouldAlert(k) THEN [k EXCEPT !.alerted = TRUE, !.last = o.time] ELSE k
        BY <1>2, <2>4, <2>7, <4>3, <4>4
      <4>6. later = IF ShouldAlert(k) THEN alerts \union {o.time} ELSE alerts
        BY <2>10, <4>4
      <4>7. frameTime' = o.time
        BY <2>7
      <4> QED BY <2>6, <2>8, <3>1, <4>2, <4>5, <4>6, <4>7, InsideJudged
    <3>2. CASE ~PointInPolygon(o.at)
      <4>1. /\ JudgedAt(r, alerts, Len(s) + 1) /\ StateKnown(r, alerts, Left(st))
            /\ ~Left(st).inside
        BY <2>6, <2>8, <2>9, <3>2, OutsideJudged
      <4>2. nowOf(t) = Left(st)
        BY <2>3, <2>7, <3>2
      <4>3. t \notin A
        BY <1>1, <4>1, <4>2
      <4>4. next = Left(st) /\ later = alerts
        BY <1>2, <2>4, <2>10, <4>2, <4>3
      <4> QED BY <4>1, <4>4
    <3> QED BY <3>1, <3>2
  <2>13. LoiterRight(r, later)
    <3>1. \A k \in DOMAIN s : JudgedAt(s, alerts, k)
      BY <1>11, <2>1, <2>2, <2>5, JudgedEach
    <3>2. ASSUME NEW k \in DOMAIN s PROVE JudgedAt(r, later, k)
      BY <2>6, <2>8, <2>11, <3>1, JudgedBefore
    <3>3. DOMAIN r = DOMAIN s \union {Len(s) + 1}
      BY <2>6, LongerDomains
    <3>4. \A k \in DOMAIN r : JudgedAt(r, later, k)
      BY <2>12, <3>2, <3>3
    <3> QED BY <3>4, JudgedEach
  <2> QED BY <2>1, <2>2, <2>4, <2>12, <2>13
<1>13. ASSUME NEW t \in DOMAIN seen', t \notin Active(tracks)
       PROVE  seen'[t] = OldSeen(t) /\ Alerts(t)' = Alerts(t)
  BY <1>4, <1>10, <1>13 DEF Observed
<1>14. ASSUME NEW t \in DOMAIN seen' PROVE LoiterRight(seen'[t], Alerts(t)')
  <2>1. CASE t \in Active(tracks)
    BY <1>12, <2>1
  <2>2. CASE t \notin Active(tracks)
    BY <1>11, <1>13, <2>2
  <2> QED BY <2>1, <2>2
<1>15. ASSUME NEW t \in DOMAIN tracks PROVE StateKnown(seen'[t], Alerts(t)', StateOf(t)')
  <2>1. CASE t \in Active(tracks)
    <3>1. StateOf(t)' = states[t]
      BY <1>4, <1>6, <2>1 DEF Remember, StateOf
    <3> QED BY <1>12, <2>1, <3>1
  <2>2. CASE t \notin Active(tracks)
    <3>1. StateOf(t)' = StateOf(t)
      BY <1>4, <1>6, <2>2 DEF Remember, StateOf
    <3>2. StateKnown(OldSeen(t), Alerts(t), StateOf(t))
      BY StatesKnown
    <3> QED BY <1>8, <1>13, <2>2, <3>1, <3>2
  <2> QED BY <2>1, <2>2
<1>16. \A t \in DOMAIN tracks_' : StateKnown(seen'[t], Alerts(t)', StateOf(t)')
  BY <1>15
<1>17. LoiterInv'
  BY <1>9, <1>14, <1>16 DEF LoiterInv
<1> QED BY <1>7, <1>17

-----------------------------------------------------------------------------
(* The evaluator of the rule has reported exactly what was seen, and        *)
(* remembers of each track what it needs to judge its next position.        *)
EvaluatorInv ==
    IF evaluator.type = "kRegionIntrusion" THEN RegionInv
    ELSE IF evaluator.type = "kLoitering" THEN LoiterInv
    ELSE LineInv

(* The inductive invariant: EventsExact alone is not, because it says       *)
(* nothing of last_side_, was_inside_ and track_states_.                    *)
TrackingInv ==
    /\ evaluator.type \in EvaluatorTypes
    /\ TracksOK /\ HistoryOK /\ GivenOnce(tracks_) /\ EvaluatorInv

(* Nothing is tracked, seen or reported at first.                           *)
LEMMA TrackingInvInit == TrackingInit => TrackingInv
<1> SUFFICES ASSUME TrackingInit PROVE TrackingInv
  OBVIOUS
<1>1. evaluator.type \in EvaluatorTypes
  BY DEF TrackingInit, EvaluatorTypes
<1>2. /\ DOMAIN tracks_ = {} /\ DOMAIN seen = {} /\ DOMAIN last_side_ = {}
      /\ DOMAIN was_inside_ = {} /\ DOMAIN track_states_ = {} /\ reported = {}
      /\ tracks_ = [t \in {} |-> <<>>] /\ seen = [t \in {} |-> <<>>]
  BY DEF TrackingInit
<1>3. TracksOK /\ GivenOnce(tracks_)
  BY <1>2 DEF TrackingInit, TracksOK, GivenOnce
<1>4. HistoryOK
  <2>1. IsFiniteSet(reported)
    BY <1>2, FS_EmptySet
  <2> QED BY <1>2, <2>1 DEF TrackingInit, HistoryOK
<1>5. LineInv
  <2>1. \A x : {e \in reported : e.what = x} = {}
    BY <1>2
  <2>2. /\ Cardinality({e \in reported : e.what = "A_to_B"}) = 0
        /\ Cardinality({e \in reported : e.what = "B_to_A"}) = 0
    BY <2>1, FS_EmptySet, Zenon
  <2> QED BY <1>2, <2>2 DEF TrackingInit, LineInv
<1>6. RegionInv /\ LoiterInv
  BY <1>2 DEF RegionInv, LoiterInv
<1> QED BY <1>1, <1>3, <1>4, <1>5, <1>6 DEF TrackingInv, EvaluatorInv

(* A frame keeps the invariant, for whichever evaluator the rule has; a     *)
(* frame without detections is skipped by the line evaluator but not by the *)
(* tracker.                                                                 *)
LEMMA EvaluateInv ==
    ASSUME TrackingInv, NEW detections \in SUBSET Detections, Evaluate(detections)
    PROVE  TrackingInv'
<1>1. PICK found : found = FilterDetections(detections)
  OBVIOUS
<1>2. found \in SUBSET Detections
  BY <1>1 DEF FilterDetections
<1>3. /\ frameTime' = frameTime + 1 /\ evaluator' = evaluator
      /\ evaluator.type \in EvaluatorTypes /\ TracksOK /\ HistoryOK
  BY DEF Evaluate, TrackingInv
<1>4. PICK M \in GreedyMatches(found) :
        /\ tracks_' = Update(found, M)
        /\ next_track_id_' = next_track_id_ + Cardinality(found \ {p[2] : p \in M})
        /\ IF evaluator.type = "kCrossLine" /\ found = {} THEN UNCHANGED seen
           ELSE Observe(Update(found, M))
        /\ evaluator.type = "kRegionIntrusion" => EvaluateRegion(Update(found, M))
        /\ evaluator.type = "kLoitering" => EvaluateLoitering(Update(found, M))
        /\ evaluator.type \in {"kCrossLine", "kObjectCounting"} =>
              EvaluateLine(found, Update(found, M))
  BY <1>1 DEF Evaluate
<1>5. PICK tracks, n : tracks = Update(found, M) /\ n = Cardinality(found \ {p[2] : p \in M})
  OBVIOUS
<1>6. UpdatedTracks(tracks, n) /\ (found = {} => n = 0)
  BY <1>2, <1>3, <1>5, UpdateOutcome
<1>7. tracks_' = tracks /\ next_track_id_' = next_track_id_ + n
  BY <1>4, <1>5
<1>8. ~(evaluator.type = "kCrossLine" /\ found = {}) => Observed(tracks)
  BY <1>3, <1>4, <1>5, <1>6, ObserveOutcome
<1>9. CASE evaluator.type = "kRegionIntrusion"
  <2>1. RegionInv /\ Observed(tracks) /\ EvaluateRegion(tracks)
    BY <1>4, <1>5, <1>8, <1>9 DEF TrackingInv, EvaluatorInv
  <2>2. TracksOK' /\ HistoryOK' /\ GivenOnce(tracks_)' /\ RegionInv'
    BY <1>3, <1>6, <1>7, <2>1, RegionStep
  <2> QED BY <1>3, <1>9, <2>2 DEF TrackingInv, EvaluatorInv
<1>10. CASE evaluator.type = "kLoitering"
  <2>1. LoiterInv /\ Observed(tracks) /\ EvaluateLoitering(tracks)
    BY <1>4, <1>5, <1>8, <1>10 DEF TrackingInv, EvaluatorInv
  <2>2. TracksOK' /\ HistoryOK' /\ GivenOnce(tracks_)' /\ LoiterInv'
    BY <1>3, <1>6, <1>7, <2>1, LoiterStep
  <2> QED BY <1>3, <1>10, <2>2 DEF TrackingInv, EvaluatorInv
<1>11. CASE evaluator.type \in {"kCrossLine", "kObjectCounting"}
  <2>1. LineInv /\ EvaluateLine(found, tracks)
    BY <1>4, <1>5, <1>11 DEF TrackingInv, EvaluatorInv
  <2>2. TracksOK' /\ HistoryOK' /\ GivenOnce(tracks_)' /\ LineInv'
    <3>1. CASE evaluator.type = "kCrossLine" /\ found = {}
      <4>1. UNCHANGED <<evaluator, seen, last_side_, count_a_to_b_, count_b_to_a_, reported>>
        BY <1>3, <1>4, <2>1, <3>1 DEF EvaluateLine
      <4>2. UpdatedTracks(tracks, 0) /\ next_track_id_' = next_track_id_ + 0
        BY <1>6, <1>7, <3>1
      <4> QED BY <1>3, <1>7, <2>1, <4>1, <4>2, SkippedStep
    <3>2. CASE ~(evaluator.type = "kCrossLine" /\ found = {})
      BY <1>3, <1>6, <1>7, <1>8, <2>1, <3>2, LineStep
    <3> QED BY <3>1, <3>2
  <2> QED BY <1>3, <1>11, <2>2 DEF TrackingInv, EvaluatorInv
<1> QED BY <1>3, <1>9, <1>10, <1>11 DEF EvaluatorTypes

(* Every step keeps the invariant.                                          *)
LEMMA TrackingInvNext ==
    ASSUME TrackingInv, [TrackingNext]_trackVars
    PROVE  TrackingInv'
<1>1. CASE TrackingNext
  <2>1. PICK detections \in SUBSET Detections : Evaluate(detections)
    BY <1>1 DEF TrackingNext
  <2> QED BY <2>1, EvaluateInv
<1>2. CASE UNCHANGED trackVars
  <2>1. /\ UNCHANGED <<evaluator, frameTime, tracks_, next_track_id_, last_side_>>
        /\ UNCHANGED <<count_a_to_b_, count_b_to_a_, was_inside_, track_states_>>
        /\ UNCHANGED <<seen, reported>>
    BY <1>2 DEF trackVars
  <2>2. evaluator'.type \in EvaluatorTypes /\ GivenOnce(tracks_)'
    BY <2>1 DEF TrackingInv, GivenOnce
  <2>3. TracksOK'
    BY <2>1 DEF TrackingInv, TracksOK
  <2>4. HistoryOK'
    BY <2>1 DEF TrackingInv, HistoryOK
  <2>5. ASSUME NEW t
        PROVE  /\ Reports(t)' = Reports(t)
               /\ Alerts(t)' = Alerts(t)
               /\ StateOf(t)' = StateOf(t)
    BY <2>1 DEF Reports, Alerts, StateOf
  <2>6. ASSUME NEW s PROVE ExpectedCrossings(s)' = ExpectedCrossings(s)
    BY <2>1 DEF ExpectedCrossings, Reportable
  <2>7. RegionInv => RegionInv'
    BY <2>1, <2>5 DEF RegionInv
  <2>8. LoiterInv => LoiterInv'
    BY <2>1, <2>5 DEF LoiterInv
  <2>9. LineInv => LineInv'
    BY <2>1, <2>5, <2>6 DEF LineInv
  <2>10. EvaluatorInv'
    BY <2>1, <2>7, <2>8, <2>9 DEF TrackingInv, EvaluatorInv
  <2> QED BY <2>2, <2>3, <2>4, <2>10 DEF TrackingInv
<1> QED BY <1>1, <1>2

(* The invariant says what was to be shown.                                 *)
LEMMA TrackingInvExact == TrackingInv => EventsExact
<1> SUFFICES ASSUME TrackingInv PROVE EventsExact
  OBVIOUS
<1>1. \A t, u \in DOMAIN tracks_ :
          tracks_[t].lost = 0 /\ tracks_[u].lost = 0
            /\ tracks_[t].given = tracks_[u].given => t = u
  BY DEF TrackingInv, GivenOnce
<1>2. CASE evaluator.type = "kRegionIntrusion"
  BY <1>1, <1>2 DEF TrackingInv, EvaluatorInv, RegionInv, EventsExact
<1>3. CASE evaluator.type = "kLoitering"
  BY <1>1, <1>3 DEF TrackingInv, EvaluatorInv, LoiterInv, Alerts, EventsExact
<1>4. CASE evaluator.type \in {"kCrossLine", "kObjectCounting"}
  BY <1>1, <1>4 DEF TrackingInv, EvaluatorInv, LineInv, EventsExact
<1> QED BY <1>2, <1>3, <1>4 DEF TrackingInv, EvaluatorTypes

(* Of every track, CrossLine-, Counting-, RegionIntrusion- and              *)
(* LoiteringEvaluator report exactly the events the positions they saw of   *)
(* it mean, the counters equal the crossings, and IouTracker gives no two   *)
(* tracks one detection: for every line, polygon, size of the boxes, set of *)
(* detections, loitering time, cooldown, and number of frames.              *)
THEOREM EventsAlwaysExact == TrackingSpec => []EventsExact
<1> QED BY TrackingInvInit, TrackingInvNext, TrackingInvExact, PTL DEF TrackingSpec

-----------------------------------------------------------------------------
(* The stage thread and the inference thread.                               *)

USE DEF NoOne, Monitor, NoFrame, NoResult

aiVars == <<stageVars, inferVars, stopper, bus>>

(* All stages are fresh and nothing is published yet.                       *)
LEMMA InitInv == Init => StageTypeOK /\ Handshake /\ FramesOrdered
BY EventsAssumption
   DEF Init, StageTypeOK, Handshake, FramesOrdered, Fresh, Working

-----------------------------------------------------------------------------
(* Every action of a thread keeps the types.                                *)
LEMMA StageType ==
    ASSUME StageTypeOK, NEW c \in Channels,
           ProcessFrame(c) \/ InferCascade(c) \/ StageThread(c) \/ JoinStage(c)
    PROVE  StageTypeOK'
<1>1. CASE ProcessFrame(c)
  BY <1>1 DEF ProcessFrame, StageTypeOK, StageGoto, InferGoto
<1>2. CASE InferCascade(c)
  BY <1>2 DEF InferCascade, StageTypeOK, StageGoto, inferVars
<1>3. CASE ApplyResult(c)
  BY <1>3 DEF ApplyResult, StageTypeOK, StageGoto, inferVars
<1>4. CASE TrySubmit(c)
  BY <1>4 DEF TrySubmit, StageTypeOK, StageGoto, Due
<1>5. CASE Submit(c)
  BY <1>5 DEF Submit, StageTypeOK, StageGoto, InferGoto, Woken
<1>6. CASE JoinStage(c)
  BY <1>6 DEF JoinStage, StageTypeOK, StageGoto, inferVars
<1> QED BY <1>1, <1>2, <1>3, <1>4, <1>5, <1>6 DEF StageThread

(* The inference thread and the call that stops it keep the types.          *)
LEMMA InferType ==
    ASSUME StageTypeOK, NEW c \in Channels, InferThread(c) \/ StopCall(c)
    PROVE  StageTypeOK'
<1> USE DEF StageTypeOK, InferGoto, stageVars
<1>1. CASE LoopTest(c)
  BY <1>1 DEF LoopTest
<1>2. CASE WaitPredicate(c)
  BY <1>2 DEF WaitPredicate
<1>3. CASE Block(c) \/ Infer(c) \/ LockResult(c)
  BY <1>3 DEF Block, Infer, LockResult
<1>4. CASE StoreResult(c)
  BY <1>4 DEF StoreResult
<1>5. CASE Finish(c)
  BY <1>5 DEF Finish
<1>6. CASE SetShutdownInfer(c) \/ JoinInfer(c)
  BY <1>6 DEF SetShutdownInfer, JoinInfer, inferVars
<1>7. CASE NotifyShutdown(c)
  BY <1>7 DEF NotifyShutdown, Woken
<1> QED
  BY <1>1, <1>2, <1>3, <1>4, <1>5, <1>6, <1>7 DEF InferThread, StopCall

(* The steps of the bus and of its handler.                                 *)
LEMMA BusType ==
    ASSUME StageTypeOK,
           \/ \E c \in Channels : Publish(c)
           \/ PublishMetrics \/ MetricsPublished \/ Published
    PROVE  StageTypeOK'
<1> USE DEF StageTypeOK
<1>1. ASSUME NEW c \in Channels, Publish(c) PROVE StageTypeOK'
  BY <1>1 DEF Publish, StageGoto, InferGoto
<1>2. CASE PublishMetrics \/ MetricsPublished
  BY <1>2 DEF PublishMetrics, MetricsPublished, stageVars, inferVars
<1>3. CASE Published
  BY <1>3 DEF Published, StageGoto, InferGoto
<1> QED BY <1>1, <1>2, <1>3

(* The other steps leave the stages, the threads and the bus alone.         *)
LEMMA AlarmStep ==
    ASSUME \/ FetchRules \/ CheckCooldown \/ InsertAlarm \/ UpdateCooldown
           \/ RuleCall \/ AlarmCall
    PROVE  UNCHANGED aiVars
<1>1. CASE FetchRules \/ CheckCooldown \/ InsertAlarm \/ UpdateCooldown
  BY <1>1 DEF FetchRules, CheckCooldown, InsertAlarm, UpdateCooldown, aiVars
<1>2. CASE RuleCall
  BY <1>2 DEF RuleCall, AddRule, UpdateRule, DeleteRule, aiVars
<1>3. CASE AlarmCall
  BY <1>3 DEF AlarmCall, AcknowledgeAlarm, DismissAlarm, AcknowledgeAll, aiVars
<1> QED BY <1>1, <1>2, <1>3

-----------------------------------------------------------------------------
(* The flag's protocol is kept by the stage thread: it fills the slot only  *)
(* after it found the flag down.                                            *)
LEMMA StageHandshake ==
    ASSUME StageTypeOK, Handshake, NEW c \in Channels,
           ProcessFrame(c) \/ InferCascade(c) \/ StageThread(c) \/ JoinStage(c)
    PROVE  Handshake'
<1> USE DEF StageTypeOK, Handshake, Working
<1>1. CASE ProcessFrame(c)
  BY <1>1 DEF ProcessFrame, StageGoto, InferGoto
<1>2. CASE InferCascade(c)
  BY <1>2 DEF InferCascade, StageGoto, inferVars
<1>3. CASE ApplyResult(c)
  BY <1>3 DEF ApplyResult, StageGoto, inferVars
<1>4. CASE TrySubmit(c)
  BY <1>4 DEF TrySubmit, StageGoto
<1>5. CASE Submit(c)
  <2>1. infer_running_[c] /\ infer[c] \notin Working
    BY <1>5 DEF Submit
  <2>2. infer'[c] \notin Working
    BY <1>5, <2>1 DEF Submit, InferGoto, Woken
  <2> QED BY <1>5, <2>1, <2>2 DEF Submit, StageGoto, InferGoto
<1>6. CASE JoinStage(c)
  BY <1>6 DEF JoinStage, StageGoto, inferVars
<1> QED BY <1>1, <1>2, <1>3, <1>4, <1>5, <1>6 DEF StageThread

(* It is kept by the inference thread: the flag goes down last.             *)
LEMMA InferHandshake ==
    ASSUME StageTypeOK, Handshake, NEW c \in Channels,
           InferThread(c) \/ StopCall(c)
    PROVE  Handshake'
<1> USE DEF StageTypeOK, Handshake, Working, InferGoto, stageVars
<1>1. CASE LoopTest(c)
  BY <1>1 DEF LoopTest
<1>2. CASE WaitPredicate(c)
  BY <1>2 DEF WaitPredicate
<1>3. CASE Block(c) \/ Infer(c) \/ LockResult(c)
  BY <1>3 DEF Block, Infer, LockResult
<1>4. CASE StoreResult(c)
  BY <1>4 DEF StoreResult
<1>5. CASE Finish(c)
  BY <1>5 DEF Finish
<1>6. CASE SetShutdownInfer(c) \/ JoinInfer(c)
  BY <1>6 DEF SetShutdownInfer, JoinInfer, inferVars
<1>7. CASE NotifyShutdown(c)
  BY <1>7 DEF NotifyShutdown, Woken
<1> QED
  BY <1>1, <1>2, <1>3, <1>4, <1>5, <1>6, <1>7 DEF InferThread, StopCall

(* Publishing on the bus leaves the hand-shake as it is.                    *)
LEMMA BusHandshake ==
    ASSUME StageTypeOK, Handshake,
           \/ \E c \in Channels : Publish(c)
           \/ PublishMetrics \/ MetricsPublished \/ Published
    PROVE  Handshake'
<1> USE DEF StageTypeOK, Handshake, Working
<1>1. ASSUME NEW c \in Channels, Publish(c) PROVE Handshake'
  BY <1>1 DEF Publish, StageGoto, InferGoto
<1>2. CASE PublishMetrics \/ MetricsPublished
  BY <1>2 DEF PublishMetrics, MetricsPublished, stageVars, inferVars
<1>3. CASE Published
  BY <1>3 DEF Published, StageGoto, InferGoto
<1> QED BY <1>1, <1>2, <1>3

-----------------------------------------------------------------------------
(* The order of the frames.  The flag is what makes a submitted frame the   *)
(* only one between the stage thread and the latest result.                 *)
LEMMA StageOrder ==
    ASSUME StageTypeOK, Handshake, FramesOrdered, NEW c \in Channels,
           ProcessFrame(c) \/ InferCascade(c) \/ StageThread(c) \/ JoinStage(c)
    PROVE  FramesOrdered'
<1> USE DEF StageTypeOK, FramesOrdered
<1>1. CASE ProcessFrame(c)
  BY <1>1 DEF ProcessFrame, StageGoto, InferGoto
<1>2. CASE InferCascade(c)
  BY <1>2 DEF InferCascade, StageGoto, inferVars
<1>3. CASE ApplyResult(c)
  BY <1>3 DEF ApplyResult, StageGoto, inferVars
<1>4. CASE TrySubmit(c)
  BY <1>4 DEF TrySubmit, StageGoto
<1>5. CASE Submit(c)
  <2>1. infer[c] \notin Working
    BY <1>5 DEF Submit, Handshake
  <2>2. infer'[c] \notin {"infer", "store"}
    BY <1>5, <2>1 DEF Submit, InferGoto, Woken, Working
  <2> QED BY <1>5, <2>2 DEF Submit, StageGoto, InferGoto
<1>6. CASE JoinStage(c)
  BY <1>6 DEF JoinStage, StageGoto, inferVars
<1> QED BY <1>1, <1>2, <1>3, <1>4, <1>5, <1>6 DEF StageThread

(* The inference thread returns results of frames in order.                 *)
LEMMA InferOrder ==
    ASSUME StageTypeOK, Handshake, FramesOrdered, NEW c \in Channels,
           InferThread(c) \/ StopCall(c)
    PROVE  FramesOrdered'
<1> USE DEF StageTypeOK, FramesOrdered, InferGoto, stageVars
<1>1. CASE LoopTest(c)
  BY <1>1 DEF LoopTest
<1>2. CASE WaitPredicate(c)
  BY <1>2 DEF WaitPredicate
<1>3. CASE Block(c) \/ Infer(c) \/ LockResult(c)
  BY <1>3 DEF Block, Infer, LockResult
<1>4. CASE StoreResult(c)
  <2>1. pending_frame_[c] = NoFrame /\ last_result_[c] < current[c]
    BY <1>4 DEF StoreResult, Handshake, Working
  <2> QED BY <1>4, <2>1 DEF StoreResult
<1>5. CASE Finish(c)
  BY <1>5 DEF Finish
<1>6. CASE SetShutdownInfer(c) \/ JoinInfer(c)
  BY <1>6 DEF SetShutdownInfer, JoinInfer, inferVars
<1>7. CASE NotifyShutdown(c)
  BY <1>7 DEF NotifyShutdown, Woken
<1> QED
  BY <1>1, <1>2, <1>3, <1>4, <1>5, <1>6, <1>7 DEF InferThread, StopCall

(* Publishing leaves the frames' order as it is.                            *)
LEMMA BusOrder ==
    ASSUME StageTypeOK, FramesOrdered,
           \/ \E c \in Channels : Publish(c)
           \/ PublishMetrics \/ MetricsPublished \/ Published
    PROVE  FramesOrdered'
<1> USE DEF StageTypeOK, FramesOrdered
<1>1. ASSUME NEW c \in Channels, Publish(c) PROVE FramesOrdered'
  BY <1>1 DEF Publish, StageGoto, InferGoto
<1>2. CASE PublishMetrics \/ MetricsPublished
  BY <1>2 DEF PublishMetrics, MetricsPublished, stageVars, inferVars
<1>3. CASE Published
  BY <1>3 DEF Published, StageGoto, InferGoto
<1> QED BY <1>1, <1>2, <1>3

-----------------------------------------------------------------------------
HandInv == StageTypeOK /\ Handshake /\ FramesOrdered

(* The slot is filled by Submit alone, which the flag lets pass only while  *)
(* it is empty; the result is attached by ApplyResult alone.                *)
SlotStep ==
    \A c \in Channels :
        pending_frame_[c] # NoFrame =>
            pending_frame_'[c] \in {pending_frame_[c], NoFrame}

AttachStep ==
    \A c \in Channels :
        attached'[c] # attached[c] =>
            attached[c] < attached'[c] /\ attached'[c] < frames'[c]

(* Every step keeps the invariant and is a SlotStep and an AttachStep.      *)
LEMMA Kept ==
    ASSUME HandInv, [Next]_vars
    PROVE  HandInv' /\ SlotStep /\ AttachStep
<1> USE DEF HandInv
<1>1. ASSUME NEW c \in Channels,
             \/ ProcessFrame(c) \/ InferCascade(c) \/ StageThread(c)
             \/ JoinStage(c)
      PROVE  HandInv' /\ SlotStep /\ AttachStep
  <2>1. HandInv'
    BY <1>1, StageType, StageHandshake, StageOrder
  <2>2. SlotStep
    BY <1>1 DEF SlotStep, StageTypeOK, Handshake, ProcessFrame, InferCascade,
                StageThread, ApplyResult, TrySubmit, Submit, JoinStage,
                inferVars
  <2>3. AttachStep
    BY <1>1 DEF AttachStep, StageTypeOK, FramesOrdered, ProcessFrame,
                InferCascade, StageThread, ApplyResult, TrySubmit, Submit,
                JoinStage
  <2> QED BY <2>1, <2>2, <2>3
<1>2. ASSUME NEW c \in Channels, InferThread(c) \/ StopCall(c)
      PROVE  HandInv' /\ SlotStep /\ AttachStep
  <2>1. HandInv'
    BY <1>2, InferType, InferHandshake, InferOrder
  <2>2. SlotStep
    BY <1>2 DEF SlotStep, StageTypeOK, InferThread, StopCall, LoopTest,
                WaitPredicate, Block, Infer, StoreResult, LockResult, Finish,
                SetShutdownInfer, NotifyShutdown, JoinInfer, inferVars
  <2>3. AttachStep
    BY <1>2 DEF AttachStep, InferThread, StopCall, LoopTest, WaitPredicate,
                Block, Infer, StoreResult, LockResult, Finish,
                SetShutdownInfer, NotifyShutdown, JoinInfer, stageVars
  <2> QED BY <2>1, <2>2, <2>3
<1>3. CASE \/ \E c \in Channels : Publish(c)
           \/ PublishMetrics \/ MetricsPublished \/ Published
  <2>1. HandInv'
    BY <1>3, BusType, BusHandshake, BusOrder
  <2>2. UNCHANGED <<pending_frame_, attached>>
    BY <1>3 DEF Publish, PublishMetrics, MetricsPublished, Published,
                stageVars, inferVars
  <2> QED BY <2>1, <2>2 DEF SlotStep, AttachStep
<1>4. CASE UNCHANGED aiVars
  BY <1>4 DEF aiVars, stageVars, inferVars, StageTypeOK, Handshake,
              FramesOrdered, SlotStep, AttachStep
<1>5. CASE \/ FetchRules \/ CheckCooldown \/ InsertAlarm \/ UpdateCooldown
           \/ RuleCall \/ AlarmCall
  BY <1>4, <1>5, AlarmStep
<1>6. CASE UNCHANGED vars
  BY <1>4, <1>6 DEF vars, aiVars
<1> QED
  BY <1>1, <1>2, <1>3, <1>5, <1>6 DEF Next, HandlerStep

(* The flag excludes the slot, the stage thread about to fill it and the    *)
(* inference from one another at all times.                                 *)
THEOREM HandshakeHolds == Spec => []Handshake
<1>1. Init => HandInv
  BY InitInv DEF HandInv
<1>2. HandInv /\ [Next]_vars => HandInv'
  BY Kept
<1>3. HandInv => Handshake
  BY DEF HandInv
<1> QED BY <1>1, <1>2, <1>3, PTL DEF Spec

(* No frame that was handed over is overwritten before it is taken, for     *)
(* any number of channels and frames.                                       *)
THEOREM SlotKeptAlways == Spec => SlotKept
<1>1. Init => HandInv
  BY InitInv DEF HandInv
<1>2. HandInv /\ [Next]_vars => HandInv'
  BY Kept
<1>3. HandInv /\ [Next]_vars => SlotStep
  BY Kept
<1> QED BY <1>1, <1>2, <1>3, PTL DEF Spec, SlotKept, SlotStep

(* The results attached to the frames of a channel never go back and never  *)
(* come from the frame itself or a later one.                               *)
THEOREM ResultsInOrderAlways == Spec => ResultsInOrder
<1>1. Init => HandInv
  BY InitInv DEF HandInv
<1>2. HandInv /\ [Next]_vars => HandInv'
  BY Kept
<1>3. HandInv /\ [Next]_vars => AttachStep
  BY Kept
<1> QED BY <1>1, <1>2, <1>3, PTL DEF Spec, ResultsInOrder, AttachStep
-----------------------------------------------------------------------------
(* What Shutdown waits for.  The stage thread is joined before, so it       *)
(* starts no inference thread any more, and whoever owns the bus is one of  *)
(* the two threads of its channel.                                          *)
ShutInv ==
    /\ \A c \in Channels : stopper[c] # "none" => stage[c] = "joined"
    /\ \A c \in Channels : bus = c => \/ infer[c] = "inBus"
                                       \/ stage[c] = "inBus"
    /\ \A c \in Channels : stopper[c] = "done" => infer[c] \in {"none", "exited"}

(* The stage thread works only while nobody has stopped the stage.          *)
LEMMA StageShut ==
    ASSUME StageTypeOK, ShutInv, NEW c \in Channels,
           ProcessFrame(c) \/ InferCascade(c) \/ StageThread(c) \/ JoinStage(c)
    PROVE  ShutInv'
<1> USE DEF StageTypeOK, ShutInv
<1>1. CASE ProcessFrame(c)
  BY <1>1 DEF ProcessFrame, StageGoto, InferGoto
<1>2. CASE InferCascade(c)
  BY <1>2 DEF InferCascade, StageGoto, inferVars
<1>3. CASE ApplyResult(c)
  BY <1>3 DEF ApplyResult, StageGoto, inferVars
<1>4. CASE TrySubmit(c)
  BY <1>4 DEF TrySubmit, StageGoto
<1>5. CASE Submit(c)
  BY <1>5 DEF Submit, StageGoto, InferGoto, Woken
<1>6. CASE JoinStage(c)
  BY <1>6 DEF JoinStage, StageGoto, inferVars
<1> QED BY <1>1, <1>2, <1>3, <1>4, <1>5, <1>6 DEF StageThread

(* A thread that has exited takes no step, and Shutdown returns after that. *)
LEMMA InferShut ==
    ASSUME StageTypeOK, ShutInv, NEW c \in Channels,
           InferThread(c) \/ StopCall(c)
    PROVE  ShutInv'
<1> USE DEF StageTypeOK, ShutInv, InferGoto, stageVars
<1>1. CASE LoopTest(c)
  BY <1>1 DEF LoopTest
<1>2. CASE WaitPredicate(c)
  BY <1>2 DEF WaitPredicate
<1>3. CASE Block(c) \/ Infer(c) \/ LockResult(c)
  BY <1>3 DEF Block, Infer, LockResult
<1>4. CASE StoreResult(c)
  BY <1>4 DEF StoreResult
<1>5. CASE Finish(c)
  BY <1>5 DEF Finish
<1>6. CASE SetShutdownInfer(c) \/ JoinInfer(c)
  BY <1>6 DEF SetShutdownInfer, JoinInfer, inferVars
<1>7. CASE NotifyShutdown(c)
  BY <1>7 DEF NotifyShutdown, Woken
<1> QED
  BY <1>1, <1>2, <1>3, <1>4, <1>5, <1>6, <1>7 DEF InferThread, StopCall

(* Only a living thread takes the bus, and it gives the bus back.           *)
LEMMA BusShut ==
    ASSUME StageTypeOK, ShutInv,
           \/ \E c \in Channels : Publish(c)
           \/ PublishMetrics \/ MetricsPublished \/ Published
    PROVE  ShutInv'
<1> USE DEF StageTypeOK, ShutInv
<1>1. ASSUME NEW c \in Channels, Publish(c) PROVE ShutInv'
  BY <1>1 DEF Publish, StageGoto, InferGoto
<1>2. CASE PublishMetrics \/ MetricsPublished
  BY <1>2, EventsAssumption
     DEF PublishMetrics, MetricsPublished, stageVars, inferVars
<1>3. CASE Published
  BY <1>3, EventsAssumption DEF Published, StageGoto, InferGoto
<1> QED BY <1>1, <1>2, <1>3

(* When Shutdown of a stage has returned, its inference thread is gone and  *)
(* neither of its threads is inside a handler of the bus, whatever the      *)
(* other channels and the monitor publish meanwhile.                        *)
THEOREM ShutdownIsFinalAlways == Spec => []ShutdownIsFinal
<1> DEFINE Inv == StageTypeOK /\ ShutInv
<1>1. Init => Inv
  BY EventsAssumption, InitInv DEF Init, ShutInv, Fresh
<1>2. Inv /\ [Next]_vars => Inv'
  <2> SUFFICES ASSUME Inv, [Next]_vars PROVE Inv'
    OBVIOUS
  <2>1. ASSUME NEW c \in Channels,
               \/ ProcessFrame(c) \/ InferCascade(c) \/ StageThread(c)
               \/ JoinStage(c)
        PROVE  Inv'
    BY <2>1, StageType, StageShut
  <2>2. ASSUME NEW c \in Channels, InferThread(c) \/ StopCall(c)
        PROVE  Inv'
    BY <2>2, InferType, InferShut
  <2>3. CASE \/ \E c \in Channels : Publish(c)
             \/ PublishMetrics \/ MetricsPublished \/ Published
    BY <2>3, BusType, BusShut
  <2>4. CASE UNCHANGED aiVars
    BY <2>4 DEF aiVars, stageVars, inferVars, StageTypeOK, ShutInv
  <2>5. CASE \/ FetchRules \/ CheckCooldown \/ InsertAlarm \/ UpdateCooldown
             \/ RuleCall \/ AlarmCall
    BY <2>4, <2>5, AlarmStep
  <2>6. CASE UNCHANGED vars
    BY <2>4, <2>6 DEF vars, aiVars
  <2> QED
    BY <2>1, <2>2, <2>3, <2>5, <2>6 DEF Next, HandlerStep
<1>3. Inv => ShutdownIsFinal
  <2> SUFFICES ASSUME Inv, NEW c \in Channels, stopper[c] = "done"
               PROVE  infer[c] \in {"none", "exited"} /\ bus # c
    BY DEF ShutdownIsFinal
  <2> QED BY DEF ShutInv
<1> QED BY <1>1, <1>2, <1>3, PTL DEF Spec
=============================================================================
