------------------------------ MODULE Tracking ------------------------------
(* IouTracker and the four evaluators of src/rules/evaluators for one rule.  *)
(* Boxes are squares of one size, so a detection is its centre; points have  *)
(* integer coordinates.  Frames arrive one per second.                       *)
EXTENDS Integers, Sequences, FiniteSets, SequencesExt

CONSTANTS
    Detections,             \* [at, confidence, class] the model may report
    BoxSize,
    max_frames_missing,
    min_confidence, target_classes,
    LineStart, LineEnd, Vertices,
    loiter_time_sec, cooldown_sec,
    MaxDetections,          \* bound: detections in a frame
    MaxTracked              \* bound: frames

ASSUME TrackingAssumption ==
    /\ IsFiniteSet(Detections) /\ MaxDetections \in Nat
    /\ BoxSize \in Nat \ {0} /\ max_frames_missing \in Nat
    /\ Vertices \in Seq(Int \X Int)
    /\ loiter_time_sec \in Nat /\ cooldown_sec \in Nat /\ MaxTracked \in Nat

VARIABLES
    evaluator,              \* [type, bidirectional]
    frameTime,              \* time of the last frame
    tracks_,                \* id -> track
    next_track_id_,
    last_side_,             \* CrossLineEvaluator, CountingEvaluator
    count_a_to_b_, count_b_to_a_,
    was_inside_,            \* RegionIntrusionEvaluator
    track_states_,          \* LoiteringEvaluator
    seen,                   \* history: track -> what the evaluator saw of it
    reported                \* history: events

trackVars == <<evaluator, frameTime, tracks_, next_track_id_, last_side_,
               count_a_to_b_, count_b_to_a_, was_inside_, track_states_, seen,
               reported>>

-----------------------------------------------------------------------------
(* Geometry.                                                                *)

Larger(a, b) == IF a > b THEN a ELSE b
Distance(a, b) == IF a < b THEN b - a ELSE a - b

(* ComputeIou as the pair of intersection and union.                        *)
ComputeIou(p, q) ==
    LET inter == Larger(0, BoxSize - Distance(p[1], q[1]))
                   * Larger(0, BoxSize - Distance(p[2], q[2]))
    IN  <<inter, 2 * BoxSize * BoxSize - inter>>

AboveThreshold(iou) == 4 * iou[1] >= iou[2]         \* 0.25
AtLeast(a, b) == a[1] * b[2] >= b[1] * a[2]

CrossProduct(a, b, p) ==
    (b[1] - a[1]) * (p[2] - a[2]) - (b[2] - a[2]) * (p[1] - a[1])

Side(p) == LET cp == CrossProduct(LineStart, LineEnd, p)
           IN  IF cp > 0 THEN 1 ELSE IF cp < 0 THEN -1 ELSE 0

(* The ray from p to the right crosses the edge from v to w: the code       *)
(* divides by w.y - v.y, whose sign is taken into account here.             *)
Crosses(p, v, w) ==
    LET dy == w[2] - v[2]
        left == (p[1] - v[1]) * dy
        right == (w[1] - v[1]) * (p[2] - v[2])
    IN  /\ (v[2] > p[2]) # (w[2] > p[2])
        /\ IF dy > 0 THEN left < right ELSE left > right

PointInPolygon(p) ==
    /\ Len(Vertices) >= 3
    /\ Cardinality({i \in DOMAIN Vertices :
          Crosses(p, Vertices[i],
                  Vertices[IF i = 1 THEN Len(Vertices) ELSE i - 1])}) % 2 = 1

-----------------------------------------------------------------------------
(* IouTracker::Update.  Pairs of equal IOU may be sorted either way, so     *)
(* there may be several greedy matchings: sets of pairs that no pair with a *)
(* larger IOU is kept out of.                                               *)

IouOf(pair) == ComputeIou(tracks_[pair[1]].at, pair[2].at)

Pairs(found) ==
    {p \in (DOMAIN tracks_) \X found :
        tracks_[p[1]].active /\ AboveThreshold(IouOf(p))}

GreedyMatches(found) ==
    {M \in SUBSET Pairs(found) :
        /\ \A p, q \in M : p = q \/ (p[1] # q[1] /\ p[2] # q[2])
        /\ \A p \in Pairs(found) \ M :
              \E q \in M : /\ p[1] = q[1] \/ p[2] = q[2]
                           /\ AtLeast(IouOf(q), IouOf(p))}

(* What becomes of a track.  History: the detection it was last given, and  *)
(* in lost the frames since then.                                           *)
Matched(track, d) ==
    [track EXCEPT !.at = d.at, !.missing = 0, !.age = @ + 1, !.lost = 0,
                  !.given = d]

Unmatched(track) ==
    [track EXCEPT !.missing = IF track.active THEN @ + 1 ELSE @,
                  !.active = @ /\ track.missing < max_frames_missing,
                  !.lost = @ + 1]

NewTrack(d) == [at |-> d.at, age |-> 1, missing |-> 0, active |-> TRUE,
                lost |-> 0, given |-> d]

LongDead(track) == ~track.active /\ track.missing > max_frames_missing * 2

Update(found, M) ==
    LET matchOf(t) == {p[2] : p \in {q \in M : q[1] = t}}
        fresh == SetToSeq(found \ {p[2] : p \in M})
        ids == DOMAIN tracks_ \union
                 {next_track_id_ + i - 1 : i \in DOMAIN fresh}
        after == [t \in ids |->
                    IF t >= next_track_id_
                    THEN NewTrack(fresh[t - next_track_id_ + 1])
                    ELSE IF matchOf(t) # {}
                    THEN Matched(tracks_[t], CHOOSE d \in matchOf(t) : TRUE)
                    ELSE Unmatched(tracks_[t])]
    IN  [t \in {u \in ids : ~LongDead(after[u])} |-> after[t]]

-----------------------------------------------------------------------------
(* The evaluators, after the tracker was updated.                           *)

FilterDetections(found) ==
    {d \in found : /\ d.confidence >= min_confidence
                   /\ target_classes = {} \/ d.class \in target_classes}

Event(t, what) == [track |-> t, time |-> frameTime', what |-> what]

(* Only what the tracker still knows is remembered.                         *)
Remember(old, new, tracks) ==
    [t \in (DOMAIN old \union DOMAIN new) \intersect DOMAIN tracks |->
        IF t \in DOMAIN new THEN new[t] ELSE old[t]]

Active(tracks) == {t \in DOMAIN tracks : tracks[t].active}

(* Crossing of the line: the side of a track of two points or more, unless  *)
(* it is on the line, and the crossings it means.                           *)
OnSide(tracks) ==
    [t \in {u \in Active(tracks) : tracks[u].age >= 2 /\ Side(tracks[u].at) # 0} |->
        Side(tracks[t].at)]

Crossings(sides) ==
    {t \in DOMAIN sides \intersect DOMAIN last_side_ : last_side_[t] # sides[t]}

Direction(side) == IF side < 0 THEN "A_to_B" ELSE "B_to_A"

Reportable(side) ==
    evaluator.type = "kObjectCounting" \/ evaluator.bidirectional \/ side < 0

(* Mutant: a crossing that is not reported is not remembered either.        *)
SidesReported(tracks) ==
    LET sides == OnSide(tracks)
    IN  [t \in {u \in DOMAIN sides : u \in Crossings(sides) => Reportable(sides[u])}
           |-> sides[t]]

SidesSeen(tracks) == OnSide(tracks)

EvaluateLine(found, tracks) ==
    LET sides == OnSide(tracks)
        crossed == Crossings(sides)
    IN  IF evaluator.type = "kCrossLine" /\ found = {}
        THEN UNCHANGED <<last_side_, count_a_to_b_, count_b_to_a_, reported>>
        ELSE /\ last_side_' = Remember(last_side_, SidesSeen(tracks), tracks)
             /\ reported' = reported \union
                  {Event(t, Direction(sides[t])) :
                      t \in {u \in crossed : Reportable(sides[u])}}
             /\ IF evaluator.type = "kObjectCounting"
                THEN /\ count_a_to_b_' = count_a_to_b_
                          + Cardinality({t \in crossed : sides[t] < 0})
                     /\ count_b_to_a_' = count_b_to_a_
                          + Cardinality({t \in crossed : sides[t] > 0})
                ELSE UNCHANGED <<count_a_to_b_, count_b_to_a_>>

(* Entering the region; a track first seen inside has entered it.           *)
EvaluateRegion(tracks) ==
    LET inside == [t \in Active(tracks) |-> PointInPolygon(tracks[t].at)]
    IN  /\ was_inside_' = Remember(was_inside_, inside, tracks)
        /\ reported' = reported \union
             {Event(t, "enter") : t \in {u \in DOMAIN inside :
                 inside[u] /\ ~(u \in DOMAIN was_inside_ /\ was_inside_[u])}}

NewTrackState == [inside |-> FALSE, enter |-> 0, alerted |-> FALSE, last |-> 0]

(* Loitering: a stay of loiter_time_sec, and again after every cooldown.    *)
Entered(state) ==
    IF state.inside THEN state
    ELSE [state EXCEPT !.inside = TRUE, !.enter = frameTime', !.alerted = FALSE]

Left(state) ==
    IF state.inside
    THEN [state EXCEPT !.inside = FALSE, !.alerted = FALSE, !.enter = 0]
    ELSE state

ShouldAlert(state) ==
    /\ frameTime' - state.enter >= loiter_time_sec
    /\ \/ ~state.alerted
       \/ cooldown_sec > 0 /\ frameTime' - state.last >= cooldown_sec

EvaluateLoitering(tracks) ==
    LET stateOf(t) == IF t \in DOMAIN track_states_ THEN track_states_[t]
                      ELSE NewTrackState
        now(t) == IF PointInPolygon(tracks[t].at) THEN Entered(stateOf(t))
                  ELSE Left(stateOf(t))
        alerts == {t \in Active(tracks) : now(t).inside /\ ShouldAlert(now(t))}
        states == [t \in Active(tracks) |->
                     IF t \in alerts
                     THEN [now(t) EXCEPT !.alerted = TRUE, !.last = frameTime']
                     ELSE now(t)]
    IN  /\ track_states_' = Remember(track_states_, states, tracks)
        /\ reported' = reported \union {Event(t, "loiter") : t \in alerts}

(* What the evaluator sees of the tracks in this frame.                     *)
Observe(tracks) ==
    seen' = [t \in DOMAIN seen \union DOMAIN tracks |->
        (IF t \in DOMAIN seen THEN seen[t] ELSE <<>>)
          \o (IF t \in Active(tracks)
              THEN <<[time |-> frameTime', at |-> tracks[t].at,
                      age |-> tracks[t].age]>> ELSE <<>>)]

(* A frame with detections reaches the evaluator.                           *)
Evaluate(detections) ==
    /\ frameTime < MaxTracked
    /\ frameTime' = frameTime + 1
    /\ LET found == FilterDetections(detections)
       IN  \E M \in GreedyMatches(found) :
             LET tracks == Update(found, M)
             IN  /\ tracks_' = tracks
                 /\ next_track_id_' = next_track_id_
                      + Cardinality(found \ {p[2] : p \in M})
                 /\ IF evaluator.type = "kCrossLine" /\ found = {}
                    THEN UNCHANGED seen ELSE Observe(tracks)
                 /\ CASE evaluator.type = "kRegionIntrusion" ->
                           /\ EvaluateRegion(tracks)
                           /\ UNCHANGED <<last_side_, count_a_to_b_,
                                          count_b_to_a_, track_states_>>
                      [] evaluator.type = "kLoitering" ->
                           /\ EvaluateLoitering(tracks)
                           /\ UNCHANGED <<last_side_, count_a_to_b_,
                                          count_b_to_a_, was_inside_>>
                      [] OTHER ->
                           /\ EvaluateLine(found, tracks)
                           /\ UNCHANGED <<was_inside_, track_states_>>
    /\ UNCHANGED evaluator

TrackingInit ==
    /\ evaluator \in [type : {"kCrossLine"}, bidirectional : BOOLEAN] \union
         [type : {"kObjectCounting", "kRegionIntrusion", "kLoitering"},
          bidirectional : {TRUE}]
    /\ frameTime = 0 /\ tracks_ = <<>> /\ next_track_id_ = 1
    /\ last_side_ = <<>> /\ count_a_to_b_ = 0 /\ count_b_to_a_ = 0
    /\ was_inside_ = <<>> /\ track_states_ = <<>>
    /\ seen = <<>> /\ reported = {}

TrackingNext ==
    \E found \in {D \in SUBSET Detections : Cardinality(D) \in 1..MaxDetections} :
        Evaluate(found)

TrackingSpec == TrackingInit /\ [][TrackingNext]_trackVars

-----------------------------------------------------------------------------
(* What should have been reported of a track, from all that was seen of it. *)

OffLine(o) == o.age >= 2 /\ Side(o.at) # 0

(* Observation k is off the line, and on the other side than the last one   *)
(* before it that was off the line.                                         *)
Crossed(s, k) ==
    /\ OffLine(s[k])
    /\ \E j \in 1..(k - 1) :
          /\ OffLine(s[j]) /\ Side(s[j].at) # Side(s[k].at)
          /\ \A i \in (j + 1)..(k - 1) : ~OffLine(s[i])

ExpectedCrossings(s) ==
    {[time |-> s[k].time, what |-> Direction(Side(s[k].at))] :
        k \in {j \in DOMAIN s : Crossed(s, j) /\ Reportable(Side(s[j].at))}}

ExpectedEntries(s) ==
    {[time |-> s[k].time, what |-> "enter"] :
        k \in {j \in DOMAIN s : /\ PointInPolygon(s[j].at)
                                /\ j = 1 \/ ~PointInPolygon(s[j-1].at)}}

(* The stay inside that observation k belongs to began at observation j.    *)
StayBegan(s, j, k) ==
    /\ \A i \in j..k : PointInPolygon(s[i].at)
    /\ j = 1 \/ ~PointInPolygon(s[j-1].at)

LoiterRight(s, alerts) ==
    /\ \A k \in DOMAIN s : s[k].time \in alerts =>
          \E j \in 1..k : StayBegan(s, j, k)
                          /\ s[k].time - s[j].time >= loiter_time_sec
    /\ \A k \in DOMAIN s : \A j \in 1..k :
          /\ StayBegan(s, j, k) /\ s[k].time - s[j].time >= loiter_time_sec
             => \E a \in alerts : a \in s[j].time..s[k].time
          /\ StayBegan(s, j, k) /\ s[k].time \in alerts
             => \A a \in alerts \intersect s[j].time..(s[k].time - 1) :
                   cooldown_sec > 0 /\ s[k].time - a >= cooldown_sec

Reports(t) == {[time |-> e.time, what |-> e.what] :
                 e \in {f \in reported : f.track = t}}

(* Each evaluator reports of each track exactly the events its observed     *)
(* positions mean, however detections come, go, overlap and are handed from *)
(* one track to another; a counter equals its crossings; and no two tracks  *)
(* were given the same detection.                                           *)
EventsExact ==
    /\ \A t \in DOMAIN seen :
          CASE evaluator.type = "kRegionIntrusion" ->
                 Reports(t) = ExpectedEntries(seen[t])
            [] evaluator.type = "kLoitering" ->
                 LoiterRight(seen[t], {r.time : r \in Reports(t)})
            [] OTHER -> Reports(t) = ExpectedCrossings(seen[t])
    /\ evaluator.type = "kObjectCounting" =>
          /\ count_a_to_b_ = Cardinality({e \in reported : e.what = "A_to_B"})
          /\ count_b_to_a_ = Cardinality({e \in reported : e.what = "B_to_A"})
    /\ \A t, u \in DOMAIN tracks_ :
          tracks_[t].lost = 0 /\ tracks_[u].lost = 0
            /\ tracks_[t].given = tracks_[u].given => t = u

(* A track that was not matched for more than twice max_frames_missing is   *)
(* removed, as the comment in Update says.                                  *)
DeadTracksRemoved ==
    \A t \in DOMAIN tracks_ : tracks_[t].lost <= 2 * max_frames_missing + 1
=============================================================================
