------------------------------- MODULE Rules -------------------------------
(* RuleStore and RuleEngine (src/rules), AnalyticsStore and                  *)
(* AnalyticsAggregator (src/analytics), the rule routes and the handler of   *)
(* rule.triggered in main.  Store calls are atomic (each takes the store's   *)
(* mutex); what is done between them is not.  The engine's mutex is held     *)
(* over a whole evaluation, so one evaluation runs at a time.  What an       *)
(* evaluator decides is the subject of module Tracking; here it may or may   *)
(* not report an event.  Time is counted in hours.                           *)
EXTENDS Integers, FiniteSets, FiniteSetsExt, Functions

CONSTANTS
    RuleCallers,        \* HTTP threads
    RuleChannels,       \* channel ids, not negative
    Cooldown,           \* cooldown_sec of a rule
    Retention,          \* retention_days
    RuleHours,          \* bound: the clock
    MaxRuleEdits,       \* bound: calls that change rules
    MaxRuleEvents       \* bound: events

ASSUME RulesAssumption ==
    /\ RuleChannels \subseteq Nat /\ Cooldown \in Nat /\ Retention \in Nat
    /\ RuleHours \in Nat \ {0} /\ MaxRuleEdits \in Nat /\ MaxRuleEvents \in Nat

VARIABLES
    ruleTime,           \* the clock
    ruleRows,           \* table rules: id -> row
    ruleEdits,          \* calls made; also names the revision of a row
    ruleCall,           \* thread -> the call it is in
    overlapped,         \* history: channels that had two calls at a time
    evaluators_,        \* channel -> (id -> entry)
    evaluation,         \* {} or {the evaluation that holds the mutex}
    ruleLog,            \* events reported so far; `logged`: in table rule_events
    hourly,             \* table analytics_hourly: <<hour, channel>> -> count
    last_aggregated_ms_ \* AnalyticsAggregator

ruleVars == <<ruleRows, ruleEdits, ruleCall, overlapped>>
analyticsVars == <<hourly, last_aggregated_ms_>>
rulesVars == <<ruleTime, ruleVars, evaluators_, evaluation, ruleLog,
               analyticsVars>>

NoCall == [at |-> "idle", channel |-> 0, id |-> 0, row |-> {}, built |-> <<>>]

-----------------------------------------------------------------------------
(* RuleStore.                                                               *)

ListEnabledRulesByChannel(ch) ==
    {i \in DOMAIN ruleRows : ruleRows[i].channel = ch /\ ruleRows[i].enabled}

GetRule(id) == ruleRows[id]

InsertRule(id, row) ==
    ruleRows' = [i \in DOMAIN ruleRows \union {id} |->
                    IF i = id THEN row ELSE ruleRows[i]]

(* Mutant: -1 stands for all channels.                                      *)
QueryEventsOfAll(ch, start, end) ==
    {i \in DOMAIN ruleLog : ch \in {-1, ruleLog[i].channel} /\ ruleLog[i].logged
                            /\ ruleLog[i].time \in start..end}

(* Every channel is compared as it is, -1 too.                              *)
QueryEvents(ch, start, end) ==
    {i \in DOMAIN ruleLog : ruleLog[i].channel = ch /\ ruleLog[i].logged
                            /\ ruleLog[i].time \in start..end}

-----------------------------------------------------------------------------
(* RuleEngine: the cache of evaluators.                                     *)

(* BuildEvaluators: fresh entries, without a last event.                    *)
BuildEvaluators(ch) ==
    [i \in ListEnabledRulesByChannel(ch) |->
        [rev |-> ruleRows[i].rev, last |-> 0]]

LoadRules == [ch \in RuleChannels |-> BuildEvaluators(ch)]

EngineFree == evaluation = {}

(* A call that changes rules of a channel begins.                           *)
BeginCall(t, entry) ==
    /\ ruleCall[t].at = "idle" /\ ruleEdits < MaxRuleEdits
    /\ ruleEdits' = ruleEdits + 1
    /\ ruleCall' = [ruleCall EXCEPT ![t] = entry]
    /\ overlapped' = IF \E u \in RuleCallers \ {t} :
                           /\ ruleCall[u].at # "idle"
                           /\ ruleCall[u].channel = entry.channel
                     THEN overlapped \union {entry.channel} ELSE overlapped
    /\ UNCHANGED <<ruleTime, evaluators_, evaluation, ruleLog, analyticsVars>>

(* HandleCreateRule and CreateRule up to the row; a channel below 0 is      *)
(* refused.                                                                 *)
CreateRule(t, ch, enabled) ==
    LET id == ruleEdits + 1
    IN  /\ BeginCall(t, [NoCall EXCEPT !.at = "build", !.channel = ch])
        /\ InsertRule(id, [channel |-> ch, enabled |-> enabled, rev |-> ruleEdits])

(* HandleUpdateRule reads the row (404 without one) and changes its copy.   *)
HandleUpdateRule(t, id, enabled) ==
    /\ id \in DOMAIN ruleRows
    /\ BeginCall(t, [NoCall EXCEPT !.at = "update", !.id = id,
         !.channel = GetRule(id).channel,
         !.row = {[GetRule(id) EXCEPT !.enabled = enabled, !.rev = ruleEdits]}])
    /\ UNCHANGED ruleRows

(* UpdateRule: no error when the row has gone meanwhile.                    *)
UpdateRule(t) ==
    /\ ruleCall[t].at = "update"
    /\ ruleRows' = [i \in DOMAIN ruleRows |->
         IF i = ruleCall[t].id THEN CHOOSE r \in ruleCall[t].row : TRUE
         ELSE ruleRows[i]]
    /\ ruleCall' = [ruleCall EXCEPT ![t].at = "build", ![t].row = {}]
    /\ UNCHANGED <<ruleTime, ruleEdits, overlapped, evaluators_, evaluation,
                   ruleLog, analyticsVars>>

(* DeleteRule: the channel is looked up first, ...                          *)
HandleDeleteRule(t, id) ==
    /\ id \in DOMAIN ruleRows
    /\ BeginCall(t, [NoCall EXCEPT !.at = "delete", !.id = id,
                                   !.channel = GetRule(id).channel])
    /\ UNCHANGED ruleRows

(* Mutant: the row is deleted and the channel no longer found.              *)
DeleteRuleUnloaded(t) ==
    /\ ruleCall[t].at = "delete"
    /\ ruleRows' = Restrict(ruleRows, DOMAIN ruleRows \ {ruleCall[t].id})
    /\ ruleCall' = [ruleCall EXCEPT ![t] = NoCall]
    /\ UNCHANGED <<ruleTime, ruleEdits, overlapped, evaluators_, evaluation,
                   ruleLog, analyticsVars>>

(* ... then the row is deleted.                                             *)
DeleteRule(t) ==
    /\ ruleCall[t].at = "delete"
    /\ ruleRows' = Restrict(ruleRows, DOMAIN ruleRows \ {ruleCall[t].id})
    /\ ruleCall' = [ruleCall EXCEPT ![t].at = "build"]
    /\ UNCHANGED <<ruleTime, ruleEdits, overlapped, evaluators_, evaluation,
                   ruleLog, analyticsVars>>

(* ReloadChannel reads the rules before it takes the mutex, ...             *)
ReloadChannel(t) ==
    /\ ruleCall[t].at = "build"
    /\ ruleCall' = [ruleCall EXCEPT ![t].at = "swap",
                      ![t].built = BuildEvaluators(ruleCall[t].channel)]
    /\ UNCHANGED <<ruleTime, ruleRows, ruleEdits, overlapped, evaluators_,
                   evaluation, ruleLog, analyticsVars>>

(* ... and replaces the entries of the channel under it.                    *)
SwapEvaluators(t) ==
    /\ ruleCall[t].at = "swap" /\ EngineFree
    /\ evaluators_' = [evaluators_ EXCEPT ![ruleCall[t].channel]
                                            = ruleCall[t].built]
    /\ ruleCall' = [ruleCall EXCEPT ![t] = NoCall]
    /\ UNCHANGED <<ruleTime, ruleRows, ruleEdits, overlapped, evaluation,
                   ruleLog, analyticsVars>>

-----------------------------------------------------------------------------
(* RuleEngine::Evaluate, from RuleStage.                                    *)

Cooling(entry, stamp) == entry.last > 0 /\ stamp - entry.last < Cooldown

(* The frame's own time stamp is the time of its events: the clock, or      *)
(* where the stream has pts, whatever they count from.                      *)
EvaluateBegin(ch) ==
    \E stamp \in 1..ruleTime :
      /\ EngineFree /\ DOMAIN evaluators_[ch] # {}
      /\ evaluation' = {[channel |-> ch, stamp |-> stamp, publishing |-> 0,
                         left |-> {i \in DOMAIN evaluators_[ch] :
                                     ~Cooling(evaluators_[ch][i], stamp)}]}
      /\ UNCHANGED <<ruleTime, ruleVars, evaluators_, ruleLog, analyticsVars>>

(* The next entry reports nothing.                                          *)
EvaluateQuiet ==
    \E e \in evaluation :
      /\ e.publishing = 0 /\ e.left # {}
      /\ evaluation' = {[e EXCEPT !.left = @ \ {Min(@)}]}
      /\ UNCHANGED <<ruleTime, ruleVars, evaluators_, ruleLog, analyticsVars>>

(* It reports an event, which is logged; that the insert may fail is not    *)
(* looked at ...                                                            *)
LogEvent ==
    \E e \in evaluation, logged \in BOOLEAN :
      LET rule == Min(e.left)
          row == Cardinality(DOMAIN ruleLog) + 1
      IN  /\ e.publishing = 0 /\ e.left # {} /\ row <= MaxRuleEvents
          /\ evaluators_' = [evaluators_ EXCEPT ![e.channel][rule].last = e.stamp]
          /\ ruleLog' = [i \in DOMAIN ruleLog \union {row} |->
               IF i = row THEN [channel |-> e.channel, time |-> e.stamp,
                                logged |-> logged]
               ELSE ruleLog[i]]
          /\ evaluation' = {[e EXCEPT !.publishing = row, !.left = @ \ {rule}]}
          /\ UNCHANGED <<ruleTime, ruleVars, analyticsVars>>

Bucket(event) == <<event.time, event.channel>>

(* The count of a bucket after so many more events of it.  (count_sum stays *)
(* 0: the handler in main does not read the count.)                         *)
UpsertHourly(b, events) ==
    (IF b \in DOMAIN hourly THEN hourly[b] ELSE 0) + events

IngestEvents(rows) ==
    [b \in DOMAIN hourly \union {Bucket(ruleLog[i]) : i \in rows} |->
        UpsertHourly(b, Cardinality({i \in rows : Bucket(ruleLog[i]) = b}))]

(* ... and published: the handler in main counts it.                        *)
PublishEvent ==
    \E e \in evaluation :
      /\ e.publishing # 0
      /\ hourly' = IngestEvents({e.publishing})
      /\ evaluation' = {[e EXCEPT !.publishing = 0]}
      /\ UNCHANGED <<ruleTime, ruleVars, evaluators_, ruleLog,
                     last_aggregated_ms_>>

EvaluateEnd ==
    /\ \E e \in evaluation : e.publishing = 0 /\ e.left = {}
    /\ evaluation' = {}
    /\ UNCHANGED <<ruleTime, ruleVars, evaluators_, ruleLog, analyticsVars>>

-----------------------------------------------------------------------------
(* AnalyticsAggregator::RunAggregation, by its thread: the events of the    *)
(* log since the last time, then the purge.                                 *)
PurgeOlderThan(counts, cutoff) ==
    Restrict(counts, {b \in DOMAIN counts : b[1] >= cutoff})

RunAggregation ==
    LET events == QueryEvents(-1, last_aggregated_ms_, ruleTime)
        counts == IngestEvents(events)
    IN  /\ hourly' = IF Retention > 0
                     THEN PurgeOlderThan(counts, ruleTime - Retention) ELSE counts
        /\ last_aggregated_ms_' = IF events # {} THEN ruleTime
                                  ELSE last_aggregated_ms_
        /\ UNCHANGED <<ruleTime, ruleVars, evaluators_, evaluation, ruleLog>>

(* AnalyticsStore's reports over the hours start..end.                      *)
QueryHourly(ch, start, end) ==
    {b \in DOMAIN hourly : b[1] \in start..end /\ ch \in {-1, b[2]}}

TotalOf(buckets) == SumFunctionOnSet(hourly, buckets)

GetSummary(ch, start, end) ==
    LET found == QueryHourly(ch, start, end)
    IN  [total_events |-> TotalOf(found),
         active_channels |-> Cardinality({b[2] : b \in found})]

(* GetTrends with buckets of so many hours.                                 *)
GetTrends(ch, start, end, hours) ==
    LET found == QueryHourly(ch, start, end)
        key(b) == (b[1] \div hours) * hours
    IN  [k \in {key(b) : b \in found} |-> TotalOf({b \in found : key(b) = k})]

GetPeakHours(ch, start, end, day) ==
    LET found == QueryHourly(ch, start, end)
    IN  [h \in {b[1] % day : b \in found} |->
            TotalOf({b \in found : b[1] % day = h})]

-----------------------------------------------------------------------------
RuleTick ==
    /\ ruleTime < RuleHours
    /\ ruleTime' = ruleTime + 1
    /\ UNCHANGED <<ruleVars, evaluators_, evaluation, ruleLog, analyticsVars>>

(* The process ends anywhere and is started again: main loads the rules     *)
(* before the HTTP server takes calls.                                      *)
RulesRestart ==
    /\ \/ evaluation # {} \/ \E t \in RuleCallers : ruleCall[t].at # "idle"
    /\ ruleCall' = [t \in RuleCallers |-> NoCall]
    /\ evaluation' = {} /\ overlapped' = {}
    /\ evaluators_' = LoadRules
    /\ last_aggregated_ms_' = 0
    /\ UNCHANGED <<ruleTime, ruleRows, ruleEdits, ruleLog, hourly>>

RulesInit ==
    /\ ruleTime = 1 /\ ruleRows = <<>> /\ ruleEdits = 0
    /\ ruleCall = [t \in RuleCallers |-> NoCall] /\ overlapped = {}
    /\ evaluators_ = [ch \in RuleChannels |-> <<>>]
    /\ evaluation = {} /\ ruleLog = <<>> /\ hourly = <<>>
    /\ last_aggregated_ms_ = 0

RulesNext ==
    \/ \E t \in RuleCallers :
          \/ UpdateRule(t) \/ DeleteRule(t) \/ ReloadChannel(t)
          \/ SwapEvaluators(t)
          \/ \E ch \in RuleChannels, enabled \in BOOLEAN : CreateRule(t, ch, enabled)
          \/ \E id \in DOMAIN ruleRows :
                \/ HandleDeleteRule(t, id)
                \/ \E enabled \in BOOLEAN : HandleUpdateRule(t, id, enabled)
    \/ \E ch \in RuleChannels : EvaluateBegin(ch)
    \/ EvaluateQuiet \/ LogEvent \/ PublishEvent \/ EvaluateEnd
    \/ RunAggregation \/ RuleTick \/ RulesRestart

RulesSpec == RulesInit /\ [][RulesNext]_rulesVars

-----------------------------------------------------------------------------
(* As long as the calls for a channel have not overlapped, a channel        *)
(* without a call has exactly its enabled rules loaded, each as it was last *)
(* saved.  (Two that do overlap may install their evaluators in the order   *)
(* opposite to the rows'.)                                                  *)
EngineFollowsStore ==
    \A ch \in RuleChannels \ overlapped :
        (\A t \in RuleCallers : ruleCall[t].at = "idle" \/ ruleCall[t].channel # ch)
        => /\ DOMAIN evaluators_[ch] = ListEnabledRulesByChannel(ch)
           /\ \A i \in DOMAIN evaluators_[ch] :
                 evaluators_[ch][i].rev = ruleRows[i].rev

(* No event is counted twice, though it reaches the aggregator live and,    *)
(* when it was logged, may be found by every later aggregation and after a  *)
(* restart; and summary, trends and peak hours add up to the same total.    *)
CountsAgree ==
    /\ \A b \in DOMAIN hourly :
          hourly[b] <= Cardinality({i \in DOMAIN ruleLog : Bucket(ruleLog[i]) = b})
    /\ \A ch \in RuleChannels \union {-1}, start \in 1..RuleHours :
          LET total == GetSummary(ch, start, RuleHours).total_events
              trends == GetTrends(ch, start, RuleHours, 2)
              peaks == GetPeakHours(ch, start, RuleHours, 2)
          IN  SumFunction(trends) = total /\ SumFunction(peaks) = total
=============================================================================
