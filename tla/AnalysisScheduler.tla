-------------------------- MODULE AnalysisScheduler --------------------------
(* AnalysisScheduler (src/ai_engine/scheduler): decides per channel whether  *)
(* a frame is analysed, and once per cycle shares the GPU time among the     *)
(* channels.  Every method runs under mutex_.  Microseconds are counted in   *)
(* coarser units; how long ago a channel was last analysed is kept up to the *)
(* longest interval that is compared with it.  gpu_used_us_ and              *)
(* gpu_utilization_ are written and never used for a decision.               *)
EXTENDS Integers, FiniteSets, Functions

CONSTANTS
    TaskChannels,       \* channel ids, integers
    Tasks,              \* AnalysisTask: [strategy, target_fps, enabled]
    InferenceTimes, Budgets,
    DefaultCost,        \* assumed while no inference was reported
    Second,
    kMaxChannels,
    MaxTaskCalls,       \* bound: changes between two rebalances
    MaxReports          \* bound: reports per task

ASSUME SchedulerAssumption ==
    /\ TaskChannels \subseteq Int /\ IsFiniteSet(TaskChannels)
    /\ Tasks \subseteq [strategy : {"kRealtime", "kPolling", "kOnDemand"},
                        target_fps : Nat, enabled : BOOLEAN]
    /\ InferenceTimes \subseteq Nat /\ Budgets \subseteq Nat
    /\ DefaultCost \in Nat /\ Second \in Nat \ {0} /\ kMaxChannels \in Nat
    /\ MaxTaskCalls \in Nat /\ MaxReports \in Nat

VARIABLES
    tasks_,             \* channel -> TaskState
    gpu_budget_,
    changes             \* history: calls since the last rebalance

schedulerVars == <<tasks_, gpu_budget_, changes>>

Interval(fps, otherwise) == IF fps > 0 THEN Second \div fps ELSE otherwise

Enabled == {c \in DOMAIN tasks_ : tasks_[c].config.enabled}

Cost(c) == IF tasks_[c].total_inferences > 0
           THEN tasks_[c].total_time \div tasks_[c].total_inferences
           ELSE DefaultCost

Needed(c) == Cost(c) * tasks_[c].config.target_fps

-----------------------------------------------------------------------------
(* An entry more.                                                           *)
Put(f, c, x) == [d \in DOMAIN f \union {c} |-> IF d = c THEN x ELSE f[d]]

Change == changes < MaxTaskCalls /\ changes' = changes + 1

AddTask(c, task) ==
    /\ Change
    /\ Cardinality(DOMAIN tasks_) < kMaxChannels /\ c \notin DOMAIN tasks_
    /\ tasks_' = Put(tasks_, c,
          [config |-> task, age |-> 0,
           frame_interval |-> Interval(task.target_fps, Second \div 5),
           total_inferences |-> 0, total_time |-> 0,
           is_throttled |-> FALSE, effective_fps |-> task.target_fps])
    /\ UNCHANGED gpu_budget_

RemoveTask(c) ==
    /\ Change
    /\ c \in DOMAIN tasks_
    /\ tasks_' = Restrict(tasks_, DOMAIN tasks_ \ {c})
    /\ UNCHANGED gpu_budget_

(* The interval is that of the new rate; a throttled task stays throttled.  *)
UpdateTask(c, task) ==
    /\ Change
    /\ c \in DOMAIN tasks_
    /\ tasks_' = [tasks_ EXCEPT ![c].config = task,
                    ![c].frame_interval = Interval(task.target_fps, @)]
    /\ UNCHANGED gpu_budget_

SetEnabled(c, on) ==
    /\ Change
    /\ c \in DOMAIN tasks_
    /\ tasks_' = [tasks_ EXCEPT ![c].config.enabled = on]
    /\ UNCHANGED gpu_budget_

SetGpuBudget(budget) ==
    /\ Change
    /\ gpu_budget_' = budget
    /\ UNCHANGED tasks_

-----------------------------------------------------------------------------
(* A throttled task waits for twice its interval.                           *)
EffectiveInterval(c) ==
    IF tasks_[c].is_throttled THEN 2 * tasks_[c].frame_interval
    ELSE tasks_[c].frame_interval

(* kRealtime always is and kOnDemand never is analysed; neither keeps time. *)
ShouldAnalyze(c) ==
    /\ c \in Enabled /\ tasks_[c].config.strategy = "kPolling"
    /\ tasks_[c].age >= EffectiveInterval(c)
    /\ tasks_' = [tasks_ EXCEPT ![c].age = 0]
    /\ UNCHANGED <<gpu_budget_, changes>>

ReportInference(c, time) ==
    /\ Change
    /\ c \in DOMAIN tasks_ /\ tasks_[c].total_inferences < MaxReports
    /\ tasks_' = [tasks_ EXCEPT ![c].total_inferences = @ + 1,
                                ![c].total_time = @ + time]
    /\ UNCHANGED gpu_budget_

-----------------------------------------------------------------------------
Priority(c) == CASE tasks_[c].config.strategy = "kRealtime" -> 0
                 [] tasks_[c].config.strategy = "kPolling" -> 1
                 [] tasks_[c].config.strategy = "kOnDemand" -> 2

Precedes(c, d) == \/ Priority(c) < Priority(d)
                  \/ Priority(c) = Priority(d) /\ c < d

(* ComputeSchedulingOrder, of which RebalanceBudget has been through S.     *)
LastInOrder(S) == CHOOSE c \in S : \A d \in S \ {c} : Precedes(d, c)

(* Mutant: a task that gets part of its need leaves the rest to the others. *)
GrantSharing(acc, c) ==
    LET rest == acc.remaining
        fps == IF rest > 0 /\ Cost(c) > 0 /\ rest \div Cost(c) > 1
               THEN rest \div Cost(c) ELSE 1
        full == rest >= Needed(c)
    IN  [remaining |-> IF full THEN rest - Needed(c) ELSE rest,
         fps |-> Put(acc.fps, c, IF full THEN tasks_[c].config.target_fps ELSE fps),
         throttled |-> IF full THEN acc.throttled ELSE acc.throttled \union {c}]

(* What one task gets of the remaining budget: all it needs, what is left,  *)
(* or one frame per second.                                                 *)
Grant(acc, c) ==
    LET rest == acc.remaining
        fps == IF rest > 0 /\ Cost(c) > 0 /\ rest \div Cost(c) > 1
               THEN rest \div Cost(c) ELSE 1
        full == rest >= Needed(c)
    IN  [remaining |-> IF full THEN rest - Needed(c)
                       ELSE IF rest > 0 /\ Cost(c) > 0 THEN 0 ELSE rest,
         fps |-> Put(acc.fps, c, IF full THEN tasks_[c].config.target_fps ELSE fps),
         throttled |-> IF full THEN acc.throttled ELSE acc.throttled \union {c}]

(* What the loop has granted after the tasks S.                             *)
Grants[S \in SUBSET Enabled] ==
    IF S = {} THEN [remaining |-> gpu_budget_, fps |-> <<>>, throttled |-> {}]
    ELSE LET c == LastInOrder(S) IN Grant(Grants[S \ {c}], c)

Oversubscribed == SumFunction([c \in Enabled |-> Needed(c)]) > gpu_budget_

(* RebalanceBudget.  Disabled tasks are left alone when there is too little,*)
(* and freed as all others are when there is enough.                        *)
RebalanceBudget ==
    LET grants == Grants[Enabled]
        fps(c) == IF ~Oversubscribed THEN tasks_[c].config.target_fps
                  ELSE IF c \in Enabled THEN grants.fps[c]
                  ELSE tasks_[c].effective_fps
        skipped(c) == Oversubscribed /\ c \notin Enabled
    IN  /\ changes > 0
        /\ changes' = 0
        /\ tasks_' = [c \in DOMAIN tasks_ |->
             IF skipped(c) THEN tasks_[c]
             ELSE [tasks_[c] EXCEPT
                     !.is_throttled = Oversubscribed /\ c \in grants.throttled,
                     !.effective_fps = fps(c),
                     !.frame_interval = Interval(fps(c), @)]]
        /\ UNCHANGED gpu_budget_

SchedulerTick ==
    /\ tasks_' = [c \in DOMAIN tasks_ |->
          [tasks_[c] EXCEPT !.age = IF @ < 2 * Second THEN @ + 1 ELSE @]]
    /\ UNCHANGED <<gpu_budget_, changes>>

SchedulerInit ==
    /\ tasks_ = <<>> /\ gpu_budget_ \in Budgets /\ changes = 0

SchedulerNext ==
    \/ \E c \in TaskChannels :
         \/ \E task \in Tasks : AddTask(c, task) \/ UpdateTask(c, task)
         \/ RemoveTask(c) \/ ShouldAnalyze(c)
         \/ \E on \in BOOLEAN : SetEnabled(c, on)
         \/ \E time \in InferenceTimes : ReportInference(c, time)
    \/ \E budget \in Budgets : SetGpuBudget(budget)
    \/ RebalanceBudget \/ SchedulerTick

SchedulerSpec == SchedulerInit /\ [][SchedulerNext]_schedulerVars

-----------------------------------------------------------------------------
Used(S) == SumFunction([c \in S |-> Cost(c) * tasks_[c].effective_fps])

(* After a rebalance the budget is kept, used and given to the right ones:  *)
(* apart from the one frame per second that nobody is refused, the granted  *)
(* rates cost no more than the budget; a channel that comes after a         *)
(* throttled one gets no more than that frame; the first one throttled is   *)
(* so only because one more of its frames would not have fitted.  And no    *)
(* channel is analysed more often than it asked for, before as after.       *)
BudgetShared ==
    /\ changes = 0 =>
         /\ Used({c \in Enabled : ~(tasks_[c].is_throttled
                                    /\ tasks_[c].effective_fps = 1)})
              <= gpu_budget_
         /\ \A c \in Enabled :
              LET before == {d \in Enabled : Precedes(d, c)}
              IN  /\ tasks_[c].effective_fps <= tasks_[c].config.target_fps
                  /\ tasks_[c].is_throttled =>
                       IF \E d \in before : tasks_[d].is_throttled
                       THEN tasks_[c].effective_fps = 1
                       ELSE Used(before \union {c}) + Cost(c) > gpu_budget_
                  /\ Needed(c) > 0 /\ (\E d \in before : tasks_[d].is_throttled)
                       => tasks_[c].is_throttled
    /\ \A c \in DOMAIN tasks_ : tasks_[c].config.target_fps > 0 =>
         EffectiveInterval(c) >= Second \div tasks_[c].config.target_fps
=============================================================================
