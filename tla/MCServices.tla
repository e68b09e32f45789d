----------------------------- MODULE MCServices -----------------------------
(* Users, rules, trackers, a camera's client, the configuration, the         *)
(* analysis scheduler and the channel monitor.  They share no state, so each *)
(* behaviour looks at one of them: `focus`, chosen in the initial state.     *)
(* Access has two threads, one client address, the default admin and two     *)
(* more users.                                                               *)
EXTENDS Access, Rules, MCTracking, RtspClient, HotReload,
        AnalysisScheduler, ChannelMonitor

CONSTANTS t1, t2

VARIABLE focus

servicesVars == <<accessVars, rulesVars, trackVars, clientVars, hotVars,
                  schedulerVars, monitorVars, focus>>

MCHttpThreads == {t1, t2}
MCNames == {"admin", "bob", "carol"}
MCPasswords == {"admin123", "bad"}
MCShort == {"bad"}
MCCredentials == {<<"admin", "admin123">>, <<"bob", "admin123">>}
MCChanges == {<<"admin123", "admin123">>, <<"bad", "admin123">>}
MCNewUsers ==
    {[username |-> "bob", password |-> "admin123", role |-> "admin"],
     [username |-> "carol", password |-> "admin123", role |-> "viewer"]}
MCBodies == {[role |-> {"viewer"}, enabled |-> {}, password |-> {"bad"}],
             [role |-> {}, enabled |-> {FALSE}, password |-> {"admin123"}]}
MCClientConfigs == [file : BOOLEAN, auto_reconnect : BOOLEAN,
                    max_reconnect_attempts : {0, 2}]
MCTasks == [strategy : {"kPolling", "kRealtime"}, target_fps : {3},
            enabled : {TRUE}]
ThreadSymmetry == Permutations(MCHttpThreads)

ServicesInit ==
    /\ focus \in {"access", "rules", "tracking", "client", "config",
                 "scheduler", "monitor"}
    /\ AccessInit /\ RulesInit /\ TrackingInit /\ ClientInit /\ HotInit
    /\ SchedulerInit /\ MonitorInit
    /\ focus # "scheduler" => gpu_budget_ = 5
    /\ focus # "tracking" => evaluator.type = "kLoitering"

ServicesNext ==
    /\ UNCHANGED focus
    /\ \/ /\ focus = "access" /\ AccessNext
          /\ UNCHANGED <<rulesVars, trackVars, clientVars, hotVars, schedulerVars,
                         monitorVars>>
       \/ /\ focus = "rules" /\ RulesNext
          /\ UNCHANGED <<accessVars, trackVars, clientVars, hotVars, schedulerVars,
                         monitorVars>>
       \/ /\ focus = "tracking" /\ TrackingNext
          /\ UNCHANGED <<accessVars, rulesVars, clientVars, hotVars, schedulerVars,
                         monitorVars>>
       \/ /\ focus = "client" /\ ClientNext
          /\ UNCHANGED <<accessVars, rulesVars, trackVars, hotVars, schedulerVars,
                         monitorVars>>
       \/ /\ focus = "config" /\ HotNext
          /\ UNCHANGED <<accessVars, rulesVars, trackVars, clientVars, schedulerVars,
                         monitorVars>>
       \/ /\ focus = "scheduler" /\ SchedulerNext
          /\ UNCHANGED <<accessVars, rulesVars, trackVars, clientVars, hotVars,
                         monitorVars>>
       \/ /\ focus = "monitor" /\ MonitorNext
          /\ UNCHANGED <<accessVars, rulesVars, trackVars, clientVars, hotVars,
                         schedulerVars>>

ServicesSpec == ServicesInit /\ [][ServicesNext]_servicesVars
=============================================================================
