SPECIFICATION ServicesSpec
CHECK_DEADLOCK FALSE
CONSTANTS
  t1 = t1
  t2 = t2
  HttpThreads <- MCHttpThreads
  Ips = {1}
  Names <- MCNames
  Passwords <- MCPasswords
  Short <- MCShort
  kMaxLoginAttempts = 2
  kLoginLockoutMinutes = 1
  expiry_seconds_ = 0
  MaxAccessTime = 1
  MaxLogins = 4
  MaxEdits = 3
  MaxUsers = 3
  Credentials <- MCCredentials
  Changes <- MCChanges
  NewUsers <- MCNewUsers
  Bodies <- MCBodies
  RuleCallers <- MCHttpThreads
  RuleChannels = {1}
  Cooldown = 1
  Retention = 1
  RuleHours = 2
  MaxRuleEdits = 3
  MaxRuleEvents = 2
  Detections <- MCDetections
  BoxSize = 5
  max_frames_missing = 1
  min_confidence = 5
  target_classes = {}
  LineStart <- MCLineStart
  LineEnd <- MCLineEnd
  Vertices <- MCSquare
  loiter_time_sec = 1
  cooldown_sec = 2
  MaxDetections = 2
  MaxTracked = 4
  ClientConfigs <- MCClientConfigs
  reconnect_delay_ms = 1
  reconnect_max_delay_ms = 3
  MaxOpens = 2
  MaxAttempts = 4
  MaxOutages = 2
  Sections = {"hls"}
  MaxWrites = 3
  TaskChannels = {1, 2}
  Tasks <- MCTasks
  InferenceTimes = {3}
  Budgets = {2, 5}
  DefaultCost = 1
  Second = 3
  kMaxChannels = 2
  MaxTaskCalls = 2
  MaxReports = 1
  MonitoredIds = {1, 2}
  interval_seconds_ = 1
  stall_timeout_seconds_ = 1
  error_threshold_ = 2
  kMaxRecoveryAttempts = 2
  MaxMonitorTime = 6
  MaxProgress = 1
  MaxUserCalls = 3
SYMMETRY ThreadSymmetry
INVARIANTS
  TokenNamesItsUser
  AttemptsBounded
  EngineFollowsStore
  CountsAgree
  EventsExact
  ClientTruthful
  ConfigSettles
  BudgetShared
  RecoveriesPaced
