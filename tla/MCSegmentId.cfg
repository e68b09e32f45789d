SPECIFICATION RecordingSpec
CHECK_DEADLOCK FALSE
CONSTANTS
  SegmentDuration = 1
  MaxSize = 9
  MaxAge = 9
  CleanBatch = 1
  kMaxRecentTasks = 1
  LastSecond = 1
  MaxWrites = 3
  MaxSessions = 1
  MaxSegments = 2
  MaxTriggers = 1
  MaxScans = 0
INVARIANT SegmentIdReturned
