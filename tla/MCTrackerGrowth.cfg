SPECIFICATION TrackingSpec
CHECK_DEADLOCK FALSE
CONSTANTS
  Detections <- MCFarApart
  BoxSize = 5
  max_frames_missing = 1
  min_confidence = 5
  target_classes = {}
  LineStart <- MCLineStart
  LineEnd <- MCLineEnd
  Vertices <- MCSquare
  loiter_time_sec = 1
  cooldown_sec = 2
  MaxDetections = 1
  MaxTracked = 5
INVARIANT DeadTracksRemoved
