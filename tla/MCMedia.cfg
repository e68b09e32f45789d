SPECIFICATION MediaSpec
CHECK_DEADLOCK FALSE
CONSTANTS
  SegmentDuration = 1
  MaxSize = 1
  MaxAge = 1
  CleanBatch = 1
  kMaxRecentTasks = 1
  LastSecond = 1
  MaxWrites = 3
  MaxSessions = 1
  MaxSegments = 2
  MaxTriggers = 1
  MaxScans = 1
  Viewers = {1}
  kMaxPendingTags = 3
  kMaxPendingSegments = 4
  MaxFrames = 6
  MaxRegistrations = 2
  HlsConfigs <- MCHlsConfigs
  MaxHlsFrames = 7
  MaxHlsChannels = 2
  OfferThreads = {1, 2}
  RtcChannels = {1}
  max_sessions = 1
  StaleAfter = 1
  MaxOffers = 3
  MaxRtcTime = 2
  Clients = {1, 2}
  Topics = {1, 2}
  MaxPushes = 2
  NalUnits <- MCNalUnits
  MaxNals = 2
  kMaxPayload = 12
  kMaxRtpPayload = 4
  PayloadSizes = {0, 1, 2, 9, 10, 11, 12, 22, 23, 24, 60, 125, 126, 127}
  Lengths = {0, 4, 125, 126, 65535, 65536, 16777215, 16777216}
  Stamps <- MCStamps
INVARIANTS
  EventsInTimeline
  PlayingHasFile
  QueuesBounded
  LiveInOrder
  DescriptorsClosedOnce
  HlsGapless
  RtcSessionsBounded
  PacketizerThere
  FormatsSound
PROPERTIES
  OldestFirst
  EndsKept
