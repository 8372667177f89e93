\* A channel of one frame, so that a second one is dropped; two publications,
\* so that they can overtake each other; two broken streams, failed polls or
\* retries between them.
SPECIFICATION Spec
CONSTANTS
  ChannelSize = 1
  MaxPublications = 2
  MaxActs = 2
INVARIANTS
  TypeOK
  OneRetryAtATime
  TimerFitsScreen
PROPERTIES
  PollNeverRewinds
  RecoverySurvives
  StatusCatchesUp
