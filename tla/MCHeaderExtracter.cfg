CONSTANTS
  FramesPerPacket = 4
  NumPackets = 2
  Timestamps <- MCTimestamps
  PayloadWord = 0
  MaxPackets = 1
  FrameCycles = 2
  FrameCountWidth = 10
  ManualTimes <- MCManualTimes
  EnableValues = {TRUE, FALSE}
  ResetValues = {FALSE, TRUE}
  HeaderEnable = TRUE
  SchedulingEnableValues = {TRUE, FALSE}
  MaxTime = 3

SPECIFICATION Spec

INVARIANT TypeOK
INVARIANT PacketFraming
INVARIANT LastTxIsLastReleased
INVARIANT HeaderTracksPacket
PROPERTY ImplementsReleaseQueue
