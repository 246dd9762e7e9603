CONSTANTS
  FramesPerPacket = 4
  NumPackets = 2
  Timestamps = {0, 2}
  PayloadWord = 0
  MaxPackets = 1
  FrameCycles = 2
  FrameCountWidth = 10
  ManualTimes <- MCManualTimes
  EnableValues = {TRUE}
  ResetValues = {FALSE}
  HeaderEnable = TRUE
  SchedulingEnableValues = {FALSE}
  MaxTime = 3


SPECIFICATION Spec

INVARIANT MetadataNotForwarded
