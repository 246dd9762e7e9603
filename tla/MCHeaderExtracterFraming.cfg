CONSTANTS
  FramesPerPacket = 4
  NumPackets = 3
  Timestamps <- MCTimestamps
  PayloadWord = 0
  MaxPackets = 1
  FrameCycles = 2
  FrameCountWidth = 10
  ManualTimes <- MCManualTimes
  EnableValues = {TRUE}
  ResetValues = {FALSE}
  HeaderEnable = TRUE
  SchedulingEnableValues = {TRUE}
  MaxTime = 3


SPECIFICATION Spec

INVARIANT OutputFramed
