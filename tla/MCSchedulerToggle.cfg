CONSTANTS
  FramesPerPacket = 4
  DataWidth = 32
  MaxPackets = 1
  FrameCountWidth = 10
  TimeWidth = 3
  Timestamps <- MCTimestamps
  PayloadWord = 0
  ManualTimes <- MCManualTimes
  EnableValues = {TRUE, FALSE}
  NumPackets = 2
  MaxTime = 3
  TimeWraps = FALSE

SPECIFICATION Spec

INVARIANT FramesConserved
