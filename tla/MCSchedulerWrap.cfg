CONSTANTS
  FramesPerPacket = 4
  DataWidth = 32
  MaxPackets = 2
  FrameCountWidth = 10
  TimeWidth = 3
  Timestamps = {1, 6}
  PayloadWord = 0
  ManualTimes <- MCManualTimes
  EnableValues = {TRUE}
  NumPackets = 2
  MaxTime = 7
  TimeWraps = TRUE

SPECIFICATION Spec

PROPERTY ReleaseWrapSafe
