CONSTANTS
  FramesPerPacket = 4
  DataWidth = 32
  MaxPackets = 2
  FrameCountWidth = 10
  TimeWidth = 3
  Timestamps <- MCTimestamps
  PayloadWord = 0
  ManualTimes <- MCManualTimes
  EnableValues = {TRUE}
  NumPackets = 3
  MaxTime = 3
  TimeWraps = FALSE

SPECIFICATION FairSpec

INVARIANT TypeOK
INVARIANT PacketFraming
INVARIANT FramesRoutedByPosition

PROPERTY ImplementsReleaseQueue
PROPERTY EveryPacketReleased
