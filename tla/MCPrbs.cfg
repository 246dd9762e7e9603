CONSTANTS
  Seed = 2644
  StateBits = 16
  SampleBits = 12
  Taps <- MCTaps
  SyncCycles = 2
  Lanes <- MCLanes
  DmaWords = {0}
  MaxFaults = 1
  MaxWrites = 1
  MaxSkew = 4

SPECIFICATION FairSpec

INVARIANT PhaseRecovered
PROPERTY PrbsEventuallySynced
