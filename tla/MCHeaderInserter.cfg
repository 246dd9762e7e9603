CONSTANTS
  FrameCycles = 2
  MaxFrames = 4
  MaxResets = 3
  EnableValues = {TRUE, FALSE}
  ResetValues = {TRUE, FALSE}
  HeaderEnableValues = {TRUE, FALSE}
  SchedulingEnableValues = {FALSE}
  HeaderWord = 1
  MaxTime = 3

SPECIFICATION FairSpec

INVARIANT FramesRelayedInOrder
INVARIANT GroupsWellFormed
PROPERTY FramesEventuallyTaken
