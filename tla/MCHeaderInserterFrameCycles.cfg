CONSTANTS
  FrameCycles = 2
  MaxFrames = 4
  MaxResets = 3
  EnableValues = {TRUE}
  ResetValues = {FALSE}
  HeaderEnableValues = {TRUE}
  SchedulingEnableValues = {FALSE}
  HeaderWord = 1
  MaxTime = 3

SPECIFICATION Spec

INVARIANT GroupsHaveFrameCycles
