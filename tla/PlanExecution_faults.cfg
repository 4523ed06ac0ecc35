CONSTANTS
  f1 = f1
  w1 = w1
  Fronts = {f1}
  Workers = {w1}
  Goals <- InlineAndQueued
SPECIFICATION FairSpec
INVARIANT DoneStepsNotRerun
PROPERTY OnlyAllowedStepsRun
PROPERTY ExecutingPlanSettles
\* The plan ends, and the user's messages are bounded.
CHECK_DEADLOCK FALSE
