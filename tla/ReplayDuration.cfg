SPECIFICATION FairSpec
CONSTANTS
  Replays = {r1}
  Workers = {w1, w2}
  NumSteps = 1
  None = None
PROPERTY
  RunningEnds
