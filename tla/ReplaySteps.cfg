SPECIFICATION Spec
CONSTANTS
  Replays = {r1}
  Workers = {w1, w2}
  NumSteps = 2
  None = None
SYMMETRY Symmetry
INVARIANTS
  HandledIsClaimed
  FinishedIsComplete
  ProgressFaithful
PROPERTIES
  RefinesLifecycle
  OrphanNeverResumed
  FlushedIsTold
