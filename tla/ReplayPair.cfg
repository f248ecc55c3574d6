SPECIFICATION Spec
CONSTANTS
  Replays = {r1, r2}
  Workers = {w1, w2}
  NumSteps = 1
  None = None
SYMMETRY Symmetry
CONSTRAINT PairBound
INVARIANTS
  TypeOK
  SoleExecutor
  PublishedHasRow
  AcceptedIsStored
