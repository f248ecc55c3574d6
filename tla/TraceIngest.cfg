SPECIFICATION Spec
CONSTANTS
  Requests = {q1, q2, q3}
  Traces = {t1, t2}
  Keys = {k1, k2}
  Batches <- PairBatches
  None = None
SYMMETRY Symmetry
INVARIANTS
  TypeOK
  CountsAreTrue
  DuplicateIsStored
  DeadlockSpansTraces
  AcceptedIsAnnounced
PROPERTY
  RefinesStore
