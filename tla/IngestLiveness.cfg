SPECIFICATION FairSpec
CONSTANTS
  Requests = {q1, q2}
  Traces = {t1, t2}
  Keys = {k1, k2}
  Batches <- PairBatches
  None = None
PROPERTY
  EveryRequestEnds
