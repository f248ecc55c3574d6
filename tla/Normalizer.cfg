SPECIFICATION FairSpec
CONSTANTS
  q1 = q1
  q2 = q2
  t1 = t1
  t2 = t2
  k1 = k1
  k2 = k2
  Requests = {q1, q2}
  Traces = {t1, t2}
  Keys = {k1, k2}
  Batches <- SomeBatches
  Normalizers = {n1, n2}
  None = None
CONSTRAINT Cases
INVARIANTS
  TypeOK
  HandledIsCompiled
  MissingForGood
PROPERTIES
  RefinesLifecycle
  AnnouncedIsCompiled
