SPECIFICATION DetailSpec
CONSTANTS
  Requests = {q1, q2, q3}
  Traces = {t1, t2}
  Keys = {k1, k2}
  Batches <- SingleEvents
  Clients = {c1}
  None = None
SYMMETRY Symmetry
INVARIANTS
  AnswerCoversRow
  PlanIsBacked
