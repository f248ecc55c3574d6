SPECIFICATION Spec
CONSTANTS
  k1 = k1
  k2 = k2
  k3 = k3
  a = a
  long = long
  s1 = s1
  s2 = s2
  n1 = n1
  n2 = n2
  timeout = timeout
  http_500 = http_500
  None = None
  Keys <- SomeKeys
  Numbers <- SomeNumbers
  Times <- SomeTimes
  Names <- SomeNames
  StepName <- SomeStepNames
  Kinds = {timeout, http_500}
  Timeout = timeout
  LongNames = {long}
  Requests <- SomeRequests
  Normalizers = {n1, n2}
CONSTRAINT Cases
ACTION_CONSTRAINT Rest
SYMMETRY Symmetry
INVARIANTS
  TypeOK
  RefusalsHaveAReason
  RequestedFailuresHappen
  OnlyRequestedFailuresHappen
  NamesMeanWhatWasSeen
PROPERTY ManifestsNest
