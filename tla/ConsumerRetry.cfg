SPECIFICATION FairSpec
CONSTANTS
  Consumers = {c1, c2}
  Messages = {m1, m2, m3}
  None = None
INVARIANT FailedIsRetried
