SPECIFICATION DetailSpec
CONSTANTS
  Replays = {r1}
  Clients = {c1, c2}
  NumSteps = 3
  None = None
INVARIANT EndedAnswerIsFinal
