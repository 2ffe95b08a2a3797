\* An apply that timed out was written, and the walk hops.
SPECIFICATION Spec
CONSTANTS
  NumSlices = 2
  Hosts = 1
  Walkers = {w1, w2, w3}
  Nodes = {}
  Node <- NoNode
  Preferred <- SamePreferred
  Retry = TRUE
  LocalTries = 2
  LostAnswers = {w1, w2, w3}
  Deadline = FALSE
  None = None
  w1 = w1
  w2 = w2
  w3 = w3
  n1 = n1
  n2 = n2
INVARIANTS NeverDoubleAllocates
