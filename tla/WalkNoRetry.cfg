\* WithRetry(false) in a subnet that another node has locked.
SPECIFICATION Spec
CONSTANTS
  NumSlices = 2
  Hosts = 2
  Walkers = {w1, w2, w3}
  Nodes = {n1, n2}
  Node <- TwoNodes
  Preferred <- SamePreferred
  Retry = FALSE
  LocalTries = 1
  LostAnswers = {}
  Deadline = TRUE
  None = None
  w1 = w1
  w2 = w2
  w3 = w3
  n1 = n1
  n2 = n2
PROPERTIES FullMeansEachWasFull
