\* Two callers of one node and one without a node.
SPECIFICATION FairSpec
CONSTANTS
  NumSlices = 2
  Hosts = 2
  Walkers = {w1, w2, w3}
  Nodes = {n1}
  Node <- OneNode
  Preferred <- SamePreferred
  Retry = TRUE
  LocalTries = 2
  LostAnswers = {w1}
  Deadline = TRUE
  None = None
  w1 = w1
  w2 = w2
  w3 = w3
  n1 = n1
  n2 = n2
INVARIANTS TypeOK
PROPERTIES HoldersAreServed SlicesAreShared FullMeansEachWasFull WalkEndsUnlessBlocked
