\* Two types, two contexts, two goroutines.
SPECIFICATION FairSpec
CONSTANTS
  Types = {t1, t2}
  Contexts = {ctx1, ctx2}
  Procs = {p1, p2}
  MaxMade = 2
  None = None
  t1 = t1
  t2 = t2
  ctx1 = ctx1
  ctx2 = ctx2
  p1 = p1
  p2 = p2
INVARIANTS TypeOK NothingRunsAfterShutdown OneInformerPerType
PROPERTIES RunsOnce FailureHasACause SuccessIsSynced EveryCallReturns WaitsForStartedOnly
