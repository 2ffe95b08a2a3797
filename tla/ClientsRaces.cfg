\* Two nodes compete for one slice, which each locks for itself; one caller can only use
\* the first address.  Timeouts that wrote and that did not, and retries.
SPECIFICATION FairSpec
CONSTANTS
  Hosts = 2
  Names = {p1, p3}
  Nodes = {n1, n2}
  Devices = {}
  DeviceName <- NoDeviceName
  Windows <- FirstWindow
  ClientStatuses = {None}
  None = None
  Absent = Absent
  Clients = {c1, c3}
  NameOf <- OwnNames
  Entry <- WindowEntries
  Lock <- NodeLocks
  CacheLags = TRUE
  MaxTries = 2
  MaxLate = 0
  p1 = p1
  p2 = p2
  p3 = p3
  n1 = n1
  n2 = n2
  c1 = c1
  c2 = c2
  c3 = c3
INVARIANTS TypeOK HolderHolds NothingLeaked RefusalsAreTrue
PROPERTIES ImplementsShared RetryLoopsEnd
