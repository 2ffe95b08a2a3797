\* Two callers of one node lock the slice together and release one after the other;
\* applies are written after they timed out.  Still only writes the slice allows.
SPECIFICATION Spec
CONSTANTS
  Hosts = 2
  Names = {p1, p2}
  Nodes = {n1}
  Devices = {}
  DeviceName <- NoDeviceName
  Windows <- NoWindows
  ClientStatuses = {None}
  None = None
  Absent = Absent
  Clients = {c1, c2}
  NameOf <- OwnNames
  Entry <- NodeEntries
  Lock <- AllLocks
  CacheLags = FALSE
  MaxTries = 1
  MaxLate = 1
  p1 = p1
  p2 = p2
  p3 = p3
  n1 = n1
  n2 = n2
  c1 = c1
  c2 = c2
  c3 = c3
PROPERTIES ImplementsSlice ImplementsShared
VIEW LateView
