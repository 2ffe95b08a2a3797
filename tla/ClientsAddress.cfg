\* A release by address that was resolved before the name moved on.
SPECIFICATION Spec
CONSTANTS
  Hosts = 2
  Names = {p1, p2}
  Nodes = {}
  Devices = {}
  DeviceName <- NoDeviceName
  Windows <- NoWindows
  ClientStatuses = {None}
  None = None
  Absent = Absent
  Clients = {c1, c2, c3}
  NameOf <- SharedNames
  Entry <- PlainEntries
  Lock <- NoLocks
  CacheLags = FALSE
  MaxTries = 1
  MaxLate = 0
  p1 = p1
  p2 = p2
  p3 = p3
  n1 = n1
  n2 = n2
  c1 = c1
  c2 = c2
  c3 = c3
PROPERTIES ReleaseFreesThatAddress
