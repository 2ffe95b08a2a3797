\* A caller that locked the slice releases while another one of its node stays.
SPECIFICATION Spec
CONSTANTS
  Hosts = 2
  Names = {p1, p2}
  Nodes = {n1, n2}
  Devices = {}
  DeviceName <- NoDeviceName
  Windows <- NoWindows
  ClientStatuses = {None}
  None = None
  Absent = Absent
  Clients = {c1, c2}
  NameOf <- OwnNames
  Entry <- NodeEntries
  Lock <- NodeLocks
  CacheLags = TRUE
  MaxTries = 1
  MaxLate = 0
  p1 = p1
  p2 = p2
  p3 = p3
  n1 = n1
  n2 = n2
  c1 = c1
  c2 = c2
  c3 = c3
PROPERTIES ReleaseNeverDenied
