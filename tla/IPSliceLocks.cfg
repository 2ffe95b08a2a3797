\* Node locks and device references; two addresses for three names.
SPECIFICATION Spec
CONSTANTS
  Hosts = 2
  Names = {p1, p2, p3}
  Nodes = {n1, n2}
  Devices = {d1}
  DeviceName <- MCDeviceName
  Windows <- NoWindows
  ClientStatuses = {None}
  None = None
  Absent = Absent
  p1 = p1
  p2 = p2
  p3 = p3
  n1 = n1
  n2 = n2
  d1 = d1
INVARIANTS LockMeansOneNode ReleaseNeverRefused AllocatesIffRoom
