\* A window that is taken off a request that holds an address.
SPECIFICATION Spec
CONSTANTS
  Hosts = 4
  Names = {p1, p2, p3}
  Nodes = {}
  Devices = {}
  DeviceName <- NoDeviceName
  Windows <- MCWindows
  ClientStatuses <- MCStatuses
  None = None
  Absent = Absent
  p1 = p1
  p2 = p2
  p3 = p3
  n1 = n1
  n2 = n2
  d1 = d1
PROPERTY ImmutableOnceSet
