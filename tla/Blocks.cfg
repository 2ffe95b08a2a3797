\* Three bytes of four values, slices of two addresses.
SPECIFICATION Spec
CONSTANTS
  Byte = 4
  Width = 3
  Hosts = 2
  Labels = {a, b, c, d, e}
  Callers = {c1, c2, c3, c4, c5}
  Network <- MCNetwork
  Family <- MCFamily
  Subnet <- MCSubnet
  Device <- MCDevice
  Identities <- MCIdentities
  None = None
  a = a
  b = b
  c = c
  d = d
  e = e
  c1 = c1
  c2 = c2
  c3 = c3
  c4 = c4
  c5 = c5
INVARIANTS TypeOK DisjointBlocks NoClientDenied ValidIsAdmitted StatusShowsAnswers AnswersAreUnique SlicesCoverSubnet
  LoopAdds
PROPERTIES ImplementsTable
