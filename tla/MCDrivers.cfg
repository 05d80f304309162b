\* Two lists over a heap of three nodes; three threads; a text of three
\* characters; two slots and two drivers; three ports.
CONSTANTS
  Lists = {l1, l2}
  Nodes = {n1, n2, n3}
  Objects = {o1, o2}
  NULL = NULL
  Wild = Wild
  Proc = {p1, p2, p3}
  Limit = 3
  Text = 3
  MaxMessage = 2
  MaxInterrupts = 2
  NumSlots = 2
  Vendors = {v1, v2}
  Classes = {disk, net}
  Ids = {1, 2}
  Names = {ahci, nic}
  MaxDrivers = 2
  Port = {port1, port2, port3}
SPECIFICATION MCSpec
\* Clearing up after the last list, driver or character ends it.
CHECK_DEADLOCK FALSE
INVARIANTS
  ReadsAsSequence
  MutualExclusion
  NothingIsLost
  SameDeviceForEveryDriver
  ReceiverOutlivesCommands
PROPERTY AcquireEnds
