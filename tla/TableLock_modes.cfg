SPECIFICATION Spec
CONSTANTS
  t1 = t1
  t2 = t2
  t3 = t3
  a = a
  b = b
  p = p
  NoTag = NoTag
  Thread <- Threads2
  Tag = {a}
  TableTag = {a}
  Partition = {p}
  PartOf <- OnePartition
  CallModes <- AllKinds
  DontWaits = {TRUE, FALSE}
  MaxGranted = 1
  MayFail = TRUE
  MayUpgrade = TRUE
SYMMETRY Symmetry2
INVARIANTS
  TypeOK
  HoldersCompatible
  RecordsMatchTable
  FastPathQuiet
  StrongCountExact
  QueueMatchesCalls
  CountersExact
  NoMutualWait
