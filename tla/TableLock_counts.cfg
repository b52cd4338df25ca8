SPECIFICATION Spec
CONSTANTS
  t1 = t1
  t2 = t2
  t3 = t3
  a = a
  b = b
  p = p
  NoTag = NoTag
  Thread <- Threads2
  Tag = {a, b}
  TableTag = {a, b}
  Partition = {p}
  PartOf <- OnePartition
  CallModes <- WeakAndShare
  DontWaits = {FALSE}
  MaxGranted = 2
  MayFail = FALSE
  MayUpgrade = TRUE
SYMMETRY SymmetryCounts
CONSTRAINT ScopeCounts
INVARIANTS
  IInv
