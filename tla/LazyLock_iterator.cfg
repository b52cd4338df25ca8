\* Two partitions, two strong lockers: the shared thread iterator.
CONSTANTS
  t1 = t1
  t2 = t2
  t3 = t3
  a = a
  b = b
  Order <- ThreeThreads
  Tag = {a, b}
  PartCnt = 2
  PartOf <- TwoPartitions
  MaxCnt = 1
  Weak = {t3}
  Strong = {t1, t2}
  Comers = {}
  MayFail = {}
  NoTag = NoTag
SPECIFICATION Spec
INVARIANTS
  NoLazyPastTheWait
