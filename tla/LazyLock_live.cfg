\* Every lazy wait ends, though slots and pushes may run out of memory.
CONSTANTS
  t1 = t1
  t2 = t2
  t3 = t3
  a = a
  b = b
  Order <- TwoThreads
  Tag = {a, b}
  PartCnt = 1
  PartOf <- OnePartition
  MaxCnt = 1
  Weak = {t1, t2}
  Strong = {t2}
  Comers = {}
  MayFail = {"slot", "push"}
  NoTag = NoTag
SPECIFICATION FairSpec
PROPERTIES
  LazyWaitsEnd
