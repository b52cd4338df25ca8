\* Two strong lockers and two lazy ones, one of which comes and goes; one table; failures.
CONSTANTS
  t1 = t1
  t2 = t2
  t3 = t3
  a = a
  b = b
  Order <- ThreeThreads
  Tag = {a}
  PartCnt = 1
  PartOf <- OnePartition
  MaxCnt = 2
  Weak = {t1, t3}
  Strong = {t1, t2}
  Comers = {t3}
  MayFail = {"slot", "push", "request", "lock"}
  NoTag = NoTag
SPECIFICATION Spec
INVARIANTS
  TypeOK
  NoLazyPastTheWait
  CountMatchesSlots
  ClosedExact
  WaitFlagExact
