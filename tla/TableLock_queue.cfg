SPECIFICATION FairSpec
CONSTANTS
  t1 = t1
  t2 = t2
  t3 = t3
  a = a
  b = b
  p = p
  NoTag = NoTag
  Thread <- Threads3
  Tag = {a}
  TableTag = {a}
  Partition = {p}
  PartOf <- OnePartition
  CallModes <- Three
  DontWaits = {FALSE}
  MaxGranted = 1
  MayFail = FALSE
  MayUpgrade = FALSE
INVARIANTS
  HeadIsBlocked
  FlagMatchesQueue
PROPERTIES
  NoOvertaking
  EveryCallReturns
