\* One reader beside the rollback that a restart begins.
SPECIFICATION Spec
CONSTANTS
  Writer = w
  Reader = {r}
  Pages = 1
  PageSlots = 1
  CacheSlots = 1
  MaxXid = 1
  MaxCsn = 3
  MaxCrash = 1
  MaxUnflushed = 2
INVARIANTS
  CsnFilled
CHECK_DEADLOCK FALSE
