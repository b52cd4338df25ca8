\* The bounds stop a behaviour: no deadlock check.
SPECIFICATION Spec
CONSTANTS
  Writer = w
  r = r
INVARIANTS
  TypeOK
  
  InvisibleRight
  RestoreExact
  NoOrphan
  
CHECK_DEADLOCK FALSE
