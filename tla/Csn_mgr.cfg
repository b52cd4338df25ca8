\* One thread that reads, keeps a cursor and commits, and one that only commits;
\* blocks of two numbers, so that the bound is pushed three times and a restart
\* still has numbers to draw.
CONSTANTS
  Reader = {t1}
  Committer = {t1, t2}
  Increment = 2
  MaxCsn = 6
  MaxSnapshot = 2
  MaxCursor = 1
SPECIFICATION Spec
CONSTRAINT Scope
INVARIANTS
  TypeOK
  HorizonBelowSnapshots
  NoPanic
  IssuedReserved
  WaiterHasPusher
PROPERTIES
  NoCsnTwice
  HorizonKept
