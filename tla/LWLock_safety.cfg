CONSTANTS
    Thread = {t1, t2, t3}
    Nobody = nobody
    Ops = {"LWLockAcquire", "LWLockConditionalAcquire", "LWLockConditionalAcquireAnyMode", "LWLockAcquireOrWait", "LWLockOwn"}
    Sharers = {t1, t2, t3}
    Excluders = {t1, t2, t3}
    Interrupted = {t1, t2, t3}
SPECIFICATION Spec
SYMMETRY Symmetry
CONSTRAINT Scope
INVARIANTS
    TypeOK
    MutualExclusion
    StateWordCounts
    DisallowHasOneOwner
    LinkedOnce
    NoLostWakeup
