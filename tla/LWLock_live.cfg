CONSTANTS
    Thread = {t1, t2}
    Nobody = nobody
    Ops = {"LWLockAcquire"}
    Sharers = {t1, t2}
    Excluders = {t1, t2}
    Interrupted = {}
SPECIFICATION FairSpec
PROPERTIES
    EveryWaiterWoken
    DisallowLeadsToLock
