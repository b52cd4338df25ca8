CONSTANTS
    Thread = {t1, t2}
    Nobody = nobody
    Ops = {"LWLockAcquire"}
    Sharers = {t1, t2}
    Excluders = {t1, t2}
    Interrupted = {t1}
SPECIFICATION SignalSpec
INVARIANTS
    SignalsKept
