CONSTANTS
    Runtime = {r1, r2}
    Thread = {t1, t2}
    None = None
SYMMETRY Interchangeable
SPECIFICATION Spec
INVARIANTS TypeOK RecoveryRemembered WorkIsCovered OneAtATime ShutdownCanBeRetried
