CONSTANTS
    Runtime = {r1, r2}
    Thread = {t1, t2}
    None = None
SPECIFICATION Spec
INVARIANT PauseIsLatched
