SPECIFICATION Spec
CONSTANTS
    c1 = c1  c2 = c2
    Caller = {c1, c2}
    Max = 2
    WindowSeconds = 2
    Tick = 2
    MaxTime = 9
SYMMETRY CallerSymmetry
INVARIANTS OvershootIsBounded LimitInv
PROPERTY RetryAfterSuffices
CHECK_DEADLOCK FALSE
