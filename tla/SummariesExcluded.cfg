SPECIFICATION Spec
CONSTANTS
    s1 = s1  s2 = s2
    r1 = r1  r2 = r2  r3 = r3  r4 = r4
    Service = {s1, s2}
    Review = {r1, r2, r3, r4}
    ServiceOf <- Of
    Eligible = {r1}
    MaxReviews = 2
    MaxTime = 3
    Removable = {r1, r4}
SYMMETRY ReviewSymmetry
INVARIANT ExcludedLeavesSummary
CHECK_DEADLOCK FALSE
