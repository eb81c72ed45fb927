CONSTANTS
    s1 = s1
    s2 = s2
    c1 = c1
    r1 = r1
    r2 = r2
    t1 = t1
    Nobody = Nobody
    NoSession = NoSession
    Sessions <- TwoSessions
    Classes <- OneClass
    ClassOf <- AllInOneClass
    Requests = {r1, r2}
    Sweeps = {t1}
    Durations = {1, 2}
    MaxClock = 2
    MaxFailures = 1
SPECIFICATION Spec
SYMMETRY Interchangeable
CHECK_DEADLOCK FALSE
INVARIANTS TypeOK SweptIsAnnounced 
PROPERTIES NeverReopened EarlyEndIsManual RollCallRefined
