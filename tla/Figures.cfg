CONSTANTS
    ana = ana
    bob = bob
    bia = bia
    prof = prof
    algebra = algebra
    botany = botany
    s1 = s1
    s2 = s2
    None = None
    Members = {ana, bia, bob, prof}
    UserOf <- Persons
    Classes = {algebra, botany}
    SessionIds = {s1, s2}
    RoleAtStart <- Roles0
    ClassAtStart <- Classes0
    EnrolledAtStart <- Enrolled0
    ProfessorOf <- TaughtByProf
    Held <- HeldSoFar
    Attended <- AttendedSoFar
    Window = 0
    WeekLength = 2
    TopLimit = 1
    MaxNow = 1
    MaxChanges = 1
CHECK_DEADLOCK FALSE
SPECIFICATION Spec
SYMMETRY Interchangeable
INVARIANTS RiskScreensAgree EverythingAddsUp LiveListsAgree
