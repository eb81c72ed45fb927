CONSTANTS
    e1 = e1
    e2 = e2
    a1 = a1
    a2 = a2
    s1 = s1
    t1 = t1
    c1 = c1
    boss = boss
    deputy = deputy
    student = student
    r1 = r1
    r2 = r2
    None = None
    EnrollmentIds = {e1, e2}
    MemberIds = {a1, a2, s1, t1}
    ClassOf <- OneClass
    StudentOf <- OneStudent
    UserOf <- Persons
    Founders = {a1}
    Elsewhere = {deputy}
    NewRoles = {"admin", "aluno"}
    Equipped = {boss, deputy, student}
    Requests = {r1}
CHECK_DEADLOCK FALSE
SPECIFICATION Spec
SYMMETRY Interchangeable
INVARIANTS ActiveIsStudent AdminRemains ToldAreMembers
