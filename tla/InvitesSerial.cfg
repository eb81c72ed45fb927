CONSTANTS
    i1 = i1
    i2 = i2
    plain = plain
    shouted = shouted
    guest = guest
    k1 = k1
    k2 = k2
    k3 = k3
    r1 = r1
    r2 = r2
    None = None
    InviteIds = {i1, i2}
    Addresses = {plain, shouted}
    UserOf <- OneUser
    Exact = {plain}
    Classes = {k1, k3}
    Known = {k1}
    Offers <- WithUnknown
    InviteRoles = {"aluno", "professor"}
    Droppable = {k1}
    MaxTokens = 2
    MaxJoins = 2
    Requests = {r1}
CHECK_DEADLOCK FALSE
SPECIFICATION Spec
INVARIANT StatusesPartition
PROPERTIES AcceptedStands AcceptanceIsComplete RevokedKeepsOut
