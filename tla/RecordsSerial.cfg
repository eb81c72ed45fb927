CONSTANTS
    Calls = {k1}
    Deadlines = {2}
    Members = {m1, m2}
    Devices = {d1}
    Reviewers = {p1, p2}
    RecordIds = {i1, i2}
    Requests = {r1}
    None = None
    NearWindow = 2
    MaxNow = 2
SPECIFICATION Spec
SYMMETRY Interchangeable
CHECK_DEADLOCK FALSE
INVARIANTS SharedDeviceIsFlagged NoteMatchesDecision
