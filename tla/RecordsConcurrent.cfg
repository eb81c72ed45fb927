CONSTANTS
    Calls = {k1}
    Deadlines = {2}
    Members = {m1}
    Devices = {}
    Reviewers = {p1}
    RecordIds = {i1, i2}
    Requests = {r1, r2}
    None = None
    NearWindow = 2
    MaxNow = 2
SPECIFICATION FairSpec
CHECK_DEADLOCK FALSE
INVARIANTS TypeOK OneRecordPerMember ConfirmedInTime
PROPERTIES EvidenceStands PresenceSheetRefined Answered
