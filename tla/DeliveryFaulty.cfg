CONSTANTS
    r1 = r1
    r2 = r2
    ana = ana
    bia = bia
    phone = phone
    Keys = {ana, bia}
    Device <- UsedDevices
    Entries <- EnrolledKeys
    KeyOf <- KeyOfEntry
    Requests = {r1, r2}
    PoolSize = 2
    BatchSize = 2
    MaxRetries = 2
    MaxJobs = 1
    MaxGen = 2
    MaxFaults = 2
CHECK_DEADLOCK FALSE
SPECIFICATION Spec
INVARIANTS KnownStays DeliveredOrGone CopiesAreRestarts
PROPERTIES DoneInTheEnd Answered
