CONSTANTS
    r1 = r1
    AccessLife = 2
    RefreshLife = 3
    ReuseLife = 2
    ResetLife = 2
    CodeLife = 2
    MaxAttempts = 3
    Chances = {"right", "wrong"}
    MaxTokens = 5
    MaxCodes = 2
    MaxNow = 4
    MaxLapses = 1
    Requests = {r1}
CHECK_DEADLOCK FALSE
SPECIFICATION Spec
INVARIANTS OneRefreshPerLogin OneChangePerCode ChangeEndsSessions WrongEntriesEndCode
PROPERTIES RefusedForGood
