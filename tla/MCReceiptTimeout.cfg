\* bub.py: the caller asks for 120 s (scaled to 4 polls); the code waits 60.
CONSTANTS
    Mode = "sync"
    GetCandidateInfo = GetCandidateInfo
    GetAvgBlockTime = GetAvgBlockTime
    RedeemDelegate = RedeemDelegate
    WithdrawReward = WithdrawReward
    Fids <- MCFids
    ResultFormatted <- MCResultFormatted
    EventShape <- MCEventShape
    EventKeys <- MCEventKeys
    HasAddress = TRUE
    MaxRedirects = 4
    Timeout = 4
    SyncTimeout = 2
    MaxRpcTime = 2
SPECIFICATION Spec
INVARIANT NeverExhaustedEarly
