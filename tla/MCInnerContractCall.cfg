\* async_bub.py: the default timeout of 120 s against a poll every 30 s
\* (scaled to 4 polls), CCIP read with the provider's minimum of 4 redirects,
\* and every kind of formatter.
CONSTANTS
    Mode = "async"
    GetCandidateInfo = GetCandidateInfo
    GetAvgBlockTime = GetAvgBlockTime
    RedeemDelegate = RedeemDelegate
    WithdrawReward = WithdrawReward
    Fids <- MCFids
    ResultFormatted <- MCResultFormatted
    EventShape <- MCEventShape
    EventKeys <- MCEventKeys
    HasAddress = TRUE
    MaxRedirects = 4
    Timeout = 4
    SyncTimeout = 2
    MaxRpcTime = 2
SPECIFICATION FairSpec
INVARIANT TypeOK
INVARIANT DurinWithinBudget
PROPERTY OperationsReturn
