\* async_bub.py with every kind of event formatter and receipts whose last
\* log carries 0 to 3 arguments: a dict-shaped event is decoded from a
\* payload whose length differs from its formatter's keys, for a successful
\* transaction (status code 0) that carries data.
CONSTANTS
    Mode = "async"
    GetCandidateInfo = GetCandidateInfo
    GetAvgBlockTime = GetAvgBlockTime
    RedeemDelegate = RedeemDelegate
    WithdrawReward = WithdrawReward
    Fids <- MCFids
    ResultFormatted <- MCResultFormatted
    EventShape <- MCEventShape
    EventKeys <- MCEventKeys
    HasAddress = TRUE
    MaxRedirects = 4
    Timeout = 4
    SyncTimeout = 2
    MaxRpcTime = 2
SPECIFICATION Spec
INVARIANT EventDecodedWhole
