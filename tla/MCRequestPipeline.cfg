\* Both onion orders, one log filter, three attempts per request and up to
\* three transport errors, so a filter RPC can exhaust its retries.
CONSTANTS
    None = None
    Latest = Latest
    MaxHead = 3
    MaxBlockRequest = 4
    FromArgs <- MCFromArgs
    ToArgs <- MCToArgs
    MaxRpcFailures = 3
    Methods <- MCMethods
    Effect <- MCEffect
    Retries = 3
    Orders = {"retryInside", "retryOutside"}
SPECIFICATION Spec
INVARIANT TypeOK
INVARIANT FilterSurvivesTransientErrors
INVARIANT ErrorOnlyAfterExhaustion
INVARIANT NotAllowListedSentOnce
