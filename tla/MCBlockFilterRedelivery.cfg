CONSTANTS
    None = None
    Latest = Latest
    MaxHead = 3
    MaxFilters = 2
    MaxBlockRequest = 2
    Kinds = {"block"}
    FromArgs <- MCFewFromArgs
    ToArgs <- MCLatestToArgs
    MaxRpcFailures = 0
SPECIFICATION Spec
INVARIANT NoRedelivery
