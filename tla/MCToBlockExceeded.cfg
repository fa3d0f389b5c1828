CONSTANTS
    None = None
    Latest = Latest
    MaxHead = 3
    MaxFilters = 2
    MaxBlockRequest = 2
    Kinds = {"log"}
    FromArgs <- MCFewFromArgs
    ToArgs <- MCBoundedToArgs
    MaxRpcFailures = 0
SPECIFICATION Spec
INVARIANT RespectsToBlock
