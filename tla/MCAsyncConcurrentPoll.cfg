\* Two coroutines polling one log filter: the second __anext__ while the
\* first awaits the node raises RuntimeError.
CONSTANTS
    None = None
    Latest = Latest
    MaxHead = 3
    MaxFilters = 1
    MaxBlockRequest = 2
    Kinds = {"log"}
    FromArgs <- MCFewFromArgs
    ToArgs <- MCLatestToArgs
    MaxRpcFailures = 0
    Cos = {c1, c2}
SPECIFICATION Spec
INVARIANT NoRuntimeError
