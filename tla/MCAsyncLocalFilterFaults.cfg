\* Two coroutines, one log or block filter, toBlock "latest" or a block the
\* chain passes, one transport error anywhere: the log filter
\* implements the abstract filter (an error may close it), and
\* getFilterLogs covers what its polls had returned when it began, whatever
\* the interleaving.  CountBound cuts only block filter behaviours (one
\* filter id), which the refinement maps to stuttering.
CONSTANTS
    None = None
    Latest = Latest
    MaxHead = 2
    MaxFilters = 1
    MaxBlockRequest = 2
    Kinds = {"log", "block"}
    FromArgs <- MCFewFromArgs
    ToArgs <- MCAsyncToArgs
    MaxRpcFailures = 2
    Cos = {c1, c2}
SPECIFICATION Spec
INVARIANT TypeOK
 
PROPERTY LogsCoverPolls
CONSTRAINT CountBound
