\* Two filters, log or block, every form of fromBlock, toBlock "latest" or
\* the block the chain stops at, one transport error anywhere: the log
\* filters implement the abstract filter (an error may close one).
CONSTANTS
    None = None
    Latest = Latest
    MaxHead = 2
    MaxFilters = 2
    MaxBlockRequest = 2
    Kinds = {"log", "block"}
    FromArgs <- MCFromArgs
    ToArgs <- MCReachedToArgs
    MaxRpcFailures = 1
SPECIFICATION Spec
INVARIANT TypeOK
PROPERTY RefinesAbstractFilter
CONSTRAINT CountBound
