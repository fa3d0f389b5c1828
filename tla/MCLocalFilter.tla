--------------------------- MODULE MCLocalFilter ---------------------------
(***************************************************************************)
(* Model values and argument sets for checking LocalFilter with TLC.       *)
(***************************************************************************)
EXTENDS LocalFilter

\* fromBlock omitted, "latest", the genesis block and a block the chain
\* reaches later.
MCFromArgs == {None, Latest, 0, 2}

\* fromBlock "latest" (the same path as omitted) and the genesis block.
MCFewFromArgs == {Latest, 0}

\* toBlock "latest" only (None takes the same path).
MCLatestToArgs == {Latest}

\* toBlock "latest", or the numeric block the chain stops at (never passed).
MCReachedToArgs == {Latest, MaxHead}

\* A numeric toBlock the chain grows past.
MCBoundedToArgs == {None, 1}

\* Block filters re-deliver on every poll, so count would grow without
\* bound: stop exploring once a filter has returned more blocks than the
\* chain has twice over.
CountBound == \A id \in Ids : count[id] <= 2 * (MaxHead + 1)

(***************************************************************************)
(* The log filters of LocalFilter implement AbstractFilter: the filter's   *)
(* from_block is the abstract fromBlock, the blocks delivered so far are   *)
(* the blocks seen, count is the number returned, and a filter whose      *)
(* generator an error has closed is closed.  Block filters are left out.  *)
(***************************************************************************)
LogIds == {id \in DOMAIN filters : filters[id].kind = "log"}

Abs == INSTANCE AbstractFilter
           WITH installed <- [id \in LogIds |-> filters[id].from0],
                seen <- [id \in Ids |-> IF id \in LogIds THEN delivered[id] ELSE {}],
                returned <- [id \in Ids |-> IF id \in LogIds THEN count[id] ELSE 0],
                closed <- {id \in LogIds : gen[id].pc = "dead"}

\* Every behaviour of the log filter middleware is one the abstract filter
\* allows: polls return consecutive runs, each block once, and a caller who
\* keeps polling gets every block.
RefinesAbstractFilter == Abs!Spec

=============================================================================
