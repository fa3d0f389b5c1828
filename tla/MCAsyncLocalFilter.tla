------------------------- MODULE MCAsyncLocalFilter -------------------------
(***************************************************************************)
(* Model values and argument sets for checking AsyncLocalFilter with TLC.  *)
(***************************************************************************)
EXTENDS AsyncLocalFilter

\* fromBlock "latest" (the same path as omitted) and the genesis block.
MCFewFromArgs == {Latest, 0}

\* toBlock "latest" only (None takes the same path).
MCLatestToArgs == {Latest}

\* toBlock "latest", or a numeric block the chain grows past.
MCAsyncToArgs == {Latest, 1}

\* Block filters re-deliver on every poll: stop exploring once a filter has
\* returned more blocks than the chain has twice over.
CountBound == \A id \in Ids : count[id] <= 2 * (MaxHead + 1)

(***************************************************************************)
(* The log filters of AsyncLocalFilter implement AbstractFilter, whatever  *)
(* the interleaving of the coroutines polling them and the transport      *)
(* errors that close them.                                                 *)
(***************************************************************************)
LogIds == {id \in DOMAIN filters : filters[id].kind = "log"}

Abs == INSTANCE AbstractFilter
           WITH installed <- [id \in LogIds |-> filters[id].from0],
                seen <- [id \in Ids |-> IF id \in LogIds THEN delivered[id] ELSE {}],
                returned <- [id \in Ids |-> IF id \in LogIds THEN count[id] ELSE 0],
                closed <- {id \in LogIds : gen[id].pc = "dead"}

\* Every behaviour of two coroutines sharing the async middleware is one the
\* abstract filter allows: consecutive runs, each block once, and every
\* block eventually returned to one of the pollers.
RefinesAbstractFilter == Abs!Spec

=============================================================================
