-------------------------- MODULE RequestPipeline --------------------------
(***************************************************************************)
(* A blocking client whose middleware onion holds both the local filter   *)
(* layer (local_filter_middleware, src/bubble/middleware/filter.py) and    *)
(* the retry layer (exception_retry_middleware,                            *)
(* src/bubble/middleware/exception_retry_request.py), in either order.     *)
(*                                                                         *)
(* The filter's own RPCs are made through w3.bub.block_number and          *)
(* w3.bub.get_logs, i.e. from the TOP of the onion, not through the        *)
(* make_request it was given: each of them passes the whole onion again    *)
(* and is retried whatever the order of the layers.  Only the request the  *)
(* caller sent, bub_getFilterChanges, sees the retry layer after the       *)
(* filter layer when retry is the outer layer ("retryOutside"): an error   *)
(* that escapes the filter layer then makes the retry layer call it again. *)
(*                                                                         *)
(* The filter layer is LocalFilter with one log filter, the retry layer is *)
(* RetryMiddleware for the caller's other methods; this module adds the    *)
(* retry loops around the filter's RPCs and around the filter layer.       *)
(***************************************************************************)
EXTENDS Integers, Sequences

CONSTANTS
    MaxHead, MaxBlockRequest, None, Latest, FromArgs, ToArgs, MaxRpcFailures,
    Methods, Effect, Retries,
    Orders            \* onion orders to explore: "retryInside", "retryOutside"

ASSUME Orders \subseteq {"retryInside", "retryOutside"}

VARIABLES
    \* the filter layer (LocalFilter)
    head, nextId, filters, gen, busy, delivered, count, response, failures,
    \* the retry layer serving the caller's other methods (RetryMiddleware)
    pm, pphase, pi, papplied, poutcome,
    order,        \* the onion's order of the two layers
    stage,        \* "idle", "filter" (a filter RPC is in flight), "reinvoke"
    ii,           \* loop index of the retry loop around the filter's RPC in flight
    oi,           \* loop index of the outer retry loop around the filter layer
    startedDead   \* the generator was already closed when the caller's poll began

lvars == <<head, nextId, filters, gen, busy, delivered, count, response, failures>>
rvars == <<pm, pphase, pi, papplied, poutcome>>
vars  == <<lvars, rvars, order, stage, ii, oi, startedDead>>

L == INSTANCE LocalFilter WITH MaxFilters <- 1, Kinds <- {"log"}
R == INSTANCE RetryMiddleware
         WITH method <- pm, phase <- pphase, i <- pi, applied <- papplied,
              outcome <- poutcome

FilterId == 0

BlockNumberM      == <<"bub", "blockNumber">>
GetLogsM          == <<"bub", "getLogs">>
GetFilterChangesM == <<"bub", "getFilterChanges">>

\* The method of the RPC the generator waits on: the to_block property and
\* iter_latest_block read w3.bub.block_number, get_logs_multipart calls
\* w3.bub.get_logs (one page: MaxBlockRequest covers every window).
RpcOf(pc) == IF pc = "fetch" THEN GetLogsM ELSE BlockNumberM

\* The onion puts the retry layer outside the filter layer, so an error
\* escaping the filter layer reaches a retry loop.
RetryWrapsFilter(o) == o = "retryOutside"

pvars == <<order, stage, ii, oi, startedDead>>

StageAfter == IF busy' = None THEN "idle" ELSE "filter"

-----------------------------------------------------------------------------
Mine == L!NewBlock /\ UNCHANGED <<rvars, pvars>>

(* bub_newFilter is served by the filter layer. *)
NewFilter ==
    /\ stage = "idle" /\ pphase = "idle"
    /\ L!NewFilter
    /\ UNCHANGED <<rvars, pvars>>

(* bub_getFilterChanges: next() on the filter's generator, up to its first
   RPC or yield. *)
Poll ==
    /\ stage = "idle" /\ pphase = "idle"
    /\ L!PollLog(FilterId)
    /\ startedDead' = (gen[FilterId].pc = "dead")
    /\ stage' = StageAfter /\ ii' = 0 /\ oi' = 0
    /\ UNCHANGED <<rvars, order>>

(* The filter's RPC is answered (possibly after retries) and the generator
   runs on to its next RPC or yield. *)
RpcAnswered ==
    /\ stage = "filter"
    /\ L!ResolveTo(FilterId) \/ L!ReadHead(FilterId) \/ L!Fetch(FilterId)
    /\ stage' = StageAfter /\ ii' = 0
    /\ UNCHANGED <<rvars, order, oi, startedDead>>

(* The filter's RPC raises a transport error inside its own pass through
   the onion and the retry layer sends it again. *)
RpcRetried ==
    /\ stage = "filter" /\ failures < MaxRpcFailures
    /\ R!RetryAgain(RpcOf(gen[FilterId].pc), ii)
    /\ ii' = ii + 1 /\ failures' = failures + 1
    /\ UNCHANGED <<head, nextId, filters, gen, busy, delivered, count, response>>
    /\ UNCHANGED <<rvars, order, stage, oi, startedDead>>

(* The last allowed attempt fails too: the retry layer re-raises, the
   error leaves the generator (closing it) and the filter layer.  An outer
   retry layer catches it and calls the filter layer again. *)
RpcExhausted ==
    /\ stage = "filter"
    /\ ~R!RetryAgain(RpcOf(gen[FilterId].pc), ii)
    /\ L!PollRpcFails(FilterId)
    /\ ii' = 0
    /\ stage' = IF RetryWrapsFilter(order) /\ R!RetryAgain(GetFilterChangesM, oi)
                THEN "reinvoke" ELSE "idle"
    /\ UNCHANGED <<rvars, order, oi, startedDead>>

(* The outer retry loop's next pass: the filter layer runs next() again. *)
Reinvoke ==
    /\ stage = "reinvoke"
    /\ oi' = oi + 1
    /\ L!PollLog(FilterId)
    /\ stage' = StageAfter
    /\ UNCHANGED <<rvars, order, ii, startedDead>>

(* Any other method passes the filter layer to make_request and meets the
   retry layer with the provider behind it. *)
PlainCall     == stage = "idle" /\ R!Call /\ UNCHANGED <<lvars, pvars>>
PlainAnswered == R!Answered /\ UNCHANGED <<lvars, pvars>>
PlainFails    == R!TransportError /\ UNCHANGED <<lvars, pvars>>

-----------------------------------------------------------------------------
Init ==
    /\ L!Init /\ R!Init
    /\ order \in Orders
    /\ stage = "idle" /\ ii = 0 /\ oi = 0 /\ startedDead = FALSE

Next ==
    \/ Mine \/ NewFilter \/ Poll \/ RpcAnswered \/ RpcRetried \/ RpcExhausted
    \/ Reinvoke \/ PlainCall \/ PlainAnswered \/ PlainFails

Spec == Init /\ [][Next]_vars

-----------------------------------------------------------------------------
TypeOK ==
    /\ L!TypeOK /\ R!TypeOK
    /\ order \in Orders
    /\ stage \in {"idle", "filter", "reinvoke"}
    /\ ii \in 0 .. Retries /\ oi \in 0 .. Retries
    /\ startedDead \in BOOLEAN

(***************************************************************************)
(* Spec 4.2, retry layer: a transient transport error of an allow-listed   *)
(* method is recovered.  The filter's bub_blockNumber and bub_getLogs are  *)
(* allow-listed and re-enter the whole onion, so whichever order the two   *)
(* layers are in, the log filter's generator is closed only after at least *)
(* `retries` transport errors.                                             *)
(***************************************************************************)
FilterSurvivesTransientErrors ==
    gen[FilterId].pc = "dead" => failures >= Retries

(***************************************************************************)
(* The retry layer, serving the caller's other methods inside the          *)
(* pipeline: a transport error reaches the caller only after the budget is *)
(* spent, and a method missing from the allow-list is sent once.           *)
(***************************************************************************)
ErrorOnlyAfterExhaustion == R!ErrorOnlyAfterExhaustion

NotAllowListedSentOnce == R!NotAllowListedSentOnce

(***************************************************************************)
(* Spec 4.2: on exhaustion the retry layer re-raises the last transport    *)
(* error.  So a poll whose RPC kept failing answers with that error, and   *)
(* StopIteration comes only from a poll of a filter already closed when    *)
(* the poll began.                                                         *)
(***************************************************************************)
ExhaustionReraised ==
    stage = "idle" /\ response.op = "changes" /\ response.error = "StopIteration"
        => startedDead

=============================================================================
