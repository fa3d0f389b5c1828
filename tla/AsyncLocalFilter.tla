-------------------------- MODULE AsyncLocalFilter --------------------------
(***************************************************************************)
(* async_local_filter_middleware of src/bubble/middleware/filter.py        *)
(* (AsyncRequestLogs, AsyncRequestBlocks and the async generators), used   *)
(* by several coroutines of one event loop at once.                        *)
(*                                                                         *)
(* A coroutine runs until it awaits an RPC; each RPC answer is a step of   *)
(* its own, so other coroutines and the chain move in between.  A log      *)
(* filter's changes come from ONE async generator (filter_changes, made in *)
(* __init__); __anext__ on it while an earlier __anext__ is suspended at   *)
(* an await raises RuntimeError to the second caller and leaves the        *)
(* generator to the first.  running[id] is the coroutine whose __anext__  *)
(* is in progress.  An exception out of the generator (a transport error,  *)
(* or CancelledError when the awaiting task is cancelled) closes it.       *)
(*                                                                         *)
(* bub_getFilterLogs awaits the to_block property and then each page;     *)
(* logsCall[c] is that call of coroutine c in progress.  Filter creation   *)
(* (counter, then the awaited bub_blockNumber) and the block-filter path,  *)
(* whose state is local to one call, are single steps.                     *)
(***************************************************************************)
EXTENDS Integers, FiniteSets, FiniteSetsExt, TLC, FilterGen

CONSTANTS
    MaxHead,          \* the chain grows from block 0 up to this head
    MaxFilters,       \* filter ids the counter hands out in a behaviour
    Kinds,            \* filter kinds the callers install: "log", "block"
    FromArgs,         \* fromBlock arguments of bub_newFilter
    ToArgs,           \* toBlock arguments of bub_newFilter
    MaxRpcFailures,   \* transport errors the node connection may produce
    Cos               \* coroutines calling the middleware

ASSUME MaxHead \in Nat /\ MaxFilters \in Nat \ {0} /\ MaxRpcFailures \in Nat
ASSUME Kinds \subseteq {"log", "block"}
ASSUME None \notin Cos

VARIABLES
    head,       \* the node's bub_blockNumber
    nextId,     \* next value of filter_id_counter
    filters,    \* the middleware's `filters` dict: id -> filter object
    gen,        \* id -> state of the log filter's filter_changes generator
    running,    \* id -> coroutine whose __anext__ of the generator is in progress, or None
    delivered,  \* id -> blocks whose logs/hashes a poll has returned
    count,      \* id -> total number of blocks returned by its polls
    result,     \* coroutine -> the last response the middleware gave it
    failures,   \* transport errors produced so far
    logsCall    \* coroutine -> its bub_getFilterLogs in progress: the filter,
                \* where it awaits, the to_block, and what polls had returned
                \* when it began

vars == <<head, nextId, filters, gen, running, delivered, count, result, failures, logsCall>>

Ids    == 0 .. MaxFilters - 1
Blocks == 0 .. MaxHead
Answer(op, id, err, bs) == [op |-> op, id |-> id, error |-> err, blocks |-> bs]

\* No bub_getFilterLogs in progress.
NoCall == [id |-> None, pc |-> "none", to |-> 0, seen |-> {}]

\* A coroutine is inside a middleware call, awaiting a generator's RPC or
\* an RPC of get_logs.
InCall(c) == (\E id \in Ids : running[id] = c) \/ logsCall[c].pc # "none"

\* A coroutine is between middleware calls and may make the next one.
Idle(c) == ~InCall(c)

Deliver(id, bs) ==
    /\ delivered' = [delivered EXCEPT ![id] = @ \cup bs]
    /\ count'     = [count EXCEPT ![id] = @ + Cardinality(bs)]

-----------------------------------------------------------------------------
NewBlock ==
    /\ head < MaxHead
    /\ head' = head + 1
    /\ UNCHANGED <<nextId, filters, gen, running, delivered, count, result, failures, logsCall>>

(* bub_newFilter: next(filter_id_counter), then `await AsyncRequestLogs`,
   whose __await__ closure resolves from_block. *)
NewFilter(c) ==
    /\ Idle(c) /\ "log" \in Kinds /\ nextId < MaxFilters
    /\ \E fa \in FromArgs, ta \in ToArgs :
          filters' = (nextId :> [kind |-> "log", from0 |-> FromBlockAt(fa, head), toArg |-> ta])
                     @@ filters
    /\ result'   = [result EXCEPT ![c] = Answer("newFilter", nextId, "none", {})]
    /\ nextId'   = nextId + 1
    /\ UNCHANGED <<head, gen, running, delivered, count, failures, logsCall>>

(* bub_newBlockFilter: `await AsyncRequestBlocks(w3)` sets start_block. *)
NewBlockFilter(c) ==
    /\ Idle(c) /\ "block" \in Kinds /\ nextId < MaxFilters
    /\ filters'  = (nextId :> [kind |-> "block", from0 |-> head + 1, toArg |-> None]) @@ filters
    /\ result'   = [result EXCEPT ![c] = Answer("newFilter", nextId, "none", {})]
    /\ nextId'   = nextId + 1
    /\ UNCHANGED <<head, gen, running, delivered, count, failures, logsCall>>

(* The bub_blockNumber awaited by the creation fails: the id is lost. *)
NewFilterFails(c) ==
    /\ Idle(c) /\ nextId < MaxFilters /\ failures < MaxRpcFailures
    /\ "block" \in Kinds \/ \E fa \in FromArgs : Symbolic(fa)
    /\ nextId'   = nextId + 1
    /\ failures' = failures + 1
    /\ result'   = [result EXCEPT ![c] = Answer("newFilter", None, "transport", {})]
    /\ UNCHANGED <<head, filters, gen, running, delivered, count, logsCall>>

(* bub_getFilterChanges on a log filter: await filter_changes.__anext__(). *)
PollLog(c, id) ==
    /\ Idle(c) /\ id \in DOMAIN filters /\ filters[id].kind = "log"
    /\ CASE gen[id].pc = "dead" ->
              /\ result' = [result EXCEPT ![c] = Answer("changes", id, "StopAsyncIteration", {})]
              /\ UNCHANGED <<gen, running>>
         [] running[id] # None ->
              /\ result' = [result EXCEPT ![c] = Answer("changes", id, "RuntimeError", {})]
              /\ UNCHANGED <<gen, running>>
         [] OTHER ->
              LET g == Resume(filters[id], gen[id]) IN
              /\ gen' = [gen EXCEPT ![id] = g]
              /\ IF g.pc \in Waiting
                 THEN running' = [running EXCEPT ![id] = c] /\ UNCHANGED result
                 ELSE /\ result' = [result EXCEPT ![c] = Answer("changes", id, "none", {})]
                      /\ UNCHANGED running
    /\ UNCHANGED <<head, nextId, filters, delivered, count, failures, logsCall>>

\* The generator of filter id answers its poller and is suspended again.
Reply(id, bs) ==
    /\ result'  = [result EXCEPT ![running[id]] = Answer("changes", id, "none", bs)]
    /\ running' = [running EXCEPT ![id] = None]

(* `await self.to_block` in _get_filter_changes answers with the head. *)
ResolveTo(id) ==
    /\ running[id] # None /\ gen[id].pc = "resolveTo"
    /\ gen' = [gen EXCEPT ![id].pc = "readHead", ![id].to = head]
    /\ UNCHANGED <<head, nextId, filters, running, delivered, count, result, failures, logsCall>>

(* `await w3.bub.block_number` in async_iter_latest_block answers. *)
ReadHead(id) ==
    /\ running[id] # None /\ gen[id].pc = "readHead"
    /\ LET g  == [gen[id] EXCEPT !.latest = head]
           g2 == IF g.latest > g.to THEN [g EXCEPT !.pc = "atY1"] ELSE Check23(g)
       IN /\ gen' = [gen EXCEPT ![id] = g2]
          /\ IF g2.pc = "fetch" THEN UNCHANGED <<running, result>> ELSE Reply(id, {})
    /\ UNCHANGED <<head, nextId, filters, delivered, count, failures, logsCall>>

(* Every page of async_get_logs_multipart is answered: the window is yielded. *)
Fetch(id) ==
    /\ running[id] # None /\ gen[id].pc = "fetch"
    /\ LET bs == PagedBlocks(gen[id].from, gen[id].latest) IN Deliver(id, bs) /\ Reply(id, bs)
    /\ gen' = [gen EXCEPT ![id].pc = "atRange"]
    /\ UNCHANGED <<head, nextId, filters, failures, logsCall>>

(* The awaited RPC raises: the generator is closed, the poller gets the error. *)
PollRpcFails(id) ==
    /\ running[id] # None /\ failures < MaxRpcFailures
    /\ gen'      = [gen EXCEPT ![id].pc = "dead"]
    /\ result'   = [result EXCEPT ![running[id]] = Answer("changes", id, "transport", {})]
    /\ running'  = [running EXCEPT ![id] = None]
    /\ failures' = failures + 1
    /\ UNCHANGED <<head, nextId, filters, delivered, count, logsCall>>

(* bub_getFilterChanges on a block filter: a new async generator from
   start_block; async_block_hashes_in_range awaits each block. *)
PollBlocks(c, id) ==
    /\ Idle(c) /\ id \in DOMAIN filters /\ filters[id].kind = "block"
    /\ LET bs == IF filters[id].from0 > head THEN {} ELSE filters[id].from0 .. head IN
       \/ /\ Deliver(id, bs)
          /\ result' = [result EXCEPT ![c] = Answer("changes", id, "none", bs)]
          /\ UNCHANGED failures
       \/ /\ failures < MaxRpcFailures /\ failures' = failures + 1
          /\ result' = [result EXCEPT ![c] = Answer("changes", id, "transport", {})]
          /\ UNCHANGED <<delivered, count>>
    /\ UNCHANGED <<head, nextId, filters, gen, running, logsCall>>

(* bub_getFilterLogs: `await _filter.get_logs()`.  A block filter has no
   get_logs; a log filter's get_logs reads its from_block and awaits the
   to_block property, which for None or "latest" is an RPC. *)
GetFilterLogs(c, id) ==
    /\ Idle(c) /\ id \in DOMAIN filters
    /\ IF filters[id].kind = "block"
       THEN /\ result' = [result EXCEPT ![c] = Answer("filterLogs", id, "AttributeError", {})]
            /\ UNCHANGED logsCall
       ELSE /\ logsCall' = [logsCall EXCEPT ![c] =
                  [id |-> id, pc |-> IF Symbolic(filters[id].toArg) THEN "resolveTo" ELSE "pages",
                   to |-> FilterLogsWindow(filters[id], head)[2], seen |-> delivered[id]]]
            /\ UNCHANGED result
    /\ UNCHANGED <<head, nextId, filters, gen, running, delivered, count, failures>>

(* `await self.to_block` in get_logs answers with the head. *)
LogsResolveTo(c) ==
    /\ logsCall[c].pc = "resolveTo"
    /\ logsCall' = [logsCall EXCEPT ![c].pc = "pages",
                        ![c].to = FilterLogsWindow(filters[logsCall[c].id], head)[2]]
    /\ UNCHANGED <<head, nextId, filters, gen, running, delivered, count, result, failures>>

(* async_get_logs_multipart: block_ranges raises TypeError for from_block
   past to_block, else every awaited page is answered.  The pages ask for
   blocks up to to_block, which the chain already has, so their answers do
   not depend on when they come. *)
LogsPages(c) ==
    /\ logsCall[c].pc = "pages"
    /\ LET id == logsCall[c].id
           w  == <<filters[id].from0, logsCall[c].to>>
       IN result' = [result EXCEPT ![c] =
              IF w[1] > w[2] THEN Answer("filterLogs", id, "TypeError", {})
              ELSE Answer("filterLogs", id, "none", PagedBlocks(w[1], w[2]))]
    /\ logsCall' = [logsCall EXCEPT ![c] = NoCall]
    /\ UNCHANGED <<head, nextId, filters, gen, running, delivered, count, failures>>

(* The to_block RPC or a page's bub_getLogs raises: get_logs propagates it. *)
LogsRpcFails(c) ==
    /\ \/ logsCall[c].pc = "resolveTo"
       \/ logsCall[c].pc = "pages" /\ filters[logsCall[c].id].from0 <= logsCall[c].to
    /\ failures < MaxRpcFailures /\ failures' = failures + 1
    /\ result' = [result EXCEPT ![c] = Answer("filterLogs", logsCall[c].id, "transport", {})]
    /\ logsCall' = [logsCall EXCEPT ![c] = NoCall]
    /\ UNCHANGED <<head, nextId, filters, gen, running, delivered, count>>

(* An id the middleware did not create: `await make_request(...)`. *)
PassThrough(c, id) ==
    /\ Idle(c) /\ id \notin DOMAIN filters
    /\ result' = [result EXCEPT ![c] = Answer("forwarded", id, "none", {})]
    /\ UNCHANGED <<head, nextId, filters, gen, running, delivered, count, failures, logsCall>>

-----------------------------------------------------------------------------
Init ==
    /\ head = 0
    /\ nextId = 0
    /\ filters = <<>>
    /\ gen = [id \in Ids |-> NewGen]
    /\ running = [id \in Ids |-> None]
    /\ delivered = [id \in Ids |-> {}]
    /\ count = [id \in Ids |-> 0]
    /\ result = [c \in Cos |-> Answer("none", None, "none", {})]
    /\ failures = 0
    /\ logsCall = [c \in Cos |-> NoCall]

Next ==
    \/ NewBlock
    \/ \E c \in Cos :
          \/ NewFilter(c) \/ NewBlockFilter(c) \/ NewFilterFails(c)
          \/ \E id \in Ids : PollLog(c, id) \/ PollBlocks(c, id) \/ GetFilterLogs(c, id) \/ PassThrough(c, id)
          \/ LogsResolveTo(c) \/ LogsPages(c) \/ LogsRpcFails(c)
    \/ \E id \in Ids : ResolveTo(id) \/ ReadHead(id) \/ Fetch(id) \/ PollRpcFails(id)

(***************************************************************************)
(* Fairness: the event loop resumes a coroutine whose RPC was answered     *)
(* (weak fairness of the generator's steps), and each coroutine polls each *)
(* of the filters again and again; it polls other filters in between, so  *)
(* its poll of one filter is enabled only now and then (strong fairness).  *)
(***************************************************************************)
Fairness ==
    /\ \A id \in Ids : WF_vars(ResolveTo(id)) /\ WF_vars(ReadHead(id)) /\ WF_vars(Fetch(id))
    /\ \A c \in Cos : WF_vars(LogsResolveTo(c)) /\ WF_vars(LogsPages(c))
    /\ \A c \in Cos, id \in Ids : SF_vars(PollLog(c, id))

Spec == Init /\ [][Next]_vars /\ Fairness

-----------------------------------------------------------------------------
TypeOK ==
    /\ head \in Blocks
    /\ nextId \in 0 .. MaxFilters
    /\ DOMAIN filters \subseteq 0 .. nextId - 1
    /\ \A id \in DOMAIN filters :
          filters[id] \in [kind : Kinds, from0 : 0 .. MaxHead + 1, toArg : ToArgs \cup {None}]
    /\ \A id \in Ids :
          /\ gen[id] \in [pc : Suspended \cup Waiting, to : Blocks, last : -1 .. MaxHead,
                          latest : Blocks, from : 0 .. MaxHead + 1]
          /\ running[id] \in Cos \cup {None}
          /\ delivered[id] \subseteq Blocks
          /\ count[id] \in Nat
    /\ failures \in 0 .. MaxRpcFailures
    /\ \A c \in Cos :
          \/ logsCall[c] = NoCall
          \/ /\ logsCall[c].id \in DOMAIN filters /\ logsCall[c].pc \in {"resolveTo", "pages"}
             /\ logsCall[c].to \in Nat /\ logsCall[c].seen \subseteq Blocks

\* The blocks of bs within a filter's [fromBlock, toBlock]: a numeric
\* toBlock bounds them, None and "latest" do not.
InFilterRange(f, bs) == IF Symbolic(f.toArg) THEN bs ELSE bs \cap 0 .. f.toArg

(***************************************************************************)
(* When bub_getFilterLogs of a log filter answers, it covers every block   *)
(* within [from_block, to_block] that the filter's polls, by any           *)
(* coroutine, had returned before the call began.  get_logs awaits         *)
(* to_block and each page, so other coroutines' polls run in between; it   *)
(* and the poll generator resolve from_block and to_block apart.           *)
(***************************************************************************)
LogsCoverPolls ==
    [][\A c \in Cos :
         /\ logsCall[c].pc = "pages" /\ logsCall'[c] = NoCall
         /\ result'[c].error = "none"
         => InFilterRange(filters[logsCall[c].id], logsCall[c].seen) \subseteq result'[c].blocks]_vars

(***************************************************************************)
(* Spec 5: in suspending mode operations are scheduled cooperatively and   *)
(* a filter's polls form one sequence; a bub_getFilterChanges of an        *)
(* installed log filter does not fail because another task polls it.      *)
(***************************************************************************)
NoRuntimeError ==
    \A c \in Cos : result[c].op = "changes" => result[c].error # "RuntimeError"

=============================================================================
