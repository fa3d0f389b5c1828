---------------------------- MODULE LocalFilter ----------------------------
(***************************************************************************)
(* The local filter middleware of src/bubble/middleware/filter.py          *)
(* (local_filter_middleware, RequestLogs, RequestBlocks and the generators *)
(* iter_latest_block, iter_latest_block_ranges, _get_filter_changes) in    *)
(* front of a node whose chain grows.                                      *)
(*                                                                         *)
(* A log filter's changes come from ONE Python generator, created with the *)
(* filter and advanced by next() on every bub_getFilterChanges.  Its state *)
(* between polls is the record gen[id]: the yield it is suspended at (pc)  *)
(* and its locals to (the resolved to_block), last (_last), latest         *)
(* (latest_block) and from (from_block of iter_latest_block_ranges).  A    *)
(* poll runs the generator from that yield to the next one; each RPC it    *)
(* makes on the way (bub_blockNumber, bub_getLogs) is a step of its own,   *)
(* so the chain may grow between them, and may fail with a transport       *)
(* error, which closes the generator.  A block filter builds a fresh       *)
(* generator on every poll (RequestBlocks.filter_changes is a property).   *)
(*                                                                         *)
(* Log contents are abstracted to the block numbers whose logs a response  *)
(* carries; address and topic matching is left to the node.                *)
(***************************************************************************)
EXTENDS Integers, FiniteSets, FiniteSetsExt, TLC, FilterGen

CONSTANTS
    MaxHead,          \* the chain grows from block 0 up to this head
    MaxFilters,       \* filter ids the counter hands out in a behaviour
    Kinds,            \* filter kinds the caller installs: "log", "block"
    FromArgs,         \* fromBlock arguments of bub_newFilter
    ToArgs,           \* toBlock arguments of bub_newFilter
    MaxRpcFailures    \* transport errors the node connection may produce

ASSUME MaxHead \in Nat /\ MaxFilters \in Nat \ {0} /\ MaxRpcFailures \in Nat
ASSUME Kinds \subseteq {"log", "block"}
ASSUME FromArgs \subseteq Nat \cup {None, Latest}
ASSUME ToArgs \subseteq Nat \cup {None, Latest}

VARIABLES
    head,       \* the node's bub_blockNumber
    nextId,     \* next value of filter_id_counter
    filters,    \* the middleware's `filters` dict: id -> filter object
    gen,        \* id -> state of the log filter's filter_changes generator
    busy,       \* id of the filter whose poll is waiting on an RPC, or None
    delivered,  \* id -> blocks whose logs/hashes a poll has returned
    count,      \* id -> total number of blocks returned by its polls
    response,   \* the last response the middleware gave the caller
    failures    \* transport errors produced so far

vars == <<head, nextId, filters, gen, busy, delivered, count, response, failures>>

Ids    == 0 .. MaxFilters - 1
Blocks == 0 .. MaxHead
Answer(op, id, err, bs) == [op |-> op, id |-> id, error |-> err, blocks |-> bs]

-----------------------------------------------------------------------------
(* The chain: a new block is mined. *)
NewBlock ==
    /\ head < MaxHead
    /\ head' = head + 1
    /\ UNCHANGED <<nextId, filters, gen, busy, delivered, count, response, failures>>

Install(id, f) ==
    /\ filters'  = (id :> f) @@ filters
    /\ response' = Answer("newFilter", id, "none", {})

(* bub_newFilter: the counter is advanced, then RequestLogs is built. *)
NewFilter ==
    /\ busy = None /\ "log" \in Kinds /\ nextId < MaxFilters
    /\ \E fa \in FromArgs, ta \in ToArgs :
          Install(nextId, [kind |-> "log", from0 |-> FromBlockAt(fa, head), toArg |-> ta])
    /\ nextId' = nextId + 1
    /\ UNCHANGED <<head, gen, busy, delivered, count, failures>>

(* bub_newBlockFilter: RequestBlocks starts at the head + 1. *)
NewBlockFilter ==
    /\ busy = None /\ "block" \in Kinds /\ nextId < MaxFilters
    /\ Install(nextId, [kind |-> "block", from0 |-> head + 1, toArg |-> None])
    /\ nextId' = nextId + 1
    /\ UNCHANGED <<head, gen, busy, delivered, count, failures>>

(* Creating the filter reads bub_blockNumber (RequestBlocks, or RequestLogs
   with a symbolic fromBlock) and that call fails: the id taken from the
   counter is lost and the error reaches the caller. *)
NewFilterFails ==
    /\ busy = None /\ nextId < MaxFilters /\ failures < MaxRpcFailures
    /\ "block" \in Kinds \/ \E fa \in FromArgs : Symbolic(fa)
    /\ nextId' = nextId + 1
    /\ failures' = failures + 1
    /\ response' = Answer("newFilter", None, "transport", {})
    /\ UNCHANGED <<head, filters, gen, busy, delivered, count>>

(* bub_getFilterChanges on a log filter: next(_filter.filter_changes). *)
PollLog(id) ==
    /\ busy = None /\ id \in DOMAIN filters /\ filters[id].kind = "log"
    /\ IF gen[id].pc = "dead"
       THEN \* a closed generator raises StopIteration out of the middleware
            /\ response' = Answer("changes", id, "StopIteration", {})
            /\ UNCHANGED <<gen, busy>>
       ELSE LET g == Resume(filters[id], gen[id]) IN
            /\ gen' = [gen EXCEPT ![id] = g]
            /\ IF g.pc \in Waiting
               THEN busy' = id /\ UNCHANGED response
               ELSE busy' = None /\ response' = Answer("changes", id, "none", {})
    /\ UNCHANGED <<head, nextId, filters, delivered, count, failures>>

(* The to_block property answers: the head, read when the generator starts. *)
ResolveTo(id) ==
    /\ busy = id /\ gen[id].pc = "resolveTo"
    /\ gen' = [gen EXCEPT ![id].pc = "readHead", ![id].to = head]
    /\ UNCHANGED <<head, nextId, filters, busy, delivered, count, response, failures>>

(* iter_latest_block reads latest_block; past to_block it yields None. *)
ReadHead(id) ==
    /\ busy = id /\ gen[id].pc = "readHead"
    /\ LET g  == [gen[id] EXCEPT !.latest = head]
           g2 == IF g.latest > g.to THEN [g EXCEPT !.pc = "atY1"] ELSE Check23(g)
       IN /\ gen' = [gen EXCEPT ![id] = g2]
          /\ IF g2.pc = "fetch"
             THEN UNCHANGED <<busy, response>>
             ELSE busy' = None /\ response' = Answer("changes", id, "none", {})
    /\ UNCHANGED <<head, nextId, filters, delivered, count, failures>>

(* get_logs_multipart returns every page: the window's logs are yielded. *)
Fetch(id) ==
    /\ busy = id /\ gen[id].pc = "fetch"
    /\ LET bs == PagedBlocks(gen[id].from, gen[id].latest) IN
       /\ delivered' = [delivered EXCEPT ![id] = @ \cup bs]
       /\ count'     = [count EXCEPT ![id] = @ + Cardinality(bs)]
       /\ response'  = Answer("changes", id, "none", bs)
    /\ gen'  = [gen EXCEPT ![id].pc = "atRange"]
    /\ busy' = None
    /\ UNCHANGED <<head, nextId, filters, failures>>

(* The pending RPC of a poll fails: the exception leaves the generator,
   which is thereby closed, and reaches the caller. *)
PollRpcFails(id) ==
    /\ busy = id /\ failures < MaxRpcFailures
    /\ gen'      = [gen EXCEPT ![id].pc = "dead"]
    /\ busy'     = None
    /\ failures' = failures + 1
    /\ response' = Answer("changes", id, "transport", {})
    /\ UNCHANGED <<head, nextId, filters, delivered, count>>

(* bub_getFilterChanges on a block filter: a new generator from start_block
   yields the head once; block_hashes_in_range fetches each block. *)
PollBlocks(id) ==
    /\ busy = None /\ id \in DOMAIN filters /\ filters[id].kind = "block"
    /\ LET bs == IF filters[id].from0 > head THEN {} ELSE filters[id].from0 .. head IN
       \/ /\ delivered' = [delivered EXCEPT ![id] = @ \cup bs]
          /\ count'     = [count EXCEPT ![id] = @ + Cardinality(bs)]
          /\ response'  = Answer("changes", id, "none", bs)
          /\ UNCHANGED failures
       \/ /\ failures < MaxRpcFailures
          /\ failures' = failures + 1
          /\ response' = Answer("changes", id, "transport", {})
          /\ UNCHANGED <<delivered, count>>
    /\ UNCHANGED <<head, nextId, filters, gen, busy>>

(* bub_getFilterLogs: RequestLogs.get_logs over [from_block, to_block],
   leaving the poll generator alone; a block filter has no get_logs. *)
GetFilterLogs(id) ==
    /\ busy = None /\ id \in DOMAIN filters
    /\ LET w == FilterLogsWindow(filters[id], head) IN
       CASE filters[id].kind = "block" ->
                response' = Answer("filterLogs", id, "AttributeError", {}) /\ UNCHANGED failures
         [] w[1] > w[2] ->
                response' = Answer("filterLogs", id, "TypeError", {}) /\ UNCHANGED failures
         [] OTHER ->
                \/ response' = Answer("filterLogs", id, "none", PagedBlocks(w[1], w[2])) /\ UNCHANGED failures
                \/ /\ failures < MaxRpcFailures /\ failures' = failures + 1
                   /\ response' = Answer("filterLogs", id, "transport", {})
    /\ UNCHANGED <<head, nextId, filters, gen, busy, delivered, count>>

(* A filter id the middleware did not create is passed to the node. *)
PassThrough(id) ==
    /\ busy = None /\ id \notin DOMAIN filters
    /\ response' = Answer("forwarded", id, "none", {})
    /\ UNCHANGED <<head, nextId, filters, gen, busy, delivered, count, failures>>

-----------------------------------------------------------------------------
Init ==
    /\ head = 0
    /\ nextId = 0
    /\ filters = <<>>
    /\ gen = [id \in Ids |-> NewGen]
    /\ delivered = [id \in Ids |-> {}]
    /\ count = [id \in Ids |-> 0]
    /\ busy = None
    /\ response = Answer("none", None, "none", {})
    /\ failures = 0

Next ==
    \/ NewBlock \/ NewFilter \/ NewBlockFilter \/ NewFilterFails
    \/ \E id \in Ids :
          \/ PollLog(id) \/ ResolveTo(id) \/ ReadHead(id) \/ Fetch(id)
          \/ PollRpcFails(id) \/ PollBlocks(id) \/ GetFilterLogs(id) \/ PassThrough(id)

(***************************************************************************)
(* Fairness: a caller of a filter polls it again and again (that is what   *)
(* a filter is for), and an RPC that was sent is answered.  The client is  *)
(* single-threaded, so a poll of one filter is disabled while a poll of    *)
(* another waits on the node: polling is strongly fair.  Nothing forces    *)
(* the chain to grow or the caller to install filters.                     *)
(***************************************************************************)
Fairness ==
    \A id \in Ids :
        /\ SF_vars(PollLog(id))
        /\ WF_vars(ResolveTo(id)) /\ WF_vars(ReadHead(id)) /\ WF_vars(Fetch(id))

Spec == Init /\ [][Next]_vars /\ Fairness

-----------------------------------------------------------------------------
TypeOK ==
    /\ head \in Blocks
    /\ nextId \in 0 .. MaxFilters
    /\ DOMAIN filters \subseteq 0 .. nextId - 1
    /\ \A id \in DOMAIN filters :
          filters[id] \in [kind : Kinds, from0 : 0 .. MaxHead + 1, toArg : ToArgs \cup {None}]
    /\ \A id \in Ids :
          /\ gen[id] \in [pc : Suspended \cup Waiting, to : Blocks, last : -1 .. MaxHead,
                          latest : Blocks, from : 0 .. MaxHead + 1]
          /\ delivered[id] \subseteq Blocks
          /\ count[id] \in Nat
    /\ busy \in Ids \cup {None}
    /\ failures \in 0 .. MaxRpcFailures

(***************************************************************************)
(* No block twice: across all polls of a filter, bub_getFilterChanges      *)
(* returns the logs (or hash) of each block at most once.  The number of   *)
(* blocks its answers carried equals the number of distinct blocks among   *)
(* them.  Breaks if from_block is not advanced past a returned window      *)
(* (iter_latest_block_ranges) or a poll restarts from the filter's start.  *)
(***************************************************************************)
NoRedelivery == \A id \in DOMAIN filters : count[id] = Cardinality(delivered[id])

(***************************************************************************)
(* A log filter with a numeric toBlock never returns logs of a block after *)
(* it (the filter's range is [fromBlock, toBlock]).                        *)
(***************************************************************************)
RespectsToBlock ==
    \A id \in DOMAIN filters :
        ~Symbolic(filters[id].toArg) => delivered[id] \subseteq 0 .. filters[id].toArg

=============================================================================
