# TLA+ models of turn-sdk.py (`bubble`)

This directory holds TLA+ models of the parts of the `bubble` client library
whose behaviour depends on ordering, on a chain that grows while the code
runs, on coroutines sharing state, on time, and on failures of the node
connection. Every module is written from the Python source under `src/`.
`PROJECT.json` maps each definition to the lines it models, and lists the
runs, the mutants, the findings and the hazards.

## The system

`bubble` is a JSON-RPC client for a Bubble/PlatON-style chain. A call goes
through a method binding (`module.py`, `bub/bub.py`, `bub/async_bub.py`),
then a stack of middleware, then an HTTP or IPC provider. The parts with
real state or protocol content are:

* **local filter middleware** (`middleware/filter.py`), sync and async. It
  emulates `bub_newFilter`, `bub_newBlockFilter`, `bub_getFilterChanges` and
  `bub_getFilterLogs` on the client. It polls `bub_blockNumber` and asks
  `bub_getLogs` for the blocks mined since the last poll, in pages of
  `MAX_BLOCK_REQUEST` blocks.
  - A log filter keeps one (async) generator, `filter_changes`, built when
    the filter is created and advanced once per poll.
  - A block filter builds a new generator on every poll.
* **exception retry middleware** (`middleware/exception_retry_request.py`).
  When the provider raises a transport error, it re-sends methods on an
  allow-list, up to `retries` times.
* **inner-contract calls** (`inner_contract/inner_contract.py`): the checks
  on the caller's transaction, `bub_call`, `_formatter_result`, and the event
  decoding of a receipt.
* **`Bub.call` and `_durin_call`** (`bub/bub.py`, `bub/async_bub.py`): the
  CCIP-read loop that answers an `OffchainLookup` revert with the gateway's
  calldata and calls again, up to `ccip_read_max_redirects` times. It is
  reached by inner-contract calls and by `ContractFunction.call`
  (`contract/contract.py`).
* **`wait_for_transaction_receipt`** (`bub.py`, `async_bub.py`): polling
  `bub_getTransactionReceipt` until the receipt exists or a timeout expires.

The other parts have no state of their own: the PoA result reshaper, the
one-line RPC bindings, the binding classes of each system contract, the
formatter and ABI tables, and the type definitions.

## Modules

| Module | Models | State | Actions |
|---|---|---|---|
| `BlockRanges` | `segment_count`, `gen_bounded_segments`, `block_ranges` (filter.py 65-127) | none (pure operators) | a generator is the sequence it yields; `TypeError` is the value `RangeError`, and the `ValueError` of `range(..., 0)` for a page size of 0 is `StepError` |
| `FilterGen` | the log filter's generator, shared by the sync and the async middleware (`iter_latest_block`, `iter_latest_block_ranges`, `get_logs_multipart` and their async twins) | a generator is a record: its yield point `pc` and the locals `to`, `last`, `latest`, `from` | operators: `NewGen`, `FromBlockAt`, `Resume`, `ResumeAfterY1`, `PagedBlocks`, `FilterLogsWindow` |
| `LocalFilter` | `local_filter_middleware`, `RequestLogs`, `RequestBlocks` | chain head, id counter, `filters`, per-filter generator `gen[id]`, the filter whose poll waits on an RPC, blocks delivered per filter, last response, transport errors so far | `NewBlock`; `NewFilter`, `NewBlockFilter`, `NewFilterFails`; `PollLog` (next() up to the first RPC or yield); `ResolveTo`, `ReadHead`, `Fetch` (each RPC a step, so the chain grows between them); `PollRpcFails`; `PollBlocks`; `GetFilterLogs`; `PassThrough` |
| `AsyncLocalFilter` | `async_local_filter_middleware` with several coroutines on one event loop | as `LocalFilter`, plus `running[id]`: the coroutine whose `__anext__` is in progress; one result per coroutine; `logsCall[c]`: a `getFilterLogs` of coroutine `c` in progress (its filter, where it awaits, its `to_block`, what polls had returned when it began) | as `LocalFilter`, each action taken by a coroutine; `PollLog` by a second coroutine while `running[id]` is set raises `RuntimeError`; `getFilterLogs` is `GetFilterLogs`, `LogsResolveTo`, `LogsPages` and `LogsRpcFails`, one step per await |
| `AbstractFilter` | what a log filter promises (spec 3, 4.3, item 4 of 8) | head, installed filters, blocks returned, count returned, closed filters | `Mine`, `Create`, `Poll` (the next consecutive run, up to the head, of an open filter), `Close` (an error closes the filter); weak fairness on polling |
| `RetryMiddleware` | `check_if_retry_on_failure`, the allow-list, `exception_retry_middleware` | method, loop index, times the node executed the request, outcome | `Call`, `Answered`, `TransportError` (the request may or may not have run before the answer was lost) |
| `RequestPipeline` | the filter layer and the retry layer in one middleware onion, in either order | `LocalFilter`'s state (one log filter) and `RetryMiddleware`'s state for the caller's other methods; the onion order; the stage of the caller's request (`idle`, `filter`, `reinvoke`); the loop indices of the retry loop around the filter's RPC and around the filter layer | `Mine`, `NewFilter`, `Poll`; `RpcAnswered`, `RpcRetried`, `RpcExhausted` (the filter's own RPC passing the whole onion again); `Reinvoke` (an outer retry loop calling the filter layer again); `PlainCall`, `PlainAnswered`, `PlainFails` |
| `InnerContractCall` | `InnerContractFunction.call/estimate_gas/build_transaction`, `_formatter_result`, `InnerContractEvent.process_receipt`, `Bub.call`, `_durin_call`, `wait_for_transaction_receipt` (sync and async), `ContractFunction.call` | provider CCIP flag, control point (`idle`, `call`, `wRpc`, `wSleep`), fid, CCIP loop on or off, lookups followed, clock, start of the current sleep or request, receipt mined, outcome, and `packed`: the formatter keys, payload arguments and fields of the last dict-shaped event (`PackedArgs`, from the constant `EventKeys`) | `Call`, `ContractCall`, `CallAnswered`, `CallReverts`, `CallFails`, `Prepare`, `WaitStart`, `Mine`, `ReceiptAnswered`, `ReceiptRpcFails`, `Wake`, `Expire`, `Tick`, `DecodeEvent` |
| `MCBlockRanges`, `MCLocalFilter`, `MCAsyncLocalFilter`, `MCRetryMiddleware`, `MCRequestPipeline`, `MCInnerContractCall` | model values, argument sets, state constraints, and the refinement mappings | | |

`LocalFilter` abstracts a log to the number of its block. Address and topic
matching happens on the node, and the filter code does not change them.
`None` and `"latest"` are model values.

`InnerContractCall` abstracts values to what the code branches on:
* a transaction is the set of keys the caller put in it;
* a node answer is the shape of its JSON envelope (bytes or dict,
  malformed, which of `Code` and `Ret`, a zero code, an empty `Ret`);
* a receipt's last log is the number of logs, the number of RLP
  arguments, and whether the first one is a list.
The RLP byte encoding itself is not modelled: no property here depends on
the bytes.

### How generator state is modelled

A poll of a log filter runs `next()` (or `__anext__`) on a generator that is
suspended at one of these yield points:

* `atY1`: the `yield None` at filter.py 157;
* `atY2`: the `yield None` at line 160;
* `atEmpty`: the `(None, None)` window for `from_block > latest_block`;
* `atRange`: after a window was yielded.

`Resume` is the code between that yield and the next RPC:

* `_last = latest_block`;
* `from_block = latest_block + 1` after a window;
* after `yield None` for a head past `to_block`, a fall-through to the
  `_last` test with the **same** `latest_block`. There is no `continue` at
  line 157.

If the generator raises, it is closed. Its `pc` becomes `dead`, and every
later `next()` raises `StopIteration`.

### How the onion is composed

`RequestPipeline` instantiates `LocalFilter` (one log filter) and
`RetryMiddleware` (with its variables renamed) and adds the retry loops the
composition creates. The order of the layers is set by the caller's
`middleware_onion` and is outside `src/`, so `RetryWrapsFilter` is
modelled from the spec.

The filter's own RPCs go through `w3.bub.block_number` and
`w3.bub.get_logs`. Those start again at the top of the onion, not at the
`make_request` the filter layer was given. Whatever the order, each of
them meets the retry layer:
* `RpcRetried` consumes one attempt;
* `RpcExhausted` re-raises after the last one, which closes the generator.

Only the caller's own `bub_getFilterChanges` sees the order. With the retry
layer outside, the escaping error makes it call the filter layer again
(`Reinvoke`). The generator is closed by then, so `next()` raises
`StopIteration`. `StopIteration` is not a transport error, so it is not
retried and reaches the caller.

### Refinement

`MCLocalFilter` and `MCAsyncLocalFilter` instantiate `AbstractFilter` over
the log filters (`LogIds`), with
* `installed <- [id \in LogIds |-> filters[id].from0]`, the resolved
  fromBlock of each log filter;
* `seen` and `returned` taken from `delivered` and `count` for log
  filters, and empty for the others;
* `closed <- {id \in LogIds : gen[id].pc = "dead"}`, the filters whose
  generator an error has closed.

Each module checks `RefinesAbstractFilter == Abs!Spec` as a property. This
says three things at once:
* a poll returns the next consecutive run of blocks;
* no block is returned twice;
* through the abstract weak fairness on `Poll`, every block up to the head
  is eventually returned to a caller who keeps polling an open filter.

A transport error closes a filter for good. So the promise of eventual
delivery is made only for open filters, which is what lets the `filter_faults` and
`async_faults` runs check refinement with errors present.

### Time

`InnerContractCall` measures time in units of `poll_latency`. `clock` counts
from the start of the current wait and is advanced only by `Tick`, during a
sleep or while a receipt request is unanswered (at most `MaxRpcTime`).
* The sync wait runs under web3's `Timeout` context. Its `sleep` returns and
  then checks the deadline (`Wake`), so `TimeExhausted` comes after the
  first sleep that ends past `timeout`. That library code is not under
  `src/`; the model follows its documented behaviour.
* The async wait is cancelled by `asyncio.wait_for` at the deadline,
  whatever it awaits (`Expire`). No step of the loop runs past the deadline.

## Runs

| Run | Config | Expect | What it shows |
|---|---|---|---|
| `block_ranges` | `MCBlockRanges.cfg` | pass | `block_ranges(s, l, step)` pages every window `s <= 5`, `l <= 12`, `step` 1..5 without gap or overlap, in pages of at most `step`; `s > l` raises `TypeError`, and `step` 0 (`WEB3_MAX_BLOCK_REQUEST=0`) raises `ValueError` for every window. |
| `filter_faults` | `MCLocalFilterFaults.cfg` | pass | Two sync filters, log or block, heads 0..2, every form of fromBlock, toBlock `"latest"` or the last head, one transport error anywhere. The log filters refine `AbstractFilter` (`RefinesAbstractFilter`): consecutive runs, each block once, and every block eventually returned by a filter no error has closed. |
| `block_filter_redelivery` | `MCBlockFilterRedelivery.cfg` | violation | A block filter returns the same hashes on every poll. |
| `to_block_exceeded` | `MCToBlockExceeded.cfg` | violation | A filter with toBlock 1 returns block 2 once the head passes 1. |
| `retry_effect_twice` | `MCRetryEffectTwice.cfg` | violation | `personal_newAccount` or `bub_sendRawTransaction` is re-sent after a lost answer and executed twice. |
| `async_faults` | `MCAsyncLocalFilterFaults.cfg` | pass | Two coroutines sharing the async middleware, a log or a block filter, heads 0..2, toBlock `"latest"` or 1 (which the chain passes), up to two transport errors. Whatever the interleaving, the log filter refines `AbstractFilter` (an error may close it). A `getFilterLogs`, which awaits `to_block` and then each page while the other coroutine polls, covers every block within the filter's range that polls had returned when it began (`LogsCoverPolls`). |
| `async_concurrent_poll` | `MCAsyncConcurrentPoll.cfg` | violation | A second coroutine polling a log filter while the first awaits the node gets `RuntimeError`. |
| `inner_contract` | `MCInnerContractCall.cfg` | pass | Async mode. Inner-contract and contract calls with CCIP read on or off, the receipt wait racing the chain and its deadline, and event decoding. `TooManyRequests` comes only after exactly `max_redirects` lookups (`DurinWithinBudget`). Every call and every wait returns control to the caller (`OperationsReturn`). |
| `event_truncation` | `MCEventTruncation.cfg` | violation | The event of a successful transaction (status code 0) for `redeemDelegate`, whose dict formatter has 2 keys, decoded from a log of 1 or 3 arguments: `dict(zip(keys, args))` drops or omits arguments, where spec 7 says a shape mismatch is a fatal decode error (`EventDecodedWhole`). An event with nothing after its code, which a failed transaction emits, is left aside. |
| `receipt_timeout` | `MCReceiptTimeout.cfg` | violation | Sync mode: `TimeExhausted` before the caller's timeout, because `bub.py` 431 replaces it by 60. |
| `request_pipeline` | `MCRequestPipeline.cfg` | pass | The filter layer and the retry layer in one onion, in both orders. The filter's RPCs are retried, so a log filter is closed only after `retries` transport errors (`FilterSurvivesTransientErrors`). For the caller's other methods, an error comes only after the budget is spent (`ErrorOnlyAfterExhaustion`), and an unlisted method is sent once (`NotAllowListedSentOnce`). |
| `retry_outside_filter` | `MCRetryOutsideFilter.cfg` | violation | With the retry layer outside the filter layer, a poll whose RPC exhausted its retries answers `StopIteration` from the re-invoked, closed generator, not the transport error the spec says is re-raised. |

Each violation run is a finding in `PROJECT.json`. Every property of a
passing run has a mutant in `PROJECT.json`: a plausible bug in a mapped
definition, under which TLC finds the property violated.

Some properties pass only because two defects cancel out:

* The fall-through after `yield None` (the missing `continue`) makes a
  numeric toBlock leak (`to_block_exceeded`).
* The same fall-through is what lets a filter with toBlock `"latest"` catch
  up at all, since that filter's `to_block` is frozen at the first poll
  (filter.py 268). Under the mutant `ResumeAfterY1Continue`, which adds the
  `continue`, the refinement fails: blocks past the first poll's head are
  never returned. A fix of line 157 therefore has to come with a fix of
  line 268.

Facts that earlier versions checked as separate violation runs are recorded
as hazards instead:
* after a transport error a log filter is dead and every later poll raises
  `StopIteration`;
* `getFilterLogs` right after creating a default filter raises `TypeError`;
* `retries=0` makes an allow-listed call return `None` without sending it.

## Bounds

* **LocalFilter / AsyncLocalFilter**:
  - heads 0..2 in the faults runs (0..3 in the violation runs), pages of
    2 blocks;
  - two filter ids in the sync runs, one in the async runs;
  - two coroutines in the async run;
  - at most one transport error in the sync faults run and two in the
    async run, none in the sync violation runs.
  - Why this is enough:
    - A window of up to 3 blocks splits into 1 or 2 pages, and the
      remainder page occurs.
    - The async toBlock 1 is passed by the chain, so the leak past it
      happens; `LogsCoverPolls` only asks about blocks within the range.
    - The chain can grow by two blocks between polls.
    - Two coroutines suffice for the `RuntimeError` race, and for one
      coroutine to poll while the other creates the filter, reads its logs
      or polls it again.
    - One error can hit every RPC of a poll and filter creation; two let a
      filter's creation fail and its later poll fail too.
  - `CountBound` stops a block filter's re-delivery from growing `count`
    forever. It is a state constraint in the faults runs. In the async run
    it is used together with the refinement: with one filter id, the only
    behaviours it cuts are block filter ones, and the refinement maps those
    to stuttering.
* **RetryMiddleware**: the default `retries = 5`. There is one method of
  each kind:
  - listed by namespace;
  - listed by full name;
  - unlisted;
  - listed and creating;
  - listed and submitting.
* **RequestPipeline**: heads 0..3, one log filter, `retries = 3`, and up to
  three transport errors, so a filter RPC can exhaust its budget. Pages of 4
  blocks make every window a single `bub_getLogs` request. The model's
  retry counter belongs to the request in flight, and one request per
  window keeps that counter faithful. Both onion orders are explored.
* **InnerContractCall**:
  - async `timeout` of 4 polls, and a sync timeout of 2 polls standing for
    the 60 s the code uses;
  - a receipt request may stay unanswered for 2 units;
  - `max_redirects = 4`, the provider's minimum, so the CCIP loop runs to
    exhaustion;
  - four fids, covering:
    - a result formatter and no result formatter;
    - event formatters of the dict shape (`redeemDelegate`, whose
      formatter has 2 keys, given by `EventKeys`), the array shape and none;
  - receipts whose last log carries status code 0 or a non-zero code and
    0..3 arguments after it, so a payload shorter than, equal to and
    longer than the 2 keys all occur.
* **BlockRanges**: every window up to 13 blocks with page sizes 0..5. This
  covers exact multiples, a remainder, windows shorter than a page, and the
  page size 0 that `WEB3_MAX_BLOCK_REQUEST=0` sets.

## Fairness

* `PollLog` is strongly fair, per filter in the sync model and per
  coroutine and filter in the async model.
  - In the sync model, the client is single-threaded. While one filter's
    poll waits on the node, a poll of another filter is disabled, and a
    caller that keeps polling gets its turn infinitely often.
  - In the async model, a coroutine that keeps polling is scheduled by the
    event loop infinitely often.
* The generator's RPC steps (`ResolveTo`, `ReadHead`, `Fetch`) and, in the
  async model, the awaits of `getFilterLogs` (`LogsResolveTo`, `LogsPages`)
  are weakly fair, because a request that was sent is answered.
* Nothing forces the chain to grow or a caller to create filters.
* In `RetryMiddleware`, the attempt in flight is weakly fair: it returns or
  raises.
* `InnerContractCall`'s `FairSpec`, used by the `inner_contract` run, adds
  weak fairness on:
  - a `bub_call` returning, reverting or raising;
  - a receipt request being answered or raising. The provider's HTTP
    request has its own timeout, which `MaxRpcTime` stands for;
  - `Wake` (a sleep returns once its time has passed);
  - `Tick` (time passes);
  - `Expire` (the event loop runs the `wait_for` timeout at the deadline).

  Nothing forces the caller to start an operation, or the chain to include
  the transaction. Under this fairness, `OperationsReturn` (`pc # "idle" ~>
  pc = "idle"`) says that every call and every receipt wait gives control
  back to the caller. In async mode this rests on `wait_for` cancelling the
  polling task. The mutant `ExpireNoCancel` raises `TimeExhausted` without
  cancelling, and the property fails.
* `RequestPipeline` has no fairness: all its properties are invariants.

## Not modelled

The components are listed in `PROJECT.json`, each with a status.

* **A `Code` other than 0 returning `Ret`** (inner_contract.py 227).
  `FormatterResult` models the branch. Spec 4.4 says a non-zero code returns
  the raw `Ret`, so the code conforms, and a unit test reaches the branch
  directly; no property is spent on it.
* **A negative `WEB3_MAX_BLOCK_REQUEST`**. Python's `range` and `%` for a
  negative step make `block_ranges` yield no page, so logs are lost
  silently. `BlockRanges` models only non-negative page sizes.
* **The PoA reshaper** is a formatter on block results: it renames and
  re-encodes fields and has no state or control beyond the formatting.
* **Module attachment and method binding**, the binding classes of the
  system contracts and the other namespaces. Each RPC method is a one-line
  `Method(...)` binding with request and result formatters. Modelling them
  adds a transliteration of tables, not control.
* **The ABI, type and formatter tables** are data.
* **The rest of `async_bub.py`** awaits the same one-line bindings as
  `bub.py`. The async code that has control of its own is modelled:
  `call` and `_durin_call`, and `wait_for_transaction_receipt`, whose
  timeout mechanism differs.
* **Test and benchmark tooling** is not part of the library.
* **The receipt lost to `wait_for`'s cancellation** (async_bub.py 471). A
  receipt request in flight at the deadline is cancelled even if the
  receipt exists. The model has the race (`Expire` while `pc = "wRpc"`),
  but no property is checked: the spec asks only for a distinct
  `TimeExhausted` after the deadline, and that is what the code raises.
* **Separate no-gap and getFilterLogs properties for the sync filter.**
  That polls leave no gap follows from the refinement. That `getFilterLogs`
  covers what polls returned is false once the chain passes a numeric
  toBlock, because of the leak `to_block_exceeded` shows. Only the async
  run, whose `getFilterLogs` interleaves with polls, checks it, and only
  for blocks within the range.

So the share of the source the map covers stays low. The code that is left
is tables, formatting and bindings, and a faithful model of it would be a
transliteration with no property to check.
