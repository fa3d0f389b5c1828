------------------------- MODULE InnerContractCall -------------------------
(***************************************************************************)
(* One client using a system contract through the inner-contract codec:    *)
(*   - InnerContractFunction.call / estimate_gas / build_transaction       *)
(*     (src/bubble/inner_contract/inner_contract.py): checks on the        *)
(*     caller's transaction, the encoded data, then the node;              *)
(*   - Bub.call and Bub._durin_call (src/bubble/bub/bub.py, and the same   *)
(*     code awaited in async_bub.py): the CCIP-read loop that answers an   *)
(*     OffchainLookup revert with the gateway's calldata and calls again;  *)
(*   - _formatter_result on what the node returned;                        *)
(*   - wait_for_transaction_receipt (bub.py, async_bub.py): polling        *)
(*     bub_getTransactionReceipt until the receipt exists or the timeout   *)
(*     expires;                                                            *)
(*   - InnerContractEvent.process_receipt on the receipt obtained;         *)
(*   - ContractFunction.call (src/bubble/contract/contract.py), which      *)
(*     reaches the same Bub.call with the caller's ccip_read_enabled.      *)
(*                                                                         *)
(* Values are abstracted to what the code branches on: a transaction is    *)
(* the set of keys the caller put in it, a node answer is the shape of its *)
(* JSON envelope, a receipt's last log is the shape of its decoded data.   *)
(* Time is in units of poll_latency; `clock` counts from the start of the  *)
(* current wait.  Mode says which of the two implementations runs.         *)
(***************************************************************************)
EXTENDS Integers, FiniteSets

CONSTANTS
    Mode,           \* "sync" (bub.py) or "async" (async_bub.py)
    Fids,           \* function ids the caller uses
    ResultFormatted,\* fids with an entry in INNER_CONTRACT_RESULT_FORMATTERS
    EventShape,     \* fid -> "none", "dict" or "array" (INNER_CONTRACT_EVENT_FORMATTERS)
    EventKeys,      \* fid -> number of keys of its dict event formatter
    HasAddress,     \* the contract class sets ADDRESS
    MaxRedirects,   \* provider.ccip_read_max_redirects
    Timeout,        \* the caller's timeout argument of wait_for_transaction_receipt
    SyncTimeout,    \* the value bub.py assigns to `timeout` (60 s)
    MaxRpcTime      \* how long a receipt request may stay unanswered

ASSUME Mode \in {"sync", "async"}
ASSUME ResultFormatted \subseteq Fids
ASSUME \A f \in Fids : EventShape[f] \in {"none", "dict", "array"}
ASSUME \A f \in Fids : EventKeys[f] \in Nat
ASSUME HasAddress \in BOOLEAN
ASSUME {MaxRedirects, Timeout, SyncTimeout, MaxRpcTime} \subseteq Nat

PollLatency == 1

VARIABLES
    ccip,       \* provider.global_ccip_read_enabled
    pc,         \* "idle", "call" (a bub_call is in flight), "wRpc", "wSleep"
    fn,         \* fid of the InnerContractFunction being called, or AbiFn
    durin,      \* the call in flight goes through _durin_call
    lookups,    \* OffchainLookup reverts handled by the current call
    clock,      \* time since the current wait started
    since,      \* when the current receipt request or sleep began
    available,  \* the awaited transaction's receipt exists on the node
    outcome,    \* what the last operation gave the caller
    packed      \* the dict a dict-shaped event was decoded to: its code, its
                \* fields, the arguments it was built from, the formatter's keys

vars == <<ccip, pc, fn, durin, lookups, clock, since, available, outcome, packed>>

TxKeys == SUBSET {"to", "data", "from"}

\* The JSON envelope of a bub_call answer: raw bytes or already a dict,
\* which of Code and Ret it has, the code, an empty Ret.
RawResults ==
    [bytes : BOOLEAN, malformed : BOOLEAN, keys : SUBSET {"Code", "Ret"},
     code : {0, 7}, retEmpty : BOOLEAN]

\* The receipt's logs and the RLP list in the last one: its status code
\* (0 is success), its length after the code, and whether the first
\* argument decodes to a list.
Logs == [nlogs : 0 .. 2, code : {0, 7}, nargs : 0 .. 3, firstIsList : BOOLEAN]

\* The `fn` of a bub_call made by ContractFunction.call: its answer is
\* ABI-decoded by call_contract_function, not by _formatter_result.
AbiFn == "abi"

\* The values of ContractFunction.call's ccip_read_enabled argument.
CcipFlags == {"None", "True", "False"}

Say(op, kind) == outcome' = [op |-> op, kind |-> kind]

-----------------------------------------------------------------------------
(* The checks call, estimate_gas and build_transaction make on the
   caller's transaction before anything is encoded or sent. *)
TxCheck(keys) ==
    CASE "data" \in keys -> "ValueError"
      [] "to" \in keys   -> "ValueError"
      [] ~HasAddress     -> "ValueError"
      [] OTHER           -> "ok"

\* Bub.call: the CCIP-read path is taken with the provider's flag unless
\* the call's flag ("None", "True" or "False") overrides it;
\* InnerContractFunction.call passes none.
UsesDurin(providerFlag, callFlag) ==
    \/ providerFlag /\ callFlag # "False"
    \/ ~providerFlag /\ callFlag = "True"

\* Mutants: the loop bound off by one in either direction.
DurinAgainShort(k) == k < MaxRedirects - 1
DurinAgainInclusive(k) == k <= MaxRedirects

\* _durin_call: after the k-th handled OffchainLookup, whether the
\* `for _ in range(max_redirects)` loop makes another bub_call.
DurinAgain(k) == k < MaxRedirects

(***************************************************************************)
(* _formatter_result: bytes are JSON-decoded (a malformed payload raises); *)
(* without Code or Ret the answer is returned as it is; a non-zero Code or *)
(* an empty Ret returns Ret; otherwise the fid's formatter is applied.     *)
(***************************************************************************)
FormatterResult(f, r) ==
    CASE r.bytes /\ r.malformed           -> "JSONDecodeError"
      [] ~({"Code", "Ret"} \subseteq r.keys) -> "raw"
      [] r.code # 0                       -> "rets"
      [] r.retEmpty                       -> "rets"
      [] f \in ResultFormatted            -> "formatted"
      [] OTHER                            -> "rets"

(***************************************************************************)
(* InnerContractEvent.process_receipt: logs[-1], decode_data, then         *)
(* _format_data: no formatter gives {code, message, data[1:]}; a dict      *)
(* formatter zips its keys with the arguments; an array formatter needs    *)
(* args[0] and requires it to be a list.                                   *)
(***************************************************************************)
FormatEvent(f, lg) ==
    CASE lg.nlogs = 0               -> "IndexError"
      [] EventShape[f] = "none"     -> "raw"
      [] EventShape[f] = "dict"     -> "dict"
      [] lg.nargs = 0               -> "IndexError"
      [] ~lg.firstIsList            -> "ValueError"
      [] OTHER                      -> "array"

\* _format_data's dict branch: code = data[0], and
\* dict(zip(raw_formatter.keys(), args)) pairs keys and arguments up to the
\* shorter of the two.
PackedArgs(f, lg) ==
    [code |-> lg.code, fields |-> IF EventKeys[f] < lg.nargs THEN EventKeys[f] ELSE lg.nargs,
     args |-> lg.nargs, keys |-> EventKeys[f]]

\* The deadline of wait_for_transaction_receipt: bub.py replaces the
\* caller's timeout by 60 s, async_bub.py hands it to asyncio.wait_for.
WaitTimeout == IF Mode = "sync" THEN SyncTimeout ELSE Timeout

wvars == <<clock, since, available>>

(* InnerContractFunction.call: the checks, `to` and `from` set,
   _encode_transaction_data, then Bub.call with no ccip flag; _durin_call
   refuses a max_redirects below 4 before sending anything. *)
Call(f, keys) ==
    /\ pc = "idle"
    /\ CASE TxCheck(keys) # "ok" ->
              Say("call", TxCheck(keys)) /\ UNCHANGED <<pc, fn, durin, lookups>>
         [] UsesDurin(ccip, "None") /\ MaxRedirects < 4 ->
              Say("call", "ValueError") /\ UNCHANGED <<pc, fn, durin, lookups>>
         [] OTHER ->
              /\ pc' = "call" /\ fn' = f /\ lookups' = 0
              /\ durin' = UsesDurin(ccip, "None")
              /\ Say("call", "pending")
    /\ UNCHANGED <<ccip, packed, wvars>>

(* bub_call returns: InnerContractFunction.call hands the answer to
   _formatter_result, call_contract_function to the ABI decoder. *)
CallAnswered(r) ==
    /\ pc = "call"
    /\ pc' = "idle"
    /\ Say("call", IF fn = AbiFn THEN "decoded" ELSE FormatterResult(fn, r))
    /\ UNCHANGED <<ccip, packed, fn, durin, lookups, wvars>>

(* bub_call reverts with OffchainLookup.  Outside _durin_call the caller
   gets it; inside, handle_offchain_lookup asks the gateway and the
   loop calls again with its calldata, or gives up with TooManyRequests. *)
CallReverts ==
    /\ pc = "call"
    /\ IF ~durin
       THEN pc' = "idle" /\ Say("call", "OffchainLookup") /\ UNCHANGED lookups
       ELSE \/ pc' = "idle" /\ Say("call", "gatewayError") /\ UNCHANGED lookups
            \/ /\ lookups' = lookups + 1
               /\ IF DurinAgain(lookups + 1)
                  THEN UNCHANGED <<pc, outcome>>
                  ELSE pc' = "idle" /\ Say("call", "TooManyRequests")
    /\ UNCHANGED <<ccip, packed, fn, durin, wvars>>

(* The provider raises on bub_call: the error reaches the caller. *)
CallFails ==
    /\ pc = "call"
    /\ pc' = "idle" /\ Say("call", "transport")
    /\ UNCHANGED <<ccip, packed, fn, durin, lookups, wvars>>

(* ContractFunction.call: the call parameters, then call_contract_function
   sends bub_call through Bub.call with the caller's ccip_read_enabled;
   _durin_call refuses a max_redirects below 4 as for inner contracts. *)
ContractCall(flag) ==
    /\ pc = "idle"
    /\ IF UsesDurin(ccip, flag) /\ MaxRedirects < 4
       THEN Say("call", "ValueError") /\ UNCHANGED <<pc, fn, durin, lookups>>
       ELSE /\ pc' = "call" /\ fn' = AbiFn /\ lookups' = 0
            /\ durin' = UsesDurin(ccip, flag)
            /\ Say("call", "pending")
    /\ UNCHANGED <<ccip, packed, wvars>>

(* estimate_gas and build_transaction: the same checks, then
   bub_estimateGas, or fill_transaction_defaults and its requests. *)
Prepare(op, keys) ==
    /\ pc = "idle"
    /\ IF TxCheck(keys) # "ok"
       THEN Say(op, TxCheck(keys))
       ELSE Say(op, "ok") \/ Say(op, "transport")
    /\ UNCHANGED <<ccip, packed, pc, fn, durin, lookups, wvars>>

(* wait_for_transaction_receipt starts: the first receipt request is sent;
   the transaction may already be in a block. *)
WaitStart ==
    /\ pc = "idle"
    /\ pc' = "wRpc" /\ clock' = 0 /\ since' = 0 /\ available' \in BOOLEAN
    /\ Say("wait", "pending")
    /\ UNCHANGED <<ccip, packed, fn, durin, lookups>>

(* The chain includes the transaction while the client waits. *)
Mine ==
    /\ pc \in {"wRpc", "wSleep"} /\ ~available
    /\ available' = TRUE
    /\ UNCHANGED <<ccip, packed, pc, fn, durin, lookups, clock, since, outcome>>

(* bub_getTransactionReceipt answers: the receipt ends the loop, None or
   TransactionNotFound leads to a sleep of poll_latency. *)
ReceiptAnswered ==
    /\ pc = "wRpc"
    /\ IF available
       THEN pc' = "idle" /\ Say("wait", "receipt") /\ UNCHANGED since
       ELSE pc' = "wSleep" /\ since' = clock /\ UNCHANGED outcome
    /\ UNCHANGED <<ccip, packed, fn, durin, lookups, clock, available>>

(* The receipt request raises another error: it leaves the loop. *)
ReceiptRpcFails ==
    /\ pc = "wRpc"
    /\ pc' = "idle" /\ Say("wait", "transport")
    /\ UNCHANGED <<ccip, packed, fn, durin, lookups, wvars>>

(* The sleep ends.  The sync Timeout is checked when its sleep returns;
   the async loop simply polls again. *)
Wake ==
    /\ pc = "wSleep" /\ clock >= since + PollLatency
    /\ IF Mode = "sync" /\ clock > WaitTimeout
       THEN pc' = "idle" /\ Say("wait", "TimeExhausted") /\ UNCHANGED since
       ELSE pc' = "wRpc" /\ since' = clock /\ UNCHANGED outcome
    /\ UNCHANGED <<ccip, packed, fn, durin, lookups, clock, available>>

\* Mutant: TimeExhausted is raised but the polling task is not cancelled.
ExpireNoCancel ==
    /\ Mode = "async" /\ pc \in {"wRpc", "wSleep"} /\ clock >= WaitTimeout
    /\ Say("wait", "TimeExhausted")
    /\ UNCHANGED <<ccip, packed, pc, fn, durin, lookups, wvars>>

(* asyncio.wait_for cancels the polling task at the deadline, whatever it
   awaits, and TimeExhausted is raised. *)
Expire ==
    /\ Mode = "async" /\ pc \in {"wRpc", "wSleep"} /\ clock >= WaitTimeout
    /\ pc' = "idle" /\ Say("wait", "TimeExhausted")
    /\ UNCHANGED <<ccip, packed, fn, durin, lookups, wvars>>

(* Time passes during a sleep, or while a request is unanswered.  In async
   mode nothing of the loop runs past the deadline. *)
Tick ==
    /\ \/ pc = "wSleep" /\ clock < since + PollLatency
       \/ pc = "wRpc" /\ clock < since + MaxRpcTime
    /\ Mode = "async" => clock < WaitTimeout
    /\ clock' = clock + 1
    /\ UNCHANGED <<ccip, packed, pc, fn, durin, lookups, since, available, outcome>>

(* process_receipt on the receipt the wait returned. *)
DecodeEvent(f, lg) ==
    /\ pc = "idle" /\ outcome = [op |-> "wait", kind |-> "receipt"]
    /\ Say("event", FormatEvent(f, lg))
    /\ packed' = IF FormatEvent(f, lg) = "dict" THEN PackedArgs(f, lg) ELSE packed
    /\ UNCHANGED <<ccip, pc, fn, durin, lookups, wvars>>

-----------------------------------------------------------------------------
Init ==
    /\ ccip \in BOOLEAN
    /\ pc = "idle" /\ fn = (CHOOSE f \in Fids : TRUE) /\ durin = FALSE /\ lookups = 0
    /\ clock = 0 /\ since = 0 /\ available = FALSE
    /\ outcome = [op |-> "none", kind |-> "none"]
    /\ packed = [code |-> 0, fields |-> 0, args |-> 0, keys |-> 0]

Next ==
    \/ \E f \in Fids, keys \in TxKeys : Call(f, keys)
    \/ \E flag \in CcipFlags : ContractCall(flag)
    \/ \E r \in RawResults : CallAnswered(r)
    \/ CallReverts \/ CallFails
    \/ \E op \in {"estimateGas", "buildTransaction"}, keys \in TxKeys : Prepare(op, keys)
    \/ WaitStart \/ Mine \/ ReceiptAnswered \/ ReceiptRpcFails \/ Wake \/ Expire \/ Tick
    \/ \E f \in Fids, lg \in Logs : DecodeEvent(f, lg)

Spec == Init /\ [][Next]_vars

(***************************************************************************)
(* Fairness: a request that was sent returns or raises (the provider's     *)
(* HTTP request has its own timeout, MaxRpcTime here), a sleep returns     *)
(* once its time has passed, time passes, and the event loop runs the      *)
(* wait_for timeout callback at the deadline.  Nothing forces the caller   *)
(* to start an operation or the chain to include the transaction.          *)
(***************************************************************************)
Fairness ==
    /\ WF_vars(\E r \in RawResults : CallAnswered(r) \/ CallReverts \/ CallFails)
    /\ WF_vars(ReceiptAnswered \/ ReceiptRpcFails)
    /\ WF_vars(Wake) /\ WF_vars(Tick) /\ WF_vars(Expire)

FairSpec == Spec /\ Fairness

-----------------------------------------------------------------------------
Kinds == {"none", "pending", "ok", "transport", "ValueError", "OffchainLookup",
          "gatewayError", "TooManyRequests", "JSONDecodeError", "raw", "rets",
          "formatted", "decoded", "receipt", "TimeExhausted", "IndexError", "dict", "array"}

TypeOK ==
    /\ ccip \in BOOLEAN /\ durin \in BOOLEAN /\ available \in BOOLEAN
    /\ pc \in {"idle", "call", "wRpc", "wSleep"}
    /\ fn \in Fids \cup {AbiFn}
    /\ lookups \in 0 .. MaxRedirects
    /\ clock \in Nat /\ since \in 0 .. clock
    /\ outcome \in [op : {"none", "call", "estimateGas", "buildTransaction", "wait", "event"},
                    kind : Kinds]
    /\ packed \in [code : {0, 7}, fields : Nat, args : Nat, keys : Nat]

(***************************************************************************)
(* Spec 5 and 7: a wait with a timeout raises TimeExhausted only once the  *)
(* deadline the caller gave has passed; wait_for_transaction_receipt      *)
(* never gives up on a transaction before `timeout` seconds.               *)
(***************************************************************************)
NeverExhaustedEarly ==
    outcome = [op |-> "wait", kind |-> "TimeExhausted"] => clock >= Timeout

(***************************************************************************)
(* The CCIP-read loop follows up to ccip_read_max_redirects lookups: a     *)
(* call fails with TooManyRequests only after exactly that many lookups    *)
(* were answered by the gateway and followed.                              *)
(***************************************************************************)
DurinWithinBudget ==
    outcome = [op |-> "call", kind |-> "TooManyRequests"] => lookups = MaxRedirects

(***************************************************************************)
(* Spec 5: a bounded wait that expires raises TimeExhausted and releases   *)
(* its polling; a call returns its answer or raises.  Every operation in   *)
(* flight, a bub_call with its CCIP-read loop or a receipt wait with its   *)
(* poll loop, eventually returns control to the caller.                   *)
(***************************************************************************)
OperationsReturn == pc # "idle" ~> pc = "idle"

(***************************************************************************)
(* Spec 7: a shape mismatch between an event formatter and the decoded     *)
(* data is a fatal decode error, with no partial decoding.  So the event  *)
(* of a successful inner-contract transaction (status code 0) that         *)
(* carries data and that process_receipt decodes to a dict has one         *)
(* argument for each key of its formatter: none dropped, none missing.     *)
(* An event with nothing after its code (what a failed transaction emits)  *)
(* decodes to data {}, which is not a mismatch, and is left aside.         *)
(***************************************************************************)
EventDecodedWhole ==
    outcome = [op |-> "event", kind |-> "dict"] /\ packed.code = 0 /\ packed.args > 0
        => packed.fields = packed.keys /\ packed.args = packed.keys

=============================================================================
