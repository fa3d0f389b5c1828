-------------------------- MODULE RetryMiddleware --------------------------
(***************************************************************************)
(* exception_retry_middleware and check_if_retry_on_failure of             *)
(* src/bubble/middleware/exception_retry_request.py, between a caller and  *)
(* a node reached over HTTP.                                               *)
(*                                                                         *)
(* A method name "<namespace>_<action>" is the tuple of its "_"-separated  *)
(* parts, so method.split("_")[0] is <<Head(m)>>.  Each attempt is one     *)
(* make_request: the request may be lost before the node (ConnectionError),*)
(* reach the node and lose its answer (Timeout, HTTPError), or be          *)
(* answered.  The node is the environment: a read has no effect, a         *)
(* "create" method (personal_newAccount) makes a new object every time it  *)
(* runs, and a "submit" method (bub_sendRawTransaction) accepts a given    *)
(* raw transaction once and answers "already known" after that.           *)
(***************************************************************************)
EXTENDS Integers, Sequences

CONSTANTS
    Methods,    \* method names the caller uses, as tuples of name parts
    Effect,     \* Effect[m] \in {"read", "create", "submit"}: what the node does
    Retries     \* the `retries` argument (5 for http_retry_request_middleware)

ASSUME Retries \in Nat
ASSUME \A m \in Methods : Effect[m] \in {"read", "create", "submit"}

VARIABLES
    method,     \* method of the call in progress
    phase,      \* "idle" or "trying": the call is in the retry loop
    i,          \* loop index of the attempt in flight
    applied,    \* times the node has executed the current call's request
    outcome     \* what the last call gave its caller

vars == <<method, phase, i, applied, outcome>>

(***************************************************************************)
(* The module-level `whitelist`: namespaces and full method names.         *)
(***************************************************************************)
Whitelist ==
    {<<"admin">>, <<"miner">>, <<"net">>, <<"txpool">>, <<"testing">>, <<"evm">>}
    \cup {<<"bub", a>> : a \in {
            "protocolVersion", "syncing", "coinbase", "mining", "hashrate", "chainId",
            "gasPrice", "accounts", "blockNumber", "getBalance", "getStorageAt",
            "getProof", "getCode", "getBlockByNumber", "getBlockByHash",
            "getBlockTransactionCountByNumber", "getBlockTransactionCountByHash",
            "getUncleCountByBlockNumber", "getUncleCountByBlockHash",
            "getTransactionByHash", "getTransactionByBlockHashAndIndex",
            "getTransactionByBlockNumberAndIndex", "getTransactionReceipt",
            "getTransactionCount", "getRawTransactionByHash", "call", "estimateGas",
            "newBlockFilter", "newPendingTransactionFilter", "newFilter",
            "getFilterChanges", "getFilterLogs", "getLogs", "uninstallFilter",
            "getCompilers", "getWork", "sign", "signTypedData", "sendRawTransaction"}}
    \cup {<<"personal", a>> : a \in {
            "importRawKey", "newAccount", "listAccounts", "listWallets", "lockAccount",
            "unlockAccount", "ecRecover", "sign", "signTypedData"}}

\* Mutant: every method is treated as allow-listed.
CheckIfRetryOnFailureAll(m) == TRUE

\* Mutant: the `elif method in whitelist` branch is lost.
CheckIfRetryOnFailureNamespaceOnly(m) == <<Head(m)>> \in Whitelist

\* check_if_retry_on_failure: the namespace or the full name is listed.
CheckIfRetryOnFailure(m) == <<Head(m)>> \in Whitelist \/ m \in Whitelist

\* The node's answer to a request it executes for the k-th time (k >= 1).
NodeAnswer(m, k) == IF Effect[m] = "submit" /\ k > 1 THEN "rpcError" ELSE "ok"

\* Mutants: the loop bound off by one in either direction.
RetryAgainShort(m, idx) == CheckIfRetryOnFailure(m) /\ idx < Retries - 2
RetryAgainInclusive(m, idx) == CheckIfRetryOnFailure(m) /\ idx <= Retries

\* After a transport error in attempt i: another pass of the for loop
\* (`continue` while i < retries - 1), or `raise`.
RetryAgain(m, idx) == CheckIfRetryOnFailure(m) /\ idx < Retries - 1

-----------------------------------------------------------------------------
Init ==
    /\ method = <<>> /\ phase = "idle" /\ i = 0 /\ applied = 0
    /\ outcome = "none"

(* middleware(method, params) is entered.  With retries = 0 the for loop
   runs no pass and the middleware returns None. *)
Call ==
    /\ phase = "idle"
    /\ \E m \in Methods :
          /\ method' = m
          /\ IF CheckIfRetryOnFailure(m) /\ Retries = 0
             THEN phase' = "idle" /\ outcome' = "None"
             ELSE phase' = "trying" /\ outcome' = "pending"
    /\ i' = 0 /\ applied' = 0

(* make_request returns: the node executed the request and answered. *)
Answered ==
    /\ phase = "trying"
    /\ applied' = applied + 1
    /\ outcome' = NodeAnswer(method, applied + 1)
    /\ phase' = "idle"
    /\ UNCHANGED <<method, i>>

(* make_request raises one of `errors`; `reached` says whether the node
   executed the request before the answer was lost. *)
TransportError ==
    /\ phase = "trying"
    /\ \E reached \in BOOLEAN :
          applied' = IF reached THEN applied + 1 ELSE applied
    /\ IF RetryAgain(method, i)
       THEN i' = i + 1 /\ UNCHANGED <<phase, outcome>>
       ELSE phase' = "idle" /\ outcome' = "transportError" /\ UNCHANGED i
    /\ UNCHANGED method

Next == Call \/ Answered \/ TransportError

\* A request in flight is answered or fails: make_request returns.
Spec == Init /\ [][Next]_vars /\ WF_vars(Answered \/ TransportError)

-----------------------------------------------------------------------------
TypeOK ==
    /\ method \in Methods \cup {<<>>}
    /\ phase \in {"idle", "trying"}
    /\ i \in 0 .. Retries
    /\ applied \in 0 .. Retries + 1
    /\ outcome \in {"none", "pending", "ok", "rpcError", "transportError", "None"}

(***************************************************************************)
(* A transport error reaches the caller only after the retry budget is     *)
(* spent: `retries` attempts for an allow-listed method, one for any       *)
(* other.  Breaks with an off-by-one in `if i < retries - 1`.              *)
(***************************************************************************)
ErrorOnlyAfterExhaustion ==
    outcome = "transportError"
        => i + 1 = IF CheckIfRetryOnFailure(method) THEN Retries ELSE 1

(***************************************************************************)
(* A method missing from the allow-list is sent once per call: the node    *)
(* never executes it twice for one call (spec 4.2: non-allow-listed        *)
(* methods are never retried).                                             *)
(***************************************************************************)
NotAllowListedSentOnce ==
    method # <<>> /\ <<Head(method)>> \notin Whitelist /\ method \notin Whitelist
        => applied <= 1

(***************************************************************************)
(* Spec 4.2: the allow-list holds only read-only or idempotent methods, so *)
(* a method with an effect on the node (personal_newAccount creates an     *)
(* account, bub_sendRawTransaction submits a transaction) is executed at   *)
(* most once per call, whatever answers are lost on the way back.          *)
(***************************************************************************)
EffectAtMostOnce == method # <<>> /\ Effect[method] # "read" => applied <= 1

=============================================================================
