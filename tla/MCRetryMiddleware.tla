------------------------- MODULE MCRetryMiddleware -------------------------
(***************************************************************************)
(* Methods for checking RetryMiddleware: one of each kind of entry the     *)
(* allow-list has (a namespace, a full name) and methods it leaves out.    *)
(***************************************************************************)
EXTENDS RetryMiddleware

GetBalance      == <<"bub", "getBalance">>          \* listed by full name
AddPeer         == <<"admin", "addPeer">>           \* listed by namespace
SendTransaction == <<"bub", "sendTransaction">>     \* not listed
NewAccount      == <<"personal", "newAccount">>     \* listed, creates an account
SendRawTx       == <<"bub", "sendRawTransaction">>  \* listed, submits a transaction

MCMethods == {GetBalance, AddPeer, SendTransaction, NewAccount, SendRawTx}

MCEffect ==
    [m \in MCMethods |->
        CASE m = SendTransaction -> "create"
          [] m = NewAccount      -> "create"
          [] m = SendRawTx       -> "submit"
          [] OTHER               -> "read"]

=============================================================================
