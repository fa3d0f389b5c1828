------------------------- MODULE MCRequestPipeline -------------------------
(***************************************************************************)
(* Methods for checking RequestPipeline: besides the filter's own RPCs,    *)
(* the caller uses a method listed by full name, one listed by namespace   *)
(* and one the allow-list leaves out.                                      *)
(***************************************************************************)
EXTENDS RequestPipeline

GetBalance      == <<"bub", "getBalance">>
AddPeer         == <<"admin", "addPeer">>
SendTransaction == <<"bub", "sendTransaction">>

MCMethods == {GetBalance, AddPeer, SendTransaction}

MCEffect == [m \in MCMethods |-> IF m = SendTransaction THEN "create" ELSE "read"]

MCFromArgs == {Latest, 0}
MCToArgs   == {Latest}

=============================================================================
