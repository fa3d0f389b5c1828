------------------------- MODULE MCInnerContractCall -------------------------
(***************************************************************************)
(* Function ids for checking InnerContractCall: one of each kind of entry  *)
(* the formatter tables of inner_contract/formatters.py give a function.   *)
(***************************************************************************)
EXTENDS InnerContractCall

CONSTANTS
    GetCandidateInfo,   \* staking_getCandidateInfo: a result formatter, no event formatter
    GetAvgBlockTime,    \* staking_getAvgBlockTime: no formatter at all
    RedeemDelegate,     \* delegate_redeemDelegate: a dict event formatter of 2 keys
    WithdrawReward      \* reward_withdrawDelegateReward: an array event formatter

MCFids == {GetCandidateInfo, GetAvgBlockTime, RedeemDelegate, WithdrawReward}

MCResultFormatted == {GetCandidateInfo}

MCEventShape ==
    [f \in MCFids |->
        CASE f = RedeemDelegate -> "dict"
          [] f = WithdrawReward   -> "array"
          [] OTHER                -> "none"]

\* REDEEM_DELEGATE_EVENT_FORMATTER: released, restrictingPlan.
MCEventKeys == [f \in MCFids |-> IF f = RedeemDelegate THEN 2 ELSE 0]

=============================================================================
