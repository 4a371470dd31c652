---------------------------- MODULE MCSubmitFlow ----------------------------
(* SubmitFlow for TLC.                                                     *)
EXTENDS SubmitFlow

CONSTANT MaxTxs   \* bound: the longest plan

(* Every plan of at most MaxTxs transactions.                              *)
AllPlans == UNION {[1..n -> Kinds] : n \in 0..MaxTxs}

(* What SolanaTokenBridge.redeem yields: perhaps the creation of the token *)
(* account, v signature verifications of which the last is not             *)
(* parallelizable, the posting of the VAA and the redemption.              *)
SolanaRedeemPlans ==
    {ata \o [i \in 1..v |-> IF i < v THEN "parallel" ELSE "ordered"]
         \o <<"ordered", "ordered">> :
        ata \in {<<>>, <<"ordered">>}, v \in 1..3}
=============================================================================
