----------------------------- MODULE MCTemplate -----------------------------
(***************************************************************************)
(* Four transactions, one of them heavy, and blocks whose miner            *)
(* transaction alone nearly fills the median weight, so that picking them  *)
(* all costs a part of the base reward.                                    *)
(***************************************************************************)
EXTENDS TemplateContents, TLC

CONSTANTS t1, t2, t3, t4, e0, e1

MCFee(t) == (t1 :> 4 @@ t2 :> 3 @@ t3 :> 6 @@ t4 :> 1)[t]
MCWeight(t) == (t1 :> 2 @@ t2 :> 4 @@ t3 :> 5 @@ t4 :> 3)[t]

MCExtraNonces == {e0, e1}

\* Medians that the miner transaction alone does not exceed
MCInputs ==
    [generated : {0}, median : {22, 25}, weights : {<<1, 1>>, <<5, 1>>}] \cup
    [generated : {478, 500, 545}, median : {16, 18}, weights : {<<1, 1>>, <<3, 1>>}] \cup
    [generated : {500, 533}, median : {21, 24}, weights : {<<2, 1, 4>>}]

=============================================================================
