------------------------ MODULE MCRefundDistribution ------------------------
(***************************************************************************)
(* Two items on three lines: the first is shared by two people, the second *)
(* has one owner, who also holds a line of the first.                      *)
(***************************************************************************)
EXTENDS RefundDistribution, TLC

CONSTANTS apples, bread

MCItemOf == <<apples, apples, bread>>
MCKeyOf == <<2, 1, 2>>
MCGrossOf == apples :> 3 @@ bread :> 2
MCUnitSplits == {<<1, 1, 1>>, <<2, 1, 1>>}
MCWeights == {<<0, 1, 1>>, <<1, 0, 0>>}
AnyRefund == Permutations(Refunds)
=============================================================================
