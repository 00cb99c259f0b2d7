--------------------------- MODULE MCOperatorFees ---------------------------
(***************************************************************************)
(* Small instances of OperatorFees for TLC.                                *)
(***************************************************************************)
EXTENDS OperatorFees, TLC

CONSTANTS ann, ben

TwoIds == ann :> 1 @@ ben :> 2
=============================================================================
