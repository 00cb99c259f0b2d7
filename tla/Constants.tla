----------------------------- MODULE Constants -----------------------------
(***************************************************************************)
(* The scale of every fee: VennFeeCalculator, OperatorRegistry and         *)
(* DetectionEscrow take theirs from Constants.sol.                         *)
(***************************************************************************)
CONSTANT FeeScale       \* FEE_SCALE, 100%
=============================================================================
