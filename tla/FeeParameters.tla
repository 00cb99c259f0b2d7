--------------------------- MODULE FeeParameters ---------------------------
(***************************************************************************)
(* What TaskFees and OperatorFees, the two halves of VennFeeCalculator,    *)
(* have in common.                                                         *)
(***************************************************************************)
EXTENDS Sums, Constants

CONSTANT Subnets        \* task definition ids
=============================================================================
