-------------------------------- MODULE Sums --------------------------------
(***************************************************************************)
(* The sum of the values a function has on a set: balances of accounts,    *)
(* shares of recipients, amounts that frames of a call stack still owe.    *)
(***************************************************************************)
EXTENDS Naturals, FiniteSetsExt

SumOver(f, S) == MapThenSumSet(LAMBDA x : f[x], S)
=============================================================================
