---------------------------- MODULE MCVennGuard ----------------------------
(***************************************************************************)
(* Small instances of VennGuard for TLC.                                   *)
(***************************************************************************)
EXTENDS VennGuard

CONSTANTS pay, swap

\* A multisend, and a call that only an announcement allows.
WithPlainCall == {[wellFormed |-> TRUE, batch |-> pay], [wellFormed |-> FALSE, batch |-> swap]}
=============================================================================
