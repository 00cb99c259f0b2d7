---------------------------- MODULE MCDeployment ----------------------------
(***************************************************************************)
(* A small instance of Deployment for TLC.                                 *)
(***************************************************************************)
EXTENDS Deployment

\* A migration alone, or one and all that follow it in its namespace.
OnlyOrFrom ==
  { <<m, m>> : m \in Migrations } \cup
  { <<m, LastOfNamespace(m)>> : m \in Migrations }
=============================================================================
