----------------------------- MODULE MCTaskFees -----------------------------
(***************************************************************************)
(* Small instances of TaskFees for TLC.                                    *)
(***************************************************************************)
EXTENDS TaskFees, TLC

CONSTANTS dex, vault, blue, treasury, dao

Fresh(fee, share) ==
  [wallets |-> Ether, proxy |-> 0, pool |-> 0, collected |-> 0, rescued |-> 0,
   balance |-> [p \in Policies |-> 0],
   totalFee |-> [s \in Subnets |-> fee],
   shares |-> [s \in Subnets |-> [r \in Recipients |-> share]],
   distributed |-> [r \in Recipients |-> 0],
   operatorFees |-> [s \in Subnets |-> 0],
   withdrawn |-> 0, handedOn |-> 0]

\* A task costs 1, and each recipient has a quarter of it, rounded down.
Configured == Fresh(1, 1)

\* ... or nothing is configured yet.
ConfiguredOrNot == {Configured, Fresh(0, 0)}

(* The calls nest, for two policies and in batches, while the fees are as  *)
(* configured; fees and shares change between single tasks of one policy.  *)
FeesAsConfigured ==
  world.totalFee = Configured.totalFee /\ world.shares = Configured.shares

SingleTask == {<<[policy |-> dex, subnet |-> s]>> : s \in Subnets}

SingleTasks ==
  /\ Len(frames) <= 1 /\ world.balance[vault] = 0
  /\ \A i \in DOMAIN frames : frames[i].tasks = <<>> \/ frames[i].tasks \in SingleTask

Scope == FeesAsConfigured' \/ SingleTasks'
=============================================================================
