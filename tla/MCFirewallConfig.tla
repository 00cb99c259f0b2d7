-------------------------- MODULE MCFirewallConfig --------------------------
(***************************************************************************)
(* Small instances of FirewallConfig for TLC.                              *)
(***************************************************************************)
EXTENDS FirewallConfig, FiniteSets, Functions, TLC

CONSTANTS vault, bank, alice, bob, p1, p2, m1

\* alice administers everything, the bank belongs to bob, or it was constructed
\* without an admin.
AliceForAll == vault :> alice @@ bank :> alice
SomeAdmins == {AliceForAll, vault :> alice @@ bank :> bob, vault :> alice @@ bank :> NoOne}
BobOwnsProxies == [c \in Consumers |-> bob]
SomeOwners == {BobOwnsProxies}
PolicySymmetry == Permutations(Policies)

(* Two policies are in use only while alice administers everything, nobody *)
(* else acts and the bank has one entry: what a policy is called does not  *)
(* matter to who may configure it, nor one consumer's list to another's.   *)
InUse ==
  approvedPolicies
    \cup UNION {Range(subscribedGlobalPolicies[c]) : c \in Consumers}
    \cup UNION {Range(subscribedPolicies[c][m]) : c \in Consumers, m \in Methods}
    \cup (IF Idle THEN {} ELSE {call.items[i].policy : i \in DOMAIN call.items})

AliceAlone ==
  /\ firewallAdmin = AliceForAll
  /\ newFirewallAdmin = [c \in Consumers |-> NoOne]
  /\ msgSender # bob

\* Only the bank's proxy changes hands, and the vault and the lists of policies
\* stay as they are from then on.
HandedOver ==
  /\ hasOwned[vault] = {bob}
  /\ firewallAdmin[vault] = alice /\ newFirewallAdmin[vault] = NoOne
  /\ ~dryrunEnabled[vault] /\ InUse = {} /\ Idle

Scope ==
  IF hasOwned = [c \in Consumers |-> {bob}]
  THEN \/ Cardinality(InUse) <= 1
       \/ AliceAlone /\ Len(subscribedGlobalPolicies[bank]) + Len(subscribedPolicies[bank][m1]) <= 1
  ELSE HandedOver
=============================================================================
