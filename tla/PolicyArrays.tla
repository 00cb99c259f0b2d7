---------------------------- MODULE PolicyArrays ----------------------------
(***************************************************************************)
(* The policy arrays of Firewall.sol.  A consumer keeps one array of       *)
(* policies per method and one global array; both are written by the same  *)
(* three helpers, which are pure operators here.                           *)
(***************************************************************************)
EXTENDS Naturals, Sequences

\* _verifyPolicyNotExists does not revert.
PolicyNotExists(policies, policy) ==
  \A i \in DOMAIN policies : policies[i] # policy

\* _removePolicyFromArray does not revert.
PolicyFound(policies, policy) ==
  \E i \in DOMAIN policies : policies[i] = policy

\* The index at which the loop of _removePolicyFromArray stops.
FirstIndex(policies, policy) ==
  CHOOSE i \in DOMAIN policies :
    /\ policies[i] = policy
    /\ \A j \in 1 .. i - 1 : policies[j] # policy

\* Deviation: the array is not popped.
SwapRemove_NotPopped(policies, policy) ==
  [i \in 1 .. Len(policies) |->
     IF i = FirstIndex(policies, policy) THEN policies[Len(policies)]
                                         ELSE policies[i]]

\* The removed element is overwritten by the last one, then the array is
\* popped: removal does not keep the order of the policies.
SwapRemove(policies, policy) ==
  [i \in 1 .. Len(policies) - 1 |->
     IF i = FirstIndex(policies, policy) THEN policies[Len(policies)]
                                         ELSE policies[i]]

Subscribed(policies) == {policies[i] : i \in DOMAIN policies}
=============================================================================
