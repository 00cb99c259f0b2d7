------------------------------ MODULE Subnets ------------------------------
(***************************************************************************)
(* Which tasks a policy accepts: ProtocolRegistry keeps the subnets a      *)
(* policy is subscribed to and the operators that must have attested, and  *)
(* VennAvsLogic compares them with those that did, through ArrayHelpers.   *)
(*                                                                         *)
(* The attestation center (external) activates operators, restricts the    *)
(* operators of subnets and reports attesters, in any order of the ids.    *)
(* Metadata is left out, so updateProtocol changes nothing.                *)
(***************************************************************************)
EXTENDS Naturals, Sequences, FiniteSets, Functions

CONSTANTS
  Policies,
  TaskDefinitions,    \* valid task definition ids; 0 needs no restriction
  Operators,          \* operator ids
  MaxAttesters        \* bound: attesters of a task, operators of a subnet

ASSUME SubnetsAssumption ==
  /\ TaskDefinitions \subseteq Nat
  /\ Operators \subseteq Nat \ {0}       \* ids start at 1
  /\ MaxAttesters \in Nat

VARIABLES
  protocols,       \* registered policies
  subnets,         \* protocolTaskDefinitionIds
  required,        \* protocolTaskDefinitionOperatorIds
  active,          \* external: IOBLS.isActive
  restricted       \* external: getTaskDefinitionRestrictedOperators

vars == <<protocols, subnets, required, active, restricted>>

Arrays == UNION {[1 .. n -> Operators] : n \in 0 .. MaxAttesters}

\* Ids are never reported twice.
IdArrays == {a \in Arrays : IsInjective(a)}

Ascending(a) == \A i, j \in DOMAIN a : i < j => a[i] < a[j]
AscendingArrays == {a \in IdArrays : Ascending(a)}

Init ==
  /\ protocols = {}
  /\ subnets = [p \in Policies |-> {}]
  /\ required = [p \in Policies |-> [s \in TaskDefinitions |-> <<>>]]
  /\ active \in SUBSET Operators
  /\ restricted = [s \in TaskDefinitions |-> <<>>]

-----------------------------------------------------------------------------
(* ArrayHelpers *)

\* Deviation: equal neighbours are accepted.
isSortedAndUnique_Equal(arr) == \A i \in 1 .. Len(arr) - 1 : arr[i] <= arr[i + 1]
isSortedAndUnique(arr) == \A i \in 1 .. Len(arr) - 1 : arr[i] < arr[i + 1]

\* Deviation: the end of the second array ends the search successfully.
verifyArraySubset_EndsEarly(arr1, arr2) ==
  LET scan[at \in (1 .. Len(arr1) + 1) \X (1 .. Len(arr2) + 1)] ==
        LET i == at[1]
            j == at[2]
        IN  IF i > Len(arr1) \/ j > Len(arr2) THEN 0
            ELSE IF arr1[i] = arr2[j] THEN scan[<<i + 1, j + 1>>]
            ELSE IF arr1[i] > arr2[j] THEN scan[<<i, j + 1>>]
            ELSE arr1[i]
  IN  scan[<<1, 1>>]

\* One pass over both arrays: 0, or the id of arr1 at which it stops.
verifyArraySubset(arr1, arr2) ==
  LET scan[at \in (1 .. Len(arr1) + 1) \X (1 .. Len(arr2) + 1)] ==
        LET i == at[1]
            j == at[2]
        IN  IF i > Len(arr1) THEN 0
            ELSE IF j > Len(arr2) THEN arr1[i]
            ELSE IF arr1[i] = arr2[j] THEN scan[<<i + 1, j + 1>>]
            ELSE IF arr1[i] > arr2[j] THEN scan[<<i, j + 1>>]
            ELSE arr1[i]
  IN  scan[<<1, 1>>]

-----------------------------------------------------------------------------
(* ProtocolRegistry; the caller is an admin of the policy *)

RegisterProtocol(p) ==
  /\ p \notin protocols
  /\ protocols' = protocols \cup {p}
  /\ UNCHANGED <<subnets, required, active, restricted>>

\* _verifyVetoOperators
VetoOperatorsOK(ids, s) ==
  ids # <<>> =>
    /\ isSortedAndUnique(ids)
    /\ Range(ids) \subseteq active
    /\ s > 0 => verifyArraySubset(ids, restricted[s]) = 0

SubscribeSubnet(p, s, ids) ==
  /\ p \in protocols
  /\ VetoOperatorsOK(ids, s)
  /\ subnets' = [subnets EXCEPT ![p] = @ \cup {s}]
  /\ required' = [required EXCEPT ![p][s] = ids]
  /\ UNCHANGED <<protocols, active, restricted>>

UnsubscribeSubnet(p, s) ==
  /\ p \in protocols /\ s \in subnets[p]
  /\ subnets' = [subnets EXCEPT ![p] = @ \ {s}]
  /\ required' = [required EXCEPT ![p][s] = <<>>]
  /\ UNCHANGED <<protocols, active, restricted>>

-----------------------------------------------------------------------------
(* Attestation center *)

SetActive(a) ==
  /\ active' = a
  /\ UNCHANGED <<protocols, subnets, required, restricted>>

RestrictOperators(s, ids) ==
  /\ restricted' = [restricted EXCEPT ![s] = ids]
  /\ UNCHANGED <<protocols, subnets, required, active>>

\* VennAvsLogic.beforeTaskSubmission, before the fee is claimed: both getters
\* revert for a policy that is not registered.
TaskAccepted(p, s, attesters) ==
  /\ p \in protocols
  /\ s \in subnets[p]
  /\ required[p][s] # <<>> => verifyArraySubset(required[p][s], attesters) = 0

-----------------------------------------------------------------------------
Registry ==
  \E p \in Policies :
    \/ RegisterProtocol(p)
    \/ \E s \in TaskDefinitions :
         \/ UnsubscribeSubnet(p, s)
         \/ \E ids \in Arrays : SubscribeSubnet(p, s, ids)

Center ==
  \/ \E a \in SUBSET Operators : SetActive(a)
  \/ \E s \in TaskDefinitions, ids \in IdArrays : RestrictOperators(s, ids)

Next == Registry \/ Center

Spec == Init /\ [][Next]_vars

-----------------------------------------------------------------------------
(* Properties *)

\* Types: the required operators of a subnet always ascend strictly.
TypeOK ==
  /\ protocols \subseteq Policies
  /\ subnets \in [Policies -> SUBSET TaskDefinitions]
  /\ required \in [Policies -> [TaskDefinitions -> AscendingArrays]]
  /\ active \subseteq Operators
  /\ restricted \in [TaskDefinitions -> IdArrays]

\* Operators are only required where the policy is subscribed, and each once:
\* a later subscription starts from the operators it names.
RequiredWhereSubscribed ==
  \A p \in Policies, s \in TaskDefinitions :
    required[p][s] # <<>> => p \in protocols /\ s \in subnets[p]

\* The veto: whatever a policy's admin subscribed and unsubscribed before, a
\* task that is accepted was attested by every operator the policy requires,
\* in whatever order the attestation center reports the attesters;
\* and the policy requires only what it is still subscribed to.
RequiredHaveAttested ==
  /\ TypeOK /\ RequiredWhereSubscribed
  /\ \A p \in Policies, s \in TaskDefinitions, attesters \in IdArrays :
       TaskAccepted(p, s, attesters) => Range(required[p][s]) \subseteq Range(attesters)

\* A task of a subscribed subnet that all required operators attested is not
\* refused if the attesters are reported in ascending order.
AttestedAreAccepted ==
  \A p \in protocols : \A s \in subnets[p], attesters \in AscendingArrays :
    Range(required[p][s]) \subseteq Range(attesters) => TaskAccepted(p, s, attesters)
=============================================================================
