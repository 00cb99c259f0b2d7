---------------------------- MODULE OperatorFees ----------------------------
(***************************************************************************)
(* How the operators of a subnet share what VennFeeCalculator keeps for    *)
(* them: OperatorRegistry (who is registered under which id, who gives a   *)
(* share of an attester's reward to whom) and calculateFeesPerId.          *)
(*                                                                         *)
(* Every operation is one transaction: none calls unknown code.  The admin *)
(* of both contracts is trusted to act at any time, in any order.          *)
(*                                                                         *)
(* No name is one of TaskFees: the theorems are about both modules.        *)
(***************************************************************************)
EXTENDS Naturals, Sequences, FeeParameters

CONSTANTS
  Accounts,        \* addresses of operators
  IdOf,            \* the id the attestation center gives an account
  Limits,          \* values of maxSubscribedOperatorsCount
  OperatorShares,  \* shares that are set
  MaxItems,        \* bound: entries of one subscribeOperators call
  FeesLeft,        \* what distributeFee may leave for the operators
  MaxFees          \* bound: fees waiting for the operators of a subnet

VARIABLES
  joined,          \* accounts the attestation center knows
  operators,       \* OperatorRegistry.operators; a function on those registered
  maxSubscribedOperatorsCount,
  subscribedOperators,   \* share that an id gives to an id, 0 if none
  typeShares,      \* VennFeeCalculator.taskDefinitionIdOperatorFees
  operatorFees     \* VennFeeCalculator.operatorFees

operatorVars ==
  <<joined, operators, maxSubscribedOperatorsCount, subscribedOperators, typeShares, operatorFees>>

Ids == {0} \cup {IdOf[a] : a \in Accounts}
OperatorTypes == {"attester", "aggregator", "performer"}

ASSUME OperatorAssumption ==
  /\ IsFiniteSet(Accounts) /\ IdOf \in [Accounts -> Nat \ {0}]
  /\ \A a, b \in Accounts : IdOf[a] = IdOf[b] => a = b
  /\ FeeScale \in Nat \ {0}
  /\ Limits \subseteq Nat /\ OperatorShares \subseteq Nat /\ FeesLeft \subseteq Nat
  /\ MaxItems \in Nat /\ MaxFees \in Nat

OperatorInit ==
  /\ joined = {}
  /\ operators = <<>>
  /\ maxSubscribedOperatorsCount \in Limits
  /\ subscribedOperators = [s \in Subnets |-> [i \in Ids |-> [j \in Ids |-> 0]]]
  /\ typeShares = [s \in Subnets |-> [t \in OperatorTypes |-> 0]]
  /\ operatorFees = [s \in Subnets |-> 0]

-----------------------------------------------------------------------------
(* OperatorRegistry *)

isOperatorRegistered(a) == a \in DOMAIN operators

\* AttestationCenter.operatorsIdsByAddress
OperatorsIdsByAddress(a) == IF a \in joined THEN IdOf[a] ELSE 0

\* An operator registers with the attestation center.
JoinCenter(a) ==
  /\ joined' = joined \cup {a}
  /\ UNCHANGED <<operators, maxSubscribedOperatorsCount, subscribedOperators,
                 typeShares, operatorFees>>

\* The id is read once: an account the center does not know yet keeps 0.
RegisterOperator(a) ==
  /\ ~isOperatorRegistered(a)
  /\ operators' = [b \in DOMAIN operators \cup {a} |->
                     IF b = a THEN OperatorsIdsByAddress(a) ELSE operators[b]]
  /\ UNCHANGED <<joined, maxSubscribedOperatorsCount, subscribedOperators,
                 typeShares, operatorFees>>

\* Subscriptions of the account and to the account stay.
UnregisterOperator(a) ==
  /\ isOperatorRegistered(a)
  /\ operators' = [b \in DOMAIN operators \ {a} |-> operators[b]]
  /\ UNCHANGED <<joined, maxSubscribedOperatorsCount, subscribedOperators,
                 typeShares, operatorFees>>

\* The id of an account in the registry: that of an empty record is 0.
IdIn(a) == IF isOperatorRegistered(a) THEN operators[a] ELSE 0

\* The entries are applied in order; a later one overrides an earlier one.
EntriesFor(j, items) == {n \in DOMAIN items : IdIn(items[n].account) = j}
Applied(subs, items) ==
  [j \in Ids |-> IF EntriesFor(j, items) = {} THEN subs[j]
                 ELSE items[Max(EntriesFor(j, items))].share]

Subscribed(subs) == {j \in DOMAIN subs : subs[j] # 0}

SubscriptionsOK(id, subs, items) ==
  /\ id \notin Subscribed(subs)
  /\ Cardinality(Subscribed(subs)) <= maxSubscribedOperatorsCount
  /\ SumOver(subs, Ids) < FeeScale

SubscribeOperators(a, s, items) ==
  LET id == operators[a]
      subs == Applied(subscribedOperators[s][id], items)
  IN  /\ isOperatorRegistered(a)
      /\ \A i \in DOMAIN items : items[i].share # 0 => isOperatorRegistered(items[i].account)
      /\ SubscriptionsOK(id, subs, items)
      /\ subscribedOperators' = [subscribedOperators EXCEPT ![s][id] = subs]
      /\ UNCHANGED <<joined, operators, maxSubscribedOperatorsCount, typeShares, operatorFees>>

SetMaxSubscribedOperatorsCount(n) ==
  /\ maxSubscribedOperatorsCount' = n
  /\ UNCHANGED <<joined, operators, subscribedOperators, typeShares, operatorFees>>

-----------------------------------------------------------------------------
(* VennFeeCalculator *)

\* Deviation: only the shares given in this call are added up.
TypeSharesOK_GivenOnly(all, given) == SumOver(given, DOMAIN given) = FeeScale
TypeSharesOK(all, given) == SumOver(all, OperatorTypes) = FeeScale

SetTaskDefinitionIdOperatorFees(s, given) ==
  LET all == [t \in OperatorTypes |->
                IF t \in DOMAIN given THEN given[t] ELSE typeShares[s][t]]
  IN  /\ TypeSharesOK(all, given)
      /\ typeShares' = [typeShares EXCEPT ![s] = all]
      /\ UNCHANGED <<joined, operators, maxSubscribedOperatorsCount,
                     subscribedOperators, operatorFees>>

\* distributeFee leaves v for the operators of the subnet (TaskFees).
DistributeFee(s, v) ==
  /\ operatorFees[s] + v <= MaxFees
  /\ operatorFees' = [operatorFees EXCEPT ![s] = @ + v]
  /\ UNCHANGED <<joined, operators, maxSubscribedOperatorsCount,
                 subscribedOperators, typeShares>>

\* What the calculator keeps for the operators is reset before it is split;
\* the amounts below are those the attestation center is told.
SplitOperatorFees(s) ==
  /\ operatorFees' = [operatorFees EXCEPT ![s] = 0]
  /\ UNCHANGED <<joined, operators, maxSubscribedOperatorsCount,
                 subscribedOperators, typeShares>>

TypeFee(s, t) == (operatorFees[s] * typeShares[s][t]) \div FeeScale
RewardsPerAttester(s, attesters) == TypeFee(s, "attester") \div Cardinality(attesters)
SubscribedFee(s, attesters, i, j) ==
  (RewardsPerAttester(s, attesters) * subscribedOperators[s][i][j]) \div FeeScale

\* Every subscribed operator of attester i.
DistributedOperatorFee(s, attesters, i) ==
  SumOver([j \in Ids |-> SubscribedFee(s, attesters, i, j)], Ids)

AttesterFee(s, attesters, i) ==
  RewardsPerAttester(s, attesters) - DistributedOperatorFee(s, attesters, i)

\* The sum of feesPerId; without attesters all goes to the performer.
TotalFeesPerId(s, attesters) ==
  IF attesters = {} THEN operatorFees[s]
  ELSE TypeFee(s, "aggregator") + TypeFee(s, "performer")
       + SumOver([i \in attesters |-> DistributedOperatorFee(s, attesters, i)
                                        + AttesterFee(s, attesters, i)], attesters)

-----------------------------------------------------------------------------
Items == [account : Accounts, share : OperatorShares]

OperatorRegistry ==
  \/ \E a \in Accounts :
       \/ JoinCenter(a) \/ RegisterOperator(a) \/ UnregisterOperator(a)
       \/ \E s \in Subnets, n \in 0 .. MaxItems : \E items \in [1 .. n -> Items] :
            SubscribeOperators(a, s, items)
  \/ \E n \in Limits : SetMaxSubscribedOperatorsCount(n)

OperatorCalculator ==
  \E s \in Subnets :
    \/ \E T \in SUBSET OperatorTypes : \E given \in [T -> OperatorShares] :
         SetTaskDefinitionIdOperatorFees(s, given)
    \/ \E v \in FeesLeft : DistributeFee(s, v)
    \/ SplitOperatorFees(s)

OperatorNext == OperatorRegistry \/ OperatorCalculator

OperatorSpec == OperatorInit /\ [][OperatorNext]_operatorVars

-----------------------------------------------------------------------------
(* Properties *)

\* Types: every share given away is less than the whole.
OperatorTypeOK ==
  /\ joined \subseteq Accounts
  /\ DOMAIN operators \subseteq Accounts
  /\ \A a \in DOMAIN operators : operators[a] \in {0, IdOf[a]}
  /\ maxSubscribedOperatorsCount \in Limits
  /\ subscribedOperators \in [Subnets -> [Ids -> [Ids -> 0 .. FeeScale - 1]]]
  /\ typeShares \in [Subnets -> [OperatorTypes -> 0 .. FeeScale]]
  /\ operatorFees \in [Subnets -> 0 .. MaxFees]

\* The subtraction that leaves the attester its part never underflows, and the
\* attester keeps some of a reward, although its subscriptions were checked
\* against limits and registrations that have changed since.
AttesterKeepsPart ==
  \A s \in Subnets : \A attesters \in SUBSET Ids \ {{}} : \A i \in attesters :
    RewardsPerAttester(s, attesters) > 0 => AttesterFee(s, attesters, i) > 0

\* Whoever attested, and however the shares and subscriptions were changed
\* since, feesPerId hands out no more than the fees kept, and once the shares
\* of the subnet are configured loses at most one unit per attester and one
\* more to rounding (calculateFeesPerId multiplies, divides and divides again);
\* nor does it give an attester's whole part away.
SplitIsExact ==
  /\ OperatorTypeOK /\ AttesterKeepsPart
  /\ \A s \in Subnets : \A attesters \in SUBSET Ids :
       LET total == TotalFeesPerId(s, attesters) IN
         /\ total <= operatorFees[s]
         /\ SumOver(typeShares[s], OperatorTypes) = FeeScale =>
              operatorFees[s] <= total + Cardinality(attesters) + 1

\* "should not revert if try to unsubscribe unregistered operator"
\* (OperatorRegisrty.test.ts): the call of subscribeOperators with share 0 for
\* an operator, registered or not, leaves no subscription to it.
UnsubscribeTakesEffect ==
  \A a, b \in Accounts, s \in Subnets :
    isOperatorRegistered(a) =>
      Applied(subscribedOperators[s][operators[a]],
              <<[account |-> b, share |-> 0]>>)[IdOf[b]] = 0
=============================================================================
