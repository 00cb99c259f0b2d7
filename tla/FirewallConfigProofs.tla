------------------------ MODULE FirewallConfigProofs ------------------------
(***************************************************************************)
(* Type correctness, the safety properties and the refinement of           *)
(* FirewallConfig, for every number of consumers, policies and batches.    *)
(***************************************************************************)
EXTENDS FirewallConfig, SequenceTheorems, TLAPS

-----------------------------------------------------------------------------
(* The array helpers *)

\* Pushing a policy that is not in the array adds it to the set of policies.
LEMMA AppendArray ==
  ASSUME NEW S, NEW s \in Seq(S), NEW x \in S, Distinct(s), PolicyNotExists(s, x)
  PROVE  /\ Append(s, x) \in Seq(S)
         /\ Distinct(Append(s, x))
         /\ Subscribed(Append(s, x)) = Subscribed(s) \cup {x}
<1> DEFINE t == Append(s, x)
<1>1. /\ t \in Seq(S) /\ Len(s) \in Nat
      /\ DOMAIN s = 1 .. Len(s) /\ DOMAIN t = 1 .. Len(s) + 1
      /\ \A i \in 1 .. Len(s) : t[i] = s[i]
      /\ t[Len(s) + 1] = x
  OBVIOUS
<1> HIDE DEF t
<1>2. \A i \in 1 .. Len(s) + 1 : i \in 1 .. Len(s) \/ i = Len(s) + 1
  BY <1>1
<1>3. Distinct(t)
  BY <1>1, <1>2 DEF Distinct, PolicyNotExists
<1>4. Subscribed(t) = Subscribed(s) \cup {x}
  BY <1>1, <1>2 DEF Subscribed
<1> QED BY <1>1, <1>3, <1>4 DEF t

\* Swap and pop removes exactly the policy from the set of policies.
LEMMA SwapRemoveArray ==
  ASSUME NEW S, NEW s \in Seq(S), NEW x, Distinct(s), PolicyFound(s, x)
  PROVE  /\ SwapRemove(s, x) \in Seq(S)
         /\ Distinct(SwapRemove(s, x))
         /\ Subscribed(SwapRemove(s, x)) = Subscribed(s) \ {x}
<1> DEFINE k == FirstIndex(s, x)
           n == Len(s)
           t == SwapRemove(s, x)
<1>1. n \in Nat \ {0} /\ DOMAIN s = 1 .. n
  BY DEF PolicyFound
<1>2. k \in 1 .. n /\ s[k] = x
  <2>1. PICK i \in 1 .. n : s[i] = x
    BY <1>1 DEF PolicyFound
  <2>2. \A j \in 1 .. i - 1 : s[j] # x
    BY <1>1, <2>1 DEF Distinct
  <2> QED BY <1>1, <2>1, <2>2 DEF FirstIndex
<1> HIDE DEF k
<1>3. t = [i \in 1 .. n - 1 |-> IF i = k THEN s[n] ELSE s[i]]
  BY DEF SwapRemove, k
<1> HIDE DEF t
<1>4. t \in Seq(S) /\ DOMAIN t = 1 .. n - 1
  <2>1. t \in [1 .. n - 1 -> S]
    BY <1>1, <1>3
  <2> QED BY <1>1, <2>1
<1>5. \A i \in 1 .. n - 1 : t[i] = IF i = k THEN s[n] ELSE s[i]
  BY <1>3
<1>6. \A i, j \in 1 .. n : i # j => s[i] # s[j]
  BY <1>1 DEF Distinct
<1>7. Distinct(t)
  BY <1>1, <1>2, <1>4, <1>5, <1>6 DEF Distinct
<1>8. Subscribed(t) \subseteq Subscribed(s) \ {x}
  BY <1>1, <1>2, <1>4, <1>5, <1>6 DEF Subscribed
<1>9. ASSUME NEW y \in Subscribed(s) \ {x}
      PROVE  y \in Subscribed(t)
  <2>1. PICK i \in 1 .. n : s[i] = y
    BY <1>1 DEF Subscribed
  <2>2. i # k
    BY <2>1, <1>2, <1>9
  <2>3. CASE i = n
    <3>1. k \in 1 .. n - 1 /\ t[k] = y
      BY <2>1, <2>2, <2>3, <1>1, <1>2, <1>5
    <3> QED BY <3>1, <1>4 DEF Subscribed
  <2>4. CASE i # n
    <3>1. i \in 1 .. n - 1
      <4>1. \A a \in Nat : \A b \in 1 .. a : b # a => b \in 1 .. a - 1
        OBVIOUS
      <4> QED BY <4>1, <2>4, <1>1
    <3>2. t[i] = y
      BY <3>1, <1>5, <2>1, <2>2
    <3> QED BY <3>1, <3>2, <1>4 DEF Subscribed
  <2> QED BY <2>3, <2>4
<1> QED BY <1>4, <1>7, <1>8, <1>9 DEF t

-----------------------------------------------------------------------------
(* The inductive invariant: a loop changed, of every array, exactly the    *)
(* policies of the iterations it has done, and was entitled to each.       *)

\* The arrays of a consumer: one per method, and the global one.
Slots == Methods \cup {NoMethod}

ArrayIn(ms, gs, c, m) == IF m = NoMethod THEN gs[c] ELSE ms[c][m]

Current(c, m) == ArrayIn(subscribedPolicies, subscribedGlobalPolicies, c, m)
Saved(c, m) == ArrayIn(call.savedMethod, call.savedGlobal, c, m)

\* The policies the loop has added to, or removed from, an array.
Done(c, m) ==
  {p \in Policies : \E i \in 1 .. call.next - 1 :
     call.items[i] = [consumer |-> c, method |-> m, policy |-> p]}

EffectOK(c, m) ==
  /\ Distinct(Saved(c, m))
  /\ Done(c, m) = {} => Current(c, m) = Saved(c, m)
  /\ call.kind = "add" =>
       /\ Done(c, m) \cap Subscribed(Saved(c, m)) = {}
       /\ Subscribed(Current(c, m)) = Subscribed(Saved(c, m)) \cup Done(c, m)
  /\ call.kind = "remove" =>
       /\ Done(c, m) \subseteq Subscribed(Saved(c, m))
       /\ Subscribed(Current(c, m)) = Subscribed(Saved(c, m)) \ Done(c, m)

\* Iteration i was, or need not be, allowed by the consumer's admin.
EntitledOK ==
  /\ msgSender \in Accounts
  /\ \/ \A i \in DOMAIN call.items : call.items[i].method = NoMethod
     \/ \A i \in DOMAIN call.items :
          /\ call.items[i].method # NoMethod
          /\ firewallAdmin[call.items[i].consumer] = msgSender
  /\ \A i \in 1 .. call.next - 1 :
       /\ firewallAdmin[call.items[i].consumer] = msgSender
       /\ call.kind = "add" => call.items[i].policy \in approvedPolicies

LoopOK ==
  ~Idle =>
    /\ call.next <= Len(call.items) + 1
    /\ EntitledOK
    /\ \A c \in Consumers, m \in Slots : EffectOK(c, m)

AllDistinct == \A c \in Consumers, m \in Slots : Distinct(Current(c, m))

\* The present owner of a proxy is among those who ever owned it.
OwnersOK == \A c \in Consumers : proxyOwner[c] \in hasOwned[c]

IInv == TypeOK /\ AllDistinct /\ LoopOK /\ OwnersOK /\ PendingIsFromAdmin

-----------------------------------------------------------------------------
(* Types *)

\* The arrays of the model have the type of their entries.
LEMMA ArrayTypes ==
  ASSUME TypeOK, NEW c \in Consumers, NEW m \in Slots
  PROVE  /\ Current(c, m) \in Seq(Policies)
         /\ ~Idle => Saved(c, m) \in Seq(Policies)
BY DEF TypeOK, MethodArrays, GlobalArrays, Loops, Slots, Current, Saved, ArrayIn, Idle

\* What a running loop is made of.
LEMMA LoopTypes ==
  ASSUME TypeOK, ~Idle
  PROVE  /\ call \in Loops
         /\ call.kind \in {"add", "remove"}
         /\ call.items \in Seq(Items)
         /\ Len(call.items) \in Nat
         /\ DOMAIN call.items = 1 .. Len(call.items)
         /\ call.next \in Nat \ {0}
         /\ call.savedMethod \in MethodArrays
         /\ call.savedGlobal \in GlobalArrays
<1>1. call \in Loops
  BY DEF TypeOK, Idle
<1>2. call.items \in Seq(Items)
  BY <1>1 DEF Loops
<1> QED BY <1>1, <1>2 DEF Loops

\* The entry a loop is at.
LEMMA ItemTypes ==
  ASSUME TypeOK, InLoop
  PROVE  /\ call.next \in 1 .. Len(call.items)
         /\ Item \in Items
         /\ Item.consumer \in Consumers
         /\ Item.method \in Slots
         /\ Item.policy \in Policies
         /\ Item = [consumer |-> Item.consumer, method |-> Item.method, policy |-> Item.policy]
         /\ ItemArray = Current(Item.consumer, Item.method)
<1>1. call.next \in 1 .. Len(call.items)
  BY LoopTypes DEF InLoop
<1>2. Item \in Items
  BY <1>1, LoopTypes DEF InLoop, Item
<1>3. /\ Item.consumer \in Consumers
      /\ Item.method \in Slots
      /\ Item.policy \in Policies
      /\ Item = [consumer |-> Item.consumer, method |-> Item.method, policy |-> Item.policy]
  BY <1>2 DEF Items, Slots
<1>4. ItemArray = Current(Item.consumer, Item.method)
  BY DEF ItemArray, Current, ArrayIn
<1> QED BY <1>1, <1>2, <1>3, <1>4

\* Arrays of bounded length are sequences.
LEMMA UptoTypes ==
  ASSUME NEW S, NEW s \in Upto(S)
  PROVE  s \in Seq(S)
<1>1. PICK n \in 0 .. MaxBatch : s \in [1 .. n -> S]
  BY DEF Upto
<1>2. n \in Nat
  BY <1>1, ConfigAssumption
<1> QED BY <1>1, <1>2

\* Writing the entry's array leaves every other array alone.
LEMMA WriteArray ==
  ASSUME TypeOK, InLoop, NEW array \in Seq(Policies), WriteItemArray(array)
  PROVE  /\ subscribedPolicies' \in MethodArrays
         /\ subscribedGlobalPolicies' \in GlobalArrays
         /\ \A c \in Consumers, m \in Slots :
              Current(c, m)' = IF c = Item.consumer /\ m = Item.method THEN array
                                                                       ELSE Current(c, m)
<1>1. /\ subscribedPolicies \in MethodArrays
      /\ subscribedGlobalPolicies \in GlobalArrays
  BY DEF TypeOK
<1>2. CASE Item.method = NoMethod
  <2>1. /\ subscribedGlobalPolicies' = [subscribedGlobalPolicies EXCEPT ![Item.consumer] = array]
        /\ subscribedPolicies' = subscribedPolicies
    BY <1>2 DEF WriteItemArray
  <2>2. subscribedGlobalPolicies' \in GlobalArrays
    BY <2>1, <1>1, ItemTypes DEF GlobalArrays
  <2> QED BY <2>1, <2>2, <1>1, <1>2, ItemTypes DEF Current, ArrayIn, GlobalArrays
<1>3. CASE Item.method # NoMethod
  <2>1. /\ subscribedPolicies' =
             [subscribedPolicies EXCEPT ![Item.consumer][Item.method] = array]
        /\ subscribedGlobalPolicies' = subscribedGlobalPolicies
    BY <1>3 DEF WriteItemArray
  <2>2. Item.method \in Methods
    BY <1>3, ItemTypes DEF Slots
  <2>3. subscribedPolicies' \in MethodArrays
    BY <2>1, <2>2, <1>1, ItemTypes DEF MethodArrays
  <2>4. ASSUME NEW c \in Consumers, NEW m \in Methods
        PROVE  subscribedPolicies'[c][m] =
                 IF c = Item.consumer /\ m = Item.method THEN array
                                                         ELSE subscribedPolicies[c][m]
    BY <2>1, <2>2, <1>1, ItemTypes DEF MethodArrays
  <2> QED BY <2>1, <2>3, <2>4, <1>1, <1>3, ItemTypes, ConfigAssumption
             DEF Current, ArrayIn, Slots
<1> QED BY <1>2, <1>3

-----------------------------------------------------------------------------
(* The steps *)

\* After an iteration the entry's policy is done, in the entry's array only.
LEMMA AdvanceLoop ==
  ASSUME TypeOK, InLoop, call' = [call EXCEPT !.next = @ + 1]
  PROVE  /\ call' \in Loops /\ ~Idle'
         /\ call'.kind = call.kind /\ call'.items = call.items
         /\ call'.next = call.next + 1
         /\ \A c \in Consumers, m \in Slots :
              /\ Saved(c, m)' = Saved(c, m)
              /\ Done(c, m)' = IF c = Item.consumer /\ m = Item.method
                               THEN Done(c, m) \cup {Item.policy}
                               ELSE Done(c, m)
<1>1. call \in Loops /\ call.next \in Nat \ {0}
  BY LoopTypes DEF InLoop
<1>2. /\ call' \in Loops
      /\ call'.kind = call.kind /\ call'.items = call.items
      /\ call'.next = call.next + 1
      /\ call'.savedMethod = call.savedMethod /\ call'.savedGlobal = call.savedGlobal
  BY <1>1 DEF Loops
<1>3. ~Idle'
  BY <1>2, ConfigAssumption DEF Idle
<1>4. \A i : i \in 1 .. call'.next - 1 <=> i \in 1 .. call.next - 1 \/ i = call.next
  BY <1>1, <1>2
<1>5. ASSUME NEW c \in Consumers, NEW m \in Slots
      PROVE  Done(c, m)' = IF c = Item.consumer /\ m = Item.method
                           THEN Done(c, m) \cup {Item.policy}
                           ELSE Done(c, m)
  <2>1. \A p \in Policies :
          p \in Done(c, m)' <=>
            \/ p \in Done(c, m)
            \/ Item = [consumer |-> c, method |-> m, policy |-> p]
    BY <1>2, <1>4 DEF Done, Item
  <2>2. \A p \in Policies :
          Item = [consumer |-> c, method |-> m, policy |-> p] <=>
            c = Item.consumer /\ m = Item.method /\ p = Item.policy
    BY ItemTypes
  <2>3. Done(c, m)' \subseteq Policies /\ Done(c, m) \subseteq Policies
    BY DEF Done
  <2> QED BY <2>1, <2>2, <2>3, ItemTypes
<1> QED BY <1>2, <1>3, <1>5 DEF Saved

\* An iteration that does not revert was entitled to its change.
LEMMA IterationEntitled ==
  ASSUME IInv, InLoop, ItemAllowed, UNCHANGED <<firewallAdmin, approvedPolicies, msgSender>>,
         call' = [call EXCEPT !.next = @ + 1],
         call.kind = "add" => Item.policy \in approvedPolicies
  PROVE  EntitledOK' /\ call'.next <= Len(call'.items) + 1
<1>1. TypeOK /\ EntitledOK /\ call.next <= Len(call.items)
  BY DEF IInv, LoopOK, InLoop
<1>2. /\ call'.kind = call.kind /\ call'.items = call.items
      /\ call'.next = call.next + 1
      /\ call.next \in 1 .. Len(call.items)
      /\ call.next \in Nat \ {0}
      /\ DOMAIN call.items = 1 .. Len(call.items)
      /\ Len(call.items) \in Nat
  BY <1>1, AdvanceLoop, ItemTypes, LoopTypes DEF InLoop
<1>3. firewallAdmin[call.items[call.next].consumer] = msgSender
  BY <1>1, <1>2 DEF EntitledOK, ItemAllowed, Item
<1>4. \A i \in 1 .. call'.next - 1 : i \in 1 .. call.next - 1 \/ i = call.next
  BY <1>2
<1>5. \A i \in 1 .. call'.next - 1 :
        /\ firewallAdmin[call.items[i].consumer] = msgSender
        /\ call.kind = "add" => call.items[i].policy \in approvedPolicies
  BY <1>1, <1>3, <1>4 DEF EntitledOK, Item
<1>6. EntitledOK'
  <2>1. msgSender' \in Accounts
    BY <1>1 DEF EntitledOK
  <2>2. \/ \A i \in DOMAIN call'.items : call'.items[i].method = NoMethod
        \/ \A i \in DOMAIN call'.items :
             /\ call'.items[i].method # NoMethod
             /\ firewallAdmin'[call'.items[i].consumer] = msgSender'
    BY <1>1, <1>2 DEF EntitledOK
  <2>3. \A i \in 1 .. call'.next - 1 :
          /\ firewallAdmin'[call'.items[i].consumer] = msgSender'
          /\ call'.kind = "add" => call'.items[i].policy \in approvedPolicies'
    BY <1>2, <1>5
  <2> QED BY <2>1, <2>2, <2>3 DEF EntitledOK
<1>7. call'.next <= Len(call'.items) + 1
  BY <1>2
<1> QED BY <1>6, <1>7

\* Adding a policy keeps every array free of duplicates.
LEMMA AddStep == IInv /\ AddItem => IInv'
<1> SUFFICES ASSUME IInv, AddItem PROVE IInv'
  OBVIOUS
<1> DEFINE c0 == Item.consumer
           m0 == Item.method
           new == Append(ItemArray, Item.policy)
<1>1. /\ TypeOK /\ AllDistinct /\ LoopOK /\ OwnersOK /\ PendingIsFromAdmin
      /\ InLoop /\ ~Idle /\ call.kind = "add" /\ ItemAllowed
      /\ Item.policy \in approvedPolicies /\ PolicyNotExists(ItemArray, Item.policy)
      /\ WriteItemArray(new)
      /\ call' = [call EXCEPT !.next = @ + 1]
      /\ UNCHANGED <<approvedPolicies, dryrunEnabled, firewallAdmin, newFirewallAdmin,
                     proposer, proxyOwner, hasOwned, msgSender>>
  BY DEF IInv, AddItem, CanAdd, InLoop, adminSlots
<1>2. /\ c0 \in Consumers /\ m0 \in Slots /\ Item.policy \in Policies
      /\ ItemArray = Current(c0, m0)
  BY <1>1, ItemTypes
<1>3. Current(c0, m0) \in Seq(Policies) /\ Distinct(Current(c0, m0))
  BY <1>1, <1>2, ArrayTypes DEF AllDistinct
<1>4. /\ new \in Seq(Policies) /\ Distinct(new)
      /\ Subscribed(new) = Subscribed(Current(c0, m0)) \cup {Item.policy}
  BY <1>1, <1>2, <1>3, AppendArray
<1>5. Item.policy \notin Subscribed(Current(c0, m0))
  BY <1>1, <1>2 DEF PolicyNotExists, Subscribed
<1> HIDE DEF c0, m0, new
<1>6. /\ subscribedPolicies' \in MethodArrays
      /\ subscribedGlobalPolicies' \in GlobalArrays
      /\ \A c \in Consumers, m \in Slots :
           Current(c, m)' = IF c = c0 /\ m = m0 THEN new ELSE Current(c, m)
  BY <1>1, <1>4, WriteArray DEF c0, m0
<1>7. /\ call' \in Loops /\ ~Idle' /\ call'.kind = "add"
      /\ \A c \in Consumers, m \in Slots :
           /\ Saved(c, m)' = Saved(c, m)
           /\ Done(c, m)' = IF c = c0 /\ m = m0
                            THEN Done(c, m) \cup {Item.policy} ELSE Done(c, m)
  BY <1>1, AdvanceLoop DEF c0, m0
<1>8. TypeOK'
  BY <1>1, <1>6, <1>7 DEF TypeOK
<1>9. AllDistinct'
  BY <1>1, <1>4, <1>6 DEF AllDistinct
<1>10. ASSUME NEW c \in Consumers, NEW m \in Slots
       PROVE  EffectOK(c, m)'
  <2>1. EffectOK(c, m)
    BY <1>1 DEF LoopOK
  <2>2. CASE c = c0 /\ m = m0
    <3>1. Current(c, m)' = new /\ Done(c, m)' = Done(c, m) \cup {Item.policy}
      BY <2>2, <1>6, <1>7
    <3>2. Item.policy \notin Subscribed(Current(c, m))
      BY <2>2, <1>5
    <3>3. Subscribed(new) = Subscribed(Current(c, m)) \cup {Item.policy}
      BY <2>2, <1>4
    <3> QED BY <2>1, <3>1, <3>2, <3>3, <1>7, <1>1 DEF EffectOK
  <2>3. CASE ~(c = c0 /\ m = m0)
    <3>1. Current(c, m)' = Current(c, m) /\ Done(c, m)' = Done(c, m)
      BY <2>3, <1>6, <1>7
    <3> QED BY <2>1, <3>1, <1>7, <1>1 DEF EffectOK
  <2> QED BY <2>2, <2>3
<1>11. LoopOK'
  BY <1>1, <1>7, <1>10, IterationEntitled DEF LoopOK
<1>12. OwnersOK' /\ PendingIsFromAdmin'
  BY <1>1 DEF OwnersOK, PendingIsFromAdmin
<1> QED BY <1>8, <1>9, <1>11, <1>12 DEF IInv

\* Removing a policy keeps every array free of duplicates.
LEMMA RemoveStep == IInv /\ RemoveItem => IInv'
<1> SUFFICES ASSUME IInv, RemoveItem PROVE IInv'
  OBVIOUS
<1> DEFINE c0 == Item.consumer
           m0 == Item.method
           new == SwapRemove(ItemArray, Item.policy)
<1>1. /\ TypeOK /\ AllDistinct /\ LoopOK /\ OwnersOK /\ PendingIsFromAdmin
      /\ InLoop /\ ~Idle /\ call.kind = "remove" /\ ItemAllowed
      /\ PolicyFound(ItemArray, Item.policy)
      /\ WriteItemArray(new)
      /\ call' = [call EXCEPT !.next = @ + 1]
      /\ UNCHANGED <<approvedPolicies, dryrunEnabled, firewallAdmin, newFirewallAdmin,
                     proposer, proxyOwner, hasOwned, msgSender>>
  BY DEF IInv, RemoveItem, CanRemove, InLoop, adminSlots
<1>2. /\ c0 \in Consumers /\ m0 \in Slots /\ Item.policy \in Policies
      /\ ItemArray = Current(c0, m0)
  BY <1>1, ItemTypes
<1>3. Current(c0, m0) \in Seq(Policies) /\ Distinct(Current(c0, m0))
  BY <1>1, <1>2, ArrayTypes DEF AllDistinct
<1>4. /\ new \in Seq(Policies) /\ Distinct(new)
      /\ Subscribed(new) = Subscribed(Current(c0, m0)) \ {Item.policy}
  BY <1>1, <1>2, <1>3, SwapRemoveArray
<1>5. Item.policy \in Subscribed(Current(c0, m0))
  BY <1>1, <1>2 DEF PolicyFound, Subscribed
<1> HIDE DEF c0, m0, new
<1>6. /\ subscribedPolicies' \in MethodArrays
      /\ subscribedGlobalPolicies' \in GlobalArrays
      /\ \A c \in Consumers, m \in Slots :
           Current(c, m)' = IF c = c0 /\ m = m0 THEN new ELSE Current(c, m)
  BY <1>1, <1>4, WriteArray DEF c0, m0
<1>7. /\ call' \in Loops /\ ~Idle' /\ call'.kind = "remove"
      /\ \A c \in Consumers, m \in Slots :
           /\ Saved(c, m)' = Saved(c, m)
           /\ Done(c, m)' = IF c = c0 /\ m = m0
                            THEN Done(c, m) \cup {Item.policy} ELSE Done(c, m)
  BY <1>1, AdvanceLoop DEF c0, m0
<1>8. TypeOK'
  BY <1>1, <1>6, <1>7 DEF TypeOK
<1>9. AllDistinct'
  BY <1>1, <1>4, <1>6 DEF AllDistinct
<1>10. ASSUME NEW c \in Consumers, NEW m \in Slots
       PROVE  EffectOK(c, m)'
  <2>1. EffectOK(c, m)
    BY <1>1 DEF LoopOK
  <2>2. CASE c = c0 /\ m = m0
    <3>1. Current(c, m)' = new /\ Done(c, m)' = Done(c, m) \cup {Item.policy}
      BY <2>2, <1>6, <1>7
    <3>2. Item.policy \in Subscribed(Current(c, m))
      BY <2>2, <1>5
    <3>3. Subscribed(new) = Subscribed(Current(c, m)) \ {Item.policy}
      BY <2>2, <1>4
    <3> QED BY <2>1, <3>1, <3>2, <3>3, <1>7, <1>1 DEF EffectOK
  <2>3. CASE ~(c = c0 /\ m = m0)
    <3>1. Current(c, m)' = Current(c, m) /\ Done(c, m)' = Done(c, m)
      BY <2>3, <1>6, <1>7
    <3> QED BY <2>1, <3>1, <1>7, <1>1 DEF EffectOK
  <2> QED BY <2>2, <2>3
<1>11. LoopOK'
  BY <1>1, <1>7, <1>10, IterationEntitled DEF LoopOK
<1>12. OwnersOK' /\ PendingIsFromAdmin'
  BY <1>1 DEF OwnersOK, PendingIsFromAdmin
<1> QED BY <1>8, <1>9, <1>11, <1>12 DEF IInv

\* A loop starts from arrays that are both current and saved.
LEMMA StartStep ==
  ASSUME IInv, NEW a \in Accounts, NEW kind \in {"add", "remove"}, NEW items \in Seq(Items),
         \/ \A i \in DOMAIN items : items[i].method = NoMethod
         \/ \A i \in DOMAIN items :
              items[i].method # NoMethod /\ firewallAdmin[items[i].consumer] = a,
         StartLoop(a, kind, items)
  PROVE  IInv' /\ ~Idle'
<1>1. /\ TypeOK /\ AllDistinct /\ OwnersOK /\ PendingIsFromAdmin /\ Idle /\ msgSender' = a
      /\ call' = [kind |-> kind, items |-> items, next |-> 1,
                  savedMethod |-> subscribedPolicies,
                  savedGlobal |-> subscribedGlobalPolicies]
      /\ UNCHANGED <<approvedPolicies, dryrunEnabled, subscribedPolicies,
                     subscribedGlobalPolicies, firewallAdmin, newFirewallAdmin, proposer,
                     proxyOwner, hasOwned>>
  BY DEF IInv, StartLoop, arrays, adminSlots
<1>2. /\ call' \in Loops /\ call'.kind = kind /\ call'.items = items /\ call'.next = 1
      /\ call'.savedMethod = subscribedPolicies
      /\ call'.savedGlobal = subscribedGlobalPolicies
  BY <1>1 DEF Loops, TypeOK
<1>3. ~Idle'
  BY <1>2, ConfigAssumption DEF Idle
<1>4. TypeOK'
  BY <1>1, <1>2 DEF TypeOK
<1>5. AllDistinct'
  BY <1>1 DEF AllDistinct, Current
<1>6. 1 .. call'.next - 1 = {}
  BY <1>2
<1>7. EntitledOK'
  BY <1>1, <1>2, <1>6 DEF EntitledOK
<1>8. ASSUME NEW c \in Consumers, NEW m \in Slots
      PROVE  EffectOK(c, m)'
  <2>1. Done(c, m)' = {}
    BY <1>6 DEF Done
  <2>2. Saved(c, m)' = Current(c, m)' /\ Current(c, m)' = Current(c, m)
    BY <1>1, <1>2 DEF Saved, Current
  <2> QED BY <2>1, <2>2, <1>1 DEF EffectOK, AllDistinct
<1>9. call'.next <= Len(call'.items) + 1
  <2>1. Len(items) \in Nat
    OBVIOUS
  <2> QED BY <2>1, <1>2
<1>10. LoopOK'
  BY <1>7, <1>8, <1>9 DEF LoopOK
<1>11. OwnersOK' /\ PendingIsFromAdmin'
  BY <1>1 DEF OwnersOK, PendingIsFromAdmin
<1> QED BY <1>3, <1>4, <1>5, <1>10, <1>11 DEF IInv

\* The functions that change methods' arrays start a loop.
LEMMA ChangePoliciesStep ==
  ASSUME IInv, NEW a \in Accounts, NEW kind \in {"add", "remove"}, NEW c \in Consumers,
         NEW ms \in Upto(Methods), NEW ps \in Upto(Policies),
         ChangePolicies(a, kind, c, ms, ps)
  PROVE  IInv' /\ Idle /\ ~Idle' /\ \E items : StartLoop(a, kind, items)
<1> DEFINE items == [i \in 1 .. Len(ps) |-> [consumer |-> c, method |-> ms[i], policy |-> ps[i]]]
<1>1. ms \in Seq(Methods) /\ ps \in Seq(Policies)
  BY UptoTypes
<1>2. Len(ms) = Len(ps) /\ Len(ps) \in Nat
  BY <1>1 DEF ChangePolicies
<1>3. \A i \in 1 .. Len(ps) : ms[i] \in Methods /\ ps[i] \in Policies
  BY <1>1, <1>2
<1>4. items \in Seq(Items)
  <2>1. items \in [1 .. Len(ps) -> Items]
    BY <1>3 DEF Items
  <2> QED BY <2>1, <1>2
<1>5. \A i \in DOMAIN items : items[i].method # NoMethod /\ firewallAdmin[items[i].consumer] = a
  BY <1>3, ConfigAssumption DEF ChangePolicies
<1>6. StartLoop(a, kind, items)
  BY DEF ChangePolicies
<1> HIDE DEF items
<1> QED BY <1>4, <1>5, <1>6, StartStep DEF StartLoop

\* The functions that change global arrays start a loop.
LEMMA ChangeGlobalPolicyStep ==
  ASSUME IInv, NEW a \in Accounts, NEW kind \in {"add", "remove"},
         NEW cs \in Upto(Consumers), NEW policy \in Policies,
         ChangeGlobalPolicy(a, kind, cs, policy)
  PROVE  IInv' /\ Idle /\ ~Idle' /\ \E items : StartLoop(a, kind, items)
<1> DEFINE items == [i \in 1 .. Len(cs) |->
                       [consumer |-> cs[i], method |-> NoMethod, policy |-> policy]]
<1>1. cs \in Seq(Consumers)
  BY UptoTypes
<1>2. Len(cs) \in Nat /\ \A i \in 1 .. Len(cs) : cs[i] \in Consumers
  BY <1>1
<1>3. items \in Seq(Items)
  <2>1. items \in [1 .. Len(cs) -> Items]
    BY <1>2 DEF Items
  <2> QED BY <2>1, <1>2
<1>4. \A i \in DOMAIN items : items[i].method = NoMethod
  OBVIOUS
<1>5. StartLoop(a, kind, items)
  BY DEF ChangeGlobalPolicy
<1> HIDE DEF items
<1> QED BY <1>3, <1>4, <1>5, StartStep DEF StartLoop

\* A reverted loop leaves the saved arrays.
LEMMA RevertStep == IInv /\ RevertLoop => IInv' /\ Idle'
<1> SUFFICES ASSUME IInv, RevertLoop PROVE IInv' /\ Idle'
  OBVIOUS
<1>1. /\ TypeOK /\ AllDistinct /\ LoopOK /\ OwnersOK /\ PendingIsFromAdmin /\ ~Idle /\ Idle'
      /\ call' = NoCall
      /\ subscribedPolicies' = call.savedMethod
      /\ subscribedGlobalPolicies' = call.savedGlobal
      /\ UNCHANGED <<approvedPolicies, dryrunEnabled, firewallAdmin, newFirewallAdmin,
                     proposer, proxyOwner, hasOwned, msgSender>>
  BY DEF IInv, RevertLoop, InLoop, Idle, adminSlots
<1>2. TypeOK'
  BY <1>1, LoopTypes DEF TypeOK
<1>3. \A c \in Consumers, m \in Slots : Current(c, m)' = Saved(c, m)
  BY <1>1 DEF Current, Saved
<1>4. AllDistinct'
  BY <1>1, <1>3 DEF AllDistinct, LoopOK, EffectOK
<1> QED BY <1>1, <1>2, <1>4 DEF IInv, LoopOK, OwnersOK, PendingIsFromAdmin

\* A finished loop leaves the arrays it wrote.
LEMMA FinishStep == IInv /\ FinishLoop => IInv' /\ Idle'
<1> SUFFICES ASSUME IInv, FinishLoop PROVE IInv' /\ Idle'
  OBVIOUS
<1>1. /\ TypeOK /\ AllDistinct /\ OwnersOK /\ PendingIsFromAdmin /\ call' = NoCall /\ Idle'
      /\ UNCHANGED <<approvedPolicies, dryrunEnabled, subscribedPolicies,
                     subscribedGlobalPolicies, firewallAdmin, newFirewallAdmin,
                     proposer, proxyOwner, hasOwned, msgSender>>
  BY DEF IInv, FinishLoop, Idle, arrays, adminSlots
<1>2. TypeOK' /\ AllDistinct' /\ OwnersOK' /\ PendingIsFromAdmin'
  BY <1>1 DEF TypeOK, AllDistinct, Current, OwnersOK, PendingIsFromAdmin
<1> QED BY <1>1, <1>2 DEF IInv, LoopOK

\* The functions without a loop.
LEMMA AdministrationStep == IInv /\ Administration => IInv' /\ Idle /\ Idle'
<1> SUFFICES ASSUME IInv, NEW a \in Accounts,
               \/ \E p \in Policies, b \in BOOLEAN : SetPolicyStatus(a, p, b)
               \/ \E c \in Consumers :
                    \/ \E b \in BOOLEAN : SetConsumerDryrunStatus(a, c, b)
                    \/ \E new \in Candidates \cup {NoOne} :
                         \/ SetFirewallAdmin(a, c, new)
                         \/ InitializeFirewallAdmin(a, c, new)
                         \/ TransferProxyOwnership(a, c, new)
                    \/ AcceptFirewallAdmin(a, c)
    PROVE  IInv' /\ Idle /\ Idle'
  BY DEF Administration
<1>1. TypeOK /\ AllDistinct /\ OwnersOK /\ PendingIsFromAdmin /\ a # NoOne
  BY ConfigAssumption DEF IInv
<1>2. ASSUME Idle, UNCHANGED <<subscribedPolicies, subscribedGlobalPolicies, call>>
      PROVE  AllDistinct' /\ LoopOK' /\ Idle'
  BY <1>1, <1>2 DEF AllDistinct, Current, LoopOK, Idle
<1>3. CASE \E p \in Policies, b \in BOOLEAN : SetPolicyStatus(a, p, b)
  <2>1. /\ Idle /\ msgSender' = a /\ approvedPolicies' \subseteq Policies
        /\ UNCHANGED <<dryrunEnabled, subscribedPolicies, subscribedGlobalPolicies,
                       firewallAdmin, newFirewallAdmin, proposer, proxyOwner, hasOwned,
                       call>>
    BY <1>1, <1>3 DEF SetPolicyStatus, CalledBy, arrays, adminSlots, TypeOK
  <2>2. TypeOK' /\ OwnersOK' /\ PendingIsFromAdmin'
    BY <1>1, <2>1 DEF TypeOK, OwnersOK, PendingIsFromAdmin
  <2> QED BY <1>2, <2>1, <2>2 DEF IInv
<1>4. ASSUME NEW c \in Consumers, NEW b \in BOOLEAN, SetConsumerDryrunStatus(a, c, b)
      PROVE  IInv' /\ Idle /\ Idle'
  <2>1. /\ Idle /\ msgSender' = a
        /\ dryrunEnabled' \in [Consumers -> BOOLEAN]
        /\ UNCHANGED <<approvedPolicies, subscribedPolicies, subscribedGlobalPolicies,
                       firewallAdmin, newFirewallAdmin, proposer, proxyOwner, hasOwned,
                       call>>
    BY <1>1, <1>4 DEF SetConsumerDryrunStatus, CalledBy, arrays, adminSlots, TypeOK
  <2>2. TypeOK' /\ OwnersOK' /\ PendingIsFromAdmin'
    BY <1>1, <2>1 DEF TypeOK, OwnersOK, PendingIsFromAdmin
  <2> QED BY <1>2, <2>1, <2>2 DEF IInv
<1>5. ASSUME NEW c \in Consumers, NEW new \in Candidates \cup {NoOne},
             SetFirewallAdmin(a, c, new) \/ InitializeFirewallAdmin(a, c, new)
      PROVE  IInv' /\ Idle /\ Idle'
  <2>1. /\ Idle /\ msgSender' = a
        /\ newFirewallAdmin' = [newFirewallAdmin EXCEPT ![c] = new]
        /\ proposer' = [proposer EXCEPT ![c] = a]
        /\ a = firewallAdmin[c] \/ (firewallAdmin[c] = NoOne /\ a = proxyOwner[c])
        /\ UNCHANGED <<approvedPolicies, dryrunEnabled, subscribedPolicies,
                       subscribedGlobalPolicies, firewallAdmin, proxyOwner, hasOwned, call>>
    BY <1>5 DEF SetFirewallAdmin, InitializeFirewallAdmin, CalledBy, arrays, owners
  <2>2. new \in Accounts \cup {NoOne}
    BY ConfigAssumption
  <2>3. TypeOK'
    BY <1>1, <2>1, <2>2 DEF TypeOK
  <2>4. OwnersOK' /\ PendingIsFromAdmin'
    BY <1>1, <2>1 DEF TypeOK, OwnersOK, PendingIsFromAdmin
  <2> QED BY <1>2, <2>1, <2>3, <2>4 DEF IInv
<1>6. ASSUME NEW c \in Consumers, AcceptFirewallAdmin(a, c)
      PROVE  IInv' /\ Idle /\ Idle'
  <2>1. /\ Idle /\ msgSender' = a
        /\ firewallAdmin' = [firewallAdmin EXCEPT ![c] = a]
        /\ newFirewallAdmin' = [newFirewallAdmin EXCEPT ![c] = NoOne]
        /\ UNCHANGED <<approvedPolicies, dryrunEnabled, subscribedPolicies,
                       subscribedGlobalPolicies, proposer, proxyOwner, hasOwned, call>>
    BY <1>6 DEF AcceptFirewallAdmin, CalledBy, arrays, owners
  <2>2. TypeOK' /\ OwnersOK' /\ PendingIsFromAdmin'
    BY <1>1, <2>1 DEF TypeOK, OwnersOK, PendingIsFromAdmin
  <2> QED BY <1>2, <2>1, <2>2 DEF IInv
<1>7. ASSUME NEW c \in Consumers, NEW new \in Candidates \cup {NoOne},
             TransferProxyOwnership(a, c, new)
      PROVE  IInv' /\ Idle /\ Idle'
  <2>1. /\ Idle /\ msgSender' = a
        /\ proxyOwner' = [proxyOwner EXCEPT ![c] = new]
        /\ hasOwned' = [hasOwned EXCEPT ![c] = @ \cup {new}]
        /\ UNCHANGED <<approvedPolicies, dryrunEnabled, subscribedPolicies,
                       subscribedGlobalPolicies, firewallAdmin, newFirewallAdmin,
                       proposer, call>>
    BY <1>7 DEF TransferProxyOwnership, CalledBy, arrays
  <2>2. new \in Accounts \cup {NoOne}
    BY ConfigAssumption
  <2>3. TypeOK' /\ OwnersOK'
    BY <1>1, <2>1, <2>2 DEF TypeOK, OwnersOK
  <2>4. \A d \in Consumers : hasOwned[d] \subseteq hasOwned'[d]
    BY <1>1, <2>1 DEF TypeOK
  <2>5. PendingIsFromAdmin'
    BY <1>1, <2>1, <2>4 DEF PendingIsFromAdmin
  <2> QED BY <1>2, <2>1, <2>3, <2>5 DEF IInv
<1> QED BY <1>3, <1>4, <1>5, <1>6, <1>7

\* A consumer starts with empty arrays and no proposal.
LEMMA InitIInv == Init => IInv
<1> SUFFICES ASSUME Init PROVE IInv
  OBVIOUS
<1>1. TypeOK
  BY ConfigAssumption DEF Init, TypeOK, MethodArrays, GlobalArrays
<1>2. \A c \in Consumers, m \in Slots : Current(c, m) = <<>>
  BY ConfigAssumption DEF Init, Current, ArrayIn, Slots
<1>3. AllDistinct
  BY <1>2 DEF AllDistinct, Distinct
<1> QED BY <1>1, <1>3 DEF Init, IInv, LoopOK, Idle, OwnersOK, PendingIsFromAdmin

\* Every step preserves the inductive invariant.
LEMMA NextIInv == IInv /\ [Next]_vars => IInv'
<1> SUFFICES ASSUME IInv, [Next]_vars PROVE IInv'
  OBVIOUS
<1>1. CASE Subscriptions
  BY <1>1, ChangePoliciesStep, ChangeGlobalPolicyStep, AddStep, RemoveStep,
     RevertStep, FinishStep DEF Subscriptions
<1>2. CASE Administration
  BY <1>2, AdministrationStep
<1>3. CASE UNCHANGED vars
  BY <1>3 DEF vars, IInv, TypeOK, AllDistinct, Current, LoopOK, Idle, EntitledOK,
     EffectOK, Saved, Done, OwnersOK, PendingIsFromAdmin
<1> QED BY <1>1, <1>2, <1>3 DEF Next

\* The invariant holds throughout.
LEMMA Invariance == Spec => []IInv
<1> QED BY InitIInv, NextIInv, PTL DEF Spec

-----------------------------------------------------------------------------
(* The theorems *)

\* Every variable keeps its type: a batch, its revert and the handover of the
\* admin only ever write arrays of policies and accounts.
THEOREM TypeCorrect == Spec => []TypeOK
<1>1. IInv => TypeOK
  BY DEF IInv
<1> QED BY <1>1, Invariance, PTL

\* No array of Firewall.sol ever lists a policy twice, between the iterations
\* of a batch included.
THEOREM ArraysAreSets == Spec => []NoDuplicates
<1>1. IInv => NoDuplicates
  <2>1. IInv => TypeOK
    BY DEF IInv
  <2>2. IInv => \A c \in Consumers :
                  /\ Distinct(subscribedGlobalPolicies[c])
                  /\ \A m \in Methods : Distinct(subscribedPolicies[c][m])
    BY ConfigAssumption DEF IInv, AllDistinct, Current, ArrayIn, Slots
  <2> QED BY <2>1, <2>2 DEF NoDuplicates
<1> QED BY <1>1, Invariance, PTL

\* The pending proposal of a consumer was made by its present admin; while there
\* is none, by someone who owned its proxy when proposing, and may have handed it
\* over since (setFirewallAdmin, acceptFirewallAdmin, initializeFirewallAdmin).
THEOREM ProposalsAreCurrent == Spec => []PendingIsFromAdmin
<1>1. IInv => PendingIsFromAdmin
  BY DEF IInv
<1> QED BY <1>1, Invariance, PTL

\* A change of an array by a step is a change the present admin is entitled
\* to; a revert puts arrays back only where an iteration had changed them.
LEMMA ChangesEntitled ==
  ASSUME IInv, [Next]_vars, NEW c \in Consumers, ConfigOf(c)' # ConfigOf(c)
  PROVE  firewallAdmin[c] = msgSender'
<1>1. TypeOK
  BY DEF IInv
<1>2. CASE \E m \in Slots : Current(c, m)' # Current(c, m)
  <2>1. PICK m \in Slots : Current(c, m)' # Current(c, m)
    BY <1>2
  <2>2. CASE AddItem \/ RemoveItem
    <3>1. /\ InLoop /\ ItemAllowed /\ UNCHANGED <<firewallAdmin, approvedPolicies, msgSender>>
          /\ call' = [call EXCEPT !.next = @ + 1]
          /\ call.kind = "add" => Item.policy \in approvedPolicies
          /\ \E array : WriteItemArray(array)
      BY <2>2 DEF AddItem, RemoveItem, CanAdd, adminSlots
    <3>2. EntitledOK' /\ call'.next = call.next + 1 /\ call'.items = call.items
      BY <3>1, <1>1, IterationEntitled, AdvanceLoop
    <3>3. call.next \in 1 .. call'.next - 1
      BY <3>1, <3>2, <1>1, ItemTypes
    <3>4. firewallAdmin[Item.consumer] = msgSender'
      BY <3>1, <3>2, <3>3 DEF EntitledOK, Item
    <3>5. c = Item.consumer
      BY <2>1, <3>1, <1>1 DEF WriteItemArray, Current, ArrayIn, TypeOK, MethodArrays,
         GlobalArrays
    <3> QED BY <3>4, <3>5
  <2>3. CASE RevertLoop
    <3>1. /\ ~Idle /\ Current(c, m)' = Saved(c, m) /\ msgSender' = msgSender
      BY <2>3 DEF RevertLoop, InLoop, Current, Saved
    <3>2. EntitledOK /\ Done(c, m) # {}
      BY <3>1, <2>1 DEF IInv, LoopOK, EffectOK
    <3>3. PICK p \in Policies, i \in 1 .. call.next - 1 :
            call.items[i] = [consumer |-> c, method |-> m, policy |-> p]
      BY <3>2 DEF Done
    <3>4. call.items[i].consumer = c
      BY <3>3
    <3> QED BY <3>1, <3>2, <3>4 DEF EntitledOK
  <2>4. CASE UNCHANGED <<subscribedPolicies, subscribedGlobalPolicies>>
    BY <2>1, <2>4 DEF Current
  <2> QED BY <2>2, <2>3, <2>4 DEF Next, Subscriptions, Administration, ChangePolicies,
             ChangeGlobalPolicy, StartLoop, FinishLoop, SetPolicyStatus,
             SetConsumerDryrunStatus, SetFirewallAdmin, AcceptFirewallAdmin,
             InitializeFirewallAdmin, TransferProxyOwnership, arrays, vars
<1>3. CASE dryrunEnabled'[c] # dryrunEnabled[c]
  <2>1. PICK a \in Accounts, d \in Consumers, b \in BOOLEAN : SetConsumerDryrunStatus(a, d, b)
    BY <1>3 DEF Next, Subscriptions, Administration, ChangePolicies, ChangeGlobalPolicy,
       StartLoop, AddItem, RemoveItem, RevertLoop, FinishLoop, SetPolicyStatus,
       SetFirewallAdmin, AcceptFirewallAdmin, InitializeFirewallAdmin,
       TransferProxyOwnership, vars
  <2> QED BY <2>1, <1>3, <1>1 DEF SetConsumerDryrunStatus, CalledBy, TypeOK
<1>4. CASE /\ \A m \in Slots : Current(c, m)' = Current(c, m)
           /\ dryrunEnabled'[c] = dryrunEnabled[c]
  <2>1. subscribedGlobalPolicies'[c] = subscribedGlobalPolicies[c]
    BY <1>4 DEF Slots, Current, ArrayIn
  <2>2. \A m \in Methods : subscribedPolicies'[c][m] = subscribedPolicies[c][m]
    BY <1>4, ConfigAssumption DEF Slots, Current, ArrayIn
  <2>3. subscribedPolicies'[c] = subscribedPolicies[c]
    <3>1. subscribedPolicies[c] \in [Methods -> Seq(Policies)]
      BY <1>1 DEF TypeOK, MethodArrays
    <3>2. subscribedPolicies'[c] \in [Methods -> Seq(Policies)]
      BY NextIInv DEF IInv, TypeOK, MethodArrays
    <3> QED BY <3>1, <3>2, <2>2
  <2> QED BY <1>4, <2>1, <2>3 DEF ConfigOf
<1> QED BY <1>2, <1>3, <1>4

\* Only the present firewall admin of a consumer changes its policies or its
\* dryrun flag, alone or in a batch over several consumers.
THEOREM OnlyAdmins == Spec => OnlyAdminConfigures
<1>1. IInv /\ [Next]_vars =>
        [\A c \in Consumers : ConfigOf(c)' # ConfigOf(c) => firewallAdmin[c] = msgSender']_vars
  BY ChangesEntitled
<1> QED BY <1>1, Invariance, PTL DEF Spec, OnlyAdminConfigures

-----------------------------------------------------------------------------
(* Refinement *)

MethodSubs == MethodSubsOf(IF Idle THEN subscribedPolicies ELSE call.savedMethod)
GlobalSubs == GlobalSubsOf(IF Idle THEN subscribedGlobalPolicies ELSE call.savedGlobal)

\* What the loop adds to, or removes from, the sets.
DoneMethods == {s \in Consumers \X Methods \X Policies : s[3] \in Done(s[1], s[2])}
DoneGlobals == {s \in Consumers \X Policies : s[2] \in Done(s[1], NoMethod)}

\* A step that changes neither the sets, nor the approved policies, the dryrun
\* flags or the admins, is a stutter of the abstract specification.
LEMMA Stutter ==
  ASSUME UNCHANGED <<approvedPolicies, dryrunEnabled, firewallAdmin>>,
         MethodSubs' = MethodSubs, GlobalSubs' = GlobalSubs
  PROVE  UNCHANGED Sets!vars
BY DEF Sets!vars, MethodSubs, GlobalSubs

\* Between loops the current arrays are the sets, within one the saved ones.
LEMMA SubsOfArrays ==
  ASSUME Idle => UNCHANGED <<subscribedPolicies, subscribedGlobalPolicies>>,
         ~Idle => Idle' \/ (call'.savedMethod = call.savedMethod /\
                            call'.savedGlobal = call.savedGlobal),
         Idle /\ ~Idle' => /\ call'.savedMethod = subscribedPolicies
                           /\ call'.savedGlobal = subscribedGlobalPolicies,
         ~Idle /\ Idle' => /\ subscribedPolicies' = call.savedMethod
                           /\ subscribedGlobalPolicies' = call.savedGlobal
  PROVE  MethodSubs' = MethodSubs /\ GlobalSubs' = GlobalSubs
BY DEF MethodSubs, GlobalSubs, MethodSubsOf, GlobalSubsOf

\* When a loop ends, its effect appears in the sets at once.
LEMMA LoopEffect ==
  ASSUME IInv, FinishLoop
  PROVE  /\ call.kind = "add" =>
              /\ MethodSubs' = MethodSubs \cup DoneMethods
              /\ GlobalSubs' = GlobalSubs \cup DoneGlobals
              /\ DoneMethods \cap MethodSubs = {} /\ DoneGlobals \cap GlobalSubs = {}
         /\ call.kind = "remove" =>
              /\ MethodSubs' = MethodSubs \ DoneMethods
              /\ GlobalSubs' = GlobalSubs \ DoneGlobals
              /\ DoneMethods \subseteq MethodSubs /\ DoneGlobals \subseteq GlobalSubs
<1>1. /\ ~Idle /\ Idle'
      /\ UNCHANGED <<subscribedPolicies, subscribedGlobalPolicies>>
      /\ \A c \in Consumers, m \in Slots : EffectOK(c, m)
  BY FinishStep DEF IInv, LoopOK, FinishLoop, arrays
<1>2. /\ MethodSubs' = MethodSubsOf(subscribedPolicies)
      /\ GlobalSubs' = GlobalSubsOf(subscribedGlobalPolicies)
      /\ MethodSubs = MethodSubsOf(call.savedMethod)
      /\ GlobalSubs = GlobalSubsOf(call.savedGlobal)
  BY <1>1 DEF MethodSubs, GlobalSubs, MethodSubsOf, GlobalSubsOf
<1>3. \A c \in Consumers, m \in Methods :
        Current(c, m) = subscribedPolicies[c][m] /\ Saved(c, m) = call.savedMethod[c][m]
  BY ConfigAssumption DEF Current, Saved, ArrayIn
<1>4. \A c \in Consumers :
        /\ Current(c, NoMethod) = subscribedGlobalPolicies[c]
        /\ Saved(c, NoMethod) = call.savedGlobal[c]
  BY DEF Current, Saved, ArrayIn
<1>5. ASSUME NEW c \in Consumers, NEW m \in Methods, NEW p \in Policies
      PROVE  LET s == <<c, m, p>> IN
             /\ s \in MethodSubs' <=> p \in Subscribed(Current(c, m))
             /\ s \in MethodSubs <=> p \in Subscribed(Saved(c, m))
             /\ s \in DoneMethods <=> p \in Done(c, m)
  BY <1>2, <1>3 DEF MethodSubsOf, DoneMethods
<1>6. ASSUME NEW c \in Consumers, NEW p \in Policies
      PROVE  LET s == <<c, p>> IN
             /\ s \in GlobalSubs' <=> p \in Subscribed(Current(c, NoMethod))
             /\ s \in GlobalSubs <=> p \in Subscribed(Saved(c, NoMethod))
             /\ s \in DoneGlobals <=> p \in Done(c, NoMethod)
  BY <1>2, <1>4 DEF GlobalSubsOf, DoneGlobals
<1>7. /\ \A S \in {MethodSubs', MethodSubs, DoneMethods} :
           S \subseteq Consumers \X Methods \X Policies
      /\ \A S \in {GlobalSubs', GlobalSubs, DoneGlobals} : S \subseteq Consumers \X Policies
  BY <1>2 DEF MethodSubsOf, GlobalSubsOf, DoneMethods, DoneGlobals
<1>8. NoMethod \in Slots /\ Methods \subseteq Slots
  BY DEF Slots
<1>9. CASE call.kind = "add"
  <2>1. ASSUME NEW c \in Consumers, NEW m \in Methods, NEW p \in Policies
        PROVE  LET s == <<c, m, p>> IN
               /\ s \in MethodSubs' <=> s \in MethodSubs \/ s \in DoneMethods
               /\ ~(s \in MethodSubs /\ s \in DoneMethods)
    BY <1>1, <1>5, <1>8, <1>9 DEF EffectOK
  <2>2. ASSUME NEW c \in Consumers, NEW p \in Policies
        PROVE  LET s == <<c, p>> IN
               /\ s \in GlobalSubs' <=> s \in GlobalSubs \/ s \in DoneGlobals
               /\ ~(s \in GlobalSubs /\ s \in DoneGlobals)
    BY <1>1, <1>6, <1>8, <1>9 DEF EffectOK
  <2> QED BY <2>1, <2>2, <1>7, <1>9
<1>10. CASE call.kind = "remove"
  <2>1. ASSUME NEW c \in Consumers, NEW m \in Methods, NEW p \in Policies
        PROVE  LET s == <<c, m, p>> IN
               /\ s \in MethodSubs' <=> s \in MethodSubs /\ s \notin DoneMethods
               /\ s \in DoneMethods => s \in MethodSubs
    BY <1>1, <1>5, <1>8, <1>10 DEF EffectOK
  <2>2. ASSUME NEW c \in Consumers, NEW p \in Policies
        PROVE  LET s == <<c, p>> IN
               /\ s \in GlobalSubs' <=> s \in GlobalSubs /\ s \notin DoneGlobals
               /\ s \in DoneGlobals => s \in GlobalSubs
    BY <1>1, <1>6, <1>8, <1>10 DEF EffectOK
  <2> QED BY <2>1, <2>2, <1>7, <1>10
<1> QED BY <1>9, <1>10

\* The end of a loop is one change of the methods' sets or of the global ones.
LEMMA FinishRefines == IInv /\ FinishLoop => [Sets!Next]_(Sets!vars)
<1> SUFFICES ASSUME IInv, FinishLoop PROVE Sets!Next \/ UNCHANGED Sets!vars
  OBVIOUS
<1>1. /\ ~Idle /\ EntitledOK /\ TypeOK
      /\ UNCHANGED <<approvedPolicies, dryrunEnabled, firewallAdmin>>
  BY DEF FinishLoop, IInv, LoopOK, adminSlots
<1>2. call.kind \in {"add", "remove"} /\ call.items \in Seq(Items)
      /\ 1 .. call.next - 1 \subseteq DOMAIN call.items
  <2>1. call.next <= Len(call.items) + 1
    BY <1>1 DEF IInv, LoopOK
  <2> QED BY <2>1, <1>1, LoopTypes
<1>3. ASSUME NEW c \in Consumers, NEW m \in Slots, NEW p \in Done(c, m)
      PROVE  /\ firewallAdmin[c] = msgSender
             /\ call.kind = "add" => p \in approvedPolicies
             /\ \E i \in DOMAIN call.items : call.items[i].method = m
  <2>1. PICK i \in 1 .. call.next - 1 :
          call.items[i] = [consumer |-> c, method |-> m, policy |-> p]
    BY DEF Done
  <2>2. call.items[i].consumer = c /\ call.items[i].method = m /\ call.items[i].policy = p
    BY <2>1
  <2> QED BY <2>2, <1>1, <1>2 DEF EntitledOK
<1>4. msgSender \in Accounts
  BY <1>1 DEF EntitledOK
<1>5. \/ DoneMethods = {}
      \/ DoneGlobals = {}
  <2>1. CASE \A i \in DOMAIN call.items : call.items[i].method = NoMethod
    <3>1. ASSUME NEW s \in DoneMethods PROVE FALSE
      <4>1. s[1] \in Consumers /\ s[2] \in Methods /\ s[3] \in Done(s[1], s[2])
        BY DEF DoneMethods
      <4> QED BY <4>1, <1>3, <2>1, ConfigAssumption DEF Slots
    <3> QED BY <3>1
  <2>2. CASE \A i \in DOMAIN call.items : call.items[i].method # NoMethod
    BY <1>3, <2>2 DEF DoneGlobals, Slots
  <2> QED BY <2>1, <2>2, <1>1 DEF EntitledOK
<1>6. /\ DoneMethods \in SUBSET (Consumers \X Methods \X Policies)
      /\ \A s \in DoneMethods : /\ firewallAdmin[s[1]] = msgSender
                                /\ call.kind = "add" => s[3] \in approvedPolicies
  BY <1>3 DEF DoneMethods, Slots
<1>7. /\ DoneGlobals \in SUBSET (Consumers \X Policies)
      /\ \A s \in DoneGlobals : /\ firewallAdmin[s[1]] = msgSender
                                /\ call.kind = "add" => s[2] \in approvedPolicies
  BY <1>3 DEF DoneGlobals, Slots
<1>8. {c \in Consumers : dryrunEnabled[c]}' = {c \in Consumers : dryrunEnabled[c]}
  BY <1>1
<1>9. CASE DoneGlobals = {}
  <2>1. GlobalSubs' = GlobalSubs
    BY <1>9, <1>2, LoopEffect
  <2>2. CASE call.kind = "add"
    <3>1. MethodSubs' = MethodSubs \cup DoneMethods /\ DoneMethods \cap MethodSubs = {}
      BY <2>2, LoopEffect
    <3>2. Sets!Subscribe(msgSender, DoneMethods)
      BY <1>1, <1>6, <1>8, <2>1, <2>2, <3>1 DEF Sets!Subscribe, MethodSubs, GlobalSubs
    <3> QED BY <3>2, <1>4, <1>6 DEF Sets!Next
  <2>3. CASE call.kind = "remove"
    <3>1. MethodSubs' = MethodSubs \ DoneMethods /\ DoneMethods \subseteq MethodSubs
      BY <2>3, LoopEffect
    <3>2. Sets!Unsubscribe(msgSender, DoneMethods)
      BY <1>1, <1>6, <1>8, <2>1, <2>3, <3>1 DEF Sets!Unsubscribe, MethodSubs, GlobalSubs
    <3> QED BY <3>2, <1>4, <1>6 DEF Sets!Next
  <2> QED BY <2>2, <2>3, <1>2
<1>10. CASE DoneMethods = {}
  <2>1. MethodSubs' = MethodSubs
    BY <1>10, <1>2, LoopEffect
  <2>2. CASE call.kind = "add"
    <3>1. GlobalSubs' = GlobalSubs \cup DoneGlobals /\ DoneGlobals \cap GlobalSubs = {}
      BY <2>2, LoopEffect
    <3>2. Sets!SubscribeGlobally(msgSender, DoneGlobals)
      BY <1>1, <1>7, <1>8, <2>1, <2>2, <3>1
         DEF Sets!SubscribeGlobally, MethodSubs, GlobalSubs
    <3> QED BY <3>2, <1>4, <1>7 DEF Sets!Next
  <2>3. CASE call.kind = "remove"
    <3>1. GlobalSubs' = GlobalSubs \ DoneGlobals /\ DoneGlobals \subseteq GlobalSubs
      BY <2>3, LoopEffect
    <3>2. Sets!UnsubscribeGlobally(msgSender, DoneGlobals)
      BY <1>1, <1>7, <1>8, <2>1, <2>3, <3>1
         DEF Sets!UnsubscribeGlobally, MethodSubs, GlobalSubs
    <3> QED BY <3>2, <1>4, <1>7 DEF Sets!Next
  <2> QED BY <2>2, <2>3, <1>2
<1> QED BY <1>5, <1>9, <1>10

\* The functions without a loop are the other actions of the sets.
LEMMA AdministrationRefines == IInv /\ Administration => [Sets!Next]_(Sets!vars)
<1> SUFFICES ASSUME IInv, NEW a \in Accounts, Administration,
               \/ \E p \in Policies, b \in BOOLEAN : SetPolicyStatus(a, p, b)
               \/ \E c \in Consumers :
                    \/ \E b \in BOOLEAN : SetConsumerDryrunStatus(a, c, b)
                    \/ \E new \in Candidates \cup {NoOne} :
                         \/ SetFirewallAdmin(a, c, new)
                         \/ InitializeFirewallAdmin(a, c, new)
                         \/ TransferProxyOwnership(a, c, new)
                    \/ AcceptFirewallAdmin(a, c)
    PROVE  Sets!Next \/ UNCHANGED Sets!vars
  BY DEF Administration
<1>1. TypeOK /\ TypeOK' /\ Idle /\ Idle'
  BY AdministrationStep DEF IInv
<1>2. UNCHANGED <<subscribedPolicies, subscribedGlobalPolicies>>
  BY DEF SetPolicyStatus, SetConsumerDryrunStatus, SetFirewallAdmin,
     InitializeFirewallAdmin, AcceptFirewallAdmin, TransferProxyOwnership, arrays
<1>3. MethodSubs' = MethodSubs /\ GlobalSubs' = GlobalSubs
  BY <1>1, <1>2, SubsOfArrays
<1>4. CASE \E p \in Policies, b \in BOOLEAN : SetPolicyStatus(a, p, b)
  <2>1. Sets!SetPolicyStatus(approvedPolicies')
    BY <1>3, <1>4 DEF Sets!SetPolicyStatus, SetPolicyStatus, adminSlots, MethodSubs, GlobalSubs
  <2>2. approvedPolicies' \in SUBSET Policies
    BY <1>1 DEF TypeOK
  <2> QED BY <2>1, <2>2 DEF Sets!Next
<1>5. ASSUME NEW c \in Consumers, NEW b \in BOOLEAN, SetConsumerDryrunStatus(a, c, b)
      PROVE  Sets!Next
  <2>1. PICK S \in SUBSET Consumers : S = {d \in Consumers : dryrunEnabled'[d]}
    OBVIOUS
  <2>2. S \ {c} = {d \in Consumers : dryrunEnabled[d]} \ {c} /\ firewallAdmin[c] \in Accounts
    BY <2>1, <1>1, <1>5 DEF SetConsumerDryrunStatus, TypeOK
  <2>3. Sets!SetDryrun(c, S)
    BY <2>1, <2>2, <1>3, <1>5
       DEF Sets!SetDryrun, SetConsumerDryrunStatus, adminSlots, MethodSubs, GlobalSubs
  <2> QED BY <2>3 DEF Sets!Next
<1>6. ASSUME NEW c \in Consumers, NEW new \in Candidates \cup {NoOne},
             \/ SetFirewallAdmin(a, c, new)
             \/ InitializeFirewallAdmin(a, c, new)
             \/ TransferProxyOwnership(a, c, new)
      PROVE  UNCHANGED Sets!vars
  BY <1>3, <1>6, Stutter DEF SetFirewallAdmin, InitializeFirewallAdmin, TransferProxyOwnership
<1>7. ASSUME NEW c \in Consumers, AcceptFirewallAdmin(a, c)
      PROVE  Sets!Next
  <2>1. Sets!HandOver(c, a)
    BY <1>3, <1>7 DEF Sets!HandOver, AcceptFirewallAdmin, MethodSubs, GlobalSubs
  <2> QED BY <2>1 DEF Sets!Next
<1> QED BY <1>4, <1>5, <1>6, <1>7

\* Every step is a step of the sets or a stutter.
LEMMA StepRefines == IInv /\ [Next]_vars => [Sets!Next]_(Sets!vars)
<1> SUFFICES ASSUME IInv, [Next]_vars PROVE [Sets!Next]_(Sets!vars)
  OBVIOUS
<1>1. ASSUME NEW a \in Accounts, NEW kind \in {"add", "remove"},
             \/ \E c \in Consumers, ms \in Upto(Methods), ps \in Upto(Policies) :
                  ChangePolicies(a, kind, c, ms, ps)
             \/ \E cs \in Upto(Consumers), p \in Policies : ChangeGlobalPolicy(a, kind, cs, p)
      PROVE  UNCHANGED Sets!vars
  <2>1. PICK items : StartLoop(a, kind, items)
    BY <1>1, ChangePoliciesStep, ChangeGlobalPolicyStep
  <2>2. Idle /\ ~Idle'
    BY <1>1, ChangePoliciesStep, ChangeGlobalPolicyStep
  <2>3. call'.savedMethod = subscribedPolicies /\ call'.savedGlobal = subscribedGlobalPolicies
    BY <2>1 DEF StartLoop
  <2>4. MethodSubs' = MethodSubs /\ GlobalSubs' = GlobalSubs
    BY <2>1, <2>2, <2>3, SubsOfArrays DEF StartLoop, arrays
  <2> QED BY <2>1, <2>4, Stutter DEF StartLoop, adminSlots
<1>2. CASE AddItem \/ RemoveItem
  <2>1. /\ InLoop /\ TypeOK /\ ~Idle /\ call' = [call EXCEPT !.next = @ + 1]
        /\ UNCHANGED <<approvedPolicies, dryrunEnabled, firewallAdmin>>
    BY <1>2 DEF AddItem, RemoveItem, InLoop, IInv, adminSlots
  <2>2. /\ ~Idle' /\ call'.savedMethod = call.savedMethod
        /\ call'.savedGlobal = call.savedGlobal
    BY <2>1, AdvanceLoop, LoopTypes DEF Loops
  <2>3. MethodSubs' = MethodSubs /\ GlobalSubs' = GlobalSubs
    BY <2>1, <2>2, SubsOfArrays
  <2> QED BY <2>1, <2>3, Stutter
<1>3. CASE RevertLoop
  <2>1. /\ ~Idle /\ Idle' /\ subscribedPolicies' = call.savedMethod
        /\ subscribedGlobalPolicies' = call.savedGlobal
        /\ UNCHANGED <<approvedPolicies, dryrunEnabled, firewallAdmin>>
    BY <1>3 DEF RevertLoop, InLoop, Idle, adminSlots
  <2>2. MethodSubs' = MethodSubs /\ GlobalSubs' = GlobalSubs
    BY <2>1, SubsOfArrays
  <2> QED BY <2>1, <2>2, Stutter
<1>4. CASE FinishLoop
  BY <1>4, FinishRefines
<1>5. CASE Administration
  BY <1>5, AdministrationRefines
<1>6. CASE UNCHANGED vars
  BY <1>6, Stutter DEF vars, MethodSubs, GlobalSubs, Idle
<1> QED BY <1>1, <1>2, <1>3, <1>4, <1>5, <1>6 DEF Next, Subscriptions

\* Arrays, loops and reverts implement sets that change all at once.
THEOREM Refinement == Spec => ImplementsSubscriptions
<1>1. Init => Sets!Init
  BY DEF Init, Sets!Init, MethodSubsOf, GlobalSubsOf, Subscribed, Idle
<1>2. IInv /\ [Next]_vars => [Sets!Next]_(Sets!vars)
  BY StepRefines
<1> QED BY <1>1, <1>2, Invariance, PTL DEF Spec, ImplementsSubscriptions, Sets!Spec

-----------------------------------------------------------------------------
(* Batches *)

\* A loop that ends has done what it was asked to.
LEMMA AllItemsDone ==
  ASSUME IInv, FinishLoop
  PROVE  DoneMethods = MethodItems /\ DoneGlobals = GlobalItems
<1> DEFINE n == Len(call.items)
<1>1. /\ call.items \in Seq(Items) /\ n \in Nat /\ DOMAIN call.items = 1 .. n
      /\ call.next \in Nat
  BY LoopTypes DEF IInv, FinishLoop
<1>2. call.next - 1 = n
  BY <1>1 DEF IInv, LoopOK, FinishLoop
<1>3. ASSUME NEW i \in 1 .. n
      PROVE  /\ call.items[i].consumer \in Consumers /\ call.items[i].method \in Slots
             /\ call.items[i].policy \in Policies
             /\ call.items[i] = [consumer |-> call.items[i].consumer,
                                 method |-> call.items[i].method, policy |-> call.items[i].policy]
  <2>1. call.items[i] \in Items
    BY <1>1
  <2> QED BY <2>1 DEF Items, Slots
<1>4. ASSUME NEW c, NEW m, NEW q
      PROVE  c \in Consumers /\ m \in Slots /\ q \in Done(c, m) <=>
               \E i \in 1 .. n : /\ call.items[i].consumer = c /\ call.items[i].method = m
                                 /\ call.items[i].policy = q
  BY <1>2, <1>3 DEF Done
<1>5. \A m \in Slots : m # NoMethod <=> m \in Methods
  BY ConfigAssumption DEF Slots
<1>6. NoMethod \in Slots
  BY DEF Slots
<1>7. DoneMethods = MethodItems
  <2>1. ASSUME NEW s \in DoneMethods
        PROVE  s \in MethodItems
    <3>1. s = <<s[1], s[2], s[3]>> /\ s[1] \in Consumers /\ s[2] \in Methods
          /\ s[3] \in Done(s[1], s[2])
      BY DEF DoneMethods
    <3>2. PICK i \in 1 .. n : /\ call.items[i].consumer = s[1] /\ call.items[i].method = s[2]
                              /\ call.items[i].policy = s[3]
      BY <1>4, <3>1 DEF Slots
    <3>3. call.items[i].method # NoMethod
      BY <1>5, <3>1, <3>2 DEF Slots
    <3> QED BY <1>1, <3>1, <3>2, <3>3 DEF MethodItems
  <2>2. ASSUME NEW s \in MethodItems
        PROVE  s \in DoneMethods
    <3>1. PICK i \in 1 .. n : /\ call.items[i].method # NoMethod
                              /\ s = <<call.items[i].consumer, call.items[i].method,
                                       call.items[i].policy>>
      BY <1>1 DEF MethodItems
    <3>2. call.items[i].policy \in Done(call.items[i].consumer, call.items[i].method)
      BY <1>4
    <3>3. call.items[i].method \in Methods
      BY <1>3, <1>5, <3>1
    <3> QED BY <1>3, <3>1, <3>2, <3>3 DEF DoneMethods
  <2> QED BY <2>1, <2>2
<1>8. DoneGlobals = GlobalItems
  <2>1. ASSUME NEW s \in DoneGlobals
        PROVE  s \in GlobalItems
    <3>1. s = <<s[1], s[2]>> /\ s[1] \in Consumers /\ s[2] \in Done(s[1], NoMethod)
      BY DEF DoneGlobals
    <3>2. PICK i \in 1 .. n : /\ call.items[i].consumer = s[1]
                              /\ call.items[i].method = NoMethod /\ call.items[i].policy = s[2]
      BY <1>4, <1>6, <3>1
    <3> QED BY <1>1, <3>1, <3>2 DEF GlobalItems
  <2>2. ASSUME NEW s \in GlobalItems
        PROVE  s \in DoneGlobals
    <3>1. PICK i \in 1 .. n : /\ call.items[i].method = NoMethod
                              /\ s = <<call.items[i].consumer, call.items[i].policy>>
      BY <1>1 DEF GlobalItems
    <3>2. call.items[i].policy \in Done(call.items[i].consumer, NoMethod)
      BY <1>4, <3>1
    <3> QED BY <1>3, <3>1, <3>2 DEF DoneGlobals
  <2> QED BY <2>1, <2>2
<1> QED BY <1>7, <1>8

\* What a loop leaves behind when it ends or reverts.
LEMMA BatchOutcome ==
  ASSUME IInv, [Next]_vars, ~Idle, Idle'
  PROVE  \/ subscribedPolicies' = call.savedMethod /\ subscribedGlobalPolicies' = call.savedGlobal
         \/ /\ call.kind = "add"
            /\ MethodSubsOf(subscribedPolicies') = MethodSubsOf(call.savedMethod) \cup MethodItems
            /\ GlobalSubsOf(subscribedGlobalPolicies')
                 = GlobalSubsOf(call.savedGlobal) \cup GlobalItems
         \/ /\ call.kind = "remove"
            /\ MethodSubsOf(subscribedPolicies') = MethodSubsOf(call.savedMethod) \ MethodItems
            /\ GlobalSubsOf(subscribedGlobalPolicies')
                 = GlobalSubsOf(call.savedGlobal) \ GlobalItems
<1>1. CASE RevertLoop
  BY <1>1 DEF RevertLoop
<1>2. CASE FinishLoop
  <2>1. DoneMethods = MethodItems /\ DoneGlobals = GlobalItems
    BY <1>2, AllItemsDone
  <2>2. /\ MethodSubs' = MethodSubsOf(subscribedPolicies')
        /\ GlobalSubs' = GlobalSubsOf(subscribedGlobalPolicies')
        /\ MethodSubs = MethodSubsOf(call.savedMethod)
        /\ GlobalSubs = GlobalSubsOf(call.savedGlobal)
    BY DEF MethodSubs, GlobalSubs, MethodSubsOf, GlobalSubsOf
  <2>3. call.kind \in {"add", "remove"}
    BY LoopTypes DEF IInv
  <2> QED BY <1>2, <2>1, <2>2, <2>3, LoopEffect
<1>3. CASE AddItem \/ RemoveItem
  <2>1. ~Idle'
    BY <1>3, AdvanceLoop, LoopTypes DEF AddItem, RemoveItem, InLoop, IInv
  <2> QED BY <2>1
<1>4. CASE Administration
  BY <1>4, AdministrationStep
<1>5. CASE UNCHANGED vars
  BY <1>5 DEF vars, Idle
<1>6. ASSUME NEW a \in Accounts, NEW kind \in {"add", "remove"},
             \/ \E c \in Consumers, ms \in Upto(Methods), ps \in Upto(Policies) :
                  ChangePolicies(a, kind, c, ms, ps)
             \/ \E cs \in Upto(Consumers), q \in Policies : ChangeGlobalPolicy(a, kind, cs, q)
      PROVE  FALSE
  BY <1>6, ChangePoliciesStep, ChangeGlobalPolicyStep
<1> QED BY <1>1, <1>2, <1>3, <1>4, <1>5, <1>6 DEF Next, Subscriptions

\* A batch of subscriptions does everything it was asked to or nothing, whatever
\* the order of its items and however earlier swaps moved entries.
THEOREM BatchesDoAllOrNothing == Spec => BatchesAreAtomic
<1>1. IInv /\ [Next]_vars =>
        [~Idle /\ Idle' =>
           \/ subscribedPolicies' = call.savedMethod
              /\ subscribedGlobalPolicies' = call.savedGlobal
           \/ /\ call.kind = "add"
              /\ MethodSubsOf(subscribedPolicies')
                   = MethodSubsOf(call.savedMethod) \cup MethodItems
              /\ GlobalSubsOf(subscribedGlobalPolicies')
                   = GlobalSubsOf(call.savedGlobal) \cup GlobalItems
           \/ /\ call.kind = "remove"
              /\ MethodSubsOf(subscribedPolicies')
                   = MethodSubsOf(call.savedMethod) \ MethodItems
              /\ GlobalSubsOf(subscribedGlobalPolicies')
                   = GlobalSubsOf(call.savedGlobal) \ GlobalItems]_vars
  BY BatchOutcome
<1> QED BY <1>1, Invariance, PTL DEF Spec, BatchesAreAtomic
=============================================================================
