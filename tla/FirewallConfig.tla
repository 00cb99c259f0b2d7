--------------------------- MODULE FirewallConfig ---------------------------
(***************************************************************************)
(* The configuration of Firewall.sol -- the marketplace's approved         *)
(* policies, the consumers' dryrun flags and policy arrays -- with the     *)
(* firewall admin of each consumer (VennFirewallConsumerBase and its proxy *)
(* presets), on whose word every change of a consumer rests.               *)
(*                                                                         *)
(* The functions that take arrays run a loop, one step per iteration here: *)
(* an iteration asks the consumer for its admin.  If one iteration reverts *)
(* the whole call does, and no other call runs in between.  A function     *)
(* that takes one policy is a loop of one iteration.                       *)
(***************************************************************************)
EXTENDS Naturals, Sequences, PolicyArrays

CONSTANTS
  Consumers,
  Methods,       \* method selectors
  Policies,
  Accounts,      \* everyone who calls
  Candidates,    \* accounts that may be proposed as firewall admin
  Owner,         \* owner of the firewall
  FirstOwners,   \* who may own the consumers' proxies when they are deployed
  FirstAdmins,   \* the admins the consumers may be constructed with
  NoOne,         \* the zero address
  NoMethod,      \* marks an entry of the global array
  NoCall,        \* no loop is running
  MaxBatch       \* bound: length of the arrays given to a function

VARIABLES
  approvedPolicies,
  dryrunEnabled,
  subscribedPolicies,
  subscribedGlobalPolicies,
  firewallAdmin,      \* per consumer: FIREWALL_ADMIN_STORAGE_SLOT
  newFirewallAdmin,   \* per consumer: NEW_FIREWALL_ADMIN_STORAGE_SLOT
  proposer,           \* history: who wrote newFirewallAdmin
  proxyOwner,         \* per consumer: owner() of its beacon or proxy admin
  hasOwned,           \* history: everyone who ever was the proxy owner
  msgSender,          \* sender of the latest call
  call                \* the loop that is running

arrays == <<subscribedPolicies, subscribedGlobalPolicies>>
owners == <<proxyOwner, hasOwned>>
adminSlots == <<firewallAdmin, newFirewallAdmin, proposer, proxyOwner, hasOwned>>
vars == <<approvedPolicies, dryrunEnabled, subscribedPolicies, subscribedGlobalPolicies,
          firewallAdmin, newFirewallAdmin, proposer, proxyOwner, hasOwned,
          msgSender, call>>

MethodArrays == [Consumers -> [Methods -> Seq(Policies)]]
GlobalArrays == [Consumers -> Seq(Policies)]

Items == [policy : Policies, consumer : Consumers, method : Methods \cup {NoMethod}]
Loops == [items : Seq(Items), kind : {"add", "remove"}, next : Nat \ {0},
          savedMethod : MethodArrays, savedGlobal : GlobalArrays]

ASSUME ConfigAssumption ==
  /\ MaxBatch \in Nat
  /\ Candidates \subseteq Accounts
  /\ Owner \in Accounts
  /\ FirstOwners \subseteq [Consumers -> Accounts \cup {NoOne}]
  /\ FirstAdmins \subseteq [Consumers -> Accounts \cup {NoOne}]
  /\ NoOne \notin Accounts
  /\ NoMethod \notin Methods
  /\ NoCall \notin Loops

\* Sequences of length at most MaxBatch.
Upto(S) == UNION {[1 .. n -> S] : n \in 0 .. MaxBatch}

Init ==
  /\ approvedPolicies = {}
  /\ dryrunEnabled = [c \in Consumers |-> FALSE]
  /\ subscribedPolicies = [c \in Consumers |-> [m \in Methods |-> <<>>]]
  /\ subscribedGlobalPolicies = [c \in Consumers |-> <<>>]
  /\ firewallAdmin \in FirstAdmins
  /\ newFirewallAdmin = [c \in Consumers |-> NoOne]
  /\ proposer = [c \in Consumers |-> NoOne]
  /\ proxyOwner \in FirstOwners
  /\ hasOwned = [c \in Consumers |-> {proxyOwner[c]}]
  /\ msgSender = NoOne
  /\ call = NoCall

Idle == call = NoCall

\* A function that is not a loop, called by a.
CalledBy(a) == Idle /\ msgSender' = a /\ UNCHANGED call

-----------------------------------------------------------------------------
(* Marketplace and dryrun *)

SetPolicyStatus(a, policy, status) ==
  /\ CalledBy(a) /\ a = Owner
  /\ approvedPolicies' = IF status THEN approvedPolicies \cup {policy}
                                   ELSE approvedPolicies \ {policy}
  /\ UNCHANGED <<dryrunEnabled, arrays, adminSlots>>

SetConsumerDryrunStatus(a, c, status) ==
  /\ CalledBy(a) /\ a = firewallAdmin[c]
  /\ dryrunEnabled' = [dryrunEnabled EXCEPT ![c] = status]
  /\ UNCHANGED <<approvedPolicies, arrays, adminSlots>>

-----------------------------------------------------------------------------
(* Subscriptions *)

StartLoop(a, kind, items) ==
  /\ Idle
  /\ msgSender' = a
  /\ call' = [items |-> items, kind |-> kind, next |-> 1,
              savedMethod |-> subscribedPolicies,
              savedGlobal |-> subscribedGlobalPolicies]
  /\ UNCHANGED <<approvedPolicies, dryrunEnabled, arrays, adminSlots>>

\* addPolicy, addPolicies, removePolicy, removePolicies.
ChangePolicies(a, kind, c, methodSigs, policies) ==
  /\ a = firewallAdmin[c]
  /\ Len(methodSigs) = Len(policies)
  /\ StartLoop(a, kind, [i \in 1 .. Len(policies) |->
       [policy |-> policies[i], consumer |-> c, method |-> methodSigs[i]]])

\* addGlobalPolicy, addGlobalPolicyForConsumers and their removals.
ChangeGlobalPolicy(a, kind, consumers, policy) ==
  StartLoop(a, kind, [i \in 1 .. Len(consumers) |->
    [policy |-> policy, consumer |-> consumers[i], method |-> NoMethod]])

Item == call.items[call.next]
InLoop == ~Idle /\ call.next <= Len(call.items)

\* The array the iteration works on, and its new contents.
ItemArray ==
  IF Item.method = NoMethod THEN subscribedGlobalPolicies[Item.consumer]
                            ELSE subscribedPolicies[Item.consumer][Item.method]

WriteItemArray(array) ==
  IF Item.method = NoMethod
  THEN /\ subscribedGlobalPolicies' = [subscribedGlobalPolicies EXCEPT ![Item.consumer] = array]
       /\ UNCHANGED subscribedPolicies
  ELSE /\ subscribedPolicies' =
            [subscribedPolicies EXCEPT ![Item.consumer][Item.method] = array]
       /\ UNCHANGED subscribedGlobalPolicies

\* Deviation: only the first consumer of a batch is asked for its admin.
ItemAllowed_First ==
  Item.method = NoMethod /\ call.next = 1 => firewallAdmin[Item.consumer] = msgSender

\* The loops over consumers check the admin of each, the others did once.
ItemAllowed == Item.method = NoMethod => firewallAdmin[Item.consumer] = msgSender

\* Deviation: policies the marketplace does not approve can be added.
CanAdd_Unapproved == PolicyNotExists(ItemArray, Item.policy)

\* _addPolicy and _addGlobalPolicy do not revert.
CanAdd == Item.policy \in approvedPolicies /\ PolicyNotExists(ItemArray, Item.policy)

\* _removePolicy and _removeGlobalPolicy do not revert.
CanRemove == PolicyFound(ItemArray, Item.policy)

AddItem ==
  /\ InLoop /\ call.kind = "add"
  /\ ItemAllowed /\ CanAdd
  /\ WriteItemArray(Append(ItemArray, Item.policy))
  /\ call' = [call EXCEPT !.next = @ + 1]
  /\ UNCHANGED <<approvedPolicies, dryrunEnabled, adminSlots, msgSender>>

RemoveItem ==
  /\ InLoop /\ call.kind = "remove"
  /\ ItemAllowed /\ CanRemove
  /\ WriteItemArray(SwapRemove(ItemArray, Item.policy))
  /\ call' = [call EXCEPT !.next = @ + 1]
  /\ UNCHANGED <<approvedPolicies, dryrunEnabled, adminSlots, msgSender>>

\* Deviation: the iterations that succeeded are kept.
RevertLoop_KeepsPrefix ==
  /\ InLoop
  /\ \/ ~ItemAllowed
     \/ call.kind = "add" /\ ~CanAdd
     \/ call.kind = "remove" /\ ~CanRemove
  /\ call' = NoCall
  /\ UNCHANGED <<approvedPolicies, dryrunEnabled, arrays, adminSlots, msgSender>>

RevertLoop ==
  /\ InLoop
  /\ \/ ~ItemAllowed
     \/ call.kind = "add" /\ ~CanAdd
     \/ call.kind = "remove" /\ ~CanRemove
  /\ subscribedPolicies' = call.savedMethod
  /\ subscribedGlobalPolicies' = call.savedGlobal
  /\ call' = NoCall
  /\ UNCHANGED <<approvedPolicies, dryrunEnabled, adminSlots, msgSender>>

FinishLoop ==
  /\ ~Idle /\ call.next > Len(call.items)
  /\ call' = NoCall
  /\ UNCHANGED <<approvedPolicies, dryrunEnabled, arrays, adminSlots, msgSender>>

-----------------------------------------------------------------------------
(* The firewall admin of a consumer *)

SetFirewallAdmin(a, c, new) ==
  /\ CalledBy(a) /\ a = firewallAdmin[c]
  /\ newFirewallAdmin' = [newFirewallAdmin EXCEPT ![c] = new]
  /\ proposer' = [proposer EXCEPT ![c] = a]
  /\ UNCHANGED <<approvedPolicies, dryrunEnabled, arrays, firewallAdmin, owners>>

\* Deviation: the proposal is kept after it was accepted.
AcceptFirewallAdmin_Kept(a, c) ==
  /\ CalledBy(a) /\ a = newFirewallAdmin[c]
  /\ firewallAdmin' = [firewallAdmin EXCEPT ![c] = a]
  /\ UNCHANGED <<approvedPolicies, dryrunEnabled, arrays, newFirewallAdmin, proposer, owners>>

AcceptFirewallAdmin(a, c) ==
  /\ CalledBy(a) /\ a = newFirewallAdmin[c]
  /\ firewallAdmin' = [firewallAdmin EXCEPT ![c] = a]
  /\ newFirewallAdmin' = [newFirewallAdmin EXCEPT ![c] = NoOne]
  /\ UNCHANGED <<approvedPolicies, dryrunEnabled, arrays, proposer, owners>>

\* Ownable of the beacon or of the proxy admin: its owner names another or,
\* renouncing, nobody.
TransferProxyOwnership(a, c, new) ==
  /\ CalledBy(a) /\ a = proxyOwner[c]
  /\ proxyOwner' = [proxyOwner EXCEPT ![c] = new]
  /\ hasOwned' = [hasOwned EXCEPT ![c] = @ \cup {new}]
  /\ UNCHANGED <<approvedPolicies, dryrunEnabled, arrays, firewallAdmin, newFirewallAdmin,
                 proposer>>

\* The proxy presets, when the consumer was constructed without an admin: the
\* sender is compared with the owner that the proxy has now.
InitializeFirewallAdmin(a, c, new) ==
  /\ CalledBy(a) /\ a = proxyOwner[c]
  /\ new # NoOne
  /\ firewallAdmin[c] = NoOne
  /\ newFirewallAdmin' = [newFirewallAdmin EXCEPT ![c] = new]
  /\ proposer' = [proposer EXCEPT ![c] = a]
  /\ UNCHANGED <<approvedPolicies, dryrunEnabled, arrays, firewallAdmin, owners>>

-----------------------------------------------------------------------------
Subscriptions ==
  \/ \E a \in Accounts, kind \in {"add", "remove"} :
       \/ \E c \in Consumers, ms \in Upto(Methods), ps \in Upto(Policies) :
            ChangePolicies(a, kind, c, ms, ps)
       \/ \E cs \in Upto(Consumers), p \in Policies : ChangeGlobalPolicy(a, kind, cs, p)
  \/ AddItem \/ RemoveItem \/ RevertLoop \/ FinishLoop

Administration ==
  \E a \in Accounts :
    \/ \E p \in Policies, b \in BOOLEAN : SetPolicyStatus(a, p, b)
    \/ \E c \in Consumers :
         \/ \E b \in BOOLEAN : SetConsumerDryrunStatus(a, c, b)
         \/ \E new \in Candidates \cup {NoOne} :
              \/ SetFirewallAdmin(a, c, new)
              \/ InitializeFirewallAdmin(a, c, new)
              \/ TransferProxyOwnership(a, c, new)
         \/ AcceptFirewallAdmin(a, c)

Next == Subscriptions \/ Administration

\* Safety only: nobody is obliged to make a call.
Spec == Init /\ [][Next]_vars

-----------------------------------------------------------------------------
(* Properties *)

\* Types, those of the lists that a batch under way may restore included.
TypeOK ==
  /\ approvedPolicies \subseteq Policies
  /\ dryrunEnabled \in [Consumers -> BOOLEAN]
  /\ subscribedPolicies \in MethodArrays
  /\ subscribedGlobalPolicies \in GlobalArrays
  /\ firewallAdmin \in [Consumers -> Accounts \cup {NoOne}]
  /\ newFirewallAdmin \in [Consumers -> Accounts \cup {NoOne}]
  /\ proposer \in [Consumers -> Accounts \cup {NoOne}]
  /\ proxyOwner \in [Consumers -> Accounts \cup {NoOne}]
  /\ hasOwned \in [Consumers -> SUBSET (Accounts \cup {NoOne})]
  /\ msgSender \in Accounts \cup {NoOne}
  /\ call \in Loops \cup {NoCall}

Distinct(array) == \A i, j \in DOMAIN array : i # j => array[i] # array[j]

\* A policy runs at most once per hook for the method and once globally: no
\* array ever lists it twice, in the middle of a batch included, whatever
\* order the swaps of earlier removals left (_verifyPolicyNotExists,
\* _removePolicyFromArray); and every variable keeps its type, what a batch
\* that fails puts back included.
NoDuplicates ==
  /\ TypeOK
  /\ \A c \in Consumers :
       /\ Distinct(subscribedGlobalPolicies[c])
       /\ \A m \in Methods : Distinct(subscribedPolicies[c][m])

ConfigOf(c) ==
  <<dryrunEnabled[c], subscribedPolicies[c], subscribedGlobalPolicies[c]>>

\* Whoever is not the current firewall admin of a consumer, a former or a
\* proposed one and the admin of other consumers in the same batch included,
\* never changes its configuration (onlyConsumerAdmin, _onlyConsumerAdmin).
OnlyAdminConfigures ==
  [][\A c \in Consumers : ConfigOf(c)' # ConfigOf(c) => firewallAdmin[c] = msgSender']_vars

\* Who may have proposed the next admin of a consumer.  Once there is an admin,
\* the pending proposal is its own: accepting leaves none behind, of a former
\* admin or of the proxy owner, that would let someone take over from the new
\* admin (acceptFirewallAdmin).  While there is none, it is the proposal of an
\* owner of the proxy, past or present: the right to propose is checked when
\* proposing, and what a former owner proposed before it handed over can still
\* be accepted unless the present one replaces it (initializeFirewallAdmin).
PendingIsFromAdmin ==
  \A c \in Consumers :
    newFirewallAdmin[c] # NoOne =>
      IF firewallAdmin[c] = NoOne THEN proposer[c] \in hasOwned[c]
                                  ELSE proposer[c] = firewallAdmin[c]

-----------------------------------------------------------------------------
(* Refinement: arrays and loops implement PolicySubscriptions.  A loop     *)
(* takes effect when it ends; until then the saved arrays count.           *)

MethodSubsOf(ms) ==
  {s \in Consumers \X Methods \X Policies : s[3] \in Subscribed(ms[s[1]][s[2]])}

GlobalSubsOf(gs) ==
  {s \in Consumers \X Policies : s[2] \in Subscribed(gs[s[1]])}

MethodItems == {<<call.items[i].consumer, call.items[i].method, call.items[i].policy>> :
                  i \in {j \in DOMAIN call.items : call.items[j].method # NoMethod}}
GlobalItems == {<<call.items[i].consumer, call.items[i].policy>> :
                  i \in {j \in DOMAIN call.items : call.items[j].method = NoMethod}}

\* A batch does all it was asked to or leaves both mappings as they were:
\* an iteration that reverts takes the earlier ones back, and an iteration
\* never disturbs, by the swap of a removal, what another one wrote.
BatchesAreAtomic ==
  [][~Idle /\ Idle' =>
       \/ subscribedPolicies' = call.savedMethod /\ subscribedGlobalPolicies' = call.savedGlobal
       \/ /\ call.kind = "add"
          /\ MethodSubsOf(subscribedPolicies') = MethodSubsOf(call.savedMethod) \cup MethodItems
          /\ GlobalSubsOf(subscribedGlobalPolicies') = GlobalSubsOf(call.savedGlobal) \cup GlobalItems
       \/ /\ call.kind = "remove"
          /\ MethodSubsOf(subscribedPolicies') = MethodSubsOf(call.savedMethod) \ MethodItems
          /\ GlobalSubsOf(subscribedGlobalPolicies') = GlobalSubsOf(call.savedGlobal) \ GlobalItems]_vars

Sets ==
  INSTANCE PolicySubscriptions WITH
    approved   <- approvedPolicies,
    dryrun     <- {c \in Consumers : dryrunEnabled[c]},
    methodSubs <- MethodSubsOf(IF Idle THEN subscribedPolicies ELSE call.savedMethod),
    globalSubs <- GlobalSubsOf(IF Idle THEN subscribedGlobalPolicies ELSE call.savedGlobal),
    admin      <- firewallAdmin

\* A batch takes effect as one change of sets or not at all, made by the
\* admin of all its consumers, with approved policies only.
ImplementsSubscriptions == Sets!Spec
=============================================================================
