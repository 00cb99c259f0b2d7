------------------------ MODULE PolicySubscriptions ------------------------
(***************************************************************************)
(* What the firewall's configuration promises, without arrays, loops and   *)
(* reverts: every consumer has sets of policies, changed all at once by an *)
(* account that administers every consumer concerned; a policy enters a    *)
(* set only while the marketplace approves it.                             *)
(***************************************************************************)
CONSTANTS Consumers, Methods, Policies, Accounts

VARIABLES
  approved,     \* policies approved in the marketplace
  dryrun,       \* consumers in dryrun
  methodSubs,   \* <<consumer, method, policy>>
  globalSubs,   \* <<consumer, policy>>
  admin         \* [Consumers -> account or none]

vars == <<approved, dryrun, methodSubs, globalSubs, admin>>

Init ==
  /\ approved = {}
  /\ dryrun = {}
  /\ methodSubs = {}
  /\ globalSubs = {}

SetPolicyStatus(S) ==
  /\ approved' = S
  /\ UNCHANGED <<dryrun, methodSubs, globalSubs, admin>>

SetDryrun(c, S) ==
  /\ S \ {c} = dryrun \ {c}
  /\ admin[c] \in Accounts
  /\ dryrun' = S
  /\ UNCHANGED <<approved, methodSubs, globalSubs, admin>>

\* Account a subscribes the consumers of S to policies, per method.
Subscribe(a, S) ==
  /\ \A s \in S : admin[s[1]] = a /\ s[3] \in approved
  /\ S \cap methodSubs = {}
  /\ methodSubs' = methodSubs \cup S
  /\ UNCHANGED <<approved, dryrun, globalSubs, admin>>

Unsubscribe(a, S) ==
  /\ \A s \in S : admin[s[1]] = a
  /\ S \subseteq methodSubs
  /\ methodSubs' = methodSubs \ S
  /\ UNCHANGED <<approved, dryrun, globalSubs, admin>>

SubscribeGlobally(a, S) ==
  /\ \A s \in S : admin[s[1]] = a /\ s[2] \in approved
  /\ S \cap globalSubs = {}
  /\ globalSubs' = globalSubs \cup S
  /\ UNCHANGED <<approved, dryrun, methodSubs, admin>>

UnsubscribeGlobally(a, S) ==
  /\ \A s \in S : admin[s[1]] = a
  /\ S \subseteq globalSubs
  /\ globalSubs' = globalSubs \ S
  /\ UNCHANGED <<approved, dryrun, methodSubs, admin>>

HandOver(c, a) ==
  /\ admin' = [admin EXCEPT ![c] = a]
  /\ UNCHANGED <<approved, dryrun, methodSubs, globalSubs>>

Next ==
  \/ \E S \in SUBSET Policies : SetPolicyStatus(S)
  \/ \E c \in Consumers : \E S \in SUBSET Consumers : SetDryrun(c, S)
  \/ \E a \in Accounts :
       \/ \E S \in SUBSET (Consumers \X Methods \X Policies) :
            Subscribe(a, S) \/ Unsubscribe(a, S)
       \/ \E S \in SUBSET (Consumers \X Policies) :
            SubscribeGlobally(a, S) \/ UnsubscribeGlobally(a, S)
       \/ \E c \in Consumers : HandOver(c, a)

Spec == Init /\ [][Next]_vars
=============================================================================
