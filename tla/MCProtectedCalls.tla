-------------------------- MODULE MCProtectedCalls --------------------------
(***************************************************************************)
(* Small instances of ProtectedCalls for TLC.                              *)
(***************************************************************************)
EXTENDS ProtectedCalls

CONSTANTS alice, bob, router, vault, deposit, execute, p1, other, nobody

MethodOfAll == [d \in Data |-> d]
AdminIsSelf == [c \in Consumers |-> c]
AdminIsOffline == [c \in Consumers |-> nobody]

CallTo(consumer, sender) ==
  [consumer |-> consumer, sender |-> sender, origin |-> alice, data |-> deposit]

\* Any configuration, with the approvals part empty and in service.
WorldsWith(methodLists, globalLists, dryruns, approvedSets, signer) ==
  { [ nonces   |-> [p \in CallPolicies |-> [o \in Origins |-> 0]],
      signers  |-> [p \in CallPolicies |-> {signer}],
      executor |-> [p \in CallPolicies |-> TRUE],
      clients  |-> [p \in CallPolicies |-> Consumers],
      len      |-> [p \in CallPolicies |-> 0],
      slots    |-> [p \in CallPolicies |-> [i \in 1 .. MaxSlots |-> ZeroHash]],
      approved |-> a,
      dryrun   |-> d,
      byMethod |-> [c \in Consumers |-> [m \in Methods |-> ml]],
      global   |-> [c \in Consumers |-> gl],
      firewall |-> [c \in Consumers |-> TRUE],
      log      |-> [p \in CallPolicies |-> [o \in Origins |-> <<>>]],
      spent    |-> {} ] :
    ml \in methodLists, gl \in globalLists, d \in dryruns, a \in approvedSets }

AllDryruns == [Consumers -> BOOLEAN]

NeverDry == {[c \in Consumers |-> FALSE]}

(* Nested: a call of the vault and a call that the vault makes itself,      *)
(* approved in one list; the policy per method, globally, or both.         *)
OuterCall == CallTo(vault, router)
InnerCall == CallTo(vault, vault)
NestedLists == {<<>>, <<OuterCall>>, <<InnerCall, OuterCall>>}
NestedWorlds ==
  WorldsWith({<<p1>>, <<>>}, {<<>>, <<p1>>, <<other>>, <<other, p1>>},
             AllDryruns, {Policies}, router)

(* Signed: approvals signed by bob, submitted by anyone and any number of  *)
(* times; bob, who also administers the policy, changes its settings.      *)
SignedLists == {<<OuterCall>>}
SignedWorlds == WorldsWith({<<p1>>}, {<<>>}, NeverDry, {Policies}, bob)

(* Reconfigured: the vault owns the firewall and is its own admin; its      *)
(* policy is subscribed and approved, and the vault changes that mid-call. *)
(* Of its two functions, execute leaves by an inline assembly return.      *)
ReconfiguredLists == {<<OuterCall>>}
ReconfiguredWorlds == WorldsWith({<<p1>>}, {<<>>}, NeverDry, {Policies}, router)

\* Scope: execute keeps its list of policies; the vault calls it itself, under
\* the firewall, and what it changes is only the firewall slot.
Scope ==
  /\ world.byMethod[vault][execute] = <<p1>>
  /\ \A i \in DOMAIN frames :
       frames[i].call.data = execute =>
         /\ frames[i].hooked /\ frames[i].call.sender = vault
         /\ world \in {[frames[i].saved EXCEPT !.firewall[vault] = b] : b \in BOOLEAN}
=============================================================================
