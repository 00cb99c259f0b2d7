---------------------------- MODULE SubnetFlows ----------------------------
(***************************************************************************)
(* The scripts that set up subnets, protocols and operators on L2: those   *)
(* of scripts/flows and the migrations that deploy a sample policy and a   *)
(* guard.                                                                  *)
(*                                                                         *)
(* A script is a sequence of awaited statements, each a call that reads    *)
(* the chain or a transaction.  Scripts run side by side, a process may    *)
(* die between two statements or stop at a transaction that reverts, and   *)
(* its operator may start the script again from the top.                   *)
(*                                                                         *)
(* Contracts of a policy are numbers in the order of deployment.           *)
(***************************************************************************)
EXTENDS Integers, Sequences, FiniteSets, SequencesExt, TLC

CONSTANTS
  Operators,      \* operators, by address
  MetadataURIs,   \* metadata that policy admins set later
  RequiredLists,  \* lists of required operators put into the scripts, as sets
  Prepaid,        \* whether PREPAID_FUND_AMOUNT_ETH is not zero
  Scenarios,      \* chains to begin with and the scripts that are run on them
  MaxDefinitions, MaxPolicies, MaxHeight, MaxRestarts   \* bounds

Unregistered == "unregistered"

ASSUME FlowAssumption ==
  /\ Unregistered \notin MetadataURIs
  /\ \A list \in RequiredLists : list \subseteq Nat
  /\ MaxDefinitions \in Nat /\ MaxPolicies \in Nat

VARIABLES
  net,        \* the chain, and the sample policy in the deployments file
  processes,  \* one process for each name of the plan
  restarts

flowVars == <<net, processes, restarts>>

Nobody == 0            \* no policy
Original == "original" \* the metadata a protocol is registered with
Ids == 1 .. MaxDefinitions
Policies == 1 .. MaxPolicies
FeeSettings == {"fee", "recipients", "operatorFees"}

(* A mapping with the value of one key written.                            *)
Written(mapping, key, value) ==
  [k \in DOMAIN mapping \cup {key} |-> IF k = key THEN value ELSE mapping[k]]

-----------------------------------------------------------------------------
(* What the calls do to the chain.  An effect is the set of what may come  *)
(* of it, a chain and the caller's values: nothing if the call reverts.    *)

Mined(n) == [n EXCEPT !.height = @ + 1]

Emitted(n, name, policy, metadata) ==
  [ Mined(n) EXCEPT
      !.log = @ \cup {[ name |-> name, policy |-> policy, metadata |-> metadata,
                        block |-> n.height + 1 ]},
      !.metadata[policy] = metadata ]

Sent(ok, n, v) == IF ok THEN {<<n, v>>} ELSE {}

(* The attestation center obeys the multisig of its AVS.                   *)
IsMultisig(n) == n.multisig = "deployer"

restrictedOperatorIndexes == {1, 2}

Predict(n, v) == Sent(IsMultisig(n), n, [v EXCEPT !.id = Len(n.restricted) + 1])

CreateDefinition(n, v) ==
  Sent(IsMultisig(n),
       [Mined(n) EXCEPT !.restricted = Append(@, restrictedOperatorIndexes)],
       [v EXCEPT !.made = @ \cup {Len(n.restricted) + 1}])

SetFee(setting, n, v) ==
  Sent(TRUE, [Mined(n) EXCEPT !.fees[v.id] = @ \cup {setting}], v)

SetRestricted(id, attesters, n, v) ==
  Sent(IsMultisig(n) /\ id <= Len(n.restricted),
       [Mined(n) EXCEPT !.restricted[id] = attesters], v)

TransferMultisig(n, v) ==
  Sent(IsMultisig(n), [Mined(n) EXCEPT !.multisig = "successor"], v)

IsAdmin(n, policy) == policy # Nobody /\ "admin" \in n.setUp[policy]

IsKnown(n, policy) == n.metadata[policy] # Unregistered

(* Required operators are active; in a subnet, they are among its own.     *)
MayVeto(n, id, required) ==
  /\ required \subseteq DOMAIN n.center
  /\ id > 0 => required \subseteq n.restricted[id]

Subscribe(id, required, n, v) ==
  Sent(/\ IsAdmin(n, v.policy) /\ IsKnown(n, v.policy)
       /\ id <= Len(n.restricted) /\ MayVeto(n, id, required),
       [Mined(n) EXCEPT !.subnets[v.policy] = Written(@, id, required)], v)

Unsubscribe(id, n, v) ==
  Sent(IsAdmin(n, v.policy) /\ IsKnown(n, v.policy) /\ id \in DOMAIN n.subnets[v.policy],
       [Mined(n) EXCEPT !.subnets[v.policy] =
          [i \in DOMAIN @ \ {id} |-> @[i]]], v)

TakeSample(n, v) == Sent(n.sample # Nobody, n, [v EXCEPT !.policy = n.sample])

GetProtocol(n, v) == Sent(TRUE, n, [v EXCEPT !.known = IsKnown(n, v.policy)])

Register(n, v) ==
  Sent(IsAdmin(n, v.policy) /\ ~IsKnown(n, v.policy),
       Emitted(n, "ProtocolRegistered", v.policy, Original), v)

RegisterIfUnknown(n, v) == IF v.known THEN Sent(TRUE, n, v) ELSE Register(n, v)

DeployPolicy(n, v) ==
  Sent(TRUE, [Mined(n) EXCEPT !.policies = @ + 1], [v EXCEPT !.policy = n.policies + 1])

SetUp(item, n, v) ==
  Sent(TRUE, [Mined(n) EXCEPT !.setUp[v.policy] = @ \cup {item}], v)

PublishSample(n, v) == Sent(TRUE, [n EXCEPT !.sample = v.policy], v)

(* The id the attestation center knows at this moment, or 0.               *)
OperatorId(n, o) == IF o \in Range(n.center) THEN CHOOSE i \in DOMAIN n.center : n.center[i] = o
                    ELSE 0

RegisterOperator(n, v) ==
  Sent(v.operator \notin DOMAIN n.registry,
       [Mined(n) EXCEPT !.registry = Written(@, v.operator, OperatorId(n, v.operator))], v)

(* The list in the script is empty: the transaction only makes its checks. *)
SubscribeOperators(id, n, v) ==
  Sent(v.operator \in DOMAIN n.registry /\ id <= Len(n.restricted), Mined(n), v)

-----------------------------------------------------------------------------
(* The scripts.                                                            *)

Call(do) == <<do, 0>>
On(do, what) == <<do, what>>

(* Deviation: the id is predicted when the definition has been created.    *)
createSubnet_PredictLast ==
  << Call("createDefinition"), Call("predict"), On("setFee", "fee"),
     On("setFee", "recipients"), On("setFee", "operatorFees") >>

createSubnet ==
  << Call("predict"), Call("createDefinition"), On("setFee", "fee"),
     On("setFee", "recipients"), On("setFee", "operatorFees") >>

registerProtocol ==
  << Call("takeSample"), Call("getProtocol"), Call("registerIfUnknown"),
     On("subscribe", 1) >>

subscribeProtocol == << On("subscribe", 1) >>

unsubscribeProtocol == << On("unsubscribe", 0), On("unsubscribe", 1) >>

setTaskDefinitionRestrictedAttesters == << On("restrict", 1) >>

transferAttestationCenterAdmin == << Call("transferMultisig") >>

registerOperator == << Call("registerOperator"), On("subscribeOperators", 1) >>

SampleItems == <<"admin", "signer", "status">>
ConsumerItems == <<"center proxy", "native fee", "consumer", "global policy">>

(* Deviation: the policy is published before it is connected.              *)
mockTestProtocols_PublishedEarly ==
  << Call("deployPolicy") >>
  \o [i \in 1 .. 3 |-> On("setUp", SampleItems[i])]
  \o << Call("publishSample") >>
  \o [i \in 1 .. 4 |-> On("setUp", ConsumerItems[i])]
  \o << Call("register") >>

(* The consumer that is deployed in between is not used by other scripts.  *)
mockTestProtocols ==
  << Call("deployPolicy") >>
  \o [i \in 1 .. 3 |-> On("setUp", SampleItems[i])]
  \o [i \in 1 .. 4 |-> On("setUp", ConsumerItems[i])]
  \o << Call("register"), Call("publishSample") >>

vennGuard ==
  << Call("deployPolicy"), On("setUp", "admin"), On("setUp", "signer"),
     Call("register"), On("subscribeAny", 1) >>
  \o (IF Prepaid THEN << On("setUp", "funded") >> ELSE <<>>)

Script ==
  [ createSubnet |-> createSubnet, registerProtocol |-> registerProtocol,
    subscribeProtocol |-> subscribeProtocol, unsubscribeProtocol |-> unsubscribeProtocol,
    setTaskDefinitionRestrictedAttesters |-> setTaskDefinitionRestrictedAttesters,
    transferAttestationCenterAdmin |-> transferAttestationCenterAdmin,
    registerOperator |-> registerOperator,
    mockTestProtocols |-> mockTestProtocols, vennGuard |-> vennGuard ]

restrictedAttesters == {1}

Effect(s, n, v) ==
  CASE s[1] = "predict"           -> Predict(n, v)
    [] s[1] = "createDefinition"  -> CreateDefinition(n, v)
    [] s[1] = "setFee"            -> SetFee(s[2], n, v)
    [] s[1] = "restrict"          -> SetRestricted(s[2], restrictedAttesters, n, v)
    [] s[1] = "transferMultisig"  -> TransferMultisig(n, v)
    [] s[1] = "takeSample"        -> TakeSample(n, v)
    [] s[1] = "getProtocol"       -> GetProtocol(n, v)
    [] s[1] = "registerIfUnknown" -> RegisterIfUnknown(n, v)
    [] s[1] = "register"          -> Register(n, v)
    [] s[1] = "subscribe"         -> Subscribe(s[2], v.required, n, v)
    [] s[1] = "subscribeAny"      -> Subscribe(s[2], {}, n, v)
    [] s[1] = "unsubscribe"       -> Unsubscribe(s[2], n, v)
    [] s[1] = "deployPolicy"      -> DeployPolicy(n, v)
    [] s[1] = "setUp"             -> SetUp(s[2], n, v)
    [] s[1] = "publishSample"     -> PublishSample(n, v)
    [] s[1] = "registerOperator"  -> RegisterOperator(n, v)
    [] s[1] = "subscribeOperators" -> SubscribeOperators(s[2], n, v)
    [] OTHER -> {}

-----------------------------------------------------------------------------

Ready(script) ==
  [ script |-> script, at |-> 0, failed |-> FALSE, id |-> 0, made |-> {},
    policy |-> Nobody, known |-> FALSE, required |-> {},
    operator |-> CHOOSE o \in Operators : TRUE ]

FlowInit(scenario) ==
  /\ net = scenario.net
  /\ processes = [p \in DOMAIN scenario.plan |-> Ready(scenario.plan[p])]
  /\ restarts = scenario.restarts

Length(p) == Len(Script[processes[p].script])
Running(p) == processes[p].at \in 1 .. Length(p)
Completed(p) == processes[p].at > Length(p)
Statement(p) == Script[processes[p].script][processes[p].at]
Outcomes(p) == Effect(Statement(p), net, processes[p])

(* What was put into the script by hand: the policy, the required          *)
(* operators, the key of the operator.  A script without them ignores them. *)
Inputs(script) ==
  [ policy : IF script \in {"subscribeProtocol", "unsubscribeProtocol"}
             THEN 1 .. net.policies ELSE {Nobody},
    required : IF script \in {"registerProtocol", "subscribeProtocol"}
               THEN RequiredLists ELSE {{}},
    operator : IF script = "registerOperator" THEN Operators
               ELSE {Ready(script).operator} ]

Started(p) ==
  { [ Ready(processes[p].script) EXCEPT
        !.at = 1, !.made = processes[p].made,
        !.policy = i.policy, !.required = i.required, !.operator = i.operator ] :
    i \in Inputs(processes[p].script) }

Start(p) ==
  /\ processes[p].at = 0 /\ ~processes[p].failed
  /\ \E s \in Started(p) : processes' = [processes EXCEPT ![p] = s]
  /\ UNCHANGED <<net, restarts>>

WithinBounds(n) == Len(n.restricted) <= MaxDefinitions /\ n.policies <= MaxPolicies

Execute(p) ==
  /\ Running(p)
  /\ \E o \in Outcomes(p) :
       /\ WithinBounds(o[1])
       /\ net' = o[1]
       /\ processes' = [processes EXCEPT ![p] = [o[2] EXCEPT !.at = @ + 1]]
  /\ UNCHANGED restarts

Stopped(p) == processes' = [processes EXCEPT ![p] = [@ EXCEPT !.at = 0, !.failed = TRUE]]

Throw(p) ==
  /\ Running(p) /\ Outcomes(p) = {}
  /\ Stopped(p) /\ UNCHANGED <<net, restarts>>

Die(p) ==
  /\ Running(p) /\ restarts < MaxRestarts
  /\ Stopped(p) /\ UNCHANGED <<net, restarts>>

Restart(p) ==
  /\ processes[p].failed /\ restarts < MaxRestarts
  /\ \E s \in Started(p) : processes' = [processes EXCEPT ![p] = s]
  /\ restarts' = restarts + 1
  /\ UNCHANGED net

(* The message from L1 that makes an operator known to the center.         *)
ReceiveOperator(o) ==
  /\ o \notin Range(net.center)
  /\ net' = [Mined(net) EXCEPT !.center = Append(@, o)]
  /\ UNCHANGED <<processes, restarts>>

(* A policy's admin, in a transaction of its own.                          *)
UpdateProtocol(policy, metadata) ==
  /\ net.height < MaxHeight
  /\ IsKnown(net, policy)
  /\ net' = Emitted(net, "ProtocolUpdated", policy, metadata)
  /\ UNCHANGED <<processes, restarts>>

ScriptNext ==
  \/ \E p \in DOMAIN processes : Start(p) \/ Execute(p) \/ Throw(p) \/ Die(p) \/ Restart(p)
  \/ \E policy \in Policies, m \in MetadataURIs : UpdateProtocol(policy, m)

FlowNext == ScriptNext \/ \E o \in Operators : ReceiveOperator(o)

-----------------------------------------------------------------------------

(* Types of the chain.                                                     *)
Events ==
  [ name : {"ProtocolRegistered", "ProtocolUpdated"}, policy : Policies,
    metadata : MetadataURIs \cup {Original}, block : Nat ]

SetUpItems == Range(SampleItems) \cup Range(ConsumerItems) \cup {"funded"}

(* A chain.  An operator has one id, and what is kept about policies and   *)
(* subnets is about those there are.                                       *)
ChainTypeOK(n) ==
  /\ n \in
       [ height : Nat, log : SUBSET Events, multisig : {"deployer", "successor"},
         restricted : Seq(SUBSET Nat), fees : [Ids -> SUBSET FeeSettings],
         center : Seq(Operators), registry : [DOMAIN n.registry -> Nat],
         policies : 0 .. MaxPolicies, sample : 0 .. n.policies,
         setUp : [Policies -> SUBSET SetUpItems],
         metadata : [Policies -> MetadataURIs \cup {Original, Unregistered}],
         subnets : [Policies -> Range(n.subnets)] ]
  /\ Len(n.restricted) <= MaxDefinitions /\ IsInjective(n.center)
  /\ DOMAIN n.registry \subseteq Operators
  /\ \A policy \in Policies :
       /\ IsKnown(n, policy) => policy <= n.policies
       /\ DOMAIN n.subnets[policy] \subseteq 0 .. Len(n.restricted)
       /\ n.subnets[policy] \in [DOMAIN n.subnets[policy] -> SUBSET Nat]

FlowTypeOK ==
  ChainTypeOK(net) /\ \A p \in DOMAIN processes : processes[p].policy \in 0 .. net.policies

(* The sample policy that the other scripts take from the file is set up,  *)
(* connected to its consumer and registered, wherever a migration stopped; *)
(* and all of the chain is of its type.                                    *)
SampleSetUp(n) ==
  n.sample # Nobody =>
    /\ Range(SampleItems) \cup Range(ConsumerItems) \subseteq n.setUp[n.sample]
    /\ IsKnown(n, n.sample)

SampleIsComplete == FlowTypeOK /\ SampleSetUp(net)

(* A subnet that has operator fees has all its fees, whichever runs set    *)
(* them; a run that completed has configured the definition it predicted,  *)
(* and if that is not the one it made, another run made it.                *)
FeesSetUp(n) == \A id \in Ids : "operatorFees" \in n.fees[id] => n.fees[id] = FeeSettings

SubnetsAreComplete ==
  /\ FeesSetUp(net)
  /\ \A p \in DOMAIN processes :
       processes[p].script = "createSubnet" /\ Completed(p) =>
         /\ processes[p].id \in {id \in Ids : net.fees[id] = FeeSettings}
         /\ \/ processes[p].id \in processes[p].made
            \/ \E q \in DOMAIN processes \ {p} : processes[p].id \in processes[q].made
=============================================================================
