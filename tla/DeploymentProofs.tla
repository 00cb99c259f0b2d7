-------------------------- MODULE DeploymentProofs --------------------------
(***************************************************************************)
(* Theorems about the deployment, for every chain, every set of ranges     *)
(* started at will, any number of them and of crashes.                     *)
(*                                                                         *)
(* The migrations are data, so their part of the argument is read off each *)
(* of them once (Disciplined, Owns): names are bound before they are used, *)
(* a proxy is initialized next, the admin has its role before the address  *)
(* is published, and what a migration owns no other one writes.  The rest  *)
(* speaks of any disciplined program: what an executed statement left true *)
(* (Holds) no later statement of the migration undoes, and what completed  *)
(* migrations left (HistoryOK) no statement of another one undoes.         *)
(***************************************************************************)
EXTENDS Deployment, SequenceTheorems, WellFoundedInduction, TLAPS

-----------------------------------------------------------------------------
(* What the programs have in common                                        *)

Addressed == Names \ {"StartBlock"}

Reading  == {"configured", "deployed", "fromFile", "blockNumber", "obls"}
Creating == {"proxy", "deploy", "create", "factory"}
Changing == {"initialize", "grantAdmin", "grantRole", "point", "open",
             "transferOwnership"}
Wiring   == {"deploy", "create", "factory", "initialize", "point"}

\* The names a statement binds; the contracts it leaves ready; the names it
\* saves the address of; the names it speaks of.
Binds(s) ==
  CASE s.do = "deployed" -> s.needs
    [] s.do \in {"fromFile", "blockNumber", "proxy", "deploy", "create"} -> {s.on}
    [] s.do = "factory" -> {s.on, "OBLS"}
    [] s.do = "obls" -> {"OBLS"}
    [] OTHER -> {}

Makes(s) ==
  CASE s.do \in {"deploy", "create", "initialize"} -> {s.on}
    [] s.do = "factory" -> {s.on, "OBLS"}
    [] OTHER -> {}

Stores(s) == IF s.do \in {"proxy", "deploy", "save"} THEN {s.on} ELSE {}

Speaks(s) == s.needs \cup Binds(s) \cup Range(s.keys)

StatementOK(s) ==
  /\ s = [do |-> s.do, on |-> s.on, needs |-> s.needs, keys |-> s.keys]
  /\ s.do \in Reading \cup Creating \cup Changing \cup {"save", "publish"}
  /\ s.needs \subseteq Addressed
  /\ s.do \notin {"configured", "deployed", "blockNumber", "publish"} => s.on \in Addressed
  /\ s.do \in Changing \cup {"save", "obls"} => s.on \in s.needs
  /\ s.do = "blockNumber" => s.on = "StartBlock"
  /\ s.do = "fromFile" => s.on = "AvsGovernance"
  /\ s.do = "obls" => s.on = "AttestationCenter"
  /\ s.do = "factory" <=> s.do \in Creating /\ s.on \in {"AvsGovernance", "AttestationCenter"}
  /\ s.do \in Creating => s.on # "OBLS" /\ s.on \notin s.needs
  /\ s.do = "factory" => "OBLS" \notin s.needs
  /\ s.do = "publish" =>
       /\ s.on \in {"L1", "L2"}
       /\ s.keys = [k \in DOMAIN s.keys |-> s.keys[k]]
       /\ \A k \in DOMAIN s.keys : s.keys[k] \in Names
  /\ s.do # "publish" => DOMAIN s.keys = {}

DisciplinedAt(p, i) ==
  /\ StatementOK(p[i])
  /\ \A j \in 1 .. i - 1 :
       /\ Binds(p[i]) \cap Speaks(p[j]) = {}
       /\ p[i].do \in {"initialize", "point"} /\ p[j].do \in Wiring => p[j].on # p[i].on
       /\ p[i].do = "publish" => p[j].do # "publish"
       /\ p[i].do = "blockNumber" => p[j].do \notin Creating
  /\ p[i].do = "initialize" =>
       i > 1 /\ p[i - 1].do = "proxy" /\ p[i - 1].on = p[i].on
  /\ p[i].do \in {"grantAdmin", "transferOwnership"} =>
       \E j \in 1 .. i - 1 : p[i].on \in Makes(p[j])
  /\ p[i].do = "publish" => \A k \in DOMAIN p[i].keys \ {"StartBlock"} :
       /\ p[i].keys[k] # "StartBlock"
       /\ \E j \in 1 .. i - 1 : p[i].keys[k] \in Makes(p[j])
       /\ \E j \in 1 .. i - 1 : p[j].do \in Creating /\ p[i].keys[k] \in Binds(p[j])
       /\ k \in Administered => \E j \in 1 .. i - 1 :
            p[j].do \in {"grantAdmin", "transferOwnership"} /\ p[j].on = p[i].keys[k]
  /\ p[i].do = "publish" => \A k \in DOMAIN p[i].keys :
       k = "StartBlock" <=> p[i].keys[k] = "StartBlock"

Disciplined(p) == \A i \in 1 .. Len(p) : DisciplinedAt(p, i)

\* The fields of a statement.
LEMMA Statements ==
  ASSUME NEW do, NEW on, NEW needs, NEW keys
  PROVE  LET s == Statement(do, on, needs, keys) IN
    s.do = do /\ s.on = on /\ s.needs = needs /\ s.keys = keys
    /\ s = [do |-> s.do, on |-> s.on, needs |-> s.needs, keys |-> s.keys]
BY DEF Statement

\* Each statement of L1Avs, in its place.
LEMMA L1AvsDisciplined == Disciplined(L1Avs)
<1> USE Statements DEF L1Avs, Configured, BlockNumber, Factory, Save,
      Publish, Empty, Same
<1>0. Len(L1Avs) = 5 /\ \A i \in 1 .. 5 : StatementOK(L1Avs[i])
  BY DEF StatementOK, Addressed, Names, Reading, Creating, Changing
<1> USE <1>0 DEF DisciplinedAt, Wiring, Speaks, Binds, Creating, Range, Makes, Administered
<1>1. DisciplinedAt(L1Avs, 1)
  OBVIOUS
<1>2. DisciplinedAt(L1Avs, 2)
  OBVIOUS
<1>3. DisciplinedAt(L1Avs, 3)
  OBVIOUS
<1>4. DisciplinedAt(L1Avs, 4)
  OBVIOUS
<1>5. DisciplinedAt(L1Avs, 5)
  OBVIOUS
<1> HIDE Statements DEF L1Avs, DisciplinedAt
<1> QED
  BY <1>1, <1>2, <1>3, <1>4, <1>5 DEF Disciplined

\* Each statement of L1Facets, in its place.
LEMMA L1FacetsDisciplined == Disciplined(L1Facets)
<1> USE Statements DEF L1Facets, Deployed, Deploy, Publish, Empty, Same
<1>0. Len(L1Facets) = 3 /\ \A i \in 1 .. 3 : StatementOK(L1Facets[i])
  BY DEF StatementOK, Addressed, Names, Reading, Creating, Changing
<1> USE <1>0 DEF DisciplinedAt, Wiring, Speaks, Binds, Creating, Range, Makes, Administered
<1>1. DisciplinedAt(L1Facets, 1)
  OBVIOUS
<1>2. DisciplinedAt(L1Facets, 2)
  OBVIOUS
<1>3. DisciplinedAt(L1Facets, 3)
  OBVIOUS
<1> HIDE Statements DEF L1Facets, DisciplinedAt
<1> QED
  BY <1>1, <1>2, <1>3 DEF Disciplined

\* Each statement of VennStakingStrategy, in its place.
LEMMA VennStakingStrategyDisciplined == Disciplined(VennStakingStrategy)
<1> USE Statements DEF VennStakingStrategy, Proxy, Initialize, Configured,
      Create, FromFile, Point, Publish, Empty
<1>0. Len(VennStakingStrategy) = 7 /\ \A i \in 1 .. 7 : StatementOK(VennStakingStrategy[i])
  BY DEF StatementOK, Addressed, Names, Reading, Creating, Changing
<1> USE <1>0 DEF DisciplinedAt, Wiring, Speaks, Binds, Creating, Range, Makes, Administered
<1>1. DisciplinedAt(VennStakingStrategy, 1)
  OBVIOUS
<1>2. DisciplinedAt(VennStakingStrategy, 2)
  OBVIOUS
<1>3. DisciplinedAt(VennStakingStrategy, 3)
  OBVIOUS
<1>4. DisciplinedAt(VennStakingStrategy, 4)
  OBVIOUS
<1>5. DisciplinedAt(VennStakingStrategy, 5)
  OBVIOUS
<1>6. DisciplinedAt(VennStakingStrategy, 6)
  OBVIOUS
<1>7. DisciplinedAt(VennStakingStrategy, 7)
  OBVIOUS
<1> HIDE Statements DEF VennStakingStrategy, DisciplinedAt
<1> QED
  BY <1>1, <1>2, <1>3, <1>4, <1>5, <1>6, <1>7 DEF Disciplined

\* Each statement of VennToken, in its place.
LEMMA VennTokenDisciplined == Disciplined(VennToken)
<1> USE Statements DEF VennToken, BlockNumber, Proxy, Initialize, Publish,
      Empty
<1>0. Len(VennToken) = 4 /\ \A i \in 1 .. 4 : StatementOK(VennToken[i])
  BY DEF StatementOK, Addressed, Names, Reading, Creating, Changing
<1> USE <1>0 DEF DisciplinedAt, Wiring, Speaks, Binds, Creating, Range, Makes, Administered
<1>1. DisciplinedAt(VennToken, 1)
  OBVIOUS
<1>2. DisciplinedAt(VennToken, 2)
  OBVIOUS
<1>3. DisciplinedAt(VennToken, 3)
  OBVIOUS
<1>4. DisciplinedAt(VennToken, 4)
  OBVIOUS
<1> HIDE Statements DEF VennToken, DisciplinedAt
<1> QED
  BY <1>1, <1>2, <1>3, <1>4 DEF Disciplined

\* Each statement of VennVaultL2, in its place.
LEMMA VennVaultL2Disciplined == Disciplined(VennVaultL2)
<1> USE Statements DEF VennVaultL2, Deployed, Proxy, Initialize,
      GrantAdmin, Publish, Empty, Same
<1>0. Len(VennVaultL2) = 5 /\ \A i \in 1 .. 5 : StatementOK(VennVaultL2[i])
  BY DEF StatementOK, Addressed, Names, Reading, Creating, Changing
<1> USE <1>0 DEF DisciplinedAt, Wiring, Speaks, Binds, Creating, Range, Makes, Administered
<1>1. DisciplinedAt(VennVaultL2, 1)
  OBVIOUS
<1>2. DisciplinedAt(VennVaultL2, 2)
  OBVIOUS
<1>3. DisciplinedAt(VennVaultL2, 3)
  OBVIOUS
<1>4. DisciplinedAt(VennVaultL2, 4)
  OBVIOUS
<1>5. DisciplinedAt(VennVaultL2, 5)
  OBVIOUS
<1> HIDE Statements DEF VennVaultL2, DisciplinedAt
<1> QED
  BY <1>1, <1>2, <1>3, <1>4, <1>5 DEF Disciplined

\* Each statement of L2Avs, in its place.
LEMMA L2AvsDisciplined == Disciplined(L2Avs)
<1> USE Statements DEF L2Avs, Configured, Deployed, Factory, Deploy, Save,
      Publish, Empty, Same
<1>0. Len(L2Avs) = 6 /\ \A i \in 1 .. 6 : StatementOK(L2Avs[i])
  BY DEF StatementOK, Addressed, Names, Reading, Creating, Changing
<1> USE <1>0 DEF DisciplinedAt, Wiring, Speaks, Binds, Creating, Range, Makes, Administered
<1>1. DisciplinedAt(L2Avs, 1)
  OBVIOUS
<1>2. DisciplinedAt(L2Avs, 2)
  OBVIOUS
<1>3. DisciplinedAt(L2Avs, 3)
  OBVIOUS
<1>4. DisciplinedAt(L2Avs, 4)
  OBVIOUS
<1>5. DisciplinedAt(L2Avs, 5)
  OBVIOUS
<1>6. DisciplinedAt(L2Avs, 6)
  OBVIOUS
<1> HIDE Statements DEF L2Avs, DisciplinedAt
<1> QED
  BY <1>1, <1>2, <1>3, <1>4, <1>5, <1>6 DEF Disciplined

\* Each statement of FirewallMigration, in its place.
LEMMA FirewallMigrationDisciplined == Disciplined(FirewallMigration)
<1> USE Statements DEF FirewallMigration, Proxy, Initialize, Publish,
      Empty, Same
<1>0. Len(FirewallMigration) = 3 /\ \A i \in 1 .. 3 : StatementOK(FirewallMigration[i])
  BY DEF StatementOK, Addressed, Names, Reading, Creating, Changing
<1> USE <1>0 DEF DisciplinedAt, Wiring, Speaks, Binds, Creating, Range, Makes, Administered
<1>1. DisciplinedAt(FirewallMigration, 1)
  OBVIOUS
<1>2. DisciplinedAt(FirewallMigration, 2)
  OBVIOUS
<1>3. DisciplinedAt(FirewallMigration, 3)
  OBVIOUS
<1> HIDE Statements DEF FirewallMigration, DisciplinedAt
<1> QED
  BY <1>1, <1>2, <1>3 DEF Disciplined

\* Each statement of ProtocolRegistry, in its place.
LEMMA ProtocolRegistryDisciplined == Disciplined(ProtocolRegistry)
<1> USE Statements DEF ProtocolRegistry, Deployed, Proxy, Initialize,
      GrantAdmin, Publish, Empty, Same
<1>0. Len(ProtocolRegistry) = 5 /\ \A i \in 1 .. 5 : StatementOK(ProtocolRegistry[i])
  BY DEF StatementOK, Addressed, Names, Reading, Creating, Changing
<1> USE <1>0 DEF DisciplinedAt, Wiring, Speaks, Binds, Creating, Range, Makes, Administered
<1>1. DisciplinedAt(ProtocolRegistry, 1)
  OBVIOUS
<1>2. DisciplinedAt(ProtocolRegistry, 2)
  OBVIOUS
<1>3. DisciplinedAt(ProtocolRegistry, 3)
  OBVIOUS
<1>4. DisciplinedAt(ProtocolRegistry, 4)
  OBVIOUS
<1>5. DisciplinedAt(ProtocolRegistry, 5)
  OBVIOUS
<1> HIDE Statements DEF ProtocolRegistry, DisciplinedAt
<1> QED
  BY <1>1, <1>2, <1>3, <1>4, <1>5 DEF Disciplined

\* Each statement of OperatorRegistry, in its place.
LEMMA OperatorRegistryDisciplined == Disciplined(OperatorRegistry)
<1> USE Statements DEF OperatorRegistry, Deployed, Proxy, Initialize,
      GrantAdmin, Publish, Empty, Same
<1>0. Len(OperatorRegistry) = 5 /\ \A i \in 1 .. 5 : StatementOK(OperatorRegistry[i])
  BY DEF StatementOK, Addressed, Names, Reading, Creating, Changing
<1> USE <1>0 DEF DisciplinedAt, Wiring, Speaks, Binds, Creating, Range, Makes, Administered
<1>1. DisciplinedAt(OperatorRegistry, 1)
  OBVIOUS
<1>2. DisciplinedAt(OperatorRegistry, 2)
  OBVIOUS
<1>3. DisciplinedAt(OperatorRegistry, 3)
  OBVIOUS
<1>4. DisciplinedAt(OperatorRegistry, 4)
  OBVIOUS
<1>5. DisciplinedAt(OperatorRegistry, 5)
  OBVIOUS
<1> HIDE Statements DEF OperatorRegistry, DisciplinedAt
<1> QED
  BY <1>1, <1>2, <1>3, <1>4, <1>5 DEF Disciplined

\* Each statement of VennFeeCalculator, in its place.
LEMMA VennFeeCalculatorDisciplined == Disciplined(VennFeeCalculator)
<1> USE Statements DEF VennFeeCalculator, Deployed, Proxy, Initialize,
      GrantAdmin, Point, Publish, Empty, Same
<1>0. Len(VennFeeCalculator) = 6 /\ \A i \in 1 .. 6 : StatementOK(VennFeeCalculator[i])
  BY DEF StatementOK, Addressed, Names, Reading, Creating, Changing
<1> USE <1>0 DEF DisciplinedAt, Wiring, Speaks, Binds, Creating, Range, Makes, Administered
<1>1. DisciplinedAt(VennFeeCalculator, 1)
  OBVIOUS
<1>2. DisciplinedAt(VennFeeCalculator, 2)
  OBVIOUS
<1>3. DisciplinedAt(VennFeeCalculator, 3)
  OBVIOUS
<1>4. DisciplinedAt(VennFeeCalculator, 4)
  OBVIOUS
<1>5. DisciplinedAt(VennFeeCalculator, 5)
  OBVIOUS
<1>6. DisciplinedAt(VennFeeCalculator, 6)
  OBVIOUS
<1> HIDE Statements DEF VennFeeCalculator, DisciplinedAt
<1> QED
  BY <1>1, <1>2, <1>3, <1>4, <1>5, <1>6 DEF Disciplined

\* Each statement of FeePool, in its place.
LEMMA FeePoolDisciplined == Disciplined(FeePool)
<1> USE Statements DEF FeePool, Deployed, Proxy, Initialize, GrantAdmin,
      Publish, Empty, Same
<1>0. Len(FeePool) = 5 /\ \A i \in 1 .. 5 : StatementOK(FeePool[i])
  BY DEF StatementOK, Addressed, Names, Reading, Creating, Changing
<1> USE <1>0 DEF DisciplinedAt, Wiring, Speaks, Binds, Creating, Range, Makes, Administered
<1>1. DisciplinedAt(FeePool, 1)
  OBVIOUS
<1>2. DisciplinedAt(FeePool, 2)
  OBVIOUS
<1>3. DisciplinedAt(FeePool, 3)
  OBVIOUS
<1>4. DisciplinedAt(FeePool, 4)
  OBVIOUS
<1>5. DisciplinedAt(FeePool, 5)
  OBVIOUS
<1> HIDE Statements DEF FeePool, DisciplinedAt
<1> QED
  BY <1>1, <1>2, <1>3, <1>4, <1>5 DEF Disciplined

\* Each statement of VennAvsLogic, in its place.
LEMMA VennAvsLogicDisciplined == Disciplined(VennAvsLogic)
<1> USE Statements DEF VennAvsLogic, Deployed, Deploy, GrantAdmin, Point,
      Publish, Empty, Same
<1>0. Len(VennAvsLogic) = 5 /\ \A i \in 1 .. 5 : StatementOK(VennAvsLogic[i])
  BY DEF StatementOK, Addressed, Names, Reading, Creating, Changing
<1> USE <1>0 DEF DisciplinedAt, Wiring, Speaks, Binds, Creating, Range, Makes, Administered
<1>1. DisciplinedAt(VennAvsLogic, 1)
  OBVIOUS
<1>2. DisciplinedAt(VennAvsLogic, 2)
  OBVIOUS
<1>3. DisciplinedAt(VennAvsLogic, 3)
  OBVIOUS
<1>4. DisciplinedAt(VennAvsLogic, 4)
  OBVIOUS
<1>5. DisciplinedAt(VennAvsLogic, 5)
  OBVIOUS
<1> HIDE Statements DEF VennAvsLogic, DisciplinedAt
<1> QED
  BY <1>1, <1>2, <1>3, <1>4, <1>5 DEF Disciplined

\* Each statement of AttestationCenterProxy, in its place.
LEMMA AttestationCenterProxyDisciplined == Disciplined(AttestationCenterProxy)
<1> USE Statements DEF AttestationCenterProxy, Deployed, Proxy, Initialize,
      Open, GrantAdmin, Publish, Empty, Same
<1>0. Len(AttestationCenterProxy) = 6 /\ \A i \in 1 .. 6 : StatementOK(AttestationCenterProxy[i])
  BY DEF StatementOK, Addressed, Names, Reading, Creating, Changing
<1> USE <1>0 DEF DisciplinedAt, Wiring, Speaks, Binds, Creating, Range, Makes, Administered
<1>1. DisciplinedAt(AttestationCenterProxy, 1)
  OBVIOUS
<1>2. DisciplinedAt(AttestationCenterProxy, 2)
  OBVIOUS
<1>3. DisciplinedAt(AttestationCenterProxy, 3)
  OBVIOUS
<1>4. DisciplinedAt(AttestationCenterProxy, 4)
  OBVIOUS
<1>5. DisciplinedAt(AttestationCenterProxy, 5)
  OBVIOUS
<1>6. DisciplinedAt(AttestationCenterProxy, 6)
  OBVIOUS
<1> HIDE Statements DEF AttestationCenterProxy, DisciplinedAt
<1> QED
  BY <1>1, <1>2, <1>3, <1>4, <1>5, <1>6 DEF Disciplined

\* Each statement of Dependencies, in its place.
LEMMA DependenciesDisciplined == Disciplined(Dependencies)
<1> USE Statements DEF Dependencies, Deployed, GrantRole, Empty
<1>0. Len(Dependencies) = 3 /\ \A i \in 1 .. 3 : StatementOK(Dependencies[i])
  BY DEF StatementOK, Addressed, Names, Reading, Creating, Changing
<1> USE <1>0 DEF DisciplinedAt, Wiring, Speaks, Binds, Creating, Range, Makes
<1>1. DisciplinedAt(Dependencies, 1)
  OBVIOUS
<1>2. DisciplinedAt(Dependencies, 2)
  OBVIOUS
<1>3. DisciplinedAt(Dependencies, 3)
  OBVIOUS
<1> HIDE Statements DEF Dependencies, DisciplinedAt
<1> QED
  BY <1>1, <1>2, <1>3 DEF Disciplined

\* Each statement of VotingPowerSyncer, in its place.
LEMMA VotingPowerSyncerDisciplined == Disciplined(VotingPowerSyncer)
<1> USE Statements DEF VotingPowerSyncer, Deployed, Obls, Deploy,
      TransferOwnership, Point, Publish, Empty, Same
<1>0. Len(VotingPowerSyncer) = 6 /\ \A i \in 1 .. 6 : StatementOK(VotingPowerSyncer[i])
  BY DEF StatementOK, Addressed, Names, Reading, Creating, Changing
<1> USE <1>0 DEF DisciplinedAt, Wiring, Speaks, Binds, Creating, Range, Makes, Administered
<1>1. DisciplinedAt(VotingPowerSyncer, 1)
  OBVIOUS
<1>2. DisciplinedAt(VotingPowerSyncer, 2)
  OBVIOUS
<1>3. DisciplinedAt(VotingPowerSyncer, 3)
  OBVIOUS
<1>4. DisciplinedAt(VotingPowerSyncer, 4)
  OBVIOUS
<1>5. DisciplinedAt(VotingPowerSyncer, 5)
  OBVIOUS
<1>6. DisciplinedAt(VotingPowerSyncer, 6)
  OBVIOUS
<1> HIDE Statements DEF VotingPowerSyncer, DisciplinedAt
<1> QED
  BY <1>1, <1>2, <1>3, <1>4, <1>5, <1>6 DEF Disciplined

\* Each statement of Report, in its place.
LEMMA ReportDisciplined == Disciplined(Report)
<1> USE Statements DEF Report, Deployed, Empty
<1>0. Len(Report) = 1 /\ \A i \in 1 .. 1 : StatementOK(Report[i])
  BY DEF StatementOK, Addressed, Names, Reading, Creating, Changing
<1> USE <1>0 DEF DisciplinedAt, Wiring, Speaks, Binds, Creating, Range, Makes
<1>1. DisciplinedAt(Report, 1)
  OBVIOUS
<1> HIDE Statements DEF Report, DisciplinedAt
<1> QED
  BY <1>1 DEF Disciplined

-----------------------------------------------------------------------------
(* Whose they are: each name that the section of L2 lists is published by  *)
(* one migration, which alone saves it (VennToken is saved by two) and     *)
(* alone points the attestation center to it.                              *)

Owner == [ StartBlock |-> 4, VennTokenL2 |-> 4, VennVaultL2 |-> 5,
           AttestationCenter |-> 6, OBLS |-> 6, Firewall |-> 7,
           ProtocolRegistry |-> 8, OperatorRegistry |-> 9,
           VennFeeCalculator |-> 10, FeePool |-> 11, VennAvsLogic |-> 12,
           AttestationCenterProxy |-> 13, VotingPowerSyncer |-> 15 ]

OwnedOnL1 == {"StartBlock", "AvsGovernance", "AvsGovernanceFacet",
              "VennTokenL1", "VennStakingStrategy"}

Owned(m, s) ==
  /\ \A n \in Stores(s) :
       \/ n \in {"AvsGovernance", "AvsGovernanceFacet", "AttestationCenterFacet"}
       \/ n = "VennToken" /\ m \in {3, 4}
       \/ n \in DOMAIN Owner /\ Owner[n] = m
  /\ s.do = "publish" => \A k \in DOMAIN s.keys :
       /\ s.keys[k] = NameOf(k)
       /\ s.on = "L1" => k \in OwnedOnL1
       /\ s.on = "L2" => k \in DOMAIN Owner /\ Owner[k] = m
  /\ s.do = "point" =>
       /\ s.on \in {"AvsGovernance", "AttestationCenter"}
       /\ s.on = "AttestationCenter" =>
            \A to \in s.needs \ {s.on} : to \in DOMAIN Owner /\ Owner[to] = m

Owns(m, p) == \A i \in 1 .. Len(p) : Owned(m, p[i])

-----------------------------------------------------------------------------
(* The inductive invariant                                                 *)

Maps == UNION { [S -> Nat] : S \in SUBSET Names }

Contracts ==
  [ kind : Addressed, ready : BOOLEAN, roles : SUBSET Nat, open : BOOLEAN,
    uses : Maps, admins : SUBSET {Deployer, adminAddress} ]

\* An address of a contract that was deployed as n.
Is(a, n) == a \in 1 .. Len(contracts) /\ contracts[a].kind = n

ContractsOK ==
  /\ contracts \in Seq(Contracts)
  /\ \A a \in 1 .. Len(contracts) :
       /\ contracts[a].roles \subseteq 1 .. Len(contracts)
       /\ \A x \in DOMAIN contracts[a].uses : Is(contracts[a].uses[x], x)
       /\ contracts[a].kind \in {"AvsGovernance", "AttestationCenter"} => contracts[a].ready
       /\ contracts[a].kind = "AttestationCenter" => "OBLS" \in DOMAIN contracts[a].uses

StorageOK ==
  /\ storage \in [Names -> Nat]
  /\ storage["StartBlock"] = Undefined
  /\ \A n \in Addressed : storage[n] # Undefined => Is(storage[n], n)

\* A contract that may be listed under the key.
Ready(a, key) ==
  /\ Is(a, NameOf(key)) /\ contracts[a].ready
  /\ key \in Administered => adminAddress \in contracts[a].admins

SectionOK(section, keys) ==
  /\ section = [k \in DOMAIN section |-> section[k]]
  /\ DOMAIN section \subseteq keys
  /\ \A k \in DOMAIN section :
       IF k = "StartBlock" THEN section[k] \in 0 .. Len(contracts) + 1
                           ELSE Ready(section[k], k)

FileOK ==
  /\ deployments = [s \in {"L1", "L2"} |-> deployments[s]]
  /\ SectionOK(deployments["L1"], OwnedOnL1)
  /\ SectionOK(deployments["L2"], DOMAIN Owner)

(* What a statement that was executed leaves true until the migration ends *)
Defines(s) ==
  /\ \A n \in (s.needs \cup Binds(s)) \cap Addressed : process.values[n] # Undefined
  /\ s.do = "deployed" => \A n \in s.needs : storage[n] = process.values[n]
  /\ \A n \in Stores(s) : storage[n] = process.values[n]
  /\ s.do = "publish" => \A k \in DOMAIN s.keys :
       k \in DOMAIN deployments[s.on] /\ deployments[s.on][k] = process.values[s.keys[k]]

IsNew(s) == s.do \in Creating => \A n \in Binds(s) :
  /\ process.values["StartBlock"] <= process.values[n]
  /\ 4 \in Completed(finished) => Entry("L2", "StartBlock") <= process.values[n]

Target(s) == contracts[process.values[s.on]]

Wires(s) ==
  /\ \A n \in Makes(s) : contracts[process.values[n]].ready
  /\ s.do \in Wiring => \A x \in s.needs \ {s.on} :
       x \in DOMAIN Target(s).uses /\ Target(s).uses[x] = process.values[x]
  /\ s.do \in {"grantAdmin", "transferOwnership"} =>
       Target(s).ready /\ adminAddress \in Target(s).admins
  /\ s.do = "grantRole" => \A x \in s.needs \ {s.on} : process.values[x] \in Target(s).roles
  /\ s.do = "open" => Target(s).open

Holds(s) == Defines(s) /\ IsNew(s) /\ Wires(s)

Code == Program[process.migration]

ValuesOK ==
  /\ process = [migration |-> process.migration, last |-> process.last, at |-> process.at,
                avsName |-> process.avsName, values |-> process.values]
  /\ process.values \in [Names -> Nat]
  /\ process.values["StartBlock"] <= Len(contracts) + 1
  /\ \A n \in Addressed : process.values[n] # Undefined => Is(process.values[n], n)

ProgressOK == Running =>
  /\ process.migration \in Migrations /\ process.last \in Migrations
  /\ process.migration <= process.last
  /\ process.migration \notin Completed(finished)
  /\ process.at \in 1 .. Len(Code) + 1
  /\ \A j \in 1 .. process.at - 1 : Holds(Code[j])
  /\ process.at > 1 /\ Code[process.at - 1].do = "proxy" =>
       ~Target(Code[process.at - 1]).ready

FinishedOK ==
  /\ finished \subseteq Migrations \X Migrations
  /\ \A k, m \in Migrations : <<k, m>> \in finished =>
       <<k, k>> \in finished /\ <<m, m>> \in finished

-----------------------------------------------------------------------------
(* What completed migrations leave, until one of them is started again.    *)

After(k, m) == <<k, m>> \in finished

ListsOwn == \A key \in DOMAIN Owner :
  After(Owner[key], Owner[key]) => key \in DOMAIN deployments["L2"]

SavesOwn == \A key \in DOMAIN Owner \ {"StartBlock", "OBLS"} :
  After(Owner[key], Owner[key]) /\ (key = "VennTokenL2" => After(3, 4)) =>
    storage[NameOf(key)] = Entry("L2", key)

\* The migration that completes a link, and the other one.
Turns(key, name) ==
  IF Owner[Key(name)] > Owner[key] THEN <<Owner[key], Owner[Key(name)]>>
                                   ELSE <<Owner[Key(name)], Owner[key]>>

Linked(key, name) ==
  name \in DOMAIN L2(key).uses /\ L2(key).uses[name] = Entry("L2", Key(name))

LinkDue(key, name) ==
  /\ After(Turns(key, name)[1], Turns(key, name)[2])
  /\ name = "VennToken" => After(3, 4)

Links == \A key \in DOMAIN Uses : \A name \in Uses[key] :
  LinkDue(key, name) => Linked(key, name)

Roles ==
  /\ After(10, 14) /\ After(11, 14) => Entry("L2", "FeePool") \in L2("VennFeeCalculator").roles
  /\ After(11, 14) /\ After(12, 14) => Entry("L2", "VennAvsLogic") \in L2("FeePool").roles

Opened == After(6, 13) => L2("AttestationCenter").open

Newer == \A key \in DOMAIN Owner :
  After(4, Owner[key]) => Entry("L2", "StartBlock") <= Entry("L2", key)

HistoryOK == ListsOwn /\ SavesOwn /\ Links /\ Roles /\ Opened /\ Newer

DeploymentInv ==
  /\ network \in Networks
  /\ ContractsOK /\ StorageOK /\ FileOK /\ ValuesOK /\ ProgressOK
  /\ FinishedOK /\ HistoryOK

\* The migrations by number.
LEMMA ProgramsAre ==
  /\ Migrations = 1 .. 16
  /\ Program[1] = L1Avs
  /\ Program[2] = L1Facets
  /\ Program[3] = VennStakingStrategy
  /\ Program[4] = VennToken
  /\ Program[5] = VennVaultL2
  /\ Program[6] = L2Avs
  /\ Program[7] = FirewallMigration
  /\ Program[8] = ProtocolRegistry
  /\ Program[9] = OperatorRegistry
  /\ Program[10] = VennFeeCalculator
  /\ Program[11] = FeePool
  /\ Program[12] = VennAvsLogic
  /\ Program[13] = AttestationCenterProxy
  /\ Program[14] = Dependencies
  /\ Program[15] = VotingPowerSyncer
  /\ Program[16] = Report
BY DEF Program, Migrations

\* Every migration is disciplined.
LEMMA AllDisciplined ==
  ASSUME NEW m \in Migrations
  PROVE  Disciplined(Program[m])
BY ProgramsAre, L1AvsDisciplined, L1FacetsDisciplined,
      VennStakingStrategyDisciplined, VennTokenDisciplined,
      VennVaultL2Disciplined, L2AvsDisciplined,
      FirewallMigrationDisciplined, ProtocolRegistryDisciplined,
      OperatorRegistryDisciplined, VennFeeCalculatorDisciplined,
      FeePoolDisciplined, VennAvsLogicDisciplined,
      AttestationCenterProxyDisciplined, DependenciesDisciplined,
      VotingPowerSyncerDisciplined, ReportDisciplined

\* Every migration saves, publishes and points to what it owns.
LEMMA AllOwned ==
  ASSUME NEW m \in Migrations
  PROVE  Owns(m, Program[m])
<1> USE Statements DEF Owns, Owned, Stores, Owner, OwnedOnL1, NameOf
<1>1. Owns(1, L1Avs)
  BY DEF L1Avs, Configured, BlockNumber, Factory, Save, Publish, Empty,
      Same
<1>2. Owns(2, L1Facets)
  BY DEF L1Facets, Deployed, Deploy, Publish, Empty, Same
<1>3. Owns(3, VennStakingStrategy)
  BY DEF VennStakingStrategy, Proxy, Initialize, Configured, Create,
      FromFile, Point, Publish, Empty
<1>4. Owns(4, VennToken)
  BY DEF VennToken, BlockNumber, Proxy, Initialize, Publish, Empty
<1>5. Owns(5, VennVaultL2)
  BY DEF VennVaultL2, Deployed, Proxy, Initialize, GrantAdmin, Publish,
      Empty, Same
<1>6. Owns(6, L2Avs)
  BY DEF L2Avs, Configured, Deployed, Factory, Deploy, Save, Publish,
      Empty, Same
<1>7. Owns(7, FirewallMigration)
  BY DEF FirewallMigration, Proxy, Initialize, Publish, Empty, Same
<1>8. Owns(8, ProtocolRegistry)
  BY DEF ProtocolRegistry, Deployed, Proxy, Initialize, GrantAdmin,
      Publish, Empty, Same
<1>9. Owns(9, OperatorRegistry)
  BY DEF OperatorRegistry, Deployed, Proxy, Initialize, GrantAdmin,
      Publish, Empty, Same
<1>10. Owns(10, VennFeeCalculator)
  BY DEF VennFeeCalculator, Deployed, Proxy, Initialize, GrantAdmin, Point,
      Publish, Empty, Same
<1>11. Owns(11, FeePool)
  BY DEF FeePool, Deployed, Proxy, Initialize, GrantAdmin, Publish, Empty,
      Same
<1>12. Owns(12, VennAvsLogic)
  BY DEF VennAvsLogic, Deployed, Deploy, GrantAdmin, Point, Publish, Empty,
      Same
<1>13. Owns(13, AttestationCenterProxy)
  BY DEF AttestationCenterProxy, Deployed, Proxy, Initialize, Open,
      GrantAdmin, Publish, Empty, Same
<1>14. Owns(14, Dependencies)
  BY DEF Dependencies, Deployed, GrantRole, Empty
<1>15. Owns(15, VotingPowerSyncer)
  BY DEF VotingPowerSyncer, Deployed, Obls, Deploy, TransferOwnership,
      Point, Publish, Empty, Same
<1>16. Owns(16, Report)
  BY DEF Report, Deployed, Empty
<1> HIDE Statements DEF Owns, Owned, Stores, Owner, OwnedOnL1, NameOf
<1> QED
  BY ProgramsAre, <1>1, <1>2, <1>3, <1>4, <1>5, <1>6, <1>7, <1>8, <1>9,
      <1>10, <1>11, <1>12, <1>13, <1>14, <1>15, <1>16

-----------------------------------------------------------------------------
(* One statement                                                           *)

\* A contract is what it was, but for what the statement s does to one.
Kept(c, d, s) ==
  /\ d.kind = c.kind
  /\ c.kind # s.on => d = c
  /\ c.ready => d.ready
  /\ c.ready /\ adminAddress \in c.admins => adminAddress \in d.admins
  /\ c.roles \subseteq d.roles
  /\ c.open => d.open
  /\ \A x \in DOMAIN c.uses :
       \/ x \in DOMAIN d.uses /\ d.uses[x] = c.uses[x]
       \/ ~c.ready
       \/ s.do = "point" /\ x \in s.needs

Listed(x, s) ==
  IF s.do = "publish" /\ x = s.on
  THEN /\ DOMAIN deployments'[x] = DOMAIN deployments[x] \cup DOMAIN s.keys
       /\ \A k \in DOMAIN deployments'[x] : deployments'[x][k] =
            IF k \in DOMAIN s.keys THEN process.values[s.keys[k]] ELSE deployments[x][k]
  ELSE deployments'[x] = deployments[x]

\* What every step that executes a statement s has in common.
Executes(s) ==
  /\ Running /\ ~Ended /\ s = Now
  /\ process' = [process EXCEPT !.at = @ + 1, !.values = process'.values]
  /\ \A n \in Names \ Binds(s) : process'.values[n] = process.values[n]
  /\ \A a \in 1 .. Len(contracts) :
       a \in 1 .. Len(contracts') /\ Kept(contracts[a], contracts'[a], s)
  /\ \A n \in Names : storage'[n] = IF n \in Stores(s) THEN process'.values[n]
                                                       ELSE storage[n]
  /\ \A x \in {"L1", "L2"} : Listed(x, s)
  /\ UNCHANGED <<network, finished>>

\* The statement to be executed, and those before it.
LEMMA Position ==
  ASSUME DeploymentInv, Running, ~Ended
  PROVE  /\ process.migration \in Migrations
         /\ process.at \in 1 .. Len(Code)
         /\ Now = Code[process.at]
         /\ StatementOK(Now) /\ DisciplinedAt(Code, process.at)
         /\ Owned(process.migration, Now)
         /\ \A j \in 1 .. process.at - 1 :
              /\ StatementOK(Code[j]) /\ DisciplinedAt(Code, j)
              /\ Owned(process.migration, Code[j]) /\ Holds(Code[j])
<1>1. /\ process.migration \in Migrations /\ process.at \in 1 .. Len(Code) + 1
      /\ \A j \in 1 .. process.at - 1 : Holds(Code[j])
  BY DEF DeploymentInv, ProgressOK
<1>2. Len(Code) \in Nat /\ \A i \in 1 .. Len(Code) : DisciplinedAt(Code, i)
  BY <1>1, AllDisciplined DEF Disciplined, Code
<1>3. process.at \in 1 .. Len(Code) /\ Now = Code[process.at]
  BY <1>1, <1>2 DEF Ended, Now, Code
<1>4. \A i \in 1 .. Len(Code) : StatementOK(Code[i]) /\ Owned(process.migration, Code[i])
  BY <1>1, <1>2, AllOwned DEF Code, DisciplinedAt, Owns
<1>5. \A j \in 1 .. process.at - 1 : j \in 1 .. Len(Code)
  BY <1>2, <1>3
<1> QED
  BY <1>1, <1>2, <1>3, <1>4, <1>5

\* The names of a statement.
LEMMA SpokenNames ==
  ASSUME NEW t, StatementOK(t)
  PROVE  /\ Speaks(t) \subseteq Names
         /\ t.needs \subseteq Speaks(t) \cap Addressed
         /\ Makes(t) \subseteq (t.needs \cup Binds(t)) \cap Addressed
         /\ Makes(t) \subseteq Speaks(t)
         /\ t.do \in Wiring \ {"point"} => t.on \in Makes(t)
         /\ Stores(t) \subseteq Speaks(t) \cap Addressed
         /\ t.do \in Creating => Binds(t) \subseteq Addressed
         /\ t.do \in Changing \cup Creating => t.on \in Speaks(t) \cap Addressed
BY DEF StatementOK, Speaks, Binds, Makes, Stores, Names, Addressed, Reading, Creating,
       Changing, Wiring, Range

\* What an executed statement left true stays true while later ones are.
LEMMA StatementsHold ==
  ASSUME DeploymentInv, NEW s, Executes(s), NEW j \in 1 .. process.at - 1,
         NEW t, t = Code[j]
  PROVE  Holds(t)'
<1>1. /\ process.migration \in Migrations
      /\ process.at \in 1 .. Len(Code) /\ s = Code[process.at]
      /\ StatementOK(s) /\ DisciplinedAt(Code, process.at)
      /\ Owned(process.migration, s)
      /\ StatementOK(t) /\ DisciplinedAt(Code, j) /\ Holds(t)
      /\ Owned(process.migration, t)
  BY Position DEF Executes
<1>2. /\ Binds(s) \cap Speaks(t) = {}
      /\ s.do \in {"initialize", "point"} /\ t.do \in Wiring => t.on # s.on
      /\ s.do = "publish" => t.do # "publish"
      /\ s.do = "blockNumber" => t.do \notin Creating
  BY <1>1 DEF DisciplinedAt
<1>3. \A n \in Speaks(t) : n \in Names /\ process'.values[n] = process.values[n]
  BY <1>1, <1>2, SpokenNames DEF Executes
<1>4. /\ t.needs \subseteq Speaks(t) \cap Addressed
      /\ Makes(t) \subseteq (t.needs \cup Binds(t)) \cap Addressed
      /\ Makes(t) \subseteq Speaks(t)
      /\ t.do \in Wiring \ {"point"} => t.on \in Makes(t)
      /\ Stores(t) \subseteq Speaks(t) \cap Addressed
      /\ t.do \in Creating => Binds(t) \subseteq Addressed
      /\ t.do \in Changing \cup Creating => t.on \in Speaks(t) \cap Addressed
  BY <1>1, SpokenNames
<1>5. Defines(t)'
  <2>1. \A n \in (t.needs \cup Binds(t)) \cap Addressed : process'.values[n] # Undefined
    BY <1>1, <1>3 DEF Holds, Defines, Speaks
  <2>2. \A n \in Speaks(t) : storage[n] = process.values[n] => storage'[n] = process'.values[n]
    BY <1>3 DEF Executes
  <2>3. /\ t.do = "deployed" => \A n \in t.needs : storage'[n] = process'.values[n]
        /\ \A n \in Stores(t) : storage'[n] = process'.values[n]
    BY <1>1, <1>4, <2>2 DEF Holds, Defines, Speaks
  <2>4. ASSUME t.do = "publish", NEW k \in DOMAIN t.keys
        PROVE  k \in DOMAIN deployments'[t.on]
               /\ deployments'[t.on][k] = process'.values[t.keys[k]]
    <3>1. t.on \in {"L1", "L2"} /\ t.keys[k] \in Speaks(t)
      BY <1>1, <2>4 DEF StatementOK, Speaks, Range
    <3>2. deployments'[t.on] = deployments[t.on]
      BY <1>2, <2>4, <3>1 DEF Executes, Listed
    <3> QED
      BY <1>1, <1>3, <2>4, <3>1, <3>2 DEF Holds, Defines
  <2> QED
    BY <2>1, <2>3, <2>4 DEF Defines
<1>6. IsNew(t)'
  <2>1. SUFFICES ASSUME t.do \in Creating, NEW n \in Binds(t)
                 PROVE  /\ process'.values["StartBlock"] <= process'.values[n]
                        /\ 4 \in Completed(finished)' =>
                             Entry("L2", "StartBlock")' <= process'.values[n]
    BY DEF IsNew
  <2>2. n \in Speaks(t)
    BY <2>1 DEF Speaks
  <2>3. "StartBlock" \notin Binds(s)
    BY <1>1, <1>2, <2>1 DEF StatementOK, Binds, Addressed
  <2>4. process'.values["StartBlock"] = process.values["StartBlock"]
    BY <2>3 DEF Executes, Names
  <2>5. ASSUME 4 \in Completed(finished)'
        PROVE  4 \in Completed(finished) /\ Entry("L2", "StartBlock")' = Entry("L2", "StartBlock")
    <3>1. 4 \in Completed(finished)
      BY <2>5 DEF Executes, Completed
    <3>2. process.migration # 4
      BY <3>1 DEF DeploymentInv, ProgressOK, Executes
    <3>3. CASE s.do = "publish" /\ s.on = "L2"
      <4>1. "StartBlock" \notin DOMAIN s.keys
        BY <1>1, <3>2, <3>3 DEF Owned, Owner
      <4>2. "StartBlock" \in DOMAIN deployments["L2"]
        BY <3>1 DEF DeploymentInv, HistoryOK, ListsOwn, Owner, After, Completed
      <4> QED
        BY <3>1, <3>3, <4>1, <4>2 DEF Executes, Listed, Entry
    <3>4. CASE ~(s.do = "publish" /\ s.on = "L2")
      BY <3>1, <3>4 DEF Executes, Listed, Entry
    <3> QED
      BY <3>3, <3>4
  <2> QED
    BY <1>1, <1>3, <2>1, <2>2, <2>4, <2>5 DEF Holds, IsNew
<1>7. Wires(t)'
  <2>1. \A n \in Speaks(t) \cap Addressed : process.values[n] # Undefined =>
          /\ process'.values[n] = process.values[n]
          /\ process.values[n] \in 1 .. Len(contracts)
          /\ contracts[process.values[n]].kind = n
          /\ Kept(contracts[process.values[n]], contracts'[process.values[n]], s)
    BY <1>3 DEF DeploymentInv, ValuesOK, Is, Executes
  <2>2. \A n \in t.needs \cup Makes(t) : n \in Speaks(t) \cap Addressed /\ process.values[n] # Undefined
    BY <1>1, <1>4 DEF Holds, Defines
  <2>3. t.do \in Changing \cup Creating => process.values[t.on] # Undefined
    BY <1>1, <1>4 DEF Holds, Defines, StatementOK, Binds, Creating
  <2>4. \A n \in Makes(t) : contracts'[process'.values[n]].ready
    BY <1>1, <2>1, <2>2 DEF Holds, Wires, Kept
  <2>5. ASSUME t.do \in Wiring, NEW x \in t.needs \ {t.on}
        PROVE  x \in DOMAIN Target(t)'.uses /\ Target(t)'.uses[x] = process'.values[x]
    <3>1. t.do \in Changing \cup Creating
      BY <2>5 DEF Wiring, Changing, Creating
    <3>2. Target(t).ready
      <4>1. CASE t.do = "point"
        BY <1>1, <1>4, <2>1, <2>3, <3>1, <4>1
           DEF Target, Owned, DeploymentInv, ContractsOK
      <4>2. CASE t.do # "point"
        BY <1>1, <1>4, <2>5, <4>2 DEF Holds, Wires, Target
      <4> QED
        BY <4>1, <4>2
    <3>3. ~(s.do = "point" /\ Target(t).kind = s.on)
      BY <1>2, <1>4, <2>1, <2>3, <2>5, <3>1 DEF Target
    <3>4. x \in DOMAIN Target(t).uses /\ Target(t).uses[x] = process.values[x]
      BY <1>1, <2>5 DEF Holds, Wires
    <3>5. Kept(Target(t), contracts'[process.values[t.on]], s)
          /\ Target(t)' = contracts'[process.values[t.on]]
      BY <1>4, <2>1, <2>3, <3>1 DEF Target
    <3>6. x \in DOMAIN Target(t)'.uses /\ Target(t)'.uses[x] = Target(t).uses[x]
      BY <3>2, <3>3, <3>4, <3>5 DEF Kept
    <3>7. process'.values[x] = process.values[x]
      BY <1>3, <1>4
    <3> QED
      BY <3>4, <3>6, <3>7
  <2>6. t.do \in {"grantAdmin", "transferOwnership"} =>
          Target(t)'.ready /\ adminAddress \in Target(t)'.admins
    BY <1>1, <1>4, <2>1, <2>3 DEF Holds, Wires, Kept, Target, Changing
  <2>7. t.do = "grantRole" =>
          \A x \in t.needs \ {t.on} : process'.values[x] \in Target(t)'.roles
    BY <1>1, <1>4, <2>1, <2>2, <2>3 DEF Holds, Wires, Kept, Target, Changing
  <2>8. t.do = "open" => Target(t)'.open
    BY <1>1, <1>4, <2>1, <2>3 DEF Holds, Wires, Kept, Target, Changing
  <2> QED
    BY <2>4, <2>5, <2>6, <2>7, <2>8 DEF Wires
<1> QED
  BY <1>5, <1>6, <1>7 DEF Holds

\* The process, after a statement that holds.
LEMMA ProgressKept ==
  ASSUME DeploymentInv, NEW s, Executes(s), Holds(s)',
         s.do = "proxy" => ~contracts'[process'.values[s.on]].ready
  PROVE  ProgressOK'
<1>1. /\ process.migration \in Migrations /\ process.last \in Migrations
      /\ process.migration <= process.last
      /\ process.migration \notin Completed(finished)
  BY DEF Executes, DeploymentInv, ProgressOK
<1>2. process.at \in 1 .. Len(Code) /\ s = Code[process.at] /\ Len(Code) \in Nat
  BY Position, <1>1, AllDisciplined DEF Executes, Disciplined
<1>3. /\ process'.migration = process.migration /\ process'.last = process.last
      /\ process'.at = process.at + 1
  BY DEF Executes, DeploymentInv, ValuesOK
<1>4. Code' = Code
  BY <1>3 DEF Code
<1>5. ASSUME NEW j \in 1 .. process'.at - 1
      PROVE  Holds(Code[j])'
  <2> DEFINE t == Code[j]
  <2>1. CASE j = process.at
    BY <1>2, <1>4, <2>1
  <2>2. CASE j # process.at
    BY <1>2, <1>3, <1>4, <2>2, StatementsHold
  <2> QED
    BY <2>1, <2>2
<1>6. Completed(finished)' = Completed(finished)
  BY DEF Executes, Completed
<1>7. (process.at > 1 /\ Code[process.at - 1].do = "proxy")'
         => ~Target(Code[process.at - 1])'.ready
  BY <1>2, <1>3, <1>4 DEF Target
<1> QED
  BY <1>1, <1>2, <1>3, <1>4, <1>5, <1>6, <1>7 DEF ProgressOK

\* The two ends of a link.
LEMMA Ends ==
  ASSUME NEW key \in DOMAIN Uses, NEW name \in Uses[key]
  PROVE  /\ key \in DOMAIN Owner \ {"StartBlock", "OBLS", "VennTokenL2"}
         /\ NameOf(key) = key /\ NameOf(Key(name)) = name
         /\ Key(name) \in DOMAIN Owner \ {"StartBlock", "OBLS"}
         /\ Key(name) = "VennTokenL2" => name = "VennToken"
         /\ name # "VennToken" => Key(name) = name
         /\ name # key /\ key # "AvsGovernance"
         /\ Owner[key] \in 1 .. 16 /\ Owner[Key(name)] \in 1 .. 16
         /\ Owner[key] # Owner[Key(name)]
         /\ \/ Turns(key, name) = <<Owner[key], Owner[Key(name)]>>
            \/ Turns(key, name) = <<Owner[Key(name)], Owner[key]>>
BY DEF Uses, Owner, NameOf, Key, Turns

\* Both of two ordered migrations were completed.
LEMMA AfterBoth ==
  ASSUME FinishedOK, NEW k, NEW m, After(k, m)
  PROVE  /\ k \in Migrations /\ m \in Migrations /\ After(k, k) /\ After(m, m)
         /\ k \in Completed(finished) /\ m \in Completed(finished)
BY DEF FinishedOK, After, Completed

\* What the file lists of a completed migration is ready, and no statement of
\* another one changes the entry.
LEMMA EntriesKept ==
  ASSUME DeploymentInv, NEW s, Executes(s), NEW key \in DOMAIN Owner,
         After(Owner[key], Owner[key])
  PROVE  /\ Owner[key] # process.migration
         /\ key \in DOMAIN deployments["L2"] /\ key \in DOMAIN deployments'["L2"]
         /\ Entry("L2", key)' = Entry("L2", key)
         /\ key # "StartBlock" =>
              /\ Is(Entry("L2", key), NameOf(key)) /\ L2(key).ready
              /\ Kept(L2(key), L2(key)', s)
<1>1. Owner[key] # process.migration
  BY AfterBoth DEF DeploymentInv, ProgressOK, Executes
<1>2. key \in DOMAIN deployments["L2"]
  BY DEF DeploymentInv, HistoryOK, ListsOwn
<1>3. key \in DOMAIN deployments'["L2"] /\ Entry("L2", key)' = Entry("L2", key)
  <2>1. CASE s.do = "publish" /\ s.on = "L2"
    <3>1. key \notin DOMAIN s.keys
      BY <1>1, <2>1, Position DEF Owned, Executes
    <3> QED
      BY <1>2, <2>1, <3>1 DEF Executes, Listed, Entry
  <2>2. CASE ~(s.do = "publish" /\ s.on = "L2")
    BY <1>2, <2>2 DEF Executes, Listed, Entry
  <2> QED
    BY <2>1, <2>2
<1>4. key # "StartBlock" => Is(Entry("L2", key), NameOf(key)) /\ L2(key).ready
  BY <1>2 DEF DeploymentInv, FileOK, SectionOK, Ready, Entry, L2
<1>5. key # "StartBlock" => Kept(L2(key), L2(key)', s)
  BY <1>3, <1>4 DEF Executes, L2, Is
<1> QED
  BY <1>1, <1>2, <1>3, <1>4, <1>5

\* A statement changes nothing of what completed migrations left.
LEMMA HistoryKept ==
  ASSUME DeploymentInv, NEW s, Executes(s)
  PROVE  HistoryOK'
<1>1. FinishedOK /\ HistoryOK /\ finished' = finished
  BY DEF DeploymentInv, Executes
<1>2. \A k, m : After(k, m)' <=> After(k, m)
  BY <1>1 DEF After
<1>3. ListsOwn'
  BY <1>2, EntriesKept DEF ListsOwn
<1>4. SavesOwn'
  <2>1. SUFFICES ASSUME NEW key \in DOMAIN Owner \ {"StartBlock", "OBLS"},
                        After(Owner[key], Owner[key]),
                        key = "VennTokenL2" => After(3, 4)
                 PROVE  storage'[NameOf(key)] = Entry("L2", key)'
    BY <1>2 DEF SavesOwn
  <2>2. Owner[key] # process.migration /\ Entry("L2", key)' = Entry("L2", key)
    BY <2>1, EntriesKept
  <2>3. key = "VennTokenL2" => process.migration \notin {3, 4}
    BY <1>1, <2>1, AfterBoth DEF DeploymentInv, ProgressOK, Executes
  <2>4. NameOf(key) \in Names /\ NameOf(key) \notin Stores(s)
    <3>1. Owned(process.migration, s)
      BY Position DEF Executes
    <3>2. /\ NameOf(key) \in Names \ {"AvsGovernance", "AvsGovernanceFacet", "AttestationCenterFacet"}
          /\ NameOf(key) = "VennToken" => key = "VennTokenL2"
          /\ NameOf(key) \in DOMAIN Owner => NameOf(key) = key
      BY <2>1 DEF Owner, NameOf, Names
    <3> QED
      BY <2>2, <2>3, <3>1, <3>2 DEF Owned
  <2>5. storage[NameOf(key)] = Entry("L2", key)
    BY <1>1, <2>1 DEF HistoryOK, SavesOwn
  <2> QED
    BY <2>2, <2>4, <2>5 DEF Executes
<1>5. Links'
  <2>1. SUFFICES ASSUME NEW key \in DOMAIN Uses, NEW name \in Uses[key],
                        LinkDue(key, name)
                 PROVE  Linked(key, name)'
    BY <1>2 DEF Links, LinkDue
  <2>2. Linked(key, name)
    BY <1>1, <2>1 DEF HistoryOK, Links
  <2>3. After(Owner[key], Owner[key]) /\ After(Owner[Key(name)], Owner[Key(name)])
    <3>1. \/ Turns(key, name) = <<Owner[key], Owner[Key(name)]>>
          \/ Turns(key, name) = <<Owner[Key(name)], Owner[key]>>
      BY Ends
    <3>2. After(Owner[key], Owner[Key(name)]) \/ After(Owner[Key(name)], Owner[key])
      BY <2>1, <3>1 DEF LinkDue
    <3> QED
      BY <1>1, <3>2, AfterBoth
  <2>4. /\ Is(Entry("L2", key), key) /\ L2(key).ready /\ Kept(L2(key), L2(key)', s)
        /\ Entry("L2", Key(name))' = Entry("L2", Key(name))
        /\ Owner[Key(name)] # process.migration
    <3>1. /\ key \in DOMAIN Owner /\ key # "StartBlock" /\ NameOf(key) = key
          /\ Key(name) \in DOMAIN Owner
      BY Ends
    <3>2. /\ Is(Entry("L2", key), NameOf(key)) /\ L2(key).ready
          /\ Kept(L2(key), L2(key)', s)
      BY <2>3, <3>1, EntriesKept
    <3>3. /\ Entry("L2", Key(name))' = Entry("L2", Key(name))
          /\ Owner[Key(name)] # process.migration
      BY <2>3, <3>1, EntriesKept
    <3> QED
      BY <3>1, <3>2, <3>3
  <2>5. ~(s.do = "point" /\ name \in s.needs /\ L2(key).kind = s.on)
    <3>1. Owned(process.migration, s)
      BY Position DEF Executes
    <3>2. key # "AvsGovernance" /\ name # key /\ (name # "VennToken" => Key(name) = name)
      BY Ends
    <3>3. L2(key).kind = key /\ Owner[Key(name)] # process.migration
      BY <2>4 DEF Is, L2
    <3>4. "VennToken" \notin DOMAIN Owner
      BY DEF Owner
    <3> QED
      BY <3>1, <3>2, <3>3, <3>4 DEF Owned
  <2>6. name \in DOMAIN L2(key)'.uses /\ L2(key)'.uses[name] = L2(key).uses[name]
    BY <2>2, <2>4, <2>5 DEF Kept, Linked
  <2> QED
    BY <2>2, <2>4, <2>6 DEF Linked
<1>6. Roles'
  <2>1. \A key \in {"FeePool", "VennFeeCalculator", "VennAvsLogic"} :
          After(Owner[key], Owner[key]) =>
            /\ Entry("L2", key)' = Entry("L2", key)
            /\ L2(key).roles \subseteq L2(key)'.roles
    BY EntriesKept DEF Owner, Kept
  <2>2. \A k \in {10, 11, 12} : After(k, 14) => After(k, k)
    BY <1>1, AfterBoth
  <2> QED
    BY <1>1, <1>2, <2>1, <2>2 DEF Roles, HistoryOK, Owner
<1>7. Opened'
  BY <1>1, <1>2, EntriesKept, AfterBoth DEF Opened, HistoryOK, Owner, Kept
<1>8. Newer'
  <2>1. SUFFICES ASSUME NEW key \in DOMAIN Owner, After(4, Owner[key])
                 PROVE  Entry("L2", "StartBlock")' <= Entry("L2", key)'
    BY <1>2 DEF Newer
  <2>2. After(4, 4) /\ After(Owner[key], Owner[key])
    BY <1>1, <2>1, AfterBoth
  <2>3. Entry("L2", "StartBlock") <= Entry("L2", key)
    BY <1>1, <2>1 DEF HistoryOK, Newer
  <2> QED
    BY <2>2, <2>3, EntriesKept DEF Owner
<1> QED
  BY <1>3, <1>4, <1>5, <1>6, <1>7, <1>8 DEF HistoryOK

\* What is left to show of a statement: that it holds once it was executed, and
\* what it makes of the contracts, the storage, the file and the values.
LEMMA StatementKeepsInv ==
  ASSUME DeploymentInv, NEW s, Executes(s), Holds(s)',
         ContractsOK', StorageOK', FileOK', ValuesOK',
         s.do = "proxy" => ~contracts'[process'.values[s.on]].ready
  PROVE  DeploymentInv'
<1>1. network' \in Networks /\ FinishedOK'
  BY DEF Executes, DeploymentInv, FinishedOK
<1> QED
  BY <1>1, ProgressKept, HistoryKept DEF DeploymentInv

\* Addresses stay what they are while a statement is executed.
LEMMA AddressesKept ==
  ASSUME ContractsOK, NEW s, Executes(s), Len(contracts') \in Nat
  PROVE  /\ Len(contracts) <= Len(contracts')
         /\ \A a, n : Is(a, n) => Is(a, n)'
         /\ \A a, key : Ready(a, key) => Ready(a, key)'
<1>1. Len(contracts) \in Nat
  BY DEF ContractsOK
<1>2. Len(contracts) <= Len(contracts')
  <2>1. CASE Len(contracts) = 0
    BY <2>1
  <2>2. CASE Len(contracts) # 0
    BY <1>1, <2>2 DEF Executes
  <2> QED
    BY <2>1, <2>2
<1>3. \A a, n : Is(a, n) => Is(a, n)'
  BY DEF Is, Executes, Kept
<1>4. \A a, key : Ready(a, key) => Ready(a, key)'
  BY <1>3 DEF Ready, Is, Executes, Kept
<1> QED
  BY <1>2, <1>3, <1>4

\* A contract that is left alone is kept.
LEMMA SameContracts ==
  ASSUME NEW s, NEW c
  PROVE  Kept(c, c, s)
BY DEF Kept

\* What the statement binds is bound, the rest is not.
LEMMA Bound ==
  ASSUME ValuesOK, NEW S, S \subseteq Names, NEW new, new \in [S -> Nat], process' = Bind(new)
  PROVE  /\ process' = [process EXCEPT !.at = @ + 1, !.values = process'.values]
         /\ process'.values \in [Names -> Nat]
         /\ \A n \in S : process'.values[n] = new[n]
         /\ \A n \in Names \ S : process'.values[n] = process.values[n]
<1>1. process'.values = Overriding(new, process.values)
  BY DEF ValuesOK, Bind
<1>2. process' = [process EXCEPT !.at = @ + 1, !.values = process'.values]
  BY <1>1 DEF ValuesOK, Bind
<1>3. process.values \in [Names -> Nat]
  BY DEF ValuesOK
<1> QED
  BY <1>1, <1>2, <1>3 DEF Overriding

\* A statement that binds nothing moves the process on.
LEMMA NothingBound ==
  ASSUME ValuesOK, process' = Bind(Empty)
  PROVE  /\ process' = [process EXCEPT !.at = @ + 1, !.values = process'.values]
         /\ process'.values = process.values
<1>1. Empty \in [{} -> Nat]
  BY DEF Empty
<1>2. process'.values \in [Names -> Nat] /\ \A n \in Names : process'.values[n] = process.values[n]
  BY <1>1, Bound
<1>3. process.values \in [Names -> Nat]
  BY DEF ValuesOK
<1>4. process'.values = process.values
  BY <1>2, <1>3
<1> QED
  BY <1>1, <1>4, Bound

\* Each name stands for a contract of its kind, if the bound ones do.
LEMMA ValuesKept ==
  ASSUME DeploymentInv, NEW s, Executes(s), Len(contracts') \in Nat,
         process'.values \in [Names -> Nat],
         \A n \in Binds(s) : IF n = "StartBlock" THEN process'.values[n] <= Len(contracts') + 1
                                                 ELSE Is(process.values[n], n)'
  PROVE  ValuesOK'
<1>1. /\ Len(contracts) <= Len(contracts') /\ \A a, n : Is(a, n) => Is(a, n)'
  BY AddressesKept DEF DeploymentInv
<1>2. process' = [migration |-> process'.migration, last |-> process'.last, at |-> process'.at,
                  avsName |-> process'.avsName, values |-> process'.values]
  BY DEF Executes, DeploymentInv, ValuesOK
<1>3. process'.values["StartBlock"] <= Len(contracts') + 1
  <2>1. CASE "StartBlock" \in Binds(s)
    BY <2>1
  <2>2. CASE "StartBlock" \notin Binds(s)
    <3>1. process'.values["StartBlock"] = process.values["StartBlock"]
      BY <2>2 DEF Executes, Names
    <3>2. /\ process.values["StartBlock"] <= Len(contracts) + 1
          /\ process.values["StartBlock"] \in Nat
      BY DEF DeploymentInv, ValuesOK, Names
    <3>3. Len(contracts) \in Nat
      BY DEF DeploymentInv, ContractsOK
    <3> QED
      BY <1>1, <3>1, <3>2, <3>3
  <2> QED
    BY <2>1, <2>2
<1>4. ASSUME NEW n \in Addressed, process'.values[n] # Undefined
      PROVE  Is(process.values[n], n)'
  <2>1. CASE n \in Binds(s)
    BY <2>1 DEF Addressed
  <2>2. CASE n \notin Binds(s)
    <3>1. process'.values[n] = process.values[n]
      BY <2>2 DEF Executes, Addressed
    <3>2. Is(process.values[n], n)
      BY <1>4, <3>1 DEF DeploymentInv, ValuesOK
    <3> QED
      BY <1>1, <3>1, <3>2 DEF Is
  <2> QED
    BY <2>1, <2>2
<1> QED
  BY <1>2, <1>3, <1>4 DEF ValuesOK

\* The storage knows each contract by its kind.
LEMMA StorageKept ==
  ASSUME DeploymentInv, NEW s, Executes(s), StatementOK(s), ValuesOK',
         Len(contracts') \in Nat, storage' \in [Names -> Nat]
  PROVE  StorageOK'
<1>1. \A a, n : Is(a, n) => Is(a, n)'
  BY AddressesKept DEF DeploymentInv
<1>2. Stores(s) \subseteq Addressed
  BY SpokenNames
<1>3. storage'["StartBlock"] = Undefined
  BY <1>2 DEF Executes, DeploymentInv, StorageOK, Addressed, Names
<1>4. ASSUME NEW n \in Addressed, storage'[n] # Undefined
      PROVE  Is(storage[n], n)'
  <2>1. CASE n \in Stores(s)
    BY <1>4, <2>1 DEF Executes, ValuesOK, Addressed
  <2>2. CASE n \notin Stores(s)
    <3>1. storage'[n] = storage[n]
      BY <2>2 DEF Executes, Addressed
    <3>2. Is(storage[n], n)
      BY <1>4, <3>1 DEF DeploymentInv, StorageOK
    <3> QED
      BY <1>1, <3>1, <3>2 DEF Is
  <2> QED
    BY <2>1, <2>2
<1> QED
  BY <1>3, <1>4 DEF StorageOK

\* What the file lists stays ready while the file is left alone.
LEMMA FileKept ==
  ASSUME DeploymentInv, NEW s, Executes(s), Len(contracts') \in Nat,
         deployments' = deployments
  PROVE  FileOK'
<1>1. Len(contracts) <= Len(contracts') /\ \A a, key : Ready(a, key) => Ready(a, key)'
  BY AddressesKept DEF DeploymentInv
<1>2. ASSUME NEW section, NEW keys, SectionOK(section, keys)
      PROVE  SectionOK(section, keys)'
  <2>1. \A k \in DOMAIN section : k # "StartBlock" => Ready(section[k], k)'
    BY <1>1, <1>2 DEF SectionOK
  <2>2. Len(contracts) \in Nat
    BY DEF DeploymentInv, ContractsOK
  <2>3. "StartBlock" \in DOMAIN section => section["StartBlock"] \in 0 .. Len(contracts') + 1
    BY <1>1, <1>2, <2>2 DEF SectionOK
  <2> QED
    BY <1>2, <2>1, <2>3 DEF SectionOK
<1> QED
  BY <1>2 DEF DeploymentInv, FileOK

\* Statements that change nothing but the process.
LEMMA ReadingKeepsInv ==
  ASSUME DeploymentInv, Running, ~Ended, ~Throws, NEW s, s = Now,
         s.do \in Reading, NEW new, new \in [Binds(s) -> Nat], process' = Bind(new),
         UNCHANGED <<network, contracts, storage, deployments, finished>>,
         s.do = "deployed" => \A n \in s.needs : new[n] = storage[n],
         \A n \in Binds(s) : IF n = "StartBlock" THEN new[n] <= Len(contracts) + 1
                                                 ELSE new[n] # Undefined /\ Is(new[n], n)
  PROVE  DeploymentInv'
<1>1. StatementOK(s)
  BY Position
<1>2. Binds(s) \subseteq Speaks(s) /\ Speaks(s) \subseteq Names /\ s.needs \subseteq Addressed
  BY <1>1, SpokenNames DEF Speaks
<1>3. /\ process' = [process EXCEPT !.at = @ + 1, !.values = process'.values]
      /\ process'.values \in [Names -> Nat]
      /\ \A n \in Binds(s) : process'.values[n] = new[n]
      /\ \A n \in Names \ Binds(s) : process'.values[n] = process.values[n]
  <2>1. ValuesOK /\ Binds(s) \subseteq Names
    BY <1>2 DEF DeploymentInv
  <2> QED
    BY <2>1, Bound
<1>4. Stores(s) = {} /\ Makes(s) = {} /\ s.do \notin Creating \cup Wiring \cup Changing
      /\ s.do \notin {"publish", "proxy"}
  BY DEF Reading, Stores, Makes, Creating, Wiring, Changing
<1>5. Executes(s)
  BY <1>3, <1>4, SameContracts DEF Executes, Listed
<1>6. ContractsOK' /\ Len(contracts') \in Nat
  BY DEF DeploymentInv, ContractsOK, Is
<1>7. ValuesOK'
  <2>1. \A n \in Binds(s) : IF n = "StartBlock" THEN process'.values[n] <= Len(contracts') + 1
                                                ELSE Is(process.values[n], n)'
    BY <1>3 DEF Is
  <2> QED
    BY <1>3, <1>5, <1>6, <2>1, ValuesKept
<1>8. StorageOK'
  BY <1>1, <1>5, <1>6, <1>7, StorageKept DEF DeploymentInv, StorageOK
<1>9. FileOK'
  BY <1>5, <1>6, FileKept
<1>10. Holds(s)'
  <2>1. ASSUME NEW n \in (s.needs \cup Binds(s)) \cap Addressed
        PROVE  process'.values[n] # Undefined
    <3>1. CASE n \in Binds(s)
      BY <1>3, <3>1 DEF Addressed
    <3>2. CASE n \notin Binds(s)
      BY <1>3, <3>2 DEF Throws, Value, Binds, Addressed
    <3> QED
      BY <3>1, <3>2
  <2>2. s.do = "deployed" => \A n \in s.needs : storage'[n] = process'.values[n]
    BY <1>3 DEF Binds
  <2>3. Defines(s)'
    BY <1>4, <2>1, <2>2 DEF Defines
  <2>4. IsNew(s)' /\ Wires(s)'
    BY <1>4 DEF IsNew, Wires, Changing
  <2> QED
    BY <2>3, <2>4 DEF Holds
<1> QED
  BY <1>4, <1>5, <1>6, <1>7, <1>8, <1>9, <1>10, StatementKeepsInv

\* The statements that read the configuration, the storage, the file and the chain.
LEMMA ReadValuesKeepsInv ==
  ASSUME DeploymentInv, ReadValues
  PROVE  DeploymentInv'
<1> DEFINE s == Now
<1>1. /\ UNCHANGED <<network, contracts, storage, deployments, finished>>
      /\ Running /\ ~Ended /\ ~Throws /\ s.do \in Reading
  BY DEF ReadValues, Rest, May, Reading
<1>2. StatementOK(s)
  BY <1>1, Position
<1>3. s.do # "deployed" => \A n \in s.needs : process.values[n] # Undefined
  BY <1>1 DEF Throws, Value
<1>4. Len(contracts) \in Nat
  BY DEF DeploymentInv, ContractsOK
<1>5. CASE s.do = "configured"
  <2>1. process' = Bind(Empty) /\ Binds(s) = {}
    BY <1>5 DEF ReadValues, May, Binds
  <2>2. Empty \in [Binds(s) -> Nat]
    BY <2>1 DEF Empty
  <2> QED
    BY <1>1, <1>5, <2>1, <2>2, ReadingKeepsInv
<1>6. CASE s.do = "deployed"
  <2> DEFINE new == [n \in Now.needs |-> storage[n]]
  <2>1. process' = Bind(new) /\ Binds(s) = s.needs
    BY <1>6 DEF ReadValues, May, Binds
  <2>2. \A n \in s.needs : /\ n \in Addressed /\ storage[n] # Undefined
                           /\ storage[n] \in Nat /\ Is(storage[n], n)
    BY <1>1, <1>2, <1>6 DEF StatementOK, Throws, DeploymentInv, StorageOK, Addressed
  <2>3. new \in [Binds(s) -> Nat]
    BY <2>1, <2>2
  <2>4. "StartBlock" \notin s.needs
    BY <2>2 DEF Addressed
  <2> HIDE DEF s
  <2> QED
    BY <1>1, <1>6, <2>1, <2>2, <2>3, <2>4, ReadingKeepsInv DEF s
<1>7. CASE s.do = "fromFile"
  <2> DEFINE new == Only(Now.on, deployments["L1"][Now.on])
  <2>1. process' = Bind(new) /\ Binds(s) = {"AvsGovernance"} /\ s.on = "AvsGovernance"
    BY <1>2, <1>7 DEF ReadValues, May, Binds, StatementOK
  <2>2. Is(deployments["L1"]["AvsGovernance"], "AvsGovernance")
    BY <1>1, <1>7, <2>1 DEF Throws, DeploymentInv, FileOK, SectionOK, Ready, NameOf
  <2>3. new \in [Binds(s) -> Nat] /\ new["AvsGovernance"] = deployments["L1"]["AvsGovernance"]
    BY <1>4, <2>1, <2>2 DEF Only, Is
  <2>4. new["AvsGovernance"] # Undefined
    BY <1>4, <2>2, <2>3 DEF Is, Undefined
  <2>5. \A n \in Binds(s) : IF n = "StartBlock" THEN new[n] <= Len(contracts) + 1
                                                 ELSE new[n] # Undefined /\ Is(new[n], n)
    BY <2>1, <2>2, <2>3, <2>4
  <2> HIDE DEF new, s
  <2> QED
    BY <1>1, <1>7, <2>1, <2>3, <2>5, ReadingKeepsInv DEF s
<1>8. CASE s.do = "blockNumber"
  <2> DEFINE new == Only("StartBlock", NextAddress)
  <2>1. process' = Bind(new) /\ Binds(s) = {"StartBlock"}
    BY <1>2, <1>8 DEF ReadValues, May, Binds, StatementOK
  <2>2. new \in [Binds(s) -> Nat] /\ new["StartBlock"] = Len(contracts) + 1
    BY <1>4, <2>1 DEF Only, NextAddress
  <2>3. \A n \in Binds(s) : IF n = "StartBlock" THEN new[n] <= Len(contracts) + 1
                                                 ELSE new[n] # Undefined /\ Is(new[n], n)
    BY <1>4, <2>1, <2>2
  <2> HIDE DEF new, s
  <2> QED
    BY <1>1, <1>8, <2>1, <2>2, <2>3, ReadingKeepsInv DEF s
<1>9. CASE s.do = "obls"
  <2> DEFINE center == process.values["AttestationCenter"]
             new == Only("OBLS", contracts[center].uses["OBLS"])
  <2>1. process' = Bind(new) /\ Binds(s) = {"OBLS"}
    BY <1>2, <1>9 DEF ReadValues, May, Binds, StatementOK, Value
  <2>2. Is(center, "AttestationCenter")
    BY <1>2, <1>3, <1>9 DEF StatementOK, DeploymentInv, ValuesOK
  <2>3. Is(contracts[center].uses["OBLS"], "OBLS")
    BY <2>2 DEF DeploymentInv, ContractsOK, Is
  <2>4. new \in [Binds(s) -> Nat] /\ new["OBLS"] = contracts[center].uses["OBLS"]
    BY <1>4, <2>1, <2>3 DEF Only, Is
  <2>5. new["OBLS"] # Undefined
    BY <1>4, <2>3, <2>4 DEF Is, Undefined
  <2> QED
    BY <1>1, <1>9, <2>1, <2>3, <2>4, <2>5, ReadingKeepsInv
<1> QED
  BY <1>1, <1>5, <1>6, <1>7, <1>8, <1>9 DEF Reading

\* A transaction's arguments are the addresses of the contracts it names.
LEMMA ArgumentsAre ==
  ASSUME DeploymentInv, Running, ~Ended, ~Throws, NEW s, s = Now, s.do # "deployed"
  PROVE  /\ DOMAIN Arguments = s.needs \ {s.on} /\ Arguments \in Maps
         /\ \A a \in s.needs : /\ a \in Addressed /\ process.values[a] # Undefined
                               /\ Is(process.values[a], a)
         /\ \A a \in s.needs \ {s.on} : Arguments[a] = process.values[a]
<1>1. s.needs \subseteq Addressed
  BY Position, SpokenNames
<1>2. \A a \in s.needs : /\ a \in Addressed /\ process.values[a] # Undefined
                         /\ Is(process.values[a], a) /\ process.values[a] \in Nat
  BY <1>1 DEF Throws, Value, DeploymentInv, ValuesOK, Addressed
<1>3. Arguments = [a \in s.needs \ {s.on} |-> process.values[a]]
  BY DEF Arguments, Value
<1>4. Arguments \in [s.needs \ {s.on} -> Nat]
  BY <1>2, <1>3
<1>5. s.needs \ {s.on} \in SUBSET Names
  BY <1>1 DEF Addressed
<1>6. Arguments \in Maps
  BY <1>4, <1>5 DEF Maps
<1> QED
  BY <1>2, <1>3, <1>6

\* Contracts stay sound when sound ones are added.
LEMMA NewContractsOK ==
  ASSUME ContractsOK, contracts' \in Seq(Contracts),
         \A a \in 1 .. Len(contracts) : a \in 1 .. Len(contracts') /\ contracts'[a] = contracts[a],
         \A a \in 1 .. Len(contracts') : a \notin 1 .. Len(contracts) =>
           /\ contracts'[a].roles = {}
           /\ \A x \in DOMAIN contracts'[a].uses :
                /\ contracts'[a].uses[x] \in 1 .. Len(contracts')
                /\ contracts'[contracts'[a].uses[x]].kind = x
           /\ contracts'[a].kind \in {"AvsGovernance", "AttestationCenter"} => contracts'[a].ready
           /\ contracts'[a].kind = "AttestationCenter" => "OBLS" \in DOMAIN contracts'[a].uses
  PROVE  ContractsOK'
<1>1. SUFFICES ASSUME NEW a \in 1 .. Len(contracts')
      PROVE  /\ contracts'[a].roles \subseteq 1 .. Len(contracts')
             /\ \A x \in DOMAIN contracts'[a].uses :
                  /\ contracts'[a].uses[x] \in 1 .. Len(contracts')
                  /\ contracts'[contracts'[a].uses[x]].kind = x
             /\ contracts'[a].kind \in {"AvsGovernance", "AttestationCenter"} => contracts'[a].ready
             /\ contracts'[a].kind = "AttestationCenter" => "OBLS" \in DOMAIN contracts'[a].uses
  BY DEF ContractsOK, Is
<1>2. CASE a \in 1 .. Len(contracts)
  BY <1>2 DEF ContractsOK, Is
<1>3. CASE a \notin 1 .. Len(contracts)
  BY <1>3
<1> QED
  BY <1>2, <1>3

\* The fields of a new contract.
LEMMA ContractIs ==
  ASSUME NEW name, NEW uses, NEW ready
  PROVE  /\ Contract(name, uses, ready).kind = name
         /\ Contract(name, uses, ready).ready = ready
         /\ Contract(name, uses, ready).roles = {}
         /\ Contract(name, uses, ready).uses = uses
         /\ name \in Addressed /\ uses \in Maps /\ ready \in BOOLEAN =>
              Contract(name, uses, ready) \in Contracts
BY DEF Contract, Contracts

\* The start block of the file is no newer than the next contract.
LEMMA StartBlockIsOld ==
  ASSUME DeploymentInv, 4 \in Completed(finished)
  PROVE  /\ Entry("L2", "StartBlock") \in 0 .. Len(contracts) + 1
         /\ "StartBlock" \in DOMAIN deployments["L2"]
BY DEF DeploymentInv, HistoryOK, ListsOwn, Owner, After, Completed, FileOK, SectionOK, Entry

\* A contract or a proxy is deployed: its address is new, its arguments are kept.
LEMMA DeployContractKeepsInv ==
  ASSUME DeploymentInv, DeployContract
  PROVE  DeploymentInv'
<1> DEFINE new == Only(Now.on, NextAddress)
           next == Len(contracts) + 1
<1>1. PICK s : s = Now
  OBVIOUS
<1>2. /\ s.do \in {"proxy", "deploy", "create"} /\ Running /\ ~Ended /\ ~Throws
      /\ contracts' = Append(contracts, Contract(s.on, Arguments, s.do # "proxy"))
      /\ storage' = IF s.do = "create" THEN storage ELSE [storage EXCEPT ![s.on] = next]
      /\ process' = Bind(new)
      /\ UNCHANGED <<network, deployments, finished>>
  BY <1>1 DEF DeployContract, May, Rest, NextAddress
<1>3. /\ StatementOK(s) /\ s.on \in Addressed \ {"AvsGovernance", "AttestationCenter"}
      /\ s.on \notin s.needs /\ s.do \in Creating
  BY <1>1, <1>2, Position DEF StatementOK, Creating
<1>4. /\ DOMAIN Arguments = s.needs \ {s.on} /\ Arguments \in Maps
      /\ \A a \in s.needs : /\ a \in Addressed /\ process.values[a] # Undefined
                            /\ Is(process.values[a], a)
      /\ \A a \in s.needs \ {s.on} : Arguments[a] = process.values[a]
  BY <1>1, <1>2, ArgumentsAre
<1>5. contracts \in Seq(Contracts) /\ Len(contracts) \in Nat
  BY DEF DeploymentInv, ContractsOK
<1>6. Contract(s.on, Arguments, s.do # "proxy") \in Contracts
  BY <1>3, <1>4, ContractIs
<1>7. /\ contracts' \in Seq(Contracts) /\ Len(contracts') = next
      /\ \A a \in 1 .. Len(contracts) : contracts'[a] = contracts[a]
      /\ contracts'[next] = Contract(s.on, Arguments, s.do # "proxy")
  BY <1>2, <1>5, <1>6
<1>8. Binds(s) = {s.on}
  BY <1>2 DEF Binds
<1>9. /\ process' = [process EXCEPT !.at = @ + 1, !.values = process'.values]
      /\ process'.values \in [Names -> Nat]
      /\ process'.values[s.on] = next
      /\ \A n \in Names \ {s.on} : process'.values[n] = process.values[n]
  <2>1. ValuesOK /\ {s.on} \subseteq Names /\ new \in [{s.on} -> Nat] /\ new[s.on] = next
    BY <1>1, <1>3, <1>5 DEF DeploymentInv, Addressed, Only, NextAddress
  <2> HIDE DEF new, next
  <2>2. /\ process' = [process EXCEPT !.at = @ + 1, !.values = process'.values]
        /\ process'.values \in [Names -> Nat]
        /\ \A n \in {s.on} : process'.values[n] = new[n]
        /\ \A n \in Names \ {s.on} : process'.values[n] = process.values[n]
    BY <1>2, <2>1, Bound
  <2> QED
    BY <2>1, <2>2
<1>10. Executes(s)
  <2>1. storage' \in [Names -> Nat] /\ \A n \in Names :
          storage'[n] = IF n \in Stores(s) THEN process'.values[n] ELSE storage[n]
    BY <1>2, <1>3, <1>5, <1>9 DEF Stores, DeploymentInv, StorageOK, Addressed
  <2>2. \A a \in 1 .. Len(contracts) :
          a \in 1 .. Len(contracts') /\ Kept(contracts[a], contracts'[a], s)
    BY <1>5, <1>7, SameContracts
  <2>3. \A x \in {"L1", "L2"} : Listed(x, s)
    BY <1>2 DEF Listed
  <2> QED
    BY <1>1, <1>2, <1>8, <1>9, <2>1, <2>2, <2>3 DEF Executes
<1>11. ContractsOK'
  <2>1. ASSUME NEW a \in 1 .. Len(contracts'), a \notin 1 .. Len(contracts)
        PROVE  contracts'[a] = Contract(s.on, Arguments, s.do # "proxy")
    BY <1>5, <1>7, <2>1
  <2>2. \A x \in DOMAIN Arguments :
          Arguments[x] \in 1 .. Len(contracts') /\ contracts'[Arguments[x]].kind = x
    BY <1>4, <1>5, <1>7 DEF Is
  <2>3. \A a \in 1 .. Len(contracts) : a \in 1 .. Len(contracts') /\ contracts'[a] = contracts[a]
    BY <1>5, <1>7
  <2> QED
    BY <1>3, <1>7, <2>1, <2>2, <2>3, ContractIs, NewContractsOK DEF DeploymentInv
<1>12. ValuesOK'
  <2>1. Is(process.values[s.on], s.on)'
    BY <1>5, <1>7, <1>9, ContractIs DEF Is
  <2> QED
    BY <1>3, <1>5, <1>7, <1>8, <1>9, <1>10, <2>1, ValuesKept DEF Addressed
<1>13. StorageOK'
  <2>1. storage' \in [Names -> Nat]
    BY <1>2, <1>3, <1>5 DEF DeploymentInv, StorageOK, Addressed
  <2> QED
    BY <1>3, <1>5, <1>7, <1>10, <1>12, <2>1, StorageKept
<1>14. FileOK'
  BY <1>2, <1>5, <1>7, <1>10, FileKept
<1>15. contracts'[next].ready = (s.do # "proxy")
  BY <1>7, ContractIs
<1>16. /\ s.do = "proxy" => ~contracts'[process'.values[s.on]].ready
       /\ s.do # "proxy" => contracts'[process'.values[s.on]].ready
  BY <1>9, <1>15
<1>17. Holds(s)'
  <2>1. \A n \in (s.needs \cup Binds(s)) \cap Addressed : process'.values[n] # Undefined
    BY <1>3, <1>4, <1>5, <1>8, <1>9 DEF Undefined, Addressed
  <2>2. \A n \in Stores(s) : storage'[n] = process'.values[n]
    BY <1>3, <1>10 DEF Stores, Executes, Addressed
  <2>3. Defines(s)'
    BY <1>2, <2>1, <2>2 DEF Defines
  <2>4. IsNew(s)'
    <3>1. process'.values["StartBlock"] <= process'.values[s.on]
      BY <1>3, <1>9 DEF DeploymentInv, ValuesOK, Addressed, Names
    <3>2. 4 \in Completed(finished)' => Entry("L2", "StartBlock")' <= process'.values[s.on]
      BY <1>2, <1>5, <1>9, StartBlockIsOld DEF Completed, Entry
    <3> QED
      BY <1>8, <3>1, <3>2 DEF IsNew
  <2>5. Target(s)' = Contract(s.on, Arguments, s.do # "proxy")
    BY <1>7, <1>9 DEF Target
  <2>6. \A n \in Makes(s) : contracts'[process'.values[n]].ready
    <3>1. s.do = "proxy" => Makes(s) = {}
      BY DEF Makes
    <3>2. s.do # "proxy" => Makes(s) = {s.on}
      BY <1>2 DEF Makes
    <3> QED
      BY <1>16, <3>1, <3>2
  <2>7. ASSUME NEW x \in s.needs \ {s.on}
        PROVE  x \in DOMAIN Target(s)'.uses /\ Target(s)'.uses[x] = process'.values[x]
    BY <1>4, <1>9, <2>5, ContractIs DEF Addressed
  <2>8. Wires(s)'
    BY <1>2, <2>6, <2>7 DEF Wires
  <2> QED
    BY <2>3, <2>4, <2>8 DEF Holds
<1> QED
  BY <1>10, <1>11, <1>12, <1>13, <1>14, <1>16, <1>17, StatementKeepsInv

\* A factory deploys the attestation center, or AvsGovernance, with its OBLS.
LEMMA FactoryDeployKeepsInv ==
  ASSUME DeploymentInv, FactoryDeploy
  PROVE  DeploymentInv'
<1> DEFINE next == Len(contracts) + 1
           obls == Len(contracts) + 2
           uses == Overriding(Arguments, Only("OBLS", obls))
           new  == Overriding(Only(Now.on, NextAddress), Only("OBLS", NextAddress + 1))
<1>1. PICK s : s = Now
  OBVIOUS
<1>2. /\ s.do = "factory" /\ Running /\ ~Ended /\ ~Throws
      /\ process' = Bind(new)
      /\ UNCHANGED <<network, storage, deployments, finished>>
  BY <1>1 DEF FactoryDeploy, May, Rest
<1>3. contracts' = contracts \o <<Contract(s.on, uses, TRUE), Contract("OBLS", Empty, TRUE)>>
  <2>1. NextAddress + 1 = Len(contracts) + 2
    BY DEF NextAddress, DeploymentInv, ContractsOK
  <2> QED
    BY <1>1, <2>1 DEF FactoryDeploy
<1>4. /\ StatementOK(s) /\ s.on \in Addressed /\ s.on # "OBLS" /\ s.on \notin s.needs
      /\ "OBLS" \notin s.needs /\ s.do \in Creating
  BY <1>1, <1>2, Position DEF StatementOK, Creating
<1>5. /\ DOMAIN Arguments = s.needs \ {s.on} /\ Arguments \in Maps
      /\ \A a \in s.needs : /\ a \in Addressed /\ process.values[a] # Undefined
                            /\ Is(process.values[a], a)
      /\ \A a \in s.needs \ {s.on} : Arguments[a] = process.values[a]
  BY <1>1, <1>2, ArgumentsAre
<1>6. contracts \in Seq(Contracts) /\ Len(contracts) \in Nat
  BY DEF DeploymentInv, ContractsOK
<1>7. /\ DOMAIN uses = s.needs \cup {"OBLS"} /\ uses \in Maps /\ uses["OBLS"] = obls
      /\ \A x \in s.needs : uses[x] = process.values[x]
  <2>1. /\ DOMAIN uses = s.needs \cup {"OBLS"} /\ uses["OBLS"] = obls
        /\ \A x \in s.needs : uses[x] = process.values[x]
    BY <1>4, <1>5 DEF Overriding, Only
  <2>2. uses = [x \in DOMAIN uses |-> uses[x]]
    BY DEF Overriding
  <2>3. DOMAIN uses \in SUBSET Names /\ \A x \in DOMAIN uses : uses[x] \in Nat
    BY <1>5, <1>6, <2>1 DEF Addressed, Names, Is
  <2> HIDE DEF uses
  <2>4. uses \in [DOMAIN uses -> Nat]
    BY <2>2, <2>3
  <2>5. uses \in Maps
    BY <2>3, <2>4 DEF Maps
  <2> QED
    BY <2>1, <2>5
<1>8. Empty \in Maps /\ DOMAIN Empty = {}
  <2>1. Empty \in [{} -> Nat] /\ {} \in SUBSET Names
    BY DEF Empty
  <2> QED
    BY <2>1 DEF Maps
<1> HIDE DEF uses
<1> DEFINE center == Contract(s.on, uses, TRUE)
           book   == Contract("OBLS", Empty, TRUE)
<1>9. /\ center \in Contracts /\ center.kind = s.on /\ center.ready
      /\ center.roles = {} /\ center.uses = uses
      /\ book \in Contracts /\ book.kind = "OBLS" /\ book.ready
      /\ book.roles = {} /\ book.uses = Empty
  <2>1. "OBLS" \in Addressed
    BY DEF Addressed, Names
  <2>2. /\ center \in Contracts /\ center.kind = s.on /\ center.ready
        /\ center.roles = {} /\ center.uses = uses
    BY <1>4, <1>7 DEF Contract, Contracts
  <2>3. /\ book \in Contracts /\ book.kind = "OBLS" /\ book.ready
        /\ book.roles = {} /\ book.uses = Empty
    BY <1>8, <2>1 DEF Contract, Contracts
  <2> QED
    BY <2>2, <2>3
<1> HIDE DEF center, book
<1>10. /\ contracts' \in Seq(Contracts) /\ Len(contracts') = obls
       /\ \A a \in 1 .. Len(contracts) : contracts'[a] = contracts[a]
       /\ contracts'[next] = center
       /\ contracts'[obls] = book
  <2>1. contracts' = contracts \o <<center, book>>
    BY <1>3 DEF center, book
  <2>2. /\ <<center, book>> \in Seq(Contracts) /\ Len(<<center, book>>) = 2
        /\ <<center, book>>[1] = center /\ <<center, book>>[2] = book
    BY <1>9
  <2> QED
    BY <1>6, <2>1, <2>2, ConcatProperties
<1>11. Binds(s) = {s.on, "OBLS"} /\ Makes(s) = {s.on, "OBLS"} /\ Stores(s) = {}
  BY <1>2 DEF Binds, Makes, Stores
<1>12. /\ process' = [process EXCEPT !.at = @ + 1, !.values = process'.values]
       /\ process'.values \in [Names -> Nat]
       /\ process'.values[s.on] = next /\ process'.values["OBLS"] = obls
       /\ \A n \in Names \ {s.on, "OBLS"} : process'.values[n] = process.values[n]
  <2>1. /\ ValuesOK /\ {s.on, "OBLS"} \subseteq Names
        /\ new \in [{s.on, "OBLS"} -> Nat] /\ new[s.on] = next /\ new["OBLS"] = obls
    BY <1>1, <1>4, <1>6 DEF DeploymentInv, Addressed, Names, Only, Overriding, NextAddress
  <2> HIDE DEF new, next, obls
  <2>2. /\ process' = [process EXCEPT !.at = @ + 1, !.values = process'.values]
        /\ process'.values \in [Names -> Nat]
        /\ \A n \in {s.on, "OBLS"} : process'.values[n] = new[n]
        /\ \A n \in Names \ {s.on, "OBLS"} : process'.values[n] = process.values[n]
    BY <1>2, <2>1, Bound
  <2> QED
    BY <2>1, <2>2
<1>13. Executes(s)
  <2>1. \A a \in 1 .. Len(contracts) :
          a \in 1 .. Len(contracts') /\ Kept(contracts[a], contracts'[a], s)
    BY <1>6, <1>10, SameContracts
  <2>2. \A x \in {"L1", "L2"} : Listed(x, s)
    BY <1>2 DEF Listed
  <2> QED
    BY <1>1, <1>2, <1>11, <1>12, <2>1, <2>2 DEF Executes
<1>14. ContractsOK'
  <2>1. ASSUME NEW a \in 1 .. Len(contracts'), a \notin 1 .. Len(contracts)
        PROVE  \/ a = obls /\ contracts'[a] = book
               \/ a = next /\ contracts'[a] = center
    BY <1>6, <1>10, <2>1
  <2>2. \A x \in DOMAIN uses :
          uses[x] \in 1 .. Len(contracts') /\ contracts'[uses[x]].kind = x
    BY <1>5, <1>6, <1>7, <1>9, <1>10 DEF Is
  <2>3. \A a \in 1 .. Len(contracts) : a \in 1 .. Len(contracts') /\ contracts'[a] = contracts[a]
    BY <1>6, <1>10
  <2> HIDE DEF next, obls
  <2>4. ASSUME NEW a \in 1 .. Len(contracts'), a \notin 1 .. Len(contracts)
        PROVE  /\ contracts'[a].roles = {}
               /\ \A x \in DOMAIN contracts'[a].uses :
                    /\ contracts'[a].uses[x] \in 1 .. Len(contracts')
                    /\ contracts'[contracts'[a].uses[x]].kind = x
               /\ contracts'[a].ready
               /\ contracts'[a].kind = "AttestationCenter" => "OBLS" \in DOMAIN contracts'[a].uses
    <3>1. CASE contracts'[a] = book
      BY <1>8, <1>9, <3>1
    <3>2. CASE contracts'[a] = center
      BY <1>7, <1>9, <2>2, <3>2
    <3> QED
      BY <2>1, <2>4, <3>1, <3>2
  <2> QED
    BY <1>10, <2>3, <2>4, NewContractsOK DEF DeploymentInv
<1>15. ValuesOK'
  <2>1. Is(process.values[s.on], s.on)' /\ Is(process.values["OBLS"], "OBLS")'
    BY <1>6, <1>9, <1>10, <1>12 DEF Is
  <2> QED
    BY <1>4, <1>6, <1>10, <1>11, <1>12, <1>13, <2>1, ValuesKept DEF Addressed
<1>16. StorageOK'
  <2>1. storage' \in [Names -> Nat]
    BY <1>2 DEF DeploymentInv, StorageOK
  <2> QED
    BY <1>4, <1>6, <1>10, <1>13, <1>15, <2>1, StorageKept
<1>17. FileOK'
  BY <1>2, <1>6, <1>10, <1>13, FileKept
<1>18. Holds(s)'
  <2>1. \A n \in (s.needs \cup Binds(s)) \cap Addressed : process'.values[n] # Undefined
    BY <1>4, <1>5, <1>6, <1>11, <1>12 DEF Undefined, Addressed
  <2>2. Defines(s)'
    BY <1>2, <1>11, <2>1 DEF Defines
  <2>3. IsNew(s)'
    <3>1. /\ process'.values["StartBlock"] <= process'.values[s.on]
          /\ process'.values["StartBlock"] <= process'.values["OBLS"]
      <4>1. process'.values["StartBlock"] = process.values["StartBlock"]
        BY <1>4, <1>12 DEF Addressed, Names
      <4>2. process.values["StartBlock"] \in Nat /\ process.values["StartBlock"] <= next
        BY DEF DeploymentInv, ValuesOK, Names
      <4> QED
        BY <1>6, <1>12, <4>1, <4>2
    <3>2. 4 \in Completed(finished)' =>
            /\ Entry("L2", "StartBlock")' <= process'.values[s.on]
            /\ Entry("L2", "StartBlock")' <= process'.values["OBLS"]
      BY <1>2, <1>6, <1>12, StartBlockIsOld DEF Completed, Entry
    <3> QED
      BY <1>11, <3>1, <3>2 DEF IsNew
  <2>4. Target(s)' = center
    BY <1>10, <1>12 DEF Target
  <2>5. \A n \in Makes(s) : contracts'[process'.values[n]].ready
    BY <1>9, <1>10, <1>11, <1>12
  <2>6. ASSUME NEW x \in s.needs \ {s.on}
        PROVE  x \in DOMAIN Target(s)'.uses /\ Target(s)'.uses[x] = process'.values[x]
    BY <1>4, <1>5, <1>7, <1>9, <1>12, <2>4 DEF Addressed
  <2>7. Wires(s)'
    BY <1>2, <2>5, <2>6 DEF Wires
  <2> QED
    BY <2>2, <2>3, <2>7 DEF Holds
<1> QED
  BY <1>2, <1>13, <1>14, <1>15, <1>16, <1>17, <1>18, StatementKeepsInv

\* An address is saved for later migrations.
LEMMA SaveAddressKeepsInv ==
  ASSUME DeploymentInv, SaveAddress
  PROVE  DeploymentInv'
<1>1. PICK s : s = Now
  OBVIOUS
<1>2. /\ s.do = "save" /\ Running /\ ~Ended /\ ~Throws
      /\ storage' = [storage EXCEPT ![s.on] = process.values[s.on]]
      /\ process' = Bind(Empty)
      /\ UNCHANGED <<network, contracts, deployments, finished>>
  BY <1>1 DEF SaveAddress, May, Rest, Value
<1>3. StatementOK(s) /\ s.on \in Addressed /\ s.needs \subseteq Addressed
  BY <1>1, <1>2, Position DEF StatementOK
<1>4. /\ process' = [process EXCEPT !.at = @ + 1, !.values = process'.values]
      /\ process'.values = process.values /\ process.values \in [Names -> Nat]
  BY <1>2, NothingBound DEF DeploymentInv, ValuesOK
<1>5. Binds(s) = {} /\ Makes(s) = {} /\ Stores(s) = {s.on}
  BY <1>2 DEF Binds, Makes, Stores
<1>6. storage' \in [Names -> Nat] /\ \A n \in Names :
        storage'[n] = IF n \in Stores(s) THEN process'.values[n] ELSE storage[n]
  BY <1>2, <1>3, <1>4, <1>5 DEF DeploymentInv, StorageOK, Addressed
<1>7. Executes(s)
  BY <1>1, <1>2, <1>4, <1>6, SameContracts DEF Executes, Listed
<1>8. ContractsOK' /\ Len(contracts') \in Nat
  BY <1>2 DEF DeploymentInv, ContractsOK, Is
<1>9. ValuesOK'
  BY <1>4, <1>5, <1>7, <1>8, ValuesKept
<1>10. StorageOK'
  BY <1>3, <1>6, <1>7, <1>8, <1>9, StorageKept
<1>11. FileOK'
  BY <1>2, <1>7, <1>8, FileKept
<1>12. Holds(s)'
  <2>1. \A n \in s.needs : process'.values[n] # Undefined
    BY <1>2, <1>1, <1>4 DEF Throws, Value
  <2>2. Defines(s)'
    BY <1>2, <1>3, <1>5, <1>6, <2>1 DEF Defines, Addressed
  <2>3. IsNew(s)' /\ Wires(s)'
    BY <1>2, <1>5 DEF IsNew, Wires, Creating, Wiring
  <2> QED
    BY <2>2, <2>3 DEF Holds
<1> QED
  BY <1>2, <1>7, <1>8, <1>9, <1>10, <1>11, <1>12, StatementKeepsInv

\* What a transaction makes of the contract it is sent to.
LEMMA ChangedIs ==
  ASSUME DeploymentInv, Running, ~Ended, ~Throws, NEW s, s = Now, s.do \in Changing,
         NEW c \in Contracts, c.kind = s.on, s.do = "initialize" => ~c.ready,
         c.roles \subseteq 1 .. Len(contracts),
         \A x \in DOMAIN c.uses : Is(c.uses[x], x)
  PROVE  /\ Changed(c) \in Contracts /\ Kept(c, Changed(c), s)
         /\ Changed(c).roles \subseteq 1 .. Len(contracts)
         /\ \A x \in DOMAIN Changed(c).uses : Is(Changed(c).uses[x], x)
         /\ c.ready => DOMAIN c.uses \subseteq DOMAIN Changed(c).uses
         /\ s.do \in {"initialize", "point"} => \A x \in s.needs \ {s.on} :
              x \in DOMAIN Changed(c).uses /\ Changed(c).uses[x] = process.values[x]
         /\ s.do = "initialize" => Changed(c).ready
         /\ s.do \in {"grantAdmin", "transferOwnership"} => adminAddress \in Changed(c).admins
         /\ s.do = "grantRole" => \A x \in s.needs \ {s.on} : process.values[x] \in Changed(c).roles
         /\ s.do = "open" => Changed(c).open
<1>1. /\ DOMAIN Arguments = s.needs \ {s.on} /\ Arguments \in Maps
      /\ \A a \in s.needs : /\ a \in Addressed /\ process.values[a] # Undefined
                            /\ Is(process.values[a], a)
      /\ \A a \in s.needs \ {s.on} : Arguments[a] = process.values[a]
  BY ArgumentsAre DEF Changing
<1>2. /\ c = [kind |-> c.kind, ready |-> c.ready, roles |-> c.roles, open |-> c.open,
              uses |-> c.uses, admins |-> c.admins]
      /\ c.kind \in Addressed /\ c.ready \in BOOLEAN /\ c.roles \subseteq Nat
      /\ c.open \in BOOLEAN /\ c.uses \in Maps /\ c.admins \subseteq {Deployer, adminAddress}
  BY DEF Contracts
<1>3. Len(contracts) \in Nat
  BY DEF DeploymentInv, ContractsOK
<1>4. CASE s.do = "initialize"
  <2>1. Changed(c) = [c EXCEPT !.ready = TRUE, !.uses = Arguments, !.admins = {Deployer}]
    BY <1>4 DEF Changed
  <2>2. /\ Changed(c).kind = c.kind /\ Changed(c).ready = TRUE
        /\ Changed(c).admins = {Deployer} /\ Changed(c).roles = c.roles
        /\ Changed(c).open = c.open /\ Changed(c).uses = Arguments
    BY <1>2, <2>1
  <2>3. Changed(c) \in Contracts
    <3>1. Changed(c) = [kind |-> c.kind, ready |-> TRUE, roles |-> c.roles, open |-> c.open,
                        uses |-> Arguments, admins |-> {Deployer}]
      BY <1>2, <2>1
    <3>2. {Deployer} \subseteq {Deployer, adminAddress} /\ Arguments \in Maps
      BY <1>1
    <3> QED
      BY <1>2, <3>1, <3>2 DEF Contracts
  <2>4. ~c.ready
    BY <1>4
  <2>5. Kept(c, Changed(c), s)
    BY <2>2, <2>4 DEF Kept
  <2>6. \A x \in DOMAIN Changed(c).uses : Is(Changed(c).uses[x], x)
    BY <1>1, <2>2
  <2>7. \A x \in s.needs \ {s.on} :
          x \in DOMAIN Changed(c).uses /\ Changed(c).uses[x] = process.values[x]
    BY <1>1, <2>2
  <2>8. Changed(c).roles \subseteq 1 .. Len(contracts) /\ Changed(c).ready
    BY <2>2
  <2>9. s.do \notin {"grantAdmin", "transferOwnership", "grantRole", "open"}
    BY <1>4
  <2> QED
    BY <2>3, <2>4, <2>5, <2>6, <2>7, <2>8, <2>9
<1>5. CASE s.do = "grantAdmin"
  <2>1. Changed(c) = [c EXCEPT !.admins = @ \cup {adminAddress}]
    BY <1>5 DEF Changed
  <2> QED
    BY <1>1, <1>2, <1>5, <2>1 DEF Contracts, Kept
<1>6. CASE s.do = "transferOwnership"
  <2>1. Changed(c) = [c EXCEPT !.admins = {adminAddress}]
    BY <1>6 DEF Changed
  <2> QED
    BY <1>1, <1>2, <1>6, <2>1 DEF Contracts, Kept
<1>7. CASE s.do = "open"
  <2>1. Changed(c) = [c EXCEPT !.open = TRUE]
    BY <1>7 DEF Changed
  <2> QED
    BY <1>1, <1>2, <1>7, <2>1 DEF Contracts, Kept
<1>8. CASE s.do = "grantRole"
  <2> DEFINE given == {Arguments[a] : a \in DOMAIN Arguments}
  <2>1. Changed(c) = [c EXCEPT !.roles = @ \cup given]
    BY <1>8 DEF Changed
  <2>2. given \subseteq 1 .. Len(contracts) /\ given \subseteq Nat
    BY <1>1, <1>3 DEF Is
  <2>3. \A x \in s.needs \ {s.on} : process.values[x] \in given
    BY <1>1
  <2> HIDE DEF given
  <2> QED
    BY <1>1, <1>2, <1>8, <2>1, <2>2, <2>3 DEF Contracts, Kept
<1>9. CASE s.do = "point"
  <2> DEFINE uses == Overriding(Arguments, c.uses)
  <2>1. Changed(c) = [c EXCEPT !.uses = uses]
    BY <1>9 DEF Changed
  <2>2. /\ DOMAIN uses = DOMAIN Arguments \cup DOMAIN c.uses
        /\ uses = [x \in DOMAIN uses |-> uses[x]]
        /\ \A x \in DOMAIN Arguments : uses[x] = Arguments[x]
        /\ \A x \in DOMAIN c.uses \ DOMAIN Arguments : uses[x] = c.uses[x]
    BY DEF Overriding
  <2> HIDE DEF uses
  <2>3. \A x \in DOMAIN uses : Is(uses[x], x)
    BY <1>1, <2>2
  <2>4. uses \in Maps
    <3>1. DOMAIN uses \subseteq Names
      BY <1>1, <1>2, <2>2 DEF Maps
    <3>2. uses \in [DOMAIN uses -> Nat]
      BY <1>3, <2>2, <2>3 DEF Is
    <3> QED
      BY <3>1, <3>2 DEF Maps
  <2>5. Changed(c) \in Contracts
    BY <1>2, <2>1, <2>4 DEF Contracts
  <2>6. /\ Changed(c).kind = c.kind /\ Changed(c).ready = c.ready
        /\ Changed(c).admins = c.admins /\ Changed(c).roles = c.roles
        /\ Changed(c).open = c.open /\ Changed(c).uses = uses
    BY <1>2, <2>1
  <2>7. Kept(c, Changed(c), s)
    BY <1>1, <1>9, <2>2, <2>6 DEF Kept
  <2>8. \A x \in DOMAIN Changed(c).uses : Is(Changed(c).uses[x], x)
    BY <2>3, <2>6
  <2>9. /\ DOMAIN c.uses \subseteq DOMAIN Changed(c).uses
        /\ \A x \in s.needs \ {s.on} :
             x \in DOMAIN Changed(c).uses /\ Changed(c).uses[x] = process.values[x]
    BY <1>1, <2>2, <2>6
  <2>10. Changed(c).roles \subseteq 1 .. Len(contracts)
    BY <2>6
  <2>11. s.do \notin {"initialize", "grantAdmin", "transferOwnership", "grantRole", "open"}
    BY <1>9
  <2> HIDE DEF uses
  <2>12. c.ready => DOMAIN c.uses \subseteq DOMAIN Changed(c).uses
    BY <2>9
  <2>13. s.do \in {"initialize", "point"} => \A x \in s.needs \ {s.on} :
           x \in DOMAIN Changed(c).uses /\ Changed(c).uses[x] = process.values[x]
    BY <2>9
  <2>14. /\ s.do = "initialize" => Changed(c).ready
         /\ s.do \in {"grantAdmin", "transferOwnership"} => adminAddress \in Changed(c).admins
         /\ s.do = "grantRole" => \A x \in s.needs \ {s.on} : process.values[x] \in Changed(c).roles
         /\ s.do = "open" => Changed(c).open
    BY <2>11
  <2> QED
    BY <2>5, <2>7, <2>8, <2>10, <2>12, <2>13, <2>14, Zenon
<1> QED
  BY <1>4, <1>5, <1>6, <1>7, <1>8, <1>9 DEF Changing

\* A transaction changes the contract it is sent to.
LEMMA ChangeContractKeepsInv ==
  ASSUME DeploymentInv, ChangeContract
  PROVE  DeploymentInv'
<1>1. PICK s : s = Now
  OBVIOUS
<1> DEFINE v == process.values[s.on]
           c == contracts[v]
<1>2. /\ s.do \in Changing /\ Running /\ ~Ended /\ ~Throws
      /\ contracts' = [contracts EXCEPT ![v] = Changed(c)]
      /\ process' = Bind(Empty)
      /\ UNCHANGED <<network, storage, deployments, finished>>
  BY <1>1 DEF ChangeContract, May, Rest, Value, Changing
<1>3. /\ StatementOK(s) /\ s.on \in Addressed /\ s.on \in s.needs
      /\ DisciplinedAt(Code, process.at) /\ s = Code[process.at] /\ process.at \in 1 .. Len(Code)
      /\ \A j \in 1 .. process.at - 1 : Holds(Code[j])
  BY <1>1, <1>2, Position DEF StatementOK
<1>4. \A a \in s.needs : /\ a \in Addressed /\ process.values[a] # Undefined
                         /\ Is(process.values[a], a)
  BY <1>1, <1>2, ArgumentsAre DEF Changing
<1>5. Is(v, s.on)
  BY <1>3, <1>4
<1>6. /\ contracts \in Seq(Contracts) /\ Len(contracts) \in Nat
      /\ v \in 1 .. Len(contracts) /\ c \in Contracts /\ c.kind = s.on
  BY <1>5 DEF DeploymentInv, ContractsOK, Is
<1>7. s.do = "initialize" => ~c.ready
  <2>1. SUFFICES ASSUME s.do = "initialize" PROVE ~c.ready
    OBVIOUS
  <2>2. process.at > 1 /\ Code[process.at - 1].do = "proxy" /\ Code[process.at - 1].on = s.on
    BY <1>3, <2>1 DEF DisciplinedAt
  <2>3. ~Target(Code[process.at - 1]).ready
    BY <1>2, <2>2 DEF DeploymentInv, ProgressOK
  <2> QED
    BY <2>2, <2>3 DEF Target
<1>8. c.roles \subseteq 1 .. Len(contracts) /\ \A x \in DOMAIN c.uses : Is(c.uses[x], x)
  BY <1>6 DEF DeploymentInv, ContractsOK
<1> DEFINE d == Changed(c)
<1>9. /\ d \in Contracts /\ Kept(c, d, s)
      /\ d.roles \subseteq 1 .. Len(contracts)
      /\ \A x \in DOMAIN d.uses : Is(d.uses[x], x)
      /\ c.ready => DOMAIN c.uses \subseteq DOMAIN d.uses
      /\ s.do \in {"initialize", "point"} => \A x \in s.needs \ {s.on} :
           x \in DOMAIN d.uses /\ d.uses[x] = process.values[x]
      /\ s.do = "initialize" => d.ready
      /\ s.do \in {"grantAdmin", "transferOwnership"} => adminAddress \in d.admins
      /\ s.do = "grantRole" => \A x \in s.needs \ {s.on} : process.values[x] \in d.roles
      /\ s.do = "open" => d.open
  BY <1>1, <1>2, <1>6, <1>7, <1>8, ChangedIs
<1> HIDE DEF d
<1>10. /\ contracts' \in Seq(Contracts) /\ Len(contracts') = Len(contracts)
       /\ contracts'[v] = d
       /\ \A a \in 1 .. Len(contracts) : a # v => contracts'[a] = contracts[a]
  <2>1. contracts' = [contracts EXCEPT ![v] = d]
    BY <1>2 DEF d
  <2> HIDE DEF v
  <2> QED
    BY <1>6, <1>9, <2>1, ExceptSeq
<1>11. /\ process' = [process EXCEPT !.at = @ + 1, !.values = process'.values]
       /\ process'.values = process.values /\ process.values \in [Names -> Nat]
  BY <1>2, NothingBound DEF DeploymentInv, ValuesOK
<1>12. Binds(s) = {} /\ Stores(s) = {} /\ s.do \notin Creating \cup {"publish", "deployed", "proxy"}
  BY <1>2 DEF Binds, Stores, Changing, Creating
<1>13. Executes(s)
  <2>1. \A a \in 1 .. Len(contracts) :
          a \in 1 .. Len(contracts') /\ Kept(contracts[a], contracts'[a], s)
    BY <1>9, <1>10, SameContracts
  <2>2. \A x \in {"L1", "L2"} : Listed(x, s)
    BY <1>2, <1>12 DEF Listed
  <2> QED
    BY <1>1, <1>2, <1>11, <1>12, <2>1, <2>2 DEF Executes
<1>14. ContractsOK'
  <2>1. \A a \in 1 .. Len(contracts) : contracts'[a].kind = contracts[a].kind
    BY <1>13 DEF Executes, Kept
  <2>2. \A a, n : Is(a, n) => a \in 1 .. Len(contracts') /\ contracts'[a].kind = n
    BY <1>10, <2>1 DEF Is
  <2>3. SUFFICES ASSUME NEW a \in 1 .. Len(contracts)
        PROVE  /\ contracts'[a].roles \subseteq 1 .. Len(contracts')
               /\ \A x \in DOMAIN contracts'[a].uses :
                    /\ contracts'[a].uses[x] \in 1 .. Len(contracts')
                    /\ contracts'[contracts'[a].uses[x]].kind = x
               /\ contracts'[a].kind \in {"AvsGovernance", "AttestationCenter"} => contracts'[a].ready
               /\ contracts'[a].kind = "AttestationCenter" => "OBLS" \in DOMAIN contracts'[a].uses
    BY <1>10 DEF ContractsOK, Is
  <2>4. CASE a # v
    BY <1>10, <2>2, <2>4 DEF DeploymentInv, ContractsOK
  <2>5. CASE a = v
    <3>1. c.kind \in {"AvsGovernance", "AttestationCenter"} => c.ready /\ d.ready
      BY <1>6, <1>9 DEF DeploymentInv, ContractsOK, Kept
    <3>2. c.kind = "AttestationCenter" => "OBLS" \in DOMAIN d.uses
      BY <1>6, <1>9, <3>1 DEF DeploymentInv, ContractsOK
    <3>3. d.kind = c.kind
      BY <1>9 DEF Kept
    <3> QED
      BY <1>9, <1>10, <2>2, <2>5, <3>1, <3>2, <3>3
  <2> QED
    BY <2>4, <2>5
<1>15. ValuesOK'
  BY <1>6, <1>10, <1>11, <1>12, <1>13, ValuesKept
<1>16. StorageOK'
  <2>1. storage' \in [Names -> Nat]
    BY <1>2 DEF DeploymentInv, StorageOK
  <2> QED
    BY <1>3, <1>6, <1>10, <1>13, <1>15, <2>1, StorageKept
<1>17. FileOK'
  BY <1>2, <1>6, <1>10, <1>13, FileKept
<1>18. Holds(s)'
  <2>1. Defines(s)'
    BY <1>4, <1>11, <1>12 DEF Defines
  <2>2. IsNew(s)'
    BY <1>12 DEF IsNew
  <2>3. Target(s)' = d
    BY <1>10, <1>11 DEF Target
  <2>4. ASSUME NEW n \in Makes(s)
        PROVE  contracts'[process'.values[n]].ready
    <3>1. s.do = "initialize" /\ n = s.on
      BY <1>2, <2>4 DEF Makes, Changing
    <3> QED
      BY <1>9, <1>10, <1>11, <3>1
  <2>5. ASSUME s.do \in Wiring, NEW x \in s.needs \ {s.on}
        PROVE  x \in DOMAIN Target(s)'.uses /\ Target(s)'.uses[x] = process'.values[x]
    <3>1. s.do \in {"initialize", "point"}
      BY <1>2, <2>5 DEF Wiring, Changing
    <3> QED
      BY <1>9, <1>11, <2>3, <3>1
  <2>6. s.do \in {"grantAdmin", "transferOwnership"} =>
          Target(s)'.ready /\ adminAddress \in Target(s)'.admins
    <3>1. SUFFICES ASSUME s.do \in {"grantAdmin", "transferOwnership"} PROVE d.ready
      BY <1>9, <2>3
    <3>2. PICK j \in 1 .. process.at - 1 : s.on \in Makes(Code[j])
      BY <1>3, <3>1 DEF DisciplinedAt
    <3>3. c.ready
      BY <1>3, <3>2 DEF Holds, Wires
    <3> QED
      BY <1>9, <3>3 DEF Kept
  <2>7. s.do = "grantRole" =>
          \A x \in s.needs \ {s.on} : process'.values[x] \in Target(s)'.roles
    BY <1>9, <1>11, <2>3
  <2>8. s.do = "open" => Target(s)'.open
    BY <1>9, <2>3
  <2>9. Wires(s)'
    BY <2>4, <2>5, <2>6, <2>7, <2>8 DEF Wires
  <2> QED
    BY <2>1, <2>2, <2>9 DEF Holds
<1> QED
  BY <1>12, <1>13, <1>14, <1>15, <1>16, <1>17, <1>18, StatementKeepsInv

\* What a migration publishes is ready to be listed.
LEMMA PublishedAreReady ==
  ASSUME DeploymentInv, Running, ~Ended, NEW s, s = Now, s.do = "publish",
         NEW k \in DOMAIN s.keys
  PROVE  /\ s.keys[k] \in Names /\ process.values[s.keys[k]] \in Nat
         /\ k = "StartBlock" => process.values[s.keys[k]] \in 0 .. Len(contracts) + 1
         /\ k # "StartBlock" =>
              /\ Ready(process.values[s.keys[k]], k)
              /\ \E j \in 1 .. process.at - 1 :
                   Code[j].do \in Creating /\ s.keys[k] \in Binds(Code[j])
         /\ s.on \in {"L1", "L2"}
         /\ s.on = "L1" => k \in OwnedOnL1
         /\ s.on = "L2" => k \in DOMAIN Owner /\ Owner[k] = process.migration
<1> DEFINE n == s.keys[k]
<1>1. /\ StatementOK(s) /\ DisciplinedAt(Code, process.at) /\ Owned(process.migration, s)
      /\ s = Code[process.at]
      /\ \A j \in 1 .. process.at - 1 : StatementOK(Code[j]) /\ Holds(Code[j])
  BY Position
<1>2. n \in Names /\ s.on \in {"L1", "L2"} /\ n = NameOf(k)
      /\ (s.on = "L1" => k \in OwnedOnL1)
      /\ (s.on = "L2" => k \in DOMAIN Owner /\ Owner[k] = process.migration)
  BY <1>1 DEF StatementOK, Owned
<1>3. process.values[n] \in Nat
  BY <1>2 DEF DeploymentInv, ValuesOK
<1>4. ASSUME k = "StartBlock"
      PROVE  process.values[n] \in 0 .. Len(contracts) + 1
  <2>1. n = "StartBlock"
    BY <1>1, <1>4 DEF DisciplinedAt
  <2>2. process.values["StartBlock"] <= Len(contracts) + 1 /\ Len(contracts) \in Nat
    BY DEF DeploymentInv, ValuesOK, ContractsOK
  <2> QED
    BY <1>3, <2>1, <2>2
<1>5. ASSUME k # "StartBlock"
      PROVE  /\ Ready(process.values[n], k)
             /\ \E j \in 1 .. process.at - 1 : Code[j].do \in Creating /\ n \in Binds(Code[j])
  <2>1. /\ \E j \in 1 .. process.at - 1 : n \in Makes(Code[j])
        /\ \E j \in 1 .. process.at - 1 : Code[j].do \in Creating /\ n \in Binds(Code[j])
        /\ k \in Administered => \E j \in 1 .. process.at - 1 :
             Code[j].do \in {"grantAdmin", "transferOwnership"} /\ Code[j].on = n
    BY <1>1, <1>5 DEF DisciplinedAt
  <2>2. PICK j \in 1 .. process.at - 1 : n \in Makes(Code[j])
    BY <2>1
  <2>3. n \in (Code[j].needs \cup Binds(Code[j])) \cap Addressed
    BY <1>1, <2>2, SpokenNames
  <2>4. process.values[n] # Undefined /\ contracts[process.values[n]].ready
    BY <1>1, <2>2, <2>3 DEF Holds, Defines, Wires
  <2>5. Is(process.values[n], n)
    BY <2>3, <2>4 DEF DeploymentInv, ValuesOK
  <2>6. k \in Administered => adminAddress \in contracts[process.values[n]].admins
    BY <1>1, <2>1 DEF Holds, Wires, Target
  <2> QED
    BY <1>2, <2>1, <2>4, <2>5, <2>6 DEF Ready
<1> QED
  BY <1>2, <1>3, <1>4, <1>5

\* A migration publishes.
LEMMA WriteKeepsInv ==
  ASSUME DeploymentInv, writeToDeployments
  PROVE  DeploymentInv'
<1>1. PICK s : s = Now
  OBVIOUS
<1> DEFINE entries == [k \in DOMAIN s.keys |-> process.values[s.keys[k]]]
<1>2. /\ s.do = "publish" /\ Running /\ ~Ended /\ ~Throws
      /\ deployments' = [deployments EXCEPT ![s.on] = Overriding(entries, @)]
      /\ process' = Bind(Empty)
      /\ UNCHANGED <<network, contracts, storage, finished>>
  BY <1>1 DEF writeToDeployments, May, Rest, Value
<1>3. /\ StatementOK(s) /\ s.on \in {"L1", "L2"} /\ s.needs \subseteq Addressed
      /\ DisciplinedAt(Code, process.at) /\ s = Code[process.at]
  BY <1>1, <1>2, Position DEF StatementOK
<1>4. /\ process' = [process EXCEPT !.at = @ + 1, !.values = process'.values]
      /\ process'.values = process.values /\ process.values \in [Names -> Nat]
  BY <1>2, NothingBound DEF DeploymentInv, ValuesOK
<1>5. Binds(s) = {} /\ Makes(s) = {} /\ Stores(s) = {}
  BY <1>2 DEF Binds, Makes, Stores
<1>6. ContractsOK' /\ Len(contracts') \in Nat
  BY <1>2 DEF DeploymentInv, ContractsOK, Is
<1>7. /\ deployments' = [x \in {"L1", "L2"} |-> deployments'[x]]
      /\ deployments'[s.on] = Overriding(entries, deployments[s.on])
      /\ \A x \in {"L1", "L2"} \ {s.on} : deployments'[x] = deployments[x]
  BY <1>2, <1>3 DEF DeploymentInv, FileOK
<1>8. \A x \in {"L1", "L2"} : Listed(x, s)
  BY <1>2, <1>7 DEF Listed, Overriding
<1>9. Executes(s)
  <2>1. \A a \in 1 .. Len(contracts) : Kept(contracts[a], contracts'[a], s)
    BY <1>2, SameContracts
  <2> QED
    BY <1>1, <1>2, <1>4, <1>5, <1>8, <2>1 DEF Executes
<1>10. ValuesOK'
  BY <1>4, <1>5, <1>6, <1>9, ValuesKept
<1>11. StorageOK'
  <2>1. storage' \in [Names -> Nat]
    BY <1>2 DEF DeploymentInv, StorageOK
  <2> QED
    BY <1>3, <1>6, <1>9, <1>10, <2>1, StorageKept
<1>12. \A a, key : Ready(a, key) => Ready(a, key)'
  BY <1>2 DEF Ready, Is
<1>13. ASSUME NEW x \in {"L1", "L2"}, NEW keys, SectionOK(deployments[x], keys),
              x = s.on => DOMAIN s.keys \subseteq keys
       PROVE  SectionOK(deployments[x], keys)'
  <2> DEFINE new == deployments'[x]
  <2>1. CASE x # s.on
    BY <1>2, <1>7, <1>12, <1>13, <2>1 DEF SectionOK
  <2>2. CASE x = s.on
    <3>1. new = [k \in DOMAIN new |-> new[k]]
      BY <1>7, <2>2 DEF Overriding
    <3>2. /\ DOMAIN new = DOMAIN deployments[x] \cup DOMAIN s.keys
          /\ \A k \in DOMAIN new : new[k] =
               IF k \in DOMAIN s.keys THEN process.values[s.keys[k]] ELSE deployments[x][k]
      BY <1>2, <1>8, <2>2 DEF Listed
    <3>3. \A k \in DOMAIN s.keys :
            /\ k = "StartBlock" => process.values[s.keys[k]] \in 0 .. Len(contracts) + 1
            /\ k # "StartBlock" => Ready(process.values[s.keys[k]], k)
      BY <1>1, <1>2, PublishedAreReady
    <3>4. \A k \in DOMAIN new :
            IF k = "StartBlock" THEN new[k] \in 0 .. Len(contracts) + 1 ELSE Ready(new[k], k)
      <4>1. SUFFICES ASSUME NEW k \in DOMAIN new
            PROVE IF k = "StartBlock" THEN new[k] \in 0 .. Len(contracts) + 1
                                      ELSE Ready(new[k], k)
        OBVIOUS
      <4> HIDE DEF new
      <4>2. CASE k \in DOMAIN s.keys
        BY <3>2, <3>3, <4>2
      <4>3. CASE k \notin DOMAIN s.keys
        BY <1>13, <3>2, <4>3 DEF SectionOK
      <4> QED
        BY <4>2, <4>3
    <3>5. DOMAIN new \subseteq keys
      BY <1>13, <2>2, <3>2 DEF SectionOK
    <3>6. \A k \in DOMAIN new : k # "StartBlock" => Ready(deployments[x][k], k)'
      <4>1. SUFFICES ASSUME NEW k \in DOMAIN new, k # "StartBlock"
            PROVE  Ready(deployments[x][k], k)'
        OBVIOUS
      <4>2. Ready(new[k], k)
        BY <3>4, <4>1
      <4> QED
        BY <1>2, <4>2 DEF Ready, Is
    <3> QED
      BY <1>2, <3>1, <3>4, <3>5, <3>6 DEF SectionOK
  <2> QED
    BY <2>1, <2>2
<1>14. FileOK'
  <2>1. /\ s.on = "L1" => DOMAIN s.keys \subseteq OwnedOnL1
        /\ s.on = "L2" => DOMAIN s.keys \subseteq DOMAIN Owner
    BY <1>1, <1>2, PublishedAreReady
  <2>2. SectionOK(deployments["L1"], OwnedOnL1) /\ SectionOK(deployments["L2"], DOMAIN Owner)
    BY DEF DeploymentInv, FileOK
  <2>3. SectionOK(deployments["L1"], OwnedOnL1)' /\ SectionOK(deployments["L2"], DOMAIN Owner)'
    BY <1>13, <2>1, <2>2
  <2> QED
    BY <1>7, <2>3 DEF FileOK
<1>15. Holds(s)'
  <2>1. \A n \in s.needs : process'.values[n] # Undefined
    BY <1>1, <1>2, <1>4 DEF Throws, Value
  <2>2. \A k \in DOMAIN s.keys :
          k \in DOMAIN deployments'[s.on] /\ deployments'[s.on][k] = process'.values[s.keys[k]]
    <3>1. Listed(s.on, s)
      BY <1>3, <1>8
    <3>2. /\ DOMAIN deployments'[s.on] = DOMAIN deployments[s.on] \cup DOMAIN s.keys
          /\ \A k \in DOMAIN deployments'[s.on] : k \in DOMAIN s.keys =>
               deployments'[s.on][k] = process.values[s.keys[k]]
      BY <1>2, <3>1 DEF Listed
    <3> QED
      BY <1>4, <3>2
  <2>3. Defines(s)'
    BY <1>2, <1>5, <2>1, <2>2 DEF Defines
  <2>4. IsNew(s)' /\ Wires(s)'
    BY <1>2, <1>5 DEF IsNew, Wires, Creating, Wiring
  <2> QED
    BY <2>3, <2>4 DEF Holds
<1> QED
  BY <1>2, <1>6, <1>9, <1>10, <1>11, <1>14, <1>15, StatementKeepsInv

-----------------------------------------------------------------------------
(* What the programs do for the keys their migrations own                  *)

\* A statement of p publishes the key; one saves the address of n.
Publishes(p, key) == \E j \in 1 .. Len(p) :
  /\ p[j].do = "publish" /\ p[j].on = "L2" /\ key \in DOMAIN p[j].keys
  /\ p[j].keys[key] = NameOf(key)

Saves(p, n) == \E j \in 1 .. Len(p) : n \in Stores(p[j])

\* A statement of p makes key's contract use the one of name, and one has read
\* the address of the other contract.
WiresTo(p, key, name) == \E j \in 1 .. Len(p) :
  p[j].do \in Wiring /\ p[j].on = key /\ name \in p[j].needs \ {key}

Reads(p, n) == \E j \in 1 .. Len(p) : p[j].do = "deployed" /\ n \in p[j].needs

\* Each key is published by the migration that owns it.
LEMMA OwnPublished ==
  ASSUME NEW key \in DOMAIN Owner
  PROVE  Owner[key] \in Migrations /\ Publishes(Program[Owner[key]], key)

<1>1. Publishes(VennToken, "StartBlock")
  <2>1. /\ Len(VennToken) = 4 /\ VennToken[4].do = "publish" /\ VennToken[4].on = "L2"
        /\ "StartBlock" \in DOMAIN VennToken[4].keys /\ VennToken[4].keys["StartBlock"] = NameOf("StartBlock")
    BY Statements DEF VennToken, Publish, Same, NameOf
  <2> QED
    BY <2>1 DEF Publishes
<1>2. Publishes(VennToken, "VennTokenL2")
  <2>1. /\ Len(VennToken) = 4 /\ VennToken[4].do = "publish" /\ VennToken[4].on = "L2"
        /\ "VennTokenL2" \in DOMAIN VennToken[4].keys /\ VennToken[4].keys["VennTokenL2"] = NameOf("VennTokenL2")
    BY Statements DEF VennToken, Publish, Same, NameOf
  <2> QED
    BY <2>1 DEF Publishes
<1>3. Publishes(VennVaultL2, "VennVaultL2")
  <2>1. /\ Len(VennVaultL2) = 5 /\ VennVaultL2[5].do = "publish" /\ VennVaultL2[5].on = "L2"
        /\ "VennVaultL2" \in DOMAIN VennVaultL2[5].keys /\ VennVaultL2[5].keys["VennVaultL2"] = NameOf("VennVaultL2")
    BY Statements DEF VennVaultL2, Publish, Same, NameOf
  <2> QED
    BY <2>1 DEF Publishes
<1>4. Publishes(L2Avs, "AttestationCenter")
  <2>1. /\ Len(L2Avs) = 6 /\ L2Avs[6].do = "publish" /\ L2Avs[6].on = "L2"
        /\ "AttestationCenter" \in DOMAIN L2Avs[6].keys /\ L2Avs[6].keys["AttestationCenter"] = NameOf("AttestationCenter")
    BY Statements DEF L2Avs, Publish, Same, NameOf
  <2> QED
    BY <2>1 DEF Publishes
<1>5. Publishes(L2Avs, "OBLS")
  <2>1. /\ Len(L2Avs) = 6 /\ L2Avs[6].do = "publish" /\ L2Avs[6].on = "L2"
        /\ "OBLS" \in DOMAIN L2Avs[6].keys /\ L2Avs[6].keys["OBLS"] = NameOf("OBLS")
    BY Statements DEF L2Avs, Publish, Same, NameOf
  <2> QED
    BY <2>1 DEF Publishes
<1>6. Publishes(FirewallMigration, "Firewall")
  <2>1. /\ Len(FirewallMigration) = 3 /\ FirewallMigration[3].do = "publish" /\ FirewallMigration[3].on = "L2"
        /\ "Firewall" \in DOMAIN FirewallMigration[3].keys /\ FirewallMigration[3].keys["Firewall"] = NameOf("Firewall")
    BY Statements DEF FirewallMigration, Publish, Same, NameOf
  <2> QED
    BY <2>1 DEF Publishes
<1>7. Publishes(ProtocolRegistry, "ProtocolRegistry")
  <2>1. /\ Len(ProtocolRegistry) = 5 /\ ProtocolRegistry[5].do = "publish" /\ ProtocolRegistry[5].on = "L2"
        /\ "ProtocolRegistry" \in DOMAIN ProtocolRegistry[5].keys /\ ProtocolRegistry[5].keys["ProtocolRegistry"] = NameOf("ProtocolRegistry")
    BY Statements DEF ProtocolRegistry, Publish, Same, NameOf
  <2> QED
    BY <2>1 DEF Publishes
<1>8. Publishes(OperatorRegistry, "OperatorRegistry")
  <2>1. /\ Len(OperatorRegistry) = 5 /\ OperatorRegistry[5].do = "publish" /\ OperatorRegistry[5].on = "L2"
        /\ "OperatorRegistry" \in DOMAIN OperatorRegistry[5].keys /\ OperatorRegistry[5].keys["OperatorRegistry"] = NameOf("OperatorRegistry")
    BY Statements DEF OperatorRegistry, Publish, Same, NameOf
  <2> QED
    BY <2>1 DEF Publishes
<1>9. Publishes(VennFeeCalculator, "VennFeeCalculator")
  <2>1. /\ Len(VennFeeCalculator) = 6 /\ VennFeeCalculator[6].do = "publish" /\ VennFeeCalculator[6].on = "L2"
        /\ "VennFeeCalculator" \in DOMAIN VennFeeCalculator[6].keys /\ VennFeeCalculator[6].keys["VennFeeCalculator"] = NameOf("VennFeeCalculator")
    BY Statements DEF VennFeeCalculator, Publish, Same, NameOf
  <2> QED
    BY <2>1 DEF Publishes
<1>10. Publishes(FeePool, "FeePool")
  <2>1. /\ Len(FeePool) = 5 /\ FeePool[5].do = "publish" /\ FeePool[5].on = "L2"
        /\ "FeePool" \in DOMAIN FeePool[5].keys /\ FeePool[5].keys["FeePool"] = NameOf("FeePool")
    BY Statements DEF FeePool, Publish, Same, NameOf
  <2> QED
    BY <2>1 DEF Publishes
<1>11. Publishes(VennAvsLogic, "VennAvsLogic")
  <2>1. /\ Len(VennAvsLogic) = 5 /\ VennAvsLogic[5].do = "publish" /\ VennAvsLogic[5].on = "L2"
        /\ "VennAvsLogic" \in DOMAIN VennAvsLogic[5].keys /\ VennAvsLogic[5].keys["VennAvsLogic"] = NameOf("VennAvsLogic")
    BY Statements DEF VennAvsLogic, Publish, Same, NameOf
  <2> QED
    BY <2>1 DEF Publishes
<1>12. Publishes(AttestationCenterProxy, "AttestationCenterProxy")
  <2>1. /\ Len(AttestationCenterProxy) = 6 /\ AttestationCenterProxy[6].do = "publish" /\ AttestationCenterProxy[6].on = "L2"
        /\ "AttestationCenterProxy" \in DOMAIN AttestationCenterProxy[6].keys /\ AttestationCenterProxy[6].keys["AttestationCenterProxy"] = NameOf("AttestationCenterProxy")
    BY Statements DEF AttestationCenterProxy, Publish, Same, NameOf
  <2> QED
    BY <2>1 DEF Publishes
<1>13. Publishes(VotingPowerSyncer, "VotingPowerSyncer")
  <2>1. /\ Len(VotingPowerSyncer) = 6 /\ VotingPowerSyncer[6].do = "publish" /\ VotingPowerSyncer[6].on = "L2"
        /\ "VotingPowerSyncer" \in DOMAIN VotingPowerSyncer[6].keys /\ VotingPowerSyncer[6].keys["VotingPowerSyncer"] = NameOf("VotingPowerSyncer")
    BY Statements DEF VotingPowerSyncer, Publish, Same, NameOf
  <2> QED
    BY <2>1 DEF Publishes
<1> QED
  BY ProgramsAre, <1>1, <1>2, <1>3, <1>4, <1>5, <1>6, <1>7, <1>8, <1>9, <1>10, <1>11, <1>12, <1>13 DEF Owner

\* Its address is saved by that migration, too.
LEMMA OwnSaved ==
  ASSUME NEW key \in DOMAIN Owner \ {"StartBlock", "OBLS"}
  PROVE  Saves(Program[Owner[key]], NameOf(key))
<1>1. Saves(VennToken, NameOf("VennTokenL2"))
  <2>1. Len(VennToken) = 4 /\ NameOf("VennTokenL2") \in Stores(VennToken[2])
    BY Statements DEF VennToken, Proxy, Stores, NameOf
  <2> QED
    BY <2>1 DEF Saves
<1>2. Saves(VennVaultL2, NameOf("VennVaultL2"))
  <2>1. Len(VennVaultL2) = 5 /\ NameOf("VennVaultL2") \in Stores(VennVaultL2[2])
    BY Statements DEF VennVaultL2, Proxy, Stores, NameOf
  <2> QED
    BY <2>1 DEF Saves
<1>3. Saves(L2Avs, NameOf("AttestationCenter"))
  <2>1. Len(L2Avs) = 6 /\ NameOf("AttestationCenter") \in Stores(L2Avs[5])
    BY Statements DEF L2Avs, Save, Stores, NameOf
  <2> QED
    BY <2>1 DEF Saves
<1>4. Saves(FirewallMigration, NameOf("Firewall"))
  <2>1. Len(FirewallMigration) = 3 /\ NameOf("Firewall") \in Stores(FirewallMigration[1])
    BY Statements DEF FirewallMigration, Proxy, Stores, NameOf
  <2> QED
    BY <2>1 DEF Saves
<1>5. Saves(ProtocolRegistry, NameOf("ProtocolRegistry"))
  <2>1. Len(ProtocolRegistry) = 5 /\ NameOf("ProtocolRegistry") \in Stores(ProtocolRegistry[2])
    BY Statements DEF ProtocolRegistry, Proxy, Stores, NameOf
  <2> QED
    BY <2>1 DEF Saves
<1>6. Saves(OperatorRegistry, NameOf("OperatorRegistry"))
  <2>1. Len(OperatorRegistry) = 5 /\ NameOf("OperatorRegistry") \in Stores(OperatorRegistry[2])
    BY Statements DEF OperatorRegistry, Proxy, Stores, NameOf
  <2> QED
    BY <2>1 DEF Saves
<1>7. Saves(VennFeeCalculator, NameOf("VennFeeCalculator"))
  <2>1. Len(VennFeeCalculator) = 6 /\ NameOf("VennFeeCalculator") \in Stores(VennFeeCalculator[2])
    BY Statements DEF VennFeeCalculator, Proxy, Stores, NameOf
  <2> QED
    BY <2>1 DEF Saves
<1>8. Saves(FeePool, NameOf("FeePool"))
  <2>1. Len(FeePool) = 5 /\ NameOf("FeePool") \in Stores(FeePool[2])
    BY Statements DEF FeePool, Proxy, Stores, NameOf
  <2> QED
    BY <2>1 DEF Saves
<1>9. Saves(VennAvsLogic, NameOf("VennAvsLogic"))
  <2>1. Len(VennAvsLogic) = 5 /\ NameOf("VennAvsLogic") \in Stores(VennAvsLogic[2])
    BY Statements DEF VennAvsLogic, Deploy, Stores, NameOf
  <2> QED
    BY <2>1 DEF Saves
<1>10. Saves(AttestationCenterProxy, NameOf("AttestationCenterProxy"))
  <2>1. Len(AttestationCenterProxy) = 6 /\ NameOf("AttestationCenterProxy") \in Stores(AttestationCenterProxy[2])
    BY Statements DEF AttestationCenterProxy, Proxy, Stores, NameOf
  <2> QED
    BY <2>1 DEF Saves
<1>11. Saves(VotingPowerSyncer, NameOf("VotingPowerSyncer"))
  <2>1. Len(VotingPowerSyncer) = 6 /\ NameOf("VotingPowerSyncer") \in Stores(VotingPowerSyncer[3])
    BY Statements DEF VotingPowerSyncer, Deploy, Stores, NameOf
  <2> QED
    BY <2>1 DEF Saves
<1> QED
  BY ProgramsAre, <1>1, <1>2, <1>3, <1>4, <1>5, <1>6, <1>7, <1>8, <1>9, <1>10, <1>11 DEF Owner

\* Each link is made by the later of the two migrations, which reads the address
\* of the other contract from the storage.
LEMMA OwnWired ==
  ASSUME NEW key \in DOMAIN Uses, NEW name \in Uses[key]
  PROVE  LET m == Turns(key, name)[2] IN
         /\ WiresTo(Program[m], key, name)
         /\ Reads(Program[m], IF Owner[key] = m THEN name ELSE key)
<1>1. WiresTo(VennVaultL2, "VennVaultL2", "VennToken") /\ Reads(VennVaultL2, "VennToken")
  <2>1. /\ Len(VennVaultL2) = 5 /\ VennVaultL2[3].do \in Wiring /\ VennVaultL2[3].on = "VennVaultL2"
        /\ "VennToken" \in VennVaultL2[3].needs \ {"VennVaultL2"}
        /\ VennVaultL2[1].do = "deployed" /\ "VennToken" \in VennVaultL2[1].needs
    BY Statements DEF VennVaultL2, Initialize, Deployed, Wiring
  <2> QED
    BY <2>1 DEF WiresTo, Reads
<1>2. WiresTo(L2Avs, "AttestationCenter", "VennVaultL2") /\ Reads(L2Avs, "VennVaultL2")
  <2>1. /\ Len(L2Avs) = 6 /\ L2Avs[3].do \in Wiring /\ L2Avs[3].on = "AttestationCenter"
        /\ "VennVaultL2" \in L2Avs[3].needs \ {"AttestationCenter"}
        /\ L2Avs[2].do = "deployed" /\ "VennVaultL2" \in L2Avs[2].needs
    BY Statements DEF L2Avs, Factory, Deployed, Wiring
  <2> QED
    BY <2>1 DEF WiresTo, Reads
<1>3. WiresTo(VennFeeCalculator, "AttestationCenter", "VennFeeCalculator") /\ Reads(VennFeeCalculator, "AttestationCenter")
  <2>1. /\ Len(VennFeeCalculator) = 6 /\ VennFeeCalculator[5].do \in Wiring /\ VennFeeCalculator[5].on = "AttestationCenter"
        /\ "VennFeeCalculator" \in VennFeeCalculator[5].needs \ {"AttestationCenter"}
        /\ VennFeeCalculator[1].do = "deployed" /\ "AttestationCenter" \in VennFeeCalculator[1].needs
    BY Statements DEF VennFeeCalculator, Point, Deployed, Wiring
  <2> QED
    BY <2>1 DEF WiresTo, Reads
<1>4. WiresTo(VennAvsLogic, "AttestationCenter", "VennAvsLogic") /\ Reads(VennAvsLogic, "AttestationCenter")
  <2>1. /\ Len(VennAvsLogic) = 5 /\ VennAvsLogic[4].do \in Wiring /\ VennAvsLogic[4].on = "AttestationCenter"
        /\ "VennAvsLogic" \in VennAvsLogic[4].needs \ {"AttestationCenter"}
        /\ VennAvsLogic[1].do = "deployed" /\ "AttestationCenter" \in VennAvsLogic[1].needs
    BY Statements DEF VennAvsLogic, Point, Deployed, Wiring
  <2> QED
    BY <2>1 DEF WiresTo, Reads
<1>5. WiresTo(VotingPowerSyncer, "AttestationCenter", "VotingPowerSyncer") /\ Reads(VotingPowerSyncer, "AttestationCenter")
  <2>1. /\ Len(VotingPowerSyncer) = 6 /\ VotingPowerSyncer[5].do \in Wiring /\ VotingPowerSyncer[5].on = "AttestationCenter"
        /\ "VotingPowerSyncer" \in VotingPowerSyncer[5].needs \ {"AttestationCenter"}
        /\ VotingPowerSyncer[1].do = "deployed" /\ "AttestationCenter" \in VotingPowerSyncer[1].needs
    BY Statements DEF VotingPowerSyncer, Point, Deployed, Wiring
  <2> QED
    BY <2>1 DEF WiresTo, Reads
<1>6. WiresTo(ProtocolRegistry, "ProtocolRegistry", "AttestationCenter") /\ Reads(ProtocolRegistry, "AttestationCenter")
  <2>1. /\ Len(ProtocolRegistry) = 5 /\ ProtocolRegistry[3].do \in Wiring /\ ProtocolRegistry[3].on = "ProtocolRegistry"
        /\ "AttestationCenter" \in ProtocolRegistry[3].needs \ {"ProtocolRegistry"}
        /\ ProtocolRegistry[1].do = "deployed" /\ "AttestationCenter" \in ProtocolRegistry[1].needs
    BY Statements DEF ProtocolRegistry, Initialize, Deployed, Wiring
  <2> QED
    BY <2>1 DEF WiresTo, Reads
<1>7. WiresTo(OperatorRegistry, "OperatorRegistry", "AttestationCenter") /\ Reads(OperatorRegistry, "AttestationCenter")
  <2>1. /\ Len(OperatorRegistry) = 5 /\ OperatorRegistry[3].do \in Wiring /\ OperatorRegistry[3].on = "OperatorRegistry"
        /\ "AttestationCenter" \in OperatorRegistry[3].needs \ {"OperatorRegistry"}
        /\ OperatorRegistry[1].do = "deployed" /\ "AttestationCenter" \in OperatorRegistry[1].needs
    BY Statements DEF OperatorRegistry, Initialize, Deployed, Wiring
  <2> QED
    BY <2>1 DEF WiresTo, Reads
<1>8. WiresTo(VennFeeCalculator, "VennFeeCalculator", "OperatorRegistry") /\ Reads(VennFeeCalculator, "OperatorRegistry")
  <2>1. /\ Len(VennFeeCalculator) = 6 /\ VennFeeCalculator[3].do \in Wiring /\ VennFeeCalculator[3].on = "VennFeeCalculator"
        /\ "OperatorRegistry" \in VennFeeCalculator[3].needs \ {"VennFeeCalculator"}
        /\ VennFeeCalculator[1].do = "deployed" /\ "OperatorRegistry" \in VennFeeCalculator[1].needs
    BY Statements DEF VennFeeCalculator, Initialize, Deployed, Wiring
  <2> QED
    BY <2>1 DEF WiresTo, Reads
<1>9. WiresTo(FeePool, "FeePool", "ProtocolRegistry") /\ Reads(FeePool, "ProtocolRegistry")
  <2>1. /\ Len(FeePool) = 5 /\ FeePool[3].do \in Wiring /\ FeePool[3].on = "FeePool"
        /\ "ProtocolRegistry" \in FeePool[3].needs \ {"FeePool"}
        /\ FeePool[1].do = "deployed" /\ "ProtocolRegistry" \in FeePool[1].needs
    BY Statements DEF FeePool, Initialize, Deployed, Wiring
  <2> QED
    BY <2>1 DEF WiresTo, Reads
<1>10. WiresTo(FeePool, "FeePool", "VennFeeCalculator") /\ Reads(FeePool, "VennFeeCalculator")
  <2>1. /\ Len(FeePool) = 5 /\ FeePool[3].do \in Wiring /\ FeePool[3].on = "FeePool"
        /\ "VennFeeCalculator" \in FeePool[3].needs \ {"FeePool"}
        /\ FeePool[1].do = "deployed" /\ "VennFeeCalculator" \in FeePool[1].needs
    BY Statements DEF FeePool, Initialize, Deployed, Wiring
  <2> QED
    BY <2>1 DEF WiresTo, Reads
<1>11. WiresTo(VennAvsLogic, "VennAvsLogic", "AttestationCenter") /\ Reads(VennAvsLogic, "AttestationCenter")
  <2>1. /\ Len(VennAvsLogic) = 5 /\ VennAvsLogic[2].do \in Wiring /\ VennAvsLogic[2].on = "VennAvsLogic"
        /\ "AttestationCenter" \in VennAvsLogic[2].needs \ {"VennAvsLogic"}
        /\ VennAvsLogic[1].do = "deployed" /\ "AttestationCenter" \in VennAvsLogic[1].needs
    BY Statements DEF VennAvsLogic, Deploy, Deployed, Wiring
  <2> QED
    BY <2>1 DEF WiresTo, Reads
<1>12. WiresTo(VennAvsLogic, "VennAvsLogic", "FeePool") /\ Reads(VennAvsLogic, "FeePool")
  <2>1. /\ Len(VennAvsLogic) = 5 /\ VennAvsLogic[2].do \in Wiring /\ VennAvsLogic[2].on = "VennAvsLogic"
        /\ "FeePool" \in VennAvsLogic[2].needs \ {"VennAvsLogic"}
        /\ VennAvsLogic[1].do = "deployed" /\ "FeePool" \in VennAvsLogic[1].needs
    BY Statements DEF VennAvsLogic, Deploy, Deployed, Wiring
  <2> QED
    BY <2>1 DEF WiresTo, Reads
<1>13. WiresTo(VennAvsLogic, "VennAvsLogic", "ProtocolRegistry") /\ Reads(VennAvsLogic, "ProtocolRegistry")
  <2>1. /\ Len(VennAvsLogic) = 5 /\ VennAvsLogic[2].do \in Wiring /\ VennAvsLogic[2].on = "VennAvsLogic"
        /\ "ProtocolRegistry" \in VennAvsLogic[2].needs \ {"VennAvsLogic"}
        /\ VennAvsLogic[1].do = "deployed" /\ "ProtocolRegistry" \in VennAvsLogic[1].needs
    BY Statements DEF VennAvsLogic, Deploy, Deployed, Wiring
  <2> QED
    BY <2>1 DEF WiresTo, Reads
<1>14. WiresTo(AttestationCenterProxy, "AttestationCenterProxy", "FeePool") /\ Reads(AttestationCenterProxy, "FeePool")
  <2>1. /\ Len(AttestationCenterProxy) = 6 /\ AttestationCenterProxy[3].do \in Wiring /\ AttestationCenterProxy[3].on = "AttestationCenterProxy"
        /\ "FeePool" \in AttestationCenterProxy[3].needs \ {"AttestationCenterProxy"}
        /\ AttestationCenterProxy[1].do = "deployed" /\ "FeePool" \in AttestationCenterProxy[1].needs
    BY Statements DEF AttestationCenterProxy, Initialize, Deployed, Wiring
  <2> QED
    BY <2>1 DEF WiresTo, Reads
<1>15. WiresTo(AttestationCenterProxy, "AttestationCenterProxy", "AttestationCenter") /\ Reads(AttestationCenterProxy, "AttestationCenter")
  <2>1. /\ Len(AttestationCenterProxy) = 6 /\ AttestationCenterProxy[3].do \in Wiring /\ AttestationCenterProxy[3].on = "AttestationCenterProxy"
        /\ "AttestationCenter" \in AttestationCenterProxy[3].needs \ {"AttestationCenterProxy"}
        /\ AttestationCenterProxy[1].do = "deployed" /\ "AttestationCenter" \in AttestationCenterProxy[1].needs
    BY Statements DEF AttestationCenterProxy, Initialize, Deployed, Wiring
  <2> QED
    BY <2>1 DEF WiresTo, Reads
<1>16. ASSUME NEW k \in DOMAIN Uses, NEW n \in Uses[k]
      PROVE  \/ k = "VennVaultL2" /\ n = "VennToken"
             \/ k = "AttestationCenter" /\ n \in {"VennVaultL2", "VennFeeCalculator",
                                                "VennAvsLogic", "VotingPowerSyncer"}
             \/ k \in {"ProtocolRegistry", "OperatorRegistry"} /\ n = "AttestationCenter"
             \/ k = "VennFeeCalculator" /\ n = "OperatorRegistry"
             \/ k = "FeePool" /\ n \in {"ProtocolRegistry", "VennFeeCalculator"}
             \/ k = "VennAvsLogic" /\ n \in {"AttestationCenter", "FeePool", "ProtocolRegistry"}
             \/ k = "AttestationCenterProxy" /\ n \in {"FeePool", "AttestationCenter"}
  BY DEF Uses
<1> QED
  BY ProgramsAre, <1>1, <1>2, <1>3, <1>4, <1>5, <1>6, <1>7, <1>8, <1>9, <1>10, <1>11, <1>12, <1>13, <1>14, <1>15, <1>16 DEF Owner, Turns, Key
-----------------------------------------------------------------------------
(* A migration that ends                                                   *)

\* What the file lists of a migration that ends is what the process deployed.
LEMMA OwnEntries ==
  ASSUME DeploymentInv, Running, Ended, NEW key \in DOMAIN Owner,
         Owner[key] = process.migration
  PROVE  /\ key \in DOMAIN deployments["L2"]
         /\ Entry("L2", key) = process.values[NameOf(key)]
         /\ key # "StartBlock" => \E j \in 1 .. Len(Code) :
              Code[j].do \in Creating /\ NameOf(key) \in Binds(Code[j])
<1>1. \A j \in 1 .. Len(Code) : Holds(Code[j])
  BY AllDisciplined DEF DeploymentInv, ProgressOK, Ended, Code, Disciplined
<1>2. PICK i \in 1 .. Len(Code) :
        /\ Code[i].do = "publish" /\ Code[i].on = "L2" /\ key \in DOMAIN Code[i].keys
        /\ Code[i].keys[key] = NameOf(key)
  BY OwnPublished DEF Publishes, Code
<1>3. DisciplinedAt(Code, i)
  BY OwnPublished, AllDisciplined DEF Disciplined, Code
<1>4. key # "StartBlock" => \E j \in 1 .. i - 1 :
        Code[j].do \in Creating /\ NameOf(key) \in Binds(Code[j])
  BY <1>2, <1>3 DEF DisciplinedAt
<1>5. \A j \in 1 .. i - 1 : j \in 1 .. Len(Code)
  BY OwnPublished, AllDisciplined DEF Disciplined, Code
<1> QED
  BY <1>1, <1>2, <1>4, <1>5 DEF Holds, Defines, Entry

\* Every statement of a migration that ends holds.
LEMMA EndedHolds ==
  ASSUME DeploymentInv, Running, Ended
  PROVE  /\ \A j \in 1 .. Len(Code) : Holds(Code[j])
         /\ process.migration \in 1 .. 16
         /\ ~After(process.migration, process.migration)
         /\ \A k : ~After(process.migration, k) /\ ~After(k, process.migration)
<1>1. /\ process.migration \in Migrations /\ process.migration \notin Completed(finished)
      /\ process.at \in 1 .. Len(Code) + 1 /\ process.at > Len(Code)
      /\ \A j \in 1 .. process.at - 1 : Holds(Code[j])
  BY DEF DeploymentInv, ProgressOK, Ended, Code
<1>2. Len(Code) \in Nat
  BY <1>1, AllDisciplined DEF Code, Program, Disciplined
<1>3. \A j \in 1 .. Len(Code) : Holds(Code[j])
  BY <1>1, <1>2
<1>4. \A k : ~After(process.migration, k) /\ ~After(k, process.migration)
  BY <1>1, AfterBoth DEF DeploymentInv
<1> QED
  BY <1>1, <1>3, <1>4, ProgramsAre

\* The address that a statement read from the storage is the listed one, when
\* the migration that lists it is a completed one.
LEMMA ReadIsListed ==
  ASSUME DeploymentInv, Running, Ended, NEW key \in DOMAIN Owner \ {"StartBlock", "OBLS"},
         After(Owner[key], Owner[key]), key = "VennTokenL2" => After(3, 4),
         Reads(Code, NameOf(key))
  PROVE  process.values[NameOf(key)] = Entry("L2", key)
<1>1. PICK j \in 1 .. Len(Code) : Code[j].do = "deployed" /\ NameOf(key) \in Code[j].needs
  BY DEF Reads
<1>2. storage[NameOf(key)] = process.values[NameOf(key)]
  BY <1>1, EndedHolds DEF Holds, Defines
<1>3. storage[NameOf(key)] = Entry("L2", key)
  BY DEF DeploymentInv, HistoryOK, SavesOwn
<1> QED
  BY <1>2, <1>3

\* With the migration m completed, each pair that holds is an old one or ends
\* in m, and begins in m or in a migration that was completed before.
LEMMA CompletionKeepsHistory ==
  ASSUME DeploymentInv, Running, Ended, NEW m, m = process.migration,
         UNCHANGED <<contracts, storage, deployments>>,
         \A k, l : After(k, l)' => After(k, l) \/ (l = m /\ (k = m \/ After(k, k)))
  PROVE  HistoryOK'
<1>1. /\ m \in 1 .. 16 /\ Code = Program[m]
      /\ \A j \in 1 .. Len(Code) : Holds(Code[j])
      /\ \A k : ~After(m, k) /\ ~After(k, m)
  BY EndedHolds DEF Code
<1>2. FinishedOK /\ HistoryOK
  BY DEF DeploymentInv
<1>3. \A key : Entry("L2", key)' = Entry("L2", key) /\ L2(key)' = L2(key)
  BY DEF Entry, L2
<1>4. ListsOwn'
  BY <1>2, OwnEntries DEF ListsOwn, HistoryOK
<1>5. SavesOwn'
  <2>1. SUFFICES ASSUME NEW key \in DOMAIN Owner \ {"StartBlock", "OBLS"},
                        After(Owner[key], Owner[key])', key = "VennTokenL2" => After(3, 4)'
                 PROVE  storage[NameOf(key)] = Entry("L2", key)
    BY <1>3 DEF SavesOwn
  <2>2. CASE Owner[key] = m
    <3>1. PICK j \in 1 .. Len(Code) : NameOf(key) \in Stores(Code[j])
      BY <1>1, <2>2, OwnSaved DEF Saves
    <3>2. storage[NameOf(key)] = process.values[NameOf(key)]
      BY <1>1, <3>1 DEF Holds, Defines
    <3> QED
      BY <2>2, <3>2, OwnEntries
  <2>3. CASE Owner[key] # m
    <3>1. After(Owner[key], Owner[key])
      BY <2>1, <2>3
    <3>2. key = "VennTokenL2" => After(3, 4)
      BY <2>1, <2>3 DEF Owner
    <3> QED
      BY <1>2, <2>1, <3>1, <3>2 DEF HistoryOK, SavesOwn
  <2> QED
    BY <2>2, <2>3
<1>6. Links'
  <2>1. SUFFICES ASSUME NEW key \in DOMAIN Uses, NEW name \in Uses[key], LinkDue(key, name)'
                 PROVE  Linked(key, name)
    BY <1>3 DEF Links, Linked
  <2> DEFINE first == Turns(key, name)[1]
             last  == Turns(key, name)[2]
  <2>2. After(first, last)' /\ (name = "VennToken" => After(3, 4)')
    BY <2>1 DEF LinkDue
  <2>3. /\ key \in DOMAIN Owner \ {"StartBlock", "OBLS", "VennTokenL2"}
        /\ NameOf(key) = key /\ NameOf(Key(name)) = name
        /\ Key(name) \in DOMAIN Owner \ {"StartBlock", "OBLS"}
        /\ Key(name) = "VennTokenL2" => name = "VennToken"
        /\ Owner[key] # Owner[Key(name)] /\ name # key
        /\ \/ first = Owner[key] /\ last = Owner[Key(name)]
           \/ first = Owner[Key(name)] /\ last = Owner[key]
    BY Ends
  <2>4. name = "VennToken" => Turns(key, name) = <<4, 5>>
    BY DEF Uses, Turns, Owner, Key
  <2>5. CASE last # m
    <3>1. After(first, last)
      BY <2>2, <2>5
    <3>2. name = "VennToken" => After(3, 4)
      BY <1>1, <2>2, <2>4, <3>1
    <3>3. LinkDue(key, name)
      BY <3>1, <3>2 DEF LinkDue
    <3> QED
      BY <1>2, <3>3 DEF HistoryOK, Links
  <2>6. CASE last = m
    <3>1. After(first, first)
      BY <1>1, <2>2, <2>3, <2>6
    <3>2. name = "VennToken" => After(3, 4)
      BY <1>1, <2>2, <2>4, <2>6
    <3>3. WiresTo(Code, key, name) /\ Reads(Code, IF Owner[key] = m THEN name ELSE key)
      BY <1>1, <2>6, OwnWired
    <3>4. PICK j \in 1 .. Len(Code) :
            Code[j].do \in Wiring /\ Code[j].on = key /\ name \in Code[j].needs \ {key}
      BY <3>3 DEF WiresTo
    <3>5. LET c == contracts[process.values[key]] IN
            name \in DOMAIN c.uses /\ c.uses[name] = process.values[name]
      BY <1>1, <3>4 DEF Holds, Wires, Target
    <3>6. process.values[key] = Entry("L2", key) /\ process.values[name] = Entry("L2", Key(name))
      <4>1. CASE Owner[key] = m
        <5>1. first = Owner[Key(name)]
          BY <2>3, <2>6, <4>1
        <5>2. process.values[name] = Entry("L2", Key(name))
          BY <2>3, <3>1, <3>2, <3>3, <4>1, <5>1, ReadIsListed
        <5> QED
          BY <2>3, <4>1, <5>2, OwnEntries
      <4>2. CASE Owner[key] # m
        <5>1. first = Owner[key] /\ Owner[Key(name)] = m
          BY <2>3, <2>6, <4>2
        <5>2. process.values[key] = Entry("L2", key)
          BY <2>3, <3>1, <3>3, <4>2, <5>1, ReadIsListed
        <5> QED
          BY <2>3, <5>1, <5>2, OwnEntries
      <4> QED
        BY <4>1, <4>2
    <3> QED
      BY <3>5, <3>6 DEF Linked, L2
  <2> QED
    BY <2>5, <2>6
<1>7. Roles'
  <2>1. CASE m # 14
    <3>1. \A k : After(k, 14)' => After(k, 14)
      BY <2>1
    <3> QED
      BY <1>2, <1>3, <3>1 DEF HistoryOK, Roles
  <2>2. CASE m = 14
    <3>1. /\ Len(Code) = 3 /\ Code[1].do = "deployed"
          /\ Code[1].needs = {"VennFeeCalculator", "VennAvsLogic", "FeePool"}
          /\ Code[2].do = "grantRole" /\ Code[2].on = "VennFeeCalculator"
          /\ "FeePool" \in Code[2].needs
          /\ Code[3].do = "grantRole" /\ Code[3].on = "FeePool"
          /\ "VennAvsLogic" \in Code[3].needs
      BY <1>1, <2>2, ProgramsAre, Statements DEF Dependencies, Deployed, GrantRole
    <3>2. \A n \in {"VennFeeCalculator", "VennAvsLogic", "FeePool"} :
            After(Owner[n], Owner[n]) => process.values[n] = Entry("L2", n)
      <4>1. SUFFICES ASSUME NEW n \in {"VennFeeCalculator", "VennAvsLogic", "FeePool"},
                            After(Owner[n], Owner[n])
                     PROVE  process.values[n] = Entry("L2", n)
        OBVIOUS
      <4>2. n \in DOMAIN Owner \ {"StartBlock", "OBLS"} /\ NameOf(n) = n /\ n # "VennTokenL2"
        BY DEF Owner, NameOf
      <4>3. Reads(Code, n)
        BY <3>1 DEF Reads
      <4> QED
        BY <4>1, <4>2, <4>3, ReadIsListed
    <3>3. /\ process.values["FeePool"] \in contracts[process.values["VennFeeCalculator"]].roles
          /\ process.values["VennAvsLogic"] \in contracts[process.values["FeePool"]].roles
      <4>1. Wires(Code[2]) /\ Wires(Code[3])
        BY <1>1, <3>1 DEF Holds
      <4> QED
        BY <3>1, <4>1 DEF Wires, Target
    <3>4. \A k \in {10, 11, 12} : After(k, 14)' => After(k, k)
      BY <1>2, <2>2, AfterBoth
    <3>5. Owner["VennFeeCalculator"] = 10 /\ Owner["FeePool"] = 11 /\ Owner["VennAvsLogic"] = 12
      BY DEF Owner
    <3> QED
      BY <1>3, <3>2, <3>3, <3>4, <3>5 DEF Roles, L2
  <2> QED
    BY <2>1, <2>2
<1>8. Opened'
  <2>1. CASE m # 13
    BY <1>2, <1>3, <2>1 DEF HistoryOK, Opened
  <2>2. CASE m = 13
    <3>1. /\ Len(Code) = 6 /\ Code[1].do = "deployed" /\ "AttestationCenter" \in Code[1].needs
          /\ Code[4].do = "open" /\ Code[4].on = "AttestationCenter"
      BY <1>1, <2>2, ProgramsAre, Statements DEF AttestationCenterProxy, Deployed, Open
    <3>2. contracts[process.values["AttestationCenter"]].open
      <4>1. Wires(Code[4])
        BY <1>1, <3>1 DEF Holds
      <4>2. Target(Code[4]).open
        BY <3>1, <4>1 DEF Wires
      <4> QED
        BY <3>1, <4>2 DEF Target
    <3>3. ASSUME After(6, 6)
          PROVE  process.values["AttestationCenter"] = Entry("L2", "AttestationCenter")
      <4>1. /\ "AttestationCenter" \in DOMAIN Owner \ {"StartBlock", "OBLS"}
            /\ NameOf("AttestationCenter") = "AttestationCenter"
            /\ Owner["AttestationCenter"] = 6
        BY DEF Owner, NameOf
      <4>2. Reads(Code, "AttestationCenter")
        BY <3>1 DEF Reads
      <4> QED
        BY <3>3, <4>1, <4>2, ReadIsListed
    <3>4. After(6, 13)' => After(6, 6)
      BY <1>1, <2>2
    <3> QED
      BY <1>3, <3>2, <3>3, <3>4 DEF Opened, L2
  <2> QED
    BY <2>1, <2>2
<1>9. Newer'
  <2>1. SUFFICES ASSUME NEW key \in DOMAIN Owner, After(4, Owner[key])'
                 PROVE  Entry("L2", "StartBlock") <= Entry("L2", key)
    BY <1>3 DEF Newer
  <2>2. CASE Owner[key] # m
    BY <1>2, <2>1, <2>2 DEF HistoryOK, Newer
  <2>3. CASE Owner[key] = m
    <3>1. m = 4 \/ 4 \in Completed(finished)
      BY <1>2, <2>1, <2>3, AfterBoth
    <3>2. CASE key = "StartBlock"
      <4>1. Owner["StartBlock"] = 4
        BY DEF Owner
      <4>2. Entry("L2", "StartBlock") = process.values["StartBlock"]
        BY <2>3, <3>2, OwnEntries DEF NameOf
      <4>3. process.values["StartBlock"] \in Nat
        BY DEF DeploymentInv, ValuesOK, Names
      <4> QED
        BY <3>2, <4>2, <4>3
    <3>3. CASE key # "StartBlock"
      <4>1. Entry("L2", key) = process.values[NameOf(key)]
        BY <2>3, OwnEntries
      <4>2. PICK j \in 1 .. Len(Code) : Code[j].do \in Creating /\ NameOf(key) \in Binds(Code[j])
        BY <2>3, <3>3, OwnEntries
      <4>3. IsNew(Code[j])
        BY <1>1 DEF Holds
      <4>4. /\ process.values["StartBlock"] <= process.values[NameOf(key)]
            /\ 4 \in Completed(finished) => Entry("L2", "StartBlock") <= process.values[NameOf(key)]
        BY <4>2, <4>3 DEF IsNew
      <4>5. m = 4 => Entry("L2", "StartBlock") = process.values["StartBlock"]
        <5>1. "StartBlock" \in DOMAIN Owner /\ Owner["StartBlock"] = 4
              /\ NameOf("StartBlock") = "StartBlock"
          BY DEF Owner, NameOf
        <5> QED
          BY <5>1, OwnEntries
      <4> QED
        BY <3>1, <4>1, <4>4, <4>5
    <3> QED
      BY <3>2, <3>3
  <2> QED
    BY <2>2, <2>3
<1> QED
  BY <1>4, <1>5, <1>6, <1>7, <1>8, <1>9 DEF HistoryOK

-----------------------------------------------------------------------------
(* The steps between statements                                            *)

\* A process that begins, or none, knows no addresses yet.
LEMMA NewProcessKeepsInv ==
  ASSUME DeploymentInv, UNCHANGED <<network, contracts, storage, deployments>>,
         FinishedOK', HistoryOK',
         \/ process' = Idle
         \/ \E m, last \in Migrations : \E name :
              /\ process' = Begin(m, last, name)
              /\ m <= last /\ m \notin Completed(finished)'
  PROVE  DeploymentInv'
<1>1. /\ network' \in Networks /\ ContractsOK' /\ StorageOK' /\ FileOK'
      /\ Len(contracts) \in Nat
  BY DEF DeploymentInv, ContractsOK, StorageOK, FileOK, SectionOK, Ready, Is
<1>2. /\ process'.values = Nothing
      /\ process' = [migration |-> process'.migration, last |-> process'.last,
                     at |-> process'.at, avsName |-> process'.avsName,
                     values |-> process'.values]
  <2>1. CASE process' = Idle
    BY <2>1 DEF Idle
  <2>2. CASE process' # Idle
    <3>1. PICK m \in Migrations, last \in Migrations : \E name : process' = Begin(m, last, name)
      BY <2>2
    <3> QED
      BY <3>1 DEF Begin, Idle
  <2> QED
    BY <2>1, <2>2
<1>3. Nothing \in [Names -> Nat] /\ \A n \in Names : Nothing[n] = Undefined
  BY DEF Nothing, Undefined
<1>4. ValuesOK'
  BY <1>1, <1>2, <1>3 DEF ValuesOK, Names, Addressed, Undefined
<1>5. ProgressOK'
  <2>1. SUFFICES ASSUME Running' PROVE ProgressOK'
    BY DEF ProgressOK
  <2>2. PICK m \in Migrations, last \in Migrations : \E name :
          /\ process' = Begin(m, last, name)
          /\ m <= last /\ m \notin Completed(finished)'
    BY <2>1 DEF Running
  <2>3. process'.migration = m /\ process'.last = last /\ process'.at = 1
    BY <2>2 DEF Begin, Idle
  <2>4. Len(Program[m]) \in Nat
    BY AllDisciplined, ProgramsAre DEF Program
  <2>5. process'.at \in 1 .. Len(Code') + 1 /\ ~(process'.at > 1)
        /\ 1 .. process'.at - 1 = {}
    BY <2>3, <2>4 DEF Code
  <2> QED
    BY <2>2, <2>3, <2>5 DEF ProgressOK
<1> QED
  BY <1>1, <1>4, <1>5 DEF DeploymentInv

\* What is forgotten of the order leaves what the rest of it says.
LEMMA HistoryForgets ==
  ASSUME HistoryOK, UNCHANGED <<contracts, storage, deployments>>,
         \A k, m : After(k, m)' => After(k, m)
  PROVE  HistoryOK'
<1>1. \A key : Entry("L2", key)' = Entry("L2", key) /\ L2(key)' = L2(key)
  BY DEF Entry, L2
<1>2. ListsOwn' /\ SavesOwn'
  BY <1>1 DEF HistoryOK, ListsOwn, SavesOwn
<1>3. Links'
  BY <1>1 DEF HistoryOK, Links, LinkDue, Linked
<1>4. Roles' /\ Newer'
  BY <1>1 DEF HistoryOK, Roles, Newer
<1>5. Opened'
  <2>1. L2("AttestationCenter")' = L2("AttestationCenter")
    BY <1>1
  <2>2. (After(6, 13) => L2("AttestationCenter").open)
    BY DEF HistoryOK, Opened
  <2> QED
    BY <2>1, <2>2, Zenon DEF Opened
<1> QED
  BY <1>2, <1>3, <1>4, <1>5 DEF HistoryOK

\* The order without a migration.
LEMMA OrderWithout ==
  ASSUME FinishedOK, NEW m
  PROVE  /\ Without(m) \subseteq Migrations \X Migrations
         /\ \A k, l : <<k, l>> \in Without(m) <=> After(k, l) /\ k # m /\ l # m
         /\ \A k, l \in Migrations : <<k, l>> \in Without(m) =>
              <<k, k>> \in Without(m) /\ <<l, l>> \in Without(m)
         /\ m \notin Completed(Without(m))
BY DEF FinishedOK, Without, After, Completed

\* The order with a migration put last.
LEMMA OrderLast ==
  ASSUME NEW order, order \subseteq Migrations \X Migrations, NEW m \in Migrations,
         \A k, l \in Migrations : <<k, l>> \in order =>
           <<k, k>> \in order /\ <<l, l>> \in order
  PROVE  /\ Last(m, order) \subseteq Migrations \X Migrations
         /\ \A k, l : <<k, l>> \in Last(m, order) <=>
              <<k, l>> \in order \/ (l = m /\ (k = m \/ <<k, k>> \in order))
         /\ \A k, l \in Migrations : <<k, l>> \in Last(m, order) =>
              <<k, k>> \in Last(m, order) /\ <<l, l>> \in Last(m, order)
<1>1. Last(m, order) \subseteq Migrations \X Migrations
  BY DEF Last, Completed
<1>2. ASSUME NEW k, NEW l
      PROVE  <<k, l>> \in Last(m, order) <=>
               <<k, l>> \in order \/ (l = m /\ (k = m \/ <<k, k>> \in order))
  BY DEF Last, Completed
<1>3. \A k, l : <<k, l>> \in Last(m, order) <=>
        <<k, l>> \in order \/ (l = m /\ (k = m \/ <<k, k>> \in order))
  BY <1>2
<1>4. ASSUME NEW k \in Migrations, NEW l \in Migrations, <<k, l>> \in Last(m, order)
      PROVE  <<k, k>> \in Last(m, order) /\ <<l, l>> \in Last(m, order)
  BY <1>3, <1>4
<1> QED
  BY <1>1, <1>3, <1>4

\* A migration ends, and the next one of the range begins.
LEMMA CompleteMigrationKeepsInv ==
  ASSUME DeploymentInv, CompleteMigration
  PROVE  DeploymentInv'
<1>1. PICK m : m = process.migration
  OBVIOUS
<1>2. PICK order : order = IF m = process.last THEN finished ELSE Without(m + 1)
  OBVIOUS
<1>3. /\ Running /\ Ended
      /\ UNCHANGED <<network, contracts, storage, deployments>>
      /\ finished' = Last(m, order)
      /\ m = process.last => process' = Idle
      /\ m # process.last => process' = Begin(m + 1, process.last, process.avsName)
  BY <1>1, <1>2 DEF CompleteMigration, Ended, Quiet
<1>4. /\ m \in 1 .. 16 /\ process.last \in 1 .. 16 /\ m <= process.last /\ m \in Migrations
  BY <1>1, <1>3, ProgramsAre DEF DeploymentInv, ProgressOK
<1>5. /\ order \subseteq Migrations \X Migrations
      /\ \A k, l \in Migrations : <<k, l>> \in order =>
           <<k, k>> \in order /\ <<l, l>> \in order
      /\ \A k, l : <<k, l>> \in order => After(k, l)
      /\ m # process.last => <<m + 1, m + 1>> \notin order
  <2>1. CASE m = process.last
    BY <1>2, <2>1 DEF DeploymentInv, FinishedOK, After
  <2>2. CASE m # process.last
    BY <1>2, <2>2, OrderWithout DEF DeploymentInv
  <2> QED
    BY <2>1, <2>2
<1>6. /\ finished' \subseteq Migrations \X Migrations
      /\ \A k, l : <<k, l>> \in finished' <=>
           <<k, l>> \in order \/ (l = m /\ (k = m \/ <<k, k>> \in order))
      /\ \A k, l \in Migrations : <<k, l>> \in finished' =>
           <<k, k>> \in finished' /\ <<l, l>> \in finished'
  BY <1>3, <1>4, <1>5, OrderLast
<1>7. FinishedOK'
  BY <1>6 DEF FinishedOK
<1>8. HistoryOK'
  <2>1. \A k, l : After(k, l)' => After(k, l) \/ (l = m /\ (k = m \/ After(k, k)))
    BY <1>5, <1>6 DEF After
  <2> QED
    BY <1>1, <1>3, <2>1, CompletionKeepsHistory
<1>9. m # process.last => m + 1 \in Migrations /\ m + 1 <= process.last
                          /\ process.last \in Migrations /\ m + 1 \notin Completed(finished)'
  BY <1>4, <1>5, <1>6, ProgramsAre DEF Completed
<1> QED
  BY <1>3, <1>7, <1>8, <1>9, NewProcessKeepsInv

\* A process that fails or dies undoes nothing.
LEMMA StopKeepsInv ==
  ASSUME DeploymentInv, process' = Idle, Quiet, finished' = finished
  PROVE  DeploymentInv'
<1>1. FinishedOK' /\ HistoryOK'
  BY HistoryForgets DEF DeploymentInv, FinishedOK, After, Quiet
<1> QED
  BY <1>1, NewProcessKeepsInv DEF Quiet

\* A migration is started: what was said of it no longer is.
LEMMA StartKeepsInv ==
  ASSUME DeploymentInv, NEW m \in Migrations, NEW last \in Migrations, NEW name,
         m <= last, Start(m, last, name)
  PROVE  DeploymentInv'
<1>1. process' = Begin(m, last, name) /\ finished' = Without(m)
      /\ UNCHANGED <<network, contracts, storage, deployments>>
  BY DEF Start, Quiet
<1>2. FinishedOK' /\ m \notin Completed(finished)'
  BY <1>1, OrderWithout DEF DeploymentInv, FinishedOK, Completed
<1>3. HistoryOK'
  <2>1. \A k, l : After(k, l)' => After(k, l)
    BY <1>1, OrderWithout DEF DeploymentInv, After
  <2> QED
    BY <1>1, <2>1, HistoryForgets DEF DeploymentInv
<1> QED
  BY <1>1, <1>2, <1>3, NewProcessKeepsInv

\* A range is started at will.
LEMMA StartRangeKeepsInv ==
  ASSUME DeploymentInv, StartRange
  PROVE  DeploymentInv'
<1>1. PICK r \in Ranges, name \in AvsNames : Start(r[1], r[2], name)
  BY DEF StartRange
<1>2. r[1] \in Migrations /\ r[2] \in Migrations /\ r[1] <= r[2]
  BY DeploymentAssumption
<1> QED
  BY <1>1, <1>2, StartKeepsInv

\* The last migration of a migration's namespace.
LEMMA LastIs ==
  ASSUME NEW m \in Migrations
  PROVE  LastOfNamespace(m) \in Migrations /\ m <= LastOfNamespace(m)
<1>1. m \in 1 .. 16 /\ Migrations = 1 .. 16
  BY ProgramsAre
<1>2. \E l \in Migrations : \E n \in Namespaces : m \in n /\ l \in n /\ \A k \in n : k <= l
  <2>1. CASE m \in 1 .. 2
    BY <1>1, <2>1 DEF Namespaces
  <2>2. CASE m \in 3 .. 3
    BY <1>1, <2>2 DEF Namespaces
  <2>3. CASE m \in 4 .. 16
    BY <1>1, <2>3 DEF Namespaces
  <2> QED
    BY <1>1, <2>1, <2>2, <2>3
<1>3. /\ LastOfNamespace(m) \in Migrations
      /\ \E n \in Namespaces : m \in n /\ \A k \in n : k <= LastOfNamespace(m)
  BY <1>2 DEF LastOfNamespace
<1> QED
  BY <1>3

\* The operator goes on from the first migration that is not completed.
LEMMA ResumeKeepsInv ==
  ASSUME DeploymentInv, Resume
  PROVE  DeploymentInv'
<1>1. PICK m, name : /\ m = CHOOSE u \in Unfinished : \A k \in Unfinished : u <= k
                     /\ Start(m, LastOfNamespace(m), name)
  BY DEF Resume
<1>2. Unfinished # {} /\ Unfinished \subseteq 1 .. 16
  BY ProgramsAre DEF Resume, Unfinished
<1>3. \E u \in Unfinished : \A k \in Unfinished : u <= k
  <2> DEFINE R == OpToRel(<, Nat)
  <2>1. \A x, y \in Nat : x < y => <<x, y>> \in R
    BY DEF OpToRel
  <2>2. IsWellFoundedOn(R, Nat)
    BY NatLessThanWellFounded
  <2> HIDE DEF R
  <2>3. Unfinished \subseteq Nat
    BY <1>2
  <2>4. PICK u \in Unfinished : \A k \in Unfinished : <<k, u>> \notin R
    BY <1>2, <2>2, <2>3, WFMin
  <2>5. ASSUME NEW k \in Unfinished
        PROVE  u <= k
    <3>1. ~(k < u)
      BY <2>1, <2>3, <2>4
    <3>2. k \in Nat /\ u \in Nat
      BY <2>3
    <3> QED
      BY <3>1, <3>2
  <2> QED
    BY <2>5
<1>4. m \in Migrations
  BY <1>1, <1>3 DEF Unfinished
<1> QED
  BY <1>1, <1>4, LastIs, StartKeepsInv

\* Nothing is deployed at first.
LEMMA InitEstablishesInv ==
  ASSUME Init
  PROVE  DeploymentInv
<1>1. contracts = <<>> /\ Len(contracts) = 0 /\ contracts \in Seq(Contracts)
  BY DEF Init
<1>2. Nothing \in [Names -> Nat] /\ \A n \in Names : Nothing[n] = 0
  BY DEF Nothing, Undefined
<1>3. ContractsOK
  BY <1>1 DEF ContractsOK
<1>4. StorageOK
  BY <1>2 DEF Init, StorageOK, Addressed, Names, Undefined
<1>5. FileOK
  BY DEF Init, FileOK, SectionOK, Empty
<1>6. ValuesOK
  BY <1>1, <1>2 DEF Init, ValuesOK, Idle, Addressed, Names, Undefined
<1>7. ProgressOK
  BY DEF Init, ProgressOK, Running
<1>8. FinishedOK
  BY DEF Init, FinishedOK
<1>9. HistoryOK
  <2>1. \A k, m : ~After(k, m)
    BY DEF Init, After
  <2> QED
    BY <2>1 DEF HistoryOK, ListsOwn, SavesOwn, Links, LinkDue, Roles, Opened, Newer
<1> QED
  BY <1>3, <1>4, <1>5, <1>6, <1>7, <1>8, <1>9 DEF DeploymentInv, Init

\* Every step keeps the invariant.
LEMMA NextKeepsInv ==
  ASSUME DeploymentInv, [Next]_vars
  PROVE  DeploymentInv'
<1>1. CASE UNCHANGED vars
  <2>1. HistoryOK'
    BY <1>1, HistoryForgets DEF DeploymentInv, vars, After
  <2>2. ContractsOK' /\ StorageOK' /\ FileOK' /\ ValuesOK' /\ FinishedOK' /\ network' \in Networks
    BY <1>1 DEF DeploymentInv, vars, ContractsOK, StorageOK, FileOK, SectionOK, Ready, Is,
                ValuesOK, FinishedOK
  <2>3. ProgressOK'
    <3>1. /\ process' = process /\ contracts' = contracts /\ storage' = storage
          /\ deployments' = deployments /\ finished' = finished
      BY <1>1 DEF vars
    <3>2. ASSUME NEW t, Holds(t)
          PROVE  Holds(t)'
      <4>1. Defines(t)'
        BY <3>1, <3>2 DEF Holds, Defines
      <4>2. IsNew(t)'
        BY <3>1, <3>2 DEF Holds, IsNew, Completed, Entry
      <4>3. Target(t)' = Target(t) /\ Wires(t)
        BY <3>1, <3>2 DEF Holds, Target
      <4>4. \A n \in Makes(t) : contracts'[process'.values[n]].ready
        BY <3>1, <4>3 DEF Wires
      <4>5. /\ t.do \in Wiring => \A x \in t.needs \ {t.on} :
                 x \in DOMAIN Target(t)'.uses /\ Target(t)'.uses[x] = process'.values[x]
            /\ t.do = "grantRole" =>
                 \A x \in t.needs \ {t.on} : process'.values[x] \in Target(t)'.roles
        BY <3>1, <4>3 DEF Wires
      <4>6. /\ t.do \in {"grantAdmin", "transferOwnership"} =>
                 Target(t)'.ready /\ adminAddress \in Target(t)'.admins
            /\ t.do = "open" => Target(t)'.open
        BY <4>3 DEF Wires
      <4>7. Wires(t)'
        BY <4>4, <4>5, <4>6 DEF Wires
      <4> QED
        BY <4>1, <4>2, <4>7 DEF Holds
    <3>3. Code' = Code /\ Running' = Running /\ Completed(finished)' = Completed(finished)
          /\ \A t : Target(t)' = Target(t)
      BY <3>1 DEF Code, Running, Completed, Target
    <3> QED
      BY <3>1, <3>2, <3>3 DEF DeploymentInv, ProgressOK
  <2> QED
    BY <2>1, <2>2, <2>3 DEF DeploymentInv
<1>2. CASE ReadValues
  BY <1>2, ReadValuesKeepsInv
<1>3. CASE DeployContract
  BY <1>3, DeployContractKeepsInv
<1>4. CASE FactoryDeploy
  BY <1>4, FactoryDeployKeepsInv
<1>5. CASE SaveAddress
  BY <1>5, SaveAddressKeepsInv
<1>6. CASE ChangeContract
  BY <1>6, ChangeContractKeepsInv
<1>7. CASE writeToDeployments
  BY <1>7, WriteKeepsInv
<1>8. CASE CompleteMigration
  BY <1>8, CompleteMigrationKeepsInv
<1>9. CASE Fail
  BY <1>9, StopKeepsInv DEF Fail
<1>10. CASE Crash
  BY <1>10, StopKeepsInv DEF Crash
<1>11. CASE StartRange
  BY <1>11, StartRangeKeepsInv
<1>12. CASE Resume
  BY <1>12, ResumeKeepsInv
<1> QED
  BY <1>1, <1>2, <1>3, <1>4, <1>5, <1>6, <1>7, <1>8, <1>9, <1>10, <1>11, <1>12 DEF Next, Step

\* The invariant holds always.
LEMMA InvariantHolds == Spec => []DeploymentInv
<1>1. Init => DeploymentInv
  BY InitEstablishesInv
<1>2. DeploymentInv /\ [Next]_vars => DeploymentInv'
  BY NextKeepsInv
<1> QED
  BY <1>1, <1>2, PTL DEF Spec

-----------------------------------------------------------------------------
(* What is proved of every deployment                                      *)

\* A section lists what the statements for it publish.
LEMMA InPublished ==
  ASSUME NEW section \in {"L1", "L2"}, NEW p
  PROVE  p \in Published[section] <=>
           \E m \in Migrations : \E j \in 1 .. Len(Program[m]) :
             /\ Program[m][j].do = "publish" /\ Program[m][j].on = section
             /\ \E k \in DOMAIN Program[m][j].keys : p = <<k, Program[m][j].keys[k], m>>
<1> DEFINE S(m) == {t \in Range(Program[m]) : t.do = "publish" /\ t.on = section}
           K(s, m) == {<<k, s.keys[k], m>> : k \in DOMAIN s.keys}
<1>1. p \in Published[section] <=> \E m \in Migrations : \E s \in S(m) : p \in K(s, m)
  BY DEF Published
<1>2. ASSUME NEW m \in Migrations, NEW s
      PROVE  s \in S(m) <=> \E j \in 1 .. Len(Program[m]) :
               s = Program[m][j] /\ s.do = "publish" /\ s.on = section
  <2>1. DOMAIN Program[m] = 1 .. Len(Program[m])
    BY ProgramsAre DEF L1Avs, L1Facets, VennStakingStrategy, VennToken, VennVaultL2, L2Avs,
       FirewallMigration, ProtocolRegistry, OperatorRegistry, VennFeeCalculator, FeePool,
       VennAvsLogic, AttestationCenterProxy, Dependencies, VotingPowerSyncer, Report
  <2> QED
    BY <2>1 DEF Range
<1>3. \A m, s : p \in K(s, m) <=> \E k \in DOMAIN s.keys : p = <<k, s.keys[k], m>>
  OBVIOUS
<1> HIDE DEF S, K
<1> QED
  BY <1>1, <1>2, <1>3

\* The keys of the section of L1.
LEMMA L1Published ==
  ASSUME NEW key \in OwnedOnL1
  PROVE  \E p \in Published["L1"] : p[1] = key
<1> DEFINE Lists(m, j) == /\ m \in Migrations /\ j \in 1 .. Len(Program[m])
                          /\ Program[m][j].do = "publish" /\ Program[m][j].on = "L1"
                          /\ key \in DOMAIN Program[m][j].keys
<1>0. ASSUME NEW m, NEW j, Lists(m, j)
      PROVE  \E p \in Published["L1"] : p[1] = key
  <2>1. <<key, Program[m][j].keys[key], m>> \in Published["L1"]
    BY <1>0, InPublished
  <2> QED
    BY <2>1
<1>1. CASE key \in {"StartBlock", "AvsGovernance"}
  <2>1. Lists(1, 5)
    BY <1>1, ProgramsAre, Statements DEF L1Avs, Publish, Same
  <2> QED
    BY <1>0, <2>1
<1>2. CASE key = "AvsGovernanceFacet"
  <2>1. Lists(2, 3)
    BY <1>2, ProgramsAre, Statements DEF L1Facets, Publish, Same
  <2> QED
    BY <1>0, <2>1
<1>3. CASE key \in {"VennTokenL1", "VennStakingStrategy"}
  <2>1. Lists(3, 7)
    BY <1>3, ProgramsAre, Statements DEF VennStakingStrategy, Publish
  <2> QED
    BY <1>0, <2>1
<1> QED
  BY <1>1, <1>2, <1>3 DEF OwnedOnL1

\* The keys of the section of L2, and the migrations that publish them.
LEMMA L2Published ==
  /\ \A key \in DOMAIN Owner : \E p \in Published["L2"] : p[1] = key
  /\ \A p \in Published["L2"] : p[1] \in DOMAIN Owner /\ p[3] = Owner[p[1]]
  /\ \A key \in DOMAIN Owner : MigrationOf[key] = Owner[key]
<1>1. ASSUME NEW key \in DOMAIN Owner
      PROVE  \E p \in Published["L2"] : p[1] = key
  <2>1. PICK m \in Migrations : m = Owner[key] /\ Publishes(Program[m], key)
    BY OwnPublished
  <2>2. PICK j \in 1 .. Len(Program[m]) :
          /\ Program[m][j].do = "publish" /\ Program[m][j].on = "L2"
          /\ key \in DOMAIN Program[m][j].keys
    BY <2>1 DEF Publishes
  <2>3. <<key, Program[m][j].keys[key], m>> \in Published["L2"]
    BY <2>2, InPublished
  <2> QED
    BY <2>3
<1>2. ASSUME NEW p \in Published["L2"]
      PROVE  p[1] \in DOMAIN Owner /\ p[3] = Owner[p[1]]
  <2>1. PICK m \in Migrations : \E j \in 1 .. Len(Program[m]) :
          /\ Program[m][j].do = "publish" /\ Program[m][j].on = "L2"
          /\ \E k \in DOMAIN Program[m][j].keys : p = <<k, Program[m][j].keys[k], m>>
    BY InPublished
  <2>2. PICK j \in 1 .. Len(Program[m]) :
          /\ Program[m][j].do = "publish" /\ Program[m][j].on = "L2"
          /\ \E k \in DOMAIN Program[m][j].keys : p = <<k, Program[m][j].keys[k], m>>
    BY <2>1
  <2>3. PICK k \in DOMAIN Program[m][j].keys : p = <<k, Program[m][j].keys[k], m>>
    BY <2>2
  <2>4. Owned(m, Program[m][j])
    BY AllOwned DEF Owns
  <2>5. k \in DOMAIN Owner /\ Owner[k] = m
    BY <2>2, <2>4 DEF Owned
  <2> QED
    BY <2>3, <2>5
<1>3. ASSUME NEW key \in DOMAIN Owner
      PROVE  MigrationOf[key] = Owner[key]
  <2> DEFINE q == CHOOSE p \in Published["L2"] : p[1] = key
  <2>1. q \in Published["L2"] /\ q[1] = key
    BY <1>1
  <2>2. key \in {p[1] : p \in Published["L2"]}
    BY <2>1
  <2>3. MigrationOf[key] = q[3]
    BY <2>2 DEF MigrationOf
  <2> HIDE DEF q
  <2> QED
    BY <1>2, <2>1, <2>3
<1> QED
  BY <1>1, <1>2, <1>3

\* The invariant gives the types.
LEMMA InvGivesTypes ==
  ASSUME DeploymentInv
  PROVE  TypeOK
<1>1. ASSUME NEW a \in DOMAIN contracts
      PROVE  /\ contracts[a].kind \in Names /\ contracts[a].ready \in BOOLEAN
             /\ contracts[a].admins \subseteq {Deployer, adminAddress}
             /\ contracts[a].roles \subseteq 1 .. Len(contracts)
             /\ Range(contracts[a].uses) \subseteq 1 .. Len(contracts)
  <2>1. contracts \in Seq(Contracts) /\ a \in 1 .. Len(contracts)
    BY DEF DeploymentInv, ContractsOK
  <2>2. contracts[a] \in Contracts
    BY <2>1
  <2>3. contracts[a].kind \in Names /\ contracts[a].ready \in BOOLEAN
        /\ contracts[a].admins \subseteq {Deployer, adminAddress}
    BY <2>2 DEF Contracts, Addressed
  <2>4. contracts[a].roles \subseteq 1 .. Len(contracts)
    BY <2>1 DEF DeploymentInv, ContractsOK
  <2>5. Range(contracts[a].uses) \subseteq 1 .. Len(contracts)
    BY <2>1 DEF DeploymentInv, ContractsOK, Is, Range
  <2> QED
    BY <2>3, <2>4, <2>5
<1>2. storage \in [Names -> 0 .. Len(contracts)]
  <2>1. ASSUME NEW n \in Names
        PROVE  storage[n] \in 0 .. Len(contracts)
    BY DEF DeploymentInv, StorageOK, Is, Addressed, Undefined, ContractsOK
  <2> QED
    BY <2>1 DEF DeploymentInv, StorageOK
<1>3. \A s \in {"L1", "L2"} : DOMAIN deployments[s] \subseteq {p[1] : p \in Published[s]}
  BY L1Published, L2Published DEF DeploymentInv, FileOK, SectionOK
<1> QED
  BY <1>1, <1>2, <1>3 DEF TypeOK, DeploymentInv, FinishedOK

\* Where the documented order is kept, the link is due.
LEMMA InOrderIsDue ==
  ASSUME NEW key \in DOMAIN Uses, NEW name \in Uses[key],
         InOrder(LinkOrder(key, name))
  PROVE  LinkDue(key, name)
<1>1. /\ MigrationOf[key] = Owner[key] /\ MigrationOf[Key(name)] = Owner[Key(name)]
      /\ Owner[key] \in 1 .. 16 /\ Owner[Key(name)] \in 1 .. 16
  BY L2Published, Ends
<1>2. CASE key = "AttestationCenter" /\ Owner[Key(name)] > Owner[key]
  <2>1. name # "VennToken"
    BY <1>2 DEF Uses
  <2>2. LinkOrder(key, name) = <<Owner[key], Owner[Key(name)]>>
    BY <1>1, <1>2, <2>1 DEF LinkOrder
  <2>3. After(Owner[key], Owner[Key(name)])
    BY <2>2 DEF InOrder, After
  <2> QED
    BY <1>2, <2>1, <2>3 DEF LinkDue, Turns
<1>3. CASE name = "VennToken"
  <2>1. key = "VennVaultL2" /\ Owner[key] = 5 /\ Owner[Key(name)] = 4
    BY <1>3 DEF Uses, Owner, Key
  <2>2. LinkOrder(key, name) = <<3, 4, 5>>
    BY <1>1, <1>3, <2>1 DEF LinkOrder
  <2>3. After(3, 4) /\ After(4, 5)
    BY <2>2 DEF InOrder, After
  <2> QED
    BY <2>1, <2>3 DEF LinkDue, Turns
<1>4. CASE name # "VennToken" /\ ~(key = "AttestationCenter" /\ Owner[Key(name)] > Owner[key])
  <2>1. LinkOrder(key, name) = <<Owner[Key(name)], Owner[key]>>
    BY <1>1, <1>4 DEF LinkOrder
  <2>2. After(Owner[Key(name)], Owner[key])
    BY <2>1 DEF InOrder, After
  <2>3. ~(Owner[Key(name)] > Owner[key])
    BY <1>4 DEF Uses, Owner, Key
  <2> QED
    BY <1>4, <2>2, <2>3 DEF LinkDue, Turns
<1> QED
  BY <1>2, <1>3, <1>4

\* Whatever statement a process stopped at, what the deployments file lists is
\* initialized, has its admin, is the contract its key names, exists, and
\* belongs in its section.
THEOREM ReadyWhenPublished == Spec => []PublishedIsReady
<1>1. ASSUME DeploymentInv PROVE PublishedIsReady
  <2>1. TypeOK
    BY <1>1, InvGivesTypes
  <2>2. ASSUME NEW s \in {"L1", "L2"}, NEW k \in DOMAIN deployments[s] \ {"StartBlock"}
        PROVE  Ready(Entry(s, k), k)
    BY <1>1, <2>2 DEF DeploymentInv, FileOK, SectionOK, Entry
  <2> QED
    BY <2>1, <2>2 DEF PublishedIsReady, Ready, Is
<1> QED
  BY <1>1, InvariantHolds, PTL

\* Wherever two migrations were last completed in the documented order, the
\* contracts the file lists are linked, hold the roles they call each other
\* with, and are no older than the listed start block, whatever crashed,
\* failed or was run again in between.
THEOREM WiredWhenInOrder == Spec => []WiredInOrder
<1>1. ASSUME DeploymentInv PROVE WiredInOrder
  <2>1. HistoryOK
    BY <1>1 DEF DeploymentInv
  <2>2. ASSUME NEW key \in DOMAIN Uses, NEW name \in Uses[key],
               InOrder(LinkOrder(key, name))
        PROVE  L2(key).uses[name] = Entry("L2", Key(name))
    BY <2>1, <2>2, InOrderIsDue DEF HistoryOK, Links, Linked
  <2>3. \A k, m : InOrder(<<k, m>>) => After(k, m)
    BY DEF InOrder, After
  <2>4. /\ InOrder(<<10, 14>>) /\ InOrder(<<11, 14>>) =>
             Entry("L2", "FeePool") \in L2("VennFeeCalculator").roles
        /\ InOrder(<<11, 14>>) /\ InOrder(<<12, 14>>) =>
             Entry("L2", "VennAvsLogic") \in L2("FeePool").roles
    BY <2>1, <2>3 DEF HistoryOK, Roles
  <2>5. InOrder(<<6, 13>>) => L2("AttestationCenter").open
    BY <2>1, <2>3 DEF HistoryOK, Opened
  <2>6. ASSUME NEW p \in Published["L2"], InOrder(<<4, p[3]>>)
        PROVE  Entry("L2", "StartBlock") <= Entry("L2", p[1])
    BY <2>1, <2>3, <2>6, L2Published DEF HistoryOK, Newer
  <2> QED
    BY <2>2, <2>4, <2>5, <2>6 DEF WiredInOrder
<1> QED
  BY <1>1, InvariantHolds, PTL
=============================================================================
