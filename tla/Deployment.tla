----------------------------- MODULE Deployment -----------------------------
(***************************************************************************)
(* The deployment scripts: the migrations of the namespaces othentic/L1,   *)
(* venn/L1 and venn/L2, and the file in which they publish addresses.      *)
(*                                                                         *)
(* A migration is a sequence of awaited statements.  Its process may stop  *)
(* after any of them, and nothing it did is undone; the operator starts    *)
(* any range of a namespace's migrations again, or goes on from the first  *)
(* one that has not completed.  One process runs at a time.                *)
(*                                                                         *)
(* Addresses are numbers in the order of deployment, Undefined is 0.       *)
(* Contracts that play one part (the handlers and treasuries a factory     *)
(* deploys with an attestation center) are represented by one of them.     *)
(***************************************************************************)
EXTENDS Integers, Sequences, FiniteSets, Functions

CONSTANTS
  Deployer,     \* the account that sends the transactions
  adminAddress, \* the wallet of PRIVATE_KEY, every admin in vennConfig
  Networks,     \* chain ids of the networks hardhat may be pointed at
  AvsNames,     \* values of AVS_NAME for ranges started at will, numbers
  Ranges,       \* the ranges of migrations that are started at will
  MaxRuns,      \* bound: ranges started at will
  MaxCrashes    \* bound: processes that die

VARIABLES
  network,      \* the chain id, fixed
  contracts,    \* the contracts on the chain, by address
  usedNames,    \* by factory, the AVS names taken
  storage,      \* the plugin's storage: name -> last address
  deployments,  \* the deployments file: section -> key -> address
  process,      \* the running process
  finished,     \* history: migrations by last completion, as an order
  runs, crashes

vars == <<network, contracts, usedNames, storage, deployments, process,
          finished, runs, crashes>>

Undefined == 0

Overriding(f, g) ==
  [x \in DOMAIN f \cup DOMAIN g |-> IF x \in DOMAIN f THEN f[x] ELSE g[x]]

Only(x, v) == [y \in {x} |-> v]

Empty == [x \in {} |-> Undefined]

-----------------------------------------------------------------------------
(* Configuration: the chains that have an entry, the rest of it is fixed.  *)

l1Configs == {"1", "17000"}
l2Configs == {"1", "17000"}
eigenLayerL1Config == {"1", "17000"}

-----------------------------------------------------------------------------
(* Statements of a migration.  "needs" are values that must be defined.    *)

Statement(do, on, needs, keys) ==
  [do |-> do, on |-> on, needs |-> needs, keys |-> keys]

Configured(chains) == Statement("configured", chains, {}, Empty)
Deployed(names)    == Statement("deployed", "storage", names, Empty)
FromFile(name)     == Statement("fromFile", name, {}, Empty)
BlockNumber        == Statement("blockNumber", "StartBlock", {}, Empty)
Proxy(name)        == Statement("proxy", name, {}, Empty)
Deploy(name, args) == Statement("deploy", name, args, Empty)
Create(name, args) == Statement("create", name, args, Empty)
Factory(name, args) == Statement("factory", name, args, Empty)
Save(name)         == Statement("save", name, {name}, Empty)
Initialize(name, args) == Statement("initialize", name, {name} \cup args, Empty)
GrantAdmin(name)   == Statement("grantAdmin", name, {name}, Empty)
GrantRole(name, to) == Statement("grantRole", name, {name, to}, Empty)
Point(center, to)  == Statement("point", center, {center, to}, Empty)
TransferOwnership(name) == Statement("transferOwnership", name, {name}, Empty)
Open(center)       == Statement("open", center, {center}, Empty)
Obls(center)       == Statement("obls", center, {center}, Empty)
Publish(section, keys) == Statement("publish", section, {}, keys)

Same(names) == [n \in names |-> n]

-----------------------------------------------------------------------------
(* The migrations.                                                         *)

L1Avs ==
  << Configured(l1Configs), BlockNumber, Factory("AvsGovernance", {}),
     Save("AvsGovernance"),
     Publish("L1", Same({"StartBlock", "AvsGovernance"})) >>

L1Facets ==
  << Deployed({"AvsGovernance"}), Deploy("AvsGovernanceFacet", {"AvsGovernance"}),
     Publish("L1", Same({"AvsGovernanceFacet"})) >>

VennStakingStrategy ==
  << Proxy("VennToken"), Initialize("VennToken", {}),
     Configured(eigenLayerL1Config), Create("VennStakingStrategy", {"VennToken"}),
     FromFile("AvsGovernance"), Point("AvsGovernance", "VennStakingStrategy"),
     Publish("L1", [VennTokenL1 |-> "VennToken",
                    VennStakingStrategy |-> "VennStakingStrategy"]) >>

VennToken ==
  << BlockNumber, Proxy("VennToken"), Initialize("VennToken", {}),
     Publish("L2", [StartBlock |-> "StartBlock", VennTokenL2 |-> "VennToken"]) >>

VennVaultL2 ==
  << Deployed({"VennToken"}), Proxy("VennVaultL2"),
     Initialize("VennVaultL2", {"VennToken"}), GrantAdmin("VennVaultL2"),
     Publish("L2", Same({"VennVaultL2"})) >>

(* Deviation: the address is published but not saved for later migrations. *)
L2Avs_NotSaved ==
  << Configured(l2Configs), Deployed({"VennVaultL2"}),
     Factory("AttestationCenter", {"VennVaultL2"}),
     Deploy("AttestationCenterFacet", {"AttestationCenter"}),
     Publish("L2", Same({"OBLS", "AttestationCenter"})) >>

L2Avs ==
  << Configured(l2Configs), Deployed({"VennVaultL2"}),
     Factory("AttestationCenter", {"VennVaultL2"}),
     Deploy("AttestationCenterFacet", {"AttestationCenter"}),
     Save("AttestationCenter"),
     Publish("L2", Same({"OBLS", "AttestationCenter"})) >>

FirewallMigration ==
  << Proxy("Firewall"), Initialize("Firewall", {}),
     Publish("L2", Same({"Firewall"})) >>

ProtocolRegistry ==
  << Deployed({"AttestationCenter"}), Proxy("ProtocolRegistry"),
     Initialize("ProtocolRegistry", {"AttestationCenter"}),
     GrantAdmin("ProtocolRegistry"), Publish("L2", Same({"ProtocolRegistry"})) >>

OperatorRegistry ==
  << Deployed({"AttestationCenter"}), Proxy("OperatorRegistry"),
     Initialize("OperatorRegistry", {"AttestationCenter"}),
     GrantAdmin("OperatorRegistry"), Publish("L2", Same({"OperatorRegistry"})) >>

VennFeeCalculator ==
  << Deployed({"OperatorRegistry", "AttestationCenter"}),
     Proxy("VennFeeCalculator"),
     Initialize("VennFeeCalculator", {"OperatorRegistry"}),
     GrantAdmin("VennFeeCalculator"),
     Point("AttestationCenter", "VennFeeCalculator"),
     Publish("L2", Same({"VennFeeCalculator"})) >>

(* Deviation: published before the admin is granted its role.              *)
FeePool_PublishedEarly ==
  << Deployed({"ProtocolRegistry", "VennFeeCalculator"}), Proxy("FeePool"),
     Initialize("FeePool", {"ProtocolRegistry", "VennFeeCalculator"}),
     Publish("L2", Same({"FeePool"})), GrantAdmin("FeePool") >>

FeePool ==
  << Deployed({"ProtocolRegistry", "VennFeeCalculator"}), Proxy("FeePool"),
     Initialize("FeePool", {"ProtocolRegistry", "VennFeeCalculator"}),
     GrantAdmin("FeePool"), Publish("L2", Same({"FeePool"})) >>

VennAvsLogic ==
  << Deployed({"FeePool", "ProtocolRegistry", "AttestationCenter"}),
     Deploy("VennAvsLogic", {"AttestationCenter", "FeePool", "ProtocolRegistry"}),
     GrantAdmin("VennAvsLogic"), Point("AttestationCenter", "VennAvsLogic"),
     Publish("L2", Same({"VennAvsLogic"})) >>

AttestationCenterProxy ==
  << Deployed({"AttestationCenter", "FeePool"}), Proxy("AttestationCenterProxy"),
     Initialize("AttestationCenterProxy", {"FeePool", "AttestationCenter"}),
     Open("AttestationCenter"),
     GrantAdmin("AttestationCenterProxy"),
     Publish("L2", Same({"AttestationCenterProxy"})) >>

Dependencies ==
  << Deployed({"VennFeeCalculator", "VennAvsLogic", "FeePool"}),
     GrantRole("VennFeeCalculator", "FeePool"),
     GrantRole("FeePool", "VennAvsLogic") >>

VotingPowerSyncer ==
  << Deployed({"AttestationCenter"}), Obls("AttestationCenter"),
     Deploy("VotingPowerSyncer", {"OBLS"}), TransferOwnership("VotingPowerSyncer"),
     Point("AttestationCenter", "VotingPowerSyncer"),
     Publish("L2", Same({"VotingPowerSyncer"})) >>

Report ==
  << Deployed({"VennToken", "VennVaultL2", "Firewall", "ProtocolRegistry",
               "OperatorRegistry", "VennFeeCalculator", "FeePool",
               "VennAvsLogic", "AttestationCenterProxy", "VotingPowerSyncer"}) >>
-----------------------------------------------------------------------------
(* The namespaces, in the order docs/deployment.md runs them.              *)

Program ==
  << L1Avs, L1Facets, VennStakingStrategy,
     VennToken, VennVaultL2, L2Avs, FirewallMigration, ProtocolRegistry,
     OperatorRegistry, VennFeeCalculator, FeePool, VennAvsLogic,
     AttestationCenterProxy, Dependencies, VotingPowerSyncer, Report >>

Migrations == DOMAIN Program

Namespaces == {1 .. 2, 3 .. 3, 4 .. 16}

LastOfNamespace(m) == CHOOSE l \in Migrations :
  \E n \in Namespaces : m \in n /\ l \in n /\ \A k \in n : k <= l

ASSUME DeploymentAssumption ==
  /\ Ranges \subseteq {r \in Migrations \X Migrations :
                         r[1] <= r[2] /\ r[2] <= LastOfNamespace(r[1])}
  /\ AvsNames \subseteq Nat /\ MaxRuns \in Nat /\ MaxCrashes \in Nat

-----------------------------------------------------------------------------

Names == {"StartBlock", "VennToken", "VennVaultL2", "AttestationCenter", "OBLS",
          "AttestationCenterFacet", "Firewall", "ProtocolRegistry",
          "OperatorRegistry", "VennFeeCalculator", "FeePool", "VennAvsLogic",
          "AttestationCenterProxy", "VotingPowerSyncer", "AvsGovernance",
          "AvsGovernanceFacet", "VennStakingStrategy"}

Nothing == [n \in Names |-> Undefined]

Idle == [migration |-> 0, last |-> 0, at |-> 0, avsName |-> 0, values |-> Nothing]

Init ==
  /\ network \in Networks
  /\ contracts = <<>>
  /\ usedNames = [f \in {"AvsGovernance", "AttestationCenter"} |-> {}]
  /\ storage = Nothing
  /\ deployments = [s \in {"L1", "L2"} |-> Empty]
  /\ process = Idle
  /\ finished = {}
  /\ runs = 0 /\ crashes = 0

Running == process # Idle
Ended == Running /\ process.at > Len(Program[process.migration])
Now == Program[process.migration][process.at]
Value(n) == process.values[n]

Bind(new) == [process EXCEPT !.at = @ + 1, !.values = Overriding(new, @)]

NextAddress == Len(contracts) + 1

(* A new contract.  Its constructor, or its initializer later, makes the   *)
(* sender its admin or owner and sets what it uses.                        *)
Contract(name, uses, ready) ==
  [ kind |-> name, ready |-> ready, roles |-> {}, open |-> FALSE, uses |-> uses,
    admins |-> IF ready THEN {Deployer} ELSE {} ]

Arguments == [a \in Now.needs \ {Now.on} |-> Value(a)]

-----------------------------------------------------------------------------
(* A statement throws on an undefined value or configuration; the factory  *)
(* on a name that is taken (it deploys with CREATE2), grantRole on a       *)
(* contract whose initializer has not run.                                 *)
Throws ==
  \/ Now.do = "configured" /\ network \notin Now.on
  \/ Now.do = "deployed" /\ \E n \in Now.needs : storage[n] = Undefined
  \/ Now.do = "fromFile" /\ Now.on \notin DOMAIN deployments["L1"]
  \/ Now.do \in {"fromFile", "publish"} /\ network \notin l2Configs
  \/ Now.do = "factory" /\ process.avsName \in usedNames[Now.on]
  \/ Now.do # "deployed" /\ \E n \in Now.needs : Value(n) = Undefined
  \/ Now.do = "grantRole" /\ ~contracts[Value(Now.on)].ready

May(do) == Running /\ ~Ended /\ Now.do = do /\ ~Throws

Rest == UNCHANGED <<network, finished, runs, crashes>>

ReadValues ==
  /\ \/ May("configured") /\ process' = Bind(Empty)
     \/ May("deployed") /\ process' = Bind([n \in Now.needs |-> storage[n]])
     \/ May("fromFile") /\ process' = Bind(Only(Now.on, deployments["L1"][Now.on]))
     \/ May("blockNumber") /\ process' = Bind(Only("StartBlock", NextAddress))
     \/ May("obls") /\ process' = Bind(Only("OBLS", contracts[Value(Now.on)].uses["OBLS"]))
  /\ UNCHANGED <<contracts, usedNames, storage, deployments>> /\ Rest

DeployContract ==
  /\ \E do \in {"proxy", "deploy", "create"} :
       /\ May(do)
       /\ contracts' = Append(contracts, Contract(Now.on, Arguments, do # "proxy"))
       /\ storage' = IF do = "create" THEN storage
                     ELSE [storage EXCEPT ![Now.on] = NextAddress]
  /\ process' = Bind(Only(Now.on, NextAddress))
  /\ UNCHANGED <<usedNames, deployments>> /\ Rest

(* L1AvsFactory.deploy and L2AvsFactory.deploy: the static call gives the   *)
(* addresses the transaction then deploys to.                              *)
FactoryDeploy ==
  /\ May("factory")
  /\ contracts' = contracts \o
       << Contract(Now.on, Overriding(Arguments, Only("OBLS", NextAddress + 1)), TRUE),
          Contract("OBLS", Empty, TRUE) >>
  /\ usedNames' = [usedNames EXCEPT ![Now.on] = @ \cup {process.avsName}]
  /\ process' = Bind(Overriding(Only(Now.on, NextAddress), Only("OBLS", NextAddress + 1)))
  /\ UNCHANGED <<storage, deployments>> /\ Rest

SaveAddress ==
  /\ May("save")
  /\ storage' = [storage EXCEPT ![Now.on] = Value(Now.on)]
  /\ process' = Bind(Empty)
  /\ UNCHANGED <<contracts, usedNames, deployments>> /\ Rest

(* The transactions that change a contract: initialize, grantRole,         *)
(* and the setters of the attestation center and of AvsGovernance.         *)
Changed(c) ==
  CASE Now.do = "initialize" ->
         [c EXCEPT !.ready = TRUE, !.uses = Arguments, !.admins = {Deployer}]
    [] Now.do = "grantAdmin" -> [c EXCEPT !.admins = @ \cup {adminAddress}]
    [] Now.do = "transferOwnership" -> [c EXCEPT !.admins = {adminAddress}]
    [] Now.do = "grantRole"  -> [c EXCEPT !.roles = @ \cup {Arguments[a] : a \in DOMAIN Arguments}]
    [] Now.do = "point"      -> [c EXCEPT !.uses = Overriding(Arguments, @)]
    [] Now.do = "open"       -> [c EXCEPT !.open = TRUE]

ChangeContract ==
  /\ \E do \in {"initialize", "grantAdmin", "grantRole", "point", "open",
              "transferOwnership"} : May(do)
  /\ contracts' = [contracts EXCEPT ![Value(Now.on)] = Changed(@)]
  /\ process' = Bind(Empty)
  /\ UNCHANGED <<usedNames, storage, deployments>> /\ Rest

(* Deviation: entries that the section has already win over new ones.      *)
writeToDeployments_OldWins ==
  /\ May("publish")
  /\ deployments' = [deployments EXCEPT
       ![Now.on] = Overriding(@, [k \in DOMAIN Now.keys |-> Value(Now.keys[k])])]
  /\ process' = Bind(Empty)
  /\ UNCHANGED <<contracts, usedNames, storage>> /\ Rest

(* The file is read, the section's new entries override its old ones, and  *)
(* the file is written, with no await in between.                          *)
writeToDeployments ==
  /\ May("publish")
  /\ deployments' = [deployments EXCEPT
       ![Now.on] = Overriding([k \in DOMAIN Now.keys |-> Value(Now.keys[k])], @)]
  /\ process' = Bind(Empty)
  /\ UNCHANGED <<contracts, usedNames, storage>> /\ Rest

-----------------------------------------------------------------------------

(* The pair <<k, m>> says that k was last completed before m, <<m, m>>     *)
(* that m was completed.  What is started again is not.                    *)
Completed(order) == {m \in Migrations : <<m, m>> \in order}
Without(m) == {pair \in finished : pair[1] # m /\ pair[2] # m}
Last(m, order) == order \cup (Completed(order) \cup {m}) \X {m}

Begin(m, last, name) ==
  [Idle EXCEPT !.migration = m, !.last = last, !.at = 1, !.avsName = name]

Quiet == UNCHANGED <<network, contracts, usedNames, storage, deployments>>

(* The next migration of the range begins where one ends.                  *)
CompleteMigration ==
  /\ Ended
  /\ LET m == process.migration IN
       IF m = process.last
       THEN /\ process' = Idle
            /\ finished' = Last(m, finished)
       ELSE /\ process' = Begin(m + 1, process.last, process.avsName)
            /\ finished' = Last(m, Without(m + 1))
  /\ UNCHANGED <<runs, crashes>> /\ Quiet

Fail ==
  /\ Running /\ ~Ended /\ Throws
  /\ process' = Idle
  /\ UNCHANGED <<finished, runs, crashes>> /\ Quiet

Crash ==
  /\ Running /\ crashes < MaxCrashes
  /\ process' = Idle
  /\ crashes' = crashes + 1
  /\ UNCHANGED <<finished, runs>> /\ Quiet

(* npx hardhat migrate --namespace ... [--only n | --from n]                *)
Start(m, last, name) ==
  /\ ~Running
  /\ process' = Begin(m, last, name)
  /\ finished' = Without(m)
  /\ UNCHANGED crashes /\ Quiet

StartRange ==
  /\ runs < MaxRuns
  /\ \E r \in Ranges, name \in AvsNames : Start(r[1], r[2], name)
  /\ runs' = runs + 1

Unfinished == Migrations \ Completed(finished)

(* The operator goes on from the first migration that has not completed,   *)
(* under an AVS name the namespace's factory has not seen.                 *)
Resume ==
  /\ Unfinished # {}
  /\ LET m == CHOOSE u \in Unfinished : \A k \in Unfinished : u <= k
         factory == IF m <= 2 THEN "AvsGovernance" ELSE "AttestationCenter"
         names == 1 .. Cardinality(usedNames[factory]) + 1
     IN Start(m, LastOfNamespace(m), CHOOSE n \in names : n \notin usedNames[factory])
  /\ UNCHANGED runs

Step == \/ ReadValues \/ DeployContract \/ FactoryDeploy \/ SaveAddress
        \/ ChangeContract \/ writeToDeployments \/ CompleteMigration \/ Fail

Next == Step \/ Crash \/ StartRange \/ Resume

Spec == Init /\ [][Next]_vars /\ WF_vars(Step) /\ WF_vars(Resume)
-----------------------------------------------------------------------------

(* By section and key: the name a migration publishes under the key, and    *)
(* the number of the migration.                                            *)
Published == [section \in {"L1", "L2"} |->
  UNION { UNION { { <<k, s.keys[k], m>> : k \in DOMAIN s.keys } :
                  s \in {t \in Range(Program[m]) : t.do = "publish" /\ t.on = section} } :
          m \in Migrations }]

TypeOK ==
  /\ network \in Networks
  /\ \A a \in DOMAIN contracts :
       /\ contracts[a].kind \in Names /\ contracts[a].ready \in BOOLEAN
       /\ contracts[a].admins \subseteq {Deployer, adminAddress}
       /\ contracts[a].roles \subseteq 1 .. Len(contracts)
       /\ Range(contracts[a].uses) \subseteq 1 .. Len(contracts)
  /\ storage \in [Names -> 0 .. Len(contracts)]
  /\ \A s \in {"L1", "L2"} :
       DOMAIN deployments[s] \subseteq {p[1] : p \in Published[s]}
  /\ finished \subseteq Migrations \X Migrations

Entry(section, key) == deployments[section][key]
L2(key) == contracts[Entry("L2", key)]

(* Contracts whose roles go to the configured admin.                       *)
Administered == {"VennVaultL2", "ProtocolRegistry", "OperatorRegistry",
                 "VennFeeCalculator", "FeePool", "VennAvsLogic",
                 "AttestationCenterProxy", "VotingPowerSyncer"}

\* The contract that a key names; the token has a key per chain.
NameOf(key) == IF key \in {"VennTokenL1", "VennTokenL2"} THEN "VennToken" ELSE key

(* Whatever statement a process stopped at, what the file lists is         *)
(* initialized, administered, and the contract its key names: a script or  *)
(* user that takes an address from it never meets a bare proxy, nor the    *)
(* address of another contract.  The file lists what its section is for,   *)
(* and contracts that exist.                                               *)
PublishedIsReady ==
  /\ TypeOK
  /\ \A s \in {"L1", "L2"} : \A k \in DOMAIN deployments[s] \ {"StartBlock"} :
       /\ contracts[Entry(s, k)].kind = NameOf(k)
       /\ contracts[Entry(s, k)].ready
       /\ k \in Administered => adminAddress \in contracts[Entry(s, k)].admins

(* What a published contract must use, by key.                             *)
Uses == [ VennVaultL2 |-> {"VennToken"},
          AttestationCenter |-> {"VennVaultL2", "VennFeeCalculator",
                                 "VennAvsLogic", "VotingPowerSyncer"},
          ProtocolRegistry |-> {"AttestationCenter"},
          OperatorRegistry |-> {"AttestationCenter"},
          VennFeeCalculator |-> {"OperatorRegistry"},
          FeePool |-> {"ProtocolRegistry", "VennFeeCalculator"},
          VennAvsLogic |-> {"AttestationCenter", "FeePool", "ProtocolRegistry"},
          AttestationCenterProxy |-> {"FeePool", "AttestationCenter"} ]

Key(name) == IF name = "VennToken" THEN "VennTokenL2" ELSE name

MigrationOf == [key \in {p[1] : p \in Published["L2"]} |->
                  (CHOOSE p \in Published["L2"] : p[1] = key)[3]]

InOrder(ms) == \A i \in 1 .. Len(ms) - 1 : <<ms[i], ms[i + 1]>> \in finished

(* The migrations whose order decides a link: both contracts' own, and for *)
(* the token the one of venn/L1, which saves its token under the same name. *)
LinkOrder(key, name) ==
  LET user == MigrationOf[key]  used == MigrationOf[Key(name)]
  IN CASE key = "AttestationCenter" /\ used > user -> <<user, used>>
       [] name = "VennToken" -> <<3, used, user>>
       [] OTHER -> <<used, user>>

(* The file is a system that fits together: wherever two migrations were   *)
(* last completed in the documented order, the contracts they list are     *)
(* linked to each other, hold the roles they call each other with, and     *)
(* are no older than the listed start block, whatever crashed, failed or   *)
(* was run again in between.                                               *)
WiredInOrder ==
  /\ \A key \in DOMAIN Uses : \A name \in Uses[key] :
       InOrder(LinkOrder(key, name)) =>
         L2(key).uses[name] = Entry("L2", Key(name))
  /\ InOrder(<<10, 14>>) /\ InOrder(<<11, 14>>) =>
         Entry("L2", "FeePool") \in L2("VennFeeCalculator").roles
  /\ InOrder(<<11, 14>>) /\ InOrder(<<12, 14>>) =>
         Entry("L2", "VennAvsLogic") \in L2("FeePool").roles
  /\ InOrder(<<6, 13>>) => L2("AttestationCenter").open
  /\ \A p \in Published["L2"] : InOrder(<<4, p[3]>>) =>
         Entry("L2", "StartBlock") <= Entry("L2", p[1])

(* A deployment that died or failed anywhere, and was started from a wrong *)
(* place meanwhile, can be finished by going on: no partial result of a    *)
(* migration keeps it, or a later one, from completing.  (On a chain the   *)
(* configuration has no entry for, nothing can.)                           *)
EventuallyDeployed ==
  network \in l1Configs \cap l2Configs => <>[](Unfinished = {})
=============================================================================
