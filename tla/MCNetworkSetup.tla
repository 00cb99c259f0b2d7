--------------------------- MODULE MCNetworkSetup ---------------------------
(***************************************************************************)
(* Small instances of NetworkSetup for TLC: two chains to begin with, and  *)
(* the scripts that are run side by side on them.                          *)
(***************************************************************************)
EXTENDS NetworkSetup

CONSTANTS
  o1, o2,
  MaxUpkeep   \* bound: reports, syncers and powers that change

Empty ==
  [ height |-> 2, log |-> {}, multisig |-> "deployer", restricted |-> <<>>,
    fees |-> [i \in Ids |-> {}], center |-> <<>>, registry |-> <<>>,
    policies |-> 0, sample |-> 0, setUp |-> [p \in Policies |-> {}],
    metadata |-> [p \in Policies |-> Unregistered],
    subnets |-> [p \in Policies |-> <<>>] ]

\* A subnet, an operator and the registered sample protocol exist.
Populated ==
  [ Empty EXCEPT
      !.height = 3,
      !.log = {[ name |-> "ProtocolRegistered", policy |-> 1, metadata |-> Original,
                 block |-> 2 ]},
      !.restricted = <<{1, 2}>>, !.fees[1] = FeeSettings, !.center = <<o1>>,
      !.policies = 1, !.sample = 1,
      !.setUp[1] = Range(SampleItems) \cup Range(ConsumerItems),
      !.metadata[1] = Original, !.subnets[1] = 1 :> {1} ]

OneRun(script) == "p" :> script
Pair(script, other) == "p" :> script @@ "q" :> other

Scripts(chain, plan) ==
  [ net |-> chain, plan |-> plan, scans |-> FALSE, restarts |-> 0,
    chainId |-> "17000", supply |-> 0, messages |-> {}, onboards |-> {},
    requests |-> <<>>, upkeep |-> 0 ]

\* Two scripts side by side, or a script and what follows from it.
Pairs ==
  {Scripts(chain, plan) : chain \in {Empty, Populated}, plan \in
     { Pair("createSubnet", "createSubnet"),
       Pair("registerProtocol", "unsubscribeProtocol"),
       Pair("mockTestProtocols", "registerProtocol"),
       Pair("subscribeProtocol", "setTaskDefinitionRestrictedAttesters"),
       Pair("vennGuard", "transferAttestationCenterAdmin"),
       Pair("createSubnet", "registerOperator") }}

\* A scan beside one script, while an operator becomes known if the script
\* registers one: processes do not die, but one that is slow enough might as
\* well.
Scans ==
  {[Scripts(Populated, OneRun(script)) EXCEPT !.scans = TRUE, !.restarts = MaxRestarts] :
     script \in { "createSubnet", "registerProtocol", "subscribeProtocol",
                  "unsubscribeProtocol", "setTaskDefinitionRestrictedAttesters" }}
  \cup
  {[Scripts(Populated, OneRun("registerOperator")) EXCEPT
      !.scans = TRUE, !.restarts = MaxRestarts, !.messages = {o2}]}

\* Operators onboard with tokens enough or too few, on a chain that the
\* scripts know or on another one.
Onboardings ==
  {[Scripts(Empty, <<>>) EXCEPT
      !.onboards = Operators, !.supply = supply, !.chainId = id] :
   supply \in {1, Enough}, id \in {"17000", "80002"}}
  \cup {[Scripts(Populated, OneRun("registerOperator")) EXCEPT
           !.onboards = {o2}, !.supply = Enough]}

\* An operator whose stake grows, also twice after a crash, while it is
\* reported together with that of another one.
Reports ==
  {[Scripts(Empty, <<>>) EXCEPT !.onboards = {o1}, !.supply = Enough, !.upkeep = MaxUpkeep]}

Requests ==
  {Request("getSafeExecTxArgs", "free", nonce, <<3, 1>>) : nonce \in {0, 1}}
  \cup {Request(by, call, nonce, signers) :
          by \in {"execSafeTx", "getSafeTxSignatures"}, call \in {"free", "guarded"},
          nonce \in {0, 1}, signers \in {<<>>, <<3, 1>>}}

\* Two scripts that act for the same Safe, one of them run again.
Signers ==
  {[Scripts(Empty, <<>>) EXCEPT !.requests = ("a" :> r @@ "b" :> t)] : r, t \in Requests}

\* Addresses of the owners, in the order of the Safe.
ThreeOwners == <<3, 1, 2>>

SetupScenarios == Pairs \cup Scans \cup Onboardings \cup Reports \cup Signers
=============================================================================
