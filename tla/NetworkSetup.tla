---------------------------- MODULE NetworkSetup ----------------------------
(***************************************************************************)
(* The network being set up: operators that onboard on L1 and become known *)
(* on L2, where their voting power follows their stake; the scripts that   *)
(* set up subnets, protocols and operators there, and the scan that parses *)
(* the topology meanwhile; and the scripts that act for the Safe of a      *)
(* protocol.                                                               *)
(***************************************************************************)
EXTENDS Topology, VotingPower, SafeScripts

(* Each policy is registered once and before its metadata is updated, and  *)
(* the chain keeps what was given last.                                    *)
LogOK(n) ==
  /\ \A v, w \in n.log :
       /\ v.block = w.block => v = w
       /\ v.name = "ProtocolRegistered" /\ w.name = "ProtocolRegistered"
            /\ v.policy = w.policy => v = w
  /\ \A v \in n.log : \E w \in n.log :
       w.name = "ProtocolRegistered" /\ w.policy = v.policy /\ w.block <= v.block
  /\ \A policy \in Policies : n.metadata[policy] = MetadataAt(n, policy, n.height)

(* What a scenario begins with: a chain that scripts and admins made since *)
(* the registry was deployed, in whose blocks there are events; scripts    *)
(* that there are; and tokens, messages and requests of the operators and  *)
(* owners there are.                                                       *)
ASSUME ScenariosAssumption == \A s \in Scenarios :
  /\ ChainTypeOK(s.net) /\ SampleSetUp(s.net) /\ FeesSetUp(s.net) /\ LogOK(s.net)
  /\ StartBlock <= s.net.height
  /\ \A v \in s.net.log : v.block \in 1 .. s.net.height /\ StartBlock <= v.block
  /\ \A p \in DOMAIN s.plan : s.plan[p] \in DOMAIN Script
  /\ s.supply \in Nat /\ s.upkeep \in Nat /\ s.messages \subseteq Operators
  /\ \A p \in DOMAIN s.requests :
       /\ s.requests[p].nonce \in Nat
       /\ Range(s.requests[p].signers) \subseteq Range(Owners)

networkVars == <<net, processes, restarts, scan, l1, pool, onboarding, crashes,
                 votingPower, vps, reports, accepted, l1Block, elsewhere, upkeep,
                 safe, sent, signings, reruns>>

NetworkInit == \E s \in Scenarios :
  /\ FlowInit(s) /\ OnboardingInit(s) /\ SyncInit(s) /\ SafeInit(s.requests)
  /\ scan = IF s.scans THEN NotBegun ELSE NeverBegins

OnL2 == UNCHANGED onboardingVars

NetworkNext ==
  \/ /\ \/ ScriptNext /\ UNCHANGED scan /\ OnL2
        \/ ScanNext /\ OnL2
        \/ OnboardingNext /\ UNCHANGED <<flowVars, scan>>
        \/ \E o \in Operators : Deliver(o) /\ UNCHANGED scan
     /\ UNCHANGED <<syncVars, safeVars>>
  \/ SyncNext /\ UNCHANGED <<flowVars, scan, onboardingVars, safeVars>>
  \/ SafeNext /\ UNCHANGED <<flowVars, scan, onboardingVars, syncVars>>

(* Every operator goes on with the script until it is through, what is     *)
(* sent is mined, and messages between the chains are delivered.           *)
NetworkSpec ==
  /\ NetworkInit /\ [][NetworkNext]_networkVars
  /\ \A o \in Operators :
       /\ WF_networkVars((OnboardingStep(o) \/ StartOnboarding(o))
                         /\ UNCHANGED <<flowVars, scan, syncVars, safeVars>>)
       /\ WF_networkVars(Deliver(o) /\ UNCHANGED <<scan, syncVars, safeVars>>)
  /\ \A s \in Operators \cup {Deployer} :
       WF_networkVars(Mine(s) /\ UNCHANGED <<flowVars, scan, syncVars, safeVars>>)
=============================================================================
