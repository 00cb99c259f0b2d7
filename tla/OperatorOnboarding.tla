------------------------- MODULE OperatorOnboarding -------------------------
(***************************************************************************)
(* The script that makes an operator: it is given tokens, registers with   *)
(* EigenLayer, is connected to the AVS, deposits a stake and registers     *)
(* with the AVS on L1, which tells the attestation center on L2.           *)
(*                                                                         *)
(* A transaction that was sent is mined some time later, also when the     *)
(* process that waits for it has died.  The script is then started again   *)
(* and may read the chain before what its predecessor sent takes effect.   *)
(* Each operator runs the script for itself; the deployer's tokens are     *)
(* shared.  One unit of tokens is the amount to deposit.                   *)
(***************************************************************************)
EXTENDS SubnetFlows

CONSTANTS
  Deployer,
  MaxCrashes   \* bound: processes that die

VARIABLES
  l1,          \* the chain
  pool,        \* transactions sent but not mined, by sender, in nonce order
  onboarding,  \* by operator, its process
  crashes

onboardingVars == <<l1, pool, onboarding, crashes>>

Amount == 1   \* amountToDepositIntoEigenLayerStrategy

(* Chains with an entry in the configuration of EigenLayer, in the         *)
(* addresses of the scripts, and in that of the deployments.               *)
eigenLayerContracts == {"1", "17000"}
ADDRESSES == {"1", "17000"}
l2Configs == {"1", "17000"}

-----------------------------------------------------------------------------
(* The script: what it reads, and the transactions it sends if what it     *)
(* read calls for them.                                                    *)

Send(what) == <<"send", what>>
Read(what) == <<"read", what>>
Needs(chains) == <<"needs", chains>>

increaseAllowanceIfNeeded == << Read("allowance"), Send("approve") >>

(* Deviation: the stake is deposited after the registration.               *)
main_DepositLast ==
  << Needs(l2Configs), Read("deployerBalance"), Read("operatorBalance"),
     Send("transfer"), Needs(eigenLayerContracts), Read("isOperator"),
     Send("registerEigenLayer"), Read("isConnected"), Needs(ADDRESSES), Send("connect"),
     Read("isRegistered"), Needs(ADDRESSES), Send("registerAvs") >>
  \o increaseAllowanceIfNeeded \o << Send("deposit") >>

main ==
  << Needs(l2Configs), Read("deployerBalance"), Read("operatorBalance"),
     Send("transfer"), Needs(eigenLayerContracts), Read("isOperator"),
     Send("registerEigenLayer"), Read("isConnected"), Needs(ADDRESSES), Send("connect") >>
  \o increaseAllowanceIfNeeded
  \o << Send("deposit"), Read("isRegistered"), Needs(ADDRESSES), Send("registerAvs") >>

Answer(what, o) ==
  CASE what = "deployerBalance" -> l1.tokens[Deployer]
    [] what = "operatorBalance" -> l1.tokens[o]
    [] what = "allowance"       -> l1.allowance[o]
    [] what = "isOperator"      -> o \in l1.eigenLayer
    [] what = "isConnected"     -> o \in l1.connected
    [] what = "isRegistered"    -> o \in l1.registered

(* Deviation: a registration is sent whatever the script read.             *)
Wanted_Unchecked(what, read) ==
  CASE what = "transfer" -> read.operatorBalance < Amount /\ read.deployerBalance > Amount
    [] what = "approve"  -> read.allowance < Amount
    [] OTHER             -> TRUE

Wanted(what, read) ==
  CASE what = "transfer" -> read.operatorBalance < Amount /\ read.deployerBalance > Amount
    [] what = "registerEigenLayer" -> ~read.isOperator
    [] what = "connect"     -> ~read.isConnected
    [] what = "approve"     -> read.allowance < Amount
    [] what = "deposit"     -> Amount > 0
    [] what = "registerAvs" -> ~read.isRegistered

-----------------------------------------------------------------------------
(* The contracts on L1, as far as the script relies on them: the set of    *)
(* chains a transaction may lead to, empty if it reverts.                  *)

If(ok, chain) == IF ok THEN {chain} ELSE {}

Mines(what, o, c) ==
  CASE what = "transfer" ->
         If(c.tokens[Deployer] >= Amount,
            [c EXCEPT !.tokens[Deployer] = @ - Amount, !.tokens[o] = @ + Amount])
    [] what = "registerEigenLayer" ->
         If(o \notin c.eigenLayer, [c EXCEPT !.eigenLayer = @ \cup {o}])
    [] what = "connect" ->
         If(o \in c.eigenLayer \ c.connected, [c EXCEPT !.connected = @ \cup {o}])
    [] what = "approve" -> {[c EXCEPT !.allowance[o] = Amount]}
    [] what = "deposit" ->
         If(c.tokens[o] >= Amount /\ c.allowance[o] >= Amount,
            [c EXCEPT !.tokens[o] = @ - Amount, !.allowance[o] = @ - Amount,
                      !.stake[o] = @ + Amount])
    [] what = "registerAvs" ->
         If(o \notin c.registered,
            [c EXCEPT !.registered = @ \cup {o}, !.messages = @ \cup {o}])

Sender(what, o) == IF what = "transfer" THEN Deployer ELSE o

-----------------------------------------------------------------------------

Facts == {"deployerBalance", "operatorBalance", "allowance", "isOperator",
          "isConnected", "isRegistered"}

Idle(state) ==
  [state |-> state, at |-> 1, waits |-> FALSE, read |-> [f \in Facts |-> "not read"]]

OnboardingInit(scenario) ==
  /\ l1 = [ chainId |-> scenario.chainId,
            tokens |-> [a \in Operators \cup {Deployer} |->
                          IF a = Deployer THEN scenario.supply ELSE 0],
            allowance |-> [o \in Operators |-> 0], stake |-> [o \in Operators |-> 0],
            eigenLayer |-> {}, connected |-> {}, registered |-> {},
            messages |-> scenario.messages ]
  /\ pool = [s \in Operators \cup {Deployer} |-> <<>>]
  /\ onboarding = [o \in Operators |->
                     Idle(IF o \in scenario.onboards THEN "stopped" ELSE "never")]
  /\ crashes = 0

OnboardingRuns(o) == onboarding[o].state = "running"
Line(o) == main[onboarding[o].at]
MayDo(o, do) == OnboardingRuns(o) /\ ~onboarding[o].waits /\ Line(o)[1] = do

Advanced(process) ==
  IF process.at = Len(main) THEN Idle("ended")
  ELSE [process EXCEPT !.at = @ + 1, !.waits = FALSE]

Goes(o, process) == onboarding' = [onboarding EXCEPT ![o] = process]

ReadChain(o) ==
  /\ MayDo(o, "read")
  /\ Goes(o, Advanced([onboarding[o] EXCEPT
                         !.read[Line(o)[2]] = Answer(Line(o)[2], o)]))
  /\ UNCHANGED <<l1, pool, crashes>>

CheckChainId(o) ==
  /\ MayDo(o, "needs")
  /\ Goes(o, IF l1.chainId \in Line(o)[2] THEN Advanced(onboarding[o]) ELSE Idle("stopped"))
  /\ UNCHANGED <<l1, pool, crashes>>

(* The gas of a transaction is estimated on the chain as it is: one that   *)
(* would revert is not sent, and the script stops.                         *)
SendTransaction(o) ==
  /\ MayDo(o, "send")
  /\ LET what == Line(o)[2]
     IN IF ~Wanted(what, onboarding[o].read)
        THEN Goes(o, Advanced(onboarding[o])) /\ UNCHANGED pool
        ELSE IF Mines(what, o, l1) = {}
        THEN Goes(o, Idle("stopped")) /\ UNCHANGED pool
        ELSE /\ Goes(o, [onboarding[o] EXCEPT !.waits = TRUE])
             /\ pool' = [pool EXCEPT ![Sender(what, o)] =
                  Append(@, [what |-> what, operator |-> o, awaited |-> TRUE])]
  /\ UNCHANGED <<l1, crashes>>

(* A sender's transactions are mined in order.  The script that waits goes *)
(* on with the receipt, or stops if the transaction reverted.              *)
Mine(s) ==
  /\ pool[s] # <<>>
  /\ LET tx == Head(pool[s])  chains == Mines(tx.what, tx.operator, l1)
     IN /\ pool' = [pool EXCEPT ![s] = Tail(@)]
        /\ l1' = IF chains = {} THEN l1 ELSE CHOOSE c \in chains : TRUE
        /\ IF tx.awaited
           THEN Goes(tx.operator, IF chains = {} THEN Idle("stopped")
                                  ELSE Advanced(onboarding[tx.operator]))
           ELSE UNCHANGED onboarding
  /\ UNCHANGED crashes

Unawaited(txs, o) ==
  [i \in DOMAIN txs |-> [txs[i] EXCEPT !.awaited = @ /\ txs[i].operator # o]]

CrashOnboarding(o) ==
  /\ OnboardingRuns(o) /\ crashes < MaxCrashes
  /\ Goes(o, Idle("stopped"))
  /\ pool' = [s \in DOMAIN pool |-> Unawaited(pool[s], o)]
  /\ crashes' = crashes + 1
  /\ UNCHANGED l1

(* An operator runs the script until it has come to its end.               *)
StartOnboarding(o) ==
  /\ onboarding[o].state = "stopped"
  /\ Goes(o, Idle("running"))
  /\ UNCHANGED <<l1, pool, crashes>>

OnboardingStep(o) == ReadChain(o) \/ CheckChainId(o) \/ SendTransaction(o)

OnboardingNext ==
  \/ \E o \in Operators : OnboardingStep(o) \/ CrashOnboarding(o) \/ StartOnboarding(o)
  \/ \E s \in Operators \cup {Deployer} : Mine(s)

(* The message of the AVS arrives on L2.                                   *)
Deliver(o) ==
  /\ o \in l1.messages
  /\ l1' = [l1 EXCEPT !.messages = @ \ {o}]
  /\ ReceiveOperator(o)
  /\ UNCHANGED <<pool, onboarding, crashes>>

-----------------------------------------------------------------------------

OnboardingTypeOK ==
  /\ l1.tokens \in [Operators \cup {Deployer} -> Nat]
  /\ l1.stake \in [Operators -> Nat] /\ l1.allowance \in [Operators -> {0, Amount}]
  /\ l1.connected \subseteq l1.eigenLayer /\ l1.messages \subseteq Operators
  /\ \A o \in Operators : DOMAIN onboarding[o].read = Facts /\ onboarding[o].at \in 1 .. Len(main)

(* An operator that the AVS knows has a stake to vote with, whichever of   *)
(* its runs sent which transaction and however late they were mined.       *)
RegisteredHaveStake ==
  /\ OnboardingTypeOK
  /\ \A o \in l1.registered : o \in l1.connected /\ l1.stake[o] >= Amount

(* Tokens that a deposit of each run of each operator may need, and the    *)
(* one that the deployer keeps.                                            *)
Enough == Cardinality(Operators) + 2 * MaxCrashes + 1

(* Every operator becomes known to the attestation center, if the deployer *)
(* has the tokens: what a dead run left behind never stops a later one     *)
(* from completing.                                                        *)
EventuallyKnown ==
  \A o \in Operators :
    (/\ onboarding[o].state = "stopped" /\ l1.tokens[Deployer] >= Enough
     /\ l1.chainId \in l2Configs)
    ~> o \in Range(net.center)
=============================================================================
