# TLA+ specification of the Venn on-chain firewall

This directory specifies, in TLA+, the contracts of `src/contracts` and the
TypeScript programs that deploy and operate them (`src/deploy`, `src/scripts`). TLC checks
small instances of the specifications, and TLAPS proves the theorems in the
modules named `...Proofs` for every value of the constants. Paths of `.sol` files below are
relative to `src/contracts`, those of `.ts` files to `src`.

- [The system](#the-system)
- [How the code is modelled](#how-the-code-is-modelled)
- [Modules](#modules)
- [What TLC checks](#what-tlc-checks)
- [What is proved](#what-is-proved)
- [Where code and documentation disagree](#where-code-and-documentation-disagree)
- [What is not modelled](#what-is-not-modelled)
- [Plan](#plan)

## The system

A *consumer* (a contract that inherits `VennFirewallConsumerBase`) guards its
functions with the modifier `firewallProtected`: before the body runs, the
`Firewall` asks every policy the consumer is subscribed to (`preExecution`),
and after the body it asks them again (`postExecution`). A policy that reverts
makes the call revert. The central policy, `TransientApprovedCallsPolicy`, lets
a call pass only if an off-chain network approved it in the same transaction:
a signer (the AVS logic contract, or an off-chain signature) stores the hashes
of the calls that are to follow in transient storage, and each `preExecution`
pops one of them. Around this core stand the contracts that charge for the
approvals, register operators and protocols, guard a Safe, escrow payments for
detections, and deploy policies.

Around the contracts stand scripts. Migrations deploy the system on two chains and publish
addresses in a file; further scripts add subnets, protocols and operators, have the owners of a Safe
sign, and read the resulting topology back from the chain. They run side by side with each other
and with everybody else who uses the chain.

```
 user ──► consumer ──firewallProtected──► Firewall ──pre/postExecution──► policies
   │                                                                        ▲
   └──► AttestationCenterProxy ──► attestation center ──► VennAvsLogic ─────┘
              │ ether                    (external)         │      approveCalls
              ▼                                             ▼
           FeePool ◄──────────── claimFee ──────────── VennFeeCalculator
                                                            │ shares
                           ProtocolRegistry ── veto ──┐     ▼
                                 │                    └─ OperatorRegistry
                                 └──► DetectionEscrow
 Safe ──checkTransaction / checkAfterExecution──► VennGuard ◄── approveMetaTxHash
```

### Inventory

| Component | State | Operations | Hard behaviour | What makes it correct |
|---|---|---|---|---|
| `Firewall` | approved policies, dryrun per consumer, policy arrays per method and global | pre/postExecution; add, remove (single, batch, global); setPolicyStatus; setConsumerDryrunStatus | policies run while the configuration can change under them; batches that fail in the middle; swap-and-pop removal | every enforced call has its approvals; arrays behave as sets; a batch is all or nothing; only the admin changes a consumer |
| Firewall consumer (`consumers/`) | firewall slot, admin slots, transient flags | firewallProtected, setFirewall, two-step admin, initialization by a proxy owner, safeFunctionCall | the slot is written in the middle of the call it protects; a stale proposal | nothing a protected call does outlives it unless its post hooks ran; once there is an admin, a proposal is its own |
| `TransientApprovedCallsPolicy` | nonce per origin, roles, executor, consumers; transient array of hashes | approveCalls, approveCallsViaSignature, preExecution, settings | nested protected calls share one array; frames revert; a signature is submitted again; transient storage survives frames but not transactions | entries are consumed once, last to first, in the transaction that approved them |
| `DynamicTransientApprovedCallsPolicy` | the same, with ranges of values | the same, with calldata words cut out | indices changed between approval and use | as above, within the approved ranges |
| Policy deployment (`PolicyDeployer`, factory, `FirewallModule`) | allowed factories, role grants | deployPolicies, createPolicy, enable through a Safe | a chain of calls of which one fails | a deployed policy is approved in the firewall or nothing was deployed |
| `VennGuard` | nonce, switch, announcements; two transient hashes | checkTransaction, checkAfterExecution, approveMetaTxHash, bypassGuard, setEnabled | Safe transactions inside each other share two transient slots; failed calls undo approvals; announcements and time | what is executed was approved in this transaction, or announced and waited for |
| `AttestationCenterProxy`, `VennAvsLogic`, `FeePool` | ether, balance per policy, collected and rescued fees | submitTask(s), before/afterTaskSubmission, claimFee, deposits, withdrawals | a policy called in the middle of a batch submits tasks itself; payouts hand over control | the pool owes what it holds; nobody pays for another; a batch leaves no ether behind |
| `VennFeeCalculator` | fee per subnet, shares of recipients and operators, what is due to them | setters, distributeFee, calculateFeesPerId, withdraw | rounding; shares that change while fees wait | no unit is lost or invented; nothing underflows |
| `OperatorRegistry` | operator ids, subscriptions and shares, their limit | register, unregister, subscribeOperators | an operator registers before the attestation center knows it; limits shrink | an attester never gives away all of its reward |
| `ProtocolRegistry`, `ArrayHelpers` | protocols, subnets and required operators, detections | register, subscribe, unsubscribe, detections, detection fee | two array algorithms with preconditions on order | required operators have a veto and no more than that |
| `DetectionEscrow` | balance, pending payment | initialize, approve and withdraw payments | three recipients that may reenter or refuse | each request is paid once, to the last unit |
| `VotingPowerSyncer` | syncer, L1 block of the last sync; the powers in OBLS | sync one or many operators, change of syncer | reports late, repeated, out of order, from a replaced syncer | an older report never overwrites a newer one; nobody votes with more than its stake |
| Migrations (`deploy/`) and the deployments file | contracts of both chains, the migration plugin's storage, the file | sixteen migrations of three namespaces, any range of them | a process dies between two statements and is started again, perhaps elsewhere | what the file lists is ready, linked and can be completed |
| Scripts for subnets, protocols, operators (`scripts/flows/`, `deploy/mock`, `deploy/venn/Guard`) | local variables of a process; the chain | createSubnet, subscribe and unsubscribe, register protocol or operator, restrictions, sample policy, guard | ids predicted by a static call; two runs side by side; partial results | a subnet with operator fees has all fees; what is published is complete |
| Topology scan (`scripts/flows/parseTopology.ts`) | what it has read so far | reads events page by page, operators, subnets, protocols | the chain changes between two reads; pages fail | no event is lost or repeated; metadata are current |
| Operator onboarding (`scripts/flows/dependencies/registerOperator.ts`) | local variables; transactions in flight; L1 | tokens, EigenLayer, AVS, stake; a message to L2 | dies while a transaction is in flight, is run again | a registered operator has a stake; every operator gets there |
| Safe scripts (`scripts/gnosis.ts`) | local variables; signatures in circulation | sign and execute, sign and hand over | a nonce read before and used after others execute | what was signed is executed at most once |
| `VennVaultL2`, thin wrappers (`VennToken`, facets, `AvsLogicBase`) | that of library contracts | — | — | — |
| Other scripts, mocks, vendored contracts | — | — | — | — |

The contracts interact only by calls inside Ethereum transactions. There are no
threads in them; what is hard is *reentrancy and rollback*: control passes to unknown
code at every external call, that code may call any public function, and any
frame may revert with everything it did. The scripts are the opposite: nothing they did
is rolled back. They are processes that run side by side, stop after any statement, are
started again, and whose transactions are mined later than they are sent. `PROJECT.json` lists the hazards line by
line with the properties that are aimed at them.

## How the code is modelled

**Worlds and frames.** A module that contains external calls to unknown code keeps
two variables, `world` and `frames` (`escrow` and `payments` in `DetectionEscrow`). `world` is a record of everything an EVM revert undoes: persistent
and transient storage, and ether. `frames` is the call stack; every frame remembers the world it was
entered with (`saved`) and restores it when it reverts. Any frame in which unknown
code is in control may revert at any time, so every combination of partial failures is covered.
One step is what runs between two transfers of control; a loop whose
iterations call other contracts is one step per iteration.

**Transactions.** `BeginTx` pushes the bottom frame; when it is popped, transient
storage is discarded. The code of an origin or router is arbitrary: it may make
any call in any order, so a plain account's single call is one of its behaviours.

**Processes.** A script is a sequence of awaited statements, each of them one step: a
read of the chain, a transaction, or a check of the configuration. Local variables are
those that a later statement uses. A crash ends the process between two steps and undoes nothing;
the operator starts the script again from the top (from the first migration that has not completed,
or from any other, for migrations). Where the time between sending and mining matters (onboarding, Safe),
a transaction waits in a pool in the order of its sender's nonces, and takes effect when it is mined,
whether or not its process still waits. A transaction that would fail when its gas is estimated is not sent.

**Data.** keccak256 is injective: the hash of a call is the call itself. Signature
recovery yields the signer of a message in circulation (`Sign` puts one there; a
message may be submitted at any time and any number of times, also after its expiration).
Addresses are model values. Accounting uses naturals: 2^256 is out of reach of the ether
there is, and an underflow, which the compiler turns into a revert, is a guard.
Percentages are over a small `FeeScale`; the products and divisions are those of
the code, in its order, so that rounding is not abstracted.

**History.** Some fields only record what happened, so that a property can speak of
it: in `ProtectedCalls`, `log` and `spent` (rolled back with the world) and `paid`
per frame; `proposer` in `FirewallConfig`; `approvedNow` and `approvals` in `VennGuard`;
`withdrawn`, `handedOn` and `quoted` in `TaskFees`; the amounts deposited, requested,
approved and received in `DetectionEscrow`; `safeCalls`, `number`, `latest` and `entry` in `SafeCall`;
`finished` in `Deployment`; `made` per process in `SubnetFlows`; `accepted` and `elsewhere` in `VotingPower`;
`executed` in `SafeScripts`. No guard that stands for code reads them.

**Roles.** Where a property depends on who acts (`FirewallConfig`, the signers of
`ProtectedCalls`), the caller is a parameter of the action. Elsewhere a role
may be held by whoever is in control, which includes every assignment of roles.

**Time and bounds.** A block's timestamp is the same during a transaction. Every
counter has a bound in the guards, named `Max...` (`Ether` is all the ether there is, in `TaskFees`)
and listed in the `.cfg`; crashes, restarts and further runs are bounded in the same way.

**Deviations.** Next to some definitions stands a variant with a suffix
(`Discarded_Persistent` beside `Discarded`) and a comment `Deviation: ...`. It
is not used by the specification: it is a plausible mistake, and replacing the
definition by it makes TLC report a violation of a property, which `PROJECT.json`
lists under `mutants`. Thus every property is known to be able to fail.

## Modules

| Module | Models | State and actions against the code |
|---|---|---|
| `ProtectedCalls` | `firewallProtected`, `Firewall.preExecution` / `postExecution`, `TransientApprovedCallsPolicy`, and the settings that can change in the middle of a call | A frame of a protected call goes through `phase` "pre", "body", "post". `Call` enters the modifier; `PolicyConsumes`, `PolicyPasses`, `SkipPolicy` and `PolicyReverts` are one iteration of the hook loops; both lists of policies are copied when a hook begins (`PolicyList`), so changes made while it runs wait for the next hook; `HookEnds` goes on to the body or returns; `BodyReturns` and `BodyReverts` end the body. `ApproveCalls` and `ApproveCallsViaSignature` store, `Popped` is `_popLatestCallHash`. `Configure` holds the settings of policy, firewall and consumer. |
| `CallTickets` | what `ProtectedCalls` promises | Lists of tickets are issued per origin, used last to first within the transaction that issued them, and scopes open, close or roll back. No slots, hooks, roles or configurations. |
| `PolicyArrays` | the array helpers of `Firewall` | `PolicyNotExists`, `PolicyFound`, `SwapRemove` (`_removePolicyFromArray`). |
| `FirewallConfig` | configuration of `Firewall`, admin of the consumers | `StartLoop`, `AddItem`, `RemoveItem`, `RevertLoop`, `FinishLoop`: a batch, one step per iteration. `SetFirewallAdmin`, `AcceptFirewallAdmin`, `InitializeFirewallAdmin`: the two-step admin and the proxies' entry to it, open to whoever owns the proxy at that moment (`TransferProxyOwnership`, external). |
| `PolicySubscriptions` | what `FirewallConfig` promises | Sets of subscriptions that change in one step by the word of the admin, with approved policies only. |
| `Sums`, `Constants`, `FeeParameters` | —, `Constants.sol` | `SumOver`, the sum of a function over a set; the scale of fees; the task definitions that `TaskFees` and `OperatorFees` share. |
| `TaskFees` | `AttestationCenterProxy`, `VennAvsLogic`, `FeePool`, `VennFeeCalculator` | Frames are submissions ("task", "batch", "direct") and payouts. `ProcessTask` is one iteration of the proxy's loop with `beforeTaskSubmission`, the claim, the distribution and the call of the policy (`PolicyEnds` when it returns). Deposits, withdrawals, fees and shares are actions that unknown code may take while it is in control. |
| `OperatorFees` | `OperatorRegistry`, `calculateFeesPerId` | One action per function; `TotalFeesPerId` is the split for any set of attesters. |
| `VennGuard` | `VennGuard`, around it `Safe.execTransaction` | `ExecTransaction` runs `checkTransaction` and enters the calls, `CallsEnd` ends them (a failure undoes them but not the check), `FinishTransaction` runs `checkAfterExecution`. |
| `DetectionEscrow` | `DetectionEscrow` and the detection part of `ProtocolRegistry` | `ApproveClaimPayment` pays the operator and waits; `PayVenn` goes on when it returns. |
| `Subnets` | subnets of `ProtocolRegistry`, the veto of `VennAvsLogic`, `ArrayHelpers` | `isSortedAndUnique` and `verifyArraySubset` as functions; `TaskAccepted` is what `beforeTaskSubmission` demands before it claims the fee. |
| `SafeCall` (extends `Subnets`) | `safeFunctionCall`, `_msgValue` and the two settings of `VennFirewallConsumerBase`, through proxy, AVS logic and policy back to the consumer | A frame of kind "safe" goes through `stage` "proxy" (the call that pays the proxy), "data" (the user's own call), "called" (which has returned), or "failed" (it has not); `_msgValue` is what hooks are told. A task that `TaskAccepted` lets through approves a list of calls, as in `ProtectedCalls` but with values. |
| `Deployment` | the migrations of `deploy/othentic/L1`, `deploy/venn/L1` and `deploy/venn/L2`, `deploy/data/utils.ts` | `Program` lists the statements of each migration; `Step` executes one of them, `Crash` stops the process, `StartRange` and `Resume` start one. The plugin's storage finds a deployed contract again by name, `writeToDeployments` publishes it. |
| `SubnetFlows` | `scripts/flows/*.ts`, `deploy/mock`, the guard migration | Per script a sequence of calls; `Effect` says what a transaction does to the chain. Two named processes run side by side. |
| `Topology` (extends `SubnetFlows`) | `parseTopology.ts` | `ScanNext`: one read per step; events page by page with a `Reader` per event, pages that fail, then protocols item by item. |
| `OperatorOnboarding` (extends `SubnetFlows`) | `dependencies/registerOperator.ts`, the L1 contracts as far as it uses them | `main` is the script; `ReadChain`, `CheckChainId`, `SendTransaction` are its statements, `Mine` and `Deliver` belong to the chains. |
| `VotingPower` (extends `OperatorOnboarding`) | `VotingPowerSyncer` | Reports on a set of operators, read at an L1 block (`ReadStake`), delivered at any later time and any number of times (`setBatchOperatorVotingPower`), a change of syncer, and other writers of OBLS. |
| `SafeScripts` | `scripts/gnosis.ts` | One step per awaited statement of `execSafeTx`, `getSafeTxSignatures`, `getSafeExecTxArgs`; the Safe's signature check and nonce. |
| `NetworkSetup` | the composition of the five modules above | Scripts, scan, onboarding, reports and Safe scripts share chains; the operators registered on L1 are those that scripts and scan find on L2, and their stakes are what reports speak of. |
| `ProtectedCallsProofs`, `FirewallConfigProofs`, `VennGuardProofs`, `SafeCallProofs`, `FeesProofs`, `NetworkSetupProofs`, `DeploymentProofs` | theorems about the module each is named after; `FeesProofs` about `TaskFees`, `OperatorFees` and `DetectionEscrow` | |
| `SumsProofs` | what is used of sums over finite sets, and the induction it rests on | |
| `MCProtectedCalls`, `MCFirewallConfig`, `MCTaskFees`, `MCOperatorFees`, `MCVennGuard`, `MCSafeCall`, `MCDeployment`, `MCNetworkSetup` | small instances for TLC: the values of constants, initial configurations, symmetry, scopes | |

Outside the contracts of this repository, and modelled only as far as the code
relies on them: the Safe (`execTransaction`, its nonce and signature check), the Othentic attestation center (ids,
activity and restrictions of operators, the order in which it reports
attesters, its right to refuse a task), its factory, OBLS and the AVS of L1, EigenLayer, the
migration plugin with its storage, and the code of consumers, routers, and recipients,
which is arbitrary. Policies of other kinds are known to `ProtectedCalls` only by their verdicts.

`AddPolicy` and its relatives appear both in `ProtectedCalls`, as single
changes in the middle of a transaction, and in `FirewallConfig`, as batches
with nothing in between. The two modules meet in `PolicyArrays`. In `ProtectedCalls` a
consumer that administers itself (`AdminOf`) is how configuration changes
happen *inside* a protected call.

## What TLC checks

Each passing run explores all states of its instance, within the scope named below where there is one. Deadlock is checked in every run
of contracts: no state leaves them without a possible step. The two runs of scripts do not check it, because scripts end. The bounds are chosen so that
every interaction that a property is about happens at least once *inside* another of its kind.

| Run | Question | Instance and why it is enough |
|---|---|---|
| `calls_nested` | Does every running call have an approval of its own, with nesting, both kinds of subscription, dryrun and rollback? `ProtectedCalls` implements `CallTickets`. | One policy of the approving kind and one that may have any verdict; a router calls the vault, which calls itself; a list of two entries and one of one; two approvals per origin; stack of 4. Initial worlds: the policies per method, global, both or none, any dryrun. Two entries and two approvals are what it takes for a stale entry, a gap or an overlap to exist. |
| `calls_signed` | Does an approval take effect twice? | Two origins, two signed messages of any signer, nonce, expiration and origin; two nonces; settings of the policy change between and inside transactions. |
| `calls_reconfigured` | Can a call escape its hooks when the firewall's settings change in the middle of it? | The vault is its own admin and the owner: it subscribes, unsubscribes, approves, sets dryrun and its firewall slot between any two steps of its own call; stack of 3, so that a call changes what its caller's hooks read. Of its two functions one may leave by an inline assembly `return`; `Scope` keeps that one's own list of policies and lets it change the firewall slot only. |
| `config_changes` | Are batches atomic, are arrays sets, who may change what? `FirewallConfig` implements `PolicySubscriptions`. | Two consumers, two policies (symmetric), two accounts, batches of two. `Scope` confines the product: both policies are in use only while one admin administers both consumers and the second one has at most one global entry; with several admins one policy is in use. What a policy is called does not matter to who may configure it, nor one consumer's list to the algorithm on another's. The bank's proxy changes hands only while no policy is in use. |
| `fees_payments` | Do the books agree and is the pool solvent under reentrancy? | Two policies, one subnet, two recipients, 2 units of ether, batches of two, stack of 2 (a submission with a submission or payout inside). Initially nothing or a fee of 1 with shares of a quarter, which round down to 0; the fee may become 2, shares 3/4 or 0; up to 3 units are claimed. `Scope`: calls nest and batch while fees are as configured, and fees change between single tasks of one policy. |
| `operator_split` | Does the split of operator fees underflow or exceed the fees, for every set of attesters? | Two operators, each of which may register before or after it joins, one subnet, all shares of a scale of 4 that differ in effect, fees of 3, 7 and their sums up to the bound, limits of one and two. |
| `guard_approvals` | Is what the guard lets through approved or announced? | A multisend and a transaction of another form; two nonces of Safe and guard, a stack of 3 (a Safe transaction inside another), one block boundary, waiting time 0: an announcement still has to wait for the next block. The theorems cover every waiting time. |
| `escrow_payments` | Is each request paid once and to the last unit? | Amounts of 1 and 3 on a scale of 4, fees of 0, 1 and 2 quarters (a fee of 3 is above the maximum and refused), a payment inside a payment. |
| `safe_calls` | Do required operators have a veto, and no more? Does the veto hold on the whole way from `safeFunctionCall` to the body, and which value are hooks told? | `Scope`: while nobody calls the consumer, any registry over three operators and two task definitions of which 0 is exempt from restrictions (the ones kept for it are never read, and stay empty), with all arrays, sorted or not; calls are made on one with required operators 1 and 3. Three operators are what it takes for an array to be out of order in the middle. A user and a wallet, a value of 2 and fees of 0 and 1, two transactions, two safe calls in each, stack of 4: a safe call inside the proxy call of another one, with a protected call in it. |
| `deployment` | Can the deployments file ever list what is not ready or does not fit together, and can a deployment always be finished? | One chain with a configuration and one without. One range is started at will (any migration alone, or it and all that follow in its namespace), with either of two AVS names, and the process dies once anywhere; a statement fails whenever what it needs is missing. The deployment goes on before and after. A wrong start and a crash are what it takes to meet every partial result of every migration. |
| `network_setup` | Do the scripts leave complete samples and subnets, does the scan read the chain right, does every operator get known and vote with its stake, are Safe transactions executed once? | Five families of scenarios, listed in `MCNetworkSetup`. *Pairs*: two scripts side by side on an empty or a populated chain, of which one may die and be started again. *Scans*: the scan beside one script, which may stop anywhere for good. *Onboardings*: two operators, tokens enough or for one, on a configured chain or another, with one crash, and an operator script on L2 beside one. *Reports*: two reports, changes of syncer or powers written by others, while an operator's stake grows, twice if it crashes. *Signers*: two scripts for a Safe of three owners with threshold two, one of them run again, nonces given or not. Two definitions and policies, five blocks with pages of three (so that pages end both before and at the last block), one failed page. Families do not mix because they share only the chain, which the pairs with `registerOperator` cover. |
| `operator_unsubscribe` | Does the code do what its tests say? | See [below](#where-code-and-documentation-disagree). |

The properties, and the code each one is about, are stated above their definitions at the end
of each module. In short:

- **Calls.** `RunningCallsAreApproved`: an enforced protected call runs its body only
  after each of its approving policies consumed an entry for that very call.
  `EachCallHasItsOwnApproval`: no two entries of the stack rest on the same
  entry. `ConsumedInOrder`: what was consumed of an approval is a suffix of it,
  in the present and in every world a revert may restore. `SpentOnce`,
  `ApprovalsNotReplayed`: neither entries nor signatures count twice.
  `EffectsPassPostHooks`: the modifier uses the firewall it read at entry, so
  a body that removes the firewall does not avoid its post hooks. Functions that may leave by an
  inline assembly `return` (`AssemblyReturns`, action `BodyExits`) are excepted: they
  do avoid them, as the NOTE at `VennFirewallConsumerBase.sol:76` warns.
- **Configuration.** `NoDuplicates`, `BatchesAreAtomic`, `OnlyAdminConfigures`,
  `PendingIsFromAdmin`: acceptance leaves nothing behind that lets anyone take over from
  the new admin. Before there is an admin, a proposal made by a former owner of the proxy may still be
  accepted; the model has that case and the property allows it.
- **Fees.** `PoolIsSolvent` (which includes that the proxy holds no ether between
  submissions), `CollectedIsDistributed`,
  `PrepaidIsProtected`, and `QuoteSuffices`: a batch that came with
  `getTotalRequiredNativeAmountForPolicies` is not short of ether, under conditions that the
  definition states: the tasks belong to different policies, because the
  quote counts a policy's balance once per task, and neither a policy submits
  tasks in the middle nor fees change. Without these conditions it does not hold.
- **Operators.** `SplitIsExact`: whatever is subscribed, the parts of a fee never exceed or
  underflow it, and an attester keeps some of its reward.
- **Guard.** `ExecutedIfApprovedOrAnnounced`, `EachNonceApprovesOnce`,
  `AnnouncementsStand`. The first one speaks of Safe transactions that
  execute no other one: slots 0 and 1 are shared by Safe transactions that
  run inside each other.
- **Escrow.** `ApprovedIsPaid` (to the last unit, the operator's part included), `RequestsArePaidOnce`.
- **Subnets and safe calls.** `RequiredHaveAttested`, `AttestedAreAccepted`: the veto and its limit.
  `BodiesAreVetted`: on the whole way, a protected function runs for a sender, with the value its hooks were told,
  only if a task of the same transaction approved that and the required operators attested it.
  `ToldLessLatestFee`: the hooks of a protected call are told what was sent, less the fee of the last
  `safeFunctionCall` begun if that one still runs and has the same sender. So the fee, paid once, is taken off every
  protected call that sender makes meanwhile: those made while the proxy runs, and each one of a multicall. And
  when an inner `safeFunctionCall` has cleared the flags, it is not taken off the call that the outer one makes.
- **Deployment.** `PublishedIsReady`: whatever statement a process stopped at, what the file lists is
  the contract its key names, initialized and administered. `WiredInOrder`: wherever two migrations were last completed in the documented
  order, the contracts they list are linked and hold the roles they need, whatever happened between.
  `EventuallyDeployed`: going on finishes the deployment on a configured chain.
- **Scripts.** `SampleIsComplete`: the sample policy that the file hands to other scripts is set up and registered.
  `SubnetsAreComplete`: a subnet with operator fees has all of its fees, although two runs may have predicted the same id
  (both then configure the first one's subnet, and the second one's is left without, which the property does not exclude).
- **Topology.** `PagedExactly`: the pages read hold exactly the events of the blocks behind the reader.
  `ProtocolsWereCurrent`: the protocols registered when the scan began are listed, with metadata current at some block during it.
  `QuietScanIsExact`: if nothing is mined meanwhile, the topology is the chain's; what a scan mixes up otherwise is not bounded.
- **Onboarding and power.** `RegisteredHaveStake`: an operator the AVS knows is connected and has a stake, however late
  whose transactions are mined. `PowerFollowsStake`: an operator votes with what the newest accepted report says, and never with more than its stake.
  `EventuallyKnown`: every operator becomes known on L2, if the deployer has the tokens.
- **Safe scripts.** `SafeExecutesOnce`: what is signed is executed at most once and at its nonce; a script
  with an explicit nonce, other than 0, has its call executed at most once over all its runs. `QuietRunSucceeds`:
  a script is refused only if another transaction was executed in between, or the call fails.

Each module has one type invariant. Outside `ProtectedCalls` it is the first
conjunct of one of the module's other invariants (`TypeOK`, `CallTypeOK`, `FlowTypeOK`,
`OnboardingTypeOK`, `SyncTypeOK`, `SafeTypeOK`).

**Fairness and liveness.** The specifications of contracts assume no fairness, and no liveness
property is stated of them: nothing obliges anyone to send a transaction, a frame of unknown
code may run for ever or revert, and what a transaction achieves it
achieves before it ends. Requests that may remain unanswered (a proposed
admin, a pending payment) are meant to.

Scripts are different: a process that runs is scheduled by its runtime, and an operator who wants a result runs the
script again until it ends without an error. `Deployment` assumes `WF(Step)`, the running process goes on, and
`WF(Resume)`, the deployment is continued while a migration is missing. `NetworkSetup` assumes per operator
weak fairness of its onboarding (the process goes on, a stopped one is started), per sender that
what it sent is mined, and per operator that its message is delivered on L2. Each operator and sender has a condition of its own, so that none is
served at the expense of another. Weak fairness suffices since
none of these actions is disabled by others for good. Crashes are bounded in number; nothing fair
depends on them. Scripts of `SubnetFlows`, the scan, reports and Safe
scripts are under no fairness: nobody has to run them.

## What is proved

For every value of the constants that satisfies the named assumptions
(`ConstantsAssumption` and `InitialWorldsAssumption`, `ConfigAssumption`,
`GuardAssumption`, `SubnetsAssumption` and `SafeCallAssumption`, `EscrowAssumption`, `FeeAssumption`, `OperatorAssumption`,
`FlowAssumption`, `TopologyAssumption`, `OwnersAssumption`, `ScenariosAssumption`,
`SyncersAssumption`, `DeploymentAssumption`): any number of consumers, policies, accounts, operators, owners, recipients, lists and
initial configurations, and any bounds. The assumptions say that

- sets of special values are disjoint, that ids and bounds are naturals, that operator ids start at 1 and are not shared;
- transient storage is empty and accounts are settled at first; fee shares are never set above the whole;
- policies, subnets, recipients and accounts of operators are finitely many, which sums over them need; a sum over the words
  of Ethereum is one of finitely many;
- a Safe's owners are distinct and its threshold is not above their number; who signs is an owner;
- a range of migrations stays in one namespace, as `docs/deployment.md` runs them;
- the chain a scenario begins with is one that scripts left behind: its events lie in the past, and agree with
  the metadata of the protocols (`LogOK`); its subnets and sample policy are set up.

TLC evaluates them in the runs of the same module.

| Module | Theorem | Property |
|---|---|---|
| `ProtectedCallsProofs` | `TypeCorrect`, `OnlyApprovedCallsRun`, `ApprovalsAreNotShared`, `EntriesAreSpentOnce`, `NoReplay`, `ReturnsPassHooks`, `ConsumptionIsOrdered`, `TicketsRefinement` | `TypeOK`, `RunningCallsAreApproved`, `EachCallHasItsOwnApproval`, `SpentOnce`, `ApprovalsNotReplayed`, `EffectsPassPostHooks`, `ConsumedInOrder`, `ImplementsTickets` |
| `FirewallConfigProofs` | `TypeCorrect`, `ArraysAreSets`, `ProposalsAreCurrent`, `OnlyAdmins`, `BatchesDoAllOrNothing`, `Refinement` | `TypeOK`, `NoDuplicates`, `PendingIsFromAdmin`, `OnlyAdminConfigures`, `BatchesAreAtomic`, `ImplementsSubscriptions` |
| `VennGuardProofs` | `TypeCorrect`, `NoncesApproveOnce`, `GuardHolds`, `AnnouncedOnce` | `TypeOK`, `EachNonceApprovesOnce`, `ExecutedIfApprovedOrAnnounced`, `AnnouncementsStand` |
| `SafeCallProofs` | `TypeCorrect`, `ValuesTold`, `Veto`, `NoneRefused`, `Vetting` | `CallTypeOK`, `ToldLessLatestFee`, `RequiredHaveAttested`, `AttestedAreAccepted`, `BodiesAreVetted` |
| `FeesProofs` | `Solvency`, `BooksAgree`, `QuoteIsEnough`, `PrepaidStays`; `SplitExactly`; `EscrowTypeCorrect`, `PaidOnce`, `ApprovedPaid`, `NothingIsLost` | `PoolIsSolvent`, `CollectedIsDistributed`, `QuoteSuffices`, `PrepaidIsProtected`; `SplitIsExact`; `EscrowTypes`, `RequestsArePaidOnce`, `ApprovedIsPaid`, the escrow holds what came in less what went out |
| `NetworkSetupProofs` | `SampleComplete`, `SubnetsComplete`; `ScanMissesNothing`, `ScanIsCurrent`, `ScanIsExact`; `RegisteredOperatorsHaveStake`, `PowerFollows`; `SafeExecutesAtMostOnce`, `QuietRuns` | `SampleIsComplete`, `SubnetsAreComplete`; `PagedExactly`, `ProtocolsWereCurrent`, `QuietScanIsExact`; `RegisteredHaveStake`, `PowerFollowsStake`; `SafeExecutesOnce`, `QuietRunSucceeds` |
| `DeploymentProofs` | `ReadyWhenPublished`, `WiredWhenInOrder` | `PublishedIsReady`, `WiredInOrder` |

**The arguments.** Hardly any of these properties is inductive. In the contracts, a revert brings back an
older world, and nothing in the property itself says that the older world was
good: each inductive invariant therefore speaks of every saved world as well. In the scripts, what is in flight was
sent by a process that may be dead, on what it had read of an older chain: the invariant
says what a transaction, a report or a signature promises by itself, whoever sent it.

- *ProtectedCalls.* `HistoryOK` and `TokensOK` of a world: the approvals in force
  are numbered as the nonce counts them, and each spent token stands for an entry of one of them.
  `SlotsOK`: the slots up to `len` are the newest approval's first entries, none of them spent.
  `StackOK`: all of this of every saved world, and what a frame consumed was unspent
  when the frame was entered, and is spent in the present world and in every world saved above the frame;
  so two frames never hold the same token, and a revert makes no token of a surviving frame
  available again. Between transactions nothing is left to consume (`Quiet`). The lemmas
  `ChangeWorld`, `PushFrame`, `ReplaceTop` and `PopFrame` cover the four ways in
  which world and stack change; every action is one of them.
- *CallTickets* (the second half of `ProtectedCallsProofs`). The lemma `Shapes` sorts every step of `ProtectedCalls` into six shapes: a transaction
  begins, a frame is pushed, nothing that tickets speak of changes, an approval is issued, an entry is consumed, a frame is popped. `OrderInv`
  adds to the invariant that, in the world and in every saved one, the indices consumed of the newest approval are exactly those above `len`,
  and that nonces are never below those at the beginning of the transaction. Each shape then is a step of `CallTickets` or a stutter, and keeps `OrderInv`.
- *FirewallConfig.* Types, `AllDistinct` (the saved arrays included),
  `LoopOK` (what a running loop has written so far is the effect of its first `next - 1` items on the saved arrays,
  and each of these items was allowed to its sender), `OwnersOK` (who owns a proxy is among those who ever did), and `PendingIsFromAdmin`. The
  lemmas `AppendArray` and `SwapRemoveArray` reduce appending and swap-and-pop on arrays
  without duplicates to union and difference of sets; `LoopEffect` and
  `FinishRefines` map a finished batch to one step of `PolicySubscriptions`, every other step of a loop is a stutter.
  `BatchesDoAllOrNothing` is `LoopOK` with all items done, or the saved arrays.
- *VennGuard.* Types, `WorldOK` of the world and of the worlds saved and
  checked in every frame (the guard's nonce counts its approvals; what is in slot 1 was approved
  in this Ethereum transaction), frames below the top are not innermost, and `Admitted(Top)`: the
  guarded innermost frame was admitted by slot 0 or by an announcement. `AnnouncedOnce` adds `AnnounceInv`: what
  has been announced since a frame was entered was announced in this block, so a revert takes back only those.
- *SafeCall.* `FlagsOK` of the world and of every saved world: the flags are set exactly while the last
  `safeFunctionCall` begun is on the stack, and are its own; numbers of
  safe calls grow up the stack. `FeeOK` of every frame: what hooks were told when it was entered.
- *The veto.* The registry keeps ascending arrays of required operators, as its type says, which is what the one pass of
  `verifyArraySubset` needs: by induction on what is left of the second
  array, it finds nothing missing only if what is left of the first one occurs there, and always then if both ascend (`SubsetIsVerified`).
  If the attesters are in any order, finding all required operators still means they are there (`Veto`); only ascending ones are
  sure to be accepted (`NoneRefused`). `VettedInv` carries this to the bodies: whatever is approved, in the present world and in every saved one, and
  whatever a frame consumed, comes from an accepted task of the present transaction.
- *DetectionEscrow.* `EscrowWorldOK` of the world and every saved one: the balance is what came in less what went out, and what was approved or is pending was requested.
  For `ApprovedPaid`, `AllSettled`: in the present world what was approved is with its recipients or owed by the approvals on the stack, and
  in the world saved by frame *i* it is, with the approvals below *i*. A revert pops the frame and its debt together.
- *TaskFees.* `Solvent` and `SplitUp` of the world and every saved one; `ProxyOK`: without a batch on the stack the proxy is
  empty, in saved worlds too. `QuoteOK`: a batch that came with the quoted amount has, in the present world and in every world that a call
  above it may restore, what its remaining tasks still need (`Provided`). The step that matters is the one that processes a task: since the
  batch's policies differ, using up one policy's balance leaves the others' needs as they were.
- *OperatorFees.* The shares each operator gives away are below the whole in every subnet (`SubscriptionsFit`), because they were when last set, and only its own call sets them;
  those of the operator types make up the whole, or none were set yet (`TypeSharesFit`). With `SumOfParts` (parts
  that are rounded down have no more than their part of the whole) the subscribed operators get less than their attester's reward, and `ThreeParts` and `EqualParts` bound what rounding loses.
- *Sums.* A sum over a set is a fold in the order of `CHOOSE`. `SumsExist` builds the function that the recursion defines, `SumSplit` shows that any element may be
  taken out first; all else (`SumUpdate`, `SumPlus`, `SumAtMost`) follows from it.
- *Deployment.* The migrations are data, and each of the sixteen is read once. `Disciplined`: a value is bound before it is used, a proxy is initialized
  by the next statement, and what is published was initialized and given its admin before. `Owns`: every key of section L2, and the
  name its contract is saved under, is written by one migration only (the token's name apart, which `venn/L1` saves as well), and the attestation center is pointed only at what the
  same migration made. The rest speaks of any such program.
  `ProgressOK`: what a statement left true (`Holds`) is still so while its migration runs, because the statements after it undo none of it
  (`StatementsHold`, `ProgressKept`); this gives `FileOK`, which is `PublishedIsReady`. `HistoryOK`: what completed migrations listed, saved and linked is kept by every statement of
  another migration (`HistoryKept`), and claimed no longer once one of them is started again (`HistoryForgets`); when a migration completes, its own
  `Holds` give its lists and links, and `HistoryOK` says that the addresses it read from the plugin's storage are those the file lists (`CompletionKeepsHistory`).
- *Scripts.* `FlowInv` and `SubnetInv`: what a process that stands before its *n*-th statement has done (`SampleProgress`, `SubnetProgress`) is
  still so, whoever ran meanwhile, because a chain only ever gains contracts, settings and fees (`Improves`). For subnets,
  `MadeByRuns` says that every definition since an id was predicted was made by a run of the script, so the id a run
  configures is its own or that of a run that configures it as well.
- *Scan.* `PageInv`: each reader is at a page boundary, has taken what lies behind it, and events of blocks that are behind are never added.
  `ScanInv` adds that the log agrees with the chain (`LogOK`) and, of what was read: a protocol's metadata come from the later of
  two blocks, that of its registration and that of the last update the scan has seen, and were current there, or at the scan's begin if that is later (`Listed`); as long as the chain's height
  is the one the scan began at, every list is the chain's, up to where it has been read (`Exact`). Chains that gain
  blocks make the second claim void and keep the first one (`ChainKeepsScan`).
- *Onboarding.* `OnboardingInv`: `L1OK` (what the AVS knows is connected and staked), `ProcessOK` (what a process
  has passed still holds, since the chain never goes back on it), `TransactionOK` (a registration in flight is one of an operator whose connection and
  stake are settled), `AwaitedOnce` (a process waits for one transaction at most).
- *Power.* `SyncInv`: every report was true at its block and stakes only grow; accepted reports are no newer than the last synced
  block; the power is that of the newest accepted one.
- *Safe scripts.* `SafeInv`: everything signed with an explicit nonce, in any run, carries that nonce (`OneNonce`), what was sent was signed for the nonce it claims
  (`SentOK`, `SignedOK`), and the Safe's nonce counts what it executed (`EntryOK`). `QuietInv`: a script that is left to find owners and nonce
  has read the Safe's owners and a nonce that was the Safe's at the time; its signatures, sorted, are the ones `checkSignatures` wants, so only another execution
  or a failing call is left to refuse it.

**Induction.** The library's induction theorems take a predicate as a
parameter, which the provers used here cannot instantiate. Where an argument is an induction (over the
elements of a set that is summed up, the positions of an array, the blocks of a log), it is made over
the *set* of numbers, or of subsets, for which the claim holds (`SetInduction`, `SubsetInduction` in
`SumsProofs`), down to `WFMin`, the existence of minimal elements.

**Only model-checked.** Every safety invariant and every action property of the passing runs is stated by a theorem.
Liveness under fairness and ENABLED are out of the prover's reach: `EventuallyDeployed` and `EventuallyKnown` are checked by
TLC only. No module declares a RECURSIVE operator.

## Where code and documentation disagree

| Run | What |
|---|---|
| `operator_unsubscribe` | `OperatorRegistry.subscribeOperators` takes the id to remove from `operators[...]`, which `unregisterOperator` has deleted. Removing the subscription to an unregistered operator therefore removes id 0, succeeds and emits the event, while the subscription and its share stay (`OperatorRegistry.sol:93`). The test "should not revert if try to unsubscribe unregistered operator" only checks that the call succeeds. |

Two more were read in the code. The models contain what the code does; no run is
devoted to them.

- `DetectionEscrow.approveClaimPayment` charges the registry's present detection fee, not the one recorded with the detection, which `IProtocolRegistry.sol:28` documents as the fee for it and which nothing reads (`DetectionEscrow.sol:46`).
- `ArrayHelpers.verifyArraySubset` promises the first missing element of any two arrays, but is right only for ascending ones, and it is given the restricted operators of a subnet in the order in which the attestation center returns them (`ArrayHelpers.sol:45`).

## What is not modelled

| Part | Why |
|---|---|
| `DynamicTransientApprovedCallsPolicy` | planned; until then a reader may take `ProtectedCalls` for it with hashes in place of ranges, which says nothing about its parsing |
| `PolicyDeployer`, factory, `FirewallModule` | planned (`PolicyDeployment`) |
| `VennVaultL2` | mints within a payment request what the request needs: arithmetic over library contracts |
| the two functions of `VotingPowerSyncer` that set totals of a task definition | they pass their arguments on to OBLS |
| registry or settings that change in the middle of a `SafeCall` transaction | their own transactions; what a reentrant change of settings does to a protected call is in `ProtectedCalls` |
| a consumer's balance when a `safeFunctionCall` makes the consumer pay again | its body is arbitrary code |
| two processes that write the deployments file at the same time | one operator deploys; the scripts write it by reading, changing and replacing the whole file |
| dynamic signatures in `gnosis.ts`; `signatures.ts`, helpers, configuration of hardhat, tasks, the manual test `testBasicDeposit.ts` | no function creates the former; the others keep no state |
| reorganizations of either chain | the scripts wait for `CONFIRMATION_BLOCKS` and look no further |
| setters that point the AVS contracts at each other | the deployment is fixed |
| view functions, metadata, events, the order of entries in enumerable sets | no effect on any property |
| `setVennFeeRecipient` | any code may be behind the recipient of `DetectionEscrow` as it is |
| `VennToken`, facets, `AvsLogicBase` | wrappers without a protocol of their own over library contracts |
| what a policy of another kind does during its hooks besides passing or reverting | the firewall gives it control as it does any external call; bodies, which have the same control, call and configure at will |
| gas: loops over arrays of any length are assumed to finish | the contracts bound no array |

## Plan

The core was modelled first: the protected call and its approvals, then the
configuration it reads, then the payments for approvals, then the contracts
around them and the way of a user through them (`SafeCall`), then the scripts and what they do to the chains
(`Deployment`, `NetworkSetup`). What would come next, in this order:

1. `DynamicCalls`: the dynamic policy as a second implementation of
   `CallTickets`, its entries carrying ranges; indices that change between
   approval and use.
2. `PolicyDeployment`: deployer, factory, module and Safe as one chain of calls
   that reverts as a whole and ends in `FirewallConfig`'s `SetPolicyStatus`.
3. A composition of `TaskFees` and `ProtectedCalls`, with the payment of the
   fee on `SafeCall`'s way.
4. A statement of what `VennGuard` promises to a Safe transaction that executes another one, and of what
   happens to subscriptions under operator id 0.
5. Theorems for the above: the refinement of `CallTickets` for the dynamic policy, by the lemmas of `ProtectedCallsProofs` that do not look into entries.
