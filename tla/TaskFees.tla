------------------------------ MODULE TaskFees ------------------------------
(***************************************************************************)
(* The ether and the fees of tasks: AttestationCenterProxy takes ether and *)
(* forwards it, VennAvsLogic claims the fee of each task from what FeePool *)
(* holds for the task's policy, VennFeeCalculator splits it.               *)
(*                                                                         *)
(* Control leaves these contracts twice: when VennAvsLogic calls the       *)
(* policy of an approved task, and when FeePool pays out.  The code called *)
(* may call any function here again, and may revert.  A frame keeps the    *)
(* world it was entered with; what happens between two such calls is one   *)
(* step.  Roles are held by whoever acts; the attestation center itself    *)
(* and the protocol registry may refuse any task.                          *)
(***************************************************************************)
EXTENDS Naturals, Sequences, FiniteSets, Functions, FeeParameters

CONSTANTS
  Policies,
  Recipients,     \* protocol treasuries and the like, bytes32
  InitialWorlds,  \* configurations the contracts may start from
  Fees,           \* fees an admin may set for a subnet
  Shares,         \* shares an admin may set for a recipient
  Ether,          \* bound: all the ether there is
  MaxClaimed,     \* bound: fees claimed in all
  MaxBatch,       \* bound: tasks submitted together
  MaxDepth        \* bound: nested frames

VARIABLES
  world,    \* what a revert undoes
  frames    \* the calls that wait for unknown code or are in progress

vars == <<world, frames>>

Tasks == [policy : Policies, subnet : Subnets]

Worlds ==
  [ wallets      : Nat,   \* ether of everyone else
    proxy        : Nat,   \* ether of AttestationCenterProxy
    pool         : Nat,   \* ether of FeePool
    \* FeePool
    collected    : Nat,
    rescued      : Nat,
    balance      : [Policies -> Nat],
    \* VennFeeCalculator; share 0 stands for a recipient that is not listed
    totalFee     : [Subnets -> Nat],
    shares       : [Subnets -> [Recipients -> 0 .. FeeScale]],
    distributed  : [Recipients -> Nat],
    operatorFees : [Subnets -> Nat],
    \* history: withdrawn from the collected fees; fees the calculator handed on
    withdrawn    : Nat,
    handedOn     : Nat ]

Frames ==
  [ kind    : {"task", "batch", "direct", "payout"},
    tasks   : Seq(Tasks),
    next    : Nat \ {0},
    outside : BOOLEAN,      \* waits for a policy or a recipient
    quoted  : BOOLEAN,      \* history: different policies, the quoted amount paid
    saved   : Worlds ]

ASSUME FeeAssumption ==
  /\ IsFiniteSet(Policies) /\ IsFiniteSet(Subnets) /\ IsFiniteSet(Recipients)
  /\ FeeScale \in Nat \ {0}
  /\ Fees \subseteq Nat /\ Shares \subseteq 0 .. FeeScale
  /\ {Ether, MaxClaimed, MaxBatch, MaxDepth} \subseteq Nat
  /\ InitialWorlds \subseteq Worlds
  /\ \A w \in InitialWorlds :
       /\ w.wallets = Ether /\ w.proxy = 0 /\ w.pool = 0
       /\ w.collected = 0 /\ w.rescued = 0
       /\ w.balance = [p \in Policies |-> 0]
       /\ w.distributed = [r \in Recipients |-> 0]
       /\ w.operatorFees = [s \in Subnets |-> 0]
       /\ w.withdrawn = 0 /\ w.handedOn = 0
       /\ \A s \in Subnets : SumOver(w.shares[s], Recipients) < FeeScale

Init == world \in InitialWorlds /\ frames = <<>>

-----------------------------------------------------------------------------
(* Frames *)

Top == frames[Len(frames)]
Below == SubSeq(frames, 1, Len(frames) - 1)

\* Unknown code is in control: a transaction's sender, a policy, a recipient.
Outside == frames # <<>> => Top.outside

\* A quote provides neither for what a policy submits meanwhile nor for new fees.
Unquoted == [i \in DOMAIN frames |-> [frames[i] EXCEPT !.quoted = FALSE]]

Push(kind, tasks, quoted) ==
  /\ Outside /\ Len(frames) < MaxDepth
  /\ frames' = Append(IF kind = "payout" THEN frames ELSE Unquoted,
                      [kind |-> kind, tasks |-> tasks, next |-> 1,
                       outside |-> kind = "payout", quoted |-> quoted, saved |-> world])

Pop == frames' = Below
Revert == world' = Top.saved /\ Pop

Submitting == frames # <<>> /\ Top.kind # "payout" /\ ~Top.outside
Task == Top.tasks[Top.next]
MoreTasks == Submitting /\ Top.next <= Len(Top.tasks)
NextTask == frames' = [frames EXCEPT ![Len(frames)].next = @ + 1,
                                     ![Len(frames)].outside = FALSE]

-----------------------------------------------------------------------------
(* FeePool *)

\* depositNativeForPolicy with ether of the proxy.
Deposited(w, p, v) ==
  [w EXCEPT !.proxy = @ - v, !.pool = @ + v, !.balance[p] = @ + v]

\* getRequiredNativeAmountForPolicy
Required(w, t) ==
  IF w.totalFee[t.subnet] > w.balance[t.policy]
  THEN w.totalFee[t.subnet] - w.balance[t.policy] ELSE 0

\* getTotalRequiredNativeAmountForPolicies: every task on its own.
TotalRequired(w, tasks) ==
  SumOver([i \in DOMAIN tasks |-> Required(w, tasks[i])], DOMAIN tasks)

FeeAmount(w, s, r) == (w.totalFee[s] * w.shares[s][r]) \div FeeScale

\* Deviation: the operators get their share, the rounding is lost.
Distributed_RoundingLost(w, s) ==
  [w EXCEPT
     !.distributed = [r \in Recipients |-> @[r] + FeeAmount(w, s, r)],
     !.operatorFees[s] =
        @ + (w.totalFee[s] * (FeeScale - SumOver(w.shares[s], Recipients))) \div FeeScale]

\* VennFeeCalculator.distributeFee: the operators get what is left, the
\* rounding of the shares included.
Distributed(w, s) ==
  [w EXCEPT
     !.distributed = [r \in Recipients |-> @[r] + FeeAmount(w, s, r)],
     !.operatorFees[s] =
        @ + (w.totalFee[s] - SumOver([r \in Recipients |-> FeeAmount(w, s, r)], Recipients))]

\* claimNativeFeeFromPolicy
Claimed(w, t) ==
  Distributed([w EXCEPT !.balance[t.policy] = @ - w.totalFee[t.subnet],
                        !.collected = @ + w.totalFee[t.subnet]], t.subnet)

\* depositNativeForPolicy and depositRescuedFees called by anyone.
DepositNativeForPolicy(p, v) ==
  /\ Outside /\ v <= world.wallets
  /\ world' = [world EXCEPT !.wallets = @ - v, !.pool = @ + v, !.balance[p] = @ + v]
  /\ UNCHANGED frames

DepositRescuedFees(v) ==
  /\ Outside /\ v <= world.wallets
  /\ world' = [world EXCEPT !.wallets = @ - v, !.pool = @ + v, !.rescued = @ + v]
  /\ UNCHANGED frames

\* Deviation: the counter is not reduced.
WithdrawFees_NotCounted(v) ==
  /\ v <= world.collected /\ v <= world.pool
  /\ world' = [world EXCEPT !.pool = @ - v, !.wallets = @ + v, !.withdrawn = @ + v]
  /\ Push("payout", <<>>, FALSE)

\* The counter is reduced before the recipient gets control.
WithdrawFees(v) ==
  /\ v <= world.collected /\ v <= world.pool
  /\ world' = [world EXCEPT !.collected = @ - v, !.pool = @ - v, !.wallets = @ + v,
                            !.withdrawn = @ + v]
  /\ Push("payout", <<>>, FALSE)

WithdrawRescuedFees(v) ==
  /\ v <= world.rescued /\ v <= world.pool
  /\ world' = [world EXCEPT !.rescued = @ - v, !.pool = @ - v, !.wallets = @ + v]
  /\ Push("payout", <<>>, FALSE)

\* The recipient accepts the ether, or reverts and so does the withdrawal.
PayoutEnds ==
  /\ frames # <<>> /\ Top.kind = "payout"
  /\ \/ Pop /\ UNCHANGED world
     \/ Revert

-----------------------------------------------------------------------------
(* AttestationCenterProxy, AttestationCenter and VennAvsLogic *)

\* submitTask: all the ether goes to the policy's balance.
SubmitTask(t, v) ==
  /\ v <= world.wallets
  /\ world' = [world EXCEPT !.wallets = @ - v, !.pool = @ + v, !.balance[t.policy] = @ + v]
  /\ Push("task", <<t>>, FALSE)

\* submitTasks: the ether stays with the proxy until each task takes its part.
SubmitTasks(tasks, v) ==
  /\ v <= world.wallets
  /\ world' = [world EXCEPT !.wallets = @ - v, !.proxy = @ + v]
  /\ Push("batch", tasks, /\ IsInjective([i \in DOMAIN tasks |-> tasks[i].policy])
                          /\ v >= TotalRequired(world, tasks))

\* AttestationCenter.submitTask without the proxy.
SubmitDirectly(t) ==
  /\ Push("direct", <<t>>, FALSE)
  /\ UNCHANGED world

\* Deviation: the batch pays the whole fee from its ether.
Prepared_WholeFee(w, t) ==
  IF Top.kind = "batch" THEN Deposited(w, t.policy, w.totalFee[t.subnet]) ELSE w

\* The world after submitTasks has topped up the policy's balance.
Prepared(w, t) ==
  IF Top.kind = "batch" THEN Deposited(w, t.policy, Required(w, t)) ELSE w

Affordable ==
  IF Top.kind = "batch" THEN world.proxy >= Required(world, Task)
                        ELSE world.balance[Task.policy] >= world.totalFee[Task.subnet]

\* beforeTaskSubmission claims the fee; afterTaskSubmission calls the policy
\* if the attesters approved the task.
ProcessTask(isApproved) ==
  /\ MoreTasks /\ Affordable
  /\ world.collected + world.withdrawn + world.totalFee[Task.subnet] <= MaxClaimed
  /\ world' = Claimed(Prepared(world, Task), Task)
  /\ IF isApproved THEN frames' = [frames EXCEPT ![Len(frames)].outside = TRUE]
                   ELSE NextTask

\* The fee cannot be paid, or registry or attestation center refuse.
RefuseTask == MoreTasks /\ Revert

\* The call to the policy returns, or reverts and so does the submission.
PolicyEnds ==
  /\ frames # <<>> /\ Top.kind # "payout" /\ Top.outside
  /\ \/ NextTask /\ UNCHANGED world
     \/ Revert

\* submitTasks: whatever ether the proxy has left goes to the rescued fees.
FinishSubmission ==
  /\ Submitting /\ Top.next > Len(Top.tasks)
  /\ Pop
  /\ world' = IF Top.kind = "batch"
              THEN [world EXCEPT !.proxy = 0, !.pool = @ + world.proxy,
                                 !.rescued = @ + world.proxy]
              ELSE world

-----------------------------------------------------------------------------
(* VennFeeCalculator *)

SetTaskDefinitionFee(s, fee) ==
  /\ Outside
  /\ world' = [world EXCEPT !.totalFee[s] = fee]
  /\ frames' = Unquoted

SharesOK(all, given) == SumOver(all, Recipients) < FeeScale

\* The recipients given are set, or removed by share 0; the others stay.
SetTaskDefinitionFeeRecipients(s, given) ==
  LET all == [r \in Recipients |->
                IF r \in DOMAIN given THEN given[r] ELSE world.shares[s][r]]
  IN  /\ Outside
      /\ SharesOK(all, given)
      /\ world' = [world EXCEPT !.shares[s] = all]
      /\ UNCHANGED frames

\* withdrawFee: the bookkeeping of a recipient is reset.
WithdrawFee(r) ==
  /\ Outside
  /\ world' = [world EXCEPT !.handedOn = @ + world.distributed[r], !.distributed[r] = 0]
  /\ UNCHANGED frames

\* calculateFeesPerId: the attestation center is told what the operators of
\* the subnet get (OperatorFees models how it is split).
CalculateFeesPerId(s) ==
  /\ Outside
  /\ world' = [world EXCEPT !.handedOn = @ + world.operatorFees[s], !.operatorFees[s] = 0]
  /\ UNCHANGED frames

-----------------------------------------------------------------------------
Amounts == 0 .. Ether

Submit ==
  \/ \E t \in Tasks : SubmitDirectly(t) \/ \E v \in Amounts : SubmitTask(t, v)
  \/ \E n \in 0 .. MaxBatch, v \in Amounts : \E ts \in [1 .. n -> Tasks] : SubmitTasks(ts, v)
  \/ \E b \in BOOLEAN : ProcessTask(b)
  \/ RefuseTask \/ PolicyEnds \/ FinishSubmission

Pool ==
  \/ \E v \in Amounts \ {0} :
       \/ DepositRescuedFees(v) \/ WithdrawFees(v) \/ WithdrawRescuedFees(v)
       \/ \E p \in Policies : DepositNativeForPolicy(p, v)
  \/ PayoutEnds

Calculator ==
  \/ \E s \in Subnets :
       \/ CalculateFeesPerId(s)
       \/ \E fee \in Fees : SetTaskDefinitionFee(s, fee)
       \/ \E R \in SUBSET Recipients : \E given \in [R -> Shares] :
            SetTaskDefinitionFeeRecipients(s, given)
  \/ \E r \in Recipients : WithdrawFee(r)

Next == Submit \/ Pool \/ Calculator

Spec == Init /\ [][Next]_vars

-----------------------------------------------------------------------------
(* Properties *)

\* Types: no amount ever underflows, and recipients never have all of a fee.
TypeOK ==
  /\ world \in Worlds /\ frames \in Seq(Frames)
  /\ \A s \in Subnets : SumOver(world.shares[s], Recipients) < FeeScale

\* Every fee FeePool collects has been split by VennFeeCalculator, to the last
\* unit, between recipients and operators: the books of the two contracts,
\* which never read each other's, agree.
CollectedIsDistributed ==
  world.collected + world.withdrawn
    = SumOver(world.distributed, Recipients) + SumOver(world.operatorFees, Subnets)
        + world.handedOn

\* The proxy holds ether only while a batch is under way, in any state a
\* revert may go back to as well: nothing of a batch is left for the next.
ProxyHoldsNothingIdle ==
  /\ frames = <<>> => world.proxy = 0
  /\ \A i \in DOMAIN frames :
       (\A j \in 1 .. i - 1 : frames[j].kind # "batch") => frames[i].saved.proxy = 0

\* FeePool owes exactly the ether it holds: to policies, to the fee
\* withdrawers and as rescued fees; whatever batches, policies and recipients
\* do to each other, and whenever one of them reverts.  What it is not sent
\* is not left behind with the proxy either, and no amount underflows.
PoolIsSolvent ==
  /\ TypeOK /\ ProxyHoldsNothingIdle
  /\ world.pool = world.collected + world.rescued + SumOver(world.balance, Policies)

\* Only a policy's own task spends its balance, and no more than the fee; a
\* batch that adds ether has used up what the policy prepaid.  So whoever
\* submits, batches and single tasks in whatever nesting, what was paid for one
\* policy never pays for another, and nobody pays twice.
PrepaidIsProtected ==
  [][ /\ \A p \in Policies :
           world'.balance[p] < world.balance[p] =>
             \/ frames' = Below
             \/ /\ MoreTasks /\ Task.policy = p
                /\ world.balance[p] - world'.balance[p] <= world.totalFee[Task.subnet]
      /\ MoreTasks /\ frames' # Below /\ world'.proxy < world.proxy =>
           world'.balance[Task.policy] = 0 ]_vars

\* A batch that came with the quoted amount, for tasks of different policies
\* (the quote counts a policy's balance once per task), has the ether each of
\* its tasks still requires, unless a policy it calls submits tasks on its own
\* or changes fees: what is deposited or withdrawn meanwhile does not matter.
QuoteSuffices ==
  frames # <<>> /\ Top.quoted /\ MoreTasks => world.proxy >= Required(world, Task)
=============================================================================
