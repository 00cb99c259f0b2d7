------------------------------ MODULE SafeCall ------------------------------
(***************************************************************************)
(* How a user gets through the firewall in one call: safeFunctionCall of   *)
(* VennFirewallConsumerBase pays a fee to the AttestationCenterProxy, with *)
(* which a task is submitted that approves the user's call, and then runs  *)
(* that call, whose hooks are told the value that was sent less the fee.   *)
(*                                                                         *)
(* The task is accepted by what Subnets keeps.  Whoever gets control on    *)
(* the way may call the consumer again.  `world' is what a revert undoes,  *)
(* and every frame keeps the world it was entered with.  One consumer is   *)
(* modelled, enforced, with one approved-calls policy.  Registries and     *)
(* settings change between transactions.                                   *)
(***************************************************************************)
EXTENDS Subnets, Integers, SequencesExt

CONSTANTS
  Accounts,    \* code that may get control: users, wallets, policies
  Nobody,      \* address(0)
  Policy,      \* the consumer's policy, whose signer is VennAvsLogic
  Values,      \* values sent
  Fees,        \* fees that are given as _userNativeFee
  Approvals,   \* lists of calls that operators approve, [sender, value]
  MaxDepth, MaxTxs, MaxSafeCalls   \* bounds

ASSUME SafeCallAssumption ==
  /\ Policy \in Policies /\ Nobody \notin Accounts
  /\ Values \subseteq Nat /\ Fees \subseteq Nat
  /\ Approvals \subseteq Seq([sender : Accounts, value : Nat])
  /\ MaxDepth \in Nat /\ MaxTxs \in Nat /\ MaxSafeCalls \in Nat

VARIABLES
  world,   \* the consumer, and the policy's transient stack
  frames,  \* the call stack
  txs      \* transactions so far

callVars == <<world, frames, txs>>
registryVars == vars

NoFlags == [active |-> FALSE, caller |-> Nobody, fee |-> 0]

(* safeCalls is history: the safeFunctionCalls of this transaction.        *)
Deployed == [ attestationCenterProxy |-> FALSE, allowNonZeroUserNativeFee |-> FALSE,
              flags |-> NoFlags, approved |-> <<>>, safeCalls |-> 0 ]

SafeCallInit == Init /\ world = Deployed /\ frames = <<>> /\ txs = 0

-----------------------------------------------------------------------------
(* The call stack.  A "code" frame runs unknown code of `sender'; a "body" *)
(* runs a function of the consumer for its caller; a "safe" frame is a     *)
(* safeFunctionCall.                                                       *)

Frame(kind, sender, value) ==
  [ kind |-> kind, sender |-> sender, value |-> value, saved |-> world,
    stage |-> "running", fee |-> 0, number |-> 0,
    told |-> value, latest |-> 0, entry |-> <<>> ]

Top == frames[Len(frames)]
Below == Front(frames)
In(kind) == frames # <<>> /\ Top.kind = kind
At(stage) == In("safe") /\ Top.stage = stage

Push(f) == Len(frames) < MaxDepth /\ frames' = Append(frames, f)
Stage(stage) == frames' = [frames EXCEPT ![Len(frames)].stage = stage]

(* Deviation: approvals in ordinary storage.                               *)
Discarded_Persistent(w) == [w EXCEPT !.flags = NoFlags, !.safeCalls = 0]

(* A transaction ends, and with it what is in transient storage.           *)
Discarded(w) == [w EXCEPT !.flags = NoFlags, !.approved = <<>>, !.safeCalls = 0]

(* A caller that is a safeFunctionCall in its last call is through with it. *)
Returned(fs) ==
  IF fs # <<>> /\ Last(fs).kind = "safe" /\ Last(fs).stage = "data"
  THEN [fs EXCEPT ![Len(fs)].stage = "called"] ELSE fs

(* A safeFunctionCall reverts when what it called did.                     *)
Failed(fs) ==
  IF fs # <<>> /\ Last(fs).kind = "safe" THEN [fs EXCEPT ![Len(fs)].stage = "failed"]
  ELSE fs

BeginTx(a) ==
  /\ frames = <<>> /\ txs < MaxTxs
  /\ frames' = <<Frame("code", a, 0)>> /\ txs' = txs + 1
  /\ UNCHANGED world

Return ==
  /\ In("code") \/ In("body")
  /\ frames' = Returned(Below)
  /\ world' = IF Len(frames) = 1 THEN Discarded(world) ELSE world
  /\ UNCHANGED txs

Revert ==
  /\ frames # <<>>
  /\ frames' = Failed(Below)
  /\ world' = Top.saved
  /\ UNCHANGED txs

-----------------------------------------------------------------------------
(* VennFirewallConsumerBase                                                *)

(* What the callers of the consumer are told of the value: less the fee    *)
(* while their safeFunctionCall runs.  It reverts if there is not as much. *)
OwnFlags(sender) == world.flags.active /\ sender = world.flags.caller

_msgValue(sender, value) ==
  {v \in {IF OwnFlags(sender) THEN value - world.flags.fee ELSE value} : v >= 0}

(* TransientApprovedCallsPolicy.preExecution pops the entry of the call.   *)
Pops(sender, value) ==
  /\ world.approved # <<>>
  /\ Last(world.approved).sender = sender /\ Last(world.approved).value = value
  /\ world' = [world EXCEPT !.approved = Front(@)]

(* firewallProtected                                                       *)
ProtectedCall(sender, value) ==
  \E told \in _msgValue(sender, value) :
    /\ Pops(sender, told)
    /\ Push([Frame("body", sender, value) EXCEPT
               !.told = told, !.latest = world.safeCalls, !.entry = Last(world.approved)])
    /\ UNCHANGED txs

(* A function that is not protected, as a multicall may be.                *)
PlainCall(sender, value) ==
  Push(Frame("body", sender, value)) /\ UNCHANGED <<world, txs>>

(* The checks and _initSafeFunctionCallFlags.  Without a proxy nobody is    *)
(* called in between.                                                      *)
safeFunctionCall(sender, value, fee) ==
  /\ world.safeCalls < MaxSafeCalls
  /\ value >= fee
  /\ fee > 0 => world.allowNonZeroUserNativeFee /\ world.attestationCenterProxy
  /\ world' = [world EXCEPT
       !.safeCalls = @ + 1,
       !.flags = [active |-> TRUE, caller |-> sender, fee |-> fee]]
  /\ Push([Frame("safe", sender, value) EXCEPT
             !.stage = IF world.attestationCenterProxy THEN "proxy" ELSE "data",
             !.fee = fee, !.number = world.safeCalls + 1])
  /\ UNCHANGED txs

(* The call of the proxy returns.                                          *)
ProxyReturns == At("proxy") /\ Stage("data") /\ UNCHANGED <<world, txs>>

(* Deviation: the flags stay.                                              *)
_deInitSafeFunctionCallFlags_Kept(w) == w

_deInitSafeFunctionCallFlags(w) == [w EXCEPT !.flags = NoFlags]

SafeFunctionReturns ==
  /\ At("called")
  /\ world' = _deInitSafeFunctionCallFlags(world)
  /\ frames' = Returned(Below)
  /\ UNCHANGED txs

(* functionDelegateCall in safeFunctionCall, or in a multicall: the sender *)
(* and the value are those of the caller.                                  *)
Delegates == At("data") \/ In("body")

Calls(sender, value) ==
  \/ ProtectedCall(sender, value)
  \/ PlainCall(sender, value)
  \/ \E fee \in Fees : safeFunctionCall(sender, value, fee)

CallConsumer ==
  \/ In("code") /\ \E value \in Values : Calls(Top.sender, value)
  \/ Delegates /\ Calls(Top.sender, Top.value)

(* The admin's settings, in transactions of their own.                     *)
setAttestationCenterProxy(set) ==
  /\ frames = <<>> /\ world' = [world EXCEPT !.attestationCenterProxy = set]
  /\ UNCHANGED <<frames, txs>>

setAllowNonZeroUserNativeFee(allow) ==
  /\ frames = <<>> /\ world' = [world EXCEPT !.allowNonZeroUserNativeFee = allow]
  /\ UNCHANGED <<frames, txs>>

-----------------------------------------------------------------------------
(* The way through proxy, attestation center and VennAvsLogic.             *)

MaySubmit == In("code") \/ At("proxy")

(* A task for the consumer's policy: its attesters are accepted, and it    *)
(* approves a list, which replaces the one before.                         *)
HaveAttested(s, attesters) == Range(required[Policy][s]) \subseteq Range(attesters)

Accepted(s) == {a \in IdArrays : TaskAccepted(Policy, s, a)}

SubmitTask(s) ==
  /\ MaySubmit
  /\ \E attested \in {HaveAttested(s, a) : a \in Accepted(s)}, list \in Approvals :
       world' = [world EXCEPT !.approved =
         [i \in DOMAIN list |->
            [sender |-> list[i].sender, value |-> list[i].value, tx |-> txs, attested |-> attested]]]
  /\ UNCHANGED <<frames, txs>>

(* Other code is called: by the code in control, by the function of the    *)
(* consumer, or as the policy of a task that was submitted.                *)
CallCode(a) ==
  /\ MaySubmit \/ In("body")
  /\ Push(Frame("code", a, 0))
  /\ UNCHANGED <<world, txs>>

CallNext ==
  \/ Return \/ Revert \/ ProxyReturns \/ SafeFunctionReturns \/ CallConsumer
  \/ \E a \in Accounts : BeginTx(a) \/ CallCode(a)
  \/ \E b \in BOOLEAN : setAttestationCenterProxy(b) \/ setAllowNonZeroUserNativeFee(b)
  \/ \E s \in TaskDefinitions : SubmitTask(s)

SafeCallNext ==
  \/ CallNext /\ UNCHANGED registryVars
  \/ Next /\ frames = <<>> /\ UNCHANGED callVars

SafeCallSpec == SafeCallInit /\ [][SafeCallNext]_<<vars, callVars>>

-----------------------------------------------------------------------------

(* Types.                                                                  *)
Entries == [sender : Accounts, value : Nat, tx : 0 .. MaxTxs, attested : BOOLEAN]

Worlds ==
  [ attestationCenterProxy : BOOLEAN, allowNonZeroUserNativeFee : BOOLEAN,
    flags : [active : BOOLEAN, caller : Accounts \cup {Nobody}, fee : Nat],
    approved : Seq(Entries), safeCalls : 0 .. MaxSafeCalls ]

Frames ==
  [ kind : {"code", "body", "safe"}, sender : Accounts, value : Nat, saved : Worlds,
    stage : {"running", "proxy", "data", "called", "failed"}, fee : Nat,
    number : 0 .. MaxSafeCalls, told : Nat, latest : 0 .. MaxSafeCalls,
    entry : Entries \cup {<<>>} ]

CallTypeOK == world \in Worlds /\ frames \in Seq(Frames) /\ txs \in 0 .. MaxTxs

Protected(f) == f.kind = "body" /\ f.entry # <<>>

(* The whole way: a protected function runs for a sender, and with the     *)
(* value its hooks were told, only if a task submitted in the same         *)
(* transaction approved that, which every operator the policy requires     *)
(* attested.                                                               *)
BodiesAreVetted ==
  /\ CallTypeOK
  /\ \A i \in DOMAIN frames : Protected(frames[i]) =>
       LET f == frames[i]
       IN /\ f.entry.sender = f.sender /\ f.entry.value = f.told
          /\ f.entry.tx = txs /\ f.entry.attested

(* What hooks are told, exactly, however calls are nested or fail.  The     *)
(* last safeFunctionCall begun and not rolled back takes its fee off, while *)
(* it runs, from every protected call of its own sender: from the call it   *)
(* makes, from each call of a multicall, and from those the sender makes    *)
(* while the proxy runs, although the fee was paid once.  Everyone else's   *)
(* hooks are told what was sent; so are, once an inner safeFunctionCall has *)
(* returned and cleared the flags, those of the call the outer one makes.   *)
ToldLessLatestFee ==
  \A i \in DOMAIN frames : Protected(frames[i]) =>
    LET f == frames[i]
        latest == {j \in 1 .. i - 1 : /\ frames[j].kind = "safe"
                                      /\ frames[j].number = f.latest
                                      /\ frames[j].sender = f.sender}
    IN IF latest = {} THEN f.told = f.value
       ELSE \A j \in latest : f.told = f.value - frames[j].fee
=============================================================================
