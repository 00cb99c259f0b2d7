--------------------------- MODULE ProtectedCalls ---------------------------
(***************************************************************************)
(* Protected calls inside EVM transactions: the firewallProtected modifier *)
(* of VennFirewallConsumerBase, Firewall.preExecution / postExecution and  *)
(* the TransientApprovedCallsPolicy, run by nested call frames each of     *)
(* which may revert.                                                       *)
(*                                                                         *)
(* `world' is everything a revert undoes: the persistent storage of the    *)
(* contracts and their transient storage.  A frame keeps the world it was  *)
(* entered with and gives it back when it reverts.  A transaction is a     *)
(* bottom frame that runs the code of its origin; the origin may make any  *)
(* number of calls, which includes the single call of a plain account.     *)
(*                                                                         *)
(* A loop of the firewall over policies is one step per policy, because    *)
(* every iteration is a call to another contract.  keccak256 is injective, *)
(* so the hash of a call is the call itself; `data' stands for msg.data    *)
(* and the value that the modifier reports.  Policies of other kinds only  *)
(* pass or revert; what else their code might do is left out.              *)
(***************************************************************************)
EXTENDS Naturals, Sequences, FiniteSets, PolicyArrays

CONSTANTS
  Origins,         \* externally owned accounts that start transactions
  Routers,         \* contracts without protection: routers, wallets, AVS logic
  Consumers,       \* firewall consumers
  Methods,         \* method selectors
  Data,            \* call data (and value)
  MethodOf,        \* [Data -> Methods], _extractSelector
  AssemblyReturns, \* methods that may leave by an inline assembly `return'
  CallPolicies,    \* TransientApprovedCallsPolicy instances
  OtherPolicies,   \* other policies of the marketplace, any verdict
  ApprovalLists,   \* the arrays of call hashes anyone may try to approve
  Owner,           \* owner of the firewall
  PolicyAdmin,     \* holder of the policies' ADMIN_ROLE and DEFAULT_ADMIN_ROLE
  SignerKeys,      \* accounts whose SIGNER_ROLE changes, which sign off chain
  AdminOf,         \* [Consumers -> account], IFirewallConsumer.firewallAdmin()
  InitialWorlds,   \* configurations the system may start from
  ZeroHash,        \* an empty transient slot
  NoToken,         \* nothing was consumed at this position
  MaxSlots,        \* bound: longest approved array
  MaxDepth,        \* bound: nested frames, the bottom frame included
  MaxNonce,        \* bound: approvals per policy and origin
  MaxTime,         \* bound: block timestamps
  MaxSigned        \* bound: signed approvals in circulation

VARIABLES
  now,      \* block.timestamp, the same during a transaction
  signed,   \* approvals signed off chain
  world,    \* contract state a revert undoes
  frames    \* the call stack, bottom frame first

vars == <<now, signed, world, frames>>

Accounts == Origins \cup Routers \cup Consumers
Policies == CallPolicies \cup OtherPolicies

\* What getCallHash commits to.
Calls == [consumer : Accounts, sender : Accounts, origin : Origins, data : Data]

\* The consumption of entry `index' of the approval with nonce `nonce'.
Tokens == [policy : CallPolicies, origin : Origins, nonce : Nat,
           index : 1 .. MaxSlots, call : Calls]

Messages == [policy : CallPolicies, signer : Accounts, hashes : ApprovalLists,
             expiration : Nat, origin : Origins, nonce : Nat]

Grants == [hashes : ApprovalLists, nonce : Nat]

Worlds ==
  [ \* TransientApprovedCallsPolicy: persistent, then transient
    nonces      : [CallPolicies -> [Origins -> Nat]],
    signers     : [CallPolicies -> SUBSET Accounts],
    executor    : [CallPolicies -> BOOLEAN],
    clients     : [CallPolicies -> SUBSET Consumers],
    len         : [CallPolicies -> 0 .. MaxSlots],
    slots       : [CallPolicies -> [1 .. MaxSlots -> Calls \cup {ZeroHash}]],
    \* Firewall
    approved    : SUBSET Policies,
    dryrun      : [Consumers -> BOOLEAN],
    byMethod    : [Consumers -> [Methods -> Seq(Policies)]],
    global      : [Consumers -> Seq(Policies)],
    \* VennFirewallConsumerBase: is the firewall slot set
    firewall    : [Consumers -> BOOLEAN],
    \* history: approvals that took effect, tokens consumed
    log         : [CallPolicies -> [Origins -> Seq(Grants)]],
    spent       : SUBSET Tokens ]

Frames ==
  [ call   : Calls,
    saved  : Worlds,                          \* the world at entry
    phase  : {"pre", "body", "post"},
    hooked : BOOLEAN,                         \* the firewall slot at entry
    dry    : BOOLEAN,                         \* dryrun, as last read
    listed : Seq(Policies),                   \* policies, as last copied
    next   : Nat \ {0},                       \* loop position
    paid   : Seq(Tokens \cup {NoToken}) ]     \* history: token per position

ASSUME ConstantsAssumption ==
  /\ SignerKeys \subseteq Accounts
  /\ MethodOf \in [Data -> Methods]
  /\ AssemblyReturns \subseteq Methods
  /\ ApprovalLists \subseteq Seq(Calls)
  /\ MaxSlots \in Nat /\ \A l \in ApprovalLists : Len(l) <= MaxSlots
  /\ MaxDepth \in Nat /\ MaxNonce \in Nat /\ MaxTime \in Nat /\ MaxSigned \in Nat
  /\ CallPolicies \cap OtherPolicies = {}
  /\ NoToken \notin Tokens
  /\ ZeroHash \notin Calls

\* Initially nothing was approved and transient storage is empty.
ASSUME InitialWorldsAssumption ==
  /\ InitialWorlds \subseteq Worlds
  /\ \A w \in InitialWorlds :
       /\ w.nonces = [p \in CallPolicies |-> [o \in Origins |-> 0]]
       /\ w.log = [p \in CallPolicies |-> [o \in Origins |-> <<>>]]
       /\ w.len = [p \in CallPolicies |-> 0]
       /\ w.spent = {}

-----------------------------------------------------------------------------
(* The call stack *)

Top == frames[Len(frames)]
Below == SubSeq(frames, 1, Len(frames) - 1)
TxOrigin == frames[1].call.origin
Self == Top.call.consumer

\* Contract code runs between the hooks; only it makes calls of its own.
InBody == frames # <<>> /\ Top.phase = "body"

\* The code in control, `a', calls into a contract that ends in world w.
CallEndsIn(w) ==
  /\ world' = w
  /\ UNCHANGED <<now, signed, frames>>

SetTop(f) == frames' = [frames EXCEPT ![Len(frames)] = f]

\* EVM revert of the top frame.
RevertTop ==
  /\ world' = Top.saved
  /\ frames' = Below

\* Deviation: approvals in ordinary storage.
Discarded_Persistent(w) == w

\* EIP-1153: transient storage is discarded when the transaction ends.
Discarded(w) ==
  [w EXCEPT !.len = [p \in CallPolicies |-> 0],
            !.slots = [p \in CallPolicies |-> [i \in 1 .. MaxSlots |-> ZeroHash]]]

\* The top frame returns to the one below, or ends the transaction.
ReturnTop ==
  /\ world' = IF Len(frames) = 1 THEN Discarded(world) ELSE world
  /\ frames' = Below

-----------------------------------------------------------------------------
(* TransientApprovedCallsPolicy *)

\* _validateApprovedCalls
ValidApproval(p, hashes, expiration, origin, nonce) ==
  /\ Len(hashes) > 0
  /\ nonce = world.nonces[p][origin]
  /\ expiration > now
  /\ TxOrigin = origin

\* _storeBytes32ArrayAtSlot: slots above the new length keep their contents.
Stored(slots, hashes) ==
  [i \in 1 .. MaxSlots |-> IF i <= Len(hashes) THEN hashes[i] ELSE slots[i]]

\* Deviations: the length counts slot 0 as well; the nonce is not advanced.
Granted_LengthOffByOne(w, p, hashes, origin, nonce) ==
  [w EXCEPT !.len[p] = Len(hashes) + 1,
            !.slots[p] = Stored(@, hashes),
            !.nonces[p][origin] = nonce + 1,
            !.log[p][origin] = Append(@, [hashes |-> hashes, nonce |-> nonce])]

Granted_NonceKept(w, p, hashes, origin, nonce) ==
  [w EXCEPT !.len[p] = Len(hashes),
            !.slots[p] = Stored(@, hashes),
            !.log[p][origin] = Append(@, [hashes |-> hashes, nonce |-> nonce])]

\* What approveCalls and approveCallsViaSignature write.
Granted(w, p, hashes, origin, nonce) ==
  [w EXCEPT !.len[p] = Len(hashes),
            !.slots[p] = Stored(@, hashes),
            !.nonces[p][origin] = nonce + 1,
            !.log[p][origin] = Append(@, [hashes |-> hashes, nonce |-> nonce])]

ApproveCalls(p, hashes, expiration, origin, nonce) ==
  /\ InBody
  /\ Self \in world.signers[p]
  /\ nonce < MaxNonce
  /\ ValidApproval(p, hashes, expiration, origin, nonce)
  /\ CallEndsIn(Granted(world, p, hashes, origin, nonce))

\* Anyone may submit a signed approval; the signer's role is read now.
ApproveCallsViaSignature(m) ==
  /\ InBody
  /\ m.nonce < MaxNonce
  /\ ValidApproval(m.policy, m.hashes, m.expiration, m.origin, m.nonce)
  /\ m.signer \in world.signers[m.policy]
  /\ CallEndsIn(Granted(world, m.policy, m.hashes, m.origin, m.nonce))

\* Deviations: the hash leaves out the sender; entries consumed first to last.
CallAccepted_AnySender(w, p, call) ==
  /\ w.executor[p]
  /\ call.consumer \in w.clients[p]
  /\ w.len[p] > 0
  /\ w.slots[p][w.len[p]].consumer = call.consumer

CallAccepted_FirstEntry(w, p, call) ==
  /\ w.executor[p]
  /\ call.consumer \in w.clients[p]
  /\ w.len[p] > 0
  /\ w.slots[p][1] = call

\* preExecution does not revert.
CallAccepted(w, p, call) ==
  /\ w.executor[p]
  /\ call.consumer \in w.clients[p]
  /\ w.len[p] > 0
  /\ w.slots[p][w.len[p]] = call

\* The approved array is consumed from its end.
TokenOf(w, p, call) ==
  [policy |-> p, origin |-> call.origin, nonce |-> w.nonces[p][call.origin] - 1,
   index |-> w.len[p], call |-> call]

\* Deviation: the length in slot 0 is not written back.
Popped_LengthKept(w, p, call) ==
  [w EXCEPT !.spent = @ \cup {TokenOf(w, p, call)}]

\* _popLatestCallHash
Popped(w, p, call) ==
  [w EXCEPT !.len[p] = @ - 1,
            !.spent = @ \cup {TokenOf(w, p, call)}]

SetExecutorStatus(p, status) ==
  /\ InBody /\ Self = PolicyAdmin
  /\ CallEndsIn([world EXCEPT !.executor[p] = status])

\* A batch of (consumer, status) pairs; a later pair overrides an earlier one.
SetConsumersStatuses(p, cs, approved) ==
  /\ InBody /\ Self = PolicyAdmin
  /\ CallEndsIn([world EXCEPT !.clients[p] = (@ \ cs) \cup (cs \cap approved)])

\* AccessControl.grantRole and revokeRole for SIGNER_ROLE.
SetSigner(p, a, status) ==
  /\ InBody /\ Self = PolicyAdmin
  /\ CallEndsIn([world EXCEPT !.signers[p] = IF status THEN @ \cup {a} ELSE @ \ {a}])

-----------------------------------------------------------------------------
(* Configuration of the firewall, changed by code that runs in the middle  *)
(* of protected calls (FirewallConfig models it in full, with batches).    *)

SetPolicyStatus(policy, status) ==
  /\ InBody /\ Self = Owner
  /\ CallEndsIn([world EXCEPT !.approved =
                   IF status THEN @ \cup {policy} ELSE @ \ {policy}])

SetConsumerDryrunStatus(c, status) ==
  /\ InBody /\ Self = AdminOf[c]
  /\ CallEndsIn([world EXCEPT !.dryrun[c] = status])

AddPolicy(c, m, policy) ==
  /\ InBody /\ Self = AdminOf[c]
  /\ policy \in world.approved
  /\ PolicyNotExists(world.byMethod[c][m], policy)
  /\ CallEndsIn([world EXCEPT !.byMethod[c][m] = Append(@, policy)])

RemovePolicy(c, m, policy) ==
  /\ InBody /\ Self = AdminOf[c]
  /\ PolicyFound(world.byMethod[c][m], policy)
  /\ CallEndsIn([world EXCEPT !.byMethod[c][m] = SwapRemove(@, policy)])

AddGlobalPolicy(c, policy) ==
  /\ InBody /\ Self = AdminOf[c]
  /\ policy \in world.approved
  /\ PolicyNotExists(world.global[c], policy)
  /\ CallEndsIn([world EXCEPT !.global[c] = Append(@, policy)])

RemoveGlobalPolicy(c, policy) ==
  /\ InBody /\ Self = AdminOf[c]
  /\ PolicyFound(world.global[c], policy)
  /\ CallEndsIn([world EXCEPT !.global[c] = SwapRemove(@, policy)])

\* VennFirewallConsumerBase.setFirewall: this firewall, or the zero address.
SetFirewall(c, status) ==
  /\ InBody /\ Self = AdminOf[c]
  /\ CallEndsIn([world EXCEPT !.firewall[c] = status])

-----------------------------------------------------------------------------
(* The firewallProtected modifier and the hooks of the firewall *)

\* preExecution and postExecution copy both arrays to memory, method first.
PolicyList(w, call) ==
  w.byMethod[call.consumer][MethodOf[call.data]] \o w.global[call.consumer]

\* A frame that runs no hooks: an unprotected contract or an origin.
PlainFrame(call) ==
  [call |-> call, saved |-> world, phase |-> "body", hooked |-> FALSE,
   dry |-> FALSE, listed |-> <<>>, next |-> 1, paid |-> <<>>]

\* A protected function reads its firewall slot once, then calls preExecution.
ProtectedFrame(call) ==
  [call |-> call, saved |-> world, phase |-> "pre", hooked |-> TRUE,
   dry |-> world.dryrun[call.consumer], listed |-> PolicyList(world, call),
   next |-> 1, paid |-> <<>>]

BeginTx(o, d) ==
  /\ frames = <<>>
  /\ frames' = <<PlainFrame([consumer |-> o, sender |-> o, origin |-> o, data |-> d])>>
  /\ UNCHANGED <<now, signed, world>>

Call(target, d) ==
  LET call == [consumer |-> target, sender |-> Self, origin |-> TxOrigin, data |-> d]
  IN  /\ InBody
      /\ Len(frames) < MaxDepth
      /\ frames' = Append(frames, IF target \in Consumers /\ world.firewall[target]
                                  THEN ProtectedFrame(call) ELSE PlainFrame(call))
      /\ UNCHANGED <<now, signed, world>>

InHook == frames # <<>> /\ Top.phase \in {"pre", "post"} /\ Top.next <= Len(Top.listed)
Policy == Top.listed[Top.next]

\* The policy consumes an approval: only at preExecution (postExecution is
\* a no-op for it).
PolicyConsumes ==
  /\ InHook /\ Top.phase = "pre" /\ Policy \in CallPolicies
  /\ CallAccepted(world, Policy, Top.call)
  /\ world' = Popped(world, Policy, Top.call)
  /\ SetTop([Top EXCEPT !.next = @ + 1,
                        !.paid = Append(@, TokenOf(world, Policy, Top.call))])
  /\ UNCHANGED <<now, signed>>

\* The loop goes on with nothing consumed.
SkipPolicy ==
  /\ SetTop([Top EXCEPT !.next = @ + 1,
                        !.paid = IF Top.phase = "pre" THEN Append(@, NoToken) ELSE @])
  /\ UNCHANGED <<now, signed, world>>

PolicyPasses ==
  /\ InHook
  /\ Policy \in OtherPolicies \/ Top.phase = "post"
  /\ SkipPolicy

PolicyReverts ==
  /\ InHook
  /\ \/ Policy \in OtherPolicies
     \/ Top.phase = "pre" /\ Policy \in CallPolicies /\ ~CallAccepted(world, Policy, Top.call)
  /\ \/ Top.dry /\ SkipPolicy                   \* try / catch
     \/ ~Top.dry /\ RevertTop /\ UNCHANGED <<now, signed>>

HookEnds ==
  /\ frames # <<>> /\ Top.phase \in {"pre", "post"} /\ Top.next > Len(Top.listed)
  /\ \/ /\ Top.phase = "pre"
        /\ SetTop([Top EXCEPT !.phase = "body"])
        /\ UNCHANGED world
     \/ Top.phase = "post" /\ ReturnTop
  /\ UNCHANGED <<now, signed>>

\* Deviation: the firewall slot is read again after the body.
BodyReturns_FirewallReread ==
  /\ InBody
  /\ \/ /\ Self \in Consumers /\ world.firewall[Self]
        /\ SetTop([Top EXCEPT !.phase = "post", !.next = 1,
                              !.dry = world.dryrun[Self],
                              !.listed = PolicyList(world, Top.call)])
        /\ UNCHANGED world
     \/ ~(Self \in Consumers /\ world.firewall[Self]) /\ ReturnTop
  /\ UNCHANGED <<now, signed>>

\* The body ends normally.  postExecution is called on the firewall that the
\* modifier read at entry, and reads the arrays and the dryrun flag again.
BodyReturns ==
  /\ InBody
  /\ \/ /\ Top.hooked
        /\ SetTop([Top EXCEPT !.phase = "post", !.next = 1,
                              !.dry = world.dryrun[Self],
                              !.listed = PolicyList(world, Top.call)])
        /\ UNCHANGED world
     \/ ~Top.hooked /\ ReturnTop
  /\ UNCHANGED <<now, signed>>

\* The body ends the call itself, by an inline assembly `return': what the
\* modifier would do after it does not happen (NOTE of firewallProtected).
BodyExits ==
  /\ InBody
  /\ MethodOf[Top.call.data] \in AssemblyReturns
  /\ ReturnTop
  /\ UNCHANGED <<now, signed>>

\* The body reverts; the frame below may catch it and go on.
BodyReverts ==
  /\ InBody
  /\ RevertTop
  /\ UNCHANGED <<now, signed>>

-----------------------------------------------------------------------------
(* Off chain *)

\* Any account may sign any approval.
Sign(m) ==
  /\ Cardinality(signed \cup {m}) <= MaxSigned
  /\ signed' = signed \cup {m}
  /\ UNCHANGED <<now, world, frames>>

Tick ==
  /\ frames = <<>>
  /\ now < MaxTime
  /\ now' = now + 1
  /\ UNCHANGED <<signed, world, frames>>

-----------------------------------------------------------------------------
Init ==
  /\ now = 0
  /\ signed = {}
  /\ world \in InitialWorlds
  /\ frames = <<>>

Transaction ==
  \/ \E o \in Origins, d \in Data : BeginTx(o, d)
  \/ \E t \in Routers \cup Consumers, d \in Data : Call(t, d)
  \/ PolicyConsumes \/ PolicyPasses \/ PolicyReverts \/ HookEnds
  \/ BodyReturns \/ BodyExits \/ BodyReverts

Approve ==
  \/ \E p \in CallPolicies, l \in ApprovalLists, e \in 0 .. MaxTime + 1,
        o \in Origins, n \in 0 .. MaxNonce : ApproveCalls(p, l, e, o, n)
  \/ \E m \in signed : ApproveCallsViaSignature(m)

Configure ==
  \/ \E p \in CallPolicies, b \in BOOLEAN : SetExecutorStatus(p, b)
  \/ \E p \in CallPolicies, cs \in SUBSET Consumers :
       \E as \in SUBSET cs : SetConsumersStatuses(p, cs, as)
  \/ \E p \in CallPolicies, a \in SignerKeys, b \in BOOLEAN : SetSigner(p, a, b)
  \/ \E p \in Policies, b \in BOOLEAN : SetPolicyStatus(p, b)
  \/ \E c \in Consumers, b \in BOOLEAN :
       SetConsumerDryrunStatus(c, b) \/ SetFirewall(c, b)
  \/ \E c \in Consumers, m \in Methods, p \in Policies :
       AddPolicy(c, m, p) \/ RemovePolicy(c, m, p)
  \/ \E c \in Consumers, p \in Policies :
       AddGlobalPolicy(c, p) \/ RemoveGlobalPolicy(c, p)

OffChain ==
  \/ \E p \in CallPolicies, a \in SignerKeys, l \in ApprovalLists, e \in 0 .. MaxTime + 1,
        o \in Origins, n \in 0 .. MaxNonce :
       Sign([policy |-> p, signer |-> a, hashes |-> l, expiration |-> e,
             origin |-> o, nonce |-> n])
  \/ Tick

Next == Transaction \/ Approve \/ Configure \/ OffChain

Spec == Init /\ [][Next]_vars

-----------------------------------------------------------------------------
(* Properties *)

\* Types, those of the worlds that a revert may restore included.
TypeOK ==
  /\ now \in 0 .. MaxTime
  /\ signed \in SUBSET Messages
  /\ world \in Worlds
  /\ frames \in Seq(Frames)

\* The approval a token was taken from.
GrantOf(w, t) == w.log[t.policy][t.origin][t.nonce + 1]

\* While the body of a protected function runs under an enforced firewall,
\* every approved-calls policy the firewall listed for it has consumed, for
\* that very call, the entry of an approval that took effect and was not
\* rolled back (firewallProtected, preExecution of firewall and policy).
RunningCallsAreApproved ==
  \A i \in DOMAIN frames :
    LET f == frames[i] IN
    f.hooked /\ f.phase = "body" /\ ~f.dry =>
      \A k \in DOMAIN f.listed :
        f.listed[k] \in CallPolicies =>
          LET t == f.paid[k] IN
          /\ t \in world.spent
          /\ t.policy = f.listed[k]
          /\ t.nonce < Len(world.log[t.policy][t.origin])
          /\ t.index \in DOMAIN GrantOf(world, t).hashes
          /\ GrantOf(world, t).hashes[t.index] = f.call

\* No entry of an approval serves two calls of the call stack, nor twice for
\* one call whose policy is listed both per method and globally: each has a
\* token of its own, although frames in between may have reverted.
EachCallHasItsOwnApproval ==
  \A i, j \in DOMAIN frames :
    \A k \in DOMAIN frames[i].paid, l \in DOMAIN frames[j].paid :
      /\ <<i, k>> # <<j, l>>
      /\ frames[i].paid[k] # NoToken
      => frames[i].paid[k] # frames[j].paid[l]

\* An entry once consumed is never consumed again, within the transaction or
\* in a later one, unless the consumption itself was rolled back.
SpentOnce ==
  [][PolicyConsumes => TokenOf(world, Policy, Top.call) \notin world.spent]_vars

\* The effects of a protected call outlive it only if its post hooks ran to
\* the last listed policy, on the firewall its modifier read at entry: setting
\* the firewall to zero in the middle of the call does not let it return early.
\* Functions that may leave by an inline assembly `return' are excepted: the
\* NOTE of firewallProtected warns that their post hooks do not run then.
EffectsPassPostHooks ==
  [][/\ frames # <<>> /\ Top.hooked /\ Len(frames') < Len(frames)
     /\ MethodOf[Top.call.data] \notin AssemblyReturns
     => \/ Top.phase = "post" /\ Top.next > Len(Top.listed)
        \/ world' = Top.saved]_vars

\* Policies with an approval made in the running transaction, in world w.
Live(w) ==
  {p \in CallPolicies : /\ frames # <<>>
                        /\ w.nonces[p][TxOrigin] > frames[1].saved.nonces[p][TxOrigin]}

\* An approval is consumed from its last entry to its first without gaps and
\* without entries of an earlier approval: the entries consumed are exactly
\* those above the length in slot 0, and once it is replaced or discarded
\* nothing is left to consume.  It holds of the current state and of every
\* state a revert may go back to.
ConsumedInOrder ==
  \A w \in {world} \cup {frames[i].saved : i \in DOMAIN frames} :
    \A p \in CallPolicies :
      IF p \in Live(w)
      THEN LET n == w.nonces[p][TxOrigin] IN
           {t.index : t \in {s \in w.spent :
                              s.policy = p /\ s.origin = TxOrigin /\ s.nonce = n - 1}}
             = w.len[p] + 1 .. Len(w.log[p][TxOrigin][n].hashes)
      ELSE w.len[p] = 0

\* No approval takes effect twice: the approvals in force of one origin have
\* distinct nonces, however transactions and frames revert in between.
ApprovalsNotReplayed ==
  \A p \in CallPolicies, o \in Origins :
    \A i, j \in DOMAIN world.log[p][o] :
      i # j => world.log[p][o][i].nonce # world.log[p][o][j].nonce
-----------------------------------------------------------------------------
(* Refinement: the slots, hooks and frames implement CallTickets *)

IssuedIn(w) ==
  [p \in CallPolicies |-> [o \in Origins |->
     [n \in 1 .. Len(w.log[p][o]) |-> w.log[p][o][n].hashes]]]

Tickets ==
  INSTANCE CallTickets WITH
    Policies <- CallPolicies,
    Lists    <- ApprovalLists,
    NoOrigin <- NoToken,
    issued   <- IssuedIn(world),
    used     <- world.spent,
    live     <- Live(world),
    origin   <- IF frames = <<>> THEN NoToken ELSE TxOrigin,
    stack    <- [i \in 1 .. Len(frames) |->
                   [issued |-> IssuedIn(frames[i].saved),
                    used   |-> frames[i].saved.spent,
                    live   |-> Live(frames[i].saved)]]

\* Firewall, consumers and policy together keep the promise of CallTickets.
ImplementsTickets == Tickets!Spec
=============================================================================
