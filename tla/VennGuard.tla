----------------------------- MODULE VennGuard -----------------------------
(***************************************************************************)
(* VennGuard, the transaction guard of a Gnosis Safe: a Safe transaction   *)
(* is a multisend whose first call lets the attestation center approve the *)
(* hash of the rest, or one announced with bypassGuard long enough ago.    *)
(*                                                                         *)
(* An Ethereum transaction is a stack of frames: its sender's code, which  *)
(* may execute several Safe transactions, and Safe transactions under way, *)
(* whose calls may do the same.  Every frame may revert, and its caller    *)
(* may go on.  The owners of the Safe sign whatever is executed or         *)
(* announced; signer and admin may act in any frame.                       *)
(***************************************************************************)
EXTENDS Naturals, Sequences

CONSTANTS
  Batches,      \* what follows the first call of a multisend, by its hash
  SafeTxs,      \* Safe transactions without their nonce
  NoHash, NoTx,
  WaitTime,     \* bypassGuardWaitTime
  MaxTime,      \* bound: block timestamps
  MaxNonce,     \* bound: nonces of the Safe and of the guard
  MaxDepth      \* bound: frames

VARIABLES
  now,          \* block.timestamp
  world,        \* what a revert undoes
  frames        \* the Ethereum transaction under way

vars == <<now, world, frames>>

\* wellFormed: to multisend, the first call to the proxy with no value, and
\* something after it.
ASSUME GuardAssumption ==
  /\ SafeTxs \subseteq [wellFormed : BOOLEAN, batch : Batches]
  /\ NoHash \notin Batches /\ NoTx \notin SafeTxs
  /\ WaitTime \in Nat /\ MaxTime \in Nat \ {0} /\ MaxNonce \in Nat /\ MaxDepth \in Nat

\* The hash of a Safe transaction covers its nonce.
TxHashes == SafeTxs \X (0 .. MaxNonce)

Worlds ==
  [ safeNonce : 0 .. MaxNonce,
    nonce     : 0 .. MaxNonce,
    enabled   : BOOLEAN,
    bypassGuardInitTime : [TxHashes -> 0 .. MaxTime],
    metaTxHash         : Batches \cup {NoHash},   \* transient slot 0
    approvedMetaTxHash : Batches \cup {NoHash},   \* transient slot 1
    \* history: approved in this Ethereum transaction; all approvals in effect
    approvedNow : SUBSET Batches,
    approvals   : Seq([batch : Batches, nonce : 0 .. MaxNonce]) ]

Frames ==
  [ tx         : SafeTxs \cup {NoTx},    \* NoTx: the sender's code
    nonce      : 0 .. MaxNonce,
    phase      : {"body", "after"},
    saved      : Worlds,                 \* on entry
    checked    : Worlds,                 \* after checkTransaction
    \* history: entered with the guard enabled; executed no Safe transaction
    guarded    : BOOLEAN,
    innermost  : BOOLEAN ]

Init ==
  /\ now = 1
  /\ world = [safeNonce |-> 0, nonce |-> 0, enabled |-> TRUE,
              bypassGuardInitTime |-> [h \in TxHashes |-> 0],
              metaTxHash |-> NoHash, approvedMetaTxHash |-> NoHash,
              approvedNow |-> {}, approvals |-> <<>>]
  /\ frames = <<>>

-----------------------------------------------------------------------------
Top == frames[Len(frames)]
Below == SubSeq(frames, 1, Len(frames) - 1)
InCode == frames # <<>> /\ Top.phase = "body"

Frame(tx, n, w) ==
  [tx |-> tx, nonce |-> n, phase |-> "body", saved |-> world, checked |-> w,
   guarded |-> world.enabled, innermost |-> TRUE]

BeginTx ==
  /\ frames = <<>>
  /\ frames' = <<Frame(NoTx, 0, world)>>
  /\ UNCHANGED <<now, world>>

\* Deviation: the slots are ordinary storage.
Cleared_SlotsKept(w) == [w EXCEPT !.approvedNow = {}]

\* Transient storage does not outlive the Ethereum transaction.
Cleared(w) == [w EXCEPT !.metaTxHash = NoHash, !.approvedMetaTxHash = NoHash,
                        !.approvedNow = {}]

EndTx ==
  /\ Len(frames) = 1
  /\ frames' = <<>>
  /\ world' = Cleared(world)
  /\ UNCHANGED now

NextBlock ==
  /\ frames = <<>> /\ now < MaxTime
  /\ now' = now + 1
  /\ UNCHANGED <<world, frames>>

-----------------------------------------------------------------------------
(* VennGuard *)

Bypassed(w, h) ==
  w.bypassGuardInitTime[h] > 0 /\ now > w.bypassGuardInitTime[h] + WaitTime

\* Deviation: the announcement may be repeated.
BypassGuard_Again(tx) ==
  LET h == <<tx, world.safeNonce>> IN
    /\ InCode
    /\ world' = [world EXCEPT !.bypassGuardInitTime[h] = now]
    /\ UNCHANGED <<now, frames>>

\* bypassGuard: for the next nonce of the Safe, once.
BypassGuard(tx) ==
  LET h == <<tx, world.safeNonce>> IN
    /\ InCode
    /\ world.bypassGuardInitTime[h] = 0
    /\ world' = [world EXCEPT !.bypassGuardInitTime[h] = now]
    /\ UNCHANGED <<now, frames>>

\* Deviation: the nonce is not used up.
ApproveMetaTxHash_NonceKept(batch, expiration, n) ==
  /\ InCode /\ Len(world.approvals) < MaxNonce
  /\ n = world.nonce /\ expiration > now
  /\ world' = [world EXCEPT !.approvedMetaTxHash = batch,
                            !.approvedNow = @ \cup {batch},
                            !.approvals = Append(@, [batch |-> batch, nonce |-> n])]
  /\ UNCHANGED <<now, frames>>

\* approveMetaTxHash by the signer, in the first call of a multisend or not.
ApproveMetaTxHash(batch, expiration, n) ==
  /\ InCode /\ n < MaxNonce
  /\ n = world.nonce /\ expiration > now
  /\ world' = [world EXCEPT !.nonce = n + 1, !.approvedMetaTxHash = batch,
                            !.approvedNow = @ \cup {batch},
                            !.approvals = Append(@, [batch |-> batch, nonce |-> n])]
  /\ UNCHANGED <<now, frames>>

SetEnabled(status) ==
  /\ InCode
  /\ world' = [world EXCEPT !.enabled = status]
  /\ UNCHANGED <<now, frames>>

\* checkTransaction accepts the transaction.
Checkable(w, tx, n) == ~w.enabled \/ Bypassed(w, <<tx, n>>) \/ tx.wellFormed

\* What checkTransaction stores.
Checked(w, tx, n) ==
  IF ~w.enabled \/ Bypassed(w, <<tx, n>>) THEN w ELSE [w EXCEPT !.metaTxHash = tx.batch]

\* checkAfterExecution accepts the transaction.
Confirmed(w, tx, n) ==
  \/ ~w.enabled
  \/ Bypassed(w, <<tx, n>>)
  \/ w.metaTxHash # NoHash /\ w.approvedMetaTxHash = w.metaTxHash

-----------------------------------------------------------------------------
(* Safe.execTransaction *)

\* The nonce of the Safe is used up before the guard is asked.
ExecTransaction(tx) ==
  LET n == world.safeNonce
      w == Checked([world EXCEPT !.safeNonce = n + 1], tx, n)
  IN  /\ InCode /\ Len(frames) < MaxDepth /\ n < MaxNonce
      /\ Checkable(world, tx, n)
      /\ world' = w
      /\ frames' = Append([frames EXCEPT ![Len(frames)].innermost = FALSE], Frame(tx, n, w))
      /\ UNCHANGED now

\* The calls of the transaction are done; if they failed they are undone.
CallsEnd(success) ==
  /\ InCode /\ Top.tx # NoTx
  /\ world' = IF success THEN world ELSE Top.checked
  /\ frames' = [frames EXCEPT ![Len(frames)].phase = "after"]
  /\ UNCHANGED now

FinishTransaction ==
  /\ frames # <<>> /\ Top.phase = "after"
  /\ Confirmed(world, Top.tx, Top.nonce)
  /\ frames' = Below
  /\ UNCHANGED <<now, world>>

\* The guard or the Safe refuses, or the sender's code reverts.
RevertFrame ==
  /\ frames # <<>>
  /\ world' = Top.saved
  /\ frames' = Below
  /\ UNCHANGED now

-----------------------------------------------------------------------------
Guard ==
  \/ \E tx \in SafeTxs : BypassGuard(tx)
  \/ \E b \in Batches, e \in 1 .. MaxTime + 1, n \in 0 .. MaxNonce : ApproveMetaTxHash(b, e, n)
  \/ \E s \in BOOLEAN : SetEnabled(s)

Safe ==
  \/ \E tx \in SafeTxs : ExecTransaction(tx)
  \/ \E s \in BOOLEAN : CallsEnd(s)
  \/ FinishTransaction

Next == BeginTx \/ EndTx \/ NextBlock \/ Guard \/ Safe \/ RevertFrame

Spec == Init /\ [][Next]_vars

-----------------------------------------------------------------------------
(* Properties *)

\* Types, those of the worlds that a revert may restore included.
TypeOK ==
  /\ now \in 1 .. MaxTime
  /\ world \in Worlds
  /\ frames \in Seq(Frames)

\* A Safe transaction that is guarded from its first check to its last is
\* executed only if its batch was approved in the same Ethereum transaction,
\* or if it was announced, for the very nonce it uses, more than the waiting
\* time ago: whatever was executed, approved, reverted, announced or switched
\* off and on again before and meanwhile.  Slots 0 and 1 are shared by
\* Safe transactions that run inside each other, so this is said of those
\* that execute none.
ExecutedIfApprovedOrAnnounced ==
  [][FinishTransaction /\ Top.innermost /\ Top.guarded /\ world.enabled =>
       \/ Top.tx.wellFormed /\ Top.tx.batch \in world.approvedNow
       \/ \E t \in 1 .. now : /\ world.bypassGuardInitTime[<<Top.tx, Top.nonce>>] = t
                              /\ now > t + WaitTime]_vars

\* A nonce of the guard approves at most one batch, in the order of the
\* nonces, counting the approvals that were not undone by a revert; and every
\* variable keeps its type, the worlds a revert brings back included.
EachNonceApprovesOnce ==
  /\ TypeOK
  /\ Len(world.approvals) = world.nonce
  /\ \A i \in DOMAIN world.approvals : world.approvals[i].nonce = i - 1

\* An announcement is made for the next nonce of the Safe, so executing any
\* other transaction voids it, and it stands: nobody can make it again and so
\* start the waiting anew, and only a revert in its own Ethereum transaction
\* takes it back.
AnnouncementsStand ==
  [][\A h \in TxHashes :
       LET before == world.bypassGuardInitTime[h]
           after  == world'.bypassGuardInitTime[h]
       IN  after # before =>
             \/ before = 0 /\ after = now /\ h[2] = world.safeNonce
             \/ after = 0 /\ before = now /\ frames # <<>>]_vars
=============================================================================
