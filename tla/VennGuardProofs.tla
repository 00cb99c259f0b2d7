-------------------------- MODULE VennGuardProofs --------------------------
(***************************************************************************)
(* Theorems about VennGuard, for every set of Safe transactions, waiting   *)
(* time and bound.                                                         *)
(***************************************************************************)
EXTENDS VennGuard, SequenceTheorems, TLAPS

(* The inductive invariant: what holds of the world and of every world a   *)
(* revert may go back to, and what the first check leaves for the last.    *)

WorldOK(w) ==
  /\ w.approvedMetaTxHash \in w.approvedNow \cup {NoHash}
  /\ Len(w.approvals) = w.nonce
  /\ \A i \in DOMAIN w.approvals : w.approvals[i].nonce = i - 1

\* checkTransaction let frame f in, and nothing has overwritten slot 0 since.
Admitted(f, w) ==
  f.tx # NoTx /\ f.innermost /\ f.guarded =>
    \/ Bypassed(w, <<f.tx, f.nonce>>)
    \/ f.tx.wellFormed /\ w.metaTxHash = f.tx.batch

FrameOK(f) == WorldOK(f.saved) /\ WorldOK(f.checked) /\ (f.tx = NoTx => f.phase = "body")

IInv ==
  /\ TypeOK
  /\ WorldOK(world)
  /\ \A i \in DOMAIN frames : FrameOK(frames[i])
  /\ \A i \in 1 .. Len(frames) - 1 : ~frames[i].innermost
  /\ frames # <<>> => Admitted(Top, world) /\ Admitted(Top, Top.checked)

-----------------------------------------------------------------------------
(* Types *)

\* The fields of a world have the types declared for them.
LEMMA WorldTypes ==
  ASSUME NEW w \in Worlds
  PROVE  /\ w.safeNonce \in 0 .. MaxNonce /\ w.nonce \in 0 .. MaxNonce
         /\ w.enabled \in BOOLEAN
         /\ w.bypassGuardInitTime \in [TxHashes -> 0 .. MaxTime]
         /\ w.metaTxHash \in Batches \cup {NoHash}
         /\ w.approvedMetaTxHash \in Batches \cup {NoHash}
         /\ w.approvedNow \in SUBSET Batches
         /\ w.approvals \in Seq([batch : Batches, nonce : 0 .. MaxNonce])
BY DEF Worlds

\* The stack of an Ethereum transaction under way has a last frame.
LEMMA StackTypes ==
  ASSUME TypeOK, frames # <<>>
  PROVE  /\ Len(frames) \in Nat \ {0} /\ DOMAIN frames = 1 .. Len(frames)
         /\ Top \in Frames
         /\ Top.tx \in SafeTxs \cup {NoTx} /\ Top.nonce \in 0 .. MaxNonce
         /\ Top.phase \in {"body", "after"}
         /\ Top.saved \in Worlds /\ Top.checked \in Worlds
         /\ Top.guarded \in BOOLEAN /\ Top.innermost \in BOOLEAN
<1>1. frames \in Seq(Frames)
  BY DEF TypeOK
<1>2. Len(frames) \in Nat \ {0} /\ DOMAIN frames = 1 .. Len(frames)
  BY <1>1
<1>3. Top \in Frames
  BY <1>1, <1>2 DEF Top
<1> QED BY <1>2, <1>3 DEF Frames

\* Returning to the frame below keeps the invariant if the world is sound:
\* that frame has executed a Safe transaction, so nothing is said of slot 0.
LEMMA PopStep ==
  ASSUME IInv, frames # <<>>, frames' = Below, world' \in Worlds, WorldOK(world'), now' = now
  PROVE  IInv'
<1>1. /\ frames \in Seq(Frames) /\ Len(frames) \in Nat \ {0}
      /\ DOMAIN frames = 1 .. Len(frames)
  BY StackTypes DEF IInv, TypeOK
<1>2. /\ frames' \in Seq(Frames) /\ Len(frames') = Len(frames) - 1
      /\ \A i \in 1 .. Len(frames) - 1 : frames'[i] = frames[i]
  <2>1. frames' = SubSeq(frames, 1, Len(frames) - 1)
    BY DEF Below
  <2>2. frames' \in Seq(Frames) /\ Len(frames') = Len(frames) - 1
    <3>1. \A i \in 1 .. Len(frames) - 1 : frames[i] \in Frames
      BY <1>1
    <3> QED BY <1>1, <2>1, <3>1, SubSeqProperties
  <2>3. \A i \in 1 .. Len(frames) - 1 : frames'[i] = frames[i]
    BY <1>1, <2>1
  <2> QED BY <2>2, <2>3
<1>3. TypeOK'
  BY <1>2 DEF IInv, TypeOK
<1>4. \A i \in DOMAIN frames' : FrameOK(frames'[i]) /\ ~frames'[i].innermost
  BY <1>1, <1>2 DEF IInv
<1>5. frames' # <<>> => ~Top'.innermost
  BY <1>1, <1>2, <1>4 DEF Top
<1> QED
  BY <1>1, <1>2, <1>3, <1>4, <1>5 DEF IInv, Admitted, FrameOK, WorldOK

\* A step of the code in control that leaves the stack alone.
LEMMA WorldStep ==
  ASSUME IInv, frames # <<>>, UNCHANGED <<now, frames>>, world' \in Worlds, WorldOK(world'),
         Admitted(Top, world) => Admitted(Top, world')
  PROVE  IInv'
<1>1. TypeOK'
  BY DEF IInv, TypeOK
<1>2. Top' = Top
  BY DEF Top
<1>3. \A i \in DOMAIN frames' : FrameOK(frames'[i])
  BY DEF IInv
<1>4. Admitted(Top, world') /\ Admitted(Top, Top.checked)
  BY DEF IInv
<1>5. Admitted(Top, world)' /\ Admitted(Top, Top.checked)'
  BY <1>2, <1>4 DEF Admitted, Bypassed
<1> QED
  BY <1>1, <1>3, <1>5 DEF IInv, WorldOK

-----------------------------------------------------------------------------
(* Every step keeps the invariant *)

\* The initial world is sound and no transaction is under way.
LEMMA InitIInv ==
  ASSUME Init
  PROVE  IInv
<1>1. [h \in TxHashes |-> 0] \in [TxHashes -> 0 .. MaxTime]
  BY GuardAssumption
<1>2. world \in Worlds
  BY <1>1, GuardAssumption DEF Init, Worlds
<1>3. frames \in Seq(Frames) /\ DOMAIN frames = {} /\ now \in 1 .. MaxTime
  BY GuardAssumption DEF Init
<1>4. WorldOK(world)
  BY DEF Init, WorldOK
<1> QED BY <1>2, <1>3, <1>4 DEF IInv, TypeOK, Init

\* The sender's code takes control.
LEMMA BeginStep ==
  ASSUME IInv, BeginTx
  PROVE  IInv'
<1> DEFINE f == Frame(NoTx, 0, world)
<1>1. world \in Worlds /\ world.enabled \in BOOLEAN
  BY WorldTypes DEF IInv, TypeOK
<1>2. f \in Frames
  BY <1>1, GuardAssumption DEF Frame, Frames
<1>3. /\ frames' = <<f>> /\ UNCHANGED <<now, world>>
      /\ Len(frames') = 1 /\ DOMAIN frames' = {1} /\ frames'[1] = f
  BY DEF BeginTx
<1>4. TypeOK'
  BY <1>2, <1>3 DEF IInv, TypeOK
<1>5. FrameOK(f) /\ WorldOK(world')
  BY <1>3 DEF IInv, FrameOK, Frame
<1>6. Top' = f
  BY <1>3 DEF Top
<1>7. f.tx = NoTx
  BY DEF Frame
<1> QED
  BY <1>3, <1>4, <1>5, <1>6, <1>7 DEF IInv, FrameOK, WorldOK, Admitted

\* Transient storage is cleared with the stack.
LEMMA EndStep ==
  ASSUME IInv, EndTx
  PROVE  IInv'
<1>1. world \in Worlds
  BY DEF IInv, TypeOK
<1>2. world' \in Worlds
  BY <1>1 DEF EndTx, Cleared, Worlds
<1>3. WorldOK(world')
  BY <1>1, WorldTypes DEF EndTx, Cleared, WorldOK, IInv, Worlds
<1>4. frames' = <<>> /\ now' = now
  BY DEF EndTx
<1> QED
  BY <1>2, <1>3, <1>4 DEF IInv, TypeOK, WorldOK

\* Time passes between Ethereum transactions only.
LEMMA BlockStep ==
  ASSUME IInv, NextBlock
  PROVE  IInv'
<1>1. now' \in 1 .. MaxTime
  BY GuardAssumption DEF IInv, TypeOK, NextBlock
<1> QED
  BY <1>1 DEF IInv, TypeOK, NextBlock, WorldOK

\* An announcement starts the waiting for another hash than that of an
\* announced transaction already under way.
LEMMA BypassGuardStep ==
  ASSUME IInv, NEW tx \in SafeTxs, BypassGuard(tx)
  PROVE  IInv'
<1> DEFINE h == <<tx, world.safeNonce>>
<1>1. world \in Worlds /\ now \in 1 .. MaxTime /\ frames # <<>> /\ UNCHANGED <<now, frames>>
  BY DEF IInv, TypeOK, BypassGuard, InCode
<1>2. h \in TxHashes
  BY <1>1, WorldTypes DEF TxHashes
<1>3. /\ world.bypassGuardInitTime[h] = 0
      /\ world' = [world EXCEPT !.bypassGuardInitTime =
                     [world.bypassGuardInitTime EXCEPT ![h] = now]]
  BY DEF BypassGuard
<1>4. [world.bypassGuardInitTime EXCEPT ![h] = now] \in [TxHashes -> 0 .. MaxTime]
  BY <1>1, <1>2, WorldTypes
<1>5. world' \in Worlds
  BY <1>1, <1>3, <1>4 DEF Worlds
<1>6. WorldOK(world')
  BY <1>1, <1>3 DEF WorldOK, IInv, Worlds
<1>7. Admitted(Top, world) => Admitted(Top, world')
  <2>1. world'.metaTxHash = world.metaTxHash
    BY <1>1, <1>3 DEF Worlds
  <2>2. ASSUME NEW g \in TxHashes, world.bypassGuardInitTime[g] > 0
        PROVE  world'.bypassGuardInitTime[g] = world.bypassGuardInitTime[g]
    <3>1. g # h
      BY <1>3, <2>2
    <3>2. world.bypassGuardInitTime \in [TxHashes -> 0 .. MaxTime]
      BY <1>1, WorldTypes
    <3>3. world'.bypassGuardInitTime = [world.bypassGuardInitTime EXCEPT ![h] = now]
      BY <1>1, <1>3 DEF Worlds
    <3> QED BY <2>2, <3>1, <3>2, <3>3
  <2>3. Top.tx # NoTx => <<Top.tx, Top.nonce>> \in TxHashes
    BY <1>1, StackTypes DEF TxHashes, IInv
  <2> QED BY <2>1, <2>2, <2>3 DEF Admitted, Bypassed
<1> QED BY <1>1, <1>5, <1>6, <1>7, WorldStep

\* An approval uses up the nonce it was made for.
LEMMA ApproveStep ==
  ASSUME IInv, NEW b \in Batches, NEW e, NEW n \in 0 .. MaxNonce, ApproveMetaTxHash(b, e, n)
  PROVE  IInv'
<1> DEFINE a == [batch |-> b, nonce |-> n]
<1>1. world \in Worlds /\ frames # <<>> /\ UNCHANGED <<now, frames>>
  BY DEF IInv, TypeOK, ApproveMetaTxHash, InCode
<1>2. /\ n = world.nonce /\ n < MaxNonce
      /\ world' = [world EXCEPT !.nonce = n + 1, !.approvedMetaTxHash = b,
                                !.approvedNow = world.approvedNow \cup {b},
                                !.approvals = Append(world.approvals, a)]
  BY DEF ApproveMetaTxHash
<1>3. Append(world.approvals, a) \in Seq([batch : Batches, nonce : 0 .. MaxNonce])
  <2>1. a \in [batch : Batches, nonce : 0 .. MaxNonce]
    OBVIOUS
  <2>2. world.approvals \in Seq([batch : Batches, nonce : 0 .. MaxNonce])
    BY <1>1, WorldTypes
  <2> QED BY <2>1, <2>2, AppendProperties
<1>4. world' \in Worlds
  <2>1. n + 1 \in 0 .. MaxNonce
    BY <1>2, GuardAssumption
  <2>2. world.approvedNow \cup {b} \in SUBSET Batches
    BY <1>1, WorldTypes
  <2> QED BY <1>1, <1>2, <1>3, <2>1, <2>2 DEF Worlds
<1>5. /\ world'.approvals = Append(world.approvals, a) /\ world'.nonce = n + 1
      /\ world'.approvedMetaTxHash = b /\ b \in world'.approvedNow
      /\ world'.metaTxHash = world.metaTxHash
      /\ world'.bypassGuardInitTime = world.bypassGuardInitTime
  BY <1>1, <1>2 DEF Worlds
<1>6. WorldOK(world')
  <2>1. /\ Len(world.approvals) = n /\ n \in Nat
        /\ \A i \in DOMAIN world.approvals : world.approvals[i].nonce = i - 1
    BY <1>2, GuardAssumption DEF IInv, WorldOK
  <2>2. /\ Len(world'.approvals) = n + 1 /\ DOMAIN world'.approvals = 1 .. n + 1
        /\ \A i \in 1 .. n : world'.approvals[i] = world.approvals[i]
        /\ world'.approvals[n + 1] = a
    BY <1>1, <1>5, <2>1, WorldTypes
  <2>3. DOMAIN world.approvals = 1 .. n
    BY <1>1, <2>1, WorldTypes
  <2>4. a.nonce = (n + 1) - 1
    BY <2>1
  <2>5. \A i \in DOMAIN world'.approvals : world'.approvals[i].nonce = i - 1
    <3> SUFFICES ASSUME NEW i \in 1 .. n + 1
                 PROVE  world'.approvals[i].nonce = i - 1
      BY <2>2
    <3>1. CASE i = n + 1
      BY <2>2, <2>4, <3>1
    <3>2. CASE i \in 1 .. n
      BY <2>1, <2>2, <2>3, <3>2
    <3> QED BY <2>1, <3>1, <3>2
  <2> QED BY <1>5, <2>2, <2>5 DEF WorldOK
<1>7. Admitted(Top, world) => Admitted(Top, world')
  BY <1>5 DEF Admitted, Bypassed
<1> QED BY <1>1, <1>4, <1>6, <1>7, WorldStep

\* Switching the guard on or off touches none of its slots.
LEMMA SetEnabledStep ==
  ASSUME IInv, NEW s \in BOOLEAN, SetEnabled(s)
  PROVE  IInv'
<1>1. world \in Worlds /\ frames # <<>> /\ UNCHANGED <<now, frames>>
  BY DEF IInv, TypeOK, SetEnabled, InCode
<1>2. world' = [world EXCEPT !.enabled = s]
  BY DEF SetEnabled
<1>3. world' \in Worlds
  BY <1>1, <1>2 DEF Worlds
<1>4. WorldOK(world')
  BY <1>1, <1>2 DEF WorldOK, IInv, Worlds
<1>5. Admitted(Top, world) => Admitted(Top, world')
  BY <1>1, <1>2 DEF Admitted, Bypassed, Worlds
<1> QED BY <1>1, <1>3, <1>4, <1>5, WorldStep

\* checkTransaction admits the transaction that it lets pass.
LEMMA ExecStep ==
  ASSUME IInv, NEW tx \in SafeTxs, ExecTransaction(tx)
  PROVE  IInv'
<1> DEFINE n == world.safeNonce
           u == [world EXCEPT !.safeNonce = n + 1]
           w == Checked(u, tx, n)
           f == Frame(tx, n, w)
           L == Len(frames)
           g == [frames[L] EXCEPT !.innermost = FALSE]
<1>1. /\ world \in Worlds /\ frames # <<>> /\ frames \in Seq(Frames) /\ L \in Nat \ {0}
      /\ n \in 0 .. MaxNonce /\ n < MaxNonce /\ now' = now /\ world' = w
      /\ frames' = Append([frames EXCEPT ![L] = g], f)
      /\ Checkable(world, tx, n)
  BY StackTypes, WorldTypes DEF IInv, TypeOK, ExecTransaction, InCode
<1>2. u \in Worlds
  <2>1. n + 1 \in 0 .. MaxNonce
    BY <1>1, GuardAssumption
  <2> QED BY <1>1, <2>1 DEF Worlds
<1>3. /\ u.enabled = world.enabled /\ u.bypassGuardInitTime = world.bypassGuardInitTime
      /\ u.approvedMetaTxHash = world.approvedMetaTxHash /\ u.approvedNow = world.approvedNow
      /\ u.approvals = world.approvals /\ u.nonce = world.nonce
  BY <1>1 DEF Worlds
<1>4. tx.batch \in Batches /\ tx.wellFormed \in BOOLEAN /\ tx # NoTx
  BY GuardAssumption
<1>5. w \in Worlds
  BY <1>2, <1>4 DEF Checked, Worlds
<1>6. /\ w.approvedMetaTxHash = world.approvedMetaTxHash /\ w.approvedNow = world.approvedNow
      /\ w.approvals = world.approvals /\ w.nonce = world.nonce
      /\ w.bypassGuardInitTime = world.bypassGuardInitTime
      /\ ~(~u.enabled \/ Bypassed(u, <<tx, n>>)) => w.metaTxHash = tx.batch
  BY <1>2, <1>3 DEF Checked, Worlds
<1>7. WorldOK(w)
  BY <1>6 DEF IInv, WorldOK
<1>8. f \in Frames /\ FrameOK(f)
  BY <1>1, <1>4, <1>5, <1>7, WorldTypes DEF Frame, Frames, FrameOK, IInv
<1>9. Admitted(f, w)
  <2>1. f.tx = tx /\ f.nonce = n /\ f.guarded = world.enabled
    BY DEF Frame
  <2>2. Bypassed(u, <<tx, n>>) => Bypassed(w, <<tx, n>>)
    BY <1>3, <1>6 DEF Bypassed
  <2>3. Bypassed(world, <<tx, n>>) => Bypassed(w, <<tx, n>>)
    BY <1>6 DEF Bypassed
  <2> QED BY <1>1, <1>3, <1>6, <2>1, <2>2, <2>3 DEF Admitted, Checkable
<1>10. g \in Frames /\ FrameOK(g) /\ ~g.innermost
  <2>1. frames[L] \in Frames /\ FrameOK(frames[L])
    BY <1>1 DEF IInv
  <2> QED BY <2>1 DEF Frames, FrameOK
<1>11. /\ frames' \in Seq(Frames) /\ Len(frames') = L + 1 /\ frames'[L + 1] = f
       /\ frames'[L] = g /\ \A i \in 1 .. L - 1 : frames'[i] = frames[i]
  <2> DEFINE t == [frames EXCEPT ![L] = g]
  <2>1. /\ t \in Seq(Frames) /\ Len(t) = L /\ t[L] = g
        /\ \A i \in 1 .. L - 1 : t[i] = frames[i]
    <3> HIDE DEF f, g
    <3>1. g \in Frames /\ L \in Nat \ {0} /\ frames \in Seq(Frames) /\ L = Len(frames)
      BY <1>1, <1>10
    <3> HIDE DEF L
    <3>2. /\ DOMAIN t = 1 .. L /\ t[L] = g
          /\ \A i \in 1 .. L - 1 : t[i] = frames[i]
      BY <3>1
    <3> QED BY <3>1, <3>2
  <2>2. frames' = Append(t, f)
    BY <1>1
  <2> HIDE DEF t, f, g
  <2>3. /\ frames' \in Seq(Frames) /\ Len(frames') = L + 1 /\ frames'[L + 1] = f
        /\ \A i \in 1 .. L : frames'[i] = t[i]
    BY <1>8, <2>1, <2>2, AppendProperties
  <2> QED BY <1>1, <2>1, <2>3
<1>12. TypeOK'
  BY <1>1, <1>5, <1>11 DEF IInv, TypeOK
<1>13. \A i \in 1 .. L - 1 : FrameOK(frames'[i]) /\ ~frames'[i].innermost
  BY <1>1, <1>11 DEF IInv
<1>14. /\ \A i \in DOMAIN frames' : FrameOK(frames'[i])
       /\ \A i \in 1 .. Len(frames') - 1 : ~frames'[i].innermost
  <2>1. ASSUME NEW i \in 1 .. L
        PROVE  FrameOK(frames'[i]) /\ ~frames'[i].innermost
    <3> HIDE DEF f, g
    <3>1. L \in Nat \ {0}
      BY <1>1
    <3> HIDE DEF L
    <3>2. CASE i = L
      BY <1>10, <1>11, <3>2
    <3>3. CASE i \in 1 .. L - 1
      BY <1>13, <3>3
    <3> QED BY <3>1, <3>2, <3>3
  <2>2. FrameOK(frames'[L + 1])
    BY <1>8, <1>11
  <2>3. DOMAIN frames' = 1 .. L + 1
    BY <1>11
  <2>4. ASSUME NEW i \in DOMAIN frames'
        PROVE  FrameOK(frames'[i])
    <3> HIDE DEF f, g, L
    <3> QED BY <1>1, <2>1, <2>2, <2>3
  <2> HIDE DEF f, g, L
  <2> QED BY <1>1, <1>11, <2>1, <2>4
<1>15. Top' = f /\ f.checked = w
  BY <1>1, <1>11 DEF Top, Frame
<1>16. Admitted(Top, world)' /\ Admitted(Top, Top.checked)'
  BY <1>1, <1>9, <1>15 DEF Admitted, Bypassed
<1> QED
  BY <1>1, <1>7, <1>12, <1>14, <1>16 DEF IInv, FrameOK, WorldOK

\* The calls of a transaction end, undone or not, as the check admitted them.
LEMMA CallsEndStep ==
  ASSUME IInv, NEW s \in BOOLEAN, CallsEnd(s)
  PROVE  IInv'
<1> DEFINE L == Len(frames)
           f == [Top EXCEPT !.phase = "after"]
<1>1. /\ frames # <<>> /\ frames \in Seq(Frames) /\ L \in Nat \ {0} /\ Top \in Frames
      /\ Top.tx # NoTx /\ Top.checked \in Worlds /\ world \in Worlds /\ now' = now
      /\ world' = (IF s THEN world ELSE Top.checked)
      /\ frames' = [frames EXCEPT ![L].phase = "after"]
  BY StackTypes DEF IInv, TypeOK, CallsEnd, InCode
<1>2. /\ FrameOK(Top) /\ WorldOK(world)
      /\ Admitted(Top, world) /\ Admitted(Top, Top.checked)
  BY <1>1 DEF IInv, Top
<1>3. /\ f \in Frames /\ f.tx = Top.tx /\ f.nonce = Top.nonce /\ f.checked = Top.checked
      /\ f.saved = Top.saved /\ f.innermost = Top.innermost /\ f.guarded = Top.guarded
  BY <1>1 DEF Frames
<1>4. /\ frames' \in Seq(Frames) /\ Len(frames') = L /\ frames'[L] = f
      /\ \A i \in 1 .. L - 1 : frames'[i] = frames[i]
  BY <1>1, <1>3 DEF Top
<1>5. FrameOK(f)
  BY <1>1, <1>2, <1>3 DEF FrameOK
<1>6. world' \in Worlds /\ WorldOK(world') /\ Admitted(f, world') /\ Admitted(f, f.checked)
  BY <1>1, <1>2, <1>3 DEF FrameOK, Admitted
<1>7. TypeOK'
  BY <1>1, <1>4, <1>6 DEF IInv, TypeOK
<1>8. \A i \in 1 .. L - 1 : FrameOK(frames'[i]) /\ ~frames'[i].innermost
  BY <1>1, <1>4 DEF IInv
<1>9. \A i \in DOMAIN frames' : FrameOK(frames'[i])
  BY <1>1, <1>4, <1>5, <1>8
<1>10. Top' = f
  BY <1>4 DEF Top
<1>11. Admitted(Top, world)' /\ Admitted(Top, Top.checked)'
  BY <1>1, <1>6, <1>10 DEF Admitted, Bypassed
<1> QED
  BY <1>4, <1>6, <1>7, <1>8, <1>9, <1>11 DEF IInv, FrameOK, WorldOK

\* The invariant is kept by every step.
LEMMA NextIInv ==
  ASSUME IInv, [Next]_vars
  PROVE  IInv'
<1>1. CASE UNCHANGED vars
  BY <1>1 DEF vars, IInv, TypeOK, WorldOK, FrameOK, Admitted, Bypassed, Top
<1>2. CASE BeginTx \/ EndTx \/ NextBlock
  BY <1>2, BeginStep, EndStep, BlockStep
<1>3. CASE Guard
  BY <1>3, BypassGuardStep, ApproveStep, SetEnabledStep DEF Guard
<1>4. CASE Safe
  <2>1. CASE FinishTransaction
    <3>1. frames # <<>> /\ frames' = Below /\ UNCHANGED <<now, world>>
      BY <2>1 DEF FinishTransaction
    <3>2. world' \in Worlds /\ WorldOK(world')
      BY <3>1 DEF IInv, TypeOK
    <3> QED BY <3>1, <3>2, PopStep
  <2> QED BY <1>4, <2>1, ExecStep, CallsEndStep DEF Safe
<1>5. CASE RevertFrame
  <2>1. frames # <<>> /\ frames' = Below /\ now' = now /\ world' = Top.saved
    BY <1>5 DEF RevertFrame
  <2>2. world' \in Worlds
    BY <2>1, StackTypes DEF IInv
  <2>3. FrameOK(Top)
    BY <2>1, StackTypes DEF IInv, Top
  <2> QED BY <2>1, <2>2, <2>3, PopStep DEF FrameOK
<1> QED BY <1>1, <1>2, <1>3, <1>4, <1>5 DEF Next

\* The inductive invariant holds in every reachable state.
LEMMA Invariance == Spec => []IInv
BY InitIInv, NextIInv, PTL DEF Spec

-----------------------------------------------------------------------------
(* Theorems *)

\* Every variable, the worlds a revert goes back to included, keeps its type.
THEOREM TypeCorrect == Spec => []TypeOK
BY Invariance, PTL DEF IInv

\* No nonce of the guard approves two batches (approveMetaTxHash).
THEOREM NoncesApproveOnce == Spec => []EachNonceApprovesOnce
<1>1. IInv => EachNonceApprovesOnce
  BY DEF IInv, WorldOK, TypeOK, EachNonceApprovesOnce
<1> QED BY <1>1, Invariance, PTL

\* What the last check lets through was approved or announced.
LEMMA FinishedOK ==
  ASSUME IInv, FinishTransaction, Top.innermost, Top.guarded, world.enabled
  PROVE  \/ Top.tx.wellFormed /\ Top.tx.batch \in world.approvedNow
         \/ \E t \in 1 .. now : /\ world.bypassGuardInitTime[<<Top.tx, Top.nonce>>] = t
                                /\ now > t + WaitTime
<1> DEFINE h == <<Top.tx, Top.nonce>>
<1>1. /\ frames # <<>> /\ Top.phase = "after" /\ Confirmed(world, Top.tx, Top.nonce)
      /\ world \in Worlds /\ now \in Nat
  BY DEF FinishTransaction, IInv, TypeOK
<1>2. FrameOK(Top) /\ Admitted(Top, world)
  BY <1>1, StackTypes DEF IInv, Top
<1>3. Top.tx # NoTx /\ Top.tx \in SafeTxs /\ h \in TxHashes
  BY <1>1, <1>2, StackTypes DEF FrameOK, IInv, TxHashes
<1>4. CASE Bypassed(world, h)
  <2>1. world.bypassGuardInitTime[h] \in Nat
    BY <1>1, <1>3, WorldTypes
  <2> QED BY <1>1, <1>4, <2>1, GuardAssumption DEF Bypassed
<1>5. CASE ~Bypassed(world, h)
  <2>1. Top.tx.wellFormed /\ world.metaTxHash = Top.tx.batch
    BY <1>2, <1>3, <1>5 DEF Admitted
  <2>2. world.approvedMetaTxHash = Top.tx.batch /\ Top.tx.batch # NoHash
    BY <1>1, <1>5, <2>1 DEF Confirmed
  <2> QED BY <2>1, <2>2 DEF IInv, WorldOK
<1> QED BY <1>4, <1>5

\* A guarded Safe transaction is executed only if its batch was approved in
\* the same Ethereum transaction or it was announced and waited for
\* (checkTransaction, checkAfterExecution).
THEOREM GuardHolds == Spec => ExecutedIfApprovedOrAnnounced
<1>1. IInv /\ [Next]_vars =>
        [FinishTransaction /\ Top.innermost /\ Top.guarded /\ world.enabled =>
           \/ Top.tx.wellFormed /\ Top.tx.batch \in world.approvedNow
           \/ \E t \in 1 .. now : /\ world.bypassGuardInitTime[<<Top.tx, Top.nonce>>] = t
                                  /\ now > t + WaitTime]_vars
  BY FinishedOK
<1> QED BY <1>1, Invariance, PTL DEF Spec, ExecutedIfApprovedOrAnnounced

-----------------------------------------------------------------------------
(* Announcements.  What was announced since a call began was announced in  *)
(* this very block, so that a revert takes back no other announcement.     *)

Times(w) == w.bypassGuardInitTime

Since(earlier, later, t) ==
  \A h \in TxHashes : \/ later[h] = earlier[h]
                      \/ earlier[h] = 0 /\ later[h] = t

AnnouncedSince(fs, w, t) ==
  \A i \in 1 .. Len(fs) :
    /\ Times(fs[i].checked) = Times(fs[i].saved)
    /\ Since(Times(fs[i].saved), Times(w), t)
    /\ \A j \in i .. Len(fs) : Since(Times(fs[i].saved), Times(fs[j].saved), t)

AnnounceInv == IInv /\ AnnouncedSince(frames, world, now)

\* What is said of a stack holds of the lower part of it too.
LEMMA SinceBelow ==
  ASSUME NEW fs \in Seq(Frames), NEW gs, NEW v, NEW w, NEW t, fs # <<>>,
         AnnouncedSince(fs, v, t), gs = SubSeq(fs, 1, Len(fs) - 1),
         Times(w) = Times(v) \/ Times(w) = Times(fs[Len(fs)].saved)
  PROVE  AnnouncedSince(gs, w, t)
<1> DEFINE n == Len(fs)
<1>1. n \in Nat \ {0} /\ gs = SubSeq(fs, 1, n - 1)
  OBVIOUS
<1>2. Len(gs) = n - 1 /\ \A i \in 1 .. n - 1 : gs[i] = fs[i]
  <2> DEFINE k == n - 1
  <2>1. k \in Nat /\ gs = SubSeq(fs, 1, k) /\ \A i \in 1 .. k : fs[i] \in Frames
    BY <1>1
  <2> HIDE DEF k
  <2>2. /\ Len(gs) = IF 1 <= k THEN k - 1 + 1 ELSE 0
        /\ \A i \in 1 .. k - 1 + 1 : gs[i] = fs[1 + i - 1]
    BY <2>1, SubSeqProperties
  <2>3. Len(gs) = k /\ \A i \in 1 .. k : gs[i] = fs[i]
    BY <2>1, <2>2
  <2> QED BY <2>3 DEF k
<1> HIDE DEF n
<1>3. ASSUME NEW i \in 1 .. n - 1
      PROVE  /\ Times(gs[i].checked) = Times(gs[i].saved)
             /\ Since(Times(gs[i].saved), Times(w), t)
             /\ \A j \in i .. n - 1 : Since(Times(gs[i].saved), Times(gs[j].saved), t)
  <2>1. i \in 1 .. n /\ n \in i .. n /\ gs[i] = fs[i]
        /\ \A j \in i .. n - 1 : j \in i .. n /\ gs[j] = fs[j]
    BY <1>1, <1>2
  <2>2. /\ Times(fs[i].checked) = Times(fs[i].saved)
        /\ Since(Times(fs[i].saved), Times(v), t)
        /\ \A j \in i .. n : Since(Times(fs[i].saved), Times(fs[j].saved), t)
    BY <2>1 DEF AnnouncedSince, n
  <2>3. Since(Times(fs[i].saved), Times(w), t)
    BY <2>1, <2>2 DEF n
  <2> QED BY <2>1, <2>2, <2>3
<1> QED BY <1>2, <1>3 DEF AnnouncedSince

\* Only what was announced matters.
LEMMA SinceSame ==
  ASSUME NEW fs, NEW gs, NEW v, NEW w, NEW t, AnnouncedSince(fs, v, t), Len(gs) = Len(fs),
         \A i \in 1 .. Len(fs) :
           gs[i].saved = fs[i].saved /\ Times(gs[i].checked) = Times(fs[i].checked),
         Times(w) = Times(v), Len(fs) \in Nat
  PROVE  AnnouncedSince(gs, w, t)
<1> SUFFICES ASSUME NEW i \in 1 .. Len(fs)
             PROVE  /\ Times(gs[i].checked) = Times(gs[i].saved)
                    /\ Since(Times(gs[i].saved), Times(w), t)
                    /\ \A j \in i .. Len(fs) : Since(Times(gs[i].saved), Times(gs[j].saved), t)
  BY DEF AnnouncedSince
<1>1. /\ Times(fs[i].checked) = Times(fs[i].saved)
      /\ Since(Times(fs[i].saved), Times(v), t)
      /\ \A j \in i .. Len(fs) : Since(Times(fs[i].saved), Times(fs[j].saved), t)
  BY DEF AnnouncedSince
<1>2. \A j \in i .. Len(fs) : j \in 1 .. Len(fs)
  OBVIOUS
<1> QED BY <1>1, <1>2

\* A call that begins starts from what is announced.
LEMMA SincePush ==
  ASSUME NEW fs \in Seq(Frames), NEW f \in Frames, NEW v, NEW w, NEW t,
         AnnouncedSince(fs, v, t), f.saved = v,
         Times(f.checked) = Times(v), Times(w) = Times(v)
  PROVE  AnnouncedSince(Append(fs, f), w, t)
<1> DEFINE n == Len(fs)
           gs == Append(fs, f)
<1>1. n \in Nat /\ Len(gs) = n + 1 /\ gs[n + 1] = f /\ \A i \in 1 .. n : gs[i] = fs[i]
  BY AppendProperties
<1>2. \A i \in 1 .. n :
        /\ Times(fs[i].checked) = Times(fs[i].saved)
        /\ Since(Times(fs[i].saved), Times(v), t)
        /\ \A j \in i .. n : Since(Times(fs[i].saved), Times(fs[j].saved), t)
  BY DEF AnnouncedSince
<1> HIDE DEF n, gs
<1>3. Since(Times(v), Times(v), t)
  BY DEF Since
<1>4. ASSUME NEW i \in 1 .. n + 1
      PROVE  /\ Times(gs[i].checked) = Times(gs[i].saved)
             /\ Since(Times(gs[i].saved), Times(w), t)
             /\ \A j \in i .. n + 1 : Since(Times(gs[i].saved), Times(gs[j].saved), t)
  <2>1. CASE i = n + 1
    <3>1. \A j \in i .. n + 1 : j = i
      BY <1>1, <2>1
    <3>2. gs[i] = f
      BY <1>1, <2>1
    <3> QED BY <1>3, <3>1, <3>2
  <2>2. CASE i \in 1 .. n
    <3>1. gs[i] = fs[i] /\ \A j \in i .. n + 1 : j = n + 1 \/ (j \in i .. n /\ gs[j] = fs[j])
      BY <1>1, <2>2
    <3> QED BY <1>1, <1>2, <2>2, <3>1
  <2>3. i = n + 1 \/ i \in 1 .. n
    BY <1>1
  <2> QED BY <2>1, <2>2, <2>3
<1> QED BY <1>1, <1>4 DEF AnnouncedSince, gs

\* What a step may do to an announcement.
Stands(h) ==
  LET before == Times(world)[h]
      after  == Times(world)'[h]
  IN  after # before =>
        \/ before = 0 /\ after = now /\ h[2] = world.safeNonce
        \/ after = 0 /\ before = now /\ frames # <<>>

AnnounceOK == AnnouncedSince(frames, world, now)' /\ \A h \in TxHashes : Stands(h)

\* A step that touches no announcement and leaves the calls as they are.
LEMMA QuietStep ==
  ASSUME AnnounceInv, now' = now, Times(world)' = Times(world), Len(frames') = Len(frames),
         \A i \in 1 .. Len(frames) : /\ frames'[i].saved = frames[i].saved
                                     /\ Times(frames'[i].checked) = Times(frames[i].checked)
  PROVE  AnnounceOK
<1>1. Len(frames) \in Nat
  BY DEF AnnounceInv, IInv, TypeOK
<1>2. AnnouncedSince(frames', world', now)
  BY <1>1, SinceSame DEF AnnounceInv, Times
<1> QED BY <1>2 DEF AnnounceOK, Stands, Times

\* The first announcement of a hash.
LEMMA AnnounceStep ==
  ASSUME AnnounceInv, NEW tx \in SafeTxs, BypassGuard(tx)
  PROVE  AnnounceOK
<1> DEFINE g == <<tx, world.safeNonce>>
<1>1. /\ frames' = frames /\ now' = now /\ world \in Worlds /\ Times(world)[g] = 0
      /\ world' = [world EXCEPT !.bypassGuardInitTime =
                     [world.bypassGuardInitTime EXCEPT ![g] = now]]
  BY DEF AnnounceInv, IInv, TypeOK, BypassGuard, Times
<1>2. g \in TxHashes /\ g[2] = world.safeNonce
  BY <1>1, WorldTypes DEF TxHashes
<1> HIDE DEF g
<1>3. Times(world) \in [TxHashes -> 0 .. MaxTime]
      /\ Times(world') = [Times(world) EXCEPT ![g] = now]
  BY <1>1, WorldTypes DEF Worlds, Times
<1>4. \A h \in TxHashes : Times(world')[h] = IF h = g THEN now ELSE Times(world)[h]
  BY <1>3
<1>5. \A h \in TxHashes : Stands(h)
  BY <1>1, <1>2, <1>4 DEF Stands, Times
<1>6. ASSUME NEW i \in 1 .. Len(frames)
      PROVE  /\ Times(frames[i].checked) = Times(frames[i].saved)
             /\ Since(Times(frames[i].saved), Times(world'), now)
             /\ \A j \in i .. Len(frames) :
                  Since(Times(frames[i].saved), Times(frames[j].saved), now)
  <2>1. /\ Times(frames[i].checked) = Times(frames[i].saved)
        /\ Since(Times(frames[i].saved), Times(world), now)
        /\ \A j \in i .. Len(frames) :
             Since(Times(frames[i].saved), Times(frames[j].saved), now)
    BY DEF AnnounceInv, AnnouncedSince
  <2>2. Since(Times(frames[i].saved), Times(world'), now)
    BY <1>1, <1>4, <2>1 DEF Since
  <2> QED BY <2>1, <2>2
<1>7. AnnouncedSince(frames, world', now)
  BY <1>6 DEF AnnouncedSince
<1> QED BY <1>1, <1>5, <1>7 DEF AnnounceOK

\* Returning to the caller, with the world or with that of when the call began.
LEMMA BackStep ==
  ASSUME AnnounceInv, frames # <<>>, frames' = Below, now' = now,
         world' = world \/ world' = Top.saved
  PROVE  AnnounceOK
<1> DEFINE n == Len(frames)
<1>1. n \in Nat \ {0} /\ Top = frames[n] /\ frames \in Seq(Frames)
  BY StackTypes DEF AnnounceInv, IInv, TypeOK, Top
<1>2. frames' = SubSeq(frames, 1, n - 1)
  BY DEF Below
<1>3. AnnouncedSince(frames', world', now)
  BY <1>1, <1>2, SinceBelow DEF AnnounceInv
<1>4. Since(Times(Top.saved), Times(world), now)
  BY <1>1 DEF AnnounceInv, AnnouncedSince
<1>5. \A h \in TxHashes : Stands(h)
  BY <1>4 DEF Since, Stands, Times
<1> QED BY <1>3, <1>5 DEF AnnounceOK

\* A Safe transaction is checked before any of its calls announces anything.
LEMMA ExecAnnounce ==
  ASSUME AnnounceInv, NEW tx \in SafeTxs, ExecTransaction(tx)
  PROVE  AnnounceOK
<1> DEFINE n == world.safeNonce
           w == Checked([world EXCEPT !.safeNonce = n + 1], tx, n)
           f == Frame(tx, n, w)
           L == Len(frames)
           low == [frames EXCEPT ![L].innermost = FALSE]
<1>1. /\ world \in Worlds /\ frames \in Seq(Frames) /\ frames # <<>> /\ now' = now
      /\ L \in Nat \ {0} /\ world' = w /\ frames' = Append(low, f)
      /\ n \in 0 .. MaxNonce /\ n < MaxNonce
  BY StackTypes, WorldTypes DEF AnnounceInv, IInv, TypeOK, ExecTransaction, InCode
<1>2. w \in Worlds /\ Times(w) = Times(world)
  <2>1. n + 1 \in 0 .. MaxNonce /\ tx.batch \in Batches
    BY <1>1, GuardAssumption
  <2> QED BY <1>1, <2>1 DEF Checked, Worlds, Times
<1>3. f \in Frames /\ f.saved = world /\ f.checked = w
  BY <1>1, <1>2, WorldTypes DEF Frame, Frames
<1>4. /\ low \in Seq(Frames) /\ Len(low) = L
      /\ \A i \in 1 .. L : low[i].saved = frames[i].saved /\ low[i].checked = frames[i].checked
  <2> DEFINE g == [frames[L] EXCEPT !.innermost = FALSE]
  <2>a. frames[L] \in Frames
    BY <1>1
  <2>b. g \in Frames /\ g.saved = frames[L].saved /\ g.checked = frames[L].checked
    BY <2>a DEF Frames
  <2>c. low = [frames EXCEPT ![L] = g]
    OBVIOUS
  <2>1. frames[L] \in Frames /\ g \in Frames /\ g.saved = frames[L].saved
        /\ g.checked = frames[L].checked /\ low = [frames EXCEPT ![L] = g]
    BY <2>a, <2>b, <2>c
  <2> HIDE DEF g, low
  <2>2. low \in Seq(Frames) /\ Len(low) = L
    BY <1>1, <2>1
  <2>3. \A i \in 1 .. L : low[i] = IF i = L THEN g ELSE frames[i]
    BY <1>1, <2>1
  <2> QED BY <2>1, <2>2, <2>3
<1>5. AnnouncedSince(low, world, now)
  <2> HIDE DEF low
  <2> QED BY <1>1, <1>4, SinceSame DEF AnnounceInv
<1> HIDE DEF low, f, w
<1>6. AnnouncedSince(frames', world', now)
  BY <1>1, <1>2, <1>3, <1>4, <1>5, SincePush
<1>7. \A h \in TxHashes : Stands(h)
  BY <1>1, <1>2 DEF Stands, Times
<1> QED BY <1>1, <1>6, <1>7 DEF AnnounceOK

\* Only an announcement writes one, and only a revert takes it back.
LEMMA AnnouncementStep ==
  ASSUME AnnounceInv, [Next]_vars
  PROVE  AnnounceOK
<1>1. IInv /\ world \in Worlds /\ frames \in Seq(Frames)
  BY DEF AnnounceInv, IInv, TypeOK
<1>2. CASE BeginTx
  <2>1. /\ Frame(NoTx, 0, world) \in Frames
        /\ Frame(NoTx, 0, world).saved = world /\ Frame(NoTx, 0, world).checked = world
    BY <1>1, WorldTypes, GuardAssumption DEF Frame, Frames
  <2>2. frames' = Append(frames, Frame(NoTx, 0, world)) /\ world' = world /\ now' = now
    BY <1>2 DEF BeginTx
  <2>3. AnnouncedSince(frames', world', now)
    BY <1>1, <2>1, <2>2, SincePush DEF AnnounceInv
  <2> QED BY <2>2, <2>3 DEF AnnounceOK, Stands, Times
<1>3. CASE EndTx
  <2>1. frames' = <<>> /\ now' = now /\ Times(world') = Times(world)
    BY <1>1, <1>3 DEF EndTx, Cleared, Worlds, Times
  <2>2. AnnouncedSince(frames', world', now)
    BY <2>1 DEF AnnouncedSince
  <2> QED BY <2>1, <2>2 DEF AnnounceOK, Stands, Times
<1>4. CASE NextBlock
  <2>1. frames = <<>> /\ frames' = <<>> /\ world' = world
    BY <1>4 DEF NextBlock
  <2>2. AnnouncedSince(frames', world', now')
    BY <2>1 DEF AnnouncedSince
  <2> QED BY <2>1, <2>2 DEF AnnounceOK, Stands, Times
<1>5. CASE \E tx \in SafeTxs : BypassGuard(tx)
  BY <1>5, AnnounceStep
<1>6. CASE \E b \in Batches, e \in 1 .. MaxTime + 1, n \in 0 .. MaxNonce :
             ApproveMetaTxHash(b, e, n)
  <2>1. frames' = frames /\ now' = now /\ Times(world') = Times(world)
    BY <1>1, <1>6 DEF ApproveMetaTxHash, Worlds, Times
  <2> QED BY <2>1, QuietStep DEF Times
<1>7. CASE \E s \in BOOLEAN : SetEnabled(s)
  <2>1. frames' = frames /\ now' = now /\ Times(world') = Times(world)
    BY <1>1, <1>7 DEF SetEnabled, Worlds, Times
  <2> QED BY <2>1, QuietStep DEF Times
<1>8. CASE \E tx \in SafeTxs : ExecTransaction(tx)
  BY <1>8, ExecAnnounce
<1>9. ASSUME NEW s \in BOOLEAN, CallsEnd(s)
      PROVE  AnnounceOK
  <2> DEFINE n == Len(frames)
             g == [frames[n] EXCEPT !.phase = "after"]
  <2>1. n \in Nat \ {0} /\ Top = frames[n] /\ frames # <<>>
    BY <1>1, <1>9, StackTypes DEF CallsEnd, InCode, Top, IInv
  <2>2. /\ frames' = [frames EXCEPT ![n] = g] /\ now' = now
        /\ g.saved = frames[n].saved /\ g.checked = frames[n].checked
        /\ world' = world \/ world' = Top.checked
    <3>1. frames[n] \in Frames
      BY <1>1, <2>1
    <3>2. g.saved = frames[n].saved /\ g.checked = frames[n].checked
      BY <3>1 DEF Frames
    <3>3. frames' = [frames EXCEPT ![n] = g] /\ now' = now
      BY <1>9 DEF CallsEnd
    <3>4. world' = world \/ world' = Top.checked
      BY <1>9 DEF CallsEnd
    <3> QED BY <3>2, <3>3, <3>4
  <2>3. /\ Times(Top.checked) = Times(Top.saved)
        /\ Since(Times(Top.saved), Times(world), now)
        /\ \A i \in 1 .. n : Since(Times(frames[i].saved), Times(Top.saved), now)
    BY <2>1 DEF AnnounceInv, AnnouncedSince
  <2>4. \A h \in TxHashes : Stands(h)
    BY <2>1, <2>2, <2>3 DEF Since, Stands, Times
  <2>5. AnnouncedSince(frames, world', now)
    <3>1. \A i \in 1 .. n : Since(Times(frames[i].saved), Times(world'), now)
      BY <2>2, <2>3 DEF AnnounceInv, AnnouncedSince
    <3> QED BY <3>1 DEF AnnounceInv, AnnouncedSince
  <2>6. Len(frames') = n /\ \A i \in 1 .. n : /\ frames'[i].saved = frames[i].saved
                                              /\ frames'[i].checked = frames[i].checked
    <3> HIDE DEF g
    <3>1. Len(frames') = n
      BY <1>1, <2>1, <2>2
    <3>2. \A i \in 1 .. n : frames'[i] = IF i = n THEN g ELSE frames[i]
      BY <1>1, <2>1, <2>2
    <3> QED BY <2>2, <3>1, <3>2
  <2>7. AnnouncedSince(frames', world', now)
    BY <2>1, <2>5, <2>6, SinceSame
  <2> QED BY <2>2, <2>4, <2>7 DEF AnnounceOK
<1>10. CASE FinishTransaction
  BY <1>10, BackStep DEF FinishTransaction
<1>11. CASE RevertFrame
  BY <1>11, BackStep DEF RevertFrame
<1>12. CASE UNCHANGED vars
  <2>1. frames' = frames /\ now' = now /\ world' = world
    BY <1>12 DEF vars
  <2> QED BY <2>1, QuietStep DEF Times
<1> QED
  BY <1>2, <1>3, <1>4, <1>5, <1>6, <1>7, <1>8, <1>9, <1>10, <1>11, <1>12
     DEF Next, Guard, Safe

\* An announcement is made once and stands, but for reverts in its own block
\* (bypassGuard).
THEOREM AnnouncedOnce == Spec => AnnouncementsStand
<1>1. Init => AnnounceInv
  BY InitIInv DEF Init, AnnounceInv, AnnouncedSince
<1>2. AnnounceInv /\ [Next]_vars => AnnounceInv'
  BY NextIInv, AnnouncementStep DEF AnnounceInv, AnnounceOK
<1>3. AnnounceInv /\ [Next]_vars =>
        [\A h \in TxHashes :
           LET before == world.bypassGuardInitTime[h]
               after  == world'.bypassGuardInitTime[h]
           IN  after # before =>
                 \/ before = 0 /\ after = now /\ h[2] = world.safeNonce
                 \/ after = 0 /\ before = now /\ frames # <<>>]_vars
  BY AnnouncementStep DEF AnnounceOK, Stands, Times
<1> QED BY <1>1, <1>2, <1>3, PTL DEF Spec, AnnouncementsStand
=============================================================================
