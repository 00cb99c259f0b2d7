--------------------------- MODULE SafeCallProofs ---------------------------
(***************************************************************************)
(* Theorems about SafeCall, for every set of accounts, values, fees and    *)
(* approvals, any depth of calls and any registry.                         *)
(***************************************************************************)
EXTENDS SafeCall, SumsProofs, SequenceTheorems, TLAPS

(* The inductive invariant: in the world, and in the world every frame may *)
(* go back to, the flags are set exactly while the last safeFunctionCall   *)
(* begun is under way, and are those of that one.                          *)

IsSafe(f) == f.kind = "safe"

FlagsOK(w, fs, n) ==
  /\ w.flags.active => \E j \in 1 .. n :
       /\ IsSafe(fs[j]) /\ fs[j].number = w.safeCalls
       /\ fs[j].sender = w.flags.caller /\ fs[j].fee = w.flags.fee
  /\ \A j \in 1 .. n : IsSafe(fs[j]) => fs[j].number <= w.safeCalls
  /\ \A j \in 1 .. n : IsSafe(fs[j]) /\ fs[j].number = w.safeCalls =>
       w.flags.active /\ fs[j].sender = w.flags.caller /\ fs[j].fee = w.flags.fee

\* Later safeFunctionCalls have greater numbers.
NumbersGrow(fs) ==
  \A i, j \in 1 .. Len(fs) : i < j /\ IsSafe(fs[i]) /\ IsSafe(fs[j]) =>
    fs[i].number < fs[j].number

\* The safeFunctionCall at j is the last begun when the call at i was made, and
\* of the same sender.
IsLatest(fs, i, j) ==
  IsSafe(fs[j]) /\ fs[j].number = fs[i].latest /\ fs[j].sender = fs[i].sender

\* What ToldLessLatestFee says of one call.
FeeOK(fs, i) ==
  Protected(fs[i]) =>
    /\ (\A j \in 1 .. i - 1 : ~IsLatest(fs, i, j)) => fs[i].told = fs[i].value
    /\ \A j \in 1 .. i - 1 : IsLatest(fs, i, j) => fs[i].told = fs[i].value - fs[j].fee

IInv ==
  /\ CallTypeOK
  /\ FlagsOK(world, frames, Len(frames))
  /\ \A i \in 1 .. Len(frames) : FlagsOK(frames[i].saved, frames, i - 1) /\ FeeOK(frames, i)
  /\ NumbersGrow(frames)

-----------------------------------------------------------------------------
(* The stack *)

\* The fields of a world are typed.
LEMMA WorldTypes ==
  ASSUME NEW w \in Worlds
  PROVE  /\ w.flags.active \in BOOLEAN /\ w.flags.caller \in Accounts \cup {Nobody}
         /\ w.flags.fee \in Nat /\ w.approved \in Seq(Entries)
         /\ w.safeCalls \in 0 .. MaxSafeCalls /\ w.safeCalls \in Nat
BY SafeCallAssumption DEF Worlds

\* The fields of a frame are typed.
LEMMA FrameTypes ==
  ASSUME NEW f \in Frames
  PROVE  /\ f.sender \in Accounts /\ f.value \in Nat /\ f.saved \in Worlds /\ f.fee \in Nat
         /\ f.number \in 0 .. MaxSafeCalls /\ f.number \in Nat
         /\ f.told \in Nat /\ f.kind \in {"code", "body", "safe"}
BY SafeCallAssumption DEF Frames

\* Two frames are the same call, maybe at another stage of it.
SameCall(f, g) ==
  /\ f.kind = g.kind /\ f.sender = g.sender /\ f.value = g.value /\ f.saved = g.saved
  /\ f.fee = g.fee /\ f.number = g.number /\ f.told = g.told
  /\ f.latest = g.latest /\ f.entry = g.entry

\* The flags depend on the calls that run, not on what their frames saved or do next.
LEMMA FlagsSame ==
  ASSUME NEW w, NEW n \in Nat, NEW fs, NEW gs, FlagsOK(w, fs, n),
         \A i \in 1 .. n : SameCall(gs[i], fs[i])
  PROVE  FlagsOK(w, gs, n)
BY DEF FlagsOK, SameCall, IsSafe

\* So does what hooks were told.
LEMMA FeeSame ==
  ASSUME NEW n \in Nat \ {0}, NEW fs, NEW gs, FeeOK(fs, n),
         \A i \in 1 .. n : SameCall(gs[i], fs[i])
  PROVE  FeeOK(gs, n)
<1>1. SameCall(gs[n], fs[n]) /\ (Protected(gs[n]) <=> Protected(fs[n]))
  BY DEF SameCall, Protected
<1>2. \A j \in 1 .. n - 1 : SameCall(gs[j], fs[j])
  OBVIOUS
<1>3. \A j \in 1 .. n - 1 : IsLatest(gs, n, j) <=> IsLatest(fs, n, j)
  BY <1>1, <1>2 DEF IsLatest, IsSafe, SameCall
<1> QED BY <1>1, <1>2, <1>3 DEF FeeOK, SameCall

\* A stack of the same calls, or of the lower ones of them, keeps the invariant
\* if the world is sound.
LEMMA SameCallsStep ==
  ASSUME IInv, NEW m \in 0 .. Len(frames), frames' \in Seq(Frames), Len(frames') = m,
         \A i \in 1 .. m : SameCall(frames'[i], frames[i]),
         world' \in Worlds, txs' \in 0 .. MaxTxs, FlagsOK(world', frames, m)
  PROVE  IInv'
<1>1. CallTypeOK'
  BY DEF CallTypeOK
<1>2. Len(frames) \in Nat /\ m \in Nat /\ m <= Len(frames)
  BY DEF IInv, CallTypeOK
<1>3. FlagsOK(world', frames', Len(frames'))
  BY <1>2, FlagsSame
<1>4. ASSUME NEW i \in 1 .. m
      PROVE  FlagsOK(frames'[i].saved, frames', i - 1) /\ FeeOK(frames', i)
  <2>1. /\ i \in 1 .. Len(frames) /\ i - 1 \in Nat /\ i \in Nat \ {0}
        /\ \A j \in 1 .. i : SameCall(frames'[j], frames[j])
        /\ \A j \in 1 .. i - 1 : SameCall(frames'[j], frames[j])
    BY <1>2
  <2>2. FlagsOK(frames[i].saved, frames, i - 1) /\ FeeOK(frames, i)
    BY <2>1 DEF IInv
  <2>3. frames'[i].saved = frames[i].saved
    BY DEF SameCall
  <2>4. FlagsOK(frames[i].saved, frames', i - 1)
    BY <2>1, <2>2, FlagsSame
  <2>5. FeeOK(frames', i)
    BY <2>1, <2>2, FeeSame
  <2> QED BY <2>3, <2>4, <2>5
<1>5. NumbersGrow(frames')
  <2>1. \A j \in 1 .. m : j \in 1 .. Len(frames) /\ SameCall(frames'[j], frames[j])
    BY <1>2
  <2>2. NumbersGrow(frames)
    BY DEF IInv
  <2> QED BY <2>1, <2>2 DEF NumbersGrow, IsSafe, SameCall
<1> QED BY <1>1, <1>3, <1>4, <1>5 DEF IInv

\* Changing what the caller on top is waiting for.
LEMMA StageSame ==
  ASSUME NEW fs \in Seq(Frames), fs # <<>>,
         NEW s \in {"running", "proxy", "data", "called", "failed"}
  PROVE  LET gs == [fs EXCEPT ![Len(fs)].stage = s]
         IN gs \in Seq(Frames) /\ Len(gs) = Len(fs)
            /\ \A i \in 1 .. Len(fs) : SameCall(gs[i], fs[i])
<1> DEFINE n == Len(fs)
           g == [fs[n] EXCEPT !.stage = s]
           gs == [fs EXCEPT ![n] = g]
<1>1. n \in Nat \ {0} /\ fs[n] \in Frames /\ \A i \in 1 .. n : fs[i] \in Frames
  OBVIOUS
<1>2. g \in Frames /\ SameCall(g, fs[n])
  BY <1>1 DEF Frames, SameCall
<1>3. gs \in Seq(Frames) /\ Len(gs) = n
  <2> HIDE DEF g
  <2> QED BY <1>1, <1>2
<1>4. ASSUME NEW i \in 1 .. n
      PROVE  SameCall(gs[i], fs[i])
  <2> HIDE DEF g
  <2>1. CASE i = n
    BY <1>1, <1>2, <2>1
  <2>2. CASE i # n
    BY <1>1, <2>2 DEF SameCall
  <2> QED BY <2>1, <2>2
<1> QED BY <1>3, <1>4

\* The frames below the top one.
LEMMA BelowSame ==
  ASSUME frames \in Seq(Frames), frames # <<>>
  PROVE  /\ Len(frames) \in Nat \ {0}
         /\ Below \in Seq(Frames) /\ Len(Below) = Len(frames) - 1
         /\ \A i \in 1 .. Len(frames) - 1 : Below[i] = frames[i]
         /\ Top \in Frames
<1>1. Len(frames) \in Nat \ {0} /\ \A i \in 1 .. Len(frames) : frames[i] \in Frames
  OBVIOUS
<1>2. Below = SubSeq(frames, 1, Len(frames) - 1)
  BY DEF Below, Front
<1>3. \A i \in 1 .. Len(frames) - 1 : frames[i] \in Frames
  BY <1>1
<1>4. SubSeq(frames, 1, Len(frames) - 1) \in Seq(Frames)
  BY <1>1, <1>3
<1>5. Len(Below) = Len(frames) - 1 /\ \A i \in 1 .. Len(frames) - 1 : Below[i] = frames[i]
  <2> DEFINE k == Len(frames) - 1
  <2>1. k \in Nat /\ \A i \in 1 .. k : frames[i] \in Frames
    BY <1>1
  <2>2. Below = SubSeq(frames, 1, k)
    BY <1>2
  <2> HIDE DEF k
  <2>3. /\ Len(Below) = IF 1 <= k THEN k - 1 + 1 ELSE 0
        /\ \A i \in 1 .. k - 1 + 1 : Below[i] = frames[1 + i - 1]
    BY <2>1, <2>2, SubSeqProperties
  <2>4. Len(Below) = k /\ \A i \in 1 .. k : Below[i] = frames[i]
    BY <2>1, <2>3
  <2> QED BY <2>4 DEF k
<1> QED BY <1>1, <1>2, <1>4, <1>5 DEF Top

\* Returning or failing changes only what the caller waits for.
LEMMA PoppedSame ==
  ASSUME NEW fs \in Seq(Frames), NEW gs, gs = Returned(fs) \/ gs = Failed(fs)
  PROVE  /\ gs \in Seq(Frames) /\ Len(gs) = Len(fs)
         /\ \A i \in 1 .. Len(fs) : SameCall(gs[i], fs[i])
<1>1. CASE gs = fs
  BY <1>1 DEF SameCall
<1>2. CASE fs # <<>> /\ \E s \in {"called", "failed"} : gs = [fs EXCEPT ![Len(fs)].stage = s]
  <2>1. PICK s \in {"called", "failed"} : gs = [fs EXCEPT ![Len(fs)].stage = s]
    BY <1>2
  <2>2. s \in {"running", "proxy", "data", "called", "failed"}
    OBVIOUS
  <2> QED BY <1>2, <2>1, <2>2, StageSame
<1> QED BY <1>1, <1>2 DEF Returned, Failed

\* A call ends, and its caller goes on or fails.
LEMMA PopStep ==
  ASSUME IInv, frames # <<>>,
         frames' = Returned(Below) \/ frames' = Failed(Below),
         world' \in Worlds, txs' = txs, FlagsOK(world', frames, Len(frames) - 1)
  PROVE  IInv'
<1>1. frames \in Seq(Frames) /\ txs \in 0 .. MaxTxs
  BY DEF IInv, CallTypeOK
<1>2. /\ Len(frames) \in Nat \ {0} /\ Below \in Seq(Frames) /\ Len(Below) = Len(frames) - 1
      /\ \A i \in 1 .. Len(frames) - 1 : Below[i] = frames[i]
  BY <1>1, BelowSame
<1>3. /\ frames' \in Seq(Frames) /\ Len(frames') = Len(Below)
      /\ \A i \in 1 .. Len(Below) : SameCall(frames'[i], Below[i])
  BY <1>2, PoppedSame
<1>4. \A i \in 1 .. Len(frames) - 1 : SameCall(frames'[i], frames[i])
  BY <1>2, <1>3
<1> QED BY <1>1, <1>2, <1>3, <1>4, SameCallsStep

\* The world changes under the same stack.
LEMMA WorldStep ==
  ASSUME IInv, frames' = frames, world' \in Worlds, txs' = txs, FlagsOK(world', frames, Len(frames))
  PROVE  IInv'
<1>1. frames' \in Seq(Frames) /\ txs' \in 0 .. MaxTxs /\ Len(frames') = Len(frames)
      /\ Len(frames) \in Nat
  BY DEF IInv, CallTypeOK
<1>2. \A i \in 1 .. Len(frames) : SameCall(frames'[i], frames[i])
  BY DEF SameCall
<1> QED BY <1>1, <1>2, SameCallsStep

\* What is kept besides the flags does not matter to them.
LEMMA SameFlags ==
  ASSUME NEW w, NEW v, NEW fs, NEW n,
         FlagsOK(w, fs, n), v.flags = w.flags, v.safeCalls = w.safeCalls
  PROVE  FlagsOK(v, fs, n)
BY DEF FlagsOK

\* A call begins: the invariant is kept if the frame and the world fit.
LEMMA PushStep ==
  ASSUME IInv, NEW f \in Frames, frames' = Append(frames, f), f.saved = world,
         world' \in Worlds, txs' \in 0 .. MaxTxs,
         FlagsOK(world', frames', Len(frames) + 1),
         IsSafe(f) => f.number > world.safeCalls,
         FeeOK(frames', Len(frames) + 1)
  PROVE  IInv'
<1> DEFINE n == Len(frames)
<1>1. frames \in Seq(Frames) /\ n \in Nat /\ world \in Worlds
  BY DEF IInv, CallTypeOK
<1>2. /\ frames' \in Seq(Frames) /\ Len(frames') = n + 1 /\ frames'[n + 1] = f
      /\ \A i \in 1 .. n : frames'[i] = frames[i] /\ frames[i] \in Frames
  BY <1>1, AppendProperties
<1>3. FlagsOK(world', frames', n + 1) /\ FeeOK(frames', n + 1) /\ FlagsOK(world, frames, n)
      /\ \A i \in 1 .. n : FlagsOK(frames[i].saved, frames, i - 1) /\ FeeOK(frames, i)
  BY DEF IInv
<1>4. NumbersGrow(frames) /\ \A i, j \in 1 .. n : i < j /\ IsSafe(frames[i]) /\ IsSafe(frames[j]) =>
        frames[i].number < frames[j].number
  BY DEF IInv, NumbersGrow
<1>0. n \in Nat
  BY <1>1
<1> HIDE DEF n
<1>5. CallTypeOK'
  BY <1>2 DEF CallTypeOK
<1>6. \A i \in 1 .. n : SameCall(frames'[i], frames[i])
  BY <1>2 DEF SameCall
<1>7. ASSUME NEW i \in 1 .. n + 1
      PROVE  FlagsOK(frames'[i].saved, frames', i - 1)
  <2>1. CASE i = n + 1
    <3>1. FlagsOK(world, frames', n)
      BY <1>1, <1>3, <1>6, FlagsSame
    <3>2. i - 1 = n /\ frames'[i].saved = world
      BY <1>0, <1>2, <2>1
    <3> QED BY <3>1, <3>2
  <2>2. CASE i \in 1 .. n
    <3>1. i - 1 \in Nat /\ 1 .. i - 1 \subseteq 1 .. n
      BY <1>0, <2>2
    <3>2. FlagsOK(frames[i].saved, frames', i - 1)
      BY <1>3, <1>6, <2>2, <3>1, FlagsSame
    <3>3. frames'[i].saved = frames[i].saved
      BY <1>2, <2>2
    <3> QED BY <3>2, <3>3
  <2>3. i = n + 1 \/ i \in 1 .. n
    BY <1>0
  <2> QED BY <2>1, <2>2, <2>3
<1>8. ASSUME NEW i \in 1 .. n + 1
      PROVE  FeeOK(frames', i)
  <2>1. CASE i \in 1 .. n
    <3>1. i \in Nat \ {0} /\ 1 .. i \subseteq 1 .. n
      BY <1>0, <2>1
    <3> QED BY <1>3, <1>6, <2>1, <3>1, FeeSame
  <2> QED BY <1>0, <1>3, <2>1
<1>9. ASSUME NEW i \in 1 .. n + 1, NEW j \in 1 .. n + 1, i < j,
             IsSafe(frames'[i]), IsSafe(frames'[j])
      PROVE  frames'[i].number < frames'[j].number
  <2>1. i \in 1 .. n /\ frames'[i] = frames[i] /\ frames[i] \in Frames
    BY <1>1, <1>2, <1>9
  <2>2. CASE j = n + 1
    <3>1. frames[i].number <= world.safeCalls
      BY <1>3, <1>9, <2>1 DEF FlagsOK
    <3>2. f.number > world.safeCalls /\ frames'[j].number = f.number
          /\ frames'[i].number = frames[i].number
      BY <1>2, <1>9, <2>1, <2>2
    <3>3. frames[i].number \in Nat /\ world.safeCalls \in Nat /\ f.number \in Nat
      BY <1>1, <2>1, FrameTypes, WorldTypes
    <3> QED BY <3>1, <3>2, <3>3
  <2>3. CASE j \in 1 .. n
    BY <1>2, <1>4, <1>9, <2>1, <2>3
  <2>4. j = n + 1 \/ j \in 1 .. n
    BY <1>0
  <2> QED BY <2>2, <2>3, <2>4
<1> QED BY <1>2, <1>3, <1>5, <1>7, <1>8, <1>9 DEF IInv, NumbersGrow, n

-----------------------------------------------------------------------------
(* Every step keeps the invariant *)

\* Initially no flag is set and no frame is open.
LEMMA InitIInv ==
  ASSUME SafeCallInit
  PROVE  IInv
<1>1. /\ frames = <<>> /\ frames \in Seq(Frames) /\ Len(frames) = 0 /\ txs = 0
      /\ world = Deployed
  BY DEF SafeCallInit
<1>2. world \in Worlds /\ ~world.flags.active
  BY <1>1, SafeCallAssumption DEF Deployed, NoFlags, Worlds
<1>3. CallTypeOK
  BY <1>1, <1>2, SafeCallAssumption DEF CallTypeOK
<1>4. FlagsOK(world, frames, Len(frames)) /\ NumbersGrow(frames)
  BY <1>1, <1>2 DEF FlagsOK, NumbersGrow
<1> QED BY <1>1, <1>3, <1>4 DEF IInv

\* What a frame of unknown code, or of a call, is.
LEMMA FrameIsTyped ==
  ASSUME NEW kind \in {"code", "body", "safe"}, NEW sender \in Accounts, NEW value \in Nat,
         world \in Worlds
  PROVE  /\ Frame(kind, sender, value) \in Frames
         /\ Frame(kind, sender, value).saved = world
         /\ Frame(kind, sender, value).kind = kind
         /\ Frame(kind, sender, value).entry = <<>>
BY SafeCallAssumption DEF Frame, Frames

\* A call that no approval stands for, while the world stays.
LEMMA PlainPush ==
  ASSUME IInv, NEW kind \in {"code", "body"}, NEW sender \in Accounts, NEW value \in Nat,
         frames' = Append(frames, Frame(kind, sender, value)),
         world' = world, txs' \in 0 .. MaxTxs
  PROVE  IInv'
<1> DEFINE f == Frame(kind, sender, value)
           n == Len(frames)
<1>1. frames \in Seq(Frames) /\ world \in Worlds /\ n \in Nat
  BY DEF IInv, CallTypeOK
<1>2. f \in Frames /\ f.saved = world /\ ~IsSafe(f) /\ ~Protected(f)
  BY <1>1, FrameIsTyped DEF IsSafe, Protected
<1>3. frames' = Append(frames, f) /\ FlagsOK(world, frames, n)
  BY DEF IInv
<1> HIDE DEF f, n
<1>4. n = Len(frames)
  BY DEF n
<1>5. frames'[n + 1] = f /\ \A i \in 1 .. n : frames'[i] = frames[i]
  BY <1>1, <1>2, <1>3, <1>4, AppendProperties
<1>6. FeeOK(frames', n + 1)
  BY <1>2, <1>5 DEF FeeOK
<1>7. FlagsOK(world', frames', n + 1)
  <2>1. \A j \in 1 .. n : SameCall(frames'[j], frames[j])
    BY <1>5 DEF SameCall
  <2>2. FlagsOK(world, frames', n)
    BY <1>1, <1>3, <2>1, FlagsSame
  <2>3. ~IsSafe(frames'[n + 1]) /\ 1 .. n + 1 = (1 .. n) \cup {n + 1}
    BY <1>1, <1>2, <1>5
  <2> QED BY <2>2, <2>3 DEF FlagsOK
<1> QED BY <1>1, <1>2, <1>3, <1>4, <1>6, <1>7, PushStep

\* A protected call is told the value less the fee only while the flags are its
\* sender's, and these are those of a safeFunctionCall under way.
LEMMA ProtectedCallStep ==
  ASSUME IInv, NEW sender \in Accounts, NEW value \in Nat, ProtectedCall(sender, value),
         frames # <<>> /\ IsSafe(Top) => sender = Top.sender
  PROVE  IInv'
<1> DEFINE n == Len(frames)
<1>1. frames \in Seq(Frames) /\ world \in Worlds /\ n \in Nat
  BY DEF IInv, CallTypeOK
<1>2. PICK told \in _msgValue(sender, value) :
        /\ Pops(sender, told) /\ txs' = txs
        /\ frames' = Append(frames, [Frame("body", sender, value) EXCEPT
             !.told = told, !.latest = world.safeCalls, !.entry = Last(world.approved)])
  BY DEF ProtectedCall, Push
<1>3. /\ told = (IF OwnFlags(sender) THEN value - world.flags.fee ELSE value)
      /\ told \in Nat
  BY <1>1, <1>2, WorldTypes DEF _msgValue
<1>4. /\ world.approved # <<>> /\ world' = [world EXCEPT !.approved = Front(world.approved)]
      /\ world.approved \in Seq(Entries)
  BY <1>1, <1>2, WorldTypes DEF Pops
<1> DEFINE e == Last(world.approved)
           f == [Frame("body", sender, value) EXCEPT
                   !.told = told, !.latest = world.safeCalls, !.entry = e]
<1>5. e \in Entries /\ Front(world.approved) \in Seq(Entries)
  BY <1>4 DEF Last, Front
<1>6. world' \in Worlds /\ world'.flags = world.flags /\ world'.safeCalls = world.safeCalls
  BY <1>1, <1>4, <1>5 DEF Worlds
<1>7. /\ f.kind = "body" /\ f.sender = sender /\ f.value = value /\ f.saved = world
      /\ f.told = told /\ f.latest = world.safeCalls
  BY DEF Frame
<1>8. f \in Frames
  <2>1. Frame("body", sender, value) \in Frames /\ world.safeCalls \in 0 .. MaxSafeCalls
    BY <1>1, FrameIsTyped, WorldTypes
  <2> HIDE DEF e
  <2> QED BY <1>3, <1>5, <2>1 DEF Frames
<1>9. frames' = Append(frames, f) /\ txs' \in 0 .. MaxTxs /\ FlagsOK(world, frames, n)
  BY <1>2 DEF IInv, CallTypeOK
<1> HIDE DEF f, n
<1>10. n = Len(frames)
  BY DEF n
<1>11. frames'[n + 1] = f /\ \A i \in 1 .. n : frames'[i] = frames[i]
  BY <1>1, <1>8, <1>9, <1>10, AppendProperties
<1>12. FlagsOK(world, frames', n)
  <2>1. \A j \in 1 .. n : SameCall(frames'[j], frames[j])
    BY <1>11 DEF SameCall
  <2> QED BY <1>1, <1>9, <2>1, FlagsSame
<1>13. FlagsOK(world', frames', n + 1)
  <2>1. ~IsSafe(frames'[n + 1]) /\ 1 .. n + 1 = (1 .. n) \cup {n + 1}
    BY <1>1, <1>7, <1>11 DEF IsSafe
  <2>2. FlagsOK(world', frames', n)
    BY <1>6, <1>12, SameFlags
  <2> QED BY <2>1, <2>2 DEF FlagsOK
<1>14. FeeOK(frames', n + 1)
  <2>1. ASSUME NEW j \in 1 .. n, IsLatest(frames', n + 1, j)
        PROVE  f.told = f.value - frames'[j].fee
    <3>1. IsSafe(frames'[j]) /\ frames'[j].number = world.safeCalls /\ frames'[j].sender = sender
      BY <1>7, <1>11, <2>1 DEF IsLatest
    <3>2. /\ world.flags.active /\ frames'[j].sender = world.flags.caller
          /\ frames'[j].fee = world.flags.fee
      BY <1>12, <3>1 DEF FlagsOK
    <3> QED BY <1>3, <1>7, <3>1, <3>2 DEF OwnFlags
  <2>2. ASSUME \A j \in 1 .. n : ~IsLatest(frames', n + 1, j)
        PROVE  f.told = f.value
    <3>1. ~OwnFlags(sender)
      <4> SUFFICES ASSUME OwnFlags(sender) PROVE FALSE
        OBVIOUS
      <4>1. PICK j \in 1 .. n : /\ IsSafe(frames'[j]) /\ frames'[j].number = world.safeCalls
                                /\ frames'[j].sender = world.flags.caller
        BY <1>12 DEF FlagsOK, OwnFlags
      <4>2. IsLatest(frames', n + 1, j)
        BY <1>7, <1>11, <4>1 DEF IsLatest, OwnFlags
      <4> QED BY <2>2, <4>2
    <3> QED BY <1>3, <1>7, <3>1
  <2>3. (n + 1) - 1 = n
    BY <1>1
  <2> QED BY <1>11, <2>1, <2>2, <2>3 DEF FeeOK
<1> QED BY <1>1, <1>6, <1>7, <1>8, <1>9, <1>10, <1>13, <1>14, PushStep DEF IsSafe

\* The flags become those of the call that begins.
LEMMA SafeFunctionCallStep ==
  ASSUME IInv, NEW sender \in Accounts, NEW value \in Nat, NEW fee \in Fees,
         safeFunctionCall(sender, value, fee)
  PROVE  IInv'
<1> DEFINE n == Len(frames)
           k == world.safeCalls + 1
           stage == IF world.attestationCenterProxy THEN "proxy" ELSE "data"
           f == [Frame("safe", sender, value) EXCEPT
                   !.stage = stage, !.fee = fee, !.number = k]
<1>1. /\ frames \in Seq(Frames) /\ world \in Worlds /\ n \in Nat /\ fee \in Nat
      /\ txs' \in 0 .. MaxTxs /\ FlagsOK(world, frames, n)
  BY SafeCallAssumption DEF IInv, CallTypeOK, safeFunctionCall
<1>2. k \in 0 .. MaxSafeCalls /\ k > world.safeCalls
  BY <1>1, WorldTypes, SafeCallAssumption DEF safeFunctionCall
<1>3. /\ frames' = Append(frames, f)
      /\ world' = [world EXCEPT !.safeCalls = k,
                     !.flags = [active |-> TRUE, caller |-> sender, fee |-> fee]]
  BY DEF safeFunctionCall, Push
<1>4. /\ world' \in Worlds /\ world'.safeCalls = k
      /\ world'.flags.active /\ world'.flags.caller = sender /\ world'.flags.fee = fee
  BY <1>1, <1>2, <1>3 DEF Worlds
<1>5. /\ f.kind = "safe" /\ f.sender = sender /\ f.fee = fee /\ f.number = k
      /\ f.saved = world
  BY DEF Frame
<1>6. f \in Frames
  <2>1. Frame("safe", sender, value) \in Frames /\ stage \in {"proxy", "data"}
    BY <1>1, FrameIsTyped
  <2> HIDE DEF k, stage
  <2> QED BY <1>1, <1>2, <2>1 DEF Frames
<1> HIDE DEF f, n, k
<1>7. n = Len(frames)
  BY DEF n
<1>8. frames'[n + 1] = f /\ \A i \in 1 .. n : frames'[i] = frames[i] /\ frames[i] \in Frames
  BY <1>1, <1>3, <1>6, <1>7, AppendProperties
<1>9. FlagsOK(world', frames', n + 1)
  <2>1. \A j \in 1 .. n : IsSafe(frames'[j]) => frames'[j].number <= world.safeCalls
    BY <1>1, <1>8 DEF FlagsOK
  <2>2. /\ world.safeCalls \in Nat /\ k \in Nat
        /\ \A j \in 1 .. n : frames'[j].number \in Nat
    BY <1>1, <1>2, <1>8, WorldTypes, FrameTypes, SafeCallAssumption
  <2>3. \A j \in 1 .. n : IsSafe(frames'[j]) => frames'[j].number < k
    BY <1>2, <2>1, <2>2
  <2>4. 1 .. n + 1 = (1 .. n) \cup {n + 1}
    BY <1>1
  <2>5. world'.flags.active => \E j \in 1 .. n + 1 :
          /\ IsSafe(frames'[j]) /\ frames'[j].number = world'.safeCalls
          /\ frames'[j].sender = world'.flags.caller /\ frames'[j].fee = world'.flags.fee
    BY <1>4, <1>5, <1>8, <2>4 DEF IsSafe
  <2>6. ASSUME NEW j \in 1 .. n + 1, IsSafe(frames'[j])
        PROVE  /\ frames'[j].number <= world'.safeCalls
               /\ frames'[j].number = world'.safeCalls =>
                    /\ world'.flags.active /\ frames'[j].sender = world'.flags.caller
                    /\ frames'[j].fee = world'.flags.fee
    <3>1. CASE j = n + 1
      BY <1>4, <1>5, <1>8, <2>2, <3>1
    <3>2. CASE j \in 1 .. n
      <4>1. frames'[j].number < k /\ frames'[j].number \in Nat
        BY <2>2, <2>3, <2>6, <3>2
      <4> QED BY <1>4, <2>2, <4>1
    <3> QED BY <2>4, <3>1, <3>2
  <2> QED BY <2>5, <2>6 DEF FlagsOK
<1>10. FeeOK(frames', n + 1)
  BY <1>5, <1>8 DEF FeeOK, Protected
<1> QED BY <1>1, <1>2, <1>3, <1>4, <1>5, <1>6, <1>7, <1>9, <1>10, PushStep

\* A call of the consumer, with whatever value or from inside another.
LEMMA CallConsumerStep ==
  ASSUME IInv, CallConsumer
  PROVE  IInv'
<1>1. PICK sender, value : /\ sender \in Accounts /\ value \in Nat /\ Calls(sender, value)
                           /\ frames # <<>> /\ (IsSafe(Top) => sender = Top.sender)
  <2>1. frames \in Seq(Frames)
    BY DEF IInv, CallTypeOK
  <2>2. CASE In("code") /\ \E value \in Values : Calls(Top.sender, value)
    <3>1. Top.sender \in Accounts
      BY <2>1, <2>2, BelowSame, FrameTypes DEF In
    <3> QED BY <2>2, <3>1, SafeCallAssumption DEF In, IsSafe
  <2>3. CASE Delegates /\ Calls(Top.sender, Top.value)
    <3>1. frames # <<>>
      BY <2>3 DEF Delegates, At, In
    <3>2. Top.sender \in Accounts /\ Top.value \in Nat
      BY <2>1, <3>1, BelowSame, FrameTypes
    <3> QED BY <2>3, <3>1, <3>2
  <2> QED BY <2>2, <2>3 DEF CallConsumer
<1>2. CASE ProtectedCall(sender, value)
  BY <1>1, <1>2, ProtectedCallStep
<1>3. CASE PlainCall(sender, value)
  <2>1. frames' = Append(frames, Frame("body", sender, value)) /\ world' = world
        /\ txs' \in 0 .. MaxTxs
    BY <1>3 DEF PlainCall, Push, IInv, CallTypeOK
  <2> QED BY <1>1, <2>1, PlainPush
<1>4. CASE \E fee \in Fees : safeFunctionCall(sender, value, fee)
  BY <1>1, <1>4, SafeFunctionCallStep
<1> QED BY <1>1, <1>2, <1>3, <1>4 DEF Calls

\* Unknown code gets control, in a transaction of its own or inside one.
LEMMA CodeStep ==
  ASSUME IInv, NEW a \in Accounts, BeginTx(a) \/ CallCode(a)
  PROVE  IInv'
<1>1. CASE BeginTx(a)
  <2>1. frames' = Append(frames, Frame("code", a, 0)) /\ world' = world
    BY <1>1 DEF BeginTx
  <2>2. txs' \in 0 .. MaxTxs
    BY <1>1, SafeCallAssumption DEF BeginTx, IInv, CallTypeOK
  <2> QED BY <2>1, <2>2, PlainPush
<1>2. CASE CallCode(a)
  <2>1. frames' = Append(frames, Frame("code", a, 0)) /\ world' = world
        /\ txs' \in 0 .. MaxTxs
    BY <1>2 DEF CallCode, Push, IInv, CallTypeOK
  <2> QED BY <2>1, PlainPush
<1> QED BY <1>1, <1>2

\* Without the call on top, the flags are still those of a call below unless the
\* one on top is a safeFunctionCall.
LEMMA ReturnStep ==
  ASSUME IInv, Return
  PROVE  IInv'
<1> DEFINE n == Len(frames)
<1>1. /\ frames \in Seq(Frames) /\ frames # <<>> /\ world \in Worlds /\ txs' = txs
      /\ FlagsOK(world, frames, n) /\ ~IsSafe(Top) /\ frames' = Returned(Below)
      /\ world' = IF n = 1 THEN Discarded(world) ELSE world
  BY DEF IInv, CallTypeOK, Return, In, IsSafe
<1>2. n \in Nat \ {0} /\ Top = frames[n]
  BY <1>1, BelowSame DEF Top
<1>3. FlagsOK(world, frames, n - 1)
  <2>1. 1 .. n = (1 .. n - 1) \cup {n}
    BY <1>2
  <2> HIDE DEF n
  <2> QED BY <1>1, <1>2, <2>1 DEF FlagsOK
<1>4. Discarded(world) \in Worlds /\ ~Discarded(world).flags.active
  <2>1. <<>> \in Seq(Entries) /\ 0 \in 0 .. MaxSafeCalls
    BY SafeCallAssumption
  <2>2. /\ NoFlags \in [active : BOOLEAN, caller : Accounts \cup {Nobody}, fee : Nat]
        /\ ~NoFlags.active
    BY DEF NoFlags
  <2>3. Discarded(world) = [world EXCEPT !.flags = NoFlags, !.approved = <<>>, !.safeCalls = 0]
    BY DEF Discarded
  <2> QED BY <1>1, <2>1, <2>2, <2>3 DEF Worlds
<1>5. n = 1 => FlagsOK(Discarded(world), frames, n - 1)
  BY <1>4 DEF FlagsOK
<1>6. world' \in Worlds /\ FlagsOK(world', frames, n - 1)
  BY <1>1, <1>3, <1>4, <1>5
<1> QED BY <1>1, <1>6, PopStep

\* A revert goes back to a world that was sound when the call began.
LEMMA RevertStep ==
  ASSUME IInv, Revert
  PROVE  IInv'
<1>1. /\ frames \in Seq(Frames) /\ frames # <<>> /\ txs' = txs
      /\ frames' = Failed(Below) /\ world' = Top.saved
  BY DEF IInv, CallTypeOK, Revert
<1>2. Len(frames) \in 1 .. Len(frames) /\ Top = frames[Len(frames)] /\ Top.saved \in Worlds
  BY <1>1, BelowSame, FrameTypes DEF Top
<1>3. FlagsOK(Top.saved, frames, Len(frames) - 1)
  BY <1>2 DEF IInv
<1> QED BY <1>1, <1>2, <1>3, PopStep

\* The flags of the calls below are gone with those of the one that ends, which
\* began after them.
LEMMA SafeFunctionReturnsStep ==
  ASSUME IInv, SafeFunctionReturns
  PROVE  IInv'
<1> DEFINE n == Len(frames)
<1>1. /\ frames \in Seq(Frames) /\ frames # <<>> /\ world \in Worlds /\ txs' = txs
      /\ IsSafe(Top) /\ frames' = Returned(Below)
      /\ world' = [world EXCEPT !.flags = NoFlags]
      /\ FlagsOK(world, frames, n) /\ NumbersGrow(frames)
  BY DEF IInv, CallTypeOK, SafeFunctionReturns, At, In, IsSafe, _deInitSafeFunctionCallFlags
<1>2. n \in Nat \ {0} /\ Top = frames[n] /\ \A j \in 1 .. n : frames[j] \in Frames
  BY <1>1, BelowSame DEF Top
<1>3. world' \in Worlds /\ ~world'.flags.active /\ world'.safeCalls = world.safeCalls
  BY <1>1, SafeCallAssumption DEF NoFlags, Worlds
<1>4. ASSUME NEW j \in 1 .. n - 1, IsSafe(frames[j])
      PROVE  frames[j].number < world.safeCalls
  <2>1. j \in 1 .. n /\ n \in 1 .. n /\ j < n
    BY <1>2
  <2>2. frames[j].number < frames[n].number /\ frames[n].number <= world.safeCalls
    BY <1>1, <1>2, <1>4, <2>1 DEF NumbersGrow, FlagsOK
  <2>3. /\ frames[j].number \in Nat /\ frames[n].number \in Nat /\ world.safeCalls \in Nat
    BY <1>1, <1>2, <2>1, FrameTypes, WorldTypes
  <2> QED BY <2>2, <2>3
<1>5. world.safeCalls \in Nat /\ \A j \in 1 .. n - 1 : frames[j].number \in Nat
  <2>1. 1 .. n - 1 \subseteq 1 .. n
    BY <1>2
  <2> QED BY <1>1, <1>2, <2>1, FrameTypes, WorldTypes
<1>6. FlagsOK(world', frames, n - 1)
  <2>1. \A j \in 1 .. n - 1 : IsSafe(frames[j]) =>
          frames[j].number <= world'.safeCalls /\ frames[j].number # world'.safeCalls
    BY <1>3, <1>4, <1>5
  <2> HIDE DEF n
  <2> QED BY <1>3, <2>1 DEF FlagsOK
<1> QED BY <1>1, <1>3, <1>6, PopStep

\* When the proxy returns, the call runs with the flags its own safeFunctionCall set.
LEMMA ProxyReturnsStep ==
  ASSUME IInv, ProxyReturns
  PROVE  IInv'
<1>1. /\ frames \in Seq(Frames) /\ frames # <<>> /\ txs' = txs /\ world' = world
      /\ frames' = [frames EXCEPT ![Len(frames)].stage = "data"]
      /\ world \in Worlds /\ txs \in 0 .. MaxTxs /\ FlagsOK(world, frames, Len(frames))
  BY DEF IInv, CallTypeOK, ProxyReturns, At, In, Stage
<1>2. /\ frames' \in Seq(Frames) /\ Len(frames') = Len(frames)
      /\ \A i \in 1 .. Len(frames) : SameCall(frames'[i], frames[i])
  BY <1>1, StageSame
<1>3. Len(frames) \in 0 .. Len(frames)
  BY <1>1
<1> QED BY <1>1, <1>2, <1>3, SameCallsStep

\* A task replaces what was approved and leaves the flags.
LEMMA SubmitTaskStep ==
  ASSUME IInv, NEW s \in TaskDefinitions, SubmitTask(s)
  PROVE  IInv'
<1>1. PICK attested \in {HaveAttested(s, a) : a \in Accepted(s)}, list \in Approvals :
        world' = [world EXCEPT !.approved =
          [i \in DOMAIN list |-> [sender |-> list[i].sender, value |-> list[i].value,
                                  tx |-> txs, attested |-> attested]]]
  BY DEF SubmitTask
<1>2. /\ frames' = frames /\ txs' = txs /\ world \in Worlds /\ txs \in 0 .. MaxTxs
      /\ FlagsOK(world, frames, Len(frames))
  BY DEF SubmitTask, IInv, CallTypeOK
<1>3. attested \in BOOLEAN
  <2>1. PICK a \in Accepted(s) : attested = HaveAttested(s, a)
    BY <1>1
  <2> QED BY <2>1 DEF HaveAttested
<1> DEFINE entry(i) == [sender |-> list[i].sender, value |-> list[i].value,
                        tx |-> txs, attested |-> attested]
           new == [i \in DOMAIN list |-> entry(i)]
<1>4. new \in Seq(Entries)
  <2> DEFINE Approvable == [sender : Accounts, value : Nat]
  <2>1. /\ list \in Seq(Approvable) /\ Len(list) \in Nat /\ DOMAIN list = 1 .. Len(list)
        /\ \A i \in 1 .. Len(list) : list[i] \in Approvable
    <3>1. list \in Seq(Approvable)
      BY SafeCallAssumption
    <3> HIDE DEF Approvable
    <3> QED BY <3>1
  <2>2. \A i \in 1 .. Len(list) : list[i].sender \in Accounts /\ list[i].value \in Nat
    BY <2>1
  <2>3. \A i \in 1 .. Len(list) : entry(i) \in Entries
    BY <1>2, <1>3, <2>2 DEF Entries
  <2>4. new \in [1 .. Len(list) -> Entries]
    <3> HIDE DEF entry
    <3> QED BY <2>1, <2>3
  <2> HIDE DEF new
  <2> QED BY <2>1, <2>4, SeqDef
<1>5. world' = [world EXCEPT !.approved = new]
  BY <1>1
<1> HIDE DEF new
<1>6. world' \in Worlds /\ world'.flags = world.flags /\ world'.safeCalls = world.safeCalls
  BY <1>2, <1>4, <1>5 DEF Worlds
<1>7. FlagsOK(world', frames, Len(frames))
  BY <1>2, <1>6, SameFlags
<1> QED BY <1>2, <1>6, <1>7, WorldStep

\* Settings change while nobody calls.
LEMMA SettingsStep ==
  ASSUME IInv, NEW b \in BOOLEAN,
         setAttestationCenterProxy(b) \/ setAllowNonZeroUserNativeFee(b)
  PROVE  IInv'
<1>1. /\ frames' = frames /\ txs' = txs /\ world \in Worlds
      /\ FlagsOK(world, frames, Len(frames))
  BY DEF setAttestationCenterProxy, setAllowNonZeroUserNativeFee, IInv, CallTypeOK
<1>2. world' \in Worlds /\ world'.flags = world.flags /\ world'.safeCalls = world.safeCalls
  BY <1>1 DEF setAttestationCenterProxy, setAllowNonZeroUserNativeFee, Worlds
<1>3. FlagsOK(world', frames, Len(frames))
  BY <1>1, <1>2, SameFlags
<1> QED BY <1>1, <1>2, <1>3, WorldStep

\* Steps of the registry, and steps of others.
LEMMA OtherStep ==
  ASSUME IInv, UNCHANGED callVars
  PROVE  IInv'
<1>1. UNCHANGED <<world, frames, txs>>
  BY DEF callVars
<1> QED BY <1>1 DEF IInv, CallTypeOK

\* Every step keeps the invariant.
LEMMA NextStep ==
  ASSUME IInv, [SafeCallNext]_<<vars, callVars>>
  PROVE  IInv'
<1>1. CASE Return
  BY <1>1, ReturnStep
<1>2. CASE Revert
  BY <1>2, RevertStep
<1>3. CASE ProxyReturns
  BY <1>3, ProxyReturnsStep
<1>4. CASE SafeFunctionReturns
  BY <1>4, SafeFunctionReturnsStep
<1>5. CASE CallConsumer
  BY <1>5, CallConsumerStep
<1>6. CASE \E a \in Accounts : BeginTx(a) \/ CallCode(a)
  BY <1>6, CodeStep
<1>7. CASE \E b \in BOOLEAN : setAttestationCenterProxy(b) \/ setAllowNonZeroUserNativeFee(b)
  BY <1>7, SettingsStep
<1>8. CASE \E s \in TaskDefinitions : SubmitTask(s)
  BY <1>8, SubmitTaskStep
<1>9. CASE UNCHANGED callVars
  BY <1>9, OtherStep
<1> QED
  BY <1>1, <1>2, <1>3, <1>4, <1>5, <1>6, <1>7, <1>8, <1>9 DEF SafeCallNext, CallNext

-----------------------------------------------------------------------------
(* ArrayHelpers: one pass over two arrays *)

Places(a, b) == (1 .. Len(a) + 1) \X (1 .. Len(b) + 1)

\* What the scan g is at a place, from what it is further on.
ScanStep(g, a, b, at) ==
  LET i == at[1]
      j == at[2]
  IN  IF i > Len(a) THEN 0
      ELSE IF j > Len(b) THEN a[i]
      ELSE IF a[i] = b[j] THEN g[<<i + 1, j + 1>>]
      ELSE IF a[i] > b[j] THEN g[<<i, j + 1>>]
      ELSE a[i]

IsScan(g, a, b) == g = [at \in Places(a, b) |-> ScanStep(g, a, b, at)]

\* The scan is sound from column k of the second array on.
ScansFrom(g, a, b, k) ==
  \A at \in Places(a, b) : at[2] >= k => g[at] = ScanStep(g, a, b, at)

\* The answer is what the scan is at the first place.
LEMMA ScanIs ==
  ASSUME NEW a, NEW b
  PROVE  verifyArraySubset(a, b) = (CHOOSE g : IsScan(g, a, b))[<<1, 1>>]
BY DEF verifyArraySubset, IsScan, ScanStep, Places

\* The scan exists: its columns follow from the last to the first.
LEMMA ScanExists ==
  ASSUME NEW a \in Seq(Nat), NEW b \in Seq(Nat)
  PROVE  \E g : IsScan(g, a, b)
<1> DEFINE P == Places(a, b)
           m == Len(b) + 1
           N == {n \in Nat : n <= m => \E g \in [P -> Nat] : ScansFrom(g, a, b, m + 1 - n)}
<1>1. /\ m \in Nat \ {0} /\ Len(a) \in Nat /\ Len(b) \in Nat
      /\ \A at \in P : at[1] \in 1 .. Len(a) + 1 /\ at[2] \in 1 .. m
      /\ \A i \in 1 .. Len(a) + 1, j \in 1 .. m : <<i, j>> \in P
  BY DEF Places
<1>2. ASSUME NEW g \in [P -> Nat], NEW at \in P
      PROVE  ScanStep(g, a, b, at) \in Nat
  <2> DEFINE i == at[1]
             j == at[2]
  <2>1. i \in 1 .. Len(a) + 1 /\ j \in 1 .. m
    BY <1>1
  <2>2. CASE i > Len(a)
    BY <2>2 DEF ScanStep
  <2>3. CASE ~(i > Len(a))
    <3>1. i \in 1 .. Len(a) /\ a[i] \in Nat
      BY <1>1, <2>1, <2>3
    <3>2. CASE j > Len(b)
      BY <2>3, <3>1, <3>2 DEF ScanStep
    <3>3. CASE ~(j > Len(b))
      <4>1. <<i + 1, j + 1>> \in P /\ <<i, j + 1>> \in P
        <5>1. i + 1 \in 1 .. Len(a) + 1 /\ j + 1 \in 1 .. m
          <6> HIDE DEF i, j, P
          <6> QED BY <1>1, <2>1, <3>1, <3>3
        <5> QED BY <1>1, <2>1, <5>1
      <4>2. g[<<i + 1, j + 1>>] \in Nat /\ g[<<i, j + 1>>] \in Nat
        BY <4>1
      <4> HIDE DEF P, m
      <4> QED BY <2>3, <3>1, <3>3, <4>2 DEF ScanStep
    <3> QED BY <3>2, <3>3
  <2> QED BY <2>2, <2>3
<1>3. ASSUME NEW g, NEW h, NEW at \in P,
             \A x \in P : x[2] = at[2] + 1 => g[x] = h[x]
      PROVE  ScanStep(g, a, b, at) = ScanStep(h, a, b, at)
  <2> DEFINE i == at[1]
             j == at[2]
  <2>1. i \in 1 .. Len(a) + 1 /\ j \in 1 .. m
    BY <1>1
  <2>2. CASE i > Len(a) \/ j > Len(b)
    BY <2>2 DEF ScanStep
  <2>3. CASE ~(i > Len(a) \/ j > Len(b))
    <3>1. i + 1 \in 1 .. Len(a) + 1 /\ j + 1 \in 1 .. m
      <4> HIDE DEF i, j, P
      <4> QED BY <1>1, <2>1, <2>3
    <3>2. <<i + 1, j + 1>> \in P /\ <<i, j + 1>> \in P
      BY <1>1, <2>1, <3>1
    <3>3. g[<<i + 1, j + 1>>] = h[<<i + 1, j + 1>>] /\ g[<<i, j + 1>>] = h[<<i, j + 1>>]
      BY <1>3, <3>2
    <3> QED BY <3>3 DEF ScanStep
  <2> QED BY <2>2, <2>3
<1>4. 0 \in N
  <2>1. [at \in P |-> 0] \in [P -> Nat]
    OBVIOUS
  <2>2. ScansFrom([at \in P |-> 0], a, b, m + 1)
    BY <1>1 DEF ScansFrom
  <2>3. m + 1 - 0 = m + 1
    BY <1>1
  <2> QED BY <2>1, <2>2, <2>3
<1>5. ASSUME NEW n \in Nat, n \in N
      PROVE  n + 1 \in N
  <2> SUFFICES ASSUME n + 1 <= m
               PROVE  \E h \in [P -> Nat] : ScansFrom(h, a, b, m + 1 - (n + 1))
    OBVIOUS
  <2>1. PICK g \in [P -> Nat] : ScansFrom(g, a, b, m + 1 - n)
    BY <1>1, <1>5
  <2> DEFINE k == m + 1 - (n + 1)
             h == [at \in P |-> IF at[2] > k THEN g[at] ELSE ScanStep(g, a, b, at)]
  <2>2. k \in Nat /\ k + 1 = m + 1 - n
    BY <1>1
  <2>3. h \in [P -> Nat]
    BY <1>2
  <2>4. ASSUME NEW at \in P, at[2] >= k
        PROVE  h[at] = ScanStep(h, a, b, at)
    <3>1. at[2] \in Nat
      BY <1>1
    <3> HIDE DEF P, k
    <3>2. h[at] = ScanStep(g, a, b, at)
      BY <2>1, <2>2, <3>1 DEF ScansFrom, P
    <3>3. \A x \in P : x[2] = at[2] + 1 => g[x] = h[x]
      BY <2>2, <2>4, <3>1
    <3> HIDE DEF h
    <3>4. ScanStep(g, a, b, at) = ScanStep(h, a, b, at)
      BY <1>3, <3>3
    <3> QED BY <3>2, <3>4
  <2>5. ScansFrom(h, a, b, k)
    BY <2>4 DEF ScansFrom
  <2> QED BY <2>3, <2>5
<1>6. m \in N
  <2> HIDE DEF N
  <2> QED BY <1>1, <1>4, <1>5, SetInduction
<1>7. PICK g \in [P -> Nat] : ScansFrom(g, a, b, m + 1 - m)
  BY <1>1, <1>6
<1>8. \A at \in P : g[at] = ScanStep(g, a, b, at)
  BY <1>1, <1>7 DEF ScansFrom
<1>9. g = [at \in P |-> ScanStep(g, a, b, at)]
  BY <1>8
<1> QED BY <1>9 DEF IsScan

\* What the scan does at a place.
LEMMA ScanSteps ==
  ASSUME NEW a \in Seq(Nat), NEW b \in Seq(Nat)
  PROVE  \E g : /\ verifyArraySubset(a, b) = g[<<1, 1>>]
                /\ \A i \in 1 .. Len(a) + 1, j \in 1 .. Len(b) + 1 :
                     g[<<i, j>>] = IF i > Len(a) THEN 0
                                   ELSE IF j > Len(b) THEN a[i]
                                   ELSE IF a[i] = b[j] THEN g[<<i + 1, j + 1>>]
                                   ELSE IF a[i] > b[j] THEN g[<<i, j + 1>>]
                                   ELSE a[i]
<1> DEFINE g == CHOOSE f : IsScan(f, a, b)
<1>1. IsScan(g, a, b)
  BY ScanExists
<1>2. verifyArraySubset(a, b) = g[<<1, 1>>]
  BY ScanIs
<1> HIDE DEF g
<1>3. ASSUME NEW i \in 1 .. Len(a) + 1, NEW j \in 1 .. Len(b) + 1
      PROVE  g[<<i, j>>] = ScanStep(g, a, b, <<i, j>>)
  <2>1. <<i, j>> \in Places(a, b)
    BY DEF Places
  <2> HIDE DEF Places, ScanStep
  <2> QED BY <1>1, <2>1 DEF IsScan
<1> QED BY <1>2, <1>3 DEF ScanStep

\* From place i on, a occurs in b from place j on.
Occurs(a, b, i, j) == \A k \in i .. Len(a) : \E l \in j .. Len(b) : a[k] = b[l]

\* A place of a is found, or a place of b is passed over.
LEMMA OccursBefore ==
  ASSUME NEW a \in Seq(Nat), NEW b \in Seq(Nat), NEW i \in 1 .. Len(a), NEW j \in 1 .. Len(b)
  PROVE  /\ a[i] = b[j] /\ Occurs(a, b, i + 1, j + 1) => Occurs(a, b, i, j)
         /\ Occurs(a, b, i, j + 1) => Occurs(a, b, i, j)
<1>1. Len(a) \in Nat /\ Len(b) \in Nat /\ \A l \in j + 1 .. Len(b) : l \in j .. Len(b)
  OBVIOUS
<1>2. ASSUME a[i] = b[j], Occurs(a, b, i + 1, j + 1), NEW k \in i .. Len(a)
      PROVE  \E l \in j .. Len(b) : a[k] = b[l]
  <2>1. CASE k = i
    BY <1>1, <1>2, <2>1
  <2>2. CASE k # i
    <3>1. k \in i + 1 .. Len(a)
      BY <1>1, <2>2
    <3>2. PICK l \in j + 1 .. Len(b) : a[k] = b[l]
      BY <1>2, <3>1 DEF Occurs
    <3> QED BY <1>1, <3>2
  <2> QED BY <2>1, <2>2
<1>3. ASSUME Occurs(a, b, i, j + 1), NEW k \in i .. Len(a)
      PROVE  \E l \in j .. Len(b) : a[k] = b[l]
  <2>1. PICK l \in j + 1 .. Len(b) : a[k] = b[l]
    BY <1>3 DEF Occurs
  <2> QED BY <1>1, <2>1
<1> QED BY <1>2, <1>3 DEF Occurs

\* In ascending arrays, what occurs is found where it must be.
LEMMA OccursAfter ==
  ASSUME NEW a \in Seq(Nat), NEW b \in Seq(Nat), Ascending(a), Ascending(b),
         NEW i \in 1 .. Len(a), NEW j \in 1 .. Len(b) + 1, Occurs(a, b, i, j)
  PROVE  /\ j <= Len(b) /\ a[i] >= b[j]
         /\ a[i] = b[j] => Occurs(a, b, i + 1, j + 1)
         /\ a[i] > b[j] => Occurs(a, b, i, j + 1)
<1>1. /\ Len(a) \in Nat /\ Len(b) \in Nat /\ DOMAIN a = 1 .. Len(a) /\ DOMAIN b = 1 .. Len(b)
      /\ \A k \in 1 .. Len(a) : a[k] \in Nat
      /\ \A l \in 1 .. Len(b) : b[l] \in Nat
  OBVIOUS
<1>2. i \in i .. Len(a)
  BY <1>1
<1>3. PICK l \in j .. Len(b) : a[i] = b[l]
  BY <1>2 DEF Occurs
<1>4. j \in 1 .. Len(b) /\ l \in 1 .. Len(b)
  BY <1>1
<1>5. a[i] >= b[j]
  <2>1. l = j \/ j < l
    BY <1>1
  <2>2. j < l => b[j] < b[l]
    BY <1>1, <1>4 DEF Ascending
  <2> QED BY <1>1, <1>3, <1>4, <2>1, <2>2
<1>6. ASSUME NEW k \in i .. Len(a), a[k] > b[j]
      PROVE  \E n \in j + 1 .. Len(b) : a[k] = b[n]
  <2>1. PICK n \in j .. Len(b) : a[k] = b[n]
    BY DEF Occurs
  <2>2. b[j] \in Nat /\ a[k] # b[j]
    BY <1>1, <1>4, <1>6
  <2>3. n # j
    BY <2>1, <2>2
  <2>4. n \in j + 1 .. Len(b)
    BY <1>1, <2>3
  <2> QED BY <2>1, <2>4
<1>7. ASSUME NEW k \in i + 1 .. Len(a)
      PROVE  k \in i .. Len(a) /\ a[k] > a[i]
  <2>1. k \in 1 .. Len(a) /\ i < k /\ k \in i .. Len(a)
    BY <1>1
  <2>2. a[i] < a[k]
    BY <1>1, <2>1 DEF Ascending
  <2>3. a[i] \in Nat /\ a[k] \in Nat
    BY <1>1, <2>1
  <2> QED BY <2>1, <2>2, <2>3
<1>8. ASSUME a[i] = b[j]
      PROVE  Occurs(a, b, i + 1, j + 1)
  BY <1>6, <1>7, <1>8 DEF Occurs
<1>9. ASSUME a[i] > b[j], NEW k \in i .. Len(a)
      PROVE  a[k] > b[j]
  <2>1. k = i \/ k \in i + 1 .. Len(a)
    BY <1>1
  <2>2. a[i] \in Nat /\ b[j] \in Nat /\ k \in 1 .. Len(a) /\ a[k] \in Nat
    BY <1>1, <1>4
  <2>3. CASE k = i
    BY <1>9, <2>3
  <2>4. CASE k \in i + 1 .. Len(a)
    <3>1. a[k] > a[i]
      BY <1>7, <2>4
    <3>2. \A x, y, z \in Nat : x > y /\ y > z => x > z
      OBVIOUS
    <3> QED BY <1>9, <2>2, <3>1, <3>2, Zenon
  <2> QED BY <2>1, <2>3, <2>4
<1>10. ASSUME a[i] > b[j]
       PROVE  Occurs(a, b, i, j + 1)
  BY <1>6, <1>9, <1>10 DEF Occurs
<1>11. j <= Len(b)
  BY <1>1, <1>4
<1> QED BY <1>5, <1>8, <1>10, <1>11

\* verifyArraySubset returns 0 only for arrays that occur in the other one
\* completely; and it does for all of them if both arrays ascend.
LEMMA SubsetIsVerified ==
  ASSUME NEW a \in Seq(Nat \ {0}), NEW b \in Seq(Nat)
  PROVE  /\ verifyArraySubset(a, b) = 0 => Range(a) \subseteq Range(b)
         /\ Ascending(a) /\ Ascending(b) /\ Range(a) \subseteq Range(b) =>
              verifyArraySubset(a, b) = 0
<1>1. /\ a \in Seq(Nat) /\ Len(a) \in Nat /\ Len(b) \in Nat
      /\ DOMAIN a = 1 .. Len(a) /\ DOMAIN b = 1 .. Len(b)
      /\ \A i \in 1 .. Len(a) : a[i] \in Nat \ {0}
      /\ \A j \in 1 .. Len(b) : b[j] \in Nat
  OBVIOUS
<1>2. PICK g : /\ verifyArraySubset(a, b) = g[<<1, 1>>]
               /\ \A i \in 1 .. Len(a) + 1, j \in 1 .. Len(b) + 1 :
                    g[<<i, j>>] = IF i > Len(a) THEN 0
                                  ELSE IF j > Len(b) THEN a[i]
                                  ELSE IF a[i] = b[j] THEN g[<<i + 1, j + 1>>]
                                  ELSE IF a[i] > b[j] THEN g[<<i, j + 1>>]
                                  ELSE a[i]
  BY <1>1, ScanSteps
<1> DEFINE Sound(i, j) == g[<<i, j>>] = 0 => Occurs(a, b, i, j)
           Complete(i, j) ==
             Ascending(a) /\ Ascending(b) /\ Occurs(a, b, i, j) => g[<<i, j>>] = 0
           N == {n \in Nat : \A i \in 1 .. Len(a) + 1, j \in 1 .. Len(b) + 1 :
                               j + n > Len(b) => Sound(i, j) /\ Complete(i, j)}
<1>3. ASSUME NEW i \in 1 .. Len(a) + 1, NEW j \in 1 .. Len(b) + 1,
             i <= Len(a) /\ j <= Len(b) =>
               /\ Sound(i + 1, j + 1) /\ Complete(i + 1, j + 1)
               /\ Sound(i, j + 1) /\ Complete(i, j + 1)
      PROVE  Sound(i, j) /\ Complete(i, j)
  <2>0. g[<<i, j>>] = IF i > Len(a) THEN 0
                      ELSE IF j > Len(b) THEN a[i]
                      ELSE IF a[i] = b[j] THEN g[<<i + 1, j + 1>>]
                      ELSE IF a[i] > b[j] THEN g[<<i, j + 1>>]
                      ELSE a[i]
    BY <1>2
  <2>1. CASE i > Len(a)
    <3>1. g[<<i, j>>] = 0
      BY <2>0, <2>1
    <3>2. Occurs(a, b, i, j)
      BY <1>1, <2>1 DEF Occurs
    <3> QED BY <3>1, <3>2
  <2>2. CASE ~(i > Len(a)) /\ j > Len(b)
    <3>1. g[<<i, j>>] = a[i] /\ i \in 1 .. Len(a) /\ a[i] # 0
      <4>1. i \in 1 .. Len(a)
        BY <1>1, <2>2
      <4>2. a[i] # 0
        BY <1>1, <4>1
      <4> QED BY <2>0, <2>2, <4>1, <4>2
    <3>2. ~(Ascending(a) /\ Ascending(b) /\ Occurs(a, b, i, j))
      <4>1. i \in 1 .. Len(a) /\ ~(j <= Len(b))
        BY <1>1, <2>2, <3>1
      <4> QED BY <1>1, <4>1, OccursAfter
    <3> QED BY <3>1, <3>2
  <2>3. CASE ~(i > Len(a)) /\ ~(j > Len(b))
    <3>1. /\ i \in 1 .. Len(a) /\ j \in 1 .. Len(b) /\ i <= Len(a) /\ j <= Len(b)
          /\ a[i] \in Nat \ {0} /\ b[j] \in Nat
      BY <1>1, <2>3
    <3>2. CASE a[i] = b[j]
      <4>1. g[<<i, j>>] = g[<<i + 1, j + 1>>]
        BY <2>0, <2>3, <3>2
      <4>2. Occurs(a, b, i + 1, j + 1) => Occurs(a, b, i, j)
        BY <1>1, <3>1, <3>2, OccursBefore
      <4>3. Ascending(a) /\ Ascending(b) /\ Occurs(a, b, i, j) => Occurs(a, b, i + 1, j + 1)
        BY <1>1, <3>1, <3>2, OccursAfter
      <4> QED BY <1>3, <3>1, <4>1, <4>2, <4>3
    <3>3. CASE a[i] > b[j]
      <4>1. g[<<i, j>>] = g[<<i, j + 1>>]
        <5>1. ~(a[i] = b[j])
          BY <3>1, <3>3
        <5> QED BY <2>0, <2>3, <3>3, <5>1
      <4>2. Occurs(a, b, i, j + 1) => Occurs(a, b, i, j)
        BY <1>1, <3>1, OccursBefore
      <4>3. Ascending(a) /\ Ascending(b) /\ Occurs(a, b, i, j) => Occurs(a, b, i, j + 1)
        BY <1>1, <3>1, <3>3, OccursAfter
      <4> QED BY <1>3, <3>1, <4>1, <4>2, <4>3
    <3>4. CASE a[i] < b[j]
      <4>1. g[<<i, j>>] = a[i] /\ a[i] # 0
        <5>1. ~(a[i] = b[j]) /\ ~(a[i] > b[j])
          BY <3>1, <3>4
        <5> QED BY <2>0, <2>3, <3>1, <5>1
      <4>2. ~(Ascending(a) /\ Ascending(b) /\ Occurs(a, b, i, j))
        <5>1. ~(a[i] >= b[j])
          BY <3>1, <3>4
        <5> QED BY <1>1, <3>1, <5>1, OccursAfter
      <4> QED BY <4>1, <4>2
    <3> QED BY <3>1, <3>2, <3>3, <3>4
  <2> QED BY <2>1, <2>2, <2>3
<1> HIDE DEF Sound, Complete
<1>4. 0 \in N
  <2>1. ASSUME NEW i \in 1 .. Len(a) + 1, NEW j \in 1 .. Len(b) + 1, j + 0 > Len(b)
        PROVE  Sound(i, j) /\ Complete(i, j)
    <3>1. ~(j <= Len(b))
      BY <1>1, <2>1
    <3> QED BY <1>3, <3>1
  <2> QED BY <2>1
<1>5. ASSUME NEW n \in Nat, n \in N
      PROVE  n + 1 \in N
  <2>1. ASSUME NEW i \in 1 .. Len(a) + 1, NEW j \in 1 .. Len(b) + 1, j + (n + 1) > Len(b)
        PROVE  Sound(i, j) /\ Complete(i, j)
    <3>1. ASSUME i <= Len(a), j <= Len(b)
          PROVE  /\ i + 1 \in 1 .. Len(a) + 1 /\ j + 1 \in 1 .. Len(b) + 1
                 /\ j + 1 + n > Len(b)
      BY <1>1, <2>1, <3>1
    <3>2. \A x \in 1 .. Len(a) + 1, y \in 1 .. Len(b) + 1 :
            y + n > Len(b) => Sound(x, y) /\ Complete(x, y)
      BY <1>5
    <3> HIDE DEF N
    <3> QED BY <1>3, <3>1, <3>2
  <2> QED BY <2>1
<1>6. Sound(1, 1) /\ Complete(1, 1)
  <2>1. Len(b) \in N
    <3> HIDE DEF N
    <3> QED BY <1>1, <1>4, <1>5, SetInduction
  <2>2. 1 \in 1 .. Len(a) + 1 /\ 1 \in 1 .. Len(b) + 1 /\ 1 + Len(b) > Len(b)
    BY <1>1
  <2> QED BY <2>1, <2>2
<1>7. Occurs(a, b, 1, 1) <=> Range(a) \subseteq Range(b)
  BY <1>1 DEF Occurs, Range
<1> QED BY <1>2, <1>6, <1>7 DEF Sound, Complete

\* Neighbours that ascend make an array that ascends (isSortedAndUnique).
LEMMA NeighboursAscend ==
  ASSUME NEW a \in Seq(Nat), isSortedAndUnique(a)
  PROVE  Ascending(a)
<1> DEFINE N == {d \in Nat : \A i \in 1 .. Len(a) : i + d + 1 <= Len(a) => a[i] < a[i + d + 1]}
<1>1. Len(a) \in Nat /\ DOMAIN a = 1 .. Len(a) /\ \A i \in 1 .. Len(a) : a[i] \in Nat
  OBVIOUS
<1>2. \A i \in 1 .. Len(a) - 1 : a[i] < a[i + 1]
  BY DEF isSortedAndUnique
<1>3. 0 \in N
  <2>1. ASSUME NEW i \in 1 .. Len(a), i + 0 + 1 <= Len(a)
        PROVE  a[i] < a[i + 0 + 1]
    <3>1. i \in 1 .. Len(a) - 1 /\ i + 0 + 1 = i + 1
      BY <1>1, <2>1
    <3> QED BY <1>2, <3>1
  <2> QED BY <2>1
<1>4. ASSUME NEW d \in Nat, d \in N
      PROVE  d + 1 \in N
  <2>1. ASSUME NEW i \in 1 .. Len(a), i + (d + 1) + 1 <= Len(a)
        PROVE  a[i] < a[i + (d + 1) + 1]
    <3> DEFINE k == i + d + 1
    <3>1. /\ k \in 1 .. Len(a) - 1 /\ k <= Len(a) /\ i + (d + 1) + 1 = k + 1
          /\ k \in 1 .. Len(a) /\ k + 1 \in 1 .. Len(a)
      BY <1>1, <2>1
    <3>2. a[i] < a[k]
      BY <1>4, <3>1
    <3> HIDE DEF k, N
    <3>3. a[k] < a[k + 1] /\ a[i] \in Nat /\ a[k] \in Nat /\ a[k + 1] \in Nat
      BY <1>1, <1>2, <3>1
    <3> QED BY <3>1, <3>2, <3>3
  <2> QED BY <2>1
<1> HIDE DEF N
<1>5. \A d \in Nat : d \in N
  BY <1>3, <1>4, SetInduction
<1>6. ASSUME NEW i \in 1 .. Len(a), NEW j \in 1 .. Len(a), i < j
      PROVE  a[i] < a[j]
  <2> DEFINE d == j - i - 1
  <2>1. d \in Nat /\ i + d + 1 = j /\ j <= Len(a)
    BY <1>1, <1>6
  <2> HIDE DEF d
  <2>2. d \in N
    BY <1>5, <2>1
  <2> QED BY <2>1, <2>2 DEF N
<1> QED BY <1>1, <1>6 DEF Ascending

\* Arrays of operators are sequences of numbers that are not 0.
LEMMA ArrayTypes ==
  ASSUME NEW a \in Arrays
  PROVE  /\ a \in Seq(Nat \ {0}) /\ a \in Seq(Nat) /\ DOMAIN a = 1 .. Len(a)
         /\ Len(a) \in Nat /\ (Len(a) = 0 <=> a = <<>>)
         /\ \A i \in DOMAIN a : a[i] \in Nat
<1>1. PICK n \in 0 .. MaxAttesters : a \in [1 .. n -> Operators]
  BY DEF Arrays
<1>2. n \in Nat /\ Operators \subseteq Nat \ {0}
  BY SubnetsAssumption
<1> DEFINE S == Nat \ {0}
<1>3. a \in [1 .. n -> S]
  BY <1>1, <1>2
<1>4. a \in Seq(S) /\ Len(a) = n /\ DOMAIN a = 1 .. n /\ \A i \in 1 .. n : a[i] \in S
  <2> HIDE DEF S
  <2> QED BY <1>2, <1>3
<1>5. a \in Seq(Nat)
  <2>1. a \in [1 .. n -> Nat]
    BY <1>3
  <2> QED BY <1>2, <2>1
<1>6. n = 0 <=> a = <<>>
  BY <1>2, <1>4
<1> QED BY <1>2, <1>4, <1>5, <1>6

-----------------------------------------------------------------------------
(* Required operators *)

RegistryInv == TypeOK /\ RequiredWhereSubscribed

\* What a policy may require ascends (_verifyVetoOperators).
LEMMA VetoAscends ==
  ASSUME NEW ids \in Arrays, NEW s \in TaskDefinitions, VetoOperatorsOK(ids, s)
  PROVE  ids \in AscendingArrays
<1>1. /\ ids \in Seq(Nat) /\ DOMAIN ids = 1 .. Len(ids) /\ Len(ids) \in Nat
      /\ (Len(ids) = 0 <=> ids = <<>>) /\ \A i \in DOMAIN ids : ids[i] \in Nat
  BY ArrayTypes
<1>2. CASE ids = <<>>
  <2>1. DOMAIN ids = {}
    BY <1>2
  <2> QED BY <2>1 DEF AscendingArrays, IdArrays, Ascending, IsInjective
<1>3. CASE ids # <<>>
  <2>1. Ascending(ids)
    BY <1>1, <1>3, NeighboursAscend DEF VetoOperatorsOK
  <2>2. IsInjective(ids)
    <3>1. ASSUME NEW i \in DOMAIN ids, NEW j \in DOMAIN ids, ids[i] = ids[j]
          PROVE  i = j
      <4>1. i \in Nat /\ j \in Nat /\ ids[i] \in Nat /\ ids[j] \in Nat
        BY <1>1
      <4>2. ~(i < j) /\ ~(j < i)
        BY <2>1, <3>1, <4>1 DEF Ascending
      <4> QED BY <4>1, <4>2
    <3> QED BY <3>1 DEF IsInjective
  <2> QED BY <2>1, <2>2 DEF AscendingArrays, IdArrays
<1> QED BY <1>2, <1>3

\* Nothing is required at first.
LEMMA RegistryInit == SafeCallInit => RegistryInv
<1> SUFFICES ASSUME SafeCallInit
             PROVE  RegistryInv
  OBVIOUS
<1>1. <<>> \in AscendingArrays
  <2>1. 0 \in 0 .. MaxAttesters /\ <<>> \in [1 .. 0 -> Operators] /\ DOMAIN <<>> = {}
    BY SubnetsAssumption
  <2>2. <<>> \in Arrays
    BY <2>1 DEF Arrays
  <2> QED BY <2>1, <2>2 DEF AscendingArrays, IdArrays, Ascending, IsInjective
<1>2. <<>> \in IdArrays
  BY <1>1 DEF AscendingArrays
<1>3. /\ protocols = {} /\ subnets = [p \in Policies |-> {}] /\ active \subseteq Operators
      /\ required = [p \in Policies |-> [s \in TaskDefinitions |-> <<>>]]
      /\ restricted = [s \in TaskDefinitions |-> <<>>]
  BY DEF SafeCallInit, Init
<1>4. TypeOK
  BY <1>1, <1>2, <1>3 DEF TypeOK
<1>5. RequiredWhereSubscribed
  BY <1>3 DEF RequiredWhereSubscribed
<1> QED BY <1>4, <1>5 DEF RegistryInv

\* Every step of the registry keeps what is required in order.
LEMMA RegistryStep ==
  ASSUME RegistryInv, SafeCallNext \/ UNCHANGED <<vars, callVars>>
  PROVE  RegistryInv'
<1>1. /\ protocols \subseteq Policies /\ subnets \in [Policies -> SUBSET TaskDefinitions]
      /\ required \in [Policies -> [TaskDefinitions -> AscendingArrays]]
      /\ active \subseteq Operators /\ restricted \in [TaskDefinitions -> IdArrays]
      /\ <<>> \in Arrays /\ <<>> \in AscendingArrays
  <2>1. 0 \in 0 .. MaxAttesters /\ <<>> \in [1 .. 0 -> Operators] /\ DOMAIN <<>> = {}
    BY SubnetsAssumption
  <2>2. <<>> \in Arrays
    BY <2>1 DEF Arrays
  <2>3. <<>> \in AscendingArrays
    BY <2>1, <2>2 DEF AscendingArrays, IdArrays, Ascending, IsInjective
  <2> QED BY <2>2, <2>3 DEF RegistryInv, TypeOK
<1>2. CASE UNCHANGED registryVars
  BY <1>2 DEF RegistryInv, TypeOK, RequiredWhereSubscribed, registryVars, vars
<1>3. ASSUME NEW p \in Policies, RegisterProtocol(p)
      PROVE  RegistryInv'
  BY <1>3 DEF RegistryInv, TypeOK, RequiredWhereSubscribed, RegisterProtocol
<1>4. ASSUME NEW p \in Policies, NEW s \in TaskDefinitions, UnsubscribeSubnet(p, s)
      PROVE  RegistryInv'
  <2>1. /\ p \in protocols /\ protocols' = protocols /\ active' = active
        /\ restricted' = restricted
        /\ subnets' = [subnets EXCEPT ![p] = subnets[p] \ {s}]
        /\ required' = [required EXCEPT ![p] = [required[p] EXCEPT ![s] = <<>>]]
    BY <1>4 DEF UnsubscribeSubnet
  <2>2. TypeOK'
    BY <1>1, <2>1 DEF TypeOK
  <2>3. ASSUME NEW q \in Policies, NEW r \in TaskDefinitions, required'[q][r] # <<>>
        PROVE  q \in protocols' /\ r \in subnets'[q]
    <3>1. ~(q = p /\ r = s) /\ required[q][r] # <<>>
      BY <1>1, <2>1, <2>3
    <3>2. q \in protocols /\ r \in subnets[q]
      BY <3>1 DEF RegistryInv, RequiredWhereSubscribed
    <3> QED BY <1>1, <2>1, <3>1, <3>2
  <2> QED BY <2>2, <2>3 DEF RegistryInv, RequiredWhereSubscribed
<1>5. ASSUME NEW p \in Policies, NEW s \in TaskDefinitions, NEW ids \in Arrays,
             SubscribeSubnet(p, s, ids)
      PROVE  RegistryInv'
  <2>1. /\ p \in protocols /\ protocols' = protocols /\ active' = active
        /\ restricted' = restricted
        /\ subnets' = [subnets EXCEPT ![p] = subnets[p] \cup {s}]
        /\ required' = [required EXCEPT ![p] = [required[p] EXCEPT ![s] = ids]]
    BY <1>5 DEF SubscribeSubnet
  <2>2. ids \in AscendingArrays
    BY <1>5, VetoAscends DEF SubscribeSubnet
  <2>3. TypeOK'
    BY <1>1, <2>1, <2>2 DEF TypeOK
  <2>4. ASSUME NEW q \in Policies, NEW r \in TaskDefinitions, required'[q][r] # <<>>
        PROVE  q \in protocols' /\ r \in subnets'[q]
    <3>1. CASE q = p /\ r = s
      BY <1>1, <2>1, <3>1
    <3>2. CASE ~(q = p /\ r = s)
      <4>1. required[q][r] # <<>>
        BY <1>1, <2>1, <2>4, <3>2
      <4>2. q \in protocols /\ r \in subnets[q]
        BY <4>1 DEF RegistryInv, RequiredWhereSubscribed
      <4> QED BY <1>1, <2>1, <4>2
    <3> QED BY <3>1, <3>2
  <2> QED BY <2>3, <2>4 DEF RegistryInv, RequiredWhereSubscribed
<1>6. CASE Center
  <2>1. /\ protocols' = protocols /\ subnets' = subnets /\ required' = required
        /\ active' \subseteq Operators /\ restricted' \in [TaskDefinitions -> IdArrays]
    BY <1>1, <1>6 DEF Center, SetActive, RestrictOperators
  <2> QED BY <1>1, <2>1 DEF RegistryInv, TypeOK, RequiredWhereSubscribed
<1>7. CASE Next
  BY <1>3, <1>4, <1>5, <1>6, <1>7 DEF Next, Registry
<1>8. UNCHANGED <<vars, callVars>> => UNCHANGED registryVars
  BY DEF registryVars
<1> QED BY <1>2, <1>7, <1>8 DEF SafeCallNext

\* So in every reachable state what is required ascends, where it is subscribed to.
LEMMA RegistryInvariance == SafeCallSpec => []RegistryInv
<1>1. RegistryInv /\ [SafeCallNext]_<<vars, callVars>> => RegistryInv'
  BY RegistryStep
<1> QED BY <1>1, RegistryInit, PTL DEF SafeCallSpec

\* An accepted task was attested by all operators the policy requires.
LEMMA AcceptedHaveAttested ==
  ASSUME RegistryInv, NEW p \in Policies, NEW s \in TaskDefinitions,
         NEW attesters \in IdArrays, TaskAccepted(p, s, attesters)
  PROVE  Range(required[p][s]) \subseteq Range(attesters)
<1>1. required[p][s] \in Arrays /\ attesters \in Arrays
  BY DEF RegistryInv, TypeOK, AscendingArrays, IdArrays
<1>2. CASE required[p][s] = <<>>
  <2>1. DOMAIN required[p][s] = {}
    BY <1>2
  <2> QED BY <2>1 DEF Range
<1>3. CASE required[p][s] # <<>>
  <2>1. verifyArraySubset(required[p][s], attesters) = 0
    BY <1>3 DEF TaskAccepted
  <2> QED BY <1>1, <2>1, ArrayTypes, SubsetIsVerified
<1> QED BY <1>2, <1>3

-----------------------------------------------------------------------------
(* What is approved *)

(* The inductive invariant: in the world, and in every world a frame may go *)
(* back to, all that is approved was approved in this transaction, by a     *)
(* task that the required operators attested; and between transactions,     *)
(* where the first frame would go back to as well, nothing is.              *)

Vetted(list, tx) == \A i \in DOMAIN list : list[i].tx = tx /\ list[i].attested

\* What BodiesAreVetted says of one call.
EntryOK(f, tx) ==
  Protected(f) =>
    /\ f.entry.sender = f.sender /\ f.entry.value = f.told
    /\ f.entry.tx = tx /\ f.entry.attested

VettedInv ==
  /\ CallTypeOK
  /\ frames = <<>> => world.approved = <<>>
  /\ frames # <<>> => frames[1].saved.approved = <<>> /\ ~IsSafe(frames[1])
  /\ Vetted(world.approved, txs)
  /\ \A i \in 1 .. Len(frames) :
       Vetted(frames[i].saved.approved, txs) /\ EntryOK(frames[i], txs)

\* Nothing is approved at first.
LEMMA VettedInit ==
  ASSUME SafeCallInit
  PROVE  VettedInv
<1>1. CallTypeOK
  BY InitIInv DEF IInv
<1>2. /\ frames = <<>> /\ Len(frames) = 0
      /\ world.approved = <<>> /\ DOMAIN world.approved = {}
  BY DEF SafeCallInit, Deployed
<1> QED BY <1>1, <1>2 DEF VettedInv, Vetted

\* A stack of the same calls, or of the lower ones of them, keeps it if what is
\* approved in the world is vetted.
LEMMA VettedSame ==
  ASSUME VettedInv, CallTypeOK', NEW m \in 0 .. Len(frames), Len(frames') = m,
         \A i \in 1 .. m : SameCall(frames'[i], frames[i]),
         txs' = txs, Vetted(world'.approved, txs), m = 0 => world'.approved = <<>>
  PROVE  VettedInv'
<1>1. /\ frames \in Seq(Frames) /\ frames' \in Seq(Frames)
      /\ Len(frames) \in Nat /\ m \in Nat /\ m <= Len(frames)
  BY DEF VettedInv, CallTypeOK
<1>2. frames' = <<>> => world'.approved = <<>>
  BY <1>1
<1>3. ASSUME frames' # <<>>
      PROVE  frames'[1].saved.approved = <<>> /\ ~IsSafe(frames'[1])
  <2>1. 1 \in 1 .. m /\ frames # <<>>
    BY <1>1, <1>3
  <2> QED BY <2>1 DEF VettedInv, SameCall, IsSafe
<1>4. ASSUME NEW i \in 1 .. m
      PROVE  Vetted(frames'[i].saved.approved, txs) /\ EntryOK(frames'[i], txs)
  <2>1. i \in 1 .. Len(frames) /\ SameCall(frames'[i], frames[i])
    BY <1>1
  <2>2. Vetted(frames[i].saved.approved, txs) /\ EntryOK(frames[i], txs)
    BY <2>1 DEF VettedInv
  <2> QED BY <2>1, <2>2 DEF SameCall, EntryOK, Protected
<1> QED BY <1>2, <1>3, <1>4 DEF VettedInv

\* A call begins.
LEMMA VettedPush ==
  ASSUME VettedInv, CallTypeOK', NEW f \in Frames, frames' = Append(frames, f),
         f.saved = world, frames = <<>> => ~IsSafe(f),
         frames # <<>> => txs' = txs,
         Vetted(world'.approved, txs'), EntryOK(f, txs')
  PROVE  VettedInv'
<1> DEFINE n == Len(frames)
<1>1. frames \in Seq(Frames) /\ n \in Nat /\ (frames = <<>> <=> n = 0)
  BY DEF VettedInv, CallTypeOK
<1>2. /\ frames' # <<>> /\ Len(frames') = n + 1 /\ frames'[n + 1] = f
      /\ \A i \in 1 .. n : frames'[i] = frames[i]
  BY <1>1, AppendProperties
<1>3. Vetted(world.approved, txs')
  <2>1. CASE frames = <<>>
    <3>1. DOMAIN world.approved = {}
      BY <2>1 DEF VettedInv
    <3> QED BY <3>1 DEF Vetted
  <2> QED BY <2>1 DEF VettedInv
<1>4. frames'[1].saved.approved = <<>> /\ ~IsSafe(frames'[1])
  <2>1. CASE n = 0
    BY <1>1, <1>2, <2>1 DEF VettedInv
  <2>2. CASE n # 0
    <3>1. 1 \in 1 .. n /\ frames # <<>>
      BY <1>1, <2>2
    <3> QED BY <1>2, <3>1 DEF VettedInv
  <2> QED BY <2>1, <2>2
<1>5. ASSUME NEW i \in 1 .. n + 1
      PROVE  Vetted(frames'[i].saved.approved, txs') /\ EntryOK(frames'[i], txs')
  <2>1. CASE i = n + 1
    BY <1>2, <1>3, <2>1
  <2>2. CASE i \in 1 .. n
    <3>1. frames # <<>> /\ frames'[i] = frames[i]
      BY <1>1, <1>2, <2>2
    <3> QED BY <2>2, <3>1 DEF VettedInv
  <2> QED BY <1>1, <2>1, <2>2
<1> QED BY <1>2, <1>4, <1>5 DEF VettedInv

\* Calls that no approval stands for.
LEMMA VettedPlainPush ==
  ASSUME VettedInv, CallTypeOK', NEW kind \in {"code", "body"}, NEW sender \in Accounts,
         NEW value \in Nat, frames' = Append(frames, Frame(kind, sender, value)),
         world' = world, frames # <<>> => txs' = txs
  PROVE  VettedInv'
<1> DEFINE f == Frame(kind, sender, value)
<1>1. f \in Frames /\ f.saved = world /\ ~IsSafe(f) /\ ~Protected(f)
  BY FrameIsTyped DEF IsSafe, Protected, VettedInv, CallTypeOK
<1>2. Vetted(world'.approved, txs')
  <2>1. CASE frames = <<>>
    <3>1. DOMAIN world.approved = {}
      BY <2>1 DEF VettedInv
    <3> QED BY <3>1 DEF Vetted
  <2> QED BY <2>1 DEF VettedInv
<1>3. frames' = Append(frames, f) /\ EntryOK(f, txs')
  BY <1>1 DEF EntryOK
<1> HIDE DEF f
<1> QED BY <1>1, <1>2, <1>3, VettedPush

\* A protected call takes the last entry, which is vetted.
LEMMA VettedCall ==
  ASSUME VettedInv, CallTypeOK', frames # <<>>, NEW sender \in Accounts, NEW value \in Nat,
         ProtectedCall(sender, value)
  PROVE  VettedInv'
<1>1. frames \in Seq(Frames) /\ world \in Worlds
  BY DEF VettedInv, CallTypeOK
<1> DEFINE list == world.approved
           e == Last(list)
<1>2. PICK told \in _msgValue(sender, value) :
        /\ list # <<>> /\ e.sender = sender /\ e.value = told
        /\ world' = [world EXCEPT !.approved = Front(list)] /\ txs' = txs
        /\ frames' = Append(frames, [Frame("body", sender, value) EXCEPT
             !.told = told, !.latest = world.safeCalls, !.entry = e])
  BY DEF ProtectedCall, Push, Pops
<1> DEFINE f == [Frame("body", sender, value) EXCEPT
                   !.told = told, !.latest = world.safeCalls, !.entry = e]
<1>3. list \in Seq(Entries) /\ Len(list) \in Nat \ {0} /\ DOMAIN list = 1 .. Len(list)
  BY <1>1, <1>2, WorldTypes
<1>4. Len(list) \in DOMAIN list /\ e = list[Len(list)] /\ Vetted(list, txs)
  BY <1>3 DEF Last, VettedInv
<1>5. e.tx = txs /\ e.attested /\ e \in Entries
  BY <1>3, <1>4 DEF Vetted
<1>6. world' \in Worlds /\ world'.approved = Front(list)
  BY <1>1, <1>2 DEF CallTypeOK, Worlds
<1>7. Vetted(Front(list), txs)
  <2> DEFINE k == Len(list) - 1
  <2>1. k \in Nat /\ Front(list) = SubSeq(list, 1, k)
    BY <1>3 DEF Front
  <2>2. DOMAIN Front(list) = 1 .. k /\ \A i \in 1 .. k : Front(list)[i] = list[i]
    <3> HIDE DEF list, k
    <3> QED BY <1>3, <2>1, SubSeqProperties
  <2>3. 1 .. k \subseteq DOMAIN list
    BY <1>3
  <2> HIDE DEF list
  <2> QED BY <1>4, <2>2, <2>3 DEF Vetted
<1>8. f.sender = sender /\ f.told = told /\ f.entry = e /\ f.saved = world /\ ~IsSafe(f)
  BY DEF Frame, IsSafe
<1>9. f \in Frames
  <2>1. /\ Frame("body", sender, value) \in Frames /\ world.safeCalls \in 0 .. MaxSafeCalls
        /\ world.flags.fee \in Nat
    BY <1>1, FrameIsTyped, WorldTypes
  <2>2. told \in Nat
    BY <2>1 DEF _msgValue
  <2> HIDE DEF e
  <2> QED BY <1>5, <2>1, <2>2 DEF Frames
<1>10. frames' = Append(frames, f) /\ Vetted(world'.approved, txs') /\ txs' = txs
  BY <1>2, <1>6, <1>7
<1>11. EntryOK(f, txs')
  BY <1>2, <1>5, <1>8 DEF EntryOK
<1> HIDE DEF f
<1> QED BY <1>8, <1>9, <1>10, <1>11, VettedPush

\* A safeFunctionCall approves nothing.
LEMMA VettedSafeCall ==
  ASSUME VettedInv, CallTypeOK', frames # <<>>, NEW sender \in Accounts, NEW value \in Nat,
         NEW fee \in Fees, safeFunctionCall(sender, value, fee)
  PROVE  VettedInv'
<1> DEFINE stage == IF world.attestationCenterProxy THEN "proxy" ELSE "data"
           f == [Frame("safe", sender, value) EXCEPT
                   !.stage = stage, !.fee = fee, !.number = world.safeCalls + 1]
<1>1. /\ frames \in Seq(Frames) /\ frames' \in Seq(Frames) /\ world \in Worlds
      /\ Vetted(world.approved, txs)
  BY DEF VettedInv, CallTypeOK
<1>2. frames' = Append(frames, f) /\ txs' = txs /\ world'.approved = world.approved
  BY <1>1 DEF safeFunctionCall, Push, Worlds
<1>3. f.saved = world /\ ~Protected(f)
  BY DEF Frame, Protected
<1>4. f \in Frames
  <2> HIDE DEF f
  <2>1. frames'[Len(frames) + 1] = f /\ Len(frames') = Len(frames) + 1 /\ Len(frames) \in Nat
    BY <1>1, <1>2
  <2> QED BY <1>1, <2>1
<1>5. EntryOK(f, txs')
  BY <1>3 DEF EntryOK
<1> HIDE DEF f
<1> QED BY <1>1, <1>2, <1>3, <1>4, <1>5, VettedPush

\* A task approves a list, if all that must have attested did.
LEMMA VettedTask ==
  ASSUME VettedInv, CallTypeOK', RegistryInv, NEW s \in TaskDefinitions, SubmitTask(s)
  PROVE  VettedInv'
<1>1. PICK attested \in {HaveAttested(s, a) : a \in Accepted(s)}, list \in Approvals :
        world' = [world EXCEPT !.approved =
          [i \in DOMAIN list |-> [sender |-> list[i].sender, value |-> list[i].value,
                                  tx |-> txs, attested |-> attested]]]
  BY DEF SubmitTask
<1>2. /\ frames \in Seq(Frames) /\ world \in Worlds /\ frames' = frames /\ txs' = txs
      /\ frames # <<>>
  BY DEF SubmitTask, VettedInv, CallTypeOK, MaySubmit, At, In
<1>3. attested
  <2>1. PICK a \in Accepted(s) : attested = HaveAttested(s, a)
    BY <1>1
  <2>2. a \in IdArrays /\ TaskAccepted(Policy, s, a) /\ Policy \in Policies
    BY SafeCallAssumption DEF Accepted
  <2> QED BY <2>1, <2>2, AcceptedHaveAttested DEF HaveAttested
<1>4. Vetted(world'.approved, txs)
  <2> DEFINE new == [i \in DOMAIN list |->
                       [sender |-> list[i].sender, value |-> list[i].value,
                        tx |-> txs, attested |-> attested]]
  <2>1. world'.approved = new
    BY <1>1, <1>2 DEF Worlds
  <2>2. Vetted(new, txs)
    BY <1>3 DEF Vetted
  <2> QED BY <2>1, <2>2
<1>5. /\ Len(frames) \in 0 .. Len(frames) /\ Len(frames) # 0
      /\ \A i \in 1 .. Len(frames) : SameCall(frames'[i], frames[i])
  BY <1>2 DEF SameCall
<1> QED BY <1>2, <1>4, <1>5, VettedSame

\* A call ends, and what it leaves approved is vetted; nothing if it is the first.
LEMMA VettedPop ==
  ASSUME VettedInv, CallTypeOK', frames # <<>>,
         frames' = Returned(Below) \/ frames' = Failed(Below), txs' = txs,
         Vetted(world'.approved, txs), Len(frames) = 1 => world'.approved = <<>>
  PROVE  VettedInv'
<1>1. frames \in Seq(Frames)
  BY DEF VettedInv, CallTypeOK
<1>2. /\ Len(frames) \in Nat \ {0} /\ Below \in Seq(Frames) /\ Len(Below) = Len(frames) - 1
      /\ \A i \in 1 .. Len(frames) - 1 : Below[i] = frames[i]
  BY <1>1, BelowSame
<1>3. /\ Len(frames') = Len(Below)
      /\ \A i \in 1 .. Len(Below) : SameCall(frames'[i], Below[i])
  BY <1>2, PoppedSame
<1>4. /\ Len(frames) - 1 \in 0 .. Len(frames) /\ Len(frames') = Len(frames) - 1
      /\ \A i \in 1 .. Len(frames) - 1 : SameCall(frames'[i], frames[i])
      /\ (Len(frames) - 1 = 0 => world'.approved = <<>>)
  BY <1>2, <1>3
<1> QED BY <1>4, VettedSame

\* Every step keeps it.
LEMMA VettedStep ==
  ASSUME VettedInv, CallTypeOK', RegistryInv, SafeCallNext \/ UNCHANGED <<vars, callVars>>
  PROVE  VettedInv'
<1>1. frames \in Seq(Frames) /\ world \in Worlds /\ Vetted(world.approved, txs)
  BY DEF VettedInv, CallTypeOK
<1>2. CASE Return
  <2>1. /\ frames # <<>> /\ txs' = txs /\ frames' = Returned(Below)
        /\ world' = IF Len(frames) = 1 THEN Discarded(world) ELSE world
    BY <1>2 DEF Return, In
  <2>2. Discarded(world).approved = <<>> /\ DOMAIN <<>> = {}
    BY <1>1 DEF Discarded, Worlds
  <2>3. Vetted(world'.approved, txs)
    BY <1>1, <2>1, <2>2 DEF Vetted
  <2> QED BY <2>1, <2>2, <2>3, VettedPop
<1>3. CASE Revert
  <2>1. frames # <<>> /\ txs' = txs /\ frames' = Failed(Below) /\ world' = Top.saved
    BY <1>3 DEF Revert
  <2>2. Len(frames) \in 1 .. Len(frames) /\ Top = frames[Len(frames)]
    BY <1>1, <2>1, BelowSame DEF Top
  <2>3. /\ Vetted(world'.approved, txs)
        /\ (Len(frames) = 1 => world'.approved = <<>>)
    BY <2>1, <2>2 DEF VettedInv
  <2> QED BY <2>1, <2>3, VettedPop
<1>4. CASE ProxyReturns
  <2>1. /\ frames # <<>> /\ txs' = txs /\ world' = world
        /\ frames' = [frames EXCEPT ![Len(frames)].stage = "data"]
    BY <1>4 DEF ProxyReturns, At, In, Stage
  <2>2. /\ Len(frames') = Len(frames)
        /\ \A i \in 1 .. Len(frames) : SameCall(frames'[i], frames[i])
    BY <1>1, <2>1, StageSame
  <2>3. Len(frames) \in 0 .. Len(frames) /\ Len(frames) # 0
    BY <1>1, <2>1
  <2> QED BY <1>1, <2>1, <2>2, <2>3, VettedSame
<1>5. CASE SafeFunctionReturns
  <2>1. /\ frames # <<>> /\ IsSafe(Top) /\ txs' = txs /\ frames' = Returned(Below)
        /\ world' = [world EXCEPT !.flags = NoFlags]
    BY <1>5 DEF SafeFunctionReturns, At, In, IsSafe, _deInitSafeFunctionCallFlags
  <2>2. world'.approved = world.approved
    BY <1>1, <2>1 DEF Worlds
  <2>3. Len(frames) # 1
    BY <2>1 DEF VettedInv, Top
  <2> QED BY <1>1, <2>1, <2>2, <2>3, VettedPop
<1>6. CASE CallConsumer
  <2>1. PICK sender \in Accounts, value \in Nat : Calls(sender, value)
    <3>1. frames # <<>> /\ Top.sender \in Accounts /\ Top.value \in Nat
      BY <1>1, <1>6, BelowSame, FrameTypes DEF CallConsumer, Delegates, At, In
    <3> QED BY <1>6, <3>1, SafeCallAssumption DEF CallConsumer
  <2>2. frames # <<>>
    BY <1>6 DEF CallConsumer, Delegates, At, In
  <2>3. CASE PlainCall(sender, value)
    <3>1. frames' = Append(frames, Frame("body", sender, value)) /\ world' = world /\ txs' = txs
      BY <2>3 DEF PlainCall, Push
    <3> QED BY <3>1, VettedPlainPush
  <2> QED BY <2>1, <2>2, <2>3, VettedCall, VettedSafeCall DEF Calls
<1>7. ASSUME NEW a \in Accounts, BeginTx(a) \/ CallCode(a)
      PROVE  VettedInv'
  <2>1. /\ frames' = Append(frames, Frame("code", a, 0)) /\ world' = world
        /\ frames # <<>> => txs' = txs
    <3>1. CASE BeginTx(a)
      <4>1. frames' = Append(frames, Frame("code", a, 0)) /\ world' = world
        BY <3>1 DEF BeginTx
      <4>2. frames = <<>>
        BY <3>1 DEF BeginTx
      <4> QED BY <4>1, <4>2
    <3>2. CASE CallCode(a)
      BY <3>2 DEF CallCode, Push
    <3> QED BY <1>7, <3>1, <3>2
  <2> QED BY <2>1, VettedPlainPush
<1>8. ASSUME NEW b \in BOOLEAN,
             setAttestationCenterProxy(b) \/ setAllowNonZeroUserNativeFee(b)
      PROVE  VettedInv'
  <2>1. /\ frames = <<>> /\ frames' = frames /\ txs' = txs
        /\ world'.approved = world.approved /\ world.approved = <<>>
    BY <1>1, <1>8
       DEF setAttestationCenterProxy, setAllowNonZeroUserNativeFee, Worlds, VettedInv
  <2>2. Len(frames) = 0
    BY <2>1
  <2> QED BY <1>1, <2>1, <2>2, VettedSame
<1>9. CASE \E s \in TaskDefinitions : SubmitTask(s)
  BY <1>9, VettedTask
<1>10. CASE UNCHANGED callVars
  BY <1>10 DEF VettedInv, CallTypeOK, callVars
<1> QED
  BY <1>2, <1>3, <1>4, <1>5, <1>6, <1>7, <1>8, <1>9, <1>10 DEF SafeCallNext, CallNext

-----------------------------------------------------------------------------
(* The theorems *)

\* The inductive invariant holds in every reachable state (SafeCall).
THEOREM InvariantHolds == SafeCallSpec => []IInv
<1>1. SafeCallInit => IInv
  BY InitIInv
<1>2. IInv /\ [SafeCallNext]_<<vars, callVars>> => IInv'
  BY NextStep
<1> QED BY <1>1, <1>2, PTL DEF SafeCallSpec

\* The world, the worlds that frames may go back to, and the calls under way
\* keep their types.
THEOREM TypeCorrect == SafeCallSpec => []CallTypeOK
<1>1. IInv => CallTypeOK
  BY DEF IInv
<1> QED BY <1>1, InvariantHolds, PTL

\* For any nesting and any reverts, hooks are told the value less the fee of the
\* last safeFunctionCall begun if that one runs below and has the same sender, and
\* else the value that was sent (safeFunctionCall, _msgValue).
THEOREM ValuesTold == SafeCallSpec => []ToldLessLatestFee
<1>1. IInv => ToldLessLatestFee
  <2> SUFFICES ASSUME IInv, NEW i \in DOMAIN frames, Protected(frames[i])
               PROVE  LET latest == {j \in 1 .. i - 1 : IsLatest(frames, i, j)}
                      IN IF latest = {} THEN frames[i].told = frames[i].value
                         ELSE \A j \in latest : frames[i].told = frames[i].value - frames[j].fee
    BY DEF ToldLessLatestFee, IsLatest, IsSafe
  <2>1. FeeOK(frames, i)
    BY DEF IInv, CallTypeOK
  <2> QED BY <2>1 DEF FeeOK
<1> QED BY <1>1, InvariantHolds, PTL

\* Whatever was subscribed and unsubscribed before, a task that is accepted was
\* attested by all operators the policy requires, in whatever order they are
\* reported (ArrayHelpers, beforeTaskSubmission).
THEOREM Veto == SafeCallSpec => []RequiredHaveAttested
<1>1. RegistryInv => RequiredHaveAttested
  BY AcceptedHaveAttested DEF RegistryInv, RequiredHaveAttested
<1> QED BY <1>1, RegistryInvariance, PTL

\* A task that all required operators attested is accepted if their ids are
\* reported in ascending order (ArrayHelpers, beforeTaskSubmission).
THEOREM NoneRefused == SafeCallSpec => []AttestedAreAccepted
<1>1. ASSUME RegistryInv, NEW p \in protocols, NEW s \in subnets[p],
             NEW attesters \in AscendingArrays,
             Range(required[p][s]) \subseteq Range(attesters)
      PROVE  TaskAccepted(p, s, attesters)
  <2>1. p \in Policies /\ s \in TaskDefinitions
    BY <1>1 DEF RegistryInv, TypeOK
  <2>2. /\ required[p][s] \in Arrays /\ Ascending(required[p][s])
        /\ attesters \in Arrays /\ Ascending(attesters)
    BY <1>1, <2>1 DEF RegistryInv, TypeOK, AscendingArrays, IdArrays
  <2>3. verifyArraySubset(required[p][s], attesters) = 0
    BY <1>1, <2>2, ArrayTypes, SubsetIsVerified
  <2> QED BY <2>3 DEF TaskAccepted
<1>2. RegistryInv => AttestedAreAccepted
  BY <1>1 DEF AttestedAreAccepted
<1> QED BY <1>2, RegistryInvariance, PTL

\* A protected function runs for a sender and with a value only if a task of
\* the same transaction approved that and all operators the policy requires
\* attested it, whatever code ran, called and reverted on the way.
THEOREM Vetting == SafeCallSpec => []BodiesAreVetted
<1>1. SafeCallInit => VettedInv
  BY VettedInit
<1>2. VettedInv /\ RegistryInv /\ CallTypeOK' /\ [SafeCallNext]_<<vars, callVars>> => VettedInv'
  BY VettedStep
<1>3. VettedInv => BodiesAreVetted
  <2> SUFFICES ASSUME VettedInv, NEW i \in DOMAIN frames, Protected(frames[i])
               PROVE  /\ frames[i].entry.sender = frames[i].sender
                      /\ frames[i].entry.value = frames[i].told
                      /\ frames[i].entry.tx = txs /\ frames[i].entry.attested
    BY DEF BodiesAreVetted, VettedInv
  <2>1. EntryOK(frames[i], txs)
    BY DEF VettedInv, CallTypeOK
  <2> QED BY <2>1 DEF EntryOK
<1> QED BY <1>1, <1>2, <1>3, TypeCorrect, RegistryInvariance, PTL DEF SafeCallSpec
=============================================================================
