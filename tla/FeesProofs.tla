----------------------------- MODULE FeesProofs -----------------------------
(***************************************************************************)
(* Theorems about the fees of tasks and the payments for detections.       *)
(*                                                                         *)
(* TaskFees: for every number of policies, subnets, tasks, recipients and  *)
(* nested calls, every fee and every split of it.  The invariant speaks of *)
(* every world a revert may go back to, and says of a batch that came with *)
(* the quoted amount what it still has for each of its remaining tasks, in *)
(* all worlds its calls may go back to.                                    *)
(*                                                                         *)
(* OperatorFees: for every number of operators and every set of attesters, *)
(* whatever they subscribe to.                                             *)
(*                                                                         *)
(* DetectionEscrow: for every fee, every amount and any number of payments *)
(* inside each other.                                                      *)
(***************************************************************************)
EXTENDS TaskFees, OperatorFees, DetectionEscrow, SumsProofs, SequenceTheorems, TLAPS

SharesFit(w) == \A s \in Subnets : SumOver(w.shares[s], Recipients) < FeeScale

Solvent(w) == w.pool = w.collected + w.rescued + SumOver(w.balance, Policies)

SplitUp(w) ==
  w.collected + w.withdrawn
    = SumOver(w.distributed, Recipients) + SumOver(w.operatorFees, Subnets) + w.handedOn

WorldOK(w) == w \in Worlds /\ SharesFit(w) /\ Solvent(w) /\ SplitUp(w)

\* No batch among the lowest n frames.
NoBatch(s, n) == \A j \in 1 .. n : s[j].kind # "batch"

ProxyOK(w, s) ==
  /\ NoBatch(s, Len(s)) => w.proxy = 0
  /\ \A i \in 1 .. Len(s) : NoBatch(s, i - 1) => s[i].saved.proxy = 0

\* What the tasks of f that are not prepared yet require, and whether it is there.
Left(f) == {i \in DOMAIN f.tasks : i >= IF f.outside THEN f.next + 1 ELSE f.next}
Needs(w, f) == [i \in DOMAIN f.tasks |-> Required(w, f.tasks[i])]
Provided(w, f) == w.proxy >= SumOver(Needs(w, f), Left(f))

Different(f) ==
  \A i, j \in DOMAIN f.tasks : f.tasks[i].policy = f.tasks[j].policy => i = j

QuoteOK(w, s) ==
  \A i \in 1 .. Len(s) : s[i].quoted =>
    /\ s[i].kind = "batch" /\ Different(s[i]) /\ Provided(w, s[i])
    /\ \A j \in i + 1 .. Len(s) : s[j].kind = "payout" /\ Provided(s[j].saved, s[i])

AllOK(w, s) ==
  /\ s \in Seq(Frames) /\ WorldOK(w)
  /\ \A i \in 1 .. Len(s) : WorldOK(s[i].saved)
  /\ ProxyOK(w, s) /\ QuoteOK(w, s)

IInv == AllOK(world, frames)

-----------------------------------------------------------------------------
(* Worlds *)

\* The amounts of a world.
LEMMA WorldTypes ==
  ASSUME NEW w \in Worlds
  PROVE  /\ w.wallets \in Nat /\ w.proxy \in Nat /\ w.pool \in Nat
         /\ w.collected \in Nat /\ w.rescued \in Nat /\ w.withdrawn \in Nat
         /\ w.handedOn \in Nat
         /\ w.balance \in [Policies -> Nat] /\ w.totalFee \in [Subnets -> Nat]
         /\ w.shares \in [Subnets -> [Recipients -> 0 .. FeeScale]]
         /\ w.distributed \in [Recipients -> Nat] /\ w.operatorFees \in [Subnets -> Nat]
BY DEF Worlds

\* ... whose sums are natural numbers.
LEMMA WorldSums ==
  ASSUME NEW w \in Worlds
  PROVE  /\ NatOn(w.balance, Policies) /\ NatOn(w.distributed, Recipients)
         /\ NatOn(w.operatorFees, Subnets)
         /\ \A s \in Subnets : NatOn(w.shares[s], Recipients)
         /\ SumOver(w.balance, Policies) \in Nat
         /\ SumOver(w.distributed, Recipients) \in Nat
         /\ SumOver(w.operatorFees, Subnets) \in Nat
<1>1. /\ NatOn(w.balance, Policies) /\ NatOn(w.distributed, Recipients)
      /\ NatOn(w.operatorFees, Subnets)
  BY WorldTypes DEF NatOn
<1>2. ASSUME NEW s \in Subnets
      PROVE  NatOn(w.shares[s], Recipients)
  <2>1. w.shares[s] \in [Recipients -> 0 .. FeeScale] /\ FeeScale \in Nat
    BY WorldTypes, FeeAssumption
  <2> QED BY <2>1 DEF NatOn
<1> QED BY <1>1, <1>2, SumNat, FeeAssumption

\* Adding to one value of a function adds to its sum; and so does taking away.
LEMMA SumChange ==
  ASSUME NEW S, IsFiniteSet(S), NEW f \in [S -> Nat], NEW y \in S, NEW d \in Int,
         f[y] + d \in Nat
  PROVE  /\ [f EXCEPT ![y] = f[y] + d] \in [S -> Nat]
         /\ SumOver([f EXCEPT ![y] = f[y] + d], S) = SumOver(f, S) + d
         /\ SumOver(f, S) \in Nat
<1> DEFINE e == [f EXCEPT ![y] = f[y] + d]
<1>1. e \in [S -> Nat] /\ e[y] = f[y] + d /\ \A x \in S \ {y} : f[x] = e[x]
  OBVIOUS
<1> HIDE DEF e
<1>2. NatOn(f, S) /\ NatOn(e, S) /\ f[y] \in Nat
  BY <1>1 DEF NatOn
<1>3. SumOver(e, S) + f[y] = SumOver(f, S) + e[y]
  BY <1>1, <1>2, SumUpdate
<1>4. SumOver(f, S) \in Nat /\ SumOver(e, S) \in Nat
  BY <1>2, SumNat
<1>5. SumOver(e, S) = SumOver(f, S) + d
  BY <1>1, <1>2, <1>3, <1>4
<1> QED BY <1>1, <1>4, <1>5 DEF e

\* Parts that are each at most c-th of what they are taken from add up to at
\* most the c-th of the whole.
LEMMA SumOfParts ==
  ASSUME NEW S, IsFiniteSet(S), NEW e, NEW f, NatOn(e, S), NatOn(f, S),
         NEW c \in Nat, NEW d \in Nat, \A x \in S : e[x] * d <= c * f[x]
  PROVE  SumOver(e, S) * d <= c * SumOver(f, S)
<1> DEFINE X == {T \in SUBSET S : SumOver(e, T) * d <= c * SumOver(f, T)}
<1>1. {} \in X
  BY SumEmpty
<1>2. ASSUME NEW T \in SUBSET S, T # {}, \A y \in T : T \ {y} \in X
      PROVE  T \in X
  <2>1. PICK y \in T : TRUE
    BY <1>2
  <2> DEFINE a == SumOver(e, T \ {y})
             b == SumOver(f, T \ {y})
  <2>2. /\ IsFiniteSet(T) /\ IsFiniteSet(T \ {y})
        /\ NatOn(e, T) /\ NatOn(f, T) /\ NatOn(e, T \ {y}) /\ NatOn(f, T \ {y})
    BY FS_Subset DEF NatOn
  <2>3. SumOver(e, T) = e[y] + a /\ SumOver(f, T) = f[y] + b
    BY <2>1, <2>2, SumSplit
  <2>4. a \in Nat /\ b \in Nat /\ e[y] \in Nat /\ f[y] \in Nat
    BY <2>1, <2>2, SumNat DEF NatOn
  <2>5. a * d <= c * b /\ e[y] * d <= c * f[y]
    BY <1>2, <2>1
  <2> HIDE DEF a, b
  <2>6. (e[y] + a) * d = e[y] * d + a * d /\ c * (f[y] + b) = c * f[y] + c * b
    BY <2>4
  <2>7. e[y] * d \in Nat /\ a * d \in Nat /\ c * f[y] \in Nat /\ c * b \in Nat
    BY <2>4
  <2>8. SumOver(e, T) * d <= c * SumOver(f, T)
    BY <2>3, <2>5, <2>6, <2>7
  <2> QED BY <2>8
<1> HIDE DEF X
<1>3. \A T \in SUBSET S : T \in X
  BY <1>1, <1>2, SubsetInduction, Zenon
<1> QED BY <1>3 DEF X

\* The recipients' parts of a fee, rounded down, are no more than the fee.
LEMMA FeesFit ==
  ASSUME NEW w \in Worlds, SharesFit(w), NEW s \in Subnets
  PROVE  LET parts == [r \in Recipients |-> FeeAmount(w, s, r)]
         IN  /\ NatOn(parts, Recipients) /\ SumOver(parts, Recipients) \in Nat
             /\ SumOver(parts, Recipients) <= w.totalFee[s]
             /\ \A r \in Recipients : FeeAmount(w, s, r) \in Nat
<1> DEFINE parts == [r \in Recipients |-> FeeAmount(w, s, r)]
           fee == w.totalFee[s]
           sum == SumOver(parts, Recipients)
           all == SumOver(w.shares[s], Recipients)
<1>1. fee \in Nat /\ FeeScale \in Nat \ {0} /\ IsFiniteSet(Recipients)
  BY WorldTypes, FeeAssumption
<1>2. NatOn(w.shares[s], Recipients) /\ all \in Nat /\ all < FeeScale
  BY <1>1, WorldSums, SumNat DEF SharesFit
<1>3. ASSUME NEW r \in Recipients
      PROVE  /\ FeeAmount(w, s, r) \in Nat /\ parts[r] = FeeAmount(w, s, r)
             /\ parts[r] * FeeScale <= fee * w.shares[s][r]
  <2>1. w.shares[s][r] \in Nat
    BY <1>2 DEF NatOn
  <2>2. ASSUME NEW x \in Nat
        PROVE  x \div FeeScale \in Nat /\ (x \div FeeScale) * FeeScale <= x
    BY <1>1
  <2>3. fee * w.shares[s][r] \in Nat
    BY <1>1, <2>1
  <2> QED BY <2>2, <2>3 DEF FeeAmount
<1> HIDE DEF parts, fee
<1>4. NatOn(parts, Recipients)
  BY <1>3 DEF NatOn
<1>5. sum \in Nat /\ sum * FeeScale <= fee * all
  BY <1>1, <1>2, <1>3, <1>4, SumNat, SumOfParts
<1> HIDE DEF sum, all
<1>6. fee * all <= fee * FeeScale
  BY <1>1, <1>2
<1>7. sum * FeeScale <= fee * FeeScale
  <2>1. sum * FeeScale \in Nat /\ fee * all \in Nat /\ fee * FeeScale \in Nat
    BY <1>1, <1>2, <1>5
  <2> QED BY <1>5, <1>6, <2>1
<1>8. sum <= fee
  BY <1>1, <1>5, <1>7
<1> QED BY <1>3, <1>4, <1>5, <1>8 DEF sum, parts, fee

\* A task's part of a batch moves from the proxy to the policy's balance
\* (depositNativeForPolicy).
LEMMA DepositedWorld ==
  ASSUME NEW w, WorldOK(w), NEW p \in Policies, NEW a \in Nat, a <= w.proxy,
         NEW v, v = Deposited(w, p, a)
  PROVE  /\ WorldOK(v) /\ v.proxy = w.proxy - a /\ v.totalFee = w.totalFee
         /\ v.balance[p] = w.balance[p] + a
         /\ \A q \in Policies \ {p} : v.balance[q] = w.balance[q]
         /\ v.collected = w.collected /\ v.withdrawn = w.withdrawn
<1> DEFINE x == w.proxy - a
           y == w.pool + a
           b == [w.balance EXCEPT ![p] = w.balance[p] + a]
<1>1. w \in Worlds /\ w.balance \in [Policies -> Nat] /\ w.balance[p] \in Nat
  BY WorldTypes DEF WorldOK
<1>2. x \in Nat /\ y \in Nat
  BY <1>1, WorldTypes
<1>3. /\ b \in [Policies -> Nat] /\ b[p] = w.balance[p] + a
      /\ \A q \in Policies \ {p} : b[q] = w.balance[q]
      /\ SumOver(b, Policies) = SumOver(w.balance, Policies) + a
      /\ SumOver(w.balance, Policies) \in Nat
  BY <1>1, SumChange, FeeAssumption
<1>4. v = [w EXCEPT !.proxy = x, !.pool = y, !.balance = b]
  BY <1>1 DEF Deposited, Worlds
<1> HIDE DEF x, y, b
<1>5. v \in Worlds
  BY <1>1, <1>2, <1>3, <1>4 DEF Worlds
<1>6. /\ v.proxy = x /\ v.pool = y /\ v.balance = b /\ v.collected = w.collected
      /\ v.rescued = w.rescued /\ v.totalFee = w.totalFee /\ v.shares = w.shares
      /\ v.distributed = w.distributed /\ v.operatorFees = w.operatorFees
      /\ v.withdrawn = w.withdrawn /\ v.handedOn = w.handedOn
  BY <1>1, <1>4 DEF Worlds
<1>7. Solvent(v)
  BY <1>1, <1>3, <1>6, WorldTypes DEF WorldOK, Solvent, y
<1>8. WorldOK(v)
  BY <1>5, <1>6, <1>7 DEF WorldOK, SharesFit, SplitUp
<1> QED BY <1>3, <1>6, <1>8 DEF x

\* A claimed fee leaves the policy's balance and is split to the last unit
\* (claimNativeFeeFromPolicy, distributeFee).
LEMMA ClaimedWorld ==
  ASSUME NEW w, WorldOK(w), NEW t \in Tasks, w.balance[t.policy] >= w.totalFee[t.subnet],
         NEW v, v = Claimed(w, t)
  PROVE  /\ WorldOK(v) /\ v.proxy = w.proxy /\ v.totalFee = w.totalFee
         /\ v.balance[t.policy] = w.balance[t.policy] - w.totalFee[t.subnet]
         /\ \A q \in Policies \ {t.policy} : v.balance[q] = w.balance[q]
<1> DEFINE p == t.policy
           s == t.subnet
           fee == w.totalFee[s]
           parts == [r \in Recipients |-> FeeAmount(w, s, r)]
           b == [w.balance EXCEPT ![p] = w.balance[p] + (-fee)]
           c == w.collected + fee
           d == [r \in Recipients |-> w.distributed[r] + FeeAmount(w, s, r)]
           rest == fee - SumOver(parts, Recipients)
           o == [w.operatorFees EXCEPT ![s] = w.operatorFees[s] + rest]
<1>1. /\ w \in Worlds /\ p \in Policies /\ s \in Subnets
      /\ fee \in Nat /\ w.balance[p] \in Nat /\ w.balance \in [Policies -> Nat]
      /\ w.operatorFees \in [Subnets -> Nat] /\ w.operatorFees[s] \in Nat
      /\ w.distributed \in [Recipients -> Nat] /\ c \in Nat
  BY WorldTypes DEF WorldOK, Tasks
<1>2. /\ NatOn(parts, Recipients) /\ SumOver(parts, Recipients) \in Nat
      /\ SumOver(parts, Recipients) <= fee
      /\ \A r \in Recipients : FeeAmount(w, s, r) \in Nat
  BY <1>1, FeesFit DEF WorldOK
<1>3. rest \in Nat
  BY <1>1, <1>2
<1>4. /\ b \in [Policies -> Nat] /\ b[p] = w.balance[p] - fee
      /\ \A q \in Policies \ {p} : b[q] = w.balance[q]
      /\ SumOver(b, Policies) = SumOver(w.balance, Policies) + (-fee)
      /\ SumOver(w.balance, Policies) \in Nat
  <2>1. w.balance[p] + (-fee) \in Nat /\ -fee \in Int /\ w.balance[p] + (-fee) = w.balance[p] - fee
    BY <1>1
  <2> HIDE DEF fee
  <2> QED BY <1>1, <2>1, SumChange, FeeAssumption
<1>5. /\ o \in [Subnets -> Nat]
      /\ SumOver(o, Subnets) = SumOver(w.operatorFees, Subnets) + rest
      /\ SumOver(w.operatorFees, Subnets) \in Nat
  <2>1. w.operatorFees[s] + rest \in Nat /\ rest \in Int
    BY <1>1, <1>3
  <2> HIDE DEF rest, s
  <2> QED BY <1>1, <2>1, SumChange, FeeAssumption
<1>6. /\ d \in [Recipients -> Nat]
      /\ SumOver(d, Recipients)
           = SumOver(w.distributed, Recipients) + SumOver(parts, Recipients)
      /\ SumOver(w.distributed, Recipients) \in Nat
  <2>1. /\ NatOn(w.distributed, Recipients)
        /\ \A r \in Recipients : d[r] = w.distributed[r] + parts[r]
    BY <1>1, WorldSums
  <2>2. d \in [Recipients -> Nat]
    BY <1>1, <1>2
  <2> HIDE DEF d, parts
  <2> QED BY <1>2, <2>1, <2>2, SumPlus, SumNat, FeeAssumption
<1>7. v = [w EXCEPT !.balance = b, !.collected = c, !.distributed = d, !.operatorFees = o]
  <2> DEFINE u == [w EXCEPT !.balance[p] = @ - fee, !.collected = @ + fee]
  <2>1. u = [w EXCEPT !.balance = b, !.collected = c]
    BY <1>1 DEF Worlds
  <2>2. /\ u.totalFee = w.totalFee /\ u.shares = w.shares
        /\ u.distributed = w.distributed /\ u.operatorFees = w.operatorFees
    BY <1>1 DEF Worlds
  <2>3. \A r \in Recipients : FeeAmount(u, s, r) = FeeAmount(w, s, r)
    BY <2>2 DEF FeeAmount
  <2>4. [r \in Recipients |-> FeeAmount(u, s, r)] = parts
    BY <2>3
  <2>5. [r \in Recipients |-> u.distributed[r] + FeeAmount(u, s, r)] = d
    BY <2>2, <2>3
  <2>6. v = Distributed(u, s)
    BY DEF Claimed
  <2> HIDE DEF u
  <2>7. v = [u EXCEPT !.distributed = [r \in Recipients |-> u.distributed[r] + FeeAmount(u, s, r)],
                      !.operatorFees = [u.operatorFees EXCEPT ![s] = u.operatorFees[s] +
                         (u.totalFee[s] - SumOver([r \in Recipients |-> FeeAmount(u, s, r)], Recipients))]]
    BY <2>6 DEF Distributed
  <2>8. v = [u EXCEPT !.distributed = d, !.operatorFees = o]
    BY <2>2, <2>4, <2>5, <2>7
  <2> HIDE DEF b, c, d, o
  <2> QED BY <1>1, <2>1, <2>8 DEF Worlds
<1> HIDE DEF b, c, d, o, rest, parts, fee
<1>8. v \in Worlds
  BY <1>1, <1>4, <1>5, <1>6, <1>7 DEF Worlds
<1>9. /\ v.proxy = w.proxy /\ v.pool = w.pool /\ v.balance = b /\ v.collected = c
      /\ v.rescued = w.rescued /\ v.totalFee = w.totalFee /\ v.shares = w.shares
      /\ v.distributed = d /\ v.operatorFees = o
      /\ v.withdrawn = w.withdrawn /\ v.handedOn = w.handedOn
  BY <1>1, <1>7 DEF Worlds
<1>10. Solvent(v)
  BY <1>1, <1>4, <1>9, WorldTypes DEF WorldOK, Solvent, c
<1>11. SplitUp(v)
  <2>1. SumOver(d, Recipients) + SumOver(o, Subnets)
          = SumOver(w.distributed, Recipients) + SumOver(w.operatorFees, Subnets) + fee
    BY <1>1, <1>2, <1>5, <1>6 DEF rest
  <2>2. w.collected \in Nat /\ w.withdrawn \in Nat /\ w.handedOn \in Nat
    BY <1>1, WorldTypes
  <2> QED BY <1>1, <1>5, <1>6, <1>9, <2>1, <2>2 DEF WorldOK, SplitUp, c
<1>12. WorldOK(v)
  BY <1>8, <1>9, <1>10, <1>11 DEF WorldOK, SharesFit
<1> QED BY <1>4, <1>9, <1>12 DEF fee

-----------------------------------------------------------------------------
(* What a batch still needs *)

\* What a task requires is an amount, and so is what some tasks require.
LEMMA NeedsTypes ==
  ASSUME NEW w \in Worlds, NEW f \in Frames
  PROVE  /\ \A t \in Tasks : Required(w, t) \in Nat
         /\ \A i \in DOMAIN f.tasks : f.tasks[i] \in Tasks
         /\ DOMAIN f.tasks = 1 .. Len(f.tasks) /\ Len(f.tasks) \in Nat
         /\ IsFiniteSet(Left(f)) /\ Left(f) \subseteq DOMAIN f.tasks
         /\ NatOn(Needs(w, f), Left(f)) /\ SumOver(Needs(w, f), Left(f)) \in Nat
<1>1. ASSUME NEW t \in Tasks
      PROVE  Required(w, t) \in Nat
  <2>1. w.totalFee[t.subnet] \in Nat /\ w.balance[t.policy] \in Nat
    BY WorldTypes DEF Tasks
  <2> QED BY <2>1 DEF Required
<1>2. f.tasks \in Seq(Tasks)
  BY DEF Frames
<1>3. /\ DOMAIN f.tasks = 1 .. Len(f.tasks) /\ Len(f.tasks) \in Nat
      /\ \A i \in DOMAIN f.tasks : f.tasks[i] \in Tasks
  BY <1>2
<1>4. IsFiniteSet(Left(f)) /\ Left(f) \subseteq DOMAIN f.tasks
  <2>1. IsFiniteSet(1 .. Len(f.tasks))
    BY <1>3, FS_Interval
  <2>2. Left(f) \subseteq DOMAIN f.tasks
    BY DEF Left
  <2> QED BY <1>3, <2>1, <2>2, FS_Subset
<1>5. NatOn(Needs(w, f), Left(f))
  BY <1>1, <1>3, <1>4 DEF NatOn, Needs
<1> QED BY <1>1, <1>3, <1>4, <1>5, SumNat

\* What is provided stays so while no task requires more.
LEMMA ProvidedStays ==
  ASSUME NEW w \in Worlds, NEW v \in Worlds, NEW f \in Frames, Provided(w, f),
         v.proxy = w.proxy, \A t \in Tasks : Required(v, t) <= Required(w, t)
  PROVE  Provided(v, f)
<1>1. /\ NatOn(Needs(w, f), Left(f)) /\ NatOn(Needs(v, f), Left(f))
      /\ SumOver(Needs(w, f), Left(f)) \in Nat /\ SumOver(Needs(v, f), Left(f)) \in Nat
      /\ IsFiniteSet(Left(f))
  BY NeedsTypes
<1>2. \A i \in Left(f) : Needs(v, f)[i] <= Needs(w, f)[i]
  BY NeedsTypes DEF Needs
<1>3. SumOver(Needs(v, f), Left(f)) <= SumOver(Needs(w, f), Left(f))
  BY <1>1, <1>2, SumAtMost
<1> QED BY <1>1, <1>3, WorldTypes DEF Provided

\* A task takes its own part only, so the tasks after it still have theirs.
LEMMA ProvidedNext ==
  ASSUME NEW w \in Worlds, NEW v \in Worlds, NEW f \in Frames, NEW g \in Frames,
         Provided(w, f), Different(f), ~f.outside, f.next <= Len(f.tasks),
         NEW t, t = f.tasks[f.next], v.proxy = w.proxy - Required(w, t),
         \A u \in Tasks : u.policy # t.policy => Required(v, u) = Required(w, u),
         g.tasks = f.tasks, Left(g) = {i \in DOMAIN f.tasks : i >= f.next + 1}
  PROVE  Provided(v, g)
<1> DEFINE k == f.next
           need == Needs(w, f)
<1>1. /\ DOMAIN f.tasks = 1 .. Len(f.tasks) /\ Len(f.tasks) \in Nat /\ k \in Nat \ {0}
      /\ \A i \in DOMAIN f.tasks : f.tasks[i] \in Tasks
  BY NeedsTypes DEF Frames
<1>2. k \in Left(f) /\ Left(g) = Left(f) \ {k} /\ Left(f) \subseteq DOMAIN f.tasks
  BY <1>1 DEF Left
<1>3. t \in Tasks /\ need[k] = Required(w, t) /\ Required(w, t) \in Nat
  BY <1>1, <1>2, NeedsTypes DEF Needs
<1>4. /\ NatOn(need, Left(f)) /\ IsFiniteSet(Left(f)) /\ SumOver(need, Left(f)) \in Nat
  BY NeedsTypes
<1>5. SumOver(need, Left(f)) = need[k] + SumOver(need, Left(f) \ {k})
  <2> HIDE DEF need, k
  <2> QED BY <1>2, <1>4, SumSplit
<1>6. SumOver(Needs(v, g), Left(g)) = SumOver(need, Left(f) \ {k})
  <2>1. NatOn(Needs(v, g), Left(g)) /\ IsFiniteSet(Left(g))
    BY NeedsTypes
  <2>2. ASSUME NEW i \in Left(g)
        PROVE  Needs(v, g)[i] = need[i]
    <3>1. i \in DOMAIN f.tasks /\ i # k /\ k \in DOMAIN f.tasks
      BY <1>2
    <3>2. f.tasks[i].policy # t.policy /\ f.tasks[i] \in Tasks
      BY <1>1, <3>1 DEF Different
    <3> QED BY <3>1, <3>2 DEF Needs
  <2> DEFINE now == Needs(v, g)
             S == Left(g)
  <2>3. NatOn(now, S) /\ IsFiniteSet(S) /\ \A i \in S : now[i] = need[i]
    BY <2>1, <2>2
  <2>4. S = Left(f) \ {k}
    BY <1>2
  <2> HIDE DEF need, k, now, S
  <2>5. SumOver(now, S) = SumOver(need, S)
    BY <2>3, SumEqual
  <2> QED BY <2>4, <2>5 DEF now, S
<1>7. SumOver(Needs(v, g), Left(g)) \in Nat /\ w.proxy \in Nat
  BY NeedsTypes, WorldTypes
<1>8. w.proxy >= SumOver(need, Left(f))
  BY DEF Provided
<1> HIDE DEF need, k
<1> QED BY <1>3, <1>4, <1>5, <1>6, <1>7, <1>8 DEF Provided

\* The task a batch is at has what it requires.
LEMMA ProvidedNow ==
  ASSUME NEW w \in Worlds, NEW f \in Frames, Provided(w, f), ~f.outside,
         f.next <= Len(f.tasks)
  PROVE  w.proxy >= Required(w, f.tasks[f.next])
<1> DEFINE k == f.next
           need == Needs(w, f)
<1>1. /\ DOMAIN f.tasks = 1 .. Len(f.tasks) /\ k \in Nat \ {0} /\ Len(f.tasks) \in Nat
      /\ \A i \in DOMAIN f.tasks : f.tasks[i] \in Tasks
  BY NeedsTypes DEF Frames
<1>2. k \in Left(f) /\ k \in DOMAIN f.tasks
  BY <1>1 DEF Left
<1>3. need[k] = Required(w, f.tasks[k]) /\ Required(w, f.tasks[k]) \in Nat
  BY <1>1, <1>2, NeedsTypes DEF Needs
<1>4. NatOn(need, Left(f)) /\ IsFiniteSet(Left(f)) /\ SumOver(need, Left(f)) \in Nat
  BY NeedsTypes
<1>5. w.proxy >= SumOver(need, Left(f)) /\ w.proxy \in Nat
  BY WorldTypes DEF Provided
<1> HIDE DEF need, k
<1>6. /\ SumOver(need, Left(f)) = need[k] + SumOver(need, Left(f) \ {k})
      /\ SumOver(need, Left(f) \ {k}) \in Nat
  <2>1. NatOn(need, Left(f) \ {k}) /\ IsFiniteSet(Left(f) \ {k})
    BY <1>4, FS_Subset DEF NatOn
  <2> QED BY <1>2, <1>4, <2>1, SumSplit, SumNat
<1> QED BY <1>3, <1>4, <1>5, <1>6 DEF k

-----------------------------------------------------------------------------
(* The shapes of a step *)

\* A call that adds no frame.
LEMMA KeepFrames ==
  ASSUME NEW w, NEW s, AllOK(w, s), NEW v, WorldOK(v), v.proxy = w.proxy,
         \A t \in Tasks : Required(v, t) <= Required(w, t)
  PROVE  AllOK(v, s)
<1>1. w \in Worlds /\ v \in Worlds /\ s \in Seq(Frames)
  BY DEF AllOK, WorldOK
<1>2. ProxyOK(v, s)
  BY DEF AllOK, ProxyOK
<1>3. ASSUME NEW i \in 1 .. Len(s), s[i].quoted
      PROVE  Provided(v, s[i])
  <2>1. s[i] \in Frames /\ Provided(w, s[i])
    BY <1>1, <1>3 DEF AllOK, QuoteOK
  <2> QED BY <1>1, <2>1, ProvidedStays
<1>4. QuoteOK(v, s)
  BY <1>3 DEF AllOK, QuoteOK
<1> QED BY <1>2, <1>4 DEF AllOK

\* A frame is added: one that pays out, or one of tasks once no quote is left.
LEMMA PushFrame ==
  ASSUME NEW w, NEW s, AllOK(w, s), NEW v, WorldOK(v), NEW f \in Frames, f.saved = w,
         f.kind = "batch" \/ v.proxy = w.proxy,
         f.quoted => f.kind = "batch" /\ Different(f) /\ Provided(v, f),
         \A i \in 1 .. Len(s) : s[i].quoted => f.kind = "payout" /\ Provided(v, s[i])
  PROVE  AllOK(v, Append(s, f))
<1> DEFINE t == Append(s, f)
           n == Len(s)
<1>1. s \in Seq(Frames) /\ WorldOK(w) /\ n \in Nat
  BY DEF AllOK
<1>2. /\ t \in Seq(Frames) /\ Len(t) = n + 1 /\ t[n + 1] = f
      /\ \A i \in 1 .. n : t[i] = s[i]
  BY <1>1, AppendProperties
<1> HIDE DEF t, n
<1>3. \A i \in 1 .. n + 1 : i \in 1 .. n \/ i = n + 1
  BY <1>1
<1>4. \A i \in 1 .. n + 1 : WorldOK(t[i].saved)
  BY <1>1, <1>2, <1>3 DEF AllOK, n
<1>5. \A i \in 0 .. n : NoBatch(t, i) <=> NoBatch(s, i)
  BY <1>1, <1>2 DEF NoBatch
<1>6. ProxyOK(v, t)
  <2>1. ASSUME NoBatch(t, n + 1)
        PROVE  v.proxy = 0
    <3>1. f.kind # "batch" /\ NoBatch(t, n)
      BY <1>1, <1>2, <2>1 DEF NoBatch
    <3>2. w.proxy = 0
      BY <1>1, <1>5, <3>1 DEF AllOK, ProxyOK, n
    <3> QED BY <3>1, <3>2
  <2>2. ASSUME NEW i \in 1 .. n + 1, NoBatch(t, i - 1)
        PROVE  t[i].saved.proxy = 0
    <3>1. i - 1 \in 0 .. n /\ n \in 0 .. n
      BY <1>1
    <3>2. NoBatch(s, i - 1)
      BY <1>5, <2>2, <3>1
    <3>3. CASE i \in 1 .. n
      BY <1>2, <3>2, <3>3 DEF AllOK, ProxyOK, n
    <3>4. CASE i = n + 1
      <4>1. NoBatch(s, n)
        BY <1>1, <3>2, <3>4
      <4> QED BY <1>2, <3>4, <4>1 DEF AllOK, ProxyOK, n
    <3> QED BY <1>3, <3>3, <3>4
  <2> QED BY <1>2, <2>1, <2>2 DEF ProxyOK
<1>7. ASSUME NEW i \in 1 .. n + 1, t[i].quoted
      PROVE  /\ t[i].kind = "batch" /\ Different(t[i]) /\ Provided(v, t[i])
             /\ \A j \in i + 1 .. n + 1 : t[j].kind = "payout" /\ Provided(t[j].saved, t[i])
  <2>1. CASE i = n + 1
    <3>1. \A j \in i + 1 .. n + 1 : FALSE
      BY <1>1, <2>1
    <3> QED BY <1>2, <1>7, <2>1, <3>1
  <2>2. CASE i \in 1 .. n
    <3>1. s[i].quoted /\ t[i] = s[i]
      BY <1>2, <1>7, <2>2
    <3>2. /\ s[i].kind = "batch" /\ Different(s[i]) /\ Provided(w, s[i])
          /\ \A j \in i + 1 .. n : s[j].kind = "payout" /\ Provided(s[j].saved, s[i])
      BY <2>2, <3>1 DEF AllOK, QuoteOK, n
    <3>3. Provided(v, s[i]) /\ f.kind = "payout"
      BY <2>2, <3>1 DEF n
    <3>4. ASSUME NEW j \in i + 1 .. n + 1
          PROVE  t[j].kind = "payout" /\ Provided(t[j].saved, t[i])
      <4>1. CASE j = n + 1
        BY <1>2, <3>1, <3>2, <3>3, <4>1
      <4>2. CASE j \in i + 1 .. n
        <5>1. j \in 1 .. n
          BY <1>1, <2>2, <4>2
        <5> QED BY <1>2, <3>1, <3>2, <4>2, <5>1
      <4>3. j = n + 1 \/ j \in i + 1 .. n
        BY <1>1, <2>2
      <4> QED BY <4>1, <4>2, <4>3
    <3> QED BY <3>1, <3>2, <3>3, <3>4
  <2> QED BY <1>3, <2>1, <2>2
<1>8. QuoteOK(v, t)
  BY <1>2, <1>7 DEF QuoteOK
<1>9. AllOK(v, t)
  BY <1>2, <1>4, <1>6, <1>8 DEF AllOK
<1> QED BY <1>9 DEF t

\* The top frame ends.
LEMMA PopFrame ==
  ASSUME NEW w, NEW s, AllOK(w, s), s # <<>>, NEW v, WorldOK(v),
         NoBatch(s, Len(s) - 1) => v.proxy = 0,
         \A i \in 1 .. Len(s) - 1 : s[i].quoted => Provided(v, s[i])
  PROVE  AllOK(v, SubSeq(s, 1, Len(s) - 1))
<1> DEFINE k == Len(s) - 1
           t == SubSeq(s, 1, k)
<1>1. s \in Seq(Frames) /\ k \in Nat /\ Len(s) = k + 1 /\ \A i \in 1 .. k : s[i] \in Frames
  BY DEF AllOK
<1> HIDE DEF k
<1>2. /\ t \in Seq(Frames)
      /\ Len(t) = IF 1 <= k THEN k - 1 + 1 ELSE 0
      /\ \A i \in 1 .. k - 1 + 1 : t[i] = s[1 + i - 1]
  BY <1>1, SubSeqProperties
<1> HIDE DEF t
<1>3. Len(t) = k /\ \A i \in 1 .. k : t[i] = s[i] /\ i \in 1 .. Len(s)
  BY <1>1, <1>2
<1>4. \A i \in 0 .. k : NoBatch(t, i) <=> NoBatch(s, i)
  BY <1>1, <1>3 DEF NoBatch
<1>5. ProxyOK(v, t)
  <2>1. NoBatch(t, k) => v.proxy = 0
    BY <1>1, <1>4 DEF k
  <2>2. ASSUME NEW i \in 1 .. k, NoBatch(t, i - 1)
        PROVE  t[i].saved.proxy = 0
    <3>1. i - 1 \in 0 .. k
      BY <1>1
    <3>2. NoBatch(s, i - 1)
      BY <1>4, <2>2, <3>1
    <3> QED BY <1>3, <3>2 DEF AllOK, ProxyOK
  <2> QED BY <1>3, <2>1, <2>2 DEF ProxyOK
<1>6. ASSUME NEW i \in 1 .. k, t[i].quoted
      PROVE  /\ t[i].kind = "batch" /\ Different(t[i]) /\ Provided(v, t[i])
             /\ \A j \in i + 1 .. k : t[j].kind = "payout" /\ Provided(t[j].saved, t[i])
  <2>1. /\ s[i].quoted /\ t[i] = s[i] /\ i \in 1 .. Len(s)
    BY <1>3, <1>6
  <2>2. /\ s[i].kind = "batch" /\ Different(s[i]) /\ Provided(v, s[i])
        /\ \A j \in i + 1 .. Len(s) : s[j].kind = "payout" /\ Provided(s[j].saved, s[i])
    BY <2>1 DEF AllOK, QuoteOK, k
  <2>3. \A j \in i + 1 .. k : j \in 1 .. k /\ j \in i + 1 .. Len(s)
    BY <1>1
  <2> QED BY <1>3, <2>1, <2>2, <2>3
<1>7. AllOK(v, t)
  <2>1. \A i \in 1 .. k : WorldOK(t[i].saved)
    BY <1>3 DEF AllOK
  <2> QED BY <1>2, <1>3, <1>5, <1>6, <2>1 DEF AllOK, QuoteOK
<1> QED BY <1>7 DEF t, k

\* The top frame goes on.
LEMMA ChangeTop ==
  ASSUME NEW w, NEW s, AllOK(w, s), s # <<>>, NEW v, WorldOK(v), NEW g \in Frames,
         s[Len(s)].kind # "payout", g.kind = s[Len(s)].kind, g.saved = s[Len(s)].saved,
         g.kind = "batch" \/ v.proxy = w.proxy,
         g.quoted => g.kind = "batch" /\ Different(g) /\ Provided(v, g)
  PROVE  AllOK(v, [s EXCEPT ![Len(s)] = g])
<1> DEFINE n == Len(s)
           t == [s EXCEPT ![n] = g]
<1>1. s \in Seq(Frames) /\ n \in Nat \ {0} /\ n \in 1 .. n
  BY DEF AllOK
<1>2. /\ t \in Seq(Frames) /\ Len(t) = n /\ t[n] = g
      /\ \A i \in 1 .. n : i # n => t[i] = s[i]
  BY <1>1
<1>3. \A i \in 1 .. n : t[i].kind = s[i].kind /\ t[i].saved = s[i].saved
  BY <1>2
<1> HIDE DEF t, n
<1>4. \A i \in 0 .. n : NoBatch(t, i) <=> NoBatch(s, i)
  BY <1>1, <1>3 DEF NoBatch
<1>5. ProxyOK(v, t)
  <2>1. ASSUME NoBatch(t, n)
        PROVE  v.proxy = 0
    <3>1. n \in 0 .. n /\ t[n].kind # "batch"
      BY <1>1, <2>1 DEF NoBatch
    <3>2. g.kind # "batch" /\ NoBatch(s, n)
      BY <1>2, <1>4, <2>1, <3>1
    <3> QED BY <3>2 DEF AllOK, ProxyOK, n
  <2>2. ASSUME NEW i \in 1 .. n, NoBatch(t, i - 1)
        PROVE  t[i].saved.proxy = 0
    <3>1. i - 1 \in 0 .. n
      BY <1>1
    <3>2. NoBatch(s, i - 1)
      BY <1>4, <2>2, <3>1
    <3> QED BY <1>3, <3>2 DEF AllOK, ProxyOK, n
  <2> QED BY <1>2, <2>1, <2>2 DEF ProxyOK
<1>6. ASSUME NEW i \in 1 .. n, t[i].quoted
      PROVE  i = n
  <2>1. SUFFICES ASSUME i # n
                 PROVE  FALSE
    OBVIOUS
  <2>2. s[i].quoted /\ n \in i + 1 .. n
    BY <1>1, <1>2, <1>6, <2>1
  <2>3. s[n].kind = "payout"
    BY <2>2 DEF AllOK, QuoteOK, n
  <2> QED BY <2>3 DEF n
<1>7. QuoteOK(v, t)
  <2>1. \A j \in n + 1 .. n : FALSE
    BY <1>1
  <2> QED BY <1>2, <1>6, <2>1 DEF QuoteOK
<1>8. AllOK(v, t)
  BY <1>2, <1>3, <1>5, <1>7 DEF AllOK, n
<1> QED BY <1>8 DEF t, n

\* No quote holds any more.
Unquote(s) == [i \in DOMAIN s |-> [s[i] EXCEPT !.quoted = FALSE]]

\* Forgetting the quotes weakens the invariant.
LEMMA DropQuotes ==
  ASSUME NEW w, NEW s, AllOK(w, s), NEW v, WorldOK(v), v.proxy = w.proxy
  PROVE  /\ AllOK(v, Unquote(s)) /\ Len(Unquote(s)) = Len(s)
         /\ \A i \in 1 .. Len(s) : ~Unquote(s)[i].quoted
<1> DEFINE t == Unquote(s)
           n == Len(s)
<1>1. s \in Seq(Frames) /\ n \in Nat /\ DOMAIN s = 1 .. n /\ \A i \in 1 .. n : s[i] \in Frames
  BY DEF AllOK
<1>2. ASSUME NEW i \in 1 .. n
      PROVE  /\ t[i] \in Frames /\ t[i].kind = s[i].kind /\ t[i].saved = s[i].saved
             /\ ~t[i].quoted
  <2>1. s[i] \in Frames /\ t[i] = [s[i] EXCEPT !.quoted = FALSE]
    BY <1>1 DEF Unquote
  <2> QED BY <2>1 DEF Frames
<1>3. t \in [1 .. n -> Frames]
  BY <1>1, <1>2 DEF Unquote
<1> HIDE DEF t, n
<1>4. t \in Seq(Frames) /\ Len(t) = n
  BY <1>1, <1>3
<1>5. \A i \in 0 .. n : NoBatch(t, i) <=> NoBatch(s, i)
  BY <1>1, <1>2 DEF NoBatch
<1>6. ProxyOK(v, t)
  <2>1. \A i \in 1 .. n : i - 1 \in 0 .. n
    BY <1>1
  <2>2. n \in 0 .. n
    BY <1>1
  <2> QED BY <1>2, <1>4, <1>5, <2>1, <2>2 DEF AllOK, ProxyOK, n
<1>7. QuoteOK(v, t) /\ \A i \in 1 .. n : WorldOK(t[i].saved)
  BY <1>2, <1>4 DEF QuoteOK, AllOK, n
<1> QED BY <1>2, <1>4, <1>6, <1>7 DEF AllOK, t, n

-----------------------------------------------------------------------------
(* The steps *)

\* The frame in control.
LEMMA TopTypes ==
  ASSUME IInv, frames # <<>>
  PROVE  /\ Len(frames) \in Nat \ {0} /\ frames \in Seq(Frames)
         /\ DOMAIN frames = 1 .. Len(frames) /\ Len(frames) \in 1 .. Len(frames)
         /\ Top = frames[Len(frames)] /\ Top \in Frames /\ WorldOK(Top.saved)
<1>1. frames \in Seq(Frames) /\ Len(frames) \in Nat \ {0}
  BY DEF IInv, AllOK
<1> QED BY <1>1 DEF IInv, AllOK, Top

\* A call that waits for unknown code is entered.
LEMMA PushStep ==
  ASSUME IInv, NEW kind \in {"task", "batch", "direct", "payout"}, NEW tasks \in Seq(Tasks),
         NEW quoted \in BOOLEAN, Push(kind, tasks, quoted), WorldOK(world'),
         kind = "batch" \/ world'.proxy = world.proxy,
         kind = "payout" => \A t \in Tasks : Required(world', t) <= Required(world, t),
         LET f == [kind |-> kind, tasks |-> tasks, next |-> 1, outside |-> kind = "payout",
                   quoted |-> quoted, saved |-> world]
         IN  quoted => kind = "batch" /\ Different(f) /\ Provided(world', f)
  PROVE  IInv'
<1> DEFINE f == [kind |-> kind, tasks |-> tasks, next |-> 1, outside |-> kind = "payout",
                 quoted |-> quoted, saved |-> world]
<1>1. /\ AllOK(world, frames) /\ world \in Worlds /\ WorldOK(world)
      /\ frames' = Append(IF kind = "payout" THEN frames ELSE Unquoted, f)
  BY DEF IInv, AllOK, WorldOK, Push
<1>2. /\ f \in Frames /\ f.saved = world /\ f.kind = kind /\ f.quoted = quoted
      /\ Unquoted = Unquote(frames)
  BY <1>1 DEF Frames, Unquoted, Unquote
<1>3. f.quoted => f.kind = "batch" /\ Different(f) /\ Provided(world', f)
  BY <1>2
<1> HIDE DEF f
<1>4. CASE kind = "payout"
  <2>1. AllOK(world', frames)
    BY <1>1, <1>4, KeepFrames
  <2>2. \A i \in 1 .. Len(frames) : frames[i].quoted => Provided(world', frames[i])
    BY <2>1 DEF AllOK, QuoteOK
  <2>3. AllOK(world', Append(frames, f))
    BY <1>1, <1>2, <1>3, <1>4, <2>2, PushFrame
  <2> QED BY <1>1, <1>4, <2>3 DEF IInv
<1>5. CASE kind # "payout"
  <2>1. /\ AllOK(world, Unquote(frames)) /\ Len(Unquote(frames)) = Len(frames)
        /\ \A i \in 1 .. Len(frames) : ~Unquote(frames)[i].quoted
    BY <1>1, DropQuotes
  <2>2. AllOK(world', Append(Unquote(frames), f))
    BY <1>1, <1>2, <1>3, <2>1, PushFrame
  <2> QED BY <1>1, <1>2, <1>5, <2>2 DEF IInv
<1> QED BY <1>4, <1>5

\* A call is undone.
LEMMA RevertStep ==
  ASSUME IInv, frames # <<>>, Revert
  PROVE  IInv'
<1> DEFINE n == Len(frames)
<1>1. /\ AllOK(world, frames) /\ n \in Nat \ {0} /\ n \in 1 .. n
      /\ Top = frames[n] /\ WorldOK(Top.saved)
  BY TopTypes DEF IInv
<1>2. world' = Top.saved /\ frames' = SubSeq(frames, 1, n - 1)
  BY DEF Revert, Pop, Below
<1>3. NoBatch(frames, n - 1) => Top.saved.proxy = 0
  BY <1>1 DEF AllOK, ProxyOK
<1>4. ASSUME NEW i \in 1 .. n - 1, frames[i].quoted
      PROVE  Provided(Top.saved, frames[i])
  <2>1. i \in 1 .. n /\ n \in i + 1 .. n
    BY <1>1
  <2> QED BY <1>1, <1>4, <2>1 DEF AllOK, QuoteOK
<1> HIDE DEF n
<1>5. AllOK(Top.saved, SubSeq(frames, 1, n - 1))
  BY <1>1, <1>3, <1>4, PopFrame DEF n
<1> QED BY <1>2, <1>5 DEF IInv

\* Under a frame of tasks no quote holds.
LEMMA NoneQuotedBelow ==
  ASSUME IInv, frames # <<>>, Top.kind # "payout"
  PROVE  \A i \in 1 .. Len(frames) - 1 : ~frames[i].quoted
<1>1. /\ Len(frames) \in Nat \ {0} /\ Top = frames[Len(frames)] /\ AllOK(world, frames)
  BY TopTypes DEF IInv
<1>2. ASSUME NEW i \in 1 .. Len(frames) - 1, frames[i].quoted
      PROVE  FALSE
  <2>1. i \in 1 .. Len(frames) /\ Len(frames) \in i + 1 .. Len(frames)
    BY <1>1
  <2> QED BY <1>1, <1>2, <2>1 DEF AllOK, QuoteOK
<1> QED BY <1>2

\* A task alone makes a list of tasks.
LEMMA OneTask ==
  ASSUME NEW t \in Tasks
  PROVE  <<t>> \in Seq(Tasks)
OBVIOUS

\* A policy submits for itself, without the proxy.
LEMMA SubmitDirectlyStep ==
  ASSUME IInv, NEW t \in Tasks, SubmitDirectly(t)
  PROVE  IInv'
<1>1. WorldOK(world') /\ world' = world
  BY DEF IInv, AllOK, SubmitDirectly
<1>2. Push("direct", <<t>>, FALSE) /\ <<t>> \in Seq(Tasks)
  BY OneTask, Zenon DEF SubmitDirectly
<1> QED BY <1>1, <1>2, PushStep

\* Ether for one task becomes the policy's balance (submitTask).
LEMMA SubmitTaskStep ==
  ASSUME IInv, NEW t \in Tasks, NEW a \in Nat, SubmitTask(t, a)
  PROVE  IInv'
<1> DEFINE p == t.policy
           x == world.wallets - a
           y == world.pool + a
           b == [world.balance EXCEPT ![p] = world.balance[p] + a]
<1>1. /\ WorldOK(world) /\ world \in Worlds /\ p \in Policies /\ a <= world.wallets
      /\ world.balance \in [Policies -> Nat] /\ world.balance[p] \in Nat
  BY WorldTypes DEF IInv, AllOK, WorldOK, Tasks, SubmitTask
<1>2. world' = [world EXCEPT !.wallets = x, !.pool = y, !.balance = b]
  BY <1>1 DEF SubmitTask, Worlds
<1>3. x \in Nat /\ y \in Nat
  BY <1>1, WorldTypes
<1>4. /\ b \in [Policies -> Nat]
      /\ SumOver(b, Policies) = SumOver(world.balance, Policies) + a
      /\ SumOver(world.balance, Policies) \in Nat
  BY <1>1, SumChange, FeeAssumption
<1> HIDE DEF x, y, b
<1>5. world' \in Worlds
  BY <1>1, <1>2, <1>3, <1>4 DEF Worlds
<1>6. /\ world'.proxy = world.proxy /\ world'.pool = y /\ world'.balance = b
      /\ world'.collected = world.collected /\ world'.rescued = world.rescued
      /\ world'.totalFee = world.totalFee /\ world'.shares = world.shares
      /\ world'.distributed = world.distributed /\ world'.operatorFees = world.operatorFees
      /\ world'.withdrawn = world.withdrawn /\ world'.handedOn = world.handedOn
  BY <1>1, <1>2 DEF Worlds
<1>7. WorldOK(world')
  BY <1>1, <1>4, <1>5, <1>6, WorldTypes DEF WorldOK, Solvent, SplitUp, SharesFit, y
<1>8. Push("task", <<t>>, FALSE) /\ <<t>> \in Seq(Tasks)
  BY OneTask, Zenon DEF SubmitTask
<1> QED BY <1>6, <1>7, <1>8, PushStep

\* A batch brings its ether to the proxy; the amount quoted is enough for each
\* of its tasks if they are of different policies (submitTasks).
LEMMA SubmitTasksStep ==
  ASSUME IInv, NEW n \in Nat, NEW ts \in [1 .. n -> Tasks], NEW a \in Nat, SubmitTasks(ts, a)
  PROVE  IInv'
<1> DEFINE x == world.wallets - a
           y == world.proxy + a
           quoted == /\ IsInjective([i \in DOMAIN ts |-> ts[i].policy])
                     /\ a >= TotalRequired(world, ts)
           f == [kind |-> "batch", tasks |-> ts, next |-> 1, outside |-> FALSE,
                 quoted |-> quoted, saved |-> world]
<1>1. WorldOK(world) /\ world \in Worlds /\ a <= world.wallets
  BY DEF IInv, AllOK, WorldOK, SubmitTasks
<1>2. world' = [world EXCEPT !.wallets = x, !.proxy = y]
  BY DEF SubmitTasks
<1>3. x \in Nat /\ y \in Nat
  BY <1>1, WorldTypes
<1> HIDE DEF x, y
<1>4. world' \in Worlds
  BY <1>1, <1>2, <1>3 DEF Worlds
<1>5. /\ world'.proxy = y /\ world'.pool = world.pool /\ world'.balance = world.balance
      /\ world'.collected = world.collected /\ world'.rescued = world.rescued
      /\ world'.totalFee = world.totalFee /\ world'.shares = world.shares
      /\ world'.distributed = world.distributed /\ world'.operatorFees = world.operatorFees
      /\ world'.withdrawn = world.withdrawn /\ world'.handedOn = world.handedOn
  BY <1>1, <1>2 DEF Worlds
<1>6. WorldOK(world')
  BY <1>1, <1>4, <1>5 DEF WorldOK, Solvent, SplitUp, SharesFit
<1>7. ts \in Seq(Tasks) /\ DOMAIN ts = 1 .. n /\ Len(ts) = n
  OBVIOUS
<1>8. quoted \in BOOLEAN /\ Push("batch", ts, quoted)
  BY DEF SubmitTasks
<1>9. f \in Frames
  BY <1>1, <1>7, <1>8 DEF Frames
<1>10. ASSUME quoted
       PROVE  Different(f) /\ Provided(world', f)
  <2>1. Different(f)
    BY <1>7, <1>10 DEF Different, IsInjective
  <2>2. Left(f) = DOMAIN ts
    BY <1>7 DEF Left
  <2>3. Needs(world', f) = [i \in DOMAIN ts |-> Required(world, ts[i])]
    BY <1>5 DEF Needs, Required
  <2>4. SumOver(Needs(world', f), Left(f)) = TotalRequired(world, ts)
    BY <2>2, <2>3 DEF TotalRequired
  <2>5. SumOver(Needs(world', f), Left(f)) \in Nat
    BY <1>4, <1>9, NeedsTypes
  <2>6. a >= TotalRequired(world, ts) /\ world.proxy \in Nat
    BY <1>1, <1>10, WorldTypes
  <2> HIDE DEF f, quoted
  <2>7. world'.proxy >= SumOver(Needs(world', f), Left(f))
    BY <1>5, <2>4, <2>5, <2>6 DEF y
  <2> QED BY <2>1, <2>7 DEF Provided
<1>11. f = [kind |-> "batch", tasks |-> ts, next |-> 1, outside |-> ("batch" = "payout"),
            quoted |-> quoted, saved |-> world]
  OBVIOUS
<1> HIDE DEF quoted, f
<1> QED BY <1>6, <1>7, <1>8, <1>10, <1>11, PushStep

\* The world after a task's fee was claimed: the task has taken what it still
\* required from the batch, and the fee from its policy's balance.
LEMMA ProcessedWorld ==
  ASSUME IInv, MoreTasks, Affordable,
         NEW v, v = Claimed(Prepared(world, Task), Task)
  PROVE  /\ Task \in Tasks /\ WorldOK(v) /\ v.totalFee = world.totalFee
         /\ \A q \in Policies \ {Task.policy} : v.balance[q] = world.balance[q]
         /\ \A u \in Tasks : u.policy # Task.policy => Required(v, u) = Required(world, u)
         /\ Top.kind = "batch" =>
              /\ v.proxy = world.proxy - Required(world, Task)
              /\ v.balance[Task.policy] = world.balance[Task.policy]
                   + Required(world, Task) - world.totalFee[Task.subnet]
         /\ Top.kind # "batch" =>
              /\ v.proxy = world.proxy
              /\ v.balance[Task.policy]
                   = world.balance[Task.policy] - world.totalFee[Task.subnet]
<1> DEFINE t == Task
           p == t.policy
           a == Required(world, t)
           fee == world.totalFee[t.subnet]
           u == Prepared(world, t)
<1>1. /\ WorldOK(world) /\ world \in Worlds /\ Top \in Frames /\ frames # <<>>
      /\ Top.next <= Len(Top.tasks)
  BY TopTypes DEF IInv, AllOK, WorldOK, MoreTasks, Submitting
<1>2. t \in Tasks
  <2>1. Top.next \in DOMAIN Top.tasks
    BY <1>1, NeedsTypes DEF Frames
  <2> QED BY <1>1, <2>1, NeedsTypes DEF Task
<1>3. /\ p \in Policies /\ a \in Nat /\ fee \in Nat /\ world.balance[p] \in Nat
      /\ world.proxy \in Nat /\ world.balance[p] + a >= fee
  BY <1>1, <1>2, WorldTypes DEF Tasks, Required
<1>4. /\ WorldOK(u) /\ u.totalFee = world.totalFee
      /\ \A q \in Policies \ {p} : u.balance[q] = world.balance[q]
      /\ u.balance[p] >= fee
      /\ Top.kind = "batch" =>
           u.proxy = world.proxy - a /\ u.balance[p] = world.balance[p] + a
      /\ Top.kind # "batch" => u = world
  <2>1. CASE Top.kind = "batch"
    <3>1. u = Deposited(world, p, a) /\ a <= world.proxy
      BY <1>3, <2>1 DEF Prepared, Affordable
    <3> HIDE DEF a, u, p, t
    <3>2. /\ WorldOK(u) /\ u.proxy = world.proxy - a /\ u.totalFee = world.totalFee
          /\ u.balance[p] = world.balance[p] + a
          /\ \A q \in Policies \ {p} : u.balance[q] = world.balance[q]
      BY <1>1, <1>3, <3>1, DepositedWorld
    <3> QED BY <1>3, <2>1, <3>2
  <2>2. CASE Top.kind # "batch"
    <3>1. u = world /\ world.balance[p] >= fee
      BY <2>2 DEF Prepared, Affordable
    <3> QED BY <1>1, <2>2, <3>1
  <2> QED BY <2>1, <2>2
<1>5. v = Claimed(u, t) /\ u.balance[t.policy] >= u.totalFee[t.subnet]
  BY <1>4
<1> HIDE DEF u, t
<1>6. /\ WorldOK(v) /\ v.proxy = u.proxy /\ v.totalFee = u.totalFee
      /\ v.balance[t.policy] = u.balance[t.policy] - u.totalFee[t.subnet]
      /\ \A q \in Policies \ {t.policy} : v.balance[q] = u.balance[q]
  BY <1>2, <1>4, <1>5, ClaimedWorld
<1>7. \A q \in Policies \ {p} : v.balance[q] = world.balance[q]
  BY <1>4, <1>6
<1>8. ASSUME NEW x \in Tasks, x.policy # p
      PROVE  Required(v, x) = Required(world, x)
  <2>1. x.policy \in Policies \ {p}
    BY <1>8 DEF Tasks
  <2> QED BY <1>4, <1>6, <1>7, <2>1 DEF Required
<1>9. /\ Top.kind = "batch" => v.proxy = world.proxy - a
                               /\ v.balance[p] = world.balance[p] + a - fee
      /\ Top.kind # "batch" => v.proxy = world.proxy /\ v.balance[p] = world.balance[p] - fee
  <2>1. v.balance[p] = u.balance[p] - fee /\ v.proxy = u.proxy
    BY <1>4, <1>6
  <2> HIDE DEF a, fee, p
  <2>2. CASE Top.kind = "batch"
    BY <1>3, <1>4, <2>1, <2>2
  <2>3. CASE Top.kind # "batch"
    BY <1>4, <2>1, <2>3
  <2> QED BY <2>2, <2>3
<1> QED BY <1>2, <1>4, <1>6, <1>7, <1>8, <1>9 DEF t

\* A frame of tasks goes on to its next task, or waits for the policy of this one.
LEMMA GoOn ==
  ASSUME IInv, frames # <<>>, Top.kind # "payout",
         \/ frames' = [frames EXCEPT ![Len(frames)].outside = TRUE] /\ ~Top.outside
         \/ NextTask
  PROVE  \E g \in Frames :
           /\ frames' = [frames EXCEPT ![Len(frames)] = g]
           /\ g.kind = Top.kind /\ g.saved = Top.saved /\ g.quoted = Top.quoted
           /\ g.tasks = Top.tasks
           /\ Left(g) = {i \in DOMAIN Top.tasks : i >= Top.next + 1}
<1>1. /\ Top \in Frames /\ Top = frames[Len(frames)] /\ Len(frames) \in DOMAIN frames
      /\ frames \in Seq(Frames)
  BY TopTypes
<1>2. CASE frames' = [frames EXCEPT ![Len(frames)].outside = TRUE] /\ ~Top.outside
  <2> DEFINE g == [Top EXCEPT !.outside = TRUE]
  <2>1. /\ g \in Frames /\ g.kind = Top.kind /\ g.saved = Top.saved /\ g.quoted = Top.quoted
        /\ g.tasks = Top.tasks /\ g.outside = TRUE /\ g.next = Top.next
    BY <1>1 DEF Frames
  <2>2. frames' = [frames EXCEPT ![Len(frames)] = g]
    BY <1>1, <1>2
  <2>3. Left(g) = {i \in DOMAIN Top.tasks : i >= Top.next + 1}
    BY <2>1 DEF Left
  <2> QED BY <2>1, <2>2, <2>3
<1>3. CASE NextTask
  <2> DEFINE g == [Top EXCEPT !.next = Top.next + 1, !.outside = FALSE]
  <2>1. Top.next + 1 \in Nat \ {0}
    BY <1>1 DEF Frames
  <2>2. /\ g \in Frames /\ g.kind = Top.kind /\ g.saved = Top.saved /\ g.quoted = Top.quoted
        /\ g.tasks = Top.tasks /\ g.outside = FALSE /\ g.next = Top.next + 1
    BY <1>1, <2>1 DEF Frames
  <2>3. frames' = [frames EXCEPT ![Len(frames)] = g]
    BY <1>1, <1>3 DEF NextTask
  <2>4. Left(g) = {i \in DOMAIN Top.tasks : i >= Top.next + 1}
    BY <2>2 DEF Left
  <2> QED BY <2>2, <2>3, <2>4
<1> QED BY <1>2, <1>3

\* A task's fee is claimed and split; the tasks after it still have their part
\* (beforeTaskSubmission).
LEMMA ProcessTaskStep ==
  ASSUME IInv, NEW isApproved \in BOOLEAN, ProcessTask(isApproved)
  PROVE  IInv'
<1>1. /\ MoreTasks /\ Affordable /\ world' = Claimed(Prepared(world, Task), Task)
      /\ frames # <<>> /\ Top.kind # "payout" /\ ~Top.outside /\ Top.next <= Len(Top.tasks)
  BY DEF ProcessTask, MoreTasks, Submitting
<1>2. /\ WorldOK(world')
      /\ \A u \in Tasks : u.policy # Task.policy => Required(world', u) = Required(world, u)
      /\ Top.kind = "batch" => world'.proxy = world.proxy - Required(world, Task)
      /\ Top.kind # "batch" => world'.proxy = world.proxy
  BY <1>1, ProcessedWorld
<1>3. PICK g \in Frames :
        /\ frames' = [frames EXCEPT ![Len(frames)] = g]
        /\ g.kind = Top.kind /\ g.saved = Top.saved /\ g.quoted = Top.quoted
        /\ g.tasks = Top.tasks
        /\ Left(g) = {i \in DOMAIN Top.tasks : i >= Top.next + 1}
  <2>1. \/ frames' = [frames EXCEPT ![Len(frames)].outside = TRUE] /\ ~Top.outside
        \/ NextTask
    BY <1>1 DEF ProcessTask
  <2> QED BY <1>1, <2>1, GoOn
<1>4. /\ AllOK(world, frames) /\ Top = frames[Len(frames)] /\ Top \in Frames
      /\ Len(frames) \in 1 .. Len(frames) /\ world \in Worlds /\ world' \in Worlds
  BY <1>1, <1>2, TopTypes DEF IInv, AllOK, WorldOK
<1>5. ASSUME g.quoted
      PROVE  g.kind = "batch" /\ Different(g) /\ Provided(world', g)
  <2>1. Top.kind = "batch" /\ Different(Top) /\ Provided(world, Top)
    BY <1>3, <1>4, <1>5 DEF AllOK, QuoteOK
  <2>2. Different(g)
    BY <1>3, <2>1 DEF Different
  <2>3. Provided(world', g)
    BY <1>1, <1>2, <1>3, <1>4, <2>1, ProvidedNext DEF Task
  <2> QED BY <1>3, <2>1, <2>2, <2>3
<1>6. AllOK(world', [frames EXCEPT ![Len(frames)] = g])
  BY <1>1, <1>2, <1>3, <1>4, <1>5, ChangeTop
<1> QED BY <1>3, <1>6 DEF IInv

\* The policy called returns or reverts.
LEMMA PolicyEndsStep ==
  ASSUME IInv, PolicyEnds
  PROVE  IInv'
<1>1. frames # <<>> /\ Top.kind # "payout" /\ Top.outside
  BY DEF PolicyEnds
<1>2. ASSUME NextTask, world' = world
      PROVE  IInv'
  <2>1. PICK g \in Frames :
          /\ frames' = [frames EXCEPT ![Len(frames)] = g]
          /\ g.kind = Top.kind /\ g.saved = Top.saved /\ g.quoted = Top.quoted
          /\ g.tasks = Top.tasks
          /\ Left(g) = {i \in DOMAIN Top.tasks : i >= Top.next + 1}
    BY <1>1, <1>2, GoOn
  <2>2. /\ AllOK(world, frames) /\ WorldOK(world) /\ Top = frames[Len(frames)]
        /\ Top \in Frames /\ Len(frames) \in 1 .. Len(frames)
    BY <1>1, TopTypes DEF IInv, AllOK
  <2>3. ASSUME g.quoted
        PROVE  g.kind = "batch" /\ Different(g) /\ Provided(world, g)
    <3>1. Top.kind = "batch" /\ Different(Top) /\ Provided(world, Top)
      BY <2>1, <2>2, <2>3 DEF AllOK, QuoteOK
    <3>2. Different(g)
      BY <2>1, <3>1 DEF Different
    <3>3. Left(Top) = Left(g)
      BY <1>1, <2>1 DEF Left
    <3>4. Needs(world, g) = Needs(world, Top)
      BY <2>1 DEF Needs
    <3> QED BY <2>1, <3>1, <3>2, <3>3, <3>4 DEF Provided
  <2>4. AllOK(world, [frames EXCEPT ![Len(frames)] = g])
    BY <1>1, <2>1, <2>2, <2>3, ChangeTop
  <2> QED BY <1>2, <2>1, <2>4 DEF IInv
<1> QED BY <1>1, <1>2, RevertStep DEF PolicyEnds

\* What a batch leaves over is rescued, and the proxy is empty (submitTasks).
LEMMA FinishSubmissionStep ==
  ASSUME IInv, FinishSubmission
  PROVE  IInv'
<1> DEFINE n == Len(frames)
           x == world.pool + world.proxy
           y == world.rescued + world.proxy
<1>1. /\ frames # <<>> /\ Top.kind # "payout" /\ frames' = SubSeq(frames, 1, n - 1)
      /\ world' = IF Top.kind = "batch"
                  THEN [world EXCEPT !.proxy = 0, !.pool = x, !.rescued = y] ELSE world
  BY DEF FinishSubmission, Submitting, Pop, Below
<1>2. /\ WorldOK(world) /\ world \in Worlds /\ AllOK(world, frames)
      /\ Top = frames[n] /\ n \in Nat \ {0}
  BY <1>1, TopTypes DEF IInv, AllOK, WorldOK
<1>3. x \in Nat /\ y \in Nat
  BY <1>2, WorldTypes
<1> HIDE DEF x, y
<1>4. ASSUME Top.kind = "batch"
      PROVE  WorldOK(world') /\ world'.proxy = 0
  <2>1. world' = [world EXCEPT !.proxy = 0, !.pool = x, !.rescued = y]
    BY <1>1, <1>4
  <2>2. world' \in Worlds
    BY <1>2, <1>3, <2>1 DEF Worlds
  <2>3. /\ world'.proxy = 0 /\ world'.pool = x /\ world'.balance = world.balance
        /\ world'.collected = world.collected /\ world'.rescued = y
        /\ world'.totalFee = world.totalFee /\ world'.shares = world.shares
        /\ world'.distributed = world.distributed /\ world'.operatorFees = world.operatorFees
        /\ world'.withdrawn = world.withdrawn /\ world'.handedOn = world.handedOn
    BY <1>2, <2>1 DEF Worlds
  <2>4. Solvent(world')
    BY <1>2, <2>3, WorldTypes, WorldSums DEF WorldOK, Solvent, x, y
  <2>5. WorldOK(world')
    BY <1>2, <2>2, <2>3, <2>4 DEF WorldOK, SplitUp, SharesFit
  <2> QED BY <2>3, <2>5
<1>5. ASSUME Top.kind # "batch", NoBatch(frames, n - 1)
      PROVE  world'.proxy = 0
  <2>1. \A j \in 1 .. n : j \in 1 .. n - 1 \/ j = n
    BY <1>2
  <2>2. NoBatch(frames, n)
    BY <1>2, <1>5, <2>1 DEF NoBatch
  <2> QED BY <1>1, <1>2, <1>5, <2>2 DEF AllOK, ProxyOK
<1>6. WorldOK(world') /\ (NoBatch(frames, n - 1) => world'.proxy = 0)
  BY <1>1, <1>2, <1>4, <1>5
<1>7. \A i \in 1 .. n - 1 : ~frames[i].quoted
  BY <1>1, NoneQuotedBelow
<1>8. AllOK(world', SubSeq(frames, 1, n - 1))
  BY <1>1, <1>2, <1>6, <1>7, PopFrame
<1> QED BY <1>1, <1>8 DEF IInv

\* Ether becomes a policy's balance (depositNativeForPolicy).
LEMMA DepositStep ==
  ASSUME IInv, NEW p \in Policies, NEW a \in Nat, DepositNativeForPolicy(p, a)
  PROVE  IInv'
<1> DEFINE x == world.wallets - a
           y == world.pool + a
           b == [world.balance EXCEPT ![p] = world.balance[p] + a]
<1>1. /\ WorldOK(world) /\ world \in Worlds /\ a <= world.wallets /\ frames' = frames
      /\ world.balance \in [Policies -> Nat] /\ world.balance[p] \in Nat
      /\ AllOK(world, frames)
  BY WorldTypes DEF IInv, AllOK, WorldOK, DepositNativeForPolicy
<1>2. world' = [world EXCEPT !.wallets = x, !.pool = y, !.balance = b]
  BY <1>1 DEF DepositNativeForPolicy, Worlds
<1>3. x \in Nat /\ y \in Nat
  BY <1>1, WorldTypes
<1>4. /\ b \in [Policies -> Nat] /\ \A q \in Policies : b[q] >= world.balance[q]
      /\ SumOver(b, Policies) = SumOver(world.balance, Policies) + a
      /\ SumOver(world.balance, Policies) \in Nat
  BY <1>1, SumChange, FeeAssumption
<1> HIDE DEF x, y, b
<1>5. world' \in Worlds
  BY <1>1, <1>2, <1>3, <1>4 DEF Worlds
<1>6. /\ world'.proxy = world.proxy /\ world'.pool = y /\ world'.balance = b
      /\ world'.collected = world.collected /\ world'.rescued = world.rescued
      /\ world'.totalFee = world.totalFee /\ world'.shares = world.shares
      /\ world'.distributed = world.distributed /\ world'.operatorFees = world.operatorFees
      /\ world'.withdrawn = world.withdrawn /\ world'.handedOn = world.handedOn
  BY <1>1, <1>2 DEF Worlds
<1>7. WorldOK(world')
  BY <1>1, <1>4, <1>5, <1>6, WorldTypes DEF WorldOK, Solvent, SplitUp, SharesFit, y
<1>8. ASSUME NEW t \in Tasks
      PROVE  Required(world', t) <= Required(world, t)
  <2>1. /\ world.balance[t.policy] \in Nat /\ b[t.policy] \in Nat
        /\ b[t.policy] >= world.balance[t.policy] /\ world.totalFee[t.subnet] \in Nat
    BY <1>1, <1>4, WorldTypes DEF Tasks
  <2> QED BY <1>6, <2>1 DEF Required
<1>9. AllOK(world', frames)
  BY <1>1, <1>6, <1>7, <1>8, KeepFrames
<1> QED BY <1>1, <1>9 DEF IInv

\* A call that changes amounts only, and nothing of the policies or fees: the
\* frames keep what they need.
LEMMA AmountsStep ==
  ASSUME IInv, frames' = frames, WorldOK(world'), world'.proxy = world.proxy,
         world'.balance = world.balance, world'.totalFee = world.totalFee
  PROVE  IInv'
<1>1. AllOK(world, frames) /\ world \in Worlds
  BY DEF IInv, AllOK, WorldOK
<1>2. \A t \in Tasks : Required(world', t) = Required(world, t) /\ Required(world, t) \in Nat
  <2>1. \A t \in Tasks : world.totalFee[t.subnet] \in Nat /\ world.balance[t.policy] \in Nat
    BY <1>1, WorldTypes DEF Tasks
  <2> QED BY <2>1 DEF Required
<1>3. AllOK(world', frames)
  BY <1>1, <1>2, KeepFrames
<1> QED BY <1>3 DEF IInv

\* Anyone adds to the rescued fees (depositRescuedFees).
LEMMA DepositRescuedStep ==
  ASSUME IInv, NEW a \in Nat, DepositRescuedFees(a)
  PROVE  IInv'
<1> DEFINE x == world.wallets - a
           y == world.pool + a
           z == world.rescued + a
<1>1. /\ WorldOK(world) /\ world \in Worlds /\ a <= world.wallets /\ frames' = frames
  BY DEF IInv, AllOK, WorldOK, DepositRescuedFees
<1>2. world' = [world EXCEPT !.wallets = x, !.pool = y, !.rescued = z]
  BY DEF DepositRescuedFees
<1>3. x \in Nat /\ y \in Nat /\ z \in Nat
  BY <1>1, WorldTypes
<1> HIDE DEF x, y, z
<1>4. world' \in Worlds
  BY <1>1, <1>2, <1>3 DEF Worlds
<1>5. /\ world'.proxy = world.proxy /\ world'.pool = y /\ world'.balance = world.balance
      /\ world'.collected = world.collected /\ world'.rescued = z
      /\ world'.totalFee = world.totalFee /\ world'.shares = world.shares
      /\ world'.distributed = world.distributed /\ world'.operatorFees = world.operatorFees
      /\ world'.withdrawn = world.withdrawn /\ world'.handedOn = world.handedOn
  BY <1>1, <1>2 DEF Worlds
<1>6. Solvent(world')
  BY <1>1, <1>5, WorldTypes, WorldSums DEF WorldOK, Solvent, y, z
<1>7. WorldOK(world')
  BY <1>1, <1>4, <1>5, <1>6 DEF WorldOK, SplitUp, SharesFit
<1> QED BY <1>1, <1>5, <1>7, AmountsStep

\* A payment leaves the pool and its counter, and its recipient gets control.
LEMMA PayOutStep ==
  ASSUME IInv, Push("payout", <<>>, FALSE), WorldOK(world'), world'.proxy = world.proxy,
         world'.balance = world.balance, world'.totalFee = world.totalFee
  PROVE  IInv'
<1>1. world \in Worlds
  BY DEF IInv, AllOK, WorldOK
<1>2. \A t \in Tasks : Required(world', t) = Required(world, t) /\ Required(world, t) \in Nat
  <2>1. \A t \in Tasks : world.totalFee[t.subnet] \in Nat /\ world.balance[t.policy] \in Nat
    BY <1>1, WorldTypes DEF Tasks
  <2> QED BY <2>1 DEF Required
<1>3. <<>> \in Seq(Tasks) /\ \A t \in Tasks : Required(world', t) <= Required(world, t)
  BY <1>2
<1> QED BY <1>3, PushStep

\* Collected fees are paid out (withdrawFees).
LEMMA WithdrawFeesStep ==
  ASSUME IInv, NEW a \in Nat, WithdrawFees(a)
  PROVE  IInv'
<1> DEFINE c == world.collected - a
           y == world.pool - a
           x == world.wallets + a
           z == world.withdrawn + a
<1>1. /\ WorldOK(world) /\ world \in Worlds /\ a <= world.collected /\ a <= world.pool
      /\ Push("payout", <<>>, FALSE)
  BY DEF IInv, AllOK, WorldOK, WithdrawFees
<1>2. world' = [world EXCEPT !.collected = c, !.pool = y, !.wallets = x, !.withdrawn = z]
  BY DEF WithdrawFees
<1>3. c \in Nat /\ x \in Nat /\ y \in Nat /\ z \in Nat
  BY <1>1, WorldTypes
<1> HIDE DEF c, x, y, z
<1>4. world' \in Worlds
  BY <1>1, <1>2, <1>3 DEF Worlds
<1>5. /\ world'.proxy = world.proxy /\ world'.pool = y /\ world'.balance = world.balance
      /\ world'.collected = c /\ world'.rescued = world.rescued
      /\ world'.totalFee = world.totalFee /\ world'.shares = world.shares
      /\ world'.distributed = world.distributed /\ world'.operatorFees = world.operatorFees
      /\ world'.withdrawn = z /\ world'.handedOn = world.handedOn
  BY <1>1, <1>2 DEF Worlds
<1>6. Solvent(world') /\ SplitUp(world')
  <2>1. Solvent(world')
    BY <1>1, <1>5, WorldTypes, WorldSums DEF WorldOK, Solvent, c, y
  <2>2. c + z = world.collected + world.withdrawn
    BY <1>1, WorldTypes DEF c, z
  <2>3. SplitUp(world')
    BY <1>1, <1>5, <2>2 DEF WorldOK, SplitUp
  <2> QED BY <2>1, <2>3
<1>7. WorldOK(world')
  BY <1>1, <1>4, <1>5, <1>6 DEF WorldOK, SharesFit
<1> QED BY <1>1, <1>5, <1>7, PayOutStep

\* Rescued fees are paid out (withdrawRescuedFees).
LEMMA WithdrawRescuedStep ==
  ASSUME IInv, NEW a \in Nat, WithdrawRescuedFees(a)
  PROVE  IInv'
<1> DEFINE c == world.rescued - a
           y == world.pool - a
           x == world.wallets + a
<1>1. /\ WorldOK(world) /\ world \in Worlds /\ a <= world.rescued /\ a <= world.pool
      /\ Push("payout", <<>>, FALSE)
  BY DEF IInv, AllOK, WorldOK, WithdrawRescuedFees
<1>2. world' = [world EXCEPT !.rescued = c, !.pool = y, !.wallets = x]
  BY DEF WithdrawRescuedFees
<1>3. c \in Nat /\ x \in Nat /\ y \in Nat
  BY <1>1, WorldTypes
<1> HIDE DEF c, x, y
<1>4. world' \in Worlds
  BY <1>1, <1>2, <1>3 DEF Worlds
<1>5. /\ world'.proxy = world.proxy /\ world'.pool = y /\ world'.balance = world.balance
      /\ world'.collected = world.collected /\ world'.rescued = c
      /\ world'.totalFee = world.totalFee /\ world'.shares = world.shares
      /\ world'.distributed = world.distributed /\ world'.operatorFees = world.operatorFees
      /\ world'.withdrawn = world.withdrawn /\ world'.handedOn = world.handedOn
  BY <1>1, <1>2 DEF Worlds
<1>6. Solvent(world')
  BY <1>1, <1>5, WorldTypes, WorldSums DEF WorldOK, Solvent, c, y
<1>7. WorldOK(world')
  BY <1>1, <1>4, <1>5, <1>6 DEF WorldOK, SplitUp, SharesFit
<1> QED BY <1>1, <1>5, <1>7, PayOutStep

\* The recipient accepts, or the withdrawal is undone.
LEMMA PayoutEndsStep ==
  ASSUME IInv, PayoutEnds
  PROVE  IInv'
<1> DEFINE n == Len(frames)
<1>1. /\ frames # <<>> /\ Top.kind = "payout" /\ Top = frames[n] /\ n \in Nat \ {0}
      /\ AllOK(world, frames) /\ WorldOK(world)
  BY TopTypes DEF IInv, AllOK, PayoutEnds
<1>2. ASSUME Pop, world' = world
      PROVE  IInv'
  <2>1. NoBatch(frames, n - 1) => NoBatch(frames, n)
    <3>1. \A j \in 1 .. n : j \in 1 .. n - 1 \/ j = n
      BY <1>1
    <3> QED BY <1>1, <3>1 DEF NoBatch
  <2>2. NoBatch(frames, n - 1) => world.proxy = 0
    BY <1>1, <2>1 DEF AllOK, ProxyOK
  <2>3. ASSUME NEW i \in 1 .. n - 1, frames[i].quoted
        PROVE  Provided(world, frames[i])
    <3>1. i \in 1 .. n
      BY <1>1
    <3> QED BY <1>1, <2>3, <3>1 DEF AllOK, QuoteOK
  <2>4. AllOK(world, SubSeq(frames, 1, n - 1))
    BY <1>1, <2>2, <2>3, PopFrame
  <2> QED BY <1>2, <2>4 DEF IInv, Pop, Below
<1> QED BY <1>1, <1>2, RevertStep DEF PayoutEnds

\* New fees: what was quoted before counts no more (setTaskDefinitionFee).
LEMMA SetFeeStep ==
  ASSUME IInv, NEW s \in Subnets, NEW fee \in Nat, SetTaskDefinitionFee(s, fee)
  PROVE  IInv'
<1> DEFINE d == [world.totalFee EXCEPT ![s] = fee]
<1>1. /\ AllOK(world, frames) /\ WorldOK(world) /\ world \in Worlds
      /\ frames' = Unquote(frames) /\ world.totalFee \in [Subnets -> Nat]
  BY WorldTypes DEF IInv, AllOK, WorldOK, SetTaskDefinitionFee, Unquoted, Unquote
<1>2. world' = [world EXCEPT !.totalFee = d] /\ d \in [Subnets -> Nat]
  BY <1>1 DEF SetTaskDefinitionFee, Worlds
<1> HIDE DEF d
<1>3. world' \in Worlds
  BY <1>1, <1>2 DEF Worlds
<1>4. /\ world'.proxy = world.proxy /\ world'.pool = world.pool
      /\ world'.balance = world.balance
      /\ world'.collected = world.collected /\ world'.rescued = world.rescued
      /\ world'.shares = world.shares
      /\ world'.distributed = world.distributed /\ world'.operatorFees = world.operatorFees
      /\ world'.withdrawn = world.withdrawn /\ world'.handedOn = world.handedOn
  BY <1>1, <1>2 DEF Worlds
<1>5. WorldOK(world')
  BY <1>1, <1>3, <1>4 DEF WorldOK, Solvent, SplitUp, SharesFit
<1>6. AllOK(world', Unquote(frames))
  BY <1>1, <1>4, <1>5, DropQuotes
<1> QED BY <1>1, <1>6 DEF IInv

\* New shares stay below the whole fee (setTaskDefinitionFeeRecipients).
LEMMA SetSharesStep ==
  ASSUME IInv, NEW s \in Subnets, NEW R \in SUBSET Recipients, NEW given \in [R -> Shares],
         SetTaskDefinitionFeeRecipients(s, given)
  PROVE  IInv'
<1> DEFINE all == [r \in Recipients |->
                     IF r \in DOMAIN given THEN given[r] ELSE world.shares[s][r]]
           d == [world.shares EXCEPT ![s] = all]
<1>1. /\ WorldOK(world) /\ world \in Worlds /\ frames' = frames
      /\ world.shares \in [Subnets -> [Recipients -> 0 .. FeeScale]]
      /\ SumOver(all, Recipients) < FeeScale
  BY WorldTypes DEF IInv, AllOK, WorldOK, SetTaskDefinitionFeeRecipients, SharesOK
<1>2. all \in [Recipients -> 0 .. FeeScale]
  <2>1. \A r \in Recipients : world.shares[s][r] \in 0 .. FeeScale
    BY <1>1
  <2>2. \A r \in DOMAIN given : given[r] \in 0 .. FeeScale
    BY FeeAssumption
  <2> QED BY <2>1, <2>2
<1>3. world' = [world EXCEPT !.shares = d]
  BY <1>1 DEF SetTaskDefinitionFeeRecipients, Worlds
<1> HIDE DEF all
<1>4. /\ d \in [Subnets -> [Recipients -> 0 .. FeeScale]]
      /\ \A x \in Subnets : d[x] = IF x = s THEN all ELSE world.shares[x]
  BY <1>1, <1>2
<1> HIDE DEF d
<1>5. world' \in Worlds
  BY <1>1, <1>3, <1>4 DEF Worlds
<1>6. /\ world'.proxy = world.proxy /\ world'.pool = world.pool
      /\ world'.balance = world.balance /\ world'.totalFee = world.totalFee
      /\ world'.collected = world.collected /\ world'.rescued = world.rescued
      /\ world'.shares = d
      /\ world'.distributed = world.distributed /\ world'.operatorFees = world.operatorFees
      /\ world'.withdrawn = world.withdrawn /\ world'.handedOn = world.handedOn
  BY <1>1, <1>3 DEF Worlds
<1>7. SharesFit(world')
  BY <1>1, <1>4, <1>6 DEF WorldOK, SharesFit
<1>8. WorldOK(world')
  BY <1>1, <1>5, <1>6, <1>7 DEF WorldOK, Solvent, SplitUp
<1> QED BY <1>1, <1>6, <1>8, AmountsStep

\* A recipient is told what it has, and its counter starts anew (withdrawFee).
LEMMA WithdrawFeeStep ==
  ASSUME IInv, NEW r \in Recipients, WithdrawFee(r)
  PROVE  IInv'
<1> DEFINE a == world.distributed[r]
           h == world.handedOn + a
           d == [world.distributed EXCEPT ![r] = world.distributed[r] + (-a)]
<1>1. /\ WorldOK(world) /\ world \in Worlds /\ frames' = frames
      /\ world.distributed \in [Recipients -> Nat] /\ a \in Nat
  BY WorldTypes DEF IInv, AllOK, WorldOK, WithdrawFee
<1>2. -a \in Int /\ a + (-a) = 0 /\ world.distributed[r] + (-a) \in Nat
  BY <1>1
<1>3. /\ d \in [Recipients -> Nat]
      /\ SumOver(d, Recipients) = SumOver(world.distributed, Recipients) + (-a)
      /\ SumOver(world.distributed, Recipients) \in Nat
  <2> HIDE DEF a
  <2> QED BY <1>1, <1>2, SumChange, FeeAssumption
<1>4. world' = [world EXCEPT !.handedOn = h, !.distributed = d]
  BY <1>1, <1>2 DEF WithdrawFee, Worlds
<1>5. h \in Nat
  BY <1>1, WorldTypes
<1> HIDE DEF h, d, a
<1>6. world' \in Worlds
  BY <1>1, <1>3, <1>4, <1>5 DEF Worlds
<1>7. /\ world'.proxy = world.proxy /\ world'.pool = world.pool
      /\ world'.balance = world.balance /\ world'.totalFee = world.totalFee
      /\ world'.collected = world.collected /\ world'.rescued = world.rescued
      /\ world'.shares = world.shares
      /\ world'.distributed = d /\ world'.operatorFees = world.operatorFees
      /\ world'.withdrawn = world.withdrawn /\ world'.handedOn = h
  BY <1>1, <1>4 DEF Worlds
<1>8. SplitUp(world')
  <2>1. /\ world.collected \in Nat /\ world.withdrawn \in Nat /\ world.handedOn \in Nat
        /\ SumOver(world.operatorFees, Subnets) \in Nat
    BY <1>1, WorldTypes, WorldSums
  <2> QED BY <1>1, <1>3, <1>7, <2>1 DEF WorldOK, SplitUp, h
<1>9. WorldOK(world')
  BY <1>1, <1>6, <1>7, <1>8 DEF WorldOK, Solvent, SharesFit
<1> QED BY <1>1, <1>7, <1>9, AmountsStep

\* The attestation center is told what the operators of a subnet have
\* (calculateFeesPerId).
LEMMA CalculateFeesStep ==
  ASSUME IInv, NEW s \in Subnets, CalculateFeesPerId(s)
  PROVE  IInv'
<1> DEFINE a == world.operatorFees[s]
           h == world.handedOn + a
           d == [world.operatorFees EXCEPT ![s] = world.operatorFees[s] + (-a)]
<1>1. /\ WorldOK(world) /\ world \in Worlds /\ frames' = frames
      /\ world.operatorFees \in [Subnets -> Nat] /\ a \in Nat
  BY WorldTypes DEF IInv, AllOK, WorldOK, CalculateFeesPerId
<1>2. -a \in Int /\ a + (-a) = 0 /\ world.operatorFees[s] + (-a) \in Nat
  BY <1>1
<1>3. /\ d \in [Subnets -> Nat]
      /\ SumOver(d, Subnets) = SumOver(world.operatorFees, Subnets) + (-a)
      /\ SumOver(world.operatorFees, Subnets) \in Nat
  <2> HIDE DEF a
  <2> QED BY <1>1, <1>2, SumChange, FeeAssumption
<1>4. world' = [world EXCEPT !.handedOn = h, !.operatorFees = d]
  BY <1>1, <1>2 DEF CalculateFeesPerId, Worlds
<1>5. h \in Nat
  BY <1>1, WorldTypes
<1> HIDE DEF h, d, a
<1>6. world' \in Worlds
  BY <1>1, <1>3, <1>4, <1>5 DEF Worlds
<1>7. /\ world'.proxy = world.proxy /\ world'.pool = world.pool
      /\ world'.balance = world.balance /\ world'.totalFee = world.totalFee
      /\ world'.collected = world.collected /\ world'.rescued = world.rescued
      /\ world'.shares = world.shares
      /\ world'.distributed = world.distributed /\ world'.operatorFees = d
      /\ world'.withdrawn = world.withdrawn /\ world'.handedOn = h
  BY <1>1, <1>4 DEF Worlds
<1>8. SplitUp(world')
  <2>1. /\ world.collected \in Nat /\ world.withdrawn \in Nat /\ world.handedOn \in Nat
        /\ SumOver(world.distributed, Recipients) \in Nat
    BY <1>1, WorldTypes, WorldSums
  <2> QED BY <1>1, <1>3, <1>7, <2>1 DEF WorldOK, SplitUp, h
<1>9. WorldOK(world')
  BY <1>1, <1>6, <1>7, <1>8 DEF WorldOK, Solvent, SharesFit
<1> QED BY <1>1, <1>7, <1>9, AmountsStep

-----------------------------------------------------------------------------
(* The invariant *)

\* The state after deployment satisfies the invariant.
LEMMA InitIInv ==
  ASSUME Init
  PROVE  IInv
<1>1. /\ world \in Worlds /\ world.proxy = 0 /\ world.pool = 0 /\ frames = <<>>
      /\ world.collected = 0 /\ world.rescued = 0
      /\ world.withdrawn = 0 /\ world.handedOn = 0
      /\ world.balance = [p \in Policies |-> 0]
      /\ world.distributed = [r \in Recipients |-> 0]
      /\ world.operatorFees = [s \in Subnets |-> 0]
      /\ SharesFit(world)
  BY FeeAssumption DEF Init, SharesFit
<1>2. /\ SumOver(world.balance, Policies) = 0
      /\ SumOver(world.distributed, Recipients) = 0
      /\ SumOver(world.operatorFees, Subnets) = 0
  <2>1. /\ \A p \in Policies : world.balance[p] = 0
        /\ \A r \in Recipients : world.distributed[r] = 0
        /\ \A s \in Subnets : world.operatorFees[s] = 0
    BY <1>1
  <2> QED BY <2>1, SumZero, FeeAssumption
<1>3. WorldOK(world)
  BY <1>1, <1>2 DEF WorldOK, Solvent, SplitUp
<1>4. frames \in Seq(Frames) /\ Len(frames) = 0 /\ \A i \in 1 .. 0 : FALSE
  BY <1>1
<1>5. AllOK(world, frames)
  BY <1>1, <1>3, <1>4 DEF AllOK, ProxyOK, QuoteOK
<1> QED BY <1>5 DEF IInv

\* Every step keeps the invariant.
LEMMA NextIInv ==
  ASSUME IInv, [Next]_vars
  PROVE  IInv'
<1>1. Amounts \subseteq Nat /\ Fees \subseteq Nat /\ MaxBatch \in Nat
  BY FeeAssumption DEF Amounts
<1>2. CASE Submit
  <2>1. CASE \E t \in Tasks : SubmitDirectly(t) \/ \E v \in Amounts : SubmitTask(t, v)
    BY <1>1, <2>1, SubmitDirectlyStep, SubmitTaskStep
  <2>2. CASE \E n \in 0 .. MaxBatch, v \in Amounts :
               \E ts \in [1 .. n -> Tasks] : SubmitTasks(ts, v)
    <3>1. PICK n \in 0 .. MaxBatch, v \in Amounts :
                 \E ts \in [1 .. n -> Tasks] : SubmitTasks(ts, v)
      BY <2>2
    <3>2. n \in Nat /\ v \in Nat
      BY <1>1
    <3> QED BY <3>1, <3>2, SubmitTasksStep
  <2>3. CASE \E b \in BOOLEAN : ProcessTask(b)
    BY <2>3, ProcessTaskStep
  <2>4. CASE RefuseTask
    BY <2>4, RevertStep DEF RefuseTask, MoreTasks, Submitting
  <2> QED BY <1>2, <2>1, <2>2, <2>3, <2>4, PolicyEndsStep, FinishSubmissionStep DEF Submit
<1>3. CASE Pool
  <2>1. CASE \E v \in Amounts \ {0} :
               \/ DepositRescuedFees(v) \/ WithdrawFees(v) \/ WithdrawRescuedFees(v)
               \/ \E p \in Policies : DepositNativeForPolicy(p, v)
    BY <1>1, <2>1, DepositRescuedStep, WithdrawFeesStep, WithdrawRescuedStep, DepositStep
  <2> QED BY <1>3, <2>1, PayoutEndsStep DEF Pool
<1>4. CASE Calculator
  BY <1>1, <1>4, CalculateFeesStep, SetFeeStep, SetSharesStep, WithdrawFeeStep DEF Calculator
<1>5. CASE UNCHANGED vars
  BY <1>5 DEF vars, IInv
<1> QED BY <1>2, <1>3, <1>4, <1>5 DEF Next

\* The invariant holds in every reachable state.
LEMMA Invariance == Spec => []IInv
BY InitIInv, NextIInv, PTL DEF Spec

-----------------------------------------------------------------------------
(* Theorems *)

\* No amount underflows, recipients never have all of a fee, and the proxy is
\* empty between batches.
LEMMA Basics ==
  ASSUME IInv
  PROVE  TypeOK /\ ProxyHoldsNothingIdle
<1>1. frames \in Seq(Frames) /\ DOMAIN frames = 1 .. Len(frames)
  BY DEF IInv, AllOK
<1>2. TypeOK
  BY <1>1 DEF IInv, AllOK, WorldOK, SharesFit, TypeOK
<1>3. ASSUME frames = <<>>
      PROVE  world.proxy = 0
  <2>1. NoBatch(frames, Len(frames))
    BY <1>3 DEF NoBatch
  <2> QED BY <2>1 DEF IInv, AllOK, ProxyOK
<1>4. ASSUME NEW i \in DOMAIN frames, \A j \in 1 .. i - 1 : frames[j].kind # "batch"
      PROVE  frames[i].saved.proxy = 0
  BY <1>1, <1>4 DEF IInv, AllOK, ProxyOK, NoBatch
<1> QED BY <1>2, <1>3, <1>4 DEF ProxyHoldsNothingIdle

\* FeePool holds what it owes, to the unit, whatever batches, policies and
\* recipients do to each other and whoever reverts; no amount underflows, and
\* between batches the proxy is empty.
THEOREM Solvency == Spec => []PoolIsSolvent
<1>1. IInv => PoolIsSolvent
  BY Basics DEF IInv, AllOK, WorldOK, Solvent, PoolIsSolvent
<1> QED BY <1>1, Invariance, PTL

\* What FeePool collected is what VennFeeCalculator split, to the last unit,
\* for any fees and shares and however they change.
THEOREM BooksAgree == Spec => []CollectedIsDistributed
<1>1. IInv => CollectedIsDistributed
  BY DEF IInv, AllOK, WorldOK, SplitUp, CollectedIsDistributed
<1> QED BY <1>1, Invariance, PTL

\* The amount getTotalRequiredNativeAmountForPolicies quotes is enough for a
\* batch of any length, whatever is deposited and withdrawn meanwhile.
THEOREM QuoteIsEnough == Spec => []QuoteSuffices
<1>1. IInv => QuoteSuffices
  <2> SUFFICES ASSUME IInv, frames # <<>>, Top.quoted, MoreTasks
               PROVE  world.proxy >= Required(world, Task)
    BY DEF QuoteSuffices
  <2>1. /\ Top = frames[Len(frames)] /\ Len(frames) \in 1 .. Len(frames)
        /\ Top \in Frames /\ world \in Worlds
    BY TopTypes DEF IInv, AllOK, WorldOK
  <2>2. Provided(world, Top)
    BY <2>1 DEF IInv, AllOK, QuoteOK
  <2> QED BY <2>1, <2>2, ProvidedNow DEF MoreTasks, Submitting, Task
<1> QED BY <1>1, Invariance, PTL

\* No step but that of a task's own frame, and no undoing, takes from a balance.
LEMMA OthersTakeNothing ==
  ASSUME IInv, Next, frames' # Below, ~\E b \in BOOLEAN : ProcessTask(b)
  PROVE  /\ \A p \in Policies : world'.balance[p] >= world.balance[p]
         /\ ~MoreTasks
<1>1. /\ world \in Worlds /\ world.balance \in [Policies -> Nat]
      /\ Amounts \subseteq Nat
  BY WorldTypes, FeeAssumption DEF IInv, AllOK, WorldOK, Amounts
<1>2. ~RefuseTask /\ ~FinishSubmission /\ ~Revert /\ ~Pop
  BY DEF RefuseTask, FinishSubmission, Revert, Pop
<1>3. ASSUME Outside
      PROVE  ~MoreTasks
  BY <1>3 DEF Outside, MoreTasks, Submitting
<1>4. ASSUME NEW p \in Policies, NEW a \in Nat,
             world'.balance = [world.balance EXCEPT ![p] = world.balance[p] + a]
      PROVE  \A q \in Policies : world'.balance[q] >= world.balance[q]
  BY <1>1, <1>4
<1>5. ASSUME world'.balance = world.balance
      PROVE  \A q \in Policies : world'.balance[q] >= world.balance[q]
  BY <1>1, <1>5
<1>6. CASE Submit
  <2>1. ASSUME NEW t \in Tasks, SubmitDirectly(t)
        PROVE  world'.balance = world.balance /\ Outside
    BY <2>1 DEF SubmitDirectly, Push
  <2>2. ASSUME NEW t \in Tasks, NEW a \in Amounts, SubmitTask(t, a)
        PROVE  /\ Outside /\ t.policy \in Policies /\ a \in Nat
               /\ world'.balance = [world.balance EXCEPT ![t.policy] = world.balance[t.policy] + a]
    BY <1>1, <2>2 DEF SubmitTask, Push, Tasks, Worlds
  <2>3. ASSUME NEW n \in 0 .. MaxBatch, NEW a \in Amounts, NEW ts \in [1 .. n -> Tasks],
               SubmitTasks(ts, a)
        PROVE  world'.balance = world.balance /\ Outside
    BY <1>1, <2>3 DEF SubmitTasks, Push, Worlds
  <2>4. ASSUME PolicyEnds
        PROVE  world'.balance = world.balance /\ ~MoreTasks
    BY <1>2, <2>4 DEF PolicyEnds, MoreTasks, Submitting
  <2>5. \/ \E t \in Tasks : SubmitDirectly(t) \/ \E a \in Amounts : SubmitTask(t, a)
        \/ \E n \in 0 .. MaxBatch, a \in Amounts :
             \E ts \in [1 .. n -> Tasks] : SubmitTasks(ts, a)
        \/ PolicyEnds
    BY <1>2, <1>6 DEF Submit
  <2> QED BY <1>3, <1>4, <1>5, <2>1, <2>2, <2>3, <2>4, <2>5
<1>7. CASE Pool
  <2>1. ASSUME NEW a \in Amounts, NEW p \in Policies, DepositNativeForPolicy(p, a)
        PROVE  /\ Outside /\ a \in Nat
               /\ world'.balance = [world.balance EXCEPT ![p] = world.balance[p] + a]
    BY <1>1, <2>1 DEF DepositNativeForPolicy, Worlds
  <2>2. ASSUME NEW a \in Amounts,
               DepositRescuedFees(a) \/ WithdrawFees(a) \/ WithdrawRescuedFees(a)
        PROVE  world'.balance = world.balance /\ Outside
    BY <1>1, <2>2 DEF DepositRescuedFees, WithdrawFees, WithdrawRescuedFees, Push, Worlds
  <2>3. ~PayoutEnds
    BY <1>2 DEF PayoutEnds
  <2> QED BY <1>3, <1>4, <1>5, <1>7, <2>1, <2>2, <2>3 DEF Pool
<1>8. CASE Calculator
  <2>1. world'.balance = world.balance /\ Outside
    BY <1>1, <1>8 DEF Calculator, CalculateFeesPerId, SetTaskDefinitionFee,
       SetTaskDefinitionFeeRecipients, WithdrawFee, Worlds
  <2> QED BY <1>3, <1>5, <2>1
<1> QED BY <1>6, <1>7, <1>8 DEF Next

\* A balance goes down for a task of its own policy only and by the fee at
\* most, and a batch adds ether only to a balance that is used up.
THEOREM PrepaidStays == Spec => PrepaidIsProtected
<1> DEFINE Protected ==
      /\ \A p \in Policies :
           world'.balance[p] < world.balance[p] =>
             \/ frames' = Below
             \/ /\ MoreTasks /\ Task.policy = p
                /\ world.balance[p] - world'.balance[p] <= world.totalFee[Task.subnet]
      /\ MoreTasks /\ frames' # Below /\ world'.proxy < world.proxy =>
           world'.balance[Task.policy] = 0
<1>1. ASSUME IInv, IInv', Next, frames' # Below
      PROVE  Protected
  <2>1. /\ world.balance \in [Policies -> Nat] /\ world'.balance \in [Policies -> Nat]
        /\ world.totalFee \in [Subnets -> Nat] /\ world.proxy \in Nat
    BY <1>1, WorldTypes DEF IInv, AllOK, WorldOK
  <2>2. CASE \E b \in BOOLEAN : ProcessTask(b)
    <3> DEFINE p == Task.policy
               fee == world.totalFee[Task.subnet]
               a == Required(world, Task)
    <3>1. MoreTasks /\ Affordable /\ world' = Claimed(Prepared(world, Task), Task)
      BY <2>2 DEF ProcessTask
    <3>2. /\ Task \in Tasks /\ \A q \in Policies \ {p} : world'.balance[q] = world.balance[q]
          /\ Top.kind = "batch" =>
               /\ world'.proxy = world.proxy - a
               /\ world'.balance[p] = world.balance[p] + a - fee
          /\ Top.kind # "batch" =>
               /\ world'.proxy = world.proxy
               /\ world'.balance[p] = world.balance[p] - fee
      BY <1>1, <3>1, ProcessedWorld
    <3>3. /\ p \in Policies /\ fee \in Nat /\ a \in Nat
          /\ world.balance[p] \in Nat /\ world'.balance[p] \in Nat
          /\ a > 0 => a = fee - world.balance[p]
      BY <2>1, <3>2 DEF Tasks, Required
    <3> HIDE DEF p, fee, a
    <3>4. world.balance[p] - world'.balance[p] <= fee
      BY <3>2, <3>3
    <3>5. world'.proxy < world.proxy => world'.balance[p] = 0
      <4>1. SUFFICES ASSUME world'.proxy < world.proxy
                     PROVE  world'.balance[p] = 0
        OBVIOUS
      <4>2. Top.kind = "batch"
        BY <2>1, <3>2, <4>1
      <4>3. a > 0
        BY <2>1, <3>2, <3>3, <4>1, <4>2
      <4> QED BY <3>2, <3>3, <4>2, <4>3
    <3>6. \A q \in Policies : world'.balance[q] < world.balance[q] => q = p
      BY <2>1, <3>2
    <3> QED BY <3>1, <3>4, <3>5, <3>6 DEF p, fee
  <2>3. CASE ~\E b \in BOOLEAN : ProcessTask(b)
    <3>1. (\A p \in Policies : world'.balance[p] >= world.balance[p]) /\ ~MoreTasks
      BY <1>1, <2>3, OthersTakeNothing
    <3>2. \A p \in Policies : ~(world'.balance[p] < world.balance[p])
      BY <2>1, <3>1
    <3> QED BY <3>1, <3>2
  <2> QED BY <2>2, <2>3
<1>2. ASSUME IInv, IInv', [Next]_vars
      PROVE  [Protected]_vars
  <2>1. CASE Next /\ frames' # Below
    BY <1>1, <1>2, <2>1
  <2>2. CASE frames' = Below
    BY <2>2
  <2> QED BY <1>2, <2>1, <2>2
<1>3. IInv /\ IInv' /\ [Next]_vars => [Protected]_vars
  BY <1>2
<1> QED BY <1>3, Invariance, PTL DEF Spec, PrepaidIsProtected

-----------------------------------------------------------------------------
(* The operators' part of a fee: arithmetic *)

\* Division rounds down.
LEMMA Rounding ==
  ASSUME NEW x \in Nat, NEW d \in Nat \ {0}
  PROVE  /\ x \div d \in Nat /\ (x \div d) * d <= x
         /\ x + 1 <= (x \div d) * d + d
OBVIOUS

\* Three parts of an amount, each rounded down, are no more than it, and lose
\* at most two units if the shares add up to the whole.
LEMMA ThreeParts ==
  ASSUME NEW o \in Nat, NEW f \in Nat \ {0}, NEW a \in Nat, NEW b \in Nat, NEW c \in Nat,
         NEW x \in Nat, x = (o * a) \div f,
         NEW y \in Nat, y = (o * b) \div f,
         NEW z \in Nat, z = (o * c) \div f,
         a + b + c <= f
  PROVE  /\ x + y + z <= o
         /\ a + b + c = f => o <= x + y + z + 2
<1> DEFINE A == o * a
           B == o * b
           C == o * c
           n == x + y + z
<1>1. A \in Nat /\ B \in Nat /\ C \in Nat /\ n \in Nat
  OBVIOUS
<1>2. A + B + C = o * (a + b + c)
  OBVIOUS
<1>3. n * f = x * f + y * f + z * f /\ (n + 3) * f = n * f + 3 * f
  OBVIOUS
<1>4. /\ x * f <= A /\ A + 1 <= x * f + f
      /\ y * f <= B /\ B + 1 <= y * f + f
      /\ z * f <= C /\ C + 1 <= z * f + f
  BY <1>1, Rounding
<1>5. x * f \in Nat /\ y * f \in Nat /\ z * f \in Nat /\ n * f \in Nat /\ o * f \in Nat
  OBVIOUS
<1>6. o * (a + b + c) <= o * f
  OBVIOUS
<1> HIDE DEF A, B, C, n
<1>7. n * f <= o * f
  BY <1>1, <1>2, <1>3, <1>4, <1>5, <1>6
<1>8. n <= o
  BY <1>1, <1>7
<1>9. ASSUME a + b + c = f
      PROVE  o <= n + 2
  <2>1. o * f < (n + 3) * f
    BY <1>1, <1>2, <1>3, <1>4, <1>5, <1>9
  <2>2. o < n + 3
    BY <1>1, <2>1
  <2> QED BY <1>1, <2>2
<1> QED BY <1>8, <1>9 DEF n

\* An amount paid to each of n, which is an n-th rounded down, loses less than n.
LEMMA EqualParts ==
  ASSUME NEW a \in Nat, NEW n \in Nat \ {0}, NEW r \in Nat, r = a \div n
  PROVE  n * r <= a /\ a + 1 <= n * r + n
<1>1. r * n <= a /\ a + 1 <= r * n + n
  BY Rounding
<1> QED BY <1>1

\* A sum of equal values.
LEMMA SumSame ==
  ASSUME NEW S, IsFiniteSet(S), NEW f, NEW r \in Nat, \A x \in S : f[x] = r
  PROVE  SumOver(f, S) = Cardinality(S) * r
<1> DEFINE X == {T \in SUBSET S : SumOver(f, T) = Cardinality(T) * r}
<1>1. {} \in X
  BY SumEmpty, FS_EmptySet
<1>2. ASSUME NEW T \in SUBSET S, T # {}, \A y \in T : T \ {y} \in X
      PROVE  T \in X
  <2>1. PICK y \in T : TRUE
    BY <1>2
  <2>2. IsFiniteSet(T) /\ NatOn(f, T) /\ f[y] = r
    BY FS_Subset DEF NatOn
  <2>3. SumOver(f, T) = f[y] + SumOver(f, T \ {y})
    BY <2>2, SumSplit
  <2>4. SumOver(f, T \ {y}) = Cardinality(T \ {y}) * r
    BY <1>2
  <2> DEFINE n == Cardinality(T)
  <2>5. n \in Nat /\ Cardinality(T \ {y}) = n - 1
    BY Subsets
  <2> HIDE DEF n
  <2>6. r + (n - 1) * r = n * r
    BY <2>5
  <2>7. SumOver(f, T) = n * r
    BY <2>2, <2>3, <2>4, <2>5, <2>6
  <2> QED BY <2>7 DEF n
<1> HIDE DEF X
<1>3. \A T \in SUBSET S : T \in X
  BY <1>1, <1>2, SubsetInduction, Zenon
<1> QED BY <1>3 DEF X

\* No value is more than the sum.
LEMMA SumAtLeast ==
  ASSUME NEW S, IsFiniteSet(S), NEW f, NatOn(f, S), NEW y \in S
  PROVE  f[y] <= SumOver(f, S)
<1>1. IsFiniteSet(S \ {y}) /\ NatOn(f, S \ {y}) /\ f[y] \in Nat
  BY FS_Subset DEF NatOn
<1>2. SumOver(f, S \ {y}) \in Nat
  BY <1>1, SumNat
<1> QED BY <1>1, <1>2, SumSplit

\* There are three types of operators.
LEMMA FiniteTypes ==
  /\ IsFiniteSet(OperatorTypes)
  /\ IsFiniteSet({"aggregator", "performer"}) /\ IsFiniteSet({"performer"})
<1>1. IsFiniteSet({"performer"})
  BY FS_Singleton
<1>2. IsFiniteSet({"performer"} \cup {"aggregator"})
  BY <1>1, FS_AddElement
<1>3. {"performer"} \cup {"aggregator"} = {"aggregator", "performer"}
  OBVIOUS
<1>4. IsFiniteSet({"aggregator", "performer"} \cup {"attester"})
  BY <1>2, <1>3, FS_AddElement
<1>5. {"aggregator", "performer"} \cup {"attester"} = OperatorTypes
  BY DEF OperatorTypes
<1> QED BY <1>1, <1>2, <1>3, <1>4, <1>5

\* Their shares.
LEMMA SumOfTypes ==
  ASSUME NEW f, NatOn(f, OperatorTypes)
  PROVE  SumOver(f, OperatorTypes) = f["attester"] + f["aggregator"] + f["performer"]
<1> DEFINE A == {"aggregator", "performer"}
           B == {"performer"}
<1>1. IsFiniteSet(OperatorTypes) /\ IsFiniteSet(A) /\ IsFiniteSet(B)
  BY FiniteTypes
<1>2. /\ "attester" \in OperatorTypes /\ OperatorTypes \ {"attester"} = A
      /\ "aggregator" \in A /\ A \ {"aggregator"} = B
      /\ "performer" \in B /\ B \ {"performer"} = {}
  BY DEF OperatorTypes
<1>3. NatOn(f, A) /\ NatOn(f, B)
  BY <1>2 DEF NatOn
<1> HIDE DEF A, B
<1>4. /\ SumOver(f, OperatorTypes) = f["attester"] + SumOver(f, A)
      /\ SumOver(f, A) = f["aggregator"] + SumOver(f, B)
      /\ SumOver(f, B) = f["performer"] + SumOver(f, {})
  BY <1>1, <1>2, <1>3, SumSplit
<1>5. f["attester"] \in Nat /\ f["aggregator"] \in Nat /\ f["performer"] \in Nat
  BY DEF NatOn, OperatorTypes
<1> QED BY <1>4, <1>5, SumEmpty

-----------------------------------------------------------------------------
(* The operators' part of a fee: the invariant *)

SubscriptionsFit ==
  \A s \in Subnets, i \in Ids : SumOver(subscribedOperators[s][i], Ids) < FeeScale

\* Shares of types are set together, or not at all.
TypeSharesFit ==
  \A s \in Subnets : SumOver(typeShares[s], OperatorTypes) \in {0, FeeScale}

SharingInv == OperatorTypeOK /\ SubscriptionsFit /\ TypeSharesFit

\* There are finitely many ids.
LEMMA FiniteIds == IsFiniteSet(Ids) /\ Ids \subseteq Nat /\ 0 \in Ids
<1> DEFINE J == {IdOf[a] : a \in Accounts}
<1>1. IsFiniteSet(J)
  <2>1. IsFiniteSet(Accounts)
    BY OperatorAssumption
  <2> DEFINE f == [a \in Accounts |-> IdOf[a]]
  <2>2. f \in Surjection(Accounts, J)
    BY DEF Surjection
  <2> QED BY <2>1, <2>2, FS_Surjection
<1>2. IsFiniteSet({0})
  BY FS_Singleton
<1>3. Ids = {0} \cup J
  BY DEF Ids
<1>4. IsFiniteSet({0} \cup J)
  BY <1>1, <1>2, FS_Union
<1> QED BY <1>3, <1>4, OperatorAssumption

\* Among finitely many numbers, one is the last.
LEMMA LastExists ==
  ASSUME NEW n \in Nat, NEW S \in SUBSET (1 .. n), S # {}
  PROVE  Max(S) \in S
<1> DEFINE N == {m \in Nat : \A T \in SUBSET (1 .. m) : T # {} => \E x \in T : \A y \in T : x >= y}
<1>1. 0 \in N
  <2>1. 1 .. 0 = {}
    OBVIOUS
  <2> QED BY <2>1
<1>2. ASSUME NEW m \in Nat, m \in N
      PROVE  m + 1 \in N
  <2>1. ASSUME NEW T \in SUBSET (1 .. m + 1), T # {}
        PROVE  \E x \in T : \A y \in T : x >= y
    <3>1. CASE m + 1 \in T
      <4>1. \A y \in T : m + 1 >= y
        OBVIOUS
      <4> QED BY <3>1, <4>1
    <3>2. CASE m + 1 \notin T
      <4>1. T \in SUBSET (1 .. m)
        BY <3>2
      <4> QED BY <4>1, <2>1, <1>2
    <3> QED BY <3>1, <3>2
  <2> QED BY <2>1
<1> HIDE DEF N
<1>3. n \in N
  BY <1>1, <1>2, SetInduction
<1>4. \E x \in S : \A y \in S : x >= y
  BY <1>3 DEF N
<1> QED BY <1>4 DEF Max

\* What a call of subscribeOperators leaves is a share per id.
LEMMA AppliedShares ==
  ASSUME NEW subs \in [Ids -> Nat], NEW n \in Nat, NEW items \in [1 .. n -> Items]
  PROVE  Applied(subs, items) \in [Ids -> Nat]
<1>1. ASSUME NEW j \in Ids, EntriesFor(j, items) # {}
      PROVE  items[Max(EntriesFor(j, items))].share \in Nat
  <2>1. Max(EntriesFor(j, items)) \in 1 .. n
    BY <1>1, LastExists DEF EntriesFor
  <2>2. \A k \in 1 .. n : items[k].share \in Nat
    BY OperatorAssumption DEF Items
  <2> QED BY <2>1, <2>2
<1> QED BY <1>1 DEF Applied

\* Shares that add up to less than the whole are each less than it.
LEMMA SharesBelow ==
  ASSUME NEW f \in [Ids -> Nat], SumOver(f, Ids) < FeeScale
  PROVE  f \in [Ids -> 0 .. FeeScale - 1]
<1>1. NatOn(f, Ids)
  BY DEF NatOn
<1>2. SumOver(f, Ids) \in Nat /\ \A j \in Ids : f[j] <= SumOver(f, Ids)
  BY <1>1, FiniteIds, SumNat, SumAtLeast
<1>3. \A j \in Ids : f[j] \in 0 .. FeeScale - 1
  BY <1>2, OperatorAssumption
<1> QED BY <1>3

\* Nothing is subscribed and no shares are set at first.
LEMMA SharingInit == OperatorInit => SharingInv
<1> SUFFICES ASSUME OperatorInit PROVE SharingInv
  OBVIOUS
<1> USE DEF OperatorInit
<1>1. OperatorTypeOK
  <2>1. FeeScale \in Nat \ {0} /\ MaxFees \in Nat
    BY OperatorAssumption
  <2> QED BY <2>1 DEF OperatorTypeOK
<1>2. SubscriptionsFit
  <2>1. ASSUME NEW s \in Subnets, NEW i \in Ids
        PROVE  SumOver(subscribedOperators[s][i], Ids) = 0
    <3>1. \A j \in Ids : subscribedOperators[s][i][j] = 0
      OBVIOUS
    <3> QED BY <3>1, SumZero, FiniteIds
  <2> QED BY <2>1, OperatorAssumption DEF SubscriptionsFit
<1>3. TypeSharesFit
  <2>1. ASSUME NEW s \in Subnets
        PROVE  SumOver(typeShares[s], OperatorTypes) = 0
    <3>1. \A t \in OperatorTypes : typeShares[s][t] = 0
      OBVIOUS
    <3> QED BY <3>1, FiniteTypes, SumZero
  <2> QED BY <2>1 DEF TypeSharesFit
<1> QED BY <1>1, <1>2, <1>3 DEF SharingInv

\* Each operation keeps it.
LEMMA SharingStep == SharingInv /\ [OperatorNext]_operatorVars => SharingInv'
<1> SUFFICES ASSUME SharingInv, [OperatorNext]_operatorVars PROVE SharingInv'
  OBVIOUS
<1> USE DEF SharingInv
<1>1. FeeScale \in Nat \ {0} /\ MaxFees \in Nat /\ IdOf \in [Accounts -> Nat \ {0}]
  BY OperatorAssumption
<1>2. CASE UNCHANGED operatorVars
  BY <1>2 DEF operatorVars, OperatorTypeOK, SubscriptionsFit, TypeSharesFit
<1>3. ASSUME NEW a \in Accounts, JoinCenter(a) \/ RegisterOperator(a) \/ UnregisterOperator(a)
      PROVE  SharingInv'
  <2>1. UNCHANGED <<subscribedOperators, typeShares>>
    BY <1>3 DEF JoinCenter, RegisterOperator, UnregisterOperator
  <2>2. OperatorTypeOK'
    BY <1>3, <2>1 DEF JoinCenter, RegisterOperator, UnregisterOperator, OperatorTypeOK,
                 OperatorsIdsByAddress, isOperatorRegistered
  <2> QED BY <2>1, <2>2 DEF SubscriptionsFit, TypeSharesFit
<1>4. ASSUME NEW a \in Accounts, NEW s \in Subnets, NEW n \in 0 .. MaxItems,
             NEW items \in [1 .. n -> Items], SubscribeOperators(a, s, items)
      PROVE  SharingInv'
  <2> DEFINE id == operators[a]
             subs == Applied(subscribedOperators[s][id], items)
  <2>1. id \in Ids
    BY <1>1, <1>4 DEF SubscribeOperators, isOperatorRegistered, OperatorTypeOK, Ids
  <2>2. subscribedOperators[s][id] \in [Ids -> Nat]
    BY <2>1, <1>1 DEF OperatorTypeOK
  <2>3. n \in Nat
    BY OperatorAssumption
  <2>4. /\ subscribedOperators' = [subscribedOperators EXCEPT ![s][id] = subs]
        /\ SumOver(subs, Ids) < FeeScale
        /\ UNCHANGED <<joined, operators, maxSubscribedOperatorsCount, typeShares, operatorFees>>
    BY <1>4 DEF SubscribeOperators, SubscriptionsOK
  <2> HIDE DEF id, subs
  <2>5. subs \in [Ids -> Nat]
    BY <2>2, <2>3, AppliedShares DEF subs
  <2>6. subs \in [Ids -> 0 .. FeeScale - 1]
    BY <2>4, <2>5, SharesBelow
  <2>7. OperatorTypeOK'
    <3>1. subscribedOperators' \in [Subnets -> [Ids -> [Ids -> 0 .. FeeScale - 1]]]
      BY <2>1, <2>4, <2>6 DEF OperatorTypeOK
    <3> QED BY <2>4, <3>1 DEF OperatorTypeOK
  <2>8. SubscriptionsFit'
    <3>1. ASSUME NEW u \in Subnets, NEW i \in Ids
          PROVE  SumOver(subscribedOperators'[u][i], Ids) < FeeScale
      <4>1. CASE u = s /\ i = id
        <5>1. subscribedOperators'[u][i] = subs
          BY <2>1, <2>4, <4>1 DEF OperatorTypeOK
        <5> QED BY <5>1, <2>4
      <4>2. CASE ~(u = s /\ i = id)
        <5>1. subscribedOperators'[u][i] = subscribedOperators[u][i]
          BY <2>1, <2>4, <4>2 DEF OperatorTypeOK
        <5> QED BY <5>1 DEF SubscriptionsFit
      <4> QED BY <4>1, <4>2
    <3> QED BY <3>1 DEF SubscriptionsFit
  <2> QED BY <2>4, <2>7, <2>8 DEF TypeSharesFit
<1>5. ASSUME NEW n \in Limits, SetMaxSubscribedOperatorsCount(n)
      PROVE  SharingInv'
  BY <1>5 DEF SetMaxSubscribedOperatorsCount, OperatorTypeOK, SubscriptionsFit, TypeSharesFit
<1>6. ASSUME NEW s \in Subnets, NEW T \in SUBSET OperatorTypes, NEW given \in [T -> OperatorShares],
             SetTaskDefinitionIdOperatorFees(s, given)
      PROVE  SharingInv'
  <2> DEFINE all == [t \in OperatorTypes |->
                       IF t \in DOMAIN given THEN given[t] ELSE typeShares[s][t]]
  <2>1. /\ SumOver(all, OperatorTypes) = FeeScale
        /\ typeShares' = [typeShares EXCEPT ![s] = all]
        /\ UNCHANGED <<joined, operators, maxSubscribedOperatorsCount, subscribedOperators, operatorFees>>
    BY <1>6 DEF SetTaskDefinitionIdOperatorFees, TypeSharesOK
  <2>2. ASSUME NEW t \in OperatorTypes
        PROVE  all[t] \in Nat
    <3>1. typeShares[s][t] \in Nat
      BY <1>1 DEF OperatorTypeOK
    <3>2. t \in DOMAIN given => given[t] \in Nat
      BY OperatorAssumption
    <3> QED BY <3>1, <3>2
  <2>3. all \in [OperatorTypes -> Nat]
    BY <2>2
  <2> HIDE DEF all
  <2>4. IsFiniteSet(OperatorTypes) /\ NatOn(all, OperatorTypes)
    BY <2>2, FiniteTypes DEF NatOn
  <2>5. \A t \in OperatorTypes : all[t] <= FeeScale
    BY <2>1, <2>4, SumAtLeast
  <2>6. all \in [OperatorTypes -> 0 .. FeeScale]
    BY <1>1, <2>2, <2>3, <2>5
  <2>7. OperatorTypeOK'
    BY <2>1, <2>6 DEF OperatorTypeOK
  <2>8. TypeSharesFit'
    <3>1. \A u \in Subnets : typeShares'[u] = IF u = s THEN all ELSE typeShares[u]
      BY <2>1 DEF OperatorTypeOK
    <3> QED BY <2>1, <3>1 DEF TypeSharesFit
  <2> QED BY <2>1, <2>7, <2>8 DEF SubscriptionsFit
<1>7. ASSUME NEW s \in Subnets, NEW v \in FeesLeft, DistributeFee(s, v)
      PROVE  SharingInv'
  <2>1. v \in Nat
    BY OperatorAssumption
  <2>2. operatorFees' \in [Subnets -> 0 .. MaxFees]
    BY <1>1, <1>7, <2>1 DEF DistributeFee, OperatorTypeOK
  <2> QED BY <1>7, <2>2 DEF DistributeFee, OperatorTypeOK, SubscriptionsFit, TypeSharesFit
<1>8. ASSUME NEW s \in Subnets, SplitOperatorFees(s)
      PROVE  SharingInv'
  <2>1. operatorFees' \in [Subnets -> 0 .. MaxFees]
    BY <1>1, <1>8 DEF SplitOperatorFees, OperatorTypeOK
  <2> QED BY <1>8, <2>1 DEF SplitOperatorFees, OperatorTypeOK, SubscriptionsFit, TypeSharesFit
<1> QED BY <1>2, <1>3, <1>4, <1>5, <1>6, <1>7, <1>8
        DEF OperatorNext, OperatorRegistry, OperatorCalculator

-----------------------------------------------------------------------------
(* The operators' part of a fee: what the invariant means *)

\* What the subscribed operators of an attester get of its reward is less than
\* the reward, if there is one.
LEMMA AttesterIsLeft ==
  ASSUME SharingInv, NEW s \in Subnets, NEW attesters, NEW i \in Ids,
         RewardsPerAttester(s, attesters) \in Nat
  PROVE  /\ DistributedOperatorFee(s, attesters, i) \in Nat
         /\ RewardsPerAttester(s, attesters) > 0 =>
              DistributedOperatorFee(s, attesters, i) < RewardsPerAttester(s, attesters)
         /\ AttesterFee(s, attesters, i) \in Int
<1> DEFINE r == RewardsPerAttester(s, attesters)
           g == subscribedOperators[s][i]
           f == [j \in Ids |-> SubscribedFee(s, attesters, i, j)]
           d == SumOver(f, Ids)
           all == SumOver(g, Ids)
<1>1. FeeScale \in Nat \ {0} /\ r \in Nat
  BY OperatorAssumption
<1>2. g \in [Ids -> Nat] /\ all < FeeScale
  BY <1>1 DEF SharingInv, OperatorTypeOK, SubscriptionsFit
<1> HIDE DEF r, g
<1>3. ASSUME NEW j \in Ids
      PROVE  f[j] \in Nat /\ f[j] * FeeScale <= r * g[j]
  <2>1. r * g[j] \in Nat
    BY <1>1, <1>2
  <2>2. f[j] = (r * g[j]) \div FeeScale
    BY DEF SubscribedFee, r, g
  <2> QED BY <1>1, <2>1, <2>2, Rounding
<1>4. d = DistributedOperatorFee(s, attesters, i)
  BY DEF DistributedOperatorFee
<1> HIDE DEF f
<1>5. NatOn(f, Ids) /\ NatOn(g, Ids)
  BY <1>2, <1>3 DEF NatOn
<1>6. d \in Nat /\ all \in Nat /\ d * FeeScale <= r * all
  BY <1>1, <1>3, <1>5, FiniteIds, SumNat, SumOfParts
<1> HIDE DEF d, all
<1>7. ASSUME r > 0
      PROVE  d < r
  <2>1. r * all < r * FeeScale
    BY <1>1, <1>2, <1>6, <1>7
  <2>2. d * FeeScale < r * FeeScale
    <3>1. d * FeeScale \in Nat /\ r * all \in Nat /\ r * FeeScale \in Nat
      BY <1>1, <1>6
    <3> QED BY <1>6, <2>1, <3>1
  <2> QED BY <1>1, <1>6, <2>2
<1>8. AttesterFee(s, attesters, i) = r - d
  BY <1>4 DEF AttesterFee, r
<1> QED BY <1>1, <1>4, <1>6, <1>7, <1>8 DEF r

\* Whatever is subscribed, what the attesters and those subscribed to them get
\* adds up to a reward per attester.
LEMMA AttestersTotal ==
  ASSUME SharingInv, NEW s \in Subnets, NEW attesters \in SUBSET Ids,
         RewardsPerAttester(s, attesters) \in Nat
  PROVE  SumOver([i \in attesters |-> DistributedOperatorFee(s, attesters, i)
                                        + AttesterFee(s, attesters, i)], attesters)
           = Cardinality(attesters) * RewardsPerAttester(s, attesters)
<1> DEFINE r == RewardsPerAttester(s, attesters)
           f == [i \in attesters |-> DistributedOperatorFee(s, attesters, i)
                                       + AttesterFee(s, attesters, i)]
<1>1. ASSUME NEW i \in attesters
      PROVE  f[i] = r
  <2> DEFINE d == DistributedOperatorFee(s, attesters, i)
  <2>1. d \in Nat
    BY AttesterIsLeft
  <2>2. f[i] = d + (r - d)
    BY DEF AttesterFee
  <2> HIDE DEF d, r
  <2>3. r \in Nat
    BY DEF r
  <2> HIDE DEF f
  <2> QED BY <2>1, <2>2, <2>3
<1>2. IsFiniteSet(attesters)
  BY FiniteIds, FS_Subset
<1> HIDE DEF f, r
<1>3. r \in Nat
  BY DEF r
<1>4. SumOver(f, attesters) = Cardinality(attesters) * r
  BY <1>1, <1>2, <1>3, SumSame
<1> QED BY <1>4 DEF f, r

\* What a type of operators gets.
LEMMA TypeFees ==
  ASSUME SharingInv, NEW s \in Subnets
  PROVE  /\ operatorFees[s] \in Nat
         /\ \A t \in OperatorTypes : TypeFee(s, t) \in Nat
         /\ TypeFee(s, "attester") + TypeFee(s, "aggregator") + TypeFee(s, "performer")
              <= operatorFees[s]
         /\ SumOver(typeShares[s], OperatorTypes) = FeeScale =>
              operatorFees[s] <= TypeFee(s, "attester") + TypeFee(s, "aggregator")
                                   + TypeFee(s, "performer") + 2
<1> DEFINE o == operatorFees[s]
           g == typeShares[s]
<1>1. FeeScale \in Nat \ {0} /\ o \in Nat /\ g \in [OperatorTypes -> Nat]
  BY OperatorAssumption DEF SharingInv, OperatorTypeOK
<1>2. NatOn(g, OperatorTypes)
  BY <1>1 DEF NatOn
<1>3. SumOver(g, OperatorTypes) = g["attester"] + g["aggregator"] + g["performer"]
  BY <1>2, SumOfTypes
<1>4. SumOver(g, OperatorTypes) <= FeeScale
  BY <1>1 DEF SharingInv, TypeSharesFit
<1> HIDE DEF o, g
<1>5. ASSUME NEW t \in OperatorTypes
      PROVE  TypeFee(s, t) = (o * g[t]) \div FeeScale /\ TypeFee(s, t) \in Nat
  <2>1. TypeFee(s, t) = (o * g[t]) \div FeeScale
    BY DEF TypeFee, o, g
  <2>2. o * g[t] \in Nat
    BY <1>1
  <2> QED BY <1>1, <2>1, <2>2, Rounding
<1>6. {"attester", "aggregator", "performer"} = OperatorTypes
  BY DEF OperatorTypes
<1> DEFINE x == TypeFee(s, "attester")
           y == TypeFee(s, "aggregator")
           z == TypeFee(s, "performer")
           a == g["attester"]
           b == g["aggregator"]
           c == g["performer"]
<1>7. a \in Nat /\ b \in Nat /\ c \in Nat
  BY <1>1, <1>6
<1>8. /\ x \in Nat /\ x = (o * a) \div FeeScale
      /\ y \in Nat /\ y = (o * b) \div FeeScale
      /\ z \in Nat /\ z = (o * c) \div FeeScale
  BY <1>5, <1>6
<1>9. a + b + c <= FeeScale
  BY <1>3, <1>4
<1> HIDE DEF x, y, z, a, b, c
<1>10. x + y + z <= o /\ (a + b + c = FeeScale => o <= x + y + z + 2)
  BY <1>1, <1>7, <1>8, <1>9, ThreeParts
<1> QED BY <1>1, <1>3, <1>5, <1>10 DEF x, y, z, a, b, c, o, g

\* The invariant implies the property.
LEMMA SharingImpliesExact ==
  ASSUME SharingInv
  PROVE  SplitIsExact
<1>1. ASSUME NEW s \in Subnets, NEW attesters \in SUBSET Ids, attesters # {}
      PROVE  /\ IsFiniteSet(attesters) /\ Cardinality(attesters) \in Nat \ {0}
             /\ RewardsPerAttester(s, attesters) \in Nat
  <2>1. IsFiniteSet(attesters) /\ Cardinality(attesters) \in Nat \ {0}
    BY <1>1, FiniteIds, Subsets
  <2>2. TypeFee(s, "attester") \in Nat
    BY TypeFees DEF OperatorTypes
  <2> QED BY <2>1, <2>2, Rounding DEF RewardsPerAttester
<1>2. AttesterKeepsPart
  <2>1. ASSUME NEW s \in Subnets, NEW attesters \in SUBSET Ids \ {{}}, NEW i \in attesters,
               RewardsPerAttester(s, attesters) > 0
        PROVE  AttesterFee(s, attesters, i) > 0
    <3>1. RewardsPerAttester(s, attesters) \in Nat
      BY <1>1
    <3>2. /\ DistributedOperatorFee(s, attesters, i) \in Nat
          /\ DistributedOperatorFee(s, attesters, i) < RewardsPerAttester(s, attesters)
      BY <2>1, <3>1, AttesterIsLeft
    <3> QED BY <3>1, <3>2 DEF AttesterFee
  <2> QED BY <2>1 DEF AttesterKeepsPart
<1>3. ASSUME NEW s \in Subnets, NEW attesters \in SUBSET Ids
      PROVE  /\ TotalFeesPerId(s, attesters) <= operatorFees[s]
             /\ SumOver(typeShares[s], OperatorTypes) = FeeScale =>
                  operatorFees[s] <= TotalFeesPerId(s, attesters) + Cardinality(attesters) + 1
  <2> DEFINE o == operatorFees[s]
             n == Cardinality(attesters)
             r == RewardsPerAttester(s, attesters)
             x == TypeFee(s, "attester")
             y == TypeFee(s, "aggregator")
             z == TypeFee(s, "performer")
             total == TotalFeesPerId(s, attesters)
             whole == SumOver(typeShares[s], OperatorTypes) = FeeScale
  <2>1. /\ o \in Nat /\ x \in Nat /\ y \in Nat /\ z \in Nat
        /\ x + y + z <= o /\ (whole => o <= x + y + z + 2)
    BY TypeFees DEF OperatorTypes
  <2>2. CASE attesters = {}
    <3>1. total = o /\ n = 0
      BY <2>2, FS_EmptySet DEF TotalFeesPerId
    <3> HIDE DEF o, n, total, whole
    <3> QED BY <2>1, <3>1 DEF o, n, total, whole
  <2>3. CASE attesters # {}
    <3>1. n \in Nat \ {0} /\ r \in Nat
      BY <1>1, <2>3
    <3>2. r = x \div n
      BY DEF RewardsPerAttester
    <3>3. total = y + z + n * r
      BY <2>3, <3>1, AttestersTotal DEF TotalFeesPerId
    <3> HIDE DEF o, n, r, x, y, z, total, whole
    <3>4. n * r <= x /\ x + 1 <= n * r + n
      BY <2>1, <3>1, <3>2, EqualParts
    <3>5. n * r \in Nat
      BY <3>1
    <3>6. total <= o /\ (whole => o <= total + n + 1)
      BY <2>1, <3>1, <3>3, <3>4, <3>5
    <3> QED BY <3>6 DEF o, n, total, whole
  <2> QED BY <2>2, <2>3
<1>4. OperatorTypeOK
  BY DEF SharingInv
<1> QED BY <1>2, <1>3, <1>4 DEF SplitIsExact

\* For any number of operators, any subscriptions, shares and attesters: what
\* calculateFeesPerId hands out is what was kept, less the rounding that
\* SplitIsExact allows, and no attester's reward is given away completely.
THEOREM SplitExactly == OperatorSpec => []SplitIsExact
<1>1. SharingInv => SplitIsExact
  BY SharingImpliesExact
<1> QED BY <1>1, SharingInit, SharingStep, PTL DEF OperatorSpec

-----------------------------------------------------------------------------
(* DetectionEscrow                                                         *)

(* The inductive invariant: what is approved was requested, what is paid   *)
(* was deposited, and the operator has its part of what was approved, in   *)
(* the world and in every world a payment that is refused goes back to.    *)

EscrowWorldOK(w) ==
  /\ w.approved + w.pendingOperatorPayment <= w.requested
  /\ w.deposited = w.balance + w.operatorGot + w.vennGot + w.adminGot
  /\ w.operatorGot * FeeScale >= w.approved * (FeeScale - MaxFee)

EscrowInv ==
  /\ EscrowTypes /\ EscrowWorldOK(escrow)
  /\ \A i \in DOMAIN payments : EscrowWorldOK(payments[i].saved)

\* A part of an amount, rounded down, is no more than the amount.
LEMMA PartOfAmount ==
  ASSUME NEW v \in Nat, NEW fee \in Nat, NEW scale \in Nat \ {0}, fee <= scale
  PROVE  (v * fee) \div scale \in 0 .. v
<1>1. v * fee \in Nat /\ v * fee <= v * scale
  OBVIOUS
<1>2. ASSUME NEW x \in Nat, x <= v * scale
      PROVE  x \div scale \in 0 .. v
  BY <1>2
<1> QED BY <1>1, <1>2

\* The two parts of a payment are natural numbers and add up to it.
LEMMA Parts ==
  ASSUME NEW v \in Nat, escrow \in EscrowWorlds
  PROVE  /\ VennAmount(v) \in Nat /\ OperatorAmount(v) \in Nat
         /\ VennAmount(v) + OperatorAmount(v) = v
<1>1. escrow.vennDetectionFee \in Nat /\ escrow.vennDetectionFee <= FeeScale
  BY EscrowAssumption DEF EscrowWorlds
<1>2. VennAmount(v) \in 0 .. v
  BY <1>1, EscrowAssumption, PartOfAmount DEF VennAmount
<1> QED BY <1>2 DEF OperatorAmount

\* What the operator is left with of one payment is its part of it.
LEMMA OperatorPart ==
  ASSUME NEW v \in Nat, escrow \in EscrowWorlds
  PROVE  OperatorAmount(v) * FeeScale >= v * (FeeScale - MaxFee)
<1> DEFINE fee == escrow.vennDetectionFee
           q == (v * fee) \div FeeScale
<1>1. fee \in Nat /\ MaxFee \in Nat /\ FeeScale \in Nat \ {0} /\ fee <= MaxFee
  BY EscrowAssumption DEF EscrowWorlds
<1> HIDE DEF fee
<1>2. v * fee \in Nat /\ v * fee <= v * MaxFee
  BY <1>1
<1>3. ASSUME NEW x \in Nat
      PROVE  x \div FeeScale \in Nat /\ (x \div FeeScale) * FeeScale <= x
  BY <1>1
<1>4. q \in Nat /\ q * FeeScale <= v * fee
  BY <1>2, <1>3
<1>5. OperatorAmount(v) = v - q
  BY DEF OperatorAmount, VennAmount, fee
<1> HIDE DEF q
<1>6. (v - q) * FeeScale = v * FeeScale - q * FeeScale
  BY <1>1, <1>4
<1>7. v * (FeeScale - MaxFee) = v * FeeScale - v * MaxFee
  BY <1>1
<1>8. /\ v * FeeScale \in Int /\ q * FeeScale \in Int /\ v * MaxFee \in Int
  BY <1>1, <1>4
<1> QED BY <1>2, <1>4, <1>5, <1>6, <1>7, <1>8

\* A stack that is not empty has a top frame, and what is below it is a stack.
LEMMA StackTypes ==
  ASSUME EscrowTypes, payments # <<>>
  PROVE  /\ Len(payments) \in Nat \ {0} /\ DOMAIN payments = 1 .. Len(payments)
         /\ TopPayment \in Payments /\ TopPayment.saved \in EscrowWorlds /\ TopPayment.owed \in Nat
         /\ TopPayment = payments[Len(payments)]
<1>1. payments \in Seq(Payments)
  BY DEF EscrowTypes
<1>2. Len(payments) \in Nat \ {0} /\ DOMAIN payments = 1 .. Len(payments)
  BY <1>1
<1>3. TopPayment \in Payments /\ TopPayment = payments[Len(payments)]
  BY <1>1, <1>2 DEF TopPayment
<1> QED BY <1>2, <1>3 DEF Payments

\* A call of the contracts that pays nobody.
LEMMA PlainStep ==
  ASSUME EscrowInv, payments' = payments, escrow' \in EscrowWorlds, EscrowWorldOK(escrow')
  PROVE  EscrowInv'
BY DEF EscrowInv, EscrowTypes, EscrowWorldOK

\* A payment hands control to its recipient.
LEMMA PayStep ==
  ASSUME EscrowInv, NEW to \in {"operator", "venn", "admin"}, NEW owed \in Nat,
         payments' = Paying(to, owed), escrow' \in EscrowWorlds, EscrowWorldOK(escrow')
  PROVE  EscrowInv'
<1> DEFINE f == [to |-> to, owed |-> owed, saved |-> escrow]
<1>1. f \in Payments /\ EscrowWorldOK(f.saved) /\ payments \in Seq(Payments) /\ payments' = Append(payments, f)
  BY DEF EscrowInv, EscrowTypes, Payments, Paying
<1> HIDE DEF f
<1>2. /\ payments' \in Seq(Payments) /\ Len(payments') = Len(payments) + 1
      /\ DOMAIN payments' = 1 .. Len(payments) + 1 /\ DOMAIN payments = 1 .. Len(payments)
      /\ payments'[Len(payments) + 1] = f /\ \A i \in 1 .. Len(payments) : payments'[i] = payments[i]
  BY <1>1, AppendProperties
<1>3. ASSUME NEW i \in 1 .. Len(payments) + 1
      PROVE  EscrowWorldOK(payments'[i].saved)
  <2>1. Len(payments) \in Nat
    BY <1>1
  <2>2. i = Len(payments) + 1 \/ i \in 1 .. Len(payments)
    BY <2>1
  <2> QED BY <1>1, <1>2, <2>2 DEF EscrowInv
<1> QED BY <1>2, <1>3 DEF EscrowInv, EscrowTypes, EscrowWorldOK

\* Control goes back to whoever made the payment.
LEMMA BackStep ==
  ASSUME EscrowInv, payments # <<>>, payments' = PaymentsBelow, escrow' \in EscrowWorlds, EscrowWorldOK(escrow')
  PROVE  EscrowInv'
<1> DEFINE k == Len(payments) - 1
<1>1. /\ payments \in Seq(Payments) /\ k \in Nat /\ payments' = SubSeq(payments, 1, k)
      /\ \A i \in 1 .. k : payments[i] \in Payments /\ EscrowWorldOK(payments[i].saved)
  BY StackTypes DEF EscrowInv, EscrowTypes, PaymentsBelow
<1> HIDE DEF k
<1>2. /\ payments' \in Seq(Payments)
      /\ Len(payments') = IF 1 <= k THEN k - 1 + 1 ELSE 0
      /\ \A i \in 1 .. k - 1 + 1 : payments'[i] = payments[1 + i - 1]
  BY <1>1, SubSeqProperties
<1>3. DOMAIN payments' = 1 .. k /\ \A i \in 1 .. k : payments'[i] = payments[i]
  BY <1>1, <1>2
<1> QED BY <1>1, <1>2, <1>3 DEF EscrowInv, EscrowTypes, EscrowWorldOK

-----------------------------------------------------------------------------
(* Every step keeps the invariant *)

\* The state after deployment satisfies the invariant (constructor, initialize).
LEMMA EscrowInitInv ==
  ASSUME EscrowInit
  PROVE  EscrowInv
<1>1. MaxFee \in Nat /\ 0 \in 0 .. MaxFee
  BY EscrowAssumption
<1>2. escrow \in EscrowWorlds /\ EscrowWorldOK(escrow)
  <2>1. escrow \in EscrowWorlds
    <3>1. DetectionFees \cap (0 .. MaxFee) \subseteq 0 .. MaxFee /\ {0} \subseteq 0 .. MaxFee
          /\ {0} \subseteq Nat /\ {FALSE} \subseteq BOOLEAN
      BY <1>1
    <3> QED BY <3>1, Zenon DEF EscrowInit, EscrowWorlds
  <2>2. /\ escrow.approved = 0 /\ escrow.pendingOperatorPayment = 0 /\ escrow.requested = 0
        /\ escrow.deposited = 0 /\ escrow.balance = 0 /\ escrow.operatorGot = 0
        /\ escrow.vennGot = 0 /\ escrow.adminGot = 0
    BY DEF EscrowInit
  <2>3. FeeScale \in Nat /\ FeeScale - MaxFee \in Int
    BY EscrowAssumption
  <2> QED BY <2>1, <2>2, <2>3 DEF EscrowWorldOK
<1>3. payments \in Seq(Payments) /\ DOMAIN payments = {}
  BY DEF EscrowInit
<1> QED BY <1>2, <1>3 DEF EscrowInv, EscrowTypes

\* The numbers a world holds.
LEMMA EscrowWorldTypes ==
  ASSUME NEW w \in EscrowWorlds
  PROVE  /\ w.balance \in Nat /\ w.pendingOperatorPayment \in Nat /\ w.deposited \in Nat
         /\ w.requested \in Nat /\ w.approved \in Nat /\ w.operatorGot \in Nat
         /\ w.vennGot \in Nat /\ w.adminGot \in Nat
         /\ w.vennDetectionFee \in 0 .. MaxFee /\ w.vennFee \in 0 .. MaxFee
BY DEF EscrowWorlds

\* Detections and fees change no amount of the escrow (ProtocolRegistry).
LEMMA RegistryStep ==
  ASSUME EscrowInv, Registry
  PROVE  EscrowInv'
<1>1. payments' = payments /\ escrow \in EscrowWorlds /\ EscrowWorldOK(escrow)
  BY DEF EscrowInv, EscrowTypes, Registry, CreateAndRegisterProtocolDetection,
         ApproveProtocolDetectionAsOperator, SetVennDetectionFee
<1>2. CASE CreateAndRegisterProtocolDetection
  <2>1. escrow' = [escrow EXCEPT !.exists = TRUE, !.vennFee = escrow.vennDetectionFee]
        /\ escrow.vennDetectionFee \in 0 .. MaxFee
    BY <1>1, <1>2, EscrowWorldTypes DEF CreateAndRegisterProtocolDetection
  <2>2. escrow' \in EscrowWorlds /\ EscrowWorldOK(escrow')
    BY <1>1, <2>1 DEF EscrowWorlds, EscrowWorldOK
  <2> QED BY <1>1, <2>2, PlainStep
<1>3. CASE ApproveProtocolDetectionAsOperator
  <2>1. escrow' \in EscrowWorlds /\ EscrowWorldOK(escrow')
    BY <1>1, <1>3 DEF ApproveProtocolDetectionAsOperator, EscrowWorlds, EscrowWorldOK
  <2> QED BY <1>1, <2>1, PlainStep
<1>4. ASSUME NEW fee \in DetectionFees, SetVennDetectionFee(fee)
      PROVE  EscrowInv'
  <2>1. escrow' = [escrow EXCEPT !.vennDetectionFee = fee] /\ fee \in 0 .. MaxFee
    BY <1>4, EscrowAssumption DEF SetVennDetectionFee
  <2>2. escrow' \in EscrowWorlds /\ EscrowWorldOK(escrow')
    BY <1>1, <2>1 DEF EscrowWorlds, EscrowWorldOK
  <2> QED BY <1>1, <2>2, PlainStep
<1> QED BY <1>2, <1>3, <1>4 DEF Registry

\* A deposit is added to the balance (receive).
LEMMA ReceiveStep ==
  ASSUME EscrowInv, NEW v \in Nat, Receive(v)
  PROVE  EscrowInv'
<1>1. /\ payments' = payments /\ escrow \in EscrowWorlds /\ EscrowWorldOK(escrow)
      /\ escrow' = [escrow EXCEPT !.balance = escrow.balance + v, !.deposited = escrow.deposited + v]
  BY DEF EscrowInv, EscrowTypes, Receive
<1> DEFINE b == escrow.balance + v
           d == escrow.deposited + v
<1>2. b \in Nat /\ d \in Nat
  BY <1>1, EscrowWorldTypes
<1> HIDE DEF b, d
<1>3. escrow' = [escrow EXCEPT !.balance = b, !.deposited = d]
  BY <1>1 DEF b, d
<1>4. escrow' \in EscrowWorlds
  BY <1>1, <1>2, <1>3 DEF EscrowWorlds
<1>5. /\ escrow'.balance = b /\ escrow'.deposited = d /\ escrow'.approved = escrow.approved
      /\ escrow'.pendingOperatorPayment = escrow.pendingOperatorPayment
      /\ escrow'.requested = escrow.requested /\ escrow'.operatorGot = escrow.operatorGot
      /\ escrow'.vennGot = escrow.vennGot /\ escrow'.adminGot = escrow.adminGot
  BY <1>1, <1>3 DEF EscrowWorlds
<1>6. EscrowWorldOK(escrow')
  BY <1>1, <1>5, EscrowWorldTypes DEF EscrowWorldOK, b, d
<1> QED BY <1>1, <1>4, <1>6, PlainStep

\* A request asks for as much as it makes pending, and drops what was pending.
LEMMA RequestStep ==
  ASSUME EscrowInv, NEW v \in Nat, InitializeClaimPayment(v)
  PROVE  EscrowInv'
<1> DEFINE r == escrow.requested + v
<1>1. /\ payments' = payments /\ escrow \in EscrowWorlds /\ EscrowWorldOK(escrow)
      /\ escrow' = [escrow EXCEPT !.pendingOperatorPayment = v, !.requested = r]
  BY DEF EscrowInv, EscrowTypes, InitializeClaimPayment
<1>2. r \in Nat
  BY <1>1, EscrowWorldTypes
<1> HIDE DEF r
<1>3. escrow' \in EscrowWorlds
  BY <1>1, <1>2 DEF EscrowWorlds
<1>4. /\ escrow'.balance = escrow.balance /\ escrow'.deposited = escrow.deposited
      /\ escrow'.approved = escrow.approved /\ escrow'.pendingOperatorPayment = v
      /\ escrow'.requested = r /\ escrow'.operatorGot = escrow.operatorGot
      /\ escrow'.vennGot = escrow.vennGot /\ escrow'.adminGot = escrow.adminGot
  BY <1>1 DEF EscrowWorlds
<1>5. EscrowWorldOK(escrow')
  BY <1>1, <1>4, EscrowWorldTypes DEF EscrowWorldOK, r
<1> QED BY <1>1, <1>3, <1>5, PlainStep

\* The request is reset in the step that approves it.
LEMMA ApproveStep ==
  ASSUME EscrowInv, NEW v \in Nat, ApproveClaimPayment(v)
  PROVE  EscrowInv'
<1> DEFINE part == OperatorAmount(v)
           b == escrow.balance - part
           o == escrow.operatorGot + part
           a == escrow.approved + v
<1>1. /\ escrow \in EscrowWorlds /\ EscrowWorldOK(escrow) /\ payments' = Paying("operator", VennAmount(v))
      /\ escrow.pendingOperatorPayment = v /\ escrow.balance >= v
      /\ escrow' = [escrow EXCEPT !.pendingOperatorPayment = 0, !.balance = b,
                                !.operatorGot = o, !.approved = a]
  BY DEF EscrowInv, EscrowTypes, ApproveClaimPayment
<1>2. part \in Nat /\ VennAmount(v) \in Nat /\ part <= v
  BY <1>1, Parts
<1> HIDE DEF part
<1>3. b \in Nat /\ o \in Nat /\ a \in Nat
  BY <1>1, <1>2, EscrowWorldTypes
<1> HIDE DEF b, o, a
<1>4. escrow' \in EscrowWorlds
  BY <1>1, <1>3 DEF EscrowWorlds
<1>5. /\ escrow'.balance = b /\ escrow'.deposited = escrow.deposited
      /\ escrow'.approved = a /\ escrow'.pendingOperatorPayment = 0
      /\ escrow'.requested = escrow.requested /\ escrow'.operatorGot = o
      /\ escrow'.vennGot = escrow.vennGot /\ escrow'.adminGot = escrow.adminGot
  BY <1>1 DEF EscrowWorlds
<1>6. /\ a + 0 <= escrow.requested
      /\ escrow.deposited = b + o + escrow.vennGot + escrow.adminGot
  BY <1>1, <1>2, EscrowWorldTypes DEF EscrowWorldOK, a, b, o
<1>7. o * FeeScale >= a * (FeeScale - MaxFee)
  <2> DEFINE rest == FeeScale - MaxFee
  <2>1. FeeScale \in Nat /\ rest \in Nat
    BY EscrowAssumption
  <2>2. part * FeeScale >= v * rest /\ escrow.operatorGot * FeeScale >= escrow.approved * rest
    BY <1>1, OperatorPart DEF EscrowWorldOK, part
  <2> HIDE DEF rest
  <2>3. /\ o * FeeScale = escrow.operatorGot * FeeScale + part * FeeScale
        /\ a * rest = escrow.approved * rest + v * rest
    BY <1>1, <1>2, <2>1, EscrowWorldTypes DEF o, a
  <2>4. /\ escrow.operatorGot * FeeScale \in Nat /\ part * FeeScale \in Nat
        /\ escrow.approved * rest \in Nat /\ v * rest \in Nat
    BY <1>1, <1>2, <2>1, EscrowWorldTypes
  <2>5. o * FeeScale >= a * rest
    BY <2>2, <2>3, <2>4
  <2> QED BY <2>5 DEF rest
<1>8. EscrowWorldOK(escrow')
  BY <1>5, <1>6, <1>7 DEF EscrowWorldOK
<1> QED BY <1>1, <1>2, <1>4, <1>8, PayStep

\* What is withdrawn goes from the balance to the admin (withdrawFunds).
LEMMA WithdrawStep ==
  ASSUME EscrowInv, NEW v \in Nat, WithdrawFunds(v)
  PROVE  EscrowInv'
<1> DEFINE b == escrow.balance - v
           m == escrow.adminGot + v
<1>1. /\ escrow \in EscrowWorlds /\ EscrowWorldOK(escrow) /\ payments' = Paying("admin", 0)
      /\ escrow.balance >= v
      /\ escrow' = [escrow EXCEPT !.balance = b, !.adminGot = m]
  BY DEF EscrowInv, EscrowTypes, WithdrawFunds
<1>2. b \in Nat /\ m \in Nat
  BY <1>1, EscrowWorldTypes
<1> HIDE DEF b, m
<1>3. escrow' \in EscrowWorlds
  BY <1>1, <1>2 DEF EscrowWorlds
<1>4. /\ escrow'.balance = b /\ escrow'.deposited = escrow.deposited
      /\ escrow'.approved = escrow.approved
      /\ escrow'.pendingOperatorPayment = escrow.pendingOperatorPayment
      /\ escrow'.requested = escrow.requested /\ escrow'.operatorGot = escrow.operatorGot
      /\ escrow'.vennGot = escrow.vennGot /\ escrow'.adminGot = m
  BY <1>1 DEF EscrowWorlds
<1>5. EscrowWorldOK(escrow')
  BY <1>1, <1>4, EscrowWorldTypes DEF EscrowWorldOK, b, m
<1> QED BY <1>1, <1>3, <1>5, PayStep

\* Venn gets what the frame says, if it is still there.
LEMMA PayVennStep ==
  ASSUME EscrowInv, PayVenn
  PROVE  EscrowInv'
<1> DEFINE n == Len(payments)
           g == [payments[n] EXCEPT !.to = "venn", !.owed = 0]
           b == escrow.balance - TopPayment.owed
           got == escrow.vennGot + TopPayment.owed
<1>1. /\ escrow \in EscrowWorlds /\ EscrowWorldOK(escrow) /\ payments \in Seq(Payments) /\ n \in Nat \ {0}
      /\ TopPayment.owed \in Nat /\ escrow.balance >= TopPayment.owed
  BY StackTypes DEF EscrowInv, EscrowTypes, PayVenn
<1>2. /\ escrow' = [escrow EXCEPT !.balance = b, !.vennGot = got]
      /\ payments' = [payments EXCEPT ![n] = g]
  BY DEF PayVenn
<1>3. b \in Nat /\ got \in Nat
  BY <1>1, EscrowWorldTypes
<1>4. g \in Payments /\ g.saved = payments[n].saved
  <2>1. payments[n] \in Payments
    BY <1>1
  <2> QED BY <2>1 DEF Payments
<1> HIDE DEF g, b, got
<1>5. escrow' \in EscrowWorlds
  BY <1>1, <1>2, <1>3 DEF EscrowWorlds
<1>6. /\ escrow'.balance = b /\ escrow'.deposited = escrow.deposited
      /\ escrow'.approved = escrow.approved
      /\ escrow'.pendingOperatorPayment = escrow.pendingOperatorPayment
      /\ escrow'.requested = escrow.requested /\ escrow'.operatorGot = escrow.operatorGot
      /\ escrow'.vennGot = got /\ escrow'.adminGot = escrow.adminGot
  BY <1>1, <1>2 DEF EscrowWorlds
<1>7. EscrowWorldOK(escrow')
  BY <1>1, <1>6, EscrowWorldTypes DEF EscrowWorldOK, b, got
<1>8. payments' \in Seq(Payments) /\ DOMAIN payments' = DOMAIN payments
  BY <1>1, <1>2, <1>4
<1>9. \A i \in DOMAIN payments : payments'[i].saved = payments[i].saved
  BY <1>1, <1>2, <1>4
<1> QED BY <1>5, <1>7, <1>8, <1>9 DEF EscrowInv, EscrowTypes, EscrowWorldOK

\* Every step keeps the invariant.
LEMMA EscrowNextInv ==
  ASSUME EscrowInv, [EscrowNext]_escrowVars
  PROVE  EscrowInv'
<1>1. CASE Registry
  BY <1>1, RegistryStep
<1>2. CASE \E v \in EscrowAmounts : \/ Receive(v) \/ InitializeClaimPayment(v)
                              \/ ApproveClaimPayment(v) \/ WithdrawFunds(v)
  BY <1>2, EscrowAssumption, ReceiveStep, RequestStep, ApproveStep, WithdrawStep
<1>3. CASE PayVenn
  BY <1>3, PayVennStep
<1>4. CASE PaymentEnds
  <2>1. payments # <<>> /\ payments' = PaymentsBelow /\ escrow' = escrow
    BY <1>4 DEF PaymentEnds
  <2> QED BY <2>1, BackStep DEF EscrowInv, EscrowTypes
<1>5. CASE RevertFrame
  <2>1. payments # <<>> /\ payments' = PaymentsBelow /\ escrow' = TopPayment.saved
    BY <1>5 DEF RevertFrame
  <2>2. TopPayment.saved \in EscrowWorlds /\ EscrowWorldOK(TopPayment.saved)
    BY <2>1, StackTypes DEF EscrowInv
  <2> QED BY <2>1, <2>2, BackStep
<1>6. CASE UNCHANGED escrowVars
  BY <1>6 DEF escrowVars, EscrowInv, EscrowTypes, EscrowWorldOK
<1> QED BY <1>1, <1>2, <1>3, <1>4, <1>5, <1>6 DEF EscrowNext, Escrow

\* The invariant holds in every reachable state.
LEMMA EscrowInvariance == EscrowSpec => []EscrowInv
BY EscrowInitInv, EscrowNextInv, PTL DEF EscrowSpec

-----------------------------------------------------------------------------
(* What is approved is paid or owed.  In the world, and in the world each  *)
(* payment goes back to, what was approved is what the operator and Venn   *)
(* have, and what the payments under way then still owe to Venn.           *)

OwedUpto(s, n) == SumOver([i \in DOMAIN s |-> s[i].owed], 1 .. n)

Settled(w, owed) == w.approved = w.operatorGot + w.vennGot + owed

AllSettled(w, s) ==
  /\ Settled(w, OwedUpto(s, Len(s)))
  /\ \A i \in 1 .. Len(s) : Settled(s[i].saved, OwedUpto(s, i - 1))
  /\ \A i \in 1 .. Len(s) : s[i].to # "operator" => s[i].owed = 0

\* The sum over one more frame.
LEMMA OwedNext ==
  ASSUME NEW s \in Seq(Payments), NEW n \in Nat, n + 1 <= Len(s)
  PROVE  /\ OwedUpto(s, n) \in Nat /\ s[n + 1].owed \in Nat
         /\ OwedUpto(s, n + 1) = OwedUpto(s, n) + s[n + 1].owed
<1> DEFINE f == [i \in DOMAIN s |-> s[i].owed]
<1>1. \A i \in 1 .. n + 1 : i \in DOMAIN s /\ f[i] = s[i].owed /\ s[i].owed \in Nat
  <2>1. ASSUME NEW i \in 1 .. n + 1
        PROVE  i \in DOMAIN s /\ s[i] \in Payments
    BY <2>1
  <2> QED BY <2>1 DEF Payments
<1> HIDE DEF f
<1>2. NatOn(f, 1 .. n + 1) /\ n + 1 \in 1 .. n + 1
  BY <1>1 DEF NatOn
<1>3. SumOver(f, 1 .. n) \in Nat /\ SumOver(f, 1 .. n + 1) = SumOver(f, 1 .. n) + f[n + 1]
  BY <1>2, SumNext
<1> QED BY <1>1, <1>2, <1>3 DEF OwedUpto, f

\* Two stacks that agree on their lower frames owe the same there.
LEMMA OwedSame ==
  ASSUME NEW s \in Seq(Payments), NEW t \in Seq(Payments), NEW n \in Nat,
         n <= Len(s), n <= Len(t), \A i \in 1 .. n : t[i] = s[i]
  PROVE  OwedUpto(t, n) = OwedUpto(s, n)
<1> DEFINE f == [i \in DOMAIN s |-> s[i].owed]
           e == [i \in DOMAIN t |-> t[i].owed]
<1>1. ASSUME NEW i \in 1 .. n
      PROVE  f[i] = s[i].owed /\ e[i] = f[i] /\ f[i] \in Nat
  <2>1. i \in DOMAIN s /\ i \in DOMAIN t /\ s[i] \in Payments
    OBVIOUS
  <2> QED BY <2>1 DEF Payments
<1> HIDE DEF f, e
<1>2. NatOn(f, 1 .. n) /\ \A i \in 1 .. n : f[i] = e[i]
  BY <1>1 DEF NatOn
<1>3. IsFiniteSet(1 .. n)
  BY FS_Interval
<1>4. SumOver(f, 1 .. n) = SumOver(e, 1 .. n)
  BY <1>2, <1>3, SumEqual
<1> QED BY <1>4 DEF OwedUpto, f, e

\* A frame on top of the stack adds what it owes.
LEMMA PushSettled ==
  ASSUME NEW w, NEW s \in Seq(Payments), AllSettled(w, s), NEW f \in Payments,
         f.saved = w, f.to # "operator" => f.owed = 0,
         NEW v, Settled(v, OwedUpto(s, Len(s)) + f.owed)
  PROVE  AllSettled(v, Append(s, f))
<1> DEFINE t == Append(s, f)
           n == Len(s)
<1>1. /\ t \in Seq(Payments) /\ n \in Nat /\ Len(t) = n + 1 /\ t[n + 1] = f
      /\ \A i \in 1 .. n : t[i] = s[i]
  BY AppendProperties
<1> HIDE DEF t, n
<1>2. \A i \in 0 .. n : OwedUpto(t, i) = OwedUpto(s, i)
  BY <1>1, OwedSame DEF n
<1>3. OwedUpto(t, n + 1) = OwedUpto(s, n) + f.owed
  <2>1. OwedUpto(t, n + 1) = OwedUpto(t, n) + t[n + 1].owed
    <3>1. t \in Seq(Payments) /\ n \in Nat /\ n + 1 <= Len(t)
      BY <1>1
    <3> QED BY <3>1, OwedNext
  <2>2. OwedUpto(t, n) = OwedUpto(s, n)
    BY <1>1, <1>2
  <2> QED BY <1>1, <2>1, <2>2
<1>4. ASSUME NEW i \in 1 .. n + 1
      PROVE  /\ Settled(t[i].saved, OwedUpto(t, i - 1))
             /\ t[i].to # "operator" => t[i].owed = 0
  <2>1. CASE i = n + 1
    BY <1>1, <1>2, <2>1 DEF AllSettled, n
  <2>2. CASE i \in 1 .. n
    <3>1. i - 1 \in 0 .. n
      BY <1>1, <2>2
    <3> QED BY <1>1, <1>2, <2>2, <3>1 DEF AllSettled, n
  <2> QED BY <1>1, <2>1, <2>2
<1>5. Settled(v, OwedUpto(t, n + 1))
  BY <1>3 DEF n
<1>6. AllSettled(v, t)
  BY <1>1, <1>4, <1>5 DEF AllSettled
<1> QED BY <1>6 DEF t

\* Without its top frame the stack owes what it owed before that payment.
LEMMA PopSettled ==
  ASSUME NEW w, NEW s \in Seq(Payments), s # <<>>, AllSettled(w, s),
         NEW v, Settled(v, OwedUpto(s, Len(s) - 1))
  PROVE  AllSettled(v, SubSeq(s, 1, Len(s) - 1))
<1> DEFINE k == Len(s) - 1
           t == SubSeq(s, 1, k)
<1>1. k \in Nat /\ Len(s) = k + 1 /\ \A i \in 1 .. k : s[i] \in Payments
  OBVIOUS
<1> HIDE DEF k
<1>2. /\ t \in Seq(Payments)
      /\ Len(t) = IF 1 <= k THEN k - 1 + 1 ELSE 0
      /\ \A i \in 1 .. k - 1 + 1 : t[i] = s[1 + i - 1]
  BY <1>1, SubSeqProperties
<1> HIDE DEF t
<1>3. Len(t) = k /\ \A i \in 1 .. k : t[i] = s[i]
  BY <1>1, <1>2
<1>4. \A i \in 0 .. k : OwedUpto(t, i) = OwedUpto(s, i)
  BY <1>1, <1>2, <1>3, OwedSame
<1>5. ASSUME NEW i \in 1 .. k
      PROVE  /\ Settled(t[i].saved, OwedUpto(t, i - 1))
             /\ t[i].to # "operator" => t[i].owed = 0
  <2>1. i - 1 \in 0 .. k /\ i \in 1 .. Len(s)
    BY <1>1
  <2> QED BY <1>3, <1>4, <2>1 DEF AllSettled
<1>6. Settled(v, OwedUpto(t, k))
  BY <1>1, <1>4 DEF k
<1>7. AllSettled(v, t)
  BY <1>3, <1>5, <1>6 DEF AllSettled
<1> QED BY <1>7 DEF t, k

\* A payment that goes on changes what the top frame owes.
LEMMA TopSettled ==
  ASSUME NEW w, NEW s \in Seq(Payments), s # <<>>, AllSettled(w, s), NEW g \in Payments,
         g.saved = s[Len(s)].saved, g.to # "operator" => g.owed = 0,
         NEW v, Settled(v, OwedUpto(s, Len(s) - 1) + g.owed)
  PROVE  AllSettled(v, [s EXCEPT ![Len(s)] = g])
<1> DEFINE k == Len(s) - 1
           t == [s EXCEPT ![k + 1] = g]
<1>1. k \in Nat /\ Len(s) = k + 1
  OBVIOUS
<1> HIDE DEF k
<1>2. t \in Seq(Payments) /\ Len(t) = k + 1 /\ t[k + 1] = g /\ \A i \in 1 .. k : t[i] = s[i]
  BY <1>1
<1> HIDE DEF t
<1>3. \A i \in 0 .. k : OwedUpto(t, i) = OwedUpto(s, i)
  BY <1>1, <1>2, OwedSame
<1>4. OwedUpto(t, k + 1) = OwedUpto(s, k) + g.owed
  <2>1. OwedUpto(t, k + 1) = OwedUpto(t, k) + t[k + 1].owed
    BY <1>1, <1>2, OwedNext
  <2>2. OwedUpto(t, k) = OwedUpto(s, k)
    BY <1>1, <1>3
  <2> QED BY <1>2, <2>1, <2>2
<1>5. ASSUME NEW i \in 1 .. k + 1
      PROVE  /\ Settled(t[i].saved, OwedUpto(t, i - 1))
             /\ t[i].to # "operator" => t[i].owed = 0
  <2>1. i - 1 \in 0 .. k /\ i \in 1 .. Len(s) /\ (i = k + 1 \/ i \in 1 .. k)
    BY <1>1
  <2> QED BY <1>1, <1>2, <1>3, <2>1 DEF AllSettled
<1>6. Settled(v, OwedUpto(t, k + 1))
  BY <1>4 DEF k
<1>7. AllSettled(v, t)
  BY <1>2, <1>5, <1>6 DEF AllSettled
<1> QED BY <1>1, <1>7 DEF t

\* Every step keeps what is approved paid or owed.
LEMMA NextSettled ==
  ASSUME EscrowInv, EscrowInv', AllSettled(escrow, payments), [EscrowNext]_escrowVars
  PROVE  AllSettled(escrow, payments)'
<1> DEFINE s == payments
           n == Len(payments)
<1>1. escrow \in EscrowWorlds /\ s \in Seq(Payments) /\ n \in Nat /\ Settled(escrow, OwedUpto(s, n))
  BY DEF EscrowInv, EscrowTypes, AllSettled
<1>2. ASSUME s # <<>>
      PROVE  /\ TopPayment \in Payments /\ TopPayment = s[n] /\ TopPayment.owed \in Nat
             /\ OwedUpto(s, n - 1) \in Nat
             /\ OwedUpto(s, n) = OwedUpto(s, n - 1) + TopPayment.owed
             /\ Settled(TopPayment.saved, OwedUpto(s, n - 1))
             /\ TopPayment.to # "operator" => TopPayment.owed = 0
  <2>1. n \in Nat \ {0} /\ TopPayment \in Payments /\ TopPayment = s[n]
    BY <1>2, StackTypes DEF EscrowInv
  <2>2. n - 1 \in Nat /\ n - 1 + 1 = n /\ n \in 1 .. n
    BY <2>1
  <2>3. /\ OwedUpto(s, n - 1) \in Nat /\ s[n - 1 + 1].owed \in Nat
        /\ OwedUpto(s, n - 1 + 1) = OwedUpto(s, n - 1) + s[n - 1 + 1].owed
    <3> HIDE DEF s
    <3>1. n - 1 + 1 <= Len(s)
      BY <2>2 DEF s
    <3> QED BY <1>1, <2>2, <3>1, OwedNext
  <2>4. /\ Settled(s[n].saved, OwedUpto(s, n - 1))
        /\ s[n].to # "operator" => s[n].owed = 0
    BY <2>2 DEF AllSettled
  <2> QED BY <2>1, <2>2, <2>3, <2>4
<1>3. ASSUME payments' = payments, escrow'.approved = escrow.approved,
             escrow'.operatorGot = escrow.operatorGot, escrow'.vennGot = escrow.vennGot
      PROVE  AllSettled(escrow', payments')
  BY <1>3 DEF AllSettled, Settled
<1>4. CASE Registry
  BY <1>1, <1>3, <1>4 DEF EscrowWorlds, Registry, CreateAndRegisterProtocolDetection,
                      ApproveProtocolDetectionAsOperator, SetVennDetectionFee
<1>5. ASSUME NEW v \in EscrowAmounts, Receive(v) \/ InitializeClaimPayment(v)
      PROVE  AllSettled(escrow', payments')
  BY <1>1, <1>3, <1>5 DEF EscrowWorlds, Receive, InitializeClaimPayment
<1>6. ASSUME NEW v \in EscrowAmounts, ApproveClaimPayment(v)
      PROVE  AllSettled(escrow', payments')
  <2> DEFINE f == [to |-> "operator", owed |-> VennAmount(v), saved |-> escrow]
  <2>1. /\ VennAmount(v) \in Nat /\ OperatorAmount(v) \in Nat
        /\ VennAmount(v) + OperatorAmount(v) = v
    BY <1>1, Parts, EscrowAssumption
  <2>2. /\ payments' = Append(s, f)
        /\ escrow'.approved = escrow.approved + v /\ escrow'.vennGot = escrow.vennGot
        /\ escrow'.operatorGot = escrow.operatorGot + OperatorAmount(v)
    BY <1>1, <1>6 DEF ApproveClaimPayment, Paying, EscrowWorlds
  <2>3. /\ f \in Payments /\ f.saved = escrow /\ f.to = "operator" /\ f.owed = VennAmount(v)
    BY <1>1, <2>1 DEF Payments
  <2>4. OwedUpto(s, n) \in Nat
    <3>1. CASE s = <<>>
      BY <3>1, SumEmpty DEF OwedUpto
    <3>2. CASE s # <<>>
      BY <1>2, <3>2
    <3> QED BY <3>1, <3>2
  <2>5. Settled(escrow', OwedUpto(s, n) + f.owed)
    <3> HIDE DEF f, s, n
    <3> QED BY <1>1, <2>1, <2>2, <2>3, <2>4, EscrowWorldTypes DEF Settled
  <2> QED BY <1>1, <2>2, <2>3, <2>5, PushSettled
<1>7. ASSUME NEW v \in EscrowAmounts, WithdrawFunds(v)
      PROVE  AllSettled(escrow', payments')
  <2> DEFINE f == [to |-> "admin", owed |-> 0, saved |-> escrow]
  <2>1. /\ payments' = Append(s, f)
        /\ escrow'.approved = escrow.approved /\ escrow'.vennGot = escrow.vennGot
        /\ escrow'.operatorGot = escrow.operatorGot
    BY <1>1, <1>7 DEF WithdrawFunds, Paying, EscrowWorlds
  <2>2. f \in Payments /\ f.saved = escrow /\ f.owed = 0
    BY <1>1 DEF Payments
  <2>3. OwedUpto(s, n) \in Nat
    <3>1. CASE s = <<>>
      BY <3>1, SumEmpty DEF OwedUpto
    <3>2. CASE s # <<>>
      BY <1>2, <3>2
    <3> QED BY <3>1, <3>2
  <2>4. Settled(escrow', OwedUpto(s, n) + f.owed)
    BY <1>1, <2>1, <2>2, <2>3 DEF Settled
  <2> QED BY <1>1, <2>1, <2>2, <2>4, PushSettled
<1>8. CASE PayVenn
  <2> DEFINE g == [payments[n] EXCEPT !.to = "venn", !.owed = 0]
  <2>1. s # <<>> /\ payments' = [s EXCEPT ![n] = g]
    BY <1>8 DEF PayVenn
  <2>2. g \in Payments /\ g.saved = s[n].saved /\ g.owed = 0
    BY <1>2, <2>1 DEF Payments
  <2>3. /\ escrow'.approved = escrow.approved /\ escrow'.operatorGot = escrow.operatorGot
        /\ escrow'.vennGot = escrow.vennGot + TopPayment.owed
    BY <1>1, <1>8 DEF PayVenn, EscrowWorlds
  <2>4. Settled(escrow', OwedUpto(s, n - 1) + g.owed)
    <3> HIDE DEF g, s, n
    <3> QED BY <1>1, <1>2, <2>1, <2>2, <2>3, EscrowWorldTypes DEF Settled
  <2> QED BY <1>1, <2>1, <2>2, <2>4, TopSettled
<1>9. CASE PaymentEnds
  <2>1. s # <<>> /\ TopPayment.to # "operator" /\ payments' = SubSeq(s, 1, n - 1) /\ escrow' = escrow
    BY <1>9 DEF PaymentEnds, PaymentsBelow
  <2>2. Settled(escrow', OwedUpto(s, n - 1))
    BY <1>1, <1>2, <2>1
  <2> QED BY <1>1, <2>1, <2>2, PopSettled
<1>10. CASE RevertFrame
  <2>1. s # <<>> /\ payments' = SubSeq(s, 1, n - 1) /\ escrow' = TopPayment.saved
    BY <1>10 DEF RevertFrame, PaymentsBelow
  <2> QED BY <1>1, <1>2, <2>1, PopSettled
<1>11. CASE UNCHANGED escrowVars
  BY <1>3, <1>11 DEF escrowVars
<1> QED BY <1>4, <1>5, <1>6, <1>7, <1>8, <1>9, <1>10, <1>11 DEF EscrowNext, Escrow

\* Nothing is approved and nothing owed at the start.
LEMMA InitSettled ==
  ASSUME EscrowInit
  PROVE  AllSettled(escrow, payments)
<1>1. /\ escrow.approved = 0 /\ escrow.operatorGot = 0 /\ escrow.vennGot = 0
      /\ payments = <<>> /\ Len(payments) = 0
  BY DEF EscrowInit
<1>2. OwedUpto(payments, 0) = 0
  BY SumEmpty DEF OwedUpto
<1> QED BY <1>1, <1>2 DEF AllSettled, Settled

\* It holds in every state.
LEMMA SettledInvariance == EscrowSpec => [](EscrowInv /\ AllSettled(escrow, payments))
BY EscrowInitInv, InitSettled, EscrowNextInv, NextSettled, PTL DEF EscrowSpec

-----------------------------------------------------------------------------
(* Theorems *)

\* No amount or balance underflows, whatever is undone (DetectionEscrow).
THEOREM EscrowTypeCorrect == EscrowSpec => []EscrowTypes
BY EscrowInvariance, PTL DEF EscrowInv

\* What was approved and what is pending never exceeds what was asked for, even
\* if recipients call back while they are paid (approveClaimPayment).
THEOREM PaidOnce == EscrowSpec => []RequestsArePaidOnce
<1>1. EscrowInv => RequestsArePaidOnce
  BY DEF EscrowInv, EscrowWorldOK, RequestsArePaidOnce
<1> QED BY <1>1, EscrowInvariance, PTL

\* All ether that was deposited is in the escrow or with one of the three.
THEOREM NothingIsLost ==
  EscrowSpec => [](escrow.deposited = escrow.balance + escrow.operatorGot + escrow.vennGot
                                 + escrow.adminGot)
<1>1. EscrowInv => escrow.deposited = escrow.balance + escrow.operatorGot + escrow.vennGot
                                  + escrow.adminGot
  BY DEF EscrowInv, EscrowWorldOK
<1> QED BY <1>1, EscrowInvariance, PTL
\* Every unit an admin approves goes to the operator or to Venn, or is owed by
\* an approval under way; nothing deposited is lost; and the operator keeps the
\* part MAX_VENN_DETECTION_FEE leaves it (approveClaimPayment).
THEOREM ApprovedPaid == EscrowSpec => []ApprovedIsPaid
<1>1. EscrowInv /\ AllSettled(escrow, payments) => ApprovedIsPaid
  <2> SUFFICES ASSUME EscrowInv, AllSettled(escrow, payments)
               PROVE  ApprovedIsPaid
    OBVIOUS
  <2>1. DOMAIN payments = 1 .. Len(payments)
    BY DEF EscrowInv, EscrowTypes
  <2>2. Owed = OwedUpto(payments, Len(payments))
    BY <2>1 DEF Owed, OwedUpto
  <2> QED BY <2>2 DEF EscrowInv, EscrowWorldOK, AllSettled, Settled, ApprovedIsPaid, OperatorKeepsItsPart
<1> QED BY <1>1, SettledInvariance, PTL
=============================================================================
