----------------------------- MODULE SumsProofs -----------------------------
(***************************************************************************)
(* Induction on sets, and with it what a sum over a finite set is.         *)
(*                                                                         *)
(* An induction principle usually takes a predicate.  Here it takes the    *)
(* set of the numbers, or of the sets, for which the predicate holds, so   *)
(* that it can be cited where the predicate is known.  It rests on minimal *)
(* elements of well-founded relations (WFMin).                             *)
(***************************************************************************)
EXTENDS Sums, FiniteSetTheorems, WellFoundedInduction, TLAPS

(* Induction: a set with 0 that is closed under successor has every        *)
(* natural number.                                                         *)
LEMMA SetInduction ==
  ASSUME NEW S, 0 \in S, \A n \in Nat : n \in S => n + 1 \in S
  PROVE  \A n \in Nat : n \in S
<1> DEFINE T == {n \in Nat : n \notin S}
           R == {ss \in Nat \X Nat : ss[1] < ss[2]}
<1>1. SUFFICES ASSUME T # {} PROVE FALSE
  OBVIOUS
<1>2. IsWellFoundedOn(R, Nat)
  BY NatLessThanWellFounded DEF OpToRel
<1>3. T \subseteq Nat
  OBVIOUS
<1> HIDE DEF T, R
<1>4. PICK x \in T : \A y \in T : ~(<<y, x>> \in R)
  BY <1>1, <1>2, <1>3, WFMin
<1>5. x \in Nat /\ x # 0
  BY <1>4, <1>3 DEF T
<1>6. x - 1 \in Nat /\ x - 1 < x /\ (x - 1) + 1 = x
  BY <1>5
<1>7. x - 1 \notin T
  BY <1>4, <1>6, <1>5 DEF R
<1> QED
  BY <1>5, <1>6, <1>7, <1>4 DEF T

(* The cardinalities of the subsets of a finite set.                       *)
LEMMA Subsets ==
  ASSUME NEW S, IsFiniteSet(S), NEW s \in SUBSET S
  PROVE  /\ IsFiniteSet(s) /\ Cardinality(s) \in Nat
         /\ Cardinality(s) <= Cardinality(S) /\ Cardinality(S) \in Nat
         /\ Cardinality(s) = 0 <=> s = {}
         /\ \A x \in s : Cardinality(s \ {x}) = Cardinality(s) - 1
<1>1. IsFiniteSet(s) /\ Cardinality(s) <= Cardinality(S)
  BY FS_Subset
<1>2. Cardinality(s) \in Nat /\ Cardinality(S) \in Nat
  BY <1>1, FS_CardinalityType
<1>3. Cardinality(s) = 0 <=> s = {}
  BY <1>1, FS_EmptySet
<1>4. \A x \in s : Cardinality(s \ {x}) = Cardinality(s) - 1
  BY <1>1, FS_RemoveElement
<1> QED
  BY <1>1, <1>2, <1>3, <1>4

(* Induction on the subsets of a finite set: those in X are all of them if *)
(* the empty set is one, and each set of which every part with one element *)
(* less is one.                                                            *)
LEMMA SubsetInduction ==
  ASSUME NEW S, IsFiniteSet(S), NEW X, {} \in X,
         \A T \in SUBSET S : T # {} /\ (\A y \in T : T \ {y} \in X) => T \in X
  PROVE  \A T \in SUBSET S : T \in X
<1> DEFINE N == {n \in Nat : \A T \in SUBSET S : Cardinality(T) = n => T \in X}
<1>1. 0 \in N
  BY Subsets
<1>2. ASSUME NEW n \in Nat, n \in N
      PROVE  n + 1 \in N
  <2>1. ASSUME NEW T \in SUBSET S, Cardinality(T) = n + 1
        PROVE  T \in X
    <3>1. T # {} /\ \A y \in T : T \ {y} \in SUBSET S /\ Cardinality(T \ {y}) = n
      BY <2>1, Subsets
    <3>2. \A y \in T : T \ {y} \in X
      BY <3>1, <1>2
    <3> QED
      BY <3>1, <3>2
  <2> QED
    BY <2>1
<1> HIDE DEF N
<1>3. \A n \in Nat : n \in N
  BY <1>1, <1>2, SetInduction
<1>4. \A T \in SUBSET S : Cardinality(T) \in Nat
  BY Subsets
<1> QED
  BY <1>3, <1>4 DEF N

-----------------------------------------------------------------------------
(* The function of which a sum is one value: the sums over all subsets,    *)
(* each element of which is taken in the order of CHOOSE.                  *)

NatOn(f, S) == \A x \in S : f[x] \in Nat

Pick(s) == CHOOSE x \in s : TRUE

Partial(g, f, s) == IF s = {} THEN 0 ELSE f[Pick(s)] + g[s \ {Pick(s)}]

IsSums(g, f, S) == g = [s \in SUBSET S |-> Partial(g, f, s)]

PartialSums(f, S) == CHOOSE g : IsSums(g, f, S)

(* SumOver is a value of the function that its recursion defines.          *)
LEMMA SumOverPartial ==
  ASSUME NEW f, NEW S
  PROVE  SumOver(f, S) = PartialSums(f, S)[S]
  BY DEF PartialSums, SumOver, MapThenSumSet, MapThenFoldSet, IsSums, Partial, Pick

(* What is picked of a set is in it.                                       *)
LEMMA PickIn ==
  ASSUME NEW s, s # {}
  PROVE  Pick(s) \in s
  BY DEF Pick

(* On a finite set, the recursion has a solution: it is built from         *)
(* functions that solve it for the sets with at most n elements.           *)
LEMMA SumsExist ==
  ASSUME NEW S, IsFiniteSet(S), NEW f, NatOn(f, S)
  PROVE  \E g \in [SUBSET S -> Nat] : IsSums(g, f, S)
<1> DEFINE Upto(g, n) == \A s \in SUBSET S : Cardinality(s) <= n => g[s] = Partial(g, f, s)
           N == {n \in Nat : \E g \in [SUBSET S -> Nat] : Upto(g, n)}
<1>1. 0 \in N
  <2> DEFINE g == [s \in SUBSET S |-> 0]
  <2>1. \A s \in SUBSET S : Cardinality(s) <= 0 => s = {}
    BY Subsets
  <2>2. Upto(g, 0)
    BY <2>1 DEF Partial
  <2> QED
    BY <2>2
<1>2. ASSUME NEW n \in Nat, n \in N
      PROVE  n + 1 \in N
  <2>1. PICK g \in [SUBSET S -> Nat] : Upto(g, n)
    BY <1>2
  <2> DEFINE h == [s \in SUBSET S |-> Partial(g, f, s)]
  <2>2. \A s \in SUBSET S : Partial(g, f, s) \in Nat
    BY PickIn DEF Partial, NatOn
  <2>3. h \in [SUBSET S -> Nat]
    BY <2>2
  <2>4. ASSUME NEW s \in SUBSET S, Cardinality(s) <= n + 1
        PROVE  h[s] = Partial(h, f, s)
    <3>1. CASE s = {}
      BY <3>1 DEF Partial
    <3>2. CASE s # {}
      <4> DEFINE r == s \ {Pick(s)}
      <4>1. r \in SUBSET S /\ Cardinality(r) <= n
        BY <3>2, <2>4, Subsets, PickIn
      <4>2. g[r] = Partial(g, f, r)
        BY <4>1, <2>1
      <4> QED
        BY <4>1, <4>2, <3>2 DEF Partial
    <3> QED
      BY <3>1, <3>2
  <2>5. Upto(h, n + 1)
    BY <2>4
  <2> HIDE DEF h, Upto
  <2> QED
    BY <2>3, <2>5
<1>3. Cardinality(S) \in Nat
  BY FS_CardinalityType
<1> HIDE DEF N
<1>4. Cardinality(S) \in N
  BY <1>1, <1>2, <1>3, SetInduction
<1>5. PICK g \in [SUBSET S -> Nat] : Upto(g, Cardinality(S))
  BY <1>4 DEF N
<1>6. \A s \in SUBSET S : g[s] = Partial(g, f, s)
  BY <1>5, Subsets
<1> QED
  BY <1>5, <1>6 DEF IsSums

(* Two solutions, for functions that agree on T, agree on what is in T.    *)
LEMMA SumsAgree ==
  ASSUME NEW S, IsFiniteSet(S), NEW T \in SUBSET S, NEW f, NEW e, NEW g, NEW h,
         IsSums(g, f, S), IsSums(h, e, T), \A x \in T : f[x] = e[x]
  PROVE  \A s \in SUBSET T : g[s] = h[s]
<1> DEFINE X == {s \in SUBSET T : g[s] = h[s]}
<1>1. ASSUME NEW s \in SUBSET T
      PROVE  g[s] = Partial(g, f, s) /\ h[s] = Partial(h, e, s)
  BY <1>1 DEF IsSums
<1>2. {} \in X
  BY <1>1 DEF Partial
<1>3. ASSUME NEW s \in SUBSET T, s # {}, \A y \in s : s \ {y} \in X
      PROVE  s \in X
  BY <1>1, <1>3, PickIn DEF Partial
<1>4. IsFiniteSet(T)
  BY FS_Subset
<1> HIDE DEF X
<1>5. \A s \in SUBSET T : s \in X
  BY <1>2, <1>3, <1>4, SubsetInduction
<1> QED
  BY <1>5 DEF X

(* The sums over the subsets of a set are values of one solution.          *)
LEMMA SumIs ==
  ASSUME NEW S, IsFiniteSet(S), NEW f, NatOn(f, S)
  PROVE  /\ IsSums(PartialSums(f, S), f, S)
         /\ \A T \in SUBSET S :
              /\ SumOver(f, T) = PartialSums(f, S)[T]
              /\ PartialSums(f, S)[T] \in Nat
              /\ PartialSums(f, S)[T] = Partial(PartialSums(f, S), f, T)
<1>1. PICK g \in [SUBSET S -> Nat] : IsSums(g, f, S)
  BY SumsExist
<1> DEFINE k == PartialSums(f, S)
<1>2. IsSums(k, f, S)
  BY <1>1 DEF PartialSums
<1> HIDE DEF k
<1>3. \A T \in SUBSET S : g[T] = k[T]
  BY <1>1, <1>2, SumsAgree
<1>4. ASSUME NEW T \in SUBSET S
      PROVE  /\ SumOver(f, T) = k[T]
             /\ k[T] \in Nat
             /\ k[T] = Partial(k, f, T)
  <2>1. IsFiniteSet(T) /\ NatOn(f, T)
    BY FS_Subset DEF NatOn
  <2>2. \E h : IsSums(h, f, T)
    BY <2>1, SumsExist
  <2> DEFINE h == PartialSums(f, T)
  <2>3. IsSums(h, f, T) /\ SumOver(f, T) = h[T]
    BY <2>2, SumOverPartial DEF PartialSums
  <2> HIDE DEF h
  <2>4. k[T] = h[T]
    BY <2>3, <1>2, SumsAgree
  <2>5. k[T] = Partial(k, f, T)
    BY <1>2 DEF IsSums
  <2> QED
    BY <2>3, <2>4, <2>5, <1>3
<1> QED
  BY <1>2, <1>4 DEF k

-----------------------------------------------------------------------------
(* What is used of sums elsewhere.                                         *)

(* The sum over no elements is 0.                                          *)
LEMMA SumEmpty ==
  ASSUME NEW f
  PROVE  SumOver(f, {}) = 0
<1>1. IsFiniteSet({}) /\ NatOn(f, {})
  BY FS_EmptySet DEF NatOn
<1>2. SumOver(f, {}) = Partial(PartialSums(f, {}), f, {})
  BY <1>1, SumIs
<1> QED
  BY <1>2 DEF Partial

(* A sum of naturals is a natural number.                                  *)
LEMMA SumNat ==
  ASSUME NEW S, IsFiniteSet(S), NEW f, NatOn(f, S)
  PROVE  SumOver(f, S) \in Nat
  BY SumIs

(* A sum depends on the values on the set only.                            *)
LEMMA SumEqual ==
  ASSUME NEW S, IsFiniteSet(S), NEW f, NEW e,
         NatOn(f, S), \A x \in S : f[x] = e[x]
  PROVE  SumOver(f, S) = SumOver(e, S)
<1>1. NatOn(e, S)
  BY DEF NatOn
<1>2. IsSums(PartialSums(f, S), f, S) /\ SumOver(f, S) = PartialSums(f, S)[S]
  BY SumIs
<1>3. IsSums(PartialSums(e, S), e, S) /\ SumOver(e, S) = PartialSums(e, S)[S]
  BY <1>1, SumIs
<1> QED
  BY <1>2, <1>3, SumsAgree

(* Any element may be taken out, in whatever order the sum is computed.    *)
LEMMA SumSplit ==
  ASSUME NEW S, IsFiniteSet(S), NEW f, NatOn(f, S), NEW y \in S
  PROVE  SumOver(f, S) = f[y] + SumOver(f, S \ {y})
<1> DEFINE g == PartialSums(f, S)
           X == {s \in SUBSET S : \A x \in s : g[s] = f[x] + g[s \ {x}]}
<1>1. ASSUME NEW s \in SUBSET S
      PROVE  SumOver(f, s) = g[s] /\ g[s] \in Nat /\ g[s] = Partial(g, f, s)
  BY SumIs
<1> HIDE DEF g
<1>2. {} \in X
  OBVIOUS
<1>3. ASSUME NEW s \in SUBSET S, s # {}, \A z \in s : s \ {z} \in X
      PROVE  s \in X
  <2>1. ASSUME NEW x \in s
        PROVE  g[s] = f[x] + g[s \ {x}]
    <3> DEFINE p == Pick(s)
    <3>1. p \in s /\ g[s] = f[p] + g[s \ {p}]
      BY <1>1, <1>3, PickIn DEF Partial
    <3> HIDE DEF p
    <3>2. CASE x = p
      BY <3>1, <3>2
    <3>3. CASE x # p
      <4>1. g[s \ {p}] = f[x] + g[(s \ {p}) \ {x}]
        BY <1>3, <3>1, <3>3
      <4>2. g[s \ {x}] = f[p] + g[(s \ {x}) \ {p}]
        BY <1>3, <3>1, <3>3
      <4>3. (s \ {p}) \ {x} = (s \ {x}) \ {p}
        OBVIOUS
      <4> DEFINE rest == g[(s \ {x}) \ {p}]
      <4>4. f[x] \in Nat /\ f[p] \in Nat /\ rest \in Nat
        BY <3>1, <1>1 DEF NatOn
      <4>5. g[s] = f[p] + (f[x] + rest) /\ g[s \ {x}] = f[p] + rest
        BY <3>1, <4>1, <4>2, <4>3
      <4> HIDE DEF rest
      <4> QED
        BY <4>4, <4>5
    <3> QED
      BY <3>2, <3>3
  <2> QED
    BY <2>1
<1> HIDE DEF X
<1>4. S \in X
  BY <1>2, <1>3, SubsetInduction
<1> QED
  BY <1>1, <1>4 DEF X

(* One value changes: so does the sum.                                     *)
LEMMA SumUpdate ==
  ASSUME NEW S, IsFiniteSet(S), NEW f, NEW e, NEW y \in S,
         NatOn(f, S), NatOn(e, S), \A x \in S \ {y} : f[x] = e[x]
  PROVE  SumOver(e, S) + f[y] = SumOver(f, S) + e[y]
<1>1. IsFiniteSet(S \ {y}) /\ NatOn(f, S \ {y}) /\ f[y] \in Nat /\ e[y] \in Nat
  BY FS_Subset DEF NatOn
<1>2. SumOver(f, S \ {y}) = SumOver(e, S \ {y}) /\ SumOver(f, S \ {y}) \in Nat
  BY <1>1, SumEqual, SumNat
<1>3. SumOver(f, S) = f[y] + SumOver(f, S \ {y})
  BY SumSplit
<1>4. SumOver(e, S) = e[y] + SumOver(e, S \ {y})
  BY SumSplit
<1> QED
  BY <1>1, <1>2, <1>3, <1>4

(* A sum over the first numbers grows by its last value.                   *)
LEMMA SumNext ==
  ASSUME NEW n \in Nat, NEW f, NatOn(f, 1 .. n + 1)
  PROVE  /\ IsFiniteSet(1 .. n) /\ IsFiniteSet(1 .. n + 1) /\ NatOn(f, 1 .. n)
         /\ SumOver(f, 1 .. n) \in Nat
         /\ SumOver(f, 1 .. n + 1) = SumOver(f, 1 .. n) + f[n + 1]
<1>1. n + 1 \in 1 .. n + 1 /\ (1 .. n + 1) \ {n + 1} = 1 .. n
  OBVIOUS
<1>2. IsFiniteSet(1 .. n) /\ IsFiniteSet(1 .. n + 1)
  BY FS_Interval
<1>3. NatOn(f, 1 .. n) /\ f[n + 1] \in Nat
  BY <1>1 DEF NatOn
<1>4. SumOver(f, 1 .. n) \in Nat
  BY <1>2, <1>3, SumNat
<1>5. SumOver(f, 1 .. n + 1) = f[n + 1] + SumOver(f, (1 .. n + 1) \ {n + 1})
  BY <1>1, <1>2, SumSplit
<1> DEFINE before == SumOver(f, 1 .. n)
<1>6. SumOver(f, 1 .. n + 1) = f[n + 1] + before
  BY <1>1, <1>5
<1>7. f[n + 1] + before = before + f[n + 1]
  BY <1>3, <1>4
<1> QED
  BY <1>2, <1>3, <1>4, <1>6, <1>7

(* A sum of sums is taken apart.                                           *)
LEMMA SumPlus ==
  ASSUME NEW S, IsFiniteSet(S), NEW f, NEW e, NEW h,
         NatOn(f, S), NatOn(e, S), \A x \in S : h[x] = f[x] + e[x]
  PROVE  SumOver(h, S) = SumOver(f, S) + SumOver(e, S)
<1> DEFINE X == {T \in SUBSET S : SumOver(h, T) = SumOver(f, T) + SumOver(e, T)}
<1>1. {} \in X
  BY SumEmpty
<1>2. ASSUME NEW T \in SUBSET S, T # {}, \A y \in T : T \ {y} \in X
      PROVE  T \in X
  <2>1. PICK y \in T : TRUE
    BY <1>2
  <2>2. IsFiniteSet(T) /\ IsFiniteSet(T \ {y})
    BY FS_Subset
  <2>3. /\ NatOn(f, T) /\ NatOn(e, T) /\ NatOn(h, T)
        /\ NatOn(f, T \ {y}) /\ NatOn(e, T \ {y})
    BY DEF NatOn
  <2>4. SumOver(h, T \ {y}) = SumOver(f, T \ {y}) + SumOver(e, T \ {y})
    BY <1>2
  <2>5. SumOver(f, T) = f[y] + SumOver(f, T \ {y}) /\ SumOver(f, T \ {y}) \in Nat
    BY <2>2, <2>3, SumSplit, SumNat
  <2>6. SumOver(e, T) = e[y] + SumOver(e, T \ {y}) /\ SumOver(e, T \ {y}) \in Nat
    BY <2>2, <2>3, SumSplit, SumNat
  <2>7. SumOver(h, T) = h[y] + SumOver(h, T \ {y})
    BY <2>2, <2>3, SumSplit
  <2>8. h[y] = f[y] + e[y] /\ f[y] \in Nat /\ e[y] \in Nat
    BY DEF NatOn
  <2> QED
    BY <2>4, <2>5, <2>6, <2>7, <2>8
<1> HIDE DEF X
<1>3. S \in X
  BY <1>1, <1>2, SubsetInduction
<1> QED
  BY <1>3 DEF X

(* Greater values have a greater sum.                                      *)
LEMMA SumAtMost ==
  ASSUME NEW S, IsFiniteSet(S), NEW f, NEW e,
         NatOn(f, S), NatOn(e, S), \A x \in S : f[x] <= e[x]
  PROVE  SumOver(f, S) <= SumOver(e, S)
<1> DEFINE d == [x \in S |-> e[x] - f[x]]
<1>1. \A x \in S : d[x] \in Nat /\ e[x] = f[x] + d[x]
  BY DEF NatOn
<1> HIDE DEF d
<1>2. NatOn(d, S)
  BY <1>1 DEF NatOn
<1>3. SumOver(e, S) = SumOver(f, S) + SumOver(d, S)
  BY <1>1, <1>2, SumPlus
<1>4. SumOver(f, S) \in Nat /\ SumOver(d, S) \in Nat
  BY <1>2, SumNat
<1> QED
  BY <1>3, <1>4

(* A sum of nothing but 0 is 0.                                            *)
LEMMA SumZero ==
  ASSUME NEW S, IsFiniteSet(S), NEW f, \A x \in S : f[x] = 0
  PROVE  SumOver(f, S) = 0
<1>1. NatOn(f, S)
  BY DEF NatOn
<1> DEFINE n == SumOver(f, S)
<1>2. n = n + n
  BY <1>1, SumPlus
<1>3. n \in Nat
  BY <1>1, SumNat
<1> HIDE DEF n
<1>4. n = 0
  BY <1>2, <1>3
<1> QED
  BY <1>4 DEF n
=============================================================================
