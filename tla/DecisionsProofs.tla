--------------------------- MODULE DecisionsProofs ---------------------------
(***************************************************************************)
(* What is proved of the numbers: the weights of portfolios, walk-forward  *)
(* backtests, hierarchical risk parity and rebalancing.  They are          *)
(* independent programs over the same kind of data, and so are the four    *)
(* invariants; what they share, sums over finite sets, comes first.        *)
(*                                                                         *)
(* Where a claim is about what is computed step by step over data, the     *)
(* induction is written out: the set of the numbers it holds for has 0,    *)
(* and n + 1 with every n, so that it holds all naturals.                  *)
(***************************************************************************)
EXTENDS PortfolioWeights, WalkForward, RiskParityTree, Rebalancing, FiniteSetsExt,
        FiniteSetTheorems, TLAPS

------------------------------------------------------------------------------
(***************************************************************************)
(* Sums.  The library folds a set one chosen element at a time; that the   *)
(* order does not matter, and what a sum is a sum of, follows by induction *)
(* over the size of subsets.                                               *)
(***************************************************************************)

(* Induction over the subsets of a finite set: a set of them that has each  *)
(* one whose proper subsets it has, has them all.                           *)
LEMMA SubsetInduction ==
  ASSUME NEW S, IsFiniteSet(S), NEW G \in SUBSET SUBSET S,
         \A T \in SUBSET S : (\A R \in SUBSET T : R # T => R \in G) => T \in G
  PROVE  G = SUBSET S
<1> DEFINE Out == (SUBSET S) \ G
<1>1. ASSUME Out # {} PROVE FALSE
  <2>1. Out \subseteq FiniteSubsetsOf(S)
    BY FS_FiniteSubsetsOfFinite
  <2>2. IsWellFoundedOn(StrictSubsetOrdering(S), FiniteSubsetsOf(S))
    BY FS_StrictSubsetOrderingWellFounded
  <2> HIDE DEF Out
  <2>3. PICK T \in Out : \A R \in Out : ~(<<R, T>> \in StrictSubsetOrdering(S))
    BY <1>1, <2>1, <2>2, WFMin
  <2>4. T \in SUBSET S /\ T \notin G
    BY <2>3 DEF Out
  <2>5. ASSUME NEW R \in SUBSET T, R # T PROVE R \in G
    <3>1. <<R, T>> \in StrictSubsetOrdering(S)
      BY <2>4, <2>5 DEF StrictSubsetOrdering
    <3> QED
      BY <2>3, <2>4, <3>1 DEF Out
  <2> QED
    BY <2>4, <2>5
<1> QED
  BY <1>1

\* A set of naturals that is not empty has a least one.
LEMMA LeastExists ==
  ASSUME NEW T \in SUBSET Nat, T # {}
  PROVE  \E m \in T : \A n \in T : m <= n
<1> DEFINE Upto(n) == 0 .. n
           Down == {Upto(n) : n \in T}
<1>1. Down \subseteq FiniteSubsetsOf(Nat) /\ Down # {}
  <2>1. ASSUME NEW n \in T PROVE Upto(n) \in SUBSET Nat /\ IsFiniteSet(Upto(n))
    BY <2>1, FS_Interval
  <2> QED
    BY <2>1 DEF FiniteSubsetsOf
<1>2. IsWellFoundedOn(StrictSubsetOrdering(Nat), FiniteSubsetsOf(Nat))
  BY FS_StrictSubsetOrderingWellFounded
<1> HIDE DEF Down
<1>3. \E x \in Down : \A y \in Down : ~ (<<y, x>> \in StrictSubsetOrdering(Nat))
  BY <1>1, <1>2, WFMin
<1>4. PICK m \in T : \A y \in Down : ~ (<<y, Upto(m)>> \in StrictSubsetOrdering(Nat))
  BY <1>3 DEF Down
<1>5. ASSUME NEW n \in T, n < m PROVE FALSE
  <2>1. Upto(n) \in SUBSET Nat /\ Upto(m) \in SUBSET Nat
    BY DEF Upto
  <2>2. Upto(n) \subseteq Upto(m) /\ m \in Upto(m) /\ m \notin Upto(n)
    BY <1>5 DEF Upto
  <2>3. Upto(n) \in Down
    BY DEF Down
  <2>4. <<Upto(n), Upto(m)>> \in StrictSubsetOrdering(Nat)
    BY <2>1, <2>2 DEF StrictSubsetOrdering
  <2> QED
    BY <1>4, <2>3, <2>4
<1>6. \A n \in T : m <= n
  BY <1>5
<1> QED
  BY <1>6

(* Induction over the naturals, likewise. *)
LEMMA NaturalsAll ==
  ASSUME NEW G \in SUBSET Nat, 0 \in G, \A n \in G : n + 1 \in G
  PROVE  G = Nat
<1> DEFINE Out == Nat \ G
<1>1. ASSUME Out # {} PROVE FALSE
  <2>1. PICK m \in Out : \A n \in Out : m <= n
    BY <1>1, LeastExists
  <2>2. m \in Nat /\ m # 0 /\ m - 1 \in Nat
    BY <2>1
  <2>3. m - 1 \in G
    BY <2>1, <2>2
  <2>4. (m - 1) + 1 = m
    BY <2>2
  <2> QED
    BY <2>1, <2>3, <2>4
<1> QED
  BY <1>1

Pick(s) == CHOOSE x \in s : TRUE
\* What the library's fold computes for every subset of a set: the sum of the rest and one
\* element.
IsSumIter(iter, f, S) ==
  iter = [s \in SUBSET S |-> IF s = {} THEN 0 ELSE f[Pick(s)] + iter[s \ {Pick(s)}]]
SumIter(f, S) == CHOOSE iter : IsSumIter(iter, f, S)

\* The library's choice of an element is one of the set.
LEMMA PickIn == \A s : s # {} => Pick(s) \in s
  BY DEF Pick

\* A sum of the library is the value of that function for the whole set.
LEMMA SumIsIter == ASSUME NEW f, NEW S PROVE SumFunctionOnSet(f, S) = SumIter(f, S)[S]
  BY DEF SumFunctionOnSet, FoldFunctionOnSet, MapThenFoldSet, SumIter, IsSumIter, Pick

\* There is such a function for a finite set, by induction over the size of its subsets.
LEMMA SumIterExists ==
  ASSUME NEW f, NEW S, IsFiniteSet(S)
  PROVE  \E iter : IsSumIter(iter, f, S)
<1> DEFINE Upto(n) == {s \in SUBSET S : Cardinality(s) <= n}
           Is(iter, n) == iter = [s \in Upto(n) |->
                             IF s = {} THEN 0 ELSE f[Pick(s)] + iter[s \ {Pick(s)}]]
           G == {n \in Nat : \E iter : Is(iter, n)}
<1>0. \A s \in SUBSET S : Cardinality(s) \in Nat /\ IsFiniteSet(s)
  BY FS_Subset, FS_CardinalityType
<1>1. 0 \in G
  <2>1. \A s \in Upto(0) : s = {}
    BY <1>0, FS_EmptySet
  <2>2. Is([s \in Upto(0) |-> 0], 0)
    BY <2>1
  <2> QED
    BY <2>2
<1>2. ASSUME NEW n \in G PROVE n + 1 \in G
  <2>1. PICK it : Is(it, n)
    BY <1>2
  <2> DEFINE next == [s \in Upto(n + 1) |-> IF s = {} THEN 0 ELSE f[Pick(s)] + it[s \ {Pick(s)}]]
  <2>2. ASSUME NEW s \in Upto(n + 1), s # {} PROVE s \ {Pick(s)} \in Upto(n)
    <3>1. Pick(s) \in s /\ s \in SUBSET S /\ Cardinality(s) <= n + 1
      BY <2>2, PickIn
    <3>2. Cardinality(s \ {Pick(s)}) = Cardinality(s) - 1
      BY <3>1, <1>0, FS_RemoveElement
    <3>3. s \ {Pick(s)} \in SUBSET S
      BY <3>1
    <3> QED
      BY <3>1, <3>2, <3>3, <1>0
  <2>3. ASSUME NEW s \in Upto(n) PROVE s \in Upto(n + 1) /\ next[s] = it[s]
    <3>1. s \in Upto(n + 1)
      BY <1>0
    <3>2. it[s] = IF s = {} THEN 0 ELSE f[Pick(s)] + it[s \ {Pick(s)}]
      BY <2>1
    <3> QED
      BY <3>1, <3>2
  <2>4. Is(next, n + 1)
    <3> HIDE DEF Upto
    <3> SUFFICES ASSUME NEW s \in Upto(n + 1)
                 PROVE  next[s] = IF s = {} THEN 0 ELSE f[Pick(s)] + next[s \ {Pick(s)}]
      OBVIOUS
    <3>1. CASE s = {}
      BY <3>1
    <3>2. CASE s # {}
      <4>1. next[s \ {Pick(s)}] = it[s \ {Pick(s)}]
        BY <3>2, <2>2, <2>3
      <4>2. next[s] = f[Pick(s)] + it[s \ {Pick(s)}]
        BY <3>2
      <4> QED
        BY <3>2, <4>1, <4>2
    <3> QED
      BY <3>1, <3>2
  <2>5. n + 1 \in Nat
    OBVIOUS
  <2> HIDE DEF next, Is
  <2>6. \E iter : Is(iter, n + 1)
    BY <2>4
  <2> QED
    BY <2>5, <2>6
<1>3. Cardinality(S) \in G
  <2> HIDE DEF G
  <2>1. G \subseteq Nat
    BY DEF G
  <2>2. G = Nat
    BY <1>1, <1>2, <2>1, NaturalsAll
  <2> QED
    BY <2>2, <1>0
<1>4. PICK it : Is(it, Cardinality(S))
  BY <1>3
<1>5. Upto(Cardinality(S)) = SUBSET S
  BY <1>0, FS_Subset
<1> QED
  BY <1>4, <1>5 DEF IsSumIter

\* It is the one the library chooses.
LEMMA SumIterStep ==
  ASSUME NEW f, NEW S, IsFiniteSet(S)
  PROVE  \A s \in SUBSET S :
           SumIter(f, S)[s] = IF s = {} THEN 0 ELSE f[Pick(s)] + SumIter(f, S)[s \ {Pick(s)}]
<1>1. IsSumIter(SumIter(f, S), f, S)
  BY SumIterExists DEF SumIter
<1> QED
  BY <1>1 DEF IsSumIter

\* It is the same for a part of the set, whichever set it was made for.
LEMMA SumIterAgrees ==
  ASSUME NEW f, NEW S, IsFiniteSet(S), NEW T \in SUBSET S
  PROVE  SumIter(f, S)[T] = SumIter(f, T)[T]
<1> DEFINE G == {s \in SUBSET T : SumIter(f, S)[s] = SumIter(f, T)[s]}
<1>0. IsFiniteSet(T)
  BY FS_Subset
<1>1. ASSUME NEW s \in SUBSET T, \A r \in SUBSET s : r # s => r \in G PROVE s \in G
  <2>1. CASE s = {}
    BY <2>1, <1>0, SumIterStep
  <2>2. CASE s # {}
    <3>1. Pick(s) \in s
      BY <2>2, PickIn
    <3>2. s \ {Pick(s)} \in G
      BY <1>1, <3>1
    <3>3. SumIter(f, S)[s] = f[Pick(s)] + SumIter(f, S)[s \ {Pick(s)}]
      BY <2>2, SumIterStep
    <3>4. SumIter(f, T)[s] = f[Pick(s)] + SumIter(f, T)[s \ {Pick(s)}]
      BY <2>2, <1>0, SumIterStep
    <3> QED
      BY <3>2, <3>3, <3>4
  <2> QED
    BY <2>1, <2>2
<1>2. G \in SUBSET SUBSET T
  OBVIOUS
<1> HIDE DEF G
<1>3. G = SUBSET T
  BY <1>0, <1>1, <1>2, SubsetInduction
<1> QED
  BY <1>3 DEF G

\* A sum adds what the chosen element has to the sum of the rest.
LEMMA SumPick ==
  ASSUME NEW f, NEW S, IsFiniteSet(S)
  PROVE  SumFunctionOnSet(f, S) =
           IF S = {} THEN 0 ELSE f[Pick(S)] + SumFunctionOnSet(f, S \ {Pick(S)})
<1>1. CASE S = {}
  BY <1>1, SumIsIter, SumIterStep
<1>2. CASE S # {}
  <2>1. S \ {Pick(S)} \in SUBSET S
    OBVIOUS
  <2>2. SumIter(f, S)[S \ {Pick(S)}] = SumIter(f, S \ {Pick(S)})[S \ {Pick(S)}]
    BY <2>1, SumIterAgrees
  <2>3. SumIter(f, S)[S] = f[Pick(S)] + SumIter(f, S)[S \ {Pick(S)}]
    <3>1. S \in SUBSET S
      OBVIOUS
    <3> QED
      BY <1>2, <3>1, SumIterStep
  <2>4. SumFunctionOnSet(f, S) = SumIter(f, S)[S]
    BY SumIsIter
  <2>5. SumFunctionOnSet(f, S \ {Pick(S)}) = SumIter(f, S \ {Pick(S)})[S \ {Pick(S)}]
    BY SumIsIter
  <2> QED
    BY <1>2, <2>2, <2>3, <2>4, <2>5
<1> QED
  BY <1>1, <1>2

\* A sum of integers is one.
LEMMA SumInt ==
  ASSUME NEW S, IsFiniteSet(S), NEW f, \A i \in S : f[i] \in Int
  PROVE  SumFunctionOnSet(f, S) \in Int
<1> DEFINE G == {T \in SUBSET S : SumFunctionOnSet(f, T) \in Int}
<1>0. \A T \in SUBSET S : IsFiniteSet(T)
  BY FS_Subset
<1>1. ASSUME NEW T \in SUBSET S, \A R \in SUBSET T : R # T => R \in G PROVE T \in G
  <2>0. IsFiniteSet(T)
    BY <1>0
  <2>1. CASE T = {}
    <3>1. SumFunctionOnSet(f, T) = 0
      BY <2>0, <2>1, SumPick
    <3> QED
      BY <3>1
  <2>2. CASE T # {}
    <3>1. Pick(T) \in T
      BY <2>2, PickIn
    <3>2. T \ {Pick(T)} \in G
      BY <1>1, <3>1
    <3> QED
      BY <2>0, <2>2, <3>1, <3>2, SumPick
  <2> QED
    BY <2>1, <2>2
<1>2. G \in SUBSET SUBSET S
  OBVIOUS
<1> HIDE DEF G
<1>3. G = SUBSET S
  BY <1>1, <1>2, SubsetInduction
<1> QED
  BY <1>3 DEF G

\* The order of a sum is of no account.
LEMMA SumStep ==
  ASSUME NEW S, IsFiniteSet(S), NEW f, \A i \in S : f[i] \in Int, NEW x \in S
  PROVE  SumFunctionOnSet(f, S) = f[x] + SumFunctionOnSet(f, S \ {x})
<1> DEFINE G == {T \in SUBSET S : \A t \in T :
                   SumFunctionOnSet(f, T) = f[t] + SumFunctionOnSet(f, T \ {t})}
<1>1. ASSUME NEW T \in SUBSET S, \A R \in SUBSET T : R # T => R \in G PROVE T \in G
  <2>0. \A R \in SUBSET S : IsFiniteSet(R) /\ SumFunctionOnSet(f, R) \in Int
    BY FS_Subset, SumInt
  <2> SUFFICES ASSUME NEW t \in T
               PROVE  SumFunctionOnSet(f, T) = f[t] + SumFunctionOnSet(f, T \ {t})
    OBVIOUS
  <2> DEFINE c == Pick(T)
             D(u) == SumFunctionOnSet(f, T \ {u})
             E == SumFunctionOnSet(f, T \ {c, t})
  <2>1. c \in T
    BY PickIn
  <2>2. SumFunctionOnSet(f, T) = f[c] + D(c)
    BY <2>0, SumPick
  <2>3. CASE c = t
    BY <2>2, <2>3
  <2>4. CASE c # t
    <3>1. T \ {c} \in G /\ T \ {t} \in G
      BY <1>1, <2>1
    <3>2. (T \ {c}) \ {t} = T \ {c, t} /\ (T \ {t}) \ {c} = T \ {c, t}
      OBVIOUS
    <3>3. t \in T \ {c} /\ c \in T \ {t}
      BY <2>1, <2>4
    <3>4. D(c) = f[t] + SumFunctionOnSet(f, (T \ {c}) \ {t})
      BY <3>1, <3>3
    <3>5. D(t) = f[c] + SumFunctionOnSet(f, (T \ {t}) \ {c})
      BY <3>1, <3>3
    <3>6. E \in Int /\ f[c] \in Int /\ f[t] \in Int
      BY <2>0, <2>1
    <3> HIDE DEF c, D, E
    <3>7. D(c) = f[t] + E /\ D(t) = f[c] + E
      BY <3>2, <3>4, <3>5 DEF D, E
    <3> QED
      BY <2>2, <3>6, <3>7 DEF D
  <2> QED
    BY <2>3, <2>4
<1>2. G \in SUBSET SUBSET S
  OBVIOUS
<1> HIDE DEF G
<1>3. G = SUBSET S
  BY <1>1, <1>2, SubsetInduction
<1> QED
  BY <1>3 DEF G

\* A sum of nothing is none.
LEMMA SumEmpty == ASSUME NEW f PROVE SumFunctionOnSet(f, {}) = 0
  BY SumPick, FS_EmptySet

\* Sums of the same amounts are the same.
LEMMA SumSame ==
  ASSUME NEW S, IsFiniteSet(S), NEW f, NEW g, \A i \in S : f[i] = g[i]
  PROVE  SumFunctionOnSet(f, S) = SumFunctionOnSet(g, S)
<1> DEFINE G == {T \in SUBSET S : SumFunctionOnSet(f, T) = SumFunctionOnSet(g, T)}
<1>0. \A T \in SUBSET S : IsFiniteSet(T)
  BY FS_Subset
<1>1. ASSUME NEW T \in SUBSET S, \A R \in SUBSET T : R # T => R \in G PROVE T \in G
  <2>1. CASE T = {}
    BY <2>1, SumEmpty
  <2>2. CASE T # {}
    <3>1. Pick(T) \in T
      BY <2>2, PickIn
    <3>2. T \ {Pick(T)} \in G
      BY <1>1, <3>1
    <3>3. SumFunctionOnSet(f, T) = f[Pick(T)] + SumFunctionOnSet(f, T \ {Pick(T)})
      BY <1>0, <2>2, SumPick
    <3>4. SumFunctionOnSet(g, T) = g[Pick(T)] + SumFunctionOnSet(g, T \ {Pick(T)})
      BY <1>0, <2>2, SumPick
    <3> QED
      BY <3>1, <3>2, <3>3, <3>4
  <2> QED
    BY <2>1, <2>2
<1>2. G \in SUBSET SUBSET S
  OBVIOUS
<1> HIDE DEF G
<1>3. G = SUBSET S
  BY <1>1, <1>2, SubsetInduction
<1> QED
  BY <1>3 DEF G

\* A sum of amounts that are not negative is none, and no less than each of them.
LEMMA SumNat ==
  ASSUME NEW S, IsFiniteSet(S), NEW f, \A i \in S : f[i] \in Nat
  PROVE  SumFunctionOnSet(f, S) \in Nat /\ \A i \in S : f[i] <= SumFunctionOnSet(f, S)
<1> DEFINE G == {T \in SUBSET S : SumFunctionOnSet(f, T) \in Nat}
<1>0. \A T \in SUBSET S : IsFiniteSet(T)
  BY FS_Subset
<1>1. ASSUME NEW T \in SUBSET S, \A R \in SUBSET T : R # T => R \in G PROVE T \in G
  <2>1. CASE T = {}
    BY <2>1, SumEmpty
  <2>2. CASE T # {}
    <3>1. Pick(T) \in T
      BY <2>2, PickIn
    <3>2. T \ {Pick(T)} \in G
      BY <1>1, <3>1
    <3>3. SumFunctionOnSet(f, T) = f[Pick(T)] + SumFunctionOnSet(f, T \ {Pick(T)})
      BY <1>0, <2>2, SumPick
    <3> QED
      BY <3>1, <3>2, <3>3
  <2> QED
    BY <2>1, <2>2
<1>2. G \in SUBSET SUBSET S
  OBVIOUS
<1> HIDE DEF G
<1>3. G = SUBSET S
  BY <1>1, <1>2, SubsetInduction
<1>4. ASSUME NEW i \in S PROVE f[i] <= SumFunctionOnSet(f, S)
  <2>1. SumFunctionOnSet(f, S) = f[i] + SumFunctionOnSet(f, S \ {i})
    BY SumStep
  <2>2. SumFunctionOnSet(f, S \ {i}) \in Nat
    BY <1>3 DEF G
  <2> QED
    BY <2>1, <2>2
<1> QED
  BY <1>3, <1>4 DEF G

\* A sum over the values of an injective function is one over its arguments.
LEMMA SumRenamed ==
  ASSUME NEW S, IsFiniteSet(S), NEW h, \A i, k \in S : h[i] = h[k] => i = k,
         NEW f, NEW g, \A i \in S : g[h[i]] = f[i] /\ f[i] \in Int
  PROVE  SumFunctionOnSet(g, {h[i] : i \in S}) = SumFunctionOnSet(f, S)
<1> DEFINE Image(T) == {h[i] : i \in T}
           G == {T \in SUBSET S : SumFunctionOnSet(g, Image(T)) = SumFunctionOnSet(f, T)}
<1>0. \A T \in SUBSET S : IsFiniteSet(T) /\ IsFiniteSet(Image(T))
  <2> SUFFICES ASSUME NEW T \in SUBSET S PROVE IsFiniteSet(T) /\ IsFiniteSet(Image(T))
    OBVIOUS
  <2>1. IsFiniteSet(T)
    BY FS_Subset
  <2>2. [i \in T |-> h[i]] \in Surjection(T, Image(T))
    BY DEF Surjection
  <2> HIDE DEF Image
  <2> QED
    BY <2>1, <2>2, FS_Surjection DEF ExistsSurjection
<1>1. ASSUME NEW T \in SUBSET S, \A R \in SUBSET T : R # T => R \in G PROVE T \in G
  <2>1. CASE T = {}
    <3>1. Image(T) = {}
      BY <2>1
    <3>2. SumFunctionOnSet(g, {}) = 0 /\ SumFunctionOnSet(f, {}) = 0
      BY SumEmpty
    <3> QED
      BY <2>1, <3>1, <3>2
  <2>2. CASE T # {}
    <3>1. PICK i \in T : TRUE
      BY <2>2
    <3>2. T \ {i} \in G
      BY <1>1, <3>1
    <3>3. SumFunctionOnSet(f, T) = f[i] + SumFunctionOnSet(f, T \ {i})
      BY <1>0, SumStep
    <3>4. h[i] \in Image(T) /\ \A v \in Image(T) : g[v] \in Int
      OBVIOUS
    <3>5. Image(T) \ {h[i]} = Image(T \ {i})
      OBVIOUS
    <3> HIDE DEF Image
    <3>6. SumFunctionOnSet(g, Image(T)) = g[h[i]] + SumFunctionOnSet(g, Image(T) \ {h[i]})
      BY <1>0, <3>4, SumStep
    <3> QED
      BY <3>2, <3>3, <3>5, <3>6
  <2> QED
    BY <2>1, <2>2
<1>2. G \in SUBSET SUBSET S
  OBVIOUS
<1> HIDE DEF G
<1>3. G = SUBSET S
  BY <1>1, <1>2, SubsetInduction
<1> QED
  BY <1>3 DEF G

\* A finite set of naturals has a greatest one.
LEMMA GreatestExists ==
  ASSUME NEW T \in SUBSET Nat, IsFiniteSet(T), T # {}
  PROVE  \E m \in T : \A n \in T : n <= m
<1> DEFINE G == {R \in SUBSET T : R # {} => \E m \in R : \A n \in R : n <= m}
<1>1. ASSUME NEW R \in SUBSET T, \A Q \in SUBSET R : Q # R => Q \in G PROVE R \in G
  <2> SUFFICES ASSUME R # {} PROVE \E m \in R : \A n \in R : n <= m
    OBVIOUS
  <2>1. PICK k \in R : TRUE
    OBVIOUS
  <2>2. CASE R \ {k} = {}
    BY <2>2
  <2>3. CASE R \ {k} # {}
    <3>1. R \ {k} \in G
      BY <1>1
    <3>2. PICK m \in R \ {k} : \A n \in R \ {k} : n <= m
      BY <2>3, <3>1
    <3>3. CASE k <= m
      BY <3>2, <3>3
    <3>4. CASE m <= k
      BY <3>2, <3>4
    <3> QED
      BY <3>3, <3>4
  <2> QED
    BY <2>2, <2>3
<1>2. G \in SUBSET SUBSET T
  OBVIOUS
<1> HIDE DEF G
<1>3. G = SUBSET T
  BY <1>1, <1>2, SubsetInduction
<1> QED
  BY <1>3 DEF G

\* There are finitely many functions from a finite set to another.
LEMMA FunctionsAreFinite ==
  ASSUME NEW A, IsFiniteSet(A), NEW B, IsFiniteSet(B)
  PROVE  IsFiniteSet([A -> B])
<1> DEFINE Graphs == SUBSET (A \X B)
           Of == [s \in Graphs |-> [a \in A |-> CHOOSE b \in B : <<a, b>> \in s]]
           All == {Of[s] : s \in Graphs}
<1>1. IsFiniteSet(Graphs)
  BY FS_Product, FS_SUBSET
<1>2. Of \in Surjection(Graphs, All)
  <2> HIDE DEF Graphs
  <2> QED
    BY DEF Surjection
<1>3. IsFiniteSet(All)
  <2> HIDE DEF Graphs, All, Of
  <2> QED
    BY <1>1, <1>2, FS_Surjection DEF ExistsSurjection
<1>4. [A -> B] \subseteq All
  <2> SUFFICES ASSUME NEW f \in [A -> B] PROVE f \in All
    OBVIOUS
  <2> DEFINE s == {p \in A \X B : f[p[1]] = p[2]}
  <2>1. s \in Graphs
    OBVIOUS
  <2>2. ASSUME NEW a \in A PROVE (CHOOSE b \in B : <<a, b>> \in s) = f[a]
    <3>1. \A b \in B : <<a, b>> \in s <=> b = f[a]
      OBVIOUS
    <3> HIDE DEF s
    <3> QED
      BY <3>1
  <2>3. Of[s] = [a \in A |-> CHOOSE b \in B : <<a, b>> \in s]
    BY <2>1
  <2> HIDE DEF s, Of
  <2>4. Of[s] = f
    BY <2>2, <2>3
  <2> QED
    BY <2>1, <2>4
<1> HIDE DEF All
<1> QED
  BY <1>3, <1>4, FS_Subset

\* Sums of functions that are added, or compared, point by point.
LEMMA SumAdded ==
  ASSUME NEW S, IsFiniteSet(S), NEW f, NEW g, NEW h,
         \A i \in S : f[i] \in Int /\ g[i] \in Int /\ h[i] = f[i] + g[i]
  PROVE  SumFunctionOnSet(h, S) = SumFunctionOnSet(f, S) + SumFunctionOnSet(g, S)
<1> DEFINE Plus(T) == SumFunctionOnSet(h, T) = SumFunctionOnSet(f, T) + SumFunctionOnSet(g, T)
           G == {T \in SUBSET S : Plus(T)}
<1>0. \A T \in SUBSET S : IsFiniteSet(T) /\ SumFunctionOnSet(f, T) \in Int
                          /\ SumFunctionOnSet(g, T) \in Int
  BY FS_Subset, SumInt
<1>1. ASSUME NEW T \in SUBSET S, \A R \in SUBSET T : R # T => R \in G PROVE T \in G
  <2>1. CASE T = {}
    BY <2>1, SumEmpty
  <2>2. CASE T # {}
    <3>1. Pick(T) \in T
      BY <2>2, PickIn
    <3> DEFINE R == T \ {Pick(T)}
    <3>2. R \in G /\ R \in SUBSET S
      BY <1>1, <3>1
    <3>3. /\ SumFunctionOnSet(f, T) = f[Pick(T)] + SumFunctionOnSet(f, R)
          /\ SumFunctionOnSet(g, T) = g[Pick(T)] + SumFunctionOnSet(g, R)
          /\ SumFunctionOnSet(h, T) = h[Pick(T)] + SumFunctionOnSet(h, R)
      BY <1>0, <2>2, SumPick
    <3> HIDE DEF R
    <3> QED
      BY <1>0, <3>1, <3>2, <3>3
  <2> QED
    BY <2>1, <2>2
<1>2. G \in SUBSET SUBSET S
  OBVIOUS
<1> HIDE DEF G
<1>3. G = SUBSET S
  BY <1>1, <1>2, SubsetInduction
<1> QED
  BY <1>3 DEF G

\* A sum of amounts that are at least others is at least their sum.
LEMMA SumMonotone ==
  ASSUME NEW S, IsFiniteSet(S), NEW f, NEW g,
         \A i \in S : f[i] \in Int /\ g[i] \in Int /\ f[i] <= g[i]
  PROVE  SumFunctionOnSet(f, S) <= SumFunctionOnSet(g, S)
<1> DEFINE d == [i \in S |-> g[i] - f[i]]
<1>1. \A i \in S : d[i] \in Nat /\ d[i] \in Int /\ g[i] = f[i] + d[i]
  OBVIOUS
<1> HIDE DEF d
<1>2. SumFunctionOnSet(d, S) \in Nat /\ SumFunctionOnSet(f, S) \in Int
  BY <1>1, SumNat, SumInt
<1>3. SumFunctionOnSet(g, S) = SumFunctionOnSet(f, S) + SumFunctionOnSet(d, S)
  BY <1>1, SumAdded
<1> QED
  BY <1>2, <1>3

\* A sum of nothings is none.
LEMMA SumZero ==
  ASSUME NEW S, IsFiniteSet(S), NEW f, \A i \in S : f[i] = 0
  PROVE  SumFunctionOnSet(f, S) = 0
<1> DEFINE x == SumFunctionOnSet(f, S)
<1>0. \A i \in S : f[i] \in Int /\ f[i] = f[i] + f[i]
  OBVIOUS
<1>1. x = x + x
  BY <1>0, SumAdded
<1>2. x \in Int
  BY <1>0, SumInt
<1> HIDE DEF x
<1>3. x = 0
  BY <1>1, <1>2
<1> QED
  BY <1>3 DEF x

\* The product of two positive numbers is one.
LEMMA ProductIsPositive ==
  ASSUME NEW c \in Nat, c > 0, NEW d \in Nat, d > 0
  PROVE  c * d \in Nat /\ c * d > 0
  OBVIOUS

\* The product of two natural numbers is one.
LEMMA ProductIsNat ==
  ASSUME NEW c \in Nat, NEW d \in Nat
  PROVE  c * d \in Nat
  OBVIOUS

\* A sequence with one element more.
LEMMA AppendedIs ==
  ASSUME NEW T, NEW s \in Seq(T), NEW e \in T
  PROVE  /\ Append(s, e) \in Seq(T) /\ Len(Append(s, e)) = Len(s) + 1
         /\ Append(s, e)[Len(s) + 1] = e /\ Append(s, e) # <<>>
         /\ \A i \in 1 .. Len(s) : Append(s, e)[i] = s[i]
<1>1. /\ Append(s, e) \in Seq(T) /\ Len(Append(s, e)) = Len(s) + 1 /\ Len(s) \in Nat
      /\ Append(s, e)[Len(s) + 1] = e
  OBVIOUS
<1>2. Append(s, e) # <<>>
  BY <1>1
<1>3. \A i \in 1 .. Len(s) : Append(s, e)[i] = s[i]
  OBVIOUS
<1> QED
  BY <1>1, <1>2, <1>3

------------------------------------------------------------------------------
(***************************************************************************)
(* Weights and reports.  A grid has a best weighting because scores are in *)
(* a strict weak order whose ties are broken by a total one.  The          *)
(* invariant says which request the weights were delivered for and what    *)
(* its solver came to; a report made later asks the same solver again, and *)
(* therefore comes to the same weights.                                    *)
(***************************************************************************)

(* The best candidate *)

\* B is a strict weak order of F, and L a total one.
Ranks(F, B, L) ==
  /\ \A u, v \in F : <<u, v>> \in B => <<v, u>> \notin B
  /\ \A u, v, w \in F : <<u, w>> \in B => <<u, v>> \in B \/ <<v, w>> \in B
  /\ \A u, v \in F : u # v => <<u, v>> \in L \/ <<v, u>> \in L
  /\ \A u, v, w \in F : <<u, v>> \in L /\ <<v, w>> \in L => <<u, w>> \in L

\* Among finitely many there is a best one, ties broken by a total order.
LEMMA BestExists ==
  ASSUME NEW F, IsFiniteSet(F), F # {}, NEW B, NEW L, Ranks(F, B, L)
  PROVE  \E v \in F : \A w \in F :
           v = w \/ <<v, w>> \in B \/ (<<w, v>> \notin B /\ <<v, w>> \in L)
<1> DEFINE Le(v, w) == v = w \/ <<v, w>> \in B \/ (<<w, v>> \notin B /\ <<v, w>> \in L)
           G == {R \in SUBSET F : R # {} => \E v \in R : \A w \in R : Le(v, w)}
<1>0. ASSUME NEW u \in F, NEW v \in F, NEW w \in F, Le(u, v), Le(v, w) PROVE Le(u, w)
  BY <1>0 DEF Ranks
<1>1. \A u, v \in F : Le(u, v) \/ Le(v, u)
  BY DEF Ranks
<1> HIDE DEF Le
<1>2. ASSUME NEW R \in SUBSET F, \A Q \in SUBSET R : Q # R => Q \in G PROVE R \in G
  <2> SUFFICES ASSUME R # {} PROVE \E v \in R : \A w \in R : Le(v, w)
    OBVIOUS
  <2>1. PICK k \in R : TRUE
    OBVIOUS
  <2>0. Le(k, k)
    BY <1>1
  <2>2. CASE R \ {k} = {}
    BY <2>0, <2>2
  <2>3. CASE R \ {k} # {}
    <3>1. R \ {k} \in G
      BY <1>2
    <3>2. PICK m \in R \ {k} : \A n \in R \ {k} : Le(m, n)
      BY <2>3, <3>1
    <3>3. CASE Le(m, k)
      BY <3>2, <3>3
    <3>4. CASE Le(k, m)
      <4>1. \A n \in R \ {k} : Le(k, n)
        BY <1>0, <3>2, <3>4
      <4> QED
        BY <2>0, <4>1
    <3> QED
      BY <1>1, <3>3, <3>4
  <2> QED
    BY <2>2, <2>3
<1>3. G \in SUBSET SUBSET F
  OBVIOUS
<1> HIDE DEF G
<1>4. G = SUBSET F
  BY <1>2, <1>3, SubsetInduction
<1> QED
  BY <1>4 DEF G, Le

\* First is a total order of the weights of listings.
LEMMA FirstIsTotal ==
  ASSUME NEW S \in SUBSET Nat, NEW v \in [S -> Int], NEW w \in [S -> Int], v # w
  PROVE  First(v, w) \/ First(w, v)
<1> DEFINE Unlike == {l \in S : v[l] # w[l]}
<1>0. \E l \in S : v[l] # w[l]
  <2> SUFFICES ASSUME \A l \in S : v[l] = w[l] PROVE FALSE
    OBVIOUS
  <2>1. v = [l \in S |-> v[l]] /\ w = [l \in S |-> w[l]]
    OBVIOUS
  <2>2. [l \in S |-> v[l]] = [l \in S |-> w[l]]
    OBVIOUS
  <2> QED
    BY <2>1, <2>2
<1>1. Unlike \in SUBSET Nat /\ Unlike # {}
  BY <1>0
<1>2. PICK l \in Unlike : \A k \in Unlike : l <= k
  BY <1>1, LeastExists
<1>3. \A k \in S : k < l => v[k] = w[k]
  BY <1>2
<1>4. v[l] < w[l] \/ w[l] < v[l]
  BY <1>2
<1> QED
  BY <1>2, <1>3, <1>4 DEF First

\* The order of weights that breaks ties is transitive.
LEMMA FirstIsTransitive ==
  ASSUME NEW S \in SUBSET Nat, NEW u \in [S -> Int], NEW v \in [S -> Int], NEW w \in [S -> Int],
         First(u, v), First(v, w)
  PROVE  First(u, w)
<1>1. PICK k \in S : u[k] < v[k] /\ \A i \in S : i < k => u[i] = v[i]
  BY DEF First
<1>2. PICK l \in S : v[l] < w[l] /\ \A i \in S : i < l => v[i] = w[i]
  BY DEF First
<1>3. CASE k < l
  <2>1. u[k] < w[k] /\ \A i \in S : i < k => u[i] = w[i]
    BY <1>1, <1>2, <1>3
  <2> QED
    BY <2>1 DEF First
<1>4. CASE l < k
  <2>1. u[l] < w[l] /\ \A i \in S : i < l => u[i] = w[i]
    BY <1>1, <1>2, <1>4
  <2> QED
    BY <2>1 DEF First
<1>5. CASE k = l
  <2>1. u[l] < w[l] /\ \A i \in S : i < l => u[i] = w[i]
    BY <1>1, <1>2, <1>5
  <2> QED
    BY <2>1 DEF First
<1> QED
  BY <1>3, <1>4, <1>5

\* A score of one of the ratio objectives.
Fractions == Int \X (Nat \ {0})

\* Fractions with positive denominators are in a strict weak order.
LEMMA LessIsWeak ==
  /\ \A f, g \in Fractions : Less(f, g) => ~Less(g, f)
  /\ \A f, g, h \in Fractions : Less(f, h) => Less(f, g) \/ Less(g, h)
<1>1. ASSUME NEW f \in Fractions, NEW g \in Fractions, Less(f, g), Less(g, f) PROVE FALSE
  BY <1>1 DEF Fractions, Less
<1>2. ASSUME NEW f \in Fractions, NEW g \in Fractions, NEW h \in Fractions,
             Less(f, h), ~Less(f, g), ~Less(g, h)
      PROVE  FALSE
  <2> DEFINE a == f[1]  b == f[2]  c == g[1]  d == g[2]  e == h[1]  k == h[2]
  <2>1. a \in Int /\ c \in Int /\ e \in Int /\ b \in Nat /\ d \in Nat /\ k \in Nat
        /\ b > 0 /\ d > 0 /\ k > 0
    BY DEF Fractions
  <2>2. a * k < e * b /\ a * d >= c * b /\ c * k >= e * d
    BY <1>2, <2>1 DEF Less
  <2> HIDE DEF a, b, c, d, e, k
  <2>3. (a * k) * d < (e * b) * d
    BY <2>1, <2>2
  <2>4. (a * d) * k >= (c * b) * k
    BY <2>1, <2>2
  <2>5. (c * k) * b >= (e * d) * b
    BY <2>1, <2>2
  <2>6. (a * k) * d = (a * d) * k /\ (c * b) * k = (c * k) * b /\ (e * d) * b = (e * b) * d
    BY <2>1
  <2> QED
    BY <2>1, <2>3, <2>4, <2>5, <2>6
<1> QED
  BY <1>1, <1>2

\* Weights that are integers have an integer for a sum.
LEMMA SumOfInts ==
  ASSUME NEW S, IsFiniteSet(S), NEW f \in [S -> Int]
  PROVE  Sum(f) \in Int
BY SumInt DEF Sum, SumFunction

\* A request is of finitely many listings, with returns and covariances that are integers.
LEMMA RequestsAreFinite ==
  ASSUME NEW q \in RequestType
  PROVE  /\ IsFiniteSet(q.listings) /\ q.listings # {} /\ q.listings \subseteq Listings
         /\ q.listings \in SUBSET Nat /\ \A l \in q.listings : IsinOf[l] \in IsinsOf(q)
         /\ \A l \in q.listings : q.returns[IsinOf[l]] \in Int
         /\ \A k, l \in q.listings : q.matrix[<<k, l>>] \in Int
<1>1. q.listings \in (SUBSET Listings) \ {{}} /\ q.returns \in [Range(IsinOf) -> Int]
      /\ q.matrix \in [Listings \X Listings -> Int]
  BY DEF RequestType
<1>2. IsFiniteSet(q.listings)
  BY <1>1, WeightsAssumption, FS_Subset
<1>3. \A l \in q.listings : IsinOf[l] \in Range(IsinOf)
  BY <1>1 DEF Range, Listings
<1> QED
  BY <1>1, <1>2, <1>3, WeightsAssumption DEF IsinsOf

\* The scores of weights are integers, or fractions of them.
LEMMA ScoresAreNumbers ==
  ASSUME NEW q \in RequestType, NEW w \in [q.listings -> Int]
  PROVE  /\ PortfolioReturn(q, w) \in Int /\ Variance(q, w) \in Int
         /\ Sharpe(q, w) \in Fractions /\ Diversification(q, w) \in Fractions
         /\ Residual(q, w) \in Fractions
<1> DEFINE S == q.listings
<1>0. IsFiniteSet(S) /\ S # {} /\ (\A l \in S : q.returns[IsinOf[l]] \in Int)
      /\ (\A k, l \in S : q.matrix[<<k, l>>] \in Int)
  BY RequestsAreFinite
<1>1. PortfolioReturn(q, w) \in Int
  <2>1. [l \in S |-> w[l] * q.returns[IsinOf[l]]] \in [S -> Int]
    BY <1>0
  <2> QED
    BY <1>0, <2>1, SumOfInts DEF PortfolioReturn
<1>2. ASSUME NEW l \in S PROVE Marginal(q, w, l) \in Int
  <2>1. [k \in S |-> w[k] * q.matrix[<<l, k>>]] \in [S -> Int]
    BY <1>0
  <2> QED
    BY <1>0, <2>1, SumOfInts DEF Marginal
<1>3. Variance(q, w) \in Int
  <2>1. [l \in S |-> w[l] * Marginal(q, w, l)] \in [S -> Int]
    BY <1>2
  <2> QED
    BY <1>0, <2>1, SumOfInts DEF Variance
<1>4. Sharpe(q, w) \in Fractions
  <2>1. Far(PortfolioReturn(q, w), 0) \in Int
    BY <1>1 DEF Far
  <2>2. PortfolioReturn(q, w) * Far(PortfolioReturn(q, w), 0) \in Int
    BY <1>1, <2>1
  <2>3. CASE Variance(q, w) <= 0
    BY <2>3 DEF Sharpe, Fractions
  <2>4. CASE ~(Variance(q, w) <= 0)
    <3>1. Variance(q, w) \in Nat \ {0}
      BY <1>3, <2>4
    <3> QED
      BY <2>2, <2>4, <3>1 DEF Sharpe, Fractions
  <2> QED
    BY <2>3, <2>4
<1>5. Diversification(q, w) \in Fractions
  <2> DEFINE v == Sum([l \in S |-> w[l] * q.matrix[<<l, l>>]])
  <2>1. [l \in S |-> w[l] * q.matrix[<<l, l>>]] \in [S -> Int]
    BY <1>0
  <2>2. v \in Int
    BY <1>0, <2>1, SumOfInts
  <2>3. Diversification(q, w) =
          IF Variance(q, w) <= 0 THEN <<0, 1>> ELSE <<v * v, Variance(q, w)>>
    BY DEF Diversification
  <2> HIDE DEF v
  <2>4. v * v \in Int
    BY <2>2
  <2>5. ~(Variance(q, w) <= 0) => Variance(q, w) \in Nat \ {0}
    BY <1>3
  <2> QED
    BY <2>3, <2>4, <2>5 DEF Fractions
<1>6. Residual(q, w) \in Fractions
  <2> DEFINE n == Cardinality(S)
             v == Variance(q, w)
             off(l) == n * w[l] * Marginal(q, w, l) - v
             total == Sum([l \in S |-> off(l) * off(l)])
  <2>1. n \in Int
    BY <1>0, FS_CardinalityType
  <2>2. ASSUME NEW l \in S PROVE off(l) * off(l) \in Int
    <3>1. off(l) \in Int
      BY <1>2, <1>3, <2>1
    <3> HIDE DEF off
    <3> QED
      BY <3>1
  <2>3. total \in Int
    <3> HIDE DEF off
    <3>1. [l \in S |-> off(l) * off(l)] \in [S -> Int]
      BY <2>2
    <3> QED
      BY <1>0, <3>1, SumOfInts
  <2>4. Residual(q, w) = IF v = 0 THEN <<n, 1>> ELSE <<total, v * v>>
    BY DEF Residual
  <2>5. v # 0 => v * v \in Nat \ {0}
    <3>1. v \in Int
      BY <1>3
    <3> HIDE DEF v
    <3>2. ASSUME v > 0 PROVE v * v > 0
      BY <3>1, <3>2
    <3>3. ASSUME v < 0 PROVE v * v > 0
      BY <3>1, <3>3
    <3> QED
      BY <3>1, <3>2, <3>3
  <2> HIDE DEF n, v, total
  <2> QED
    BY <2>1, <2>3, <2>4, <2>5 DEF Fractions
<1> QED
  BY <1>1, <1>3, <1>4, <1>5, <1>6

\* To be better is a strict weak order.
LEMMA BetterIsWeak ==
  ASSUME NEW q \in RequestType, q.objective \in GridObjectives,
         NEW u \in [q.listings -> Int], NEW v \in [q.listings -> Int],
         NEW w \in [q.listings -> Int]
  PROVE  /\ Better(q, u, v) => ~Better(q, v, u)
         /\ Better(q, u, w) => Better(q, u, v) \/ Better(q, v, w)
<1>0. \A x \in {u, v, w} :
        /\ PortfolioReturn(q, x) \in Int /\ Variance(q, x) \in Int
        /\ Sharpe(q, x) \in Fractions /\ Diversification(q, x) \in Fractions
        /\ Residual(q, x) \in Fractions
  BY ScoresAreNumbers
<1>1. CASE q.objective = "minimum_variance"
  <2>1. \A x, y : Better(q, x, y) <=> Variance(q, x) < Variance(q, y)
    BY <1>1 DEF Better
  <2> QED
    BY <1>0, <2>1
<1>2. CASE q.objective = "maximum_sharpe"
  <2>1. \A x, y : Better(q, x, y) <=> Less(Sharpe(q, y), Sharpe(q, x))
    BY <1>2 DEF Better
  <2> QED
    BY <1>0, <2>1, LessIsWeak
<1>3. CASE q.objective = "maximum_diversification"
  <2>1. \A x, y : Better(q, x, y) <=> Less(Diversification(q, y), Diversification(q, x))
    BY <1>3 DEF Better
  <2> QED
    BY <1>0, <2>1, LessIsWeak
<1>4. CASE q.objective = "target_return_minimum_variance"
  <2> DEFINE off(x) == Far(PortfolioReturn(q, x), q.target * Units)
  <2>1. \A x, y : Better(q, x, y) <=>
          \/ Variance(q, x) < Variance(q, y)
          \/ Variance(q, x) = Variance(q, y) /\ off(x) < off(y)
    BY <1>4 DEF Better
  <2>2. \A x \in {u, v, w} : off(x) \in Int
    <3>1. q.target * Units \in Int
      BY WeightsAssumption DEF RequestType
    <3> QED
      BY <1>0, <3>1 DEF Far
  <2> HIDE DEF off
  <2> QED
    BY <1>0, <2>1, <2>2
<1>5. CASE q.objective = "risk_parity"
  <2>1. \A x, y : Better(q, x, y) <=>
          \/ Less(Residual(q, x), Residual(q, y))
          \/ ~Less(Residual(q, y), Residual(q, x)) /\ Variance(q, x) < Variance(q, y)
    BY <1>5 DEF Better
  <2>2. \A x, y, z \in {u, v, w} :
          /\ Less(Residual(q, x), Residual(q, y)) => ~Less(Residual(q, y), Residual(q, x))
          /\ Less(Residual(q, x), Residual(q, z)) =>
               Less(Residual(q, x), Residual(q, y)) \/ Less(Residual(q, y), Residual(q, z))
    BY <1>0, LessIsWeak
  <2> QED
    BY <1>0, <2>1, <2>2
<1> QED
  BY <1>1, <1>2, <1>3, <1>4, <1>5 DEF GridObjectives

\* Equal weights are weights of the request's listings.
LEMMA EqualWeightsTyped ==
  ASSUME NEW q \in RequestType
  PROVE  EqualWeights(q) \in [q.listings -> Nat]
<1>1. Cardinality(q.listings) \in Nat /\ Cardinality(q.listings) # 0
  BY RequestsAreFinite, FS_CardinalityType, FS_EmptySet
<1>2. Units \div Cardinality(q.listings) \in Nat
  BY <1>1, WeightsAssumption
<1> QED
  BY <1>2 DEF EqualWeights

\* The grid holds finitely many weights of the request's listings.
LEMMA GridTyped ==
  ASSUME NEW q \in RequestType
  PROVE  Grid(q) \subseteq [q.listings -> Nat] /\ IsFiniteSet(Grid(q))
<1> DEFINE Steps == {k * (Units \div q.steps) : k \in 0 .. q.steps}
           Of == [k \in 0 .. q.steps |-> k * (Units \div q.steps)]
<1>1. q.steps \in Nat /\ q.steps # 0
  BY DEF RequestType
<1>2. Units \div q.steps \in Nat
  BY <1>1, WeightsAssumption
<1>3. Steps \subseteq Nat
  <2> DEFINE u == Units \div q.steps
  <2> HIDE DEF u
  <2>1. \A k \in 0 .. q.steps : k * u \in Nat
    BY <1>1, <1>2 DEF u
  <2> QED
    BY <2>1 DEF u
<1>4. IsFiniteSet(Steps)
  <2>1. IsFiniteSet(0 .. q.steps)
    BY <1>1, FS_Interval
  <2>2. Of \in Surjection(0 .. q.steps, Steps)
    BY DEF Surjection
  <2> HIDE DEF Of, Steps
  <2> QED
    BY <2>1, <2>2, FS_Surjection DEF ExistsSurjection
<1> HIDE DEF Steps
<1>5. IsFiniteSet([q.listings -> Steps])
  BY <1>4, RequestsAreFinite, FunctionsAreFinite
<1>6. Grid(q) \subseteq [q.listings -> Steps]
  BY DEF Grid, Steps
<1>7. [q.listings -> Steps] \subseteq [q.listings -> Nat]
  BY <1>3
<1> QED
  BY <1>5, <1>6, <1>7, FS_Subset

\* The feasible weights are finitely many, and pass the validation.
LEMMA FeasibleTyped ==
  ASSUME NEW q \in RequestType
  PROVE  /\ Feasible(q) \subseteq [q.listings -> Nat] /\ IsFiniteSet(Feasible(q))
         /\ \A w \in Feasible(q) : Accepted(q, w)
<1>1. CASE Exceeded(q)
  <2>1. Feasible(q) \subseteq {EqualWeights(q)} /\ IsFiniteSet({EqualWeights(q)})
    BY <1>1, FS_Singleton DEF Feasible, Candidates
  <2> QED
    BY <2>1, EqualWeightsTyped, FS_Subset DEF Feasible, Candidates
<1>2. CASE ~Exceeded(q)
  <2>1. Feasible(q) \subseteq Grid(q)
    BY <1>2 DEF Feasible, Candidates
  <2> QED
    BY <2>1, GridTyped, FS_Subset DEF Feasible, Candidates
<1> QED
  BY <1>1, <1>2

\* There are best weights, and the optimizer finds them.
LEMMA BestIsBest ==
  ASSUME NEW q \in RequestType, q.objective \in GridObjectives, Feasible(q) # {}
  PROVE  /\ Best(q) \in Feasible(q)
         /\ \A w \in Feasible(q) : ~Better(q, w, Best(q))
<1> DEFINE F == Feasible(q)
           B == {p \in F \X F : Better(q, p[1], p[2])}
           L == {p \in F \X F : First(p[1], p[2])}
<1>1. F \subseteq [q.listings -> Int] /\ IsFiniteSet(F) /\ q.listings \in SUBSET Nat
  BY FeasibleTyped, RequestsAreFinite
<1> HIDE DEF F
<1>2. \A u, v \in F : <<u, v>> \in B <=> Better(q, u, v)
  OBVIOUS
<1>3. \A u, v \in F : <<u, v>> \in L <=> First(u, v)
  OBVIOUS
<1> HIDE DEF B, L
<1>4. \A u, v \in F : <<u, v>> \in B => <<v, u>> \notin B
  BY <1>1, <1>2, BetterIsWeak
<1>5. \A u, v, w \in F : <<u, w>> \in B => <<u, v>> \in B \/ <<v, w>> \in B
  BY <1>1, <1>2, BetterIsWeak
<1>6. \A u, v \in F : u # v => <<u, v>> \in L \/ <<v, u>> \in L
  BY <1>1, <1>3, FirstIsTotal
<1>7. \A u, v, w \in F : <<u, v>> \in L /\ <<v, w>> \in L => <<u, w>> \in L
  BY <1>1, <1>3, FirstIsTransitive
<1>8. F # {}
  BY DEF F
<1>r. Ranks(F, B, L)
  BY <1>4, <1>5, <1>6, <1>7 DEF Ranks
<1>9. \E v \in F : \A w \in F :
        v = w \/ <<v, w>> \in B \/ (<<w, v>> \notin B /\ <<v, w>> \in L)
  BY <1>1, <1>8, <1>r, BestExists
<1>10. \E v \in F : \A w \in F :
         v = w \/ Better(q, v, w) \/ (~Better(q, w, v) /\ First(v, w))
  BY <1>2, <1>3, <1>9
<1>11. /\ Best(q) \in F
       /\ \A w \in F : Best(q) = w \/ Better(q, Best(q), w) \/ ~Better(q, w, Best(q))
  BY <1>10 DEF Best, F
<1>12. \A w \in F : ~Better(q, w, Best(q))
  BY <1>1, <1>11, BetterIsWeak
<1> QED
  BY <1>11, <1>12 DEF F

\* The weight of an ISIN is that of a listing of it, and of its only one when they are
\* distinct.
LEMMA ByIsinIs ==
  ASSUME NEW q \in RequestType, NEW w
  PROVE  /\ ByIsin(q, w) = [i \in IsinsOf(q) |-> ByIsin(q, w)[i]]
         /\ \A i \in IsinsOf(q) : \E l \in q.listings : IsinOf[l] = i /\ ByIsin(q, w)[i] = w[l]
         /\ Distinct(q) => \A l \in q.listings : ByIsin(q, w)[IsinOf[l]] = w[l]
<1> DEFINE Last(i) == CHOOSE l \in q.listings : IsinOf[l] = i /\
                        \A k \in q.listings : IsinOf[k] = i => k <= l
<1>1. ByIsin(q, w) = [i \in IsinsOf(q) |-> w[Last(i)]]
  BY DEF ByIsin
<1>2. ASSUME NEW i \in IsinsOf(q) PROVE Last(i) \in q.listings /\ IsinOf[Last(i)] = i
  <2> DEFINE T == {l \in q.listings : IsinOf[l] = i}
  <2>1. T \in SUBSET Nat /\ IsFiniteSet(T) /\ T # {}
    <3>1. T # {}
      BY DEF IsinsOf
    <3> QED
      BY <3>1, RequestsAreFinite, FS_Subset
  <2>2. \E l \in T : \A k \in T : k <= l
    BY <2>1, GreatestExists
  <2>3. \E l \in q.listings : IsinOf[l] = i /\ \A k \in q.listings : IsinOf[k] = i => k <= l
    BY <2>2
  <2> QED
    BY <2>3
<1> HIDE DEF Last
<1>3. ByIsin(q, w) = [i \in IsinsOf(q) |-> ByIsin(q, w)[i]]
  BY <1>1
<1>4. \A i \in IsinsOf(q) : ByIsin(q, w)[i] = w[Last(i)]
  BY <1>1
<1>5. ASSUME Distinct(q), NEW l \in q.listings PROVE ByIsin(q, w)[IsinOf[l]] = w[l]
  <2>1. IsinOf[l] \in IsinsOf(q)
    BY DEF IsinsOf
  <2>2. Last(IsinOf[l]) = l
    BY <1>2, <1>5, <2>1 DEF Distinct
  <2> QED
    BY <1>4, <2>1, <2>2
<1> QED
  BY <1>2, <1>3, <1>4, <1>5

\* What passes the validation is whole and within the bounds.
LEMMA AcceptedAreSound ==
  ASSUME NEW q \in RequestType, NEW d \in [IsinsOf(q) -> Int], Violations(q, d) = {}
  PROVE  /\ d \in [IsinsOf(q) -> 0 .. Units] /\ Sum(d) = Units
         /\ \A i \in IsinsOf(q) : d[i] \in q.min .. q.max
<1>1. Sum(d) = Units /\ \A i \in IsinsOf(q) : ~(d[i] < q.min \/ d[i] > q.max)
  BY DEF Violations
<1>2. q.min \in Nat /\ q.max \in Nat
  BY DEF RequestType
<1>3. \A i \in IsinsOf(q) : d[i] \in q.min .. q.max /\ d[i] \in Nat
  BY <1>1, <1>2
<1>4. IsFiniteSet(IsinsOf(q))
  <2>1. [l \in q.listings |-> IsinOf[l]] \in Surjection(q.listings, IsinsOf(q))
    BY DEF Surjection, IsinsOf
  <2> QED
    BY <2>1, RequestsAreFinite, FS_Surjection
<1>5. \A i \in IsinsOf(q) : d[i] <= Sum(d)
  BY <1>3, <1>4, SumNat DEF Sum, SumFunction
<1> QED
  BY <1>1, <1>3, <1>5, WeightsAssumption

\* A solver that is asked and answers has a weight for every listing.
Usable(q, s) == Solves(q) /\ s # Refused => s.weights \in [q.listings -> Int]

\* What the optimizer delivers are accepted weights of listings.
LEMMA OptimizedIs ==
  ASSUME NEW q \in RequestType, q.objective \in Objectives, NEW s, Usable(q, s),
         Optimized(q, s) # Refused
  PROVE  \E w \in [q.listings -> Int] :
           /\ Optimized(q, s) = ByIsin(q, w) /\ Accepted(q, w)
           /\ q.objective # "equal_weight" => CompleteCovariance(q)
           /\ Solves(q) => s # Refused /\ s.converged /\ w = s.weights
           /\ ~Solves(q) /\ q.objective # "equal_weight" =>
                /\ q.mode = "production" => ~Exceeded(q)
                /\ Feasible(q) # {} /\ w = Best(q)
<1>1. CASE q.objective = "equal_weight"
  <2>1. ~Solves(q)
    BY <1>1 DEF Solves, OwnSolver, SolverBacked
  <2>2. Optimized(q, s) =
          IF Accepted(q, EqualWeights(q)) THEN ByIsin(q, EqualWeights(q)) ELSE Refused
    BY <1>1 DEF Optimized
  <2>3. EqualWeights(q) \in [q.listings -> Int]
    BY EqualWeightsTyped
  <2> QED
    BY <1>1, <2>1, <2>2, <2>3
<1>2. CASE q.objective # "equal_weight"
  <2>1. CompleteCovariance(q)
    BY <1>2 DEF Optimized
  <2>2. CASE Solves(q)
    <3>1. Optimized(q, s) = IF s # Refused /\ s.converged /\ Accepted(q, s.weights)
                            THEN ByIsin(q, s.weights) ELSE Refused
      BY <1>2, <2>1, <2>2 DEF Optimized, SolverWeights
    <3>2. s # Refused /\ s.converged /\ Accepted(q, s.weights)
      BY <3>1
    <3>3. s.weights \in [q.listings -> Int]
      BY <2>2, <3>2 DEF Usable
    <3> QED
      BY <2>1, <2>2, <3>1, <3>2, <3>3
  <2>3. CASE ~Solves(q)
    <3>1. Optimized(q, s) =
            IF (q.mode = "production" /\ Exceeded(q)) \/ Feasible(q) = {} THEN Refused
            ELSE ByIsin(q, Best(q))
      BY <1>2, <2>1, <2>3 DEF Optimized
    <3>2. q.objective \in GridObjectives
      BY <1>2, <2>3 DEF Solves, Objectives
    <3>3. Best(q) \in Feasible(q)
      BY <3>1, <3>2, BestIsBest
    <3>4. Best(q) \in [q.listings -> Int] /\ Accepted(q, Best(q))
      BY <3>3, FeasibleTyped
    <3> QED
      BY <2>1, <2>3, <3>1, <3>4
  <2> QED
    BY <2>2, <2>3
<1> QED
  BY <1>1, <1>2

(* The invariant *)

\* What the solver of the objective asked for came to.
SolverOf == IF Solves(asked) THEN solver[asked.objective] ELSE Refused

\* The report on delivered weights of one objective.
DiagnosisOf(d) ==
  [of |-> d, violations |-> Violations(asked, d),
   fallback |-> FallbackUsed(asked, SolverOf, d), method |-> ActualMethod(asked, SolverOf, d),
   status |-> Status(asked, SolverOf, d), converged |-> ReportsConverged(asked, SolverOf, d),
   eligible |-> Eligible(asked, SolverOf, d)]

\* The rows of a profile.
RowsOf(d) ==
  [of |-> d, violations |-> Violations(asked, d),
   feasible |-> weights # Refused /\ Violations(asked, weights) = {}]

\* An optimizer was asked for one objective: its outcome is a possible one, its weights
\* delivered.
OptimizedInv ==
  /\ asked \in Requests
  /\ solver \in OutcomesOf(asked, IF Solves(asked) THEN {asked.objective} ELSE {})
  /\ weights = Optimized(asked, SolverOf)
  /\ report # Refused =>
       \E d \in [IsinsOf(asked) -> Int] : d # Refused /\ report = DiagnosisOf(d)

\* A profile was asked for: its parts' solvers have possible outcomes, its weights combine
\* theirs.
ProfileInv ==
  \E q \in Profiled :
    /\ asked = [q EXCEPT !.objective = "balanced"] /\ solver \in OutcomesOf(q, Ensemble)
    /\ weights \in Balanced(q, solver)
    /\ report # Refused => \E d \in [IsinsOf(asked) -> Int] : report = RowsOf(d)

\* The inductive invariant: what was asked, and what came of it.
WeightsInv ==
  IF asked = Refused THEN weights = Refused /\ report = Refused
  ELSE OptimizedInv \/ ProfileInv

\* A request for another objective is the same in all else.
LEMMA ChangedRequest ==
  ASSUME NEW q \in RequestType, NEW o \in Objectives \cup {"balanced"}
  PROVE  LET r == [q EXCEPT !.objective = o] IN
         /\ r \in RequestType /\ r.objective = o /\ r.listings = q.listings
         /\ r.min = q.min /\ r.max = q.max /\ r.unusable = q.unusable /\ r.mode = q.mode
<1> QED
  BY DEF RequestType

\* What a solver comes to is refused or within the bounds.
LEMMA OutcomesUsable ==
  ASSUME NEW q \in RequestType, NEW os, NEW s \in OutcomesOf(q, os), NEW o \in os
  PROVE  IF Bounded(q) = {} THEN s[o] = Refused
         ELSE s[o].weights \in Bounded(q) /\ s[o].converged \in BOOLEAN
<1>1. CASE Bounded(q) = {}
  BY <1>1 DEF OutcomesOf
<1>2. CASE Bounded(q) # {}
  <2>1. s[o] \in Outcomes(q, o)
    BY <1>2 DEF OutcomesOf
  <2> QED
    BY <1>2, <2>1 DEF Outcomes
<1> QED
  BY <1>1, <1>2

\* Weights within the bounds are weights of the request's listings, and sum to the whole.
LEMMA BoundedTyped ==
  ASSUME NEW q \in RequestType
  PROVE  Bounded(q) \subseteq [q.listings -> Int] /\ \A w \in Bounded(q) : Sum(w) = Units
<1>1. q.min \in Nat /\ q.max \in Nat
  BY DEF RequestType
<1>2. q.min .. q.max \subseteq Int
  BY <1>1
<1> QED
  BY <1>2 DEF Bounded

\* Requests have the type the lemmas ask for.
LEMMA RequestsTyped ==
  /\ \A q \in Requests : q \in RequestType /\ q # Refused /\ q.objective \in Objectives
  /\ \A q \in Profiled : q \in RequestType /\ q # Refused
<1>1. \A q \in RequestType : q.objective \in Objectives \cup {"balanced"}
  BY DEF RequestType
<1> QED
  BY <1>1, WeightsAssumption

\* The solver of a request that was served is a usable one.
LEMMA SolverUsable ==
  ASSUME OptimizedInv
  PROVE  Usable(asked, SolverOf)
<1> SUFFICES ASSUME Solves(asked), SolverOf # Refused
             PROVE  SolverOf.weights \in [asked.listings -> Int]
  BY DEF Usable
<1>1. asked \in RequestType /\ solver \in OutcomesOf(asked, {asked.objective})
  BY RequestsTyped DEF OptimizedInv
<1>2. SolverOf = solver[asked.objective]
  BY DEF SolverOf
<1>3. SolverOf.weights \in Bounded(asked)
  BY <1>1, <1>2, OutcomesUsable
<1> QED
  BY <1>1, <1>3, BoundedTyped

\* Weights by ISIN are integers.
LEMMA ByIsinTyped ==
  ASSUME NEW q \in RequestType, NEW w \in [q.listings -> Int]
  PROVE  ByIsin(q, w) \in [IsinsOf(q) -> Int]
BY ByIsinIs

\* What the balanced profile combines is put by ISIN, from weights within the bounds.
LEMMA CombinedIs ==
  ASSUME NEW q \in RequestType, NEW parts, NEW d \in Combined(q, parts), d # Refused
  PROVE  \E w \in Bounded(q) : d = ByIsin(q, w)
<1> DEFINE medians == [l \in q.listings |-> Median(q, parts, IsinOf[l])]
<1>1. CASE Sum(medians) = Units /\ medians \in Bounded(q)
  <2>1. Sum(medians) # 0
    BY <1>1, WeightsAssumption
  <2> HIDE DEF medians
  <2>2. Combined(q, parts) = {ByIsin(q, medians)}
    BY <1>1, <2>1 DEF Combined, medians
  <2> QED
    BY <1>1, <2>2
<1>2. CASE ~(Sum(medians) = Units /\ medians \in Bounded(q))
  <2>1. d \in {Refused} \/ d \in {ByIsin(q, w) : w \in Bounded(q)}
    <3> HIDE DEF medians
    <3>1. CASE Sum(medians) = 0
      BY <1>2, <3>1 DEF Combined, medians
    <3>2. CASE Sum(medians) # 0
      BY <1>2, <3>2 DEF Combined, medians
    <3> QED
      BY <3>1, <3>2
  <2> QED
    BY <2>1
<1> QED
  BY <1>1, <1>2

\* Every step preserves the invariant.
LEMMA WeightsInvStep ==
  ASSUME WeightsInv, [WeightsNext]_weighing
  PROVE  WeightsInv'
<1>1. CASE UNCHANGED weighing
  BY <1>1 DEF weighing, WeightsInv, OptimizedInv, ProfileInv, SolverOf, DiagnosisOf, RowsOf,
     FallbackUsed, ActualMethod, Status, ReportsConverged, Eligible, MatchesSolver, Violations
<1>2. ASSUME NEW q \in Requests, Optimize(q) PROVE WeightsInv'
  <2>1. asked' = q /\ asked' # Refused /\ report' = Refused
    BY <1>2, RequestsTyped DEF Optimize, WeightsInv
  <2>2. PICK s \in OutcomesOf(q, IF Solves(q) THEN {q.objective} ELSE {}) :
          solver' = s /\ weights' = Optimized(q, IF Solves(q) THEN s[q.objective] ELSE Refused)
    BY <1>2 DEF Optimize
  <2>3. SolverOf' = IF Solves(q) THEN s[q.objective] ELSE Refused
    BY <2>1, <2>2 DEF SolverOf
  <2>4. OptimizedInv'
    BY <2>1, <2>2, <2>3 DEF OptimizedInv
  <2> QED
    BY <2>1, <2>4 DEF WeightsInv
<1>3. ASSUME NEW q \in Profiled, EvaluateProfile(q) PROVE WeightsInv'
  <2>1. asked' = [q EXCEPT !.objective = "balanced"] /\ report' = Refused
    BY <1>3 DEF EvaluateProfile, WeightsInv
  <2>2. asked' # Refused
    BY <2>1, RequestsTyped, ChangedRequest, WeightsAssumption
  <2>3. PICK s \in OutcomesOf(q, Ensemble) : solver' = s /\ weights' \in Balanced(q, s)
    BY <1>3 DEF EvaluateProfile
  <2>4. ProfileInv'
    BY <2>1, <2>3 DEF ProfileInv
  <2> QED
    BY <2>2, <2>4 DEF WeightsInv
<1>4. ASSUME NEW d, Diagnose(d), d = weights \/ d \in [IsinsOf(asked) -> OtherShares]
      PROVE  WeightsInv'
  <2>1. OptimizedInv /\ d # Refused /\ asked # Refused /\ UNCHANGED <<asked, solver, weights>>
    <3>1. ASSUME ProfileInv PROVE FALSE
      <4>1. PICK q \in Profiled : asked = [q EXCEPT !.objective = "balanced"]
        BY <3>1 DEF ProfileInv
      <4>2. asked.objective = "balanced"
        BY <4>1, RequestsTyped, ChangedRequest
      <4> QED
        BY <1>4, <4>2 DEF Diagnose
    <3> QED
      BY <1>4, <3>1 DEF Diagnose, WeightsInv
  <2>2. report' = DiagnosisOf(d)
    BY <1>4 DEF Diagnose, DiagnosisOf, SolverOf
  <2>3. d \in [IsinsOf(asked) -> Int]
    <3>1. CASE d = weights
      BY <2>1, <3>1, RequestsTyped, SolverUsable, OptimizedIs, ByIsinTyped DEF OptimizedInv
    <3>2. CASE d \in [IsinsOf(asked) -> OtherShares]
      BY <3>2, WeightsAssumption
    <3> QED
      BY <1>4, <3>1, <3>2
  <2>4. SolverOf' = SolverOf /\ DiagnosisOf(d)' = DiagnosisOf(d)
    BY <2>1 DEF SolverOf, DiagnosisOf, FallbackUsed, ActualMethod, Status, ReportsConverged,
            Eligible, MatchesSolver, Violations
  <2>5. OptimizedInv'
    <3>1. asked' \in Requests /\ weights' = Optimized(asked', SolverOf')
          /\ solver' \in OutcomesOf(asked', IF Solves(asked') THEN {asked'.objective} ELSE {})
      BY <2>1, <2>4 DEF OptimizedInv
    <3>2. \E e \in [IsinsOf(asked') -> Int] : e # Refused /\ report' = DiagnosisOf(e)'
      BY <2>1, <2>2, <2>3, <2>4
    <3> QED
      BY <3>1, <3>2 DEF OptimizedInv
  <2> QED
    BY <2>1, <2>5 DEF WeightsInv
<1>5. ASSUME ProfileRows PROVE WeightsInv'
  <2>1. asked # Refused /\ asked.objective = "balanced" /\ UNCHANGED <<asked, solver, weights>>
    BY <1>5 DEF ProfileRows
  <2>2. ProfileInv
    BY <2>1, WeightsAssumption DEF WeightsInv, OptimizedInv
  <2>3. PICK q \in Profiled :
          /\ asked = [q EXCEPT !.objective = "balanced"] /\ solver \in OutcomesOf(q, Ensemble)
          /\ weights \in Balanced(q, solver)
    BY <2>2 DEF ProfileInv
  <2>4. asked \in RequestType /\ q \in RequestType /\ IsinsOf(q) = IsinsOf(asked)
    BY <2>3, RequestsTyped, ChangedRequest DEF IsinsOf
  <2> DEFINE rows == IF weights = Refused THEN ByIsin(asked, EqualWeights(asked)) ELSE weights
  <2>5. report' = RowsOf(rows)
    BY <1>5 DEF ProfileRows, RowsOf
  <2>6. rows \in [IsinsOf(asked) -> Int]
    <3>1. CASE weights = Refused
      <4>1. EqualWeights(asked) \in [asked.listings -> Int]
        BY <2>4, EqualWeightsTyped
      <4> QED
        BY <2>4, <3>1, <4>1, ByIsinTyped
    <3>2. CASE weights # Refused
      <4>1. \E w \in Bounded(q) : weights = ByIsin(q, w)
        BY <2>3, <2>4, <3>2, CombinedIs DEF Balanced
      <4> QED
        BY <2>4, <3>2, <4>1, BoundedTyped, ByIsinTyped
    <3> QED
      BY <3>1, <3>2
  <2>7. PICK d \in [IsinsOf(asked) -> Int] : report' = RowsOf(d) /\ RowsOf(d)' = RowsOf(d)
    <3>1. \A e : RowsOf(e)' = RowsOf(e)
      BY <2>1 DEF RowsOf, Violations
    <3> HIDE DEF rows
    <3> QED
      BY <2>5, <2>6, <3>1
  <2>8. ProfileInv'
    <3>1. \E e \in [IsinsOf(asked') -> Int] : report' = RowsOf(e)'
      BY <2>1, <2>7
    <3>2. /\ asked' = [q EXCEPT !.objective = "balanced"] /\ solver' \in OutcomesOf(q, Ensemble)
          /\ weights' \in Balanced(q, solver')
      BY <2>1, <2>3
    <3> QED
      BY <3>1, <3>2 DEF ProfileInv
  <2> QED
    BY <2>1, <2>8 DEF WeightsInv
<1> QED
  BY <1>1, <1>2, <1>3, <1>4, <1>5 DEF WeightsNext

\* What the invariant says of delivered weights of one objective.
LEMMA DeliveredIs ==
  ASSUME OptimizedInv, weights # Refused
  PROVE  \E w \in [asked.listings -> Int] :
           /\ weights = ByIsin(asked, w) /\ Accepted(asked, w)
           /\ asked.objective # "equal_weight" => CompleteCovariance(asked)
           /\ Solves(asked) => SolverOf # Refused /\ SolverOf.converged /\ w = SolverOf.weights
           /\ ~Solves(asked) /\ asked.objective # "equal_weight" =>
                /\ (asked.mode = "production" => ~Exceeded(asked))
                /\ Feasible(asked) # {} /\ w = Best(asked)
<1>1. asked \in RequestType /\ asked.objective \in Objectives
      /\ weights = Optimized(asked, SolverOf)
  BY RequestsTyped DEF OptimizedInv
<1> HIDE DEF SolverOf
<1> QED
  BY <1>1, SolverUsable, OptimizedIs

\* What the invariant says of a profile: it is a balanced request for listings of the one
\* asked for.
LEMMA ProfileIs ==
  ASSUME ProfileInv
  PROVE  \E q \in Profiled :
           /\ q \in RequestType /\ asked \in RequestType
           /\ asked = [q EXCEPT !.objective = "balanced"] /\ asked.objective = "balanced"
           /\ asked.listings = q.listings /\ IsinsOf(asked) = IsinsOf(q)
           /\ asked.min = q.min /\ asked.max = q.max /\ asked.unusable = q.unusable
           /\ solver \in OutcomesOf(q, Ensemble) /\ weights \in Balanced(q, solver)
           /\ report # Refused => \E d \in [IsinsOf(asked) -> Int] : report = RowsOf(d)
<1>1. PICK q \in Profiled :
        /\ asked = [q EXCEPT !.objective = "balanced"] /\ solver \in OutcomesOf(q, Ensemble)
        /\ weights \in Balanced(q, solver)
        /\ report # Refused => \E d \in [IsinsOf(asked) -> Int] : report = RowsOf(d)
  BY DEF ProfileInv
<1>2. /\ q \in RequestType /\ asked \in RequestType /\ asked.objective = "balanced"
      /\ asked.listings = q.listings /\ asked.min = q.min /\ asked.max = q.max
      /\ asked.unusable = q.unusable
  BY <1>1, RequestsTyped, ChangedRequest
<1>3. IsinsOf(asked) = IsinsOf(q)
  BY <1>2 DEF IsinsOf
<1> QED
  BY <1>1, <1>2, <1>3

\* The invariant has the types of the variables.
LEMMA WeightsTypeOKHolds ==
  ASSUME WeightsInv
  PROVE  WeightsTypeOK
<1>1. CASE OptimizedInv /\ asked # Refused
  <2>1. asked \in RequestType
    BY <1>1, RequestsTyped DEF OptimizedInv
  <2>2. ASSUME weights # Refused PROVE weights \in [IsinsOf(asked) -> 0 .. Units]
    BY <1>1, <2>1, <2>2, DeliveredIs, ByIsinTyped, AcceptedAreSound DEF Accepted
  <2>3. ASSUME report # Refused PROVE report.of \in [IsinsOf(asked) -> Int]
    BY <1>1, <2>3 DEF OptimizedInv, DiagnosisOf
  <2> QED
    BY <2>2, <2>3 DEF WeightsTypeOK, Delivered
<1>2. CASE ProfileInv /\ asked # Refused
  <2>1. PICK q \in Profiled :
          /\ q \in RequestType /\ IsinsOf(asked) = IsinsOf(q)
          /\ weights \in Balanced(q, solver)
          /\ report # Refused => \E d \in [IsinsOf(asked) -> Int] : report = RowsOf(d)
    BY <1>2, ProfileIs
  <2>2. ASSUME weights # Refused PROVE weights \in [IsinsOf(asked) -> 0 .. Units]
    <3>1. PICK w \in Bounded(q) : weights = ByIsin(q, w)
      BY <2>1, <2>2, CombinedIs DEF Balanced
    <3>2. w \in [q.listings -> Int] /\ Sum(w) = Units /\ \A l \in q.listings : w[l] \in Nat
      <4>1. q.min \in Nat /\ q.max \in Nat
        BY <2>1 DEF RequestType
      <4> QED
        BY <2>1, <4>1, BoundedTyped DEF Bounded
    <3>3. \A l \in q.listings : w[l] <= Units
      BY <2>1, <3>2, RequestsAreFinite, SumNat DEF Sum, SumFunction
    <3>4. \A l \in q.listings : w[l] \in 0 .. Units
      BY <3>2, <3>3, WeightsAssumption
    <3> QED
      BY <2>1, <3>1, <3>4, ByIsinIs
  <2>3. ASSUME report # Refused PROVE report.of \in [IsinsOf(asked) -> Int]
    BY <2>1, <2>3 DEF RowsOf
  <2> QED
    BY <2>2, <2>3 DEF WeightsTypeOK, Delivered
<1>3. CASE asked = Refused
  BY <1>3 DEF WeightsInv, WeightsTypeOK, Delivered
<1> QED
  BY <1>1, <1>2, <1>3 DEF WeightsInv

\* Delivered weights are whole and within the bounds, by what the validation let pass.
LEMMA WeightsAreSoundHolds ==
  ASSUME WeightsInv
  PROVE  WeightsAreSound
<1> SUFFICES ASSUME Delivered, asked.objective # "balanced"
             PROVE  /\ Sum(weights) = Units
                    /\ \A i \in IsinsOf(asked) : weights[i] \in asked.min .. asked.max
                    /\ asked.objective # "equal_weight" => CompleteCovariance(asked)
  BY DEF WeightsAreSound
<1>1. OptimizedInv /\ weights # Refused
  BY ProfileIs DEF WeightsInv, Delivered
<1>2. asked \in RequestType
  BY <1>1, RequestsTyped DEF OptimizedInv
<1> QED
  BY <1>1, <1>2, DeliveredIs, ByIsinTyped, AcceptedAreSound DEF Accepted

\* Weights of listings with an ISIN each are accepted if they are whole and within the bounds.
LEMMA DistinctAccepted ==
  ASSUME NEW q \in RequestType, Distinct(q), NEW v \in Bounded(q)
  PROVE  Accepted(q, v)
<1> DEFINE d == ByIsin(q, v)
<1>1. v \in [q.listings -> Int] /\ Sum(v) = Units
  BY BoundedTyped
<1>2. \A l \in q.listings : d[IsinOf[l]] = v[l] /\ ~(v[l] < q.min \/ v[l] > q.max)
  <2>1. q.min \in Nat /\ q.max \in Nat
    BY DEF RequestType
  <2> QED
    BY <2>1, ByIsinIs DEF Bounded
<1>3. DOMAIN d = IsinsOf(q)
  BY ByIsinIs
<1> HIDE DEF d
<1>4. Sum(d) = Sum(v)
  <2>1. SumFunctionOnSet(d, {IsinOf[l] : l \in q.listings}) = SumFunctionOnSet(v, q.listings)
    <3>1. \A k, l \in q.listings : IsinOf[k] = IsinOf[l] => k = l
      BY DEF Distinct
    <3>2. \A l \in q.listings : d[IsinOf[l]] = v[l] /\ v[l] \in Int
      BY <1>1, <1>2
    <3>3. IsFiniteSet(q.listings)
      BY RequestsAreFinite
    <3> QED
      BY <3>1, <3>2, <3>3, SumRenamed
  <2> QED
    BY <1>1, <1>3, <2>1 DEF Sum, SumFunction, IsinsOf
<1>5. \A i \in DOMAIN d : ~(d[i] < q.min \/ d[i] > q.max)
  BY <1>2, <1>3 DEF IsinsOf
<1>6. Violations(q, d) = {}
  BY <1>1, <1>4, <1>5 DEF Violations
<1> QED
  BY <1>6 DEF Accepted, d

\* A delivered grid weighting reaches the target return, as every feasible one does.
LEMMA TargetIsMetHolds ==
  ASSUME WeightsInv
  PROVE  TargetIsMet
<1> SUFFICES ASSUME Delivered, Distinct(asked),
                    asked.objective = "target_return_minimum_variance"
             PROVE  LET w == [l \in asked.listings |-> weights[IsinOf[l]]] IN
                    /\ PortfolioReturn(asked, w) >= asked.target * Units
                    /\ ~Exceeded(asked) => \A v \in Grid(asked) \cap Bounded(asked) :
                         PortfolioReturn(asked, v) >= asked.target * Units =>
                           Variance(asked, v) >= Variance(asked, w)
  BY DEF TargetIsMet
<1>1. OptimizedInv /\ weights # Refused
  BY ProfileIs DEF WeightsInv, Delivered
<1>2. asked \in RequestType
  BY <1>1, RequestsTyped DEF OptimizedInv
<1>3. ~Solves(asked) /\ asked.objective \in GridObjectives /\ asked.objective # "equal_weight"
  BY DEF Solves, OwnSolver, SolverBacked, GridObjectives
<1>4. weights = ByIsin(asked, Best(asked)) /\ Feasible(asked) # {}
  BY <1>1, <1>3, DeliveredIs
<1>5. Best(asked) \in Feasible(asked) /\ \A v \in Feasible(asked) : ~Better(asked, v, Best(asked))
  BY <1>2, <1>3, <1>4, BestIsBest
<1>6. Best(asked) \in [asked.listings -> Int]
  BY <1>2, <1>5, FeasibleTyped
<1>7. [l \in asked.listings |-> weights[IsinOf[l]]] = Best(asked)
  <2>1. \A l \in asked.listings : weights[IsinOf[l]] = Best(asked)[l]
    BY <1>2, <1>4, ByIsinIs
  <2> QED
    BY <1>6, <2>1
<1>8. PortfolioReturn(asked, Best(asked)) >= asked.target * Units
  BY <1>5 DEF Feasible
<1>9. ASSUME ~Exceeded(asked), NEW v \in Grid(asked) \cap Bounded(asked),
             PortfolioReturn(asked, v) >= asked.target * Units
      PROVE  Variance(asked, v) >= Variance(asked, Best(asked))
  <2>1. v \in Feasible(asked)
    BY <1>2, <1>9, DistinctAccepted DEF Feasible, Candidates
  <2>2. ~(Variance(asked, v) < Variance(asked, Best(asked)))
    BY <1>5, <2>1 DEF Better
  <2>3. v \in [asked.listings -> Int]
    BY <1>2, BoundedTyped
  <2>4. Variance(asked, v) \in Int /\ Variance(asked, Best(asked)) \in Int
    BY <1>2, <1>6, <2>3, ScoresAreNumbers
  <2> QED
    BY <2>2, <2>4
<1> QED
  BY <1>7, <1>8, <1>9

\* What the invariant says of a request that has a report.
LEMMA ReportIs ==
  ASSUME WeightsInv, Reported
  PROVE  /\ OptimizedInv /\ asked \in RequestType /\ asked \in Requests
         /\ asked.objective \in Objectives
         /\ \E d \in [IsinsOf(asked) -> Int] : d # Refused /\ report = DiagnosisOf(d)
<1>1. OptimizedInv /\ report # Refused
  BY ProfileIs DEF WeightsInv, Reported
<1> QED
  BY <1>1, RequestsTyped DEF OptimizedInv

\* A report on weights that are not the solver's own says so.
LEMMA FallbackIsLabelledHolds ==
  ASSUME WeightsInv
  PROVE  FallbackIsLabelled
<1> SUFFICES ASSUME Reported, report.of = weights, ~Solves(asked)
             PROVE  /\ report.method = ResolvedMethod(asked)
                    /\ report.fallback => asked.mode = "baseline"
                                          /\ weights = ByIsin(asked, EqualWeights(asked))
  BY DEF FallbackIsLabelled
<1>1. OptimizedInv /\ asked \in RequestType /\ asked.objective \in Objectives
  BY ReportIs
<1>2. PICK d \in [IsinsOf(asked) -> Int] : d # Refused /\ report = DiagnosisOf(d)
  BY ReportIs
<1>3. d = weights /\ report.fallback = FallbackUsed(asked, SolverOf, d)
      /\ report.method = ActualMethod(asked, SolverOf, d)
  BY <1>2 DEF DiagnosisOf
<1>4. FallbackUsed(asked, SolverOf, d) <=> asked.objective \in GridObjectives /\ Exceeded(asked)
  BY DEF FallbackUsed, MatchesSolver, Verifies
<1>5. report.method = ResolvedMethod(asked)
  BY <1>3, <1>4 DEF ActualMethod, ResolvedMethod
<1>6. ASSUME report.fallback
      PROVE  asked.mode = "baseline" /\ weights = ByIsin(asked, EqualWeights(asked))
  <2>1. asked.objective \in GridObjectives /\ Exceeded(asked)
    BY <1>3, <1>4, <1>6
  <2>2. asked.objective # "equal_weight"
    BY <2>1 DEF GridObjectives
  <2>3. /\ (asked.mode = "production" => ~Exceeded(asked))
        /\ Feasible(asked) # {} /\ weights = ByIsin(asked, Best(asked))
    BY <1>1, <1>2, <1>3, <2>2, DeliveredIs
  <2>4. asked.mode \in {"production", "baseline"}
    BY <1>1 DEF RequestType
  <2>5. Best(asked) \in Feasible(asked)
    BY <1>1, <2>1, <2>3, BestIsBest
  <2>6. Best(asked) = EqualWeights(asked)
    BY <2>1, <2>5 DEF Feasible, Candidates
  <2> QED
    BY <2>1, <2>3, <2>4, <2>6
<1> QED
  BY <1>5, <1>6

\* Weights delivered in production or by the CVaR solver are eligible on complete
\* covariances.
LEMMA DeliveredAreEligibleHolds ==
  ASSUME WeightsInv
  PROVE  DeliveredAreEligible
<1> SUFFICES ASSUME Reported, report.of = weights, Distinct(asked),
                    asked.mode = "production" \/ asked.objective = "minimum_cvar",
                    CompleteCovariance(asked)
             PROVE  report.eligible
  BY DEF DeliveredAreEligible
<1>1. OptimizedInv /\ asked \in RequestType /\ asked \in Requests /\ asked.objective \in Objectives
  BY ReportIs
<1>2. PICK d \in [IsinsOf(asked) -> Int] : d # Refused /\ report = DiagnosisOf(d)
  BY ReportIs
<1>3. d = weights /\ report.eligible = Eligible(asked, SolverOf, d)
  BY <1>2 DEF DiagnosisOf
<1>4. PICK w \in [asked.listings -> Int] :
        /\ weights = ByIsin(asked, w) /\ Accepted(asked, w)
        /\ Solves(asked) => SolverOf # Refused /\ SolverOf.converged /\ w = SolverOf.weights
        /\ ~Solves(asked) /\ asked.objective # "equal_weight" =>
             (asked.mode = "production" => ~Exceeded(asked))
  BY <1>1, <1>2, <1>3, DeliveredIs
<1>5. Violations(asked, d) = {}
  BY <1>3, <1>4 DEF Accepted
<1>6. CASE Solves(asked)
  <2>1. asked.objective \in SolverBacked \cup {"minimum_cvar"}
    BY <1>1, <1>6, WeightsAssumption DEF Solves
  <2>2. MatchesSolver(asked, SolverOf, d)
    BY <1>1, <1>3, <1>4, <1>6, <2>1, ByIsinIs DEF MatchesSolver, Verifies
  <2> QED
    BY <1>3, <1>4, <1>5, <1>6, <2>2 DEF Eligible, FallbackUsed
<1>7. CASE ~Solves(asked)
  <2>1. ~MatchesSolver(asked, SolverOf, d) /\ asked.objective # "minimum_cvar"
    BY <1>7 DEF MatchesSolver, Verifies, Solves, OwnSolver
  <2>2. ~FallbackUsed(asked, SolverOf, d)
    BY <1>4, <1>7, <2>1 DEF FallbackUsed, GridObjectives
  <2> QED
    BY <1>3, <1>5, <2>1, <2>2 DEF Eligible
<1> QED
  BY <1>6, <1>7

\* The weights of a report are the solver's if they are what the report compares.
LEMMA SolversOwnIs ==
  ASSUME WeightsInv, Reported, NEW d, report = DiagnosisOf(d)
  PROVE  SolversOwn <=> MatchesSolver(asked, SolverOf, d)
<1>1. report.of = d
  BY DEF DiagnosisOf
<1>2. Verifies(asked) => SolverOf = solver[asked.objective]
  BY DEF Verifies, SolverOf
<1> QED
  BY <1>1, <1>2 DEF SolversOwn, MatchesSolver

\* An eligible report is of sound weights, from complete data, with no fallback, and of
\* a solver that converged if it is of a solver's.
LEMMA EligibleAreSoundHolds ==
  ASSUME WeightsInv
  PROVE  EligibleAreSound
<1> SUFFICES ASSUME Reported, report.eligible
             PROVE  /\ Sum(report.of) = Units
                    /\ \A i \in IsinsOf(asked) : report.of[i] \in asked.min .. asked.max
                    /\ CompleteCovariance(asked) /\ ~report.fallback
                    /\ SolversOwn => solver[asked.objective].converged
                    /\ asked.objective = "minimum_cvar" => SolversOwn
  BY DEF EligibleAreSound
<1>1. asked \in RequestType
  BY ReportIs
<1>2. PICK d \in [IsinsOf(asked) -> Int] : d # Refused /\ report = DiagnosisOf(d)
  BY ReportIs
<1>3. report.of = d /\ report.fallback = FallbackUsed(asked, SolverOf, d)
      /\ Eligible(asked, SolverOf, d)
  BY <1>2 DEF DiagnosisOf
<1>4. Violations(asked, d) = {} /\ CompleteCovariance(asked) /\ ~FallbackUsed(asked, SolverOf, d)
  BY <1>3 DEF Eligible
<1>5. /\ SolversOwn => SolverOf.converged
      /\ asked.objective = "minimum_cvar" => SolversOwn
  BY <1>2, <1>3, SolversOwnIs DEF Eligible
<1>6. SolversOwn => SolverOf = solver[asked.objective]
  BY DEF SolversOwn, Verifies, SolverOf
<1> QED
  BY <1>1, <1>2, <1>3, <1>4, <1>5, <1>6, AcceptedAreSound

\* A report of convergence is not of a solver's answer that did not converge.
LEMMA ConvergenceIsTrueHolds ==
  ASSUME WeightsInv
  PROVE  ConvergenceIsTrue
<1> SUFFICES ASSUME Reported, report.converged
             PROVE  /\ CompleteCovariance(asked)
                    /\ SolversOwn => solver[asked.objective].converged
  BY DEF ConvergenceIsTrue
<1>1. PICK d \in [IsinsOf(asked) -> Int] : d # Refused /\ report = DiagnosisOf(d)
  BY ReportIs
<1>2. ReportsConverged(asked, SolverOf, d)
  BY <1>1 DEF DiagnosisOf
<1>3. SolversOwn <=> MatchesSolver(asked, SolverOf, d)
  BY <1>1, SolversOwnIs
<1>4. SolversOwn => SolverOf = solver[asked.objective]
  BY DEF SolversOwn, Verifies, SolverOf
<1>5. CompleteCovariance(asked)
  BY <1>2 DEF ReportsConverged, Status, MatchesSolver, Verifies
<1>6. MatchesSolver(asked, SolverOf, d) => SolverOf.converged
  BY <1>2 DEF ReportsConverged, Status
<1> QED
  BY <1>3, <1>4, <1>5, <1>6

\* What the solvers came to for a profile whose parts were all solved.
LEMMA PartsAreSolved ==
  ASSUME NEW q \in RequestType, NEW s \in OutcomesOf(q, Ensemble), NEW o \in Ensemble,
         Optimized(Part(q, o), s[o]) # Refused
  PROVE  /\ CompleteCovariance(q) /\ s[o] # Refused /\ s[o].converged
         /\ s[o].weights \in Bounded(q)
         /\ Optimized(Part(q, o), s[o]) = ByIsin(q, s[o].weights)
<1> DEFINE p == Part(q, o)
<1>1. /\ p.objective = o /\ p.mode = "production" /\ p.listings = q.listings
      /\ p.unusable = q.unusable
  BY DEF Part, RequestType
<1> HIDE DEF p
<1>2. Solves(p) /\ o # "equal_weight"
  BY <1>1 DEF Solves, Ensemble, OwnSolver, SolverBacked
<1>3. CompleteCovariance(p) /\ CompleteCovariance(q)
  BY <1>1, <1>2 DEF Optimized, CompleteCovariance, p
<1>4. Optimized(p, s[o]) = IF s[o] # Refused /\ s[o].converged /\ Accepted(p, s[o].weights)
                           THEN ByIsin(p, s[o].weights) ELSE Refused
  BY <1>1, <1>2, <1>3 DEF Optimized, SolverWeights
<1>5. s[o] # Refused /\ s[o].converged /\ Optimized(p, s[o]) = ByIsin(p, s[o].weights)
  BY <1>4 DEF p
<1>6. ByIsin(p, s[o].weights) = ByIsin(q, s[o].weights)
  BY <1>1 DEF ByIsin, IsinsOf
<1>7. s[o].weights \in Bounded(q)
  BY <1>5, OutcomesUsable
<1> QED
  BY <1>3, <1>5, <1>6, <1>7 DEF p

\* A profile has rows only if every one of its parts was solved within the bounds.
LEMMA ProfilesFailClosedHolds ==
  ASSUME WeightsInv
  PROVE  ProfilesFailClosed
<1> SUFFICES ASSUME asked # Refused, asked.objective = "balanced", report # Refused,
                    report.feasible
             PROVE  /\ CompleteCovariance(asked)
                    /\ \A o \in Ensemble : solver[o] # Refused /\ solver[o].converged
  BY DEF ProfilesFailClosed
<1>1. ProfileInv
  BY WeightsAssumption DEF WeightsInv, OptimizedInv
<1>2. PICK q \in Profiled :
        /\ q \in RequestType /\ asked.listings = q.listings /\ asked.unusable = q.unusable
        /\ solver \in OutcomesOf(q, Ensemble) /\ weights \in Balanced(q, solver)
        /\ report # Refused => \E d \in [IsinsOf(asked) -> Int] : report = RowsOf(d)
  BY <1>1, ProfileIs
<1>3. weights # Refused
  <2>1. PICK d : report = RowsOf(d)
    BY <1>2
  <2>2. report.feasible = (weights # Refused /\ Violations(asked, weights) = {})
    BY <2>1 DEF RowsOf
  <2> QED
    BY <2>2
<1>4. \A o \in Ensemble : Optimized(Part(q, o), solver[o]) # Refused
  BY <1>2, <1>3 DEF Balanced
<1>5. CompleteCovariance(q) /\ \A o \in Ensemble : solver[o] # Refused /\ solver[o].converged
  <2>1. "risk_parity" \in Ensemble
    BY DEF Ensemble
  <2> QED
    BY <1>2, <1>4, <2>1, PartsAreSolved
<1> QED
  BY <1>2, <1>5 DEF CompleteCovariance

\* Two of three are the middle one when they are equal.
LEMMA MedianOfTwo ==
  ASSUME NEW q, NEW parts, NEW i, NEW o \in Ensemble, NEW p \in Ensemble, o # p,
         \A e \in Ensemble : parts[e][i] \in Int, parts[o][i] = parts[p][i]
  PROVE  Median(q, parts, i) = parts[o][i]
<1> DEFINE c == parts[o][i]
           Below(m) == {e \in Ensemble : parts[e][i] < m}
           Above(m) == {e \in Ensemble : parts[e][i] > m}
           Middle(m) == Cardinality(Below(m)) <= 1 /\ Cardinality(Above(m)) <= 1
<1>0. IsFiniteSet(Ensemble) /\ \A e, f, g \in Ensemble \ {o, p} : e = f
  <2>1. Ensemble = ({"hierarchical_risk_parity"} \cup {"risk_parity"})
                   \cup {"shrinkage_minimum_variance"}
    BY DEF Ensemble
  <2>2. IsFiniteSet(Ensemble)
    <3>1. IsFiniteSet({"hierarchical_risk_parity"})
      BY FS_Singleton
    <3>2. IsFiniteSet({"hierarchical_risk_parity"} \cup {"risk_parity"})
      BY <3>1, FS_AddElement
    <3>3. IsFiniteSet(({"hierarchical_risk_parity"} \cup {"risk_parity"})
                      \cup {"shrinkage_minimum_variance"})
      BY <3>2, FS_AddElement
    <3> QED
      BY <2>1, <3>3
  <2> QED
    BY <2>2 DEF Ensemble
<1>1. \A T \in SUBSET (Ensemble \ {o, p}) : Cardinality(T) <= 1
  <2> SUFFICES ASSUME NEW T \in SUBSET (Ensemble \ {o, p}) PROVE Cardinality(T) <= 1
    OBVIOUS
  <2>1. CASE T = {}
    BY <2>1, FS_EmptySet
  <2>2. CASE T # {}
    <3>1. PICK e : T = {e}
      BY <1>0, <2>2
    <3>2. Cardinality({e}) = 1
      BY FS_Singleton
    <3> QED
      BY <3>1, <3>2
  <2> QED
    BY <2>1, <2>2
<1>2. \A T \in SUBSET Ensemble : o \in T /\ p \in T => ~(Cardinality(T) <= 1)
  <2> SUFFICES ASSUME NEW T \in SUBSET Ensemble, o \in T, p \in T, Cardinality(T) <= 1
               PROVE  FALSE
    OBVIOUS
  <2>1. IsFiniteSet(T) /\ Cardinality(T) \in Nat
    BY <1>0, FS_Subset, FS_CardinalityType
  <2>2. Cardinality(T \ {o}) = Cardinality(T) - 1 /\ IsFiniteSet(T \ {o})
    BY <2>1, FS_RemoveElement
  <2>3. Cardinality(T \ {o}) \in Nat
    BY <2>2, FS_CardinalityType
  <2>4. Cardinality(T \ {o}) = 0
    BY <2>1, <2>2, <2>3
  <2> QED
    BY <2>2, <2>4, FS_EmptySet
<1>3. Middle(c)
  <2>1. Below(c) \in SUBSET (Ensemble \ {o, p}) /\ Above(c) \in SUBSET (Ensemble \ {o, p})
    OBVIOUS
  <2> QED
    BY <1>1, <2>1
<1>4. ASSUME NEW e \in Ensemble, Middle(parts[e][i]) PROVE parts[e][i] = c
  <2>1. CASE parts[e][i] < c
    <3>1. Above(parts[e][i]) \in SUBSET Ensemble /\ o \in Above(parts[e][i])
          /\ p \in Above(parts[e][i])
      BY <2>1
    <3> QED
      BY <1>2, <1>4, <3>1
  <2>2. CASE parts[e][i] > c
    <3>1. Below(parts[e][i]) \in SUBSET Ensemble /\ o \in Below(parts[e][i])
          /\ p \in Below(parts[e][i])
      BY <2>2
    <3> QED
      BY <1>2, <1>4, <3>1
  <2> QED
    BY <2>1, <2>2
<1>5. Median(q, parts, i) = CHOOSE m \in {parts[e][i] : e \in Ensemble} : Middle(m)
  BY DEF Median
<1>6. c \in {parts[e][i] : e \in Ensemble}
  OBVIOUS
<1> HIDE DEF Middle, c
<1>7. \A m \in {parts[e][i] : e \in Ensemble} : Middle(m) => m = c
  BY <1>4
<1> QED
  BY <1>3, <1>5, <1>6, <1>7 DEF c

\* Where two of a profile's three parts agree exactly, the median is what they say.
LEMMA MajorityIsKeptHolds ==
  ASSUME WeightsInv
  PROVE  MajorityIsKept
<1> SUFFICES ASSUME Delivered, asked.objective = "balanced", Distinct(asked),
                    NEW o \in Ensemble, NEW p \in Ensemble, o # p,
                    solver[o].weights = solver[p].weights
             PROVE  weights = ByIsin(asked, solver[o].weights)
  BY DEF MajorityIsKept
<1>1. ProfileInv /\ weights # Refused
  BY WeightsAssumption DEF WeightsInv, OptimizedInv, Delivered
<1>2. PICK q \in Profiled :
        /\ q \in RequestType /\ asked \in RequestType
        /\ asked.listings = q.listings /\ IsinsOf(asked) = IsinsOf(q)
        /\ solver \in OutcomesOf(q, Ensemble) /\ weights \in Balanced(q, solver)
  BY <1>1, ProfileIs
<1> DEFINE v == solver[o].weights
           parts == [e \in Ensemble |-> Optimized(Part(q, e), solver[e])]
           medians == [l \in q.listings |-> Median(q, parts, IsinOf[l])]
<1>3. \A e \in Ensemble : parts[e] # Refused /\ weights \in Combined(q, parts)
  BY <1>1, <1>2 DEF Balanced
<1>4. \A e \in Ensemble : solver[e].weights \in Bounded(q)
                          /\ parts[e] = ByIsin(q, solver[e].weights)
  <2>1. \A e \in Ensemble : Optimized(Part(q, e), solver[e]) # Refused
    BY <1>3
  <2> QED
    BY <1>2, <2>1, PartsAreSolved
<1>5. Distinct(q)
  BY <1>2 DEF Distinct
<1>6. ASSUME NEW l \in q.listings PROVE Median(q, parts, IsinOf[l]) = v[l]
  <2>1. \A e \in Ensemble : parts[e][IsinOf[l]] = solver[e].weights[l]
    BY <1>2, <1>4, <1>5, ByIsinIs
  <2>2. \A e \in Ensemble : parts[e][IsinOf[l]] \in Int
    BY <1>2, <1>4, <2>1, BoundedTyped
  <2>3. parts[o][IsinOf[l]] = parts[p][IsinOf[l]]
    BY <2>1
  <2> HIDE DEF parts
  <2>4. Median(q, parts, IsinOf[l]) = parts[o][IsinOf[l]]
    BY <2>2, <2>3, MedianOfTwo
  <2> QED
    BY <2>1, <2>4
<1>7. medians = v
  <2>1. v \in [q.listings -> Int]
    BY <1>2, <1>4, BoundedTyped
  <2> HIDE DEF v, parts
  <2> QED
    BY <1>6, <2>1
<1>8. v \in Bounded(q) /\ Sum(v) = Units
  BY <1>2, <1>4, BoundedTyped
<1> HIDE DEF v, parts
<1>9. Combined(q, parts) = {ByIsin(q, v)}
  <2>1. Sum(medians) = Units /\ medians \in Bounded(q) /\ Sum(medians) # 0
    BY <1>7, <1>8, WeightsAssumption
  <2> HIDE DEF medians
  <2> QED
    BY <1>7, <2>1 DEF Combined, medians
<1>10. ByIsin(q, v) = ByIsin(asked, v)
  BY <1>2 DEF ByIsin
<1>11. "risk_parity" \in Ensemble
  BY DEF Ensemble
<1> QED
  BY <1>3, <1>9, <1>10, <1>11 DEF v

\* The invariant holds in every reachable state.
LEMMA WeightsInvHolds == WeightsSpec => []WeightsInv
<1>1. WeightsInit => WeightsInv
  BY DEF WeightsInit, WeightsInv
<1> QED
  BY <1>1, WeightsInvStep, PTL DEF WeightsSpec

\* What optimize_portfolio and the balanced profile deliver is whole and within its bounds,
\* reaches its target return, and keeps what two objectives agree on: for every set of
\* requests and of outcomes of the solvers.
THEOREM WeightsAreRightCorrect == WeightsSpec => []WeightsAreRight
<1>1. WeightsInv => WeightsAreRight
  BY WeightsTypeOKHolds, WeightsAreSoundHolds, TargetIsMetHolds, MajorityIsKeptHolds
     DEF WeightsAreRight
<1> QED
  BY <1>1, WeightsInvHolds, PTL

\* What build_optimizer_diagnostics and evaluate_profile_candidate report is true of the
\* weights: a fallback is named, what production delivers is eligible, what is eligible is
\* sound, and the rows of a profile are feasible only if all of its objectives were solved.
THEOREM ReportsAreTrueCorrect == WeightsSpec => []ReportsAreTrue
<1>1. WeightsInv => ReportsAreTrue
  BY FallbackIsLabelledHolds, DeliveredAreEligibleHolds, EligibleAreSoundHolds,
     ConvergenceIsTrueHolds, ProfilesFailClosedHolds DEF ReportsAreTrue
<1> QED
  BY <1>1, WeightsInvHolds, PTL

------------------------------------------------------------------------------
(***************************************************************************)
(* Walk-forward backtests.  The invariant cuts the tested dates into       *)
(* windows, one after the other, and has the wealth compound over all of   *)
(* them as long as the weights stay the same: compounding over dates and   *)
(* then over later ones is compounding over both.                          *)
(***************************************************************************)

(* Compounding *)

IsHeld(h, opening, g, dates) ==
  h = [d \in 0 .. MaxDates |->
         IF d = 0 THEN opening
         ELSE IF d \in dates THEN (h[d - 1] * g[d]) \div 4
         ELSE h[d - 1]]

\* The bounds of the plans are natural numbers.
LEMMA BoundsAreNat ==
  /\ MaxDates \in Nat /\ MinTrain \in Nat /\ MinTest \in Nat /\ MinSplits \in Nat /\ MinSplits > 0
  /\ MinTest > 0 /\ MaxTest \in Nat /\ MaxTrain \in Nat
  BY WalkAssumption

\* There is a function that compounds a value date by date, by induction over the dates.
LEMMA HeldExists ==
  ASSUME NEW opening, NEW g, NEW dates
  PROVE  \E h : IsHeld(h, opening, g, dates)
<1> DEFINE Step(h, d) == IF d = 0 THEN opening
                         ELSE IF d \in dates THEN (h[d - 1] * g[d]) \div 4
                         ELSE h[d - 1]
           Is(h, n) == h = [d \in 0 .. n |-> Step(h, d)]
           G == {n \in Nat : \E h : Is(h, n)}
<1>1. 0 \in G
  <2>1. Is([d \in 0 .. 0 |-> opening], 0)
    OBVIOUS
  <2> HIDE DEF Is
  <2> QED
    BY <2>1
<1>2. ASSUME NEW n \in G PROVE n + 1 \in G
  <2>1. PICK h : Is(h, n)
    BY <1>2
  <2> DEFINE next == [d \in 0 .. n + 1 |-> Step(h, d)]
  <2>2. ASSUME NEW d \in 0 .. n PROVE next[d] = h[d]
    <3>1. d \in 0 .. n + 1
      OBVIOUS
    <3>2. h[d] = Step(h, d)
      BY <2>1
    <3> QED
      BY <3>1, <3>2
  <2>3. ASSUME NEW d \in 0 .. n + 1 PROVE next[d] = Step(next, d)
    <3>1. next[d] = Step(h, d)
      OBVIOUS
    <3>2. CASE d = 0
      BY <3>1, <3>2
    <3>3. CASE d # 0
      <4>1. d - 1 \in 0 .. n
        BY <3>3
      <4>2. next[d - 1] = h[d - 1]
        BY <4>1, <2>2
      <4> QED
        BY <3>1, <3>3, <4>2
    <3> QED
      BY <3>2, <3>3
  <2>4. next = [d \in 0 .. n + 1 |-> next[d]]
    OBVIOUS
  <2> HIDE DEF next, Step
  <2>5. Is(next, n + 1)
    BY <2>3, <2>4
  <2>6. n + 1 \in Nat
    OBVIOUS
  <2> HIDE DEF Is
  <2> QED
    BY <2>5, <2>6
<1>3. G \in SUBSET Nat
  OBVIOUS
<1>4. MaxDates \in G
  <2> HIDE DEF G
  <2>1. G = Nat
    BY <1>1, <1>2, <1>3, NaturalsAll
  <2> QED
    BY <2>1, BoundsAreNat
<1> QED
  BY <1>4 DEF IsHeld

\* What it holds at a date is said by what it holds at the date before.
LEMMA HeldStep ==
  ASSUME NEW h, NEW opening, NEW g, NEW dates, IsHeld(h, opening, g, dates), NEW d \in 0 .. MaxDates
  PROVE  h[d] = IF d = 0 THEN opening
                ELSE IF d \in dates THEN (h[d - 1] * g[d]) \div 4
                ELSE h[d - 1]
BY DEF IsHeld

\* The growth of the dates as a function.
GrowthOf(w) == [d \in 0 .. MaxDates |-> DayGrowth(w, d)]

\* Compounding is its value at the last date.
LEMMA CompoundedIs ==
  ASSUME NEW opening, NEW w, NEW dates
  PROVE  \E h : /\ IsHeld(h, opening, GrowthOf(w), dates)
               /\ Compounded(opening, w, dates) = h[MaxDates]
<1> DEFINE Body(h) ==
             [d \in 0 .. MaxDates |->
                IF d = 0 THEN opening
                ELSE IF d \in dates THEN (h[d - 1] * DayGrowth(w, d)) \div 4
                ELSE h[d - 1]]
           held == CHOOSE h : h = Body(h)
<1>1. \A h : IsHeld(h, opening, GrowthOf(w), dates) <=> h = Body(h)
  <2> SUFFICES ASSUME NEW h
               PROVE  IsHeld(h, opening, GrowthOf(w), dates) <=> h = Body(h)
    OBVIOUS
  <2>1. \A d \in 0 .. MaxDates : GrowthOf(w)[d] = DayGrowth(w, d)
    BY DEF GrowthOf
  <2> QED
    BY <2>1 DEF IsHeld
<1>2. Compounded(opening, w, dates) = held[MaxDates]
  BY DEF Compounded
<1>3. \E h : h = Body(h)
  BY <1>1, HeldExists
<1> HIDE DEF Body
<1>4. held = Body(held)
  BY <1>3
<1> HIDE DEF held
<1> QED
  BY <1>1, <1>2, <1>4

\* A value that compounds over dates and then over later ones compounds over all of them.
LEMMA CompoundedJoins ==
  ASSUME NEW v, NEW w, NEW m \in 0 .. MaxDates, NEW A, NEW B,
         \A d \in A : d \in Nat /\ d <= m, \A d \in B : d \in Nat /\ d > m
  PROVE  Compounded(Compounded(v, w, A), w, B) = Compounded(v, w, A \cup B)
<1> DEFINE g == GrowthOf(w)
           u == Compounded(v, w, A)
<1>x. PICK a : IsHeld(a, v, g, A) /\ u = a[MaxDates]
  BY CompoundedIs
<1>y. PICK b : IsHeld(b, u, g, B) /\ Compounded(u, w, B) = b[MaxDates]
  BY CompoundedIs
<1>z. PICK c : IsHeld(c, v, g, A \cup B) /\ Compounded(v, w, A \cup B) = c[MaxDates]
  BY CompoundedIs
<1>a. /\ IsHeld(a, v, g, A) /\ IsHeld(b, u, g, B) /\ IsHeld(c, v, g, A \cup B)
      /\ u = a[MaxDates]
  BY <1>x, <1>y, <1>z
<1> HIDE DEF g, u
<1> DEFINE Early == {d \in Nat : d <= m => c[d] = a[d] /\ b[d] = u}
           Late == {d \in Nat : d >= m /\ d <= MaxDates => a[d] = a[m] /\ b[d] = c[d]}
<1>0. MaxDates \in Nat /\ m \in Nat /\ m <= MaxDates
  BY BoundsAreNat
<1>1. Early = Nat
  <2>1. 0 \in Early
    <3>1. 0 \in 0 .. MaxDates
      BY <1>0
    <3> QED
      BY <1>a, <3>1, HeldStep
  <2>2. ASSUME NEW n \in Early PROVE n + 1 \in Early
    <3> SUFFICES ASSUME n + 1 <= m PROVE c[n + 1] = a[n + 1] /\ b[n + 1] = u
      OBVIOUS
    <3>1. n + 1 \in 0 .. MaxDates /\ n + 1 # 0 /\ (n + 1) - 1 = n /\ n <= m /\ n + 1 \notin B
      BY <1>0
    <3>2. c[n] = a[n] /\ b[n] = u
      BY <3>1
    <3>3. a[n + 1] = IF n + 1 \in A THEN (a[n] * g[n + 1]) \div 4 ELSE a[n]
      BY <1>a, <3>1, HeldStep
    <3>4. c[n + 1] = IF n + 1 \in A \cup B THEN (c[n] * g[n + 1]) \div 4 ELSE c[n]
      BY <1>a, <3>1, HeldStep
    <3>5. b[n + 1] = IF n + 1 \in B THEN (b[n] * g[n + 1]) \div 4 ELSE b[n]
      BY <1>a, <3>1, HeldStep
    <3> QED
      BY <3>1, <3>2, <3>3, <3>4, <3>5
  <2>3. Early \in SUBSET Nat
    OBVIOUS
  <2> HIDE DEF Early
  <2> QED
    BY <2>1, <2>2, <2>3, NaturalsAll
<1>2. c[m] = a[m] /\ b[m] = u
  BY <1>0, <1>1
<1> DEFINE Flat == {d \in Nat : d >= m /\ d <= MaxDates => a[d] = a[m]}
<1>3. Flat = Nat
  <2>1. 0 \in Flat
    BY <1>0
  <2>2. ASSUME NEW n \in Flat PROVE n + 1 \in Flat
    <3> SUFFICES ASSUME n + 1 >= m, n + 1 <= MaxDates PROVE a[n + 1] = a[m]
      OBVIOUS
    <3>1. CASE n + 1 = m
      BY <3>1
    <3>2. CASE n + 1 > m
      <4>1. n + 1 \in 0 .. MaxDates /\ n + 1 # 0 /\ (n + 1) - 1 = n /\ n >= m /\ n <= MaxDates
            /\ n + 1 \notin A
        BY <1>0, <3>2
      <4>2. a[n + 1] = a[n]
        BY <1>a, <4>1, HeldStep
      <4> QED
        BY <4>1, <4>2
    <3> QED
      BY <1>0, <3>1, <3>2
  <2>3. Flat \in SUBSET Nat
    OBVIOUS
  <2> HIDE DEF Flat
  <2> QED
    BY <2>1, <2>2, <2>3, NaturalsAll
<1>4. a[MaxDates] = a[m]
  BY <1>0, <1>3
<1>b. b[m] = c[m]
  BY <1>2, <1>4, <1>a
<1>5. Late = Nat
  <2>1. 0 \in Late
    BY <1>0, <1>b
  <2>2. ASSUME NEW n \in Late PROVE n + 1 \in Late
    <3> SUFFICES ASSUME n + 1 >= m, n + 1 <= MaxDates PROVE b[n + 1] = c[n + 1]
      BY <1>0, <1>3
    <3>1. CASE n + 1 = m
      BY <1>b, <3>1
    <3>2. CASE n + 1 > m
      <4>1. n + 1 \in 0 .. MaxDates /\ n + 1 # 0 /\ (n + 1) - 1 = n /\ n >= m /\ n <= MaxDates
            /\ n + 1 \notin A
        BY <1>0, <3>2
      <4>2. b[n] = c[n]
        BY <4>1
      <4>3. b[n + 1] = IF n + 1 \in B THEN (b[n] * g[n + 1]) \div 4 ELSE b[n]
        BY <1>a, <4>1, HeldStep
      <4>4. c[n + 1] = IF n + 1 \in A \cup B THEN (c[n] * g[n + 1]) \div 4 ELSE c[n]
        BY <1>a, <4>1, HeldStep
      <4> QED
        BY <4>1, <4>2, <4>3, <4>4
    <3> QED
      BY <1>0, <3>1, <3>2
  <2>3. Late \in SUBSET Nat
    OBVIOUS
  <2> HIDE DEF Late, Flat
  <2> QED
    BY <2>1, <2>2, <2>3, NaturalsAll
<1>6. b[MaxDates] = c[MaxDates]
  BY <1>0, <1>5
<1> QED
  BY <1>6, <1>y, <1>z DEF u

\* Compounding an integer by integers is an integer.
LEMMA CompoundedInt ==
  ASSUME NEW v \in Int, NEW w, NEW A, \A d \in A : DayGrowth(w, d) \in Int
  PROVE  Compounded(v, w, A) \in Int
<1>1. PICK a : IsHeld(a, v, GrowthOf(w), A) /\ Compounded(v, w, A) = a[MaxDates]
  BY CompoundedIs
<1> DEFINE G == {d \in Nat : d <= MaxDates => a[d] \in Int}
<1>0. MaxDates \in Nat
  BY BoundsAreNat
<1>2. 0 \in G
  <2>1. 0 \in 0 .. MaxDates
    BY <1>0
  <2> QED
    BY <1>1, <2>1, HeldStep
<1>3. ASSUME NEW n \in G PROVE n + 1 \in G
  <2> SUFFICES ASSUME n + 1 <= MaxDates PROVE a[n + 1] \in Int
    OBVIOUS
  <2>1. n + 1 \in 0 .. MaxDates /\ n + 1 # 0 /\ (n + 1) - 1 = n /\ n <= MaxDates
    BY <1>0
  <2>2. a[n + 1] = IF n + 1 \in A THEN (a[n] * GrowthOf(w)[n + 1]) \div 4 ELSE a[n]
    BY <1>1, <2>1, HeldStep
  <2>3. n + 1 \in A => GrowthOf(w)[n + 1] \in Int
    BY <2>1 DEF GrowthOf
  <2>4. a[n] \in Int
    BY <2>1
  <2>5. n + 1 \in A => a[n] * GrowthOf(w)[n + 1] \in Int
    BY <2>3, <2>4
  <2> QED
    BY <2>2, <2>4, <2>5
<1>4. G \in SUBSET Nat
  OBVIOUS
<1> HIDE DEF G
<1>5. G = Nat
  BY <1>2, <1>3, <1>4, NaturalsAll
<1> QED
  BY <1>0, <1>1, <1>5 DEF G

\* What a split records.
SplitType ==
  [train : SUBSET Int, test : SUBSET Int, weights : Weightings, turnover : 0 .. 4]

\* The dates that were tested.
Tested == UNION {splits[k].test : k \in DOMAIN splits}

\* Every window ends where the next one starts, and was optimized on the dates before it.
WindowsCut ==
  LET p == plan.settings IN
  /\ p \in Plans /\ Accepts(p) /\ plan.days \in [1 .. p.dates -> Days(p)]
  /\ start = p.train + Len(splits) * p.test
  /\ splits # <<>> => start <= p.dates
  /\ Tested = p.train + 1 .. start
  /\ \A k \in DOMAIN splits :
       /\ \E s \in Nat : /\ s >= p.train
                         /\ splits[k].train = TrainDates(p, s)
                         /\ splits[k].test = TestDates(p, s)
       /\ \A i \in Isins : splits[k].weights[i] <= p.maxWeight
  /\ walked => start + p.test > p.dates

\* The inductive invariant of a walk.
WalkInv ==
  /\ splits \in Seq(SplitType) /\ wealth \in Seq(Int) /\ Len(wealth) = Len(splits)
  /\ start \in Nat /\ walked \in BOOLEAN
  /\ plan = <<>> => splits = <<>> /\ wealth = <<>> /\ ~walked
  /\ plan # <<>> => WindowsCut
  /\ WindowsCompound

\* A plan has natural numbers, a train and a test window that are not empty, and few enough
\* dates.
LEMMA PlansAreNumbers ==
  ASSUME NEW p \in Plans
  PROVE  /\ p.dates \in Nat /\ p.train \in Nat /\ p.test \in Nat /\ p.test > 0 /\ p.train > 0
         /\ p.dates <= MaxDates /\ p.dates > 0 /\ p.cost \in Nat /\ p.maxWeight \in Nat
<1>1. /\ p.dates \in 1 .. MaxDates /\ p.train \in 1 .. MaxTrain /\ p.test \in 1 .. MaxTest
      /\ p.cost \in CostRates /\ p.maxWeight \in {MaxWeight, 4}
  BY DEF Plans
<1>2. CostRates \subseteq Nat /\ MaxWeight \in Nat
  BY WalkAssumption
<1>3. p.cost \in Nat /\ p.maxWeight \in Nat
  <2>1. p.cost \in Nat
    BY <1>1, <1>2, Zenon
  <2>2. p.maxWeight = MaxWeight \/ p.maxWeight = 4
    BY <1>1, Zenon
  <2>3. p.maxWeight \in Nat
    BY <1>2, <2>2
  <2> QED
    BY <2>1, <2>3
<1>4. MaxDates \in Nat /\ MaxTrain \in Nat /\ MaxTest \in Nat
  BY BoundsAreNat
<1>5. p.dates \in Nat /\ p.dates <= MaxDates /\ p.dates > 0
  BY <1>1, <1>4
<1>6. p.train \in Nat /\ p.train > 0 /\ p.test \in Nat /\ p.test > 0
  BY <1>1, <1>4
<1> QED
  BY <1>3, <1>5, <1>6

\* What weights move by is at most what is sold and what is bought.
LEMMA MovedBounds ==
  ASSUME NEW v \in Weightings, NEW w \in Weightings
  PROVE  /\ SumFunction(Moved(v, w)) \in 0 .. 8
         /\ v = w => SumFunction(Moved(v, w)) = 0
<1> DEFINE m == Moved(v, w)
           b == [i \in Isins |-> v[i] + w[i]]
<1>0. IsFiniteSet(Isins) /\ v \in [Isins -> 0 .. 4] /\ w \in [Isins -> 0 .. 4]
  BY WalkAssumption, MatrixAssumption
<1>1. SumFunction(m) = SumFunctionOnSet(m, Isins)
  BY DEF SumFunction, Moved
<1>2. SumFunctionOnSet(v, Isins) = 4 /\ SumFunctionOnSet(w, Isins) = 4
  BY <1>0, WalkAssumption DEF SumFunction
<1>3. \A i \in Isins : /\ m[i] \in Nat /\ m[i] \in Int /\ b[i] \in Int /\ m[i] <= b[i]
                       /\ v[i] \in Int /\ w[i] \in Int /\ b[i] = v[i] + w[i]
                       /\ v = w => m[i] = 0
  BY <1>0 DEF Moved
<1> HIDE DEF m, b
<1>4. SumFunctionOnSet(b, Isins) = 8
  <2>1. SumFunctionOnSet(b, Isins) = SumFunctionOnSet(v, Isins) + SumFunctionOnSet(w, Isins)
    BY <1>0, <1>3, SumAdded
  <2> QED
    BY <2>1, <1>2
<1>5. SumFunctionOnSet(m, Isins) <= SumFunctionOnSet(b, Isins)
  BY <1>0, <1>3, SumMonotone
<1>6. SumFunctionOnSet(m, Isins) \in Nat
  BY <1>0, <1>3, SumNat
<1>7. v = w => SumFunctionOnSet(m, Isins) = 0
  BY <1>0, <1>3, SumZero
<1> QED
  BY <1>1, <1>4, <1>5, <1>6, <1>7 DEF m

\* The growth of weights at a date of the plan is an integer.
LEMMA GrowthsAreNumbers ==
  ASSUME WindowsCut, NEW w \in Weightings, NEW d \in 1 .. plan.settings.dates
  PROVE  DayGrowth(w, d) \in Int
<1> DEFINE p == plan.settings
           m == p.listed
           g == plan.days[d]
           f == [r \in DOMAIN m |-> w[m[r]] * (g[r] - 1)]
<1>1. p \in Plans /\ g \in Days(p)
  BY DEF WindowsCut
<1>2. m \in Seq(Isins)
  BY <1>1, MatrixAssumption DEF Plans
<1>3. g \in Seq(Nat) /\ Len(g) = Len(m)
  BY <1>1, WalkAssumption DEF Days
<1>4. w \in [Isins -> 0 .. 4]
  BY WalkAssumption
<1>5. DayGrowth(w, d) = 4 + SumFunctionOnSet(f, DOMAIN m)
  BY DEF DayGrowth, SumFunction
<1> HIDE DEF p, m, g
<1>6. Len(m) \in Nat /\ DOMAIN m = 1 .. Len(m) /\ DOMAIN g = 1 .. Len(m)
  BY <1>2, <1>3
<1>7. \A r \in DOMAIN m : f[r] \in Int
  <2> SUFFICES ASSUME NEW r \in DOMAIN m PROVE f[r] \in Int
    OBVIOUS
  <2>1. w[m[r]] \in 0 .. 4
    BY <1>2, <1>4
  <2>2. g[r] \in Nat
    BY <1>3, <1>6
  <2> QED
    BY <2>1, <2>2
<1>8. IsFiniteSet(DOMAIN m)
  BY <1>6, FS_Interval
<1> HIDE DEF f
<1>9. SumFunctionOnSet(f, DOMAIN m) \in Int
  BY <1>7, <1>8, SumInt
<1> QED
  BY <1>5, <1>9

\* Compounding depends on the plan alone.
LEMMA CompoundedStays ==
  ASSUME plan' = plan, NEW v, NEW w, NEW dates
  PROVE  Compounded(v, w, dates)' = Compounded(v, w, dates)
  BY DEF Compounded, DayGrowth

\* A walk that was not begun satisfies the invariant.
LEMMA WalkInvInit == WalkInit => WalkInv
<1> SUFFICES ASSUME WalkInit PROVE WalkInv
  OBVIOUS
<1>1. WindowsCompound
  BY DEF WalkInit, WindowsCompound
<1>2. /\ plan = <<>> /\ splits = <<>> /\ start = 0 /\ wealth = <<>> /\ walked = FALSE
  BY DEF WalkInit
<1>3. <<>> \in Seq(SplitType) /\ <<>> \in Seq(Int) /\ 0 \in Nat
  OBVIOUS
<1> QED
  BY <1>1, <1>2, <1>3 DEF WalkInv

\* Beginning a walk does: no window is cut yet.
LEMMA BeginStep ==
  ASSUME WalkInv, NEW p \in Plans, NEW days \in [1 .. p.dates -> Days(p)], Begin(p, days)
  PROVE  WalkInv'
<1>0. /\ p.train \in Nat /\ p.test \in Nat /\ p.test > 0 /\ p.train > 0
  BY PlansAreNumbers
<1>1. plan' = [settings |-> p, days |-> days]
  BY DEF Begin
<1>2. plan'.settings = p /\ plan'.days = days
  BY <1>1
<1>3. plan' # <<>>
  BY <1>1
<1>4. /\ splits = <<>> /\ wealth = <<>> /\ ~walked /\ splits' = splits /\ wealth' = wealth
      /\ walked' = walked /\ start' = p.train /\ Accepts(p)
  BY DEF Begin, WalkInv
<1>5. Tested' = {}
  BY <1>4 DEF Tested
<1>6. WindowsCut'
  <2>1. Accepts(p)'
    BY <1>4 DEF Accepts
  <2>2. p.train + 1 .. p.train = {}
    BY <1>0
  <2>3. Len(splits') = 0 /\ DOMAIN splits' = {}
    BY <1>4
  <2>4. p.train = p.train + Len(splits') * p.test
    BY <1>0, <2>3
  <2> QED
    BY <1>0, <1>2, <1>4, <1>5, <2>1, <2>2, <2>3, <2>4 DEF WindowsCut, Accepts
<1>7. WindowsCompound'
  BY <1>4 DEF WindowsCompound
<1>8. start' \in Nat
  BY <1>0, <1>4
<1> QED
  BY <1>3, <1>4, <1>6, <1>7, <1>8 DEF WalkInv

\* Finishing one leaves the windows as they are.
LEMMA FinishStep == WalkInv /\ Finish => WalkInv'
<1> SUFFICES ASSUME WalkInv, Finish PROVE WalkInv'
  OBVIOUS
<1>1. /\ plan' = plan /\ splits' = splits /\ wealth' = wealth /\ start' = start
      /\ walked' = TRUE /\ plan # <<>>
      /\ start + plan.settings.test > plan.settings.dates
  BY DEF Finish
<1>2. Tested' = Tested
  BY <1>1 DEF Tested
<1>3. WindowsCut'
  BY <1>1, <1>2 DEF WalkInv, WindowsCut, Accepts, TrainDates, TestDates
<1>4. WindowsCompound'
  <2>1. \A w, ds : Compounded(Start, w, ds)' = Compounded(Start, w, ds)
    BY <1>1, CompoundedStays
  <2>2. WindowsCompound
    BY DEF WalkInv
  <2> QED
    BY <1>1, <2>1, <2>2 DEF WindowsCompound
<1> QED
  BY <1>1, <1>3, <1>4 DEF WalkInv

\* A step of another part leaves the walk as it is.
LEMMA UnchangedWalkStep == WalkInv /\ UNCHANGED walking => WalkInv'
<1> SUFFICES ASSUME WalkInv, UNCHANGED walking PROVE WalkInv'
  OBVIOUS
<1>1. /\ plan' = plan /\ splits' = splits /\ wealth' = wealth /\ start' = start
      /\ walked' = walked
  BY DEF walking
<1>2. Tested' = Tested
  BY <1>1 DEF Tested
<1>3. WindowsCut => WindowsCut'
  BY <1>1, <1>2 DEF WindowsCut, Accepts, TrainDates, TestDates
<1>4. WindowsCompound'
  <2>1. \A w, ds : Compounded(Start, w, ds)' = Compounded(Start, w, ds)
    BY <1>1, CompoundedStays
  <2>2. WindowsCompound
    BY DEF WalkInv
  <2> QED
    BY <1>1, <2>1, <2>2 DEF WindowsCompound
<1> QED
  BY <1>1, <1>3, <1>4 DEF WalkInv

\* Distributivity, for the start of the next window.
LEMMA ProductGrows ==
  ASSUME NEW n \in Nat, NEW t \in Nat
  PROVE  n * t \in Nat /\ (n + 1) * t = n * t + t
  OBVIOUS

\* A split adds the window that starts where the last one ended, compounded on from its
\* wealth.
LEMMA SplitStep ==
  ASSUME WalkInv, NEW w \in Weightings, Split(w)
  PROVE  WalkInv'
<1> DEFINE p == plan.settings
           opening == IF wealth = <<>> THEN Start ELSE wealth[Len(wealth)]
           new == [train |-> TrainDates(p, start), test |-> TestDates(p, start),
                   weights |-> w, turnover |-> Turnover(w)]
           paid == PostCost(Compounded(opening, w, TestDates(p, start)), Turnover(w))
           n == Len(splits)
<1>1. /\ plan # <<>> /\ ~walked /\ start + p.test <= p.dates
      /\ \A i \in Isins : w[i] <= p.maxWeight
      /\ splits' = Append(splits, new) /\ wealth' = Append(wealth, paid)
      /\ start' = start + p.test /\ plan' = plan /\ walked' = walked
  BY DEF Split, NextStart
<1>2. /\ WindowsCut /\ WindowsCompound /\ splits \in Seq(SplitType) /\ wealth \in Seq(Int)
      /\ Len(wealth) = n /\ start \in Nat /\ n \in Nat
  BY <1>1 DEF WalkInv
<1>3. p \in Plans /\ start = p.train + n * p.test
  BY <1>2 DEF WindowsCut
<1>4. /\ p.dates \in Nat /\ p.train \in Nat /\ p.test \in Nat /\ p.test > 0 /\ p.train > 0
      /\ p.dates <= MaxDates /\ p.dates > 0 /\ p.cost \in Nat /\ p.maxWeight \in Nat
      /\ MaxDates \in Nat
  BY <1>3, PlansAreNumbers, BoundsAreNat
<1> HIDE DEF p
<1>5. start >= p.train /\ start' \in Nat /\ start <= p.dates
  <2> DEFINE m == n * p.test
  <2>1. m \in Nat
    BY <1>2, <1>4, ProductGrows
  <2>2. start = p.train + m
    BY <1>3
  <2> HIDE DEF m, n
  <2>3. start >= p.train
    BY <1>4, <2>1, <2>2
  <2>4. start' = start + p.test /\ start + p.test <= p.dates /\ start \in Nat
    BY <1>1, <1>2
  <2> QED
    BY <1>4, <2>3, <2>4
<1>6. Turnover(w) \in 0 .. 4
  <2>1. CASE splits = <<>>
    BY <2>1 DEF Turnover
  <2>2. CASE splits # <<>>
    <3>0. splits[n] \in SplitType
      BY <1>2, <2>2
    <3>1. splits[n].weights \in Weightings
      BY <3>0 DEF SplitType
    <3>2. SumFunction(Moved(splits[n].weights, w)) \in 0 .. 8
      BY <3>1, MovedBounds
    <3> HIDE DEF n
    <3>3. SumFunction(Moved(splits[Len(splits)].weights, w)) \div 2 \in 0 .. 4
      BY <3>2 DEF n
    <3> QED
      BY <2>2, <3>3 DEF Turnover
  <2> QED
    BY <2>1, <2>2
<1>7. new \in SplitType
  BY <1>2, <1>4, <1>6 DEF SplitType, TrainDates, TestDates
<1>8. opening \in Int
  <2>1. Start \in Int
    BY WalkAssumption
  <2>2. wealth # <<>> => wealth[Len(wealth)] \in Int
    BY <1>2
  <2> QED
    BY <2>1, <2>2
<1>9. Compounded(opening, w, TestDates(p, start)) \in Int
  <2>1. \A d \in TestDates(p, start) : d \in 1 .. p.dates
    BY <1>1, <1>2, <1>4 DEF TestDates
  <2>2. \A d \in TestDates(p, start) : DayGrowth(w, d) \in Int
    BY <1>2, <2>1, GrowthsAreNumbers DEF p
  <2> HIDE DEF opening
  <2> QED
    BY <1>8, <2>2, CompoundedInt
<1>10. paid \in Int /\ (Turnover(w) = 0 => paid = Compounded(opening, w, TestDates(p, start)))
  <2> DEFINE x == Compounded(opening, w, TestDates(p, start))
             t == Turnover(w)
  <2>1. x \in Int /\ t \in Nat /\ paid = x - (x * t * p.cost) \div 16
    BY <1>6, <1>9 DEF PostCost, p
  <2> HIDE DEF x, t, paid
  <2>2. x * t * p.cost \in Int
    BY <1>4, <2>1
  <2>3. t = 0 => x * t * p.cost = 0
    BY <1>4, <2>1
  <2>4. paid \in Int
    BY <2>1, <2>2
  <2>5. t = 0 => paid = x
    BY <2>1, <2>3
  <2> QED
    BY <2>4, <2>5 DEF x, t
<1> HIDE DEF new, paid, opening
<1>11. /\ splits' \in Seq(SplitType) /\ wealth' \in Seq(Int) /\ Len(splits') = n + 1
       /\ Len(wealth') = n + 1 /\ splits'[n + 1] = new /\ wealth'[n + 1] = paid
       /\ \A k \in DOMAIN splits : splits'[k] = splits[k]
       /\ DOMAIN splits' = DOMAIN splits \cup {n + 1} /\ DOMAIN splits = 1 .. n
       /\ splits' # <<>>
  BY <1>1, <1>2, <1>7, <1>10
<1>12. new.train = TrainDates(p, start) /\ new.test = TestDates(p, start) /\ new.weights = w
       /\ new.turnover = Turnover(w)
  BY DEF new
<1>13. Tested = p.train + 1 .. start
  BY <1>2 DEF WindowsCut, p
<1>14. Tested' = Tested \cup new.test
  BY <1>11 DEF Tested
<1>15. Tested' = p.train + 1 .. start'
  <2>1. new.test = start + 1 .. start + p.test
    BY <1>12 DEF TestDates
  <2>2. /\ start' = start + p.test /\ start \in Nat /\ p.test \in Nat /\ p.train \in Nat
        /\ p.train <= start
    BY <1>1, <1>2, <1>4, <1>5
  <2>3. Tested' = (p.train + 1 .. start) \cup (start + 1 .. start + p.test)
    BY <1>13, <1>14, <2>1
  <2> HIDE DEF p
  <2> QED
    BY <2>2, <2>3
<1>16. p' = p
  BY <1>1 DEF p
<1>17. start' = p.train + (n + 1) * p.test
  <2> DEFINE m == n * p.test
  <2>1. m \in Nat /\ (n + 1) * p.test = m + p.test
    BY <1>2, <1>4, ProductGrows
  <2>2. start' = p.train + m + p.test
    BY <1>1, <1>3
  <2> HIDE DEF m, n
  <2> QED
    BY <1>4, <2>1, <2>2
<1>18. WindowsCut'
  <2>1. \A k \in DOMAIN splits :
          /\ \E s \in Nat : /\ s >= p.train
                            /\ splits[k].train = TrainDates(p, s)
                            /\ splits[k].test = TestDates(p, s)
          /\ \A i \in Isins : splits[k].weights[i] <= p.maxWeight
    BY <1>2 DEF WindowsCut, p
  <2>2. ASSUME NEW k \in DOMAIN splits'
        PROVE  /\ \E s \in Nat : /\ s >= p.train
                                 /\ splits'[k].train = TrainDates(p, s)
                                 /\ splits'[k].test = TestDates(p, s)
               /\ \A i \in Isins : splits'[k].weights[i] <= p.maxWeight
    <3>1. CASE k \in DOMAIN splits
      BY <1>11, <2>1, <3>1
    <3>2. CASE k = n + 1
      BY <1>1, <1>2, <1>5, <1>11, <1>12, <3>2
    <3> QED
      BY <1>11, <3>1, <3>2
  <2>3. Accepts(p) /\ plan.days \in [1 .. p.dates -> Days(p)]
    BY <1>2 DEF WindowsCut, p
  <2>4. Tested' = p'.train + 1 .. start'
    BY <1>15, <1>16
  <2>5. start' <= p'.dates /\ p' \in Plans /\ start' = p'.train + Len(splits') * p'.test
    BY <1>1, <1>3, <1>11, <1>16, <1>17
  <2>6. ~walked'
    BY <1>1
  <2>7. plan'.settings = p
    BY <1>1 DEF p
  <2> QED
    BY <1>1, <1>16, <2>2, <2>3, <2>4, <2>5, <2>6, <2>7
       DEF WindowsCut, Accepts, TrainDates, TestDates, p
<1>19. WindowsCompound'
  <2>0. \A u, ds : Compounded(Start, u, ds)' = Compounded(Start, u, ds)
    BY <1>1, CompoundedStays
  <2> SUFFICES ASSUME \A k \in DOMAIN splits' : splits'[k].weights = splits'[1].weights
               PROVE  wealth'[Len(wealth')] = Compounded(Start, splits'[1].weights, Tested')
    BY <2>0 DEF WindowsCompound, Tested
  <2>1. splits'[1].weights = w
    <3>1. n + 1 \in DOMAIN splits'
      BY <1>11
    <3> QED
      BY <1>11, <1>12, <3>1
  <2>2. wealth'[Len(wealth')] = paid
    BY <1>11
  <2>3. CASE splits = <<>>
    <3>1. n = 0 /\ wealth = <<>> /\ Tested = {}
      BY <1>2, <2>3 DEF Tested
    <3>2. opening = Start
      BY <3>1 DEF opening
    <3>3. Tested' = TestDates(p, start)
      BY <1>12, <1>14, <3>1
    <3>4. Turnover(w) = 0
      BY <2>3 DEF Turnover
    <3> QED
      BY <1>10, <2>1, <2>2, <3>2, <3>3, <3>4
  <2>4. CASE splits # <<>>
    <3>1. n > 0 /\ 1 \in DOMAIN splits /\ n \in DOMAIN splits
      BY <1>2, <1>11, <2>4
    <3>2. \A k \in DOMAIN splits : splits[k].weights = w
      BY <1>11, <2>1
    <3>3. wealth[Len(wealth)] = Compounded(Start, w, Tested)
      BY <1>2, <2>4, <3>1, <3>2 DEF WindowsCompound, Tested
    <3>4. wealth # <<>>
      BY <1>2, <3>1
    <3>5. opening = Compounded(Start, w, Tested)
      BY <3>3, <3>4 DEF opening
    <3>6. Turnover(w) = 0
      <4>1. splits[n].weights = w
        BY <3>1, <3>2
      <4>2. SumFunction(Moved(splits[n].weights, w)) = 0
        BY <4>1, MovedBounds
      <4> QED
        BY <2>4, <4>2 DEF Turnover
    <3>7. paid = Compounded(Compounded(Start, w, Tested), w, TestDates(p, start))
      BY <1>10, <3>5, <3>6
    <3>8. start \in 0 .. MaxDates
      BY <1>2, <1>4, <1>5
    <3>9. \A d \in Tested : d \in Nat /\ d <= start
      BY <1>2, <1>4, <1>13
    <3>10. \A d \in TestDates(p, start) : d \in Nat /\ d > start
      BY <1>2, <1>4 DEF TestDates
    <3>11. paid = Compounded(Start, w, Tested \cup TestDates(p, start))
      BY <3>7, <3>8, <3>9, <3>10, CompoundedJoins
    <3>12. Tested' = Tested \cup TestDates(p, start)
      BY <1>12, <1>14
    <3> QED
      BY <2>1, <2>2, <3>11, <3>12
  <2> QED
    BY <2>3, <2>4
<1> QED
  BY <1>1, <1>2, <1>5, <1>11, <1>18, <1>19 DEF WalkInv

\* Every step preserves the invariant.
LEMMA WalkInvStep == WalkInv /\ [WalkNext]_walking => WalkInv'
  BY BeginStep, SplitStep, FinishStep, UnchangedWalkStep DEF WalkNext

\* The invariant holds in every reachable state.
LEMMA WalkInvCorrect == WalkSpec => []WalkInv
<1>1. WalkInit => WalkInv
  BY WalkInvInit
<1>2. WalkInv /\ [WalkNext]_walking => WalkInv'
  BY WalkInvStep
<1> QED
  BY <1>1, <1>2, PTL DEF WalkSpec

\* The number of dates in a window.
LEMMA IntervalsCount ==
  ASSUME NEW a \in Nat, NEW b \in Nat, a <= b
  PROVE  Cardinality(a + 1 .. b) = b - a
<1>1. a + 1 \in Int /\ b \in Int
  OBVIOUS
<1>2. Cardinality(a + 1 .. b) = IF a + 1 > b THEN 0 ELSE b - (a + 1) + 1
  BY <1>1, FS_Interval
<1> QED
  BY <1>2

\* The product of numbers that are at least others is at least their product.
LEMMA ProductMonotone ==
  ASSUME NEW a \in Nat, NEW b \in Nat, NEW c \in Nat, NEW d \in Nat, a >= c, b >= d
  PROVE  a * b >= c * d
<1>1. (a - c) \in Nat /\ (b - d) \in Nat
  OBVIOUS
<1>2. a * b = c * d + (a - c) * d + a * (b - d)
  OBVIOUS
<1>3. (a - c) * d \in Nat /\ a * (b - d) \in Nat
  BY <1>1
<1> QED
  BY <1>2, <1>3

\* The invariant says that the splits are sound.
LEMMA SplitsAreSoundWhen == WalkInv => SplitsAreSound
<1> SUFFICES ASSUME WalkInv PROVE SplitsAreSound
  OBVIOUS
<1> DEFINE p == plan.settings
           n == Len(splits)
<1>0. /\ splits \in Seq(SplitType) /\ wealth \in Seq(Int) /\ Len(wealth) = Len(splits)
      /\ start \in Nat /\ walked \in BOOLEAN /\ WindowsCompound
      /\ plan = <<>> => splits = <<>> /\ ~walked
      /\ plan # <<>> => WindowsCut
      /\ n \in Nat /\ DOMAIN splits = 1 .. n
  BY DEF WalkInv
<1>1. ASSUME plan # <<>>
      PROVE  /\ p \in Plans /\ Accepts(p) /\ start = p.train + n * p.test
             /\ n # 0 => start <= p.dates
             /\ Tested = p.train + 1 .. start
             /\ \A k \in DOMAIN splits :
                  /\ \E s \in Nat : /\ s >= p.train
                                    /\ splits[k].train = TrainDates(p, s)
                                    /\ splits[k].test = TestDates(p, s)
                  /\ \A i \in Isins : splits[k].weights[i] <= p.maxWeight
             /\ walked => start + p.test > p.dates
             /\ p.dates \in Nat /\ p.train \in Nat /\ p.test \in Nat /\ p.test > 0 /\ p.train > 0
             /\ p.dates > 0
             /\ n * p.test \in Nat
             /\ start >= p.train /\ start - p.train = n * p.test
  <2>1. WindowsCut
    BY <1>0, <1>1
  <2>2. p \in Plans /\ start = p.train + n * p.test
    BY <2>1 DEF WindowsCut
  <2>3. /\ p.dates \in Nat /\ p.train \in Nat /\ p.test \in Nat /\ p.test > 0 /\ p.train > 0
        /\ p.dates > 0
    BY <2>2, PlansAreNumbers
  <2> DEFINE m == n * p.test
  <2>4. m \in Nat
    BY <1>0, <2>3, ProductGrows
  <2>5. start >= p.train /\ start - p.train = m
    <3>1. start = p.train + m
      BY <2>2
    <3> HIDE DEF m
    <3> QED
      BY <2>3, <2>4, <3>1
  <2>6. n # 0 => splits # <<>>
    OBVIOUS
  <2> QED
    BY <2>1, <2>2, <2>3, <2>4, <2>5, <2>6 DEF WindowsCut
<1>2. WalkTypeOK
  <2>1. \A k \in DOMAIN splits : splits[k] \in SplitType
    BY <1>0
  <2>2. \A k \in DOMAIN splits : splits[k].weights \in Weightings /\ splits[k].turnover \in 0 .. 4
    BY <2>1 DEF SplitType
  <2> QED
    BY <1>0, <2>2 DEF WalkTypeOK
<1>3. NoLookAhead
  <2> SUFFICES ASSUME NEW k \in DOMAIN splits
               PROVE  /\ \A d \in splits[k].train, e \in splits[k].test : d < e
                      /\ Cardinality(splits[k].train) >= plan.settings.train
    BY DEF NoLookAhead
  <2>0. plan # <<>>
    BY <1>0
  <2>1. PICK s \in Nat : /\ s >= p.train
                         /\ splits[k].train = TrainDates(p, s)
                         /\ splits[k].test = TestDates(p, s)
    BY <1>1, <2>0
  <2>2. p.train \in Nat /\ p.test \in Nat
    BY <1>1, <2>0
  <2>3. \A d \in TrainDates(p, s), e \in TestDates(p, s) : d < e
    BY <2>1, <2>2 DEF TrainDates, TestDates
  <2>4. Cardinality(TrainDates(p, s)) >= p.train
    <3>1. CASE p.mode = "expanding"
      <4>1. TrainDates(p, s) = 0 + 1 .. s
        BY <3>1 DEF TrainDates
      <4> QED
        BY <2>1, <2>2, <4>1, IntervalsCount
    <3>2. CASE p.mode # "expanding"
      <4>1. s - p.train \in Nat /\ s - p.train <= s
        BY <2>1, <2>2
      <4>2. TrainDates(p, s) = (s - p.train) + 1 .. s
        BY <3>2 DEF TrainDates
      <4>3. Cardinality(TrainDates(p, s)) = s - (s - p.train)
        BY <4>1, <4>2, IntervalsCount
      <4> QED
        BY <2>1, <2>2, <4>3
    <3> QED
      BY <3>1, <3>2
  <2> QED
    BY <2>1, <2>3, <2>4
<1>4. TestsTile
  <2> SUFFICES ASSUME plan # <<>>
               PROVE  /\ Tested = p.train + 1 .. p.train + Cardinality(Tested)
                      /\ Cardinality(Tested) = n * p.test
                      /\ Tested \subseteq 1 .. p.dates
                      /\ walked => p.dates - p.train - Cardinality(Tested) < p.test
    BY DEF TestsTile, Tested
  <2> DEFINE m == n * p.test
             c == Cardinality(Tested)
  <2>0. /\ p.dates \in Nat /\ p.train \in Nat /\ p.test \in Nat /\ start \in Nat
        /\ Tested = p.train + 1 .. start
        /\ n # 0 => start <= p.dates
        /\ walked => start + p.test > p.dates
    BY <1>0, <1>1
  <2>1. c = start - p.train
    BY <1>0, <1>1, IntervalsCount
  <2>2. c = m
    BY <1>1, <2>1
  <2>3. p.train + c = start
    BY <1>0, <1>1, <2>1
  <2>4. Tested \subseteq 1 .. p.dates
    <3>1. CASE n = 0
      BY <1>0, <3>1 DEF Tested
    <3>2. CASE n # 0
      <4> HIDE DEF n, p
      <4> QED
        BY <2>0, <3>2
    <3> QED
      BY <3>1, <3>2
  <2>5. walked => p.dates - p.train - c < p.test
    <3> HIDE DEF c, p, n
    <3> QED
      BY <2>0, <2>1
  <2> QED
    BY <1>1, <2>2, <2>3, <2>4, <2>5
<1>5. EligibleRunsAreLong
  <2> SUFFICES ASSUME walked, ProductionEligible
               PROVE  /\ p.dates >= MinTrain + MinSplits * MinTest
                      /\ \A k \in DOMAIN splits : \A i \in Isins : splits[k].weights[i] <= MaxWeight
    BY DEF EligibleRunsAreLong
  <2>0. plan # <<>>
    BY <1>0
  <2>1. /\ n >= MinSplits /\ p.train >= MinTrain /\ p.test >= MinTest /\ p.maxWeight <= MaxWeight
    BY <1>1, <2>0 DEF ProductionEligible, Accepts
  <2> DEFINE m == n * p.test
             least == MinSplits * MinTest
  <2>2. m >= least
    BY <1>0, <1>1, <2>0, <2>1, BoundsAreNat, ProductMonotone
  <2>3. m \in Nat /\ start - p.train = m /\ start <= p.dates
    BY <1>0, <1>1, <2>0, <2>1, BoundsAreNat
  <2>4. least \in Nat
    BY BoundsAreNat, ProductGrows
  <2>5. p.dates >= MinTrain + least
    <3>1. p.train \in Nat /\ p.dates \in Nat /\ MinTrain \in Nat
      BY <1>1, <2>0, BoundsAreNat
    <3> HIDE DEF m, least
    <3> QED
      BY <1>0, <2>1, <2>2, <2>3, <2>4, <3>1
  <2>6. \A k \in DOMAIN splits : \A i \in Isins : splits[k].weights[i] <= MaxWeight
    <3> SUFFICES ASSUME NEW k \in DOMAIN splits, NEW i \in Isins
                 PROVE  splits[k].weights[i] <= MaxWeight
      OBVIOUS
    <3>1. splits[k].weights[i] <= p.maxWeight
      BY <1>1, <2>0
    <3>2. splits[k].weights \in [Isins -> 0 .. 4]
      BY <1>2, WalkAssumption DEF WalkTypeOK
    <3>3. p.maxWeight \in Nat /\ MaxWeight \in Nat
      BY <1>1, <2>0, PlansAreNumbers, WalkAssumption
    <3> QED
      BY <2>1, <3>1, <3>2, <3>3
  <2> QED
    BY <2>5, <2>6
<1> QED
  BY <1>0, <1>2, <1>3, <1>4, <1>5 DEF SplitsAreSound

\* No window of build_walk_forward_backtest is optimized on dates it is tested on, no date is
\* skipped or tested twice, constant weights compound as if the dates were not cut, and an
\* eligible run is long enough: for every set of plans and growth factors.
THEOREM SplitsAreSoundCorrect == WalkSpec => []SplitsAreSound
  BY WalkInvCorrect, SplitsAreSoundWhen, PTL

------------------------------------------------------------------------------
(***************************************************************************)
(* Risk parity: clustering.  The program keeps a table of distances and    *)
(* takes the smaller one for a merged cluster.  The invariant says what    *)
(* that computes: the distance of two clusters is that of their closest    *)
(* listings, merges get farther, and no set of listings that is closed     *)
(* under a distance is ever split by one that is farther.                  *)
(***************************************************************************)

\* The ids of the clusters of a tree so far.
Ids == 0 .. Leaves + Len(heights) - 1

\* A sequence is a part of another.
Within(s, t) == \E i \in 0 .. Len(t) - Len(s) : SubSeq(t, i + 1, i + Len(s)) = s

\* No listing is in two clusters, or twice in one.
LeavesOnce ==
  \A c, e \in active : \A i \in DOMAIN leaves[c], j \in DOMAIN leaves[e] :
    leaves[c][i] = leaves[e][j] => c = e /\ i = j

ClustersKept ==
  /\ IsFiniteSet(active) /\ active \subseteq Ids /\ Cardinality(active) + Len(heights) = Leaves
  /\ DOMAIN leaves = Ids
  /\ \A c \in Ids : leaves[c] \in Seq(Leaf) /\ leaves[c] # <<>>
                    /\ \E e \in active : Within(leaves[c], leaves[e])
  /\ LeavesOnce
  /\ \A l \in Leaf : \E c \in active : l \in Range(leaves[c])

\* The distance of two clusters is that of their closest listings.
DistancesKept ==
  /\ PairsOf(Leaf) \cup PairsOf(active) \subseteq DOMAIN distance
  /\ \A q \in DOMAIN distance : q \in Ids \X Ids /\ q[1] < q[2] /\ distance[q] \in Nat
  /\ \A q \in PairsOf(active) :
       /\ \E a \in Range(leaves[q[1]]), b \in Range(leaves[q[2]]) :
            distance[Ordered(a, b)] = distance[q]
       /\ \A a \in Range(leaves[q[1]]), b \in Range(leaves[q[2]]) :
            distance[Ordered(a, b)] >= distance[q]

\* No listing is within h of a member but a member.
ClosedIn(d, h, S) == \A a \in S, b \in Leaf \ S : d[Ordered(a, b)] > h

\* Merges get farther, and no closed set of listings splits a cluster.
HeightsKept ==
  /\ heights \in Seq(Nat)
  /\ \A i \in 1 .. Len(heights) - 1 : heights[i] <= heights[i + 1]
  /\ heights # <<>> => \A q \in PairsOf(active) : distance[q] >= heights[Len(heights)]
  /\ \A S \in SUBSET Leaf : (heights # <<>> => ClosedIn(distance, heights[Len(heights)], S)) =>
       \A c \in active : Range(leaves[c]) \subseteq S \/ Range(leaves[c]) \cap S = {}

\* The inductive invariant of clustering.
ClusterInv ==
  IF active = {} THEN leaves = <<>> /\ heights = <<>> /\ pending = <<>> /\ weight = <<>>
  ELSE ClustersKept /\ DistancesKept /\ HeightsKept

\* There are listings, and their distances are natural numbers.
LEMMA LeavesAreNat == Leaves \in Nat /\ Leaves > 0 /\ Distances \subseteq Nat
  BY TreeAssumption

\* A sequence is a part of itself.
LEMMA WithinItself ==
  ASSUME NEW T, NEW s \in Seq(T)
  PROVE  Within(s, s)
<1>1. 0 \in 0 .. Len(s) - Len(s) /\ SubSeq(s, 0 + 1, 0 + Len(s)) = s
  OBVIOUS
<1> QED
  BY <1>1 DEF Within

\* What a part of a sequence holds.
LEMMA PartOf ==
  ASSUME NEW T, NEW s \in Seq(T), NEW r \in Seq(T), NEW i \in 0 .. Len(s) - Len(r),
         SubSeq(s, i + 1, i + Len(r)) = r
  PROVE  \A k \in 1 .. Len(r) : r[k] = s[i + k] /\ i + k \in 1 .. Len(s)
<1>0. Len(s) \in Nat /\ Len(r) \in Nat /\ i \in Nat
  OBVIOUS
<1> SUFFICES ASSUME NEW k \in 1 .. Len(r) PROVE r[k] = s[i + k] /\ i + k \in 1 .. Len(s)
  OBVIOUS
<1>1. i + k \in 1 .. Len(s) /\ k \in 1 .. (i + Len(r)) - (i + 1) + 1 /\ (i + 1) + k - 1 = i + k
  BY <1>0
<1>2. SubSeq(s, i + 1, i + Len(r))[k] = s[(i + 1) + k - 1]
  BY <1>0, <1>1
<1> QED
  BY <1>1, <1>2

\* A sequence found at a place of another is the part there.
LEMMA PartIs ==
  ASSUME NEW T, NEW s \in Seq(T), NEW r \in Seq(T), NEW i \in 0 .. Len(s) - Len(r),
         \A k \in 1 .. Len(r) : s[i + k] = r[k]
  PROVE  SubSeq(s, i + 1, i + Len(r)) = r
  OBVIOUS

\* A sequence found at a place of another is contiguous in it.
LEMMA FoundIsWithin ==
  ASSUME NEW T, NEW s \in Seq(T), NEW r \in Seq(T), NEW i \in 0 .. Len(s) - Len(r),
         \A k \in 1 .. Len(r) : s[i + k] = r[k]
  PROVE  Within(r, s)
<1>1. SubSeq(s, i + 1, i + Len(r)) = r
  BY PartIs
<1> QED
  BY <1>1 DEF Within

\* A part of a sequence is one of any it is joined to.
LEMMA WithinJoined ==
  ASSUME NEW T, NEW s \in Seq(T), NEW t \in Seq(T), NEW r \in Seq(T), Within(r, s) \/ Within(r, t)
  PROVE  Within(r, s \o t)
<1>0. /\ s \o t \in Seq(T) /\ Len(s \o t) = Len(s) + Len(t)
      /\ Len(s) \in Nat /\ Len(t) \in Nat /\ Len(r) \in Nat
      /\ \A k \in 1 .. Len(s) : (s \o t)[k] = s[k]
      /\ \A k \in 1 .. Len(t) : (s \o t)[Len(s) + k] = t[k]
  OBVIOUS
<1> DEFINE u == s \o t
<1>1. CASE Within(r, s)
  <2>1. PICK i \in 0 .. Len(s) - Len(r) : SubSeq(s, i + 1, i + Len(r)) = r
    BY <1>1 DEF Within
  <2>2. i \in 0 .. Len(u) - Len(r)
    BY <1>0
  <2>3. \A k \in 1 .. Len(r) : r[k] = s[i + k] /\ i + k \in 1 .. Len(s)
    BY <2>1, PartOf
  <2>4. ASSUME NEW k \in 1 .. Len(r) PROVE u[i + k] = r[k]
    <3>1. r[k] = s[i + k] /\ i + k \in 1 .. Len(s)
      BY <2>3
    <3>2. u[i + k] = s[i + k]
      BY <1>0, <3>1
    <3> HIDE DEF u
    <3> QED
      BY <3>1, <3>2
  <2>5. u \in Seq(T)
    BY <1>0
  <2> HIDE DEF u
  <2>6. Within(r, u)
    BY <2>2, <2>4, <2>5, FoundIsWithin
  <2> QED
    BY <2>6 DEF u
<1>2. CASE Within(r, t)
  <2>1. PICK j \in 0 .. Len(t) - Len(r) : SubSeq(t, j + 1, j + Len(r)) = r
    BY <1>2 DEF Within
  <2> DEFINE i == Len(s) + j
  <2>2. i \in 0 .. Len(u) - Len(r)
    BY <1>0
  <2>3. \A k \in 1 .. Len(r) : r[k] = t[j + k] /\ j + k \in 1 .. Len(t)
    BY <2>1, PartOf
  <2>4. ASSUME NEW k \in 1 .. Len(r) PROVE u[i + k] = r[k]
    <3>1. r[k] = t[j + k] /\ j + k \in 1 .. Len(t)
      BY <2>3
    <3>2. i + k = Len(s) + (j + k)
      BY <1>0, <2>1
    <3>3. u[Len(s) + (j + k)] = t[j + k]
      BY <1>0, <3>1
    <3> HIDE DEF u, i
    <3> QED
      BY <3>1, <3>2, <3>3
  <2>5. u \in Seq(T)
    BY <1>0
  <2> HIDE DEF u, i
  <2>6. Within(r, u)
    BY <2>2, <2>4, <2>5, FoundIsWithin
  <2> QED
    BY <2>6 DEF u
<1> QED
  BY <1>1, <1>2

\* A joined sequence holds what the two do.
LEMMA JoinedRange ==
  ASSUME NEW T, NEW s \in Seq(T), NEW t \in Seq(T)
  PROVE  Range(s \o t) = Range(s) \cup Range(t) /\ Range(s) \subseteq T
<1>0. /\ DOMAIN (s \o t) = 1 .. Len(s) + Len(t) /\ DOMAIN s = 1 .. Len(s) /\ DOMAIN t = 1 .. Len(t)
      /\ Len(s) \in Nat /\ Len(t) \in Nat
      /\ \A k \in 1 .. Len(s) : (s \o t)[k] = s[k]
      /\ \A k \in 1 .. Len(t) : (s \o t)[Len(s) + k] = t[k]
  OBVIOUS
<1> DEFINE u == s \o t
<1>1. \A k \in DOMAIN u : k \in DOMAIN s \/ (k - Len(s) \in DOMAIN t /\ u[k] = t[k - Len(s)])
  <2> SUFFICES ASSUME NEW k \in DOMAIN u, k \notin DOMAIN s
               PROVE  k - Len(s) \in DOMAIN t /\ u[k] = t[k - Len(s)]
    OBVIOUS
  <2>1. k - Len(s) \in 1 .. Len(t) /\ Len(s) + (k - Len(s)) = k
    BY <1>0
  <2> QED
    BY <1>0, <2>1
<1>2. \A k \in DOMAIN t : Len(s) + k \in DOMAIN u /\ u[Len(s) + k] = t[k]
  BY <1>0
<1>3. \A k \in DOMAIN s : k \in DOMAIN u /\ u[k] = s[k]
  BY <1>0
<1> HIDE DEF u
<1>4. Range(u) = Range(s) \cup Range(t)
  BY <1>1, <1>2, <1>3 DEF Range
<1>5. Range(s) \subseteq T
  BY DEF Range
<1> QED
  BY <1>4, <1>5 DEF u

\* A sequence that holds every listing once is as long as there are listings.
LEMMA OrderIsWhole ==
  ASSUME NEW s \in Seq(Leaf), Range(s) = Leaf, \A i, j \in DOMAIN s : s[i] = s[j] => i = j
  PROVE  Len(s) = Leaves
<1>1. s \in Bijection(1 .. Len(s), Leaf)
  BY DEF Bijection, Injection, Surjection, IsInjective, Range
<1>2. Len(s) \in Nat
  OBVIOUS
<1>3. Cardinality(Leaf) = Len(s)
  BY <1>1, <1>2, FS_CountingElements DEF ExistsBijection
<1>4. Cardinality(0 .. Leaves - 1) = Leaves
  <2>1. 0 \in Int /\ Leaves - 1 \in Int /\ Leaves \in Nat /\ Leaves > 0
    BY LeavesAreNat
  <2> HIDE DEF Leaf
  <2> QED
    BY <2>1, FS_Interval
<1> QED
  BY <1>3, <1>4 DEF Leaf

\* The closest pair is of A clusters, and no pair is closer.
LEMMA ClosestExists ==
  ASSUME NEW A, IsFiniteSet(A), A \subseteq Int, PairsOf(A) # {}, NEW D,
         \A q \in PairsOf(A) : D[q] \in Int
  PROVE  \E p \in PairsOf(A) : \A q \in PairsOf(A) :
           D[p] < D[q] \/ (D[p] = D[q] /\ Before(p, q))
<1> DEFINE F == PairsOf(A)
           B == {r \in F \X F : D[r[1]] < D[r[2]]}
           L == {r \in F \X F : Before(r[1], r[2])}
<1>1. IsFiniteSet(F)
  <2>1. IsFiniteSet(A \X A)
    BY FS_Product
  <2> QED
    BY <2>1, FS_Subset DEF PairsOf
<1>2. \A q \in F : D[q] \in Int /\ q[1] \in Int /\ q[2] \in Int /\ q = <<q[1], q[2]>>
  <2> SUFFICES ASSUME NEW q \in F
               PROVE  D[q] \in Int /\ q[1] \in Int /\ q[2] \in Int /\ q = <<q[1], q[2]>>
    OBVIOUS
  <2>1. q \in A \X A
    BY DEF PairsOf
  <2>2. q[1] \in A /\ q[2] \in A /\ q = <<q[1], q[2]>>
    BY <2>1
  <2>3. D[q] \in Int
    OBVIOUS
  <2> HIDE DEF F
  <2> QED
    BY <2>2, <2>3
<1>3. \A u, v \in F : /\ <<u, v>> \in B <=> D[u] < D[v]
                      /\ <<u, v>> \in L <=> Before(u, v)
  OBVIOUS
<1> HIDE DEF F, B, L
<1>4. \E v \in F : \A w \in F :
        v = w \/ <<v, w>> \in B \/ (<<w, v>> \notin B /\ <<v, w>> \in L)
  <2>1. \A u, v \in F : <<u, v>> \in B => <<v, u>> \notin B
    BY <1>2, <1>3
  <2>2. \A u, v, w \in F : <<u, w>> \in B => <<u, v>> \in B \/ <<v, w>> \in B
    BY <1>2, <1>3
  <2>3. \A u, v \in F : u # v => <<u, v>> \in L \/ <<v, u>> \in L
    BY <1>2, <1>3 DEF Before
  <2>4. \A u, v, w \in F : <<u, v>> \in L /\ <<v, w>> \in L => <<u, w>> \in L
    BY <1>2, <1>3 DEF Before
  <2>5. F # {}
    BY DEF F
  <2>6. Ranks(F, B, L)
    BY <2>1, <2>2, <2>3, <2>4 DEF Ranks
  <2> QED
    BY <1>1, <2>5, <2>6, BestExists
<1>c. PICK v \in F : \A w \in F :
        v = w \/ <<v, w>> \in B \/ (<<w, v>> \notin B /\ <<v, w>> \in L)
  BY <1>4
<1>5. \A w \in F : D[v] < D[w] \/ (D[v] = D[w] /\ Before(v, w))
  <2> SUFFICES ASSUME NEW w \in F
               PROVE  D[v] < D[w] \/ (D[v] = D[w] /\ Before(v, w))
    OBVIOUS
  <2>1. D[v] \in Int /\ D[w] \in Int /\ v[1] \in Int /\ v[2] \in Int
    BY <1>2
  <2>2. CASE v = w
    BY <2>1, <2>2 DEF Before
  <2>3. CASE v # w
    <3>1. <<v, w>> \in B \/ (<<w, v>> \notin B /\ <<v, w>> \in L)
      BY <1>c, <2>3
    <3>2. D[v] < D[w] \/ (~(D[w] < D[v]) /\ Before(v, w))
      BY <1>3, <3>1
    <3> QED
      BY <2>1, <3>2
  <2> QED
    BY <2>2, <2>3
<1> QED
  BY <1>5 DEF F

\* The closest pair is a pair, and no pair is closer.
LEMMA ClosestIs ==
  ASSUME IsFiniteSet(active), active \subseteq Int, PairsOf(active) # {},
         \A q \in PairsOf(active) : distance[q] \in Int
  PROVE  /\ Closest \in PairsOf(active)
         /\ \A q \in PairsOf(active) : distance[Closest] <= distance[q]
<1>1. \E p \in PairsOf(active) : \A q \in PairsOf(active) :
        distance[p] < distance[q] \/ (distance[p] = distance[q] /\ Before(p, q))
  BY ClosestExists
<1>2. /\ Closest \in PairsOf(active)
      /\ \A q \in PairsOf(active) : distance[Closest] < distance[q]
                      \/ (distance[Closest] = distance[q] /\ Before(Closest, q))
  BY <1>1 DEF Closest
<1> QED
  BY <1>2

\* What a sequence holds has its type.
LEMMA RangeIn ==
  ASSUME NEW T, NEW s \in Seq(T)
  PROVE  Range(s) \subseteq T
  BY DEF Range

\* More than one cluster means a pair of them.
LEMMA TwoArePair ==
  ASSUME NEW S, IsFiniteSet(S), S \subseteq Int, Cardinality(S) > 1
  PROVE  PairsOf(S) # {}
<1>1. PICK a \in S : TRUE
  <2>1. SUFFICES ASSUME S = {} PROVE FALSE
    OBVIOUS
  <2> QED
    BY <2>1, FS_EmptySet
<1>2. PICK b \in S : a # b
  <2>1. SUFFICES ASSUME S = {a} PROVE FALSE
    OBVIOUS
  <2> QED
    BY <2>1, FS_Singleton
<1>3. CASE a < b
  <2>1. <<a, b>> \in PairsOf(S)
    BY <1>3 DEF PairsOf
  <2> QED
    BY <2>1
<1>4. CASE b < a
  <2>1. <<b, a>> \in PairsOf(S)
    BY <1>4 DEF PairsOf
  <2> QED
    BY <2>1
<1> QED
  BY <1>2, <1>3, <1>4

\* The two of a pair are clusters, the one with the smaller id first.
LEMMA PairIs ==
  ASSUME NEW S, NEW q \in PairsOf(S)
  PROVE  q[1] \in S /\ q[2] \in S /\ q[1] < q[2] /\ q = <<q[1], q[2]>>
<1>1. q \in S \X S /\ q[1] < q[2]
  BY DEF PairsOf
<1> QED
  BY <1>1

\* A pair does not depend on the order its clusters are named in.
LEMMA OrderedIs ==
  ASSUME NEW S, S \subseteq Int, NEW a \in S, NEW b \in S
  PROVE  /\ Ordered(a, b) = Ordered(b, a)
         /\ a # b => Ordered(a, b) \in PairsOf(S)
         /\ a < b => Ordered(a, b) = <<a, b>>
<1>1. CASE a < b
  <2>1. <<a, b>> \in PairsOf(S)
    BY <1>1 DEF PairsOf
  <2>2. ~(b < a)
    BY <1>1
  <2> QED
    BY <1>1, <2>1, <2>2 DEF Ordered
<1>2. CASE b < a
  <2>1. <<b, a>> \in PairsOf(S)
    BY <1>2 DEF PairsOf
  <2>2. ~(a < b)
    BY <1>2
  <2> QED
    BY <1>2, <2>1, <2>2 DEF Ordered
<1>3. CASE a = b
  BY <1>3 DEF Ordered
<1> QED
  BY <1>1, <1>2, <1>3

\* The closest listings of two clusters are as far apart as the clusters.
LEMMA ClustersAreNear ==
  ASSUME ClustersKept, DistancesKept, NEW c \in active, NEW e \in active, c # e
  PROVE  /\ Ordered(c, e) \in PairsOf(active)
         /\ distance[Ordered(c, e)] \in Nat
         /\ \E a \in Range(leaves[c]), b \in Range(leaves[e]) :
              distance[Ordered(a, b)] = distance[Ordered(c, e)]
         /\ \A a \in Range(leaves[c]), b \in Range(leaves[e]) :
              distance[Ordered(a, b)] >= distance[Ordered(c, e)]
<1>0. active \subseteq Int /\ active \subseteq Ids
  BY LeavesAreNat DEF ClustersKept, Ids
<1>1. Ordered(c, e) \in PairsOf(active)
  BY <1>0, OrderedIs
<1>2. distance[Ordered(c, e)] \in Nat
  BY <1>1 DEF DistancesKept
<1>3. \A x \in active : Range(leaves[x]) \subseteq Int
  <2>1. \A x \in active : leaves[x] \in Seq(Leaf)
    BY <1>0 DEF ClustersKept
  <2>2. Leaf \subseteq Int
    BY LeavesAreNat DEF Leaf
  <2>3. \A x \in active : Range(leaves[x]) \subseteq Leaf
    BY <2>1, RangeIn
  <2> QED
    BY <2>2, <2>3
<1>4. \A a \in Range(leaves[c]), b \in Range(leaves[e]) : Ordered(a, b) = Ordered(b, a)
  <2> SUFFICES ASSUME NEW a \in Range(leaves[c]), NEW b \in Range(leaves[e])
               PROVE  Ordered(a, b) = Ordered(b, a)
    OBVIOUS
  <2>1. a \in Int /\ b \in Int
    BY <1>3
  <2> QED
    BY <2>1, OrderedIs
<1>5. CASE c < e
  <2>1. Ordered(c, e) = <<c, e>> /\ <<c, e>> \in PairsOf(active)
    BY <1>1, <1>5 DEF Ordered
  <2> DEFINE q == <<c, e>>
  <2>2. q[1] = c /\ q[2] = e
    OBVIOUS
  <2>3. /\ \E a \in Range(leaves[q[1]]), b \in Range(leaves[q[2]]) :
             distance[Ordered(a, b)] = distance[q]
        /\ \A a \in Range(leaves[q[1]]), b \in Range(leaves[q[2]]) :
             distance[Ordered(a, b)] >= distance[q]
    BY <2>1 DEF DistancesKept
  <2> QED
    BY <1>1, <1>2, <2>1, <2>2, <2>3
<1>6. CASE e < c
  <2>0. ~(c < e)
    BY <1>0, <1>6
  <2>1. Ordered(c, e) = <<e, c>> /\ <<e, c>> \in PairsOf(active)
    BY <1>1, <2>0 DEF Ordered
  <2> DEFINE q == <<e, c>>
  <2>2. q[1] = e /\ q[2] = c
    OBVIOUS
  <2>3. /\ \E a \in Range(leaves[q[1]]), b \in Range(leaves[q[2]]) :
             distance[Ordered(a, b)] = distance[q]
        /\ \A a \in Range(leaves[q[1]]), b \in Range(leaves[q[2]]) :
             distance[Ordered(a, b)] >= distance[q]
    BY <2>1 DEF DistancesKept
  <2>4. /\ \E a \in Range(leaves[e]), b \in Range(leaves[c]) :
             distance[Ordered(a, b)] = distance[q]
        /\ \A a \in Range(leaves[e]), b \in Range(leaves[c]) :
             distance[Ordered(a, b)] >= distance[q]
    BY <2>2, <2>3
  <2>5. \E a \in Range(leaves[c]), b \in Range(leaves[e]) : distance[Ordered(a, b)] = distance[q]
    BY <1>4, <2>4
  <2>6. \A a \in Range(leaves[c]), b \in Range(leaves[e]) : distance[Ordered(a, b)] >= distance[q]
    BY <1>4, <2>4
  <2> QED
    BY <1>1, <1>2, <2>1, <2>5, <2>6
<1> QED
  BY <1>0, <1>5, <1>6

\* What a merge does.
MergeOf(p, new) ==
  /\ p \in PairsOf(active) /\ \A q \in PairsOf(active) : distance[p] <= distance[q]
  /\ p[1] \in active /\ p[2] \in active /\ p[1] < p[2] /\ p = <<p[1], p[2]>>
  /\ active' = (active \ {p[1], p[2]}) \cup {new}
  /\ DOMAIN distance' = DOMAIN distance \cup {<<c, new>> : c \in active \ {p[1], p[2]}}
  /\ \A q \in DOMAIN distance : distance'[q] = distance[q]
  /\ \A c \in active \ {p[1], p[2]} : distance'[<<c, new>>] = DistanceTo(p, c)
  /\ DOMAIN leaves' = Ids \cup {new}
  /\ \A c \in Ids : leaves'[c] = leaves[c]
  /\ leaves'[new] = leaves[p[1]] \o leaves[p[2]]
  /\ heights' = Append(heights, distance[p])
  /\ new \in Nat /\ Ids = 0 .. new - 1 /\ Ids' = 0 .. new /\ new = Leaves + Len(heights)
  /\ Ids' = Ids \cup {new} /\ active \subseteq Ids /\ Ids \subseteq Int /\ Leaf \subseteq Ids

\* A step of merging is a merge of the closest pair.
LEMMA MergeIs ==
  ASSUME ClustersKept, DistancesKept, HeightsKept, Merge
  PROVE  \E p, new : MergeOf(p, new)
<1> DEFINE p == Closest
           new == Leaves + Len(heights)
           rest == active \ {p[1], p[2]}
           D == DOMAIN distance \cup {<<c, new>> : c \in rest}
<1>1. /\ IsFiniteSet(active) /\ active \subseteq Ids /\ DOMAIN leaves = Ids /\ heights \in Seq(Nat)
      /\ Cardinality(active) > 1
      /\ active' = rest \cup {new}
      /\ distance' = [q \in D |-> IF q[2] = new THEN DistanceTo(p, q[1]) ELSE distance[q]]
      /\ leaves' = [c \in DOMAIN leaves \cup {new} |->
                        IF c = new THEN leaves[p[1]] \o leaves[p[2]] ELSE leaves[c]]
      /\ heights' = Append(heights, distance[p])
  BY DEF ClustersKept, HeightsKept, Merge, Join
<1>2. Len(heights) \in Nat /\ Len(heights') = Len(heights) + 1 /\ Leaves \in Nat /\ Leaves > 0
  BY <1>1, LeavesAreNat
<1>3. new \in Nat /\ Ids = 0 .. new - 1 /\ Ids' = 0 .. new
  BY <1>2 DEF Ids
<1>4. Ids' = Ids \cup {new} /\ new \notin Ids /\ Ids \subseteq Int
  BY <1>3
<1>5. Leaf \subseteq Ids
  BY <1>2 DEF Ids, Leaf
<1> HIDE DEF new
<1>6. PairsOf(active) # {} /\ active \subseteq Int
  <2>1. active \subseteq Int
    BY <1>1, <1>4
  <2> QED
    BY <1>1, <2>1, TwoArePair
<1>7. \A q \in PairsOf(active) : distance[q] \in Int
  BY DEF DistancesKept
<1>8. p \in PairsOf(active) /\ \A q \in PairsOf(active) : distance[p] <= distance[q]
  BY <1>1, <1>6, <1>7, ClosestIs
<1> HIDE DEF p
<1>9. p[1] \in active /\ p[2] \in active /\ p[1] < p[2] /\ p = <<p[1], p[2]>>
  BY <1>8, PairIs
<1>10. \A q \in DOMAIN distance : distance'[q] = distance[q]
  <2> SUFFICES ASSUME NEW q \in DOMAIN distance PROVE distance'[q] = distance[q]
    OBVIOUS
  <2>1. q \in Ids \X Ids
    BY DEF DistancesKept
  <2>2. q[2] \in Ids
    BY <2>1
  <2>3. q[2] # new
    BY <1>4, <2>2
  <2> QED
    BY <1>1, <2>3
<1>11. \A c \in rest : distance'[<<c, new>>] = DistanceTo(p, c)
  <2> SUFFICES ASSUME NEW c \in rest PROVE distance'[<<c, new>>] = DistanceTo(p, c)
    OBVIOUS
  <2>1. <<c, new>> \in D
    OBVIOUS
  <2>2. <<c, new>>[1] = c /\ <<c, new>>[2] = new
    OBVIOUS
  <2> HIDE DEF D
  <2> QED
    BY <1>1, <2>1, <2>2
<1>12. DOMAIN distance' = DOMAIN distance \cup {<<c, new>> : c \in rest}
  BY <1>1
<1>13. /\ DOMAIN leaves' = Ids \cup {new} /\ \A c \in Ids : leaves'[c] = leaves[c]
       /\ leaves'[new] = leaves[p[1]] \o leaves[p[2]]
  BY <1>1, <1>4
<1>14. new = Leaves + Len(heights)
  BY DEF new
<1>15. MergeOf(p, new)
  BY <1>1, <1>3, <1>4, <1>5, <1>8, <1>9, <1>10, <1>11, <1>12, <1>13, <1>14 DEF MergeOf
<1> QED
  BY <1>15

\* The places of a joined sequence.
LEMMA JoinedIs ==
  ASSUME NEW T, NEW s \in Seq(T), NEW t \in Seq(T)
  PROVE  /\ DOMAIN (s \o t) = 1 .. Len(s) + Len(t) /\ DOMAIN s = 1 .. Len(s)
         /\ DOMAIN t = 1 .. Len(t) /\ Len(s) \in Nat /\ Len(t) \in Nat
         /\ \A k \in 1 .. Len(s) : (s \o t)[k] = s[k]
         /\ \A k \in 1 .. Len(t) : (s \o t)[Len(s) + k] = t[k]
  OBVIOUS

\* A place in a joined sequence is one of the first, or one of the second.
LEMMA JoinedAt ==
  ASSUME NEW T, NEW s \in Seq(T), NEW t \in Seq(T), NEW i \in DOMAIN (s \o t)
  PROVE  /\ i \in Int /\ Len(s) \in Nat
         /\ \/ i \in DOMAIN s /\ (s \o t)[i] = s[i]
            \/ i - Len(s) \in DOMAIN t /\ (s \o t)[i] = t[i - Len(s)]
<1> DEFINE u == s \o t
<1>0. /\ DOMAIN u = 1 .. Len(s) + Len(t) /\ DOMAIN s = 1 .. Len(s)
      /\ DOMAIN t = 1 .. Len(t) /\ Len(s) \in Nat /\ Len(t) \in Nat
      /\ \A k \in 1 .. Len(s) : u[k] = s[k]
      /\ \A k \in 1 .. Len(t) : u[Len(s) + k] = t[k]
      /\ i \in DOMAIN u
  BY JoinedIs
<1> HIDE DEF u
<1>1. i \in 1 .. Len(s) + Len(t) /\ i \in Int
  BY <1>0
<1>2. CASE i <= Len(s)
  BY <1>0, <1>1, <1>2 DEF u
<1>3. CASE i > Len(s)
  <2>1. i - Len(s) \in 1 .. Len(t) /\ Len(s) + (i - Len(s)) = i
    BY <1>0, <1>1, <1>3
  <2>2. u[i] = t[i - Len(s)]
    BY <1>0, <2>1
  <2> QED
    BY <1>0, <1>1, <2>1, <2>2 DEF u
<1> QED
  BY <1>0, <1>1, <1>2, <1>3

\* A merge keeps the listings of the clusters apart.
LEMMA MergeKeepsClusters ==
  ASSUME ClustersKept, HeightsKept, NEW p, NEW new, MergeOf(p, new)
  PROVE  ClustersKept'
<1> DEFINE s == leaves[p[1]]
           t == leaves[p[2]]
           rest == active \ {p[1], p[2]}
<1>1. /\ p[1] \in active /\ p[2] \in active /\ p[1] # p[2]
      /\ active' = rest \cup {new}
      /\ new \notin Ids /\ active \subseteq Ids /\ Ids' = Ids \cup {new}
      /\ DOMAIN leaves' = Ids \cup {new} /\ \A c \in Ids : leaves'[c] = leaves[c]
      /\ leaves'[new] = s \o t /\ heights' = Append(heights, distance[p])
      /\ rest \subseteq Ids
  BY DEF MergeOf
<1>2. /\ IsFiniteSet(active) /\ Cardinality(active) + Len(heights) = Leaves
      /\ \A c \in Ids : leaves[c] \in Seq(Leaf) /\ leaves[c] # <<>>
                        /\ \E e \in active : Within(leaves[c], leaves[e])
      /\ LeavesOnce
      /\ \A l \in Leaf : \E c \in active : l \in Range(leaves[c])
      /\ heights \in Seq(Nat) /\ Leaves \in Nat
  BY LeavesAreNat DEF ClustersKept, HeightsKept
<1>3. s \in Seq(Leaf) /\ t \in Seq(Leaf) /\ s # <<>> /\ t # <<>>
  BY <1>1, <1>2
<1>4. IsFiniteSet(active') /\ Cardinality(active') + Len(heights') = Leaves
  <2>1. IsFiniteSet(active \ {p[1]}) /\ Cardinality(active \ {p[1]}) = Cardinality(active) - 1
    BY <1>1, <1>2, FS_RemoveElement
  <2>2. rest = (active \ {p[1]}) \ {p[2]} /\ p[2] \in active \ {p[1]}
    BY <1>1
  <2>3. IsFiniteSet(rest) /\ Cardinality(rest) = Cardinality(active) - 1 - 1
    <3>1. /\ IsFiniteSet((active \ {p[1]}) \ {p[2]})
          /\ Cardinality((active \ {p[1]}) \ {p[2]}) = Cardinality(active \ {p[1]}) - 1
      BY <2>1, <2>2, FS_RemoveElement
    <3> HIDE DEF rest
    <3> QED
      BY <2>1, <2>2, <3>1
  <2>4. new \notin rest
    BY <1>1
  <2>5. IsFiniteSet(active') /\ Cardinality(active') = Cardinality(active) - 1 - 1 + 1
    <3>1. active' = rest \cup {new}
      BY <1>1
    <3> HIDE DEF rest
    <3>2. IsFiniteSet(rest \cup {new}) /\ Cardinality(rest \cup {new}) = Cardinality(rest) + 1
      BY <2>3, <2>4, FS_AddElement
    <3> QED
      BY <2>3, <3>1, <3>2
  <2>6. Len(heights') = Len(heights) + 1 /\ Len(heights) \in Nat
    BY <1>1, <1>2
  <2>7. Cardinality(active) \in Nat
    BY <1>2, FS_CardinalityType
  <2> QED
    BY <1>2, <2>5, <2>6, <2>7
<1>5. ASSUME NEW c \in Ids'
      PROVE  /\ leaves'[c] \in Seq(Leaf) /\ leaves'[c] # <<>>
             /\ \E e \in active' : Within(leaves'[c], leaves'[e])
  <2>0. s \o t \in Seq(Leaf) /\ s \o t # <<>>
    BY <1>3
  <2>1. CASE c \in Ids
    <3>1. leaves'[c] = leaves[c] /\ leaves[c] \in Seq(Leaf) /\ leaves[c] # <<>>
      BY <1>1, <1>2, <2>1
    <3>2. PICK e \in active : Within(leaves[c], leaves[e])
      BY <1>2, <2>1
    <3>3. CASE e \in rest
      BY <1>1, <3>1, <3>2, <3>3
    <3>4. CASE e \notin rest
      <4>1. Within(leaves[c], s) \/ Within(leaves[c], t)
        BY <3>2, <3>4
      <4>2. Within(leaves[c], s \o t)
        BY <1>3, <3>1, <4>1, WithinJoined
      <4>3. new \in active' /\ leaves'[new] = s \o t
        BY <1>1
      <4>4. Within(leaves'[c], leaves'[new])
        BY <3>1, <4>2, <4>3
      <4> QED
        BY <3>1, <4>3, <4>4
    <3> QED
      BY <3>3, <3>4
  <2>2. CASE c = new
    <3>1. Within(s \o t, s \o t)
      BY <2>0, WithinItself
    <3>2. leaves'[new] = s \o t /\ new \in active'
      BY <1>1
    <3> HIDE DEF s, t
    <3> QED
      BY <2>0, <2>2, <3>1, <3>2
  <2> QED
    BY <1>1, <2>1, <2>2
<1>6. \A l \in Leaf : \E c \in active' : l \in Range(leaves'[c])
  <2> SUFFICES ASSUME NEW l \in Leaf PROVE \E c \in active' : l \in Range(leaves'[c])
    OBVIOUS
  <2>1. PICK c \in active : l \in Range(leaves[c])
    BY <1>2
  <2>2. CASE c \in rest
    BY <1>1, <2>1, <2>2
  <2>3. CASE c \notin rest
    <3>1. l \in Range(s) \cup Range(t)
      BY <2>1, <2>3
    <3>2. l \in Range(s \o t)
      BY <1>3, <3>1, JoinedRange
    <3> QED
      BY <1>1, <3>2
  <2> QED
    BY <2>2, <2>3
<1>7. LeavesOnce'
  <2> DEFINE u == s \o t
  <2>1. \A c, e \in active : \A i \in DOMAIN leaves[c], j \in DOMAIN leaves[e] :
          leaves[c][i] = leaves[e][j] => c = e /\ i = j
    BY <1>2 DEF LeavesOnce
  <2>2. \A i \in DOMAIN u : /\ i \in Int /\ Len(s) \in Nat
                            /\ \/ i \in DOMAIN s /\ u[i] = s[i]
                               \/ i - Len(s) \in DOMAIN t /\ u[i] = t[i - Len(s)]
    BY <1>3, JoinedAt
  <2> HIDE DEF u, s, t
  <2>4. \A i, j \in DOMAIN s : s[i] = s[j] => i = j
    BY <1>1, <2>1 DEF s
  <2>5. \A i, j \in DOMAIN t : t[i] = t[j] => i = j
    BY <1>1, <2>1 DEF t
  <2>6. \A i \in DOMAIN s, j \in DOMAIN t : s[i] # t[j]
    BY <1>1, <2>1 DEF s, t
  <2>7. \A i, j \in DOMAIN u : u[i] = u[j] => i = j
    <3> SUFFICES ASSUME NEW i \in DOMAIN u, NEW j \in DOMAIN u, u[i] = u[j] PROVE i = j
      OBVIOUS
    <3>1. i \in Int /\ j \in Int /\ Len(s) \in Nat
      BY <2>2
    <3>2. CASE i \in DOMAIN s /\ u[i] = s[i]
      <4>1. j \in DOMAIN s /\ u[j] = s[j]
        BY <2>2, <2>6, <3>2
      <4> QED
        BY <2>4, <3>2, <4>1
    <3>3. CASE i - Len(s) \in DOMAIN t /\ u[i] = t[i - Len(s)]
      <4>1. j - Len(s) \in DOMAIN t /\ u[j] = t[j - Len(s)]
        BY <2>2, <2>6, <3>3
      <4>2. i - Len(s) = j - Len(s)
        BY <2>5, <3>3, <4>1
      <4> QED
        BY <3>1, <4>2
    <3> QED
      BY <2>2, <3>2, <3>3
  <2>8. ASSUME NEW c \in rest, NEW i \in DOMAIN u, NEW j \in DOMAIN leaves[c]
        PROVE  u[i] # leaves[c][j]
    <3>1. CASE i \in DOMAIN s /\ u[i] = s[i]
      BY <1>1, <2>1, <3>1 DEF s
    <3>2. CASE i - Len(s) \in DOMAIN t /\ u[i] = t[i - Len(s)]
      BY <1>1, <2>1, <3>2 DEF t
    <3> QED
      BY <2>2, <3>1, <3>2
  <2>9. leaves'[new] = u /\ \A c \in rest : leaves'[c] = leaves[c]
    BY <1>1 DEF u
  <2> SUFFICES ASSUME NEW c \in active', NEW e \in active',
                      NEW i \in DOMAIN leaves'[c], NEW j \in DOMAIN leaves'[e],
                      leaves'[c][i] = leaves'[e][j]
               PROVE  c = e /\ i = j
    BY DEF LeavesOnce
  <2>10. CASE c = new /\ e = new
    BY <2>7, <2>9, <2>10
  <2>11. CASE c = new /\ e \in rest
    BY <2>8, <2>9, <2>11
  <2>12. CASE c \in rest /\ e = new
    BY <2>8, <2>9, <2>12
  <2>13. CASE c \in rest /\ e \in rest
    BY <2>1, <2>9, <2>13
  <2> QED
    BY <1>1, <2>10, <2>11, <2>12, <2>13
<1>8. active' \subseteq Ids'
  BY <1>1
<1>9. DOMAIN leaves' = Ids'
  BY <1>1
<1> QED
  BY <1>4, <1>5, <1>6, <1>7, <1>8, <1>9 DEF ClustersKept

\* What a merge does to the pairs of clusters.
LEMMA PairsAfterMerge ==
  ASSUME NEW p, NEW new, MergeOf(p, new), NEW q \in PairsOf(active')
  PROVE  \/ /\ q \in PairsOf(active)
            /\ q[1] \in active \ {p[1], p[2]} /\ q[2] \in active \ {p[1], p[2]}
         \/ q[1] \in active \ {p[1], p[2]} /\ q[2] = new /\ q = <<q[1], new>>
<1>1. q[1] \in active' /\ q[2] \in active' /\ q[1] < q[2] /\ q = <<q[1], q[2]>>
  BY PairIs
<1>2. /\ active' = (active \ {p[1], p[2]}) \cup {new} /\ active \subseteq Ids /\ new \in Nat
      /\ Ids = 0 .. new - 1
  BY DEF MergeOf
<1>3. \A c \in active : c < new /\ c \in Int
  BY <1>2
<1>4. q[1] # new
  <2>1. SUFFICES ASSUME q[1] = new PROVE FALSE
    OBVIOUS
  <2>2. q[2] = new \/ q[2] < new
    BY <1>1, <1>2, <1>3
  <2>3. q[2] \in Int
    BY <1>1, <1>2, <1>3
  <2> QED
    BY <1>1, <1>2, <2>1, <2>2, <2>3
<1>5. q[1] \in active \ {p[1], p[2]}
  BY <1>1, <1>2, <1>4
<1>6. CASE q[2] = new
  BY <1>1, <1>5, <1>6
<1>7. CASE q[2] # new
  <2>1. q[2] \in active \ {p[1], p[2]}
    BY <1>1, <1>2, <1>7
  <2>2. <<q[1], q[2]>> \in PairsOf(active)
    BY <1>1, <1>5, <2>1 DEF PairsOf
  <2> QED
    BY <1>1, <1>5, <2>1, <2>2
<1> QED
  BY <1>6, <1>7

\* The distances of the merged cluster.
LEMMA MergedIsNear ==
  ASSUME ClustersKept, DistancesKept, NEW p, NEW new, MergeOf(p, new),
         NEW c \in active \ {p[1], p[2]}
  PROVE  /\ DistanceTo(p, c) \in Nat /\ DistanceTo(p, c) >= distance[p]
         /\ \E a \in Range(leaves[c]), b \in Range(leaves[p[1]] \o leaves[p[2]]) :
              distance[Ordered(a, b)] = DistanceTo(p, c)
         /\ \A a \in Range(leaves[c]), b \in Range(leaves[p[1]] \o leaves[p[2]]) :
              distance[Ordered(a, b)] \in Int => distance[Ordered(a, b)] >= DistanceTo(p, c)
<1>1. /\ p[1] \in active /\ p[2] \in active /\ c \in active /\ c # p[1] /\ c # p[2]
      /\ p \in PairsOf(active) /\ \A q \in PairsOf(active) : distance[p] <= distance[q]
      /\ active \subseteq Int
  BY DEF MergeOf
<1>2. \A x, y \in active : Ordered(x, y) = Ordered(y, x)
  BY <1>1, OrderedIs
<1> DEFINE x == distance[Ordered(p[1], c)]
           y == distance[Ordered(p[2], c)]
<1>3. /\ Ordered(c, p[1]) \in PairsOf(active) /\ x \in Nat
      /\ \E a \in Range(leaves[c]), b \in Range(leaves[p[1]]) : distance[Ordered(a, b)] = x
      /\ \A a \in Range(leaves[c]), b \in Range(leaves[p[1]]) : distance[Ordered(a, b)] >= x
  <2>1. Ordered(p[1], c) = Ordered(c, p[1])
    BY <1>1, <1>2
  <2> DEFINE z == distance[Ordered(c, p[1])]
  <2>2. /\ Ordered(c, p[1]) \in PairsOf(active) /\ z \in Nat
        /\ \E a \in Range(leaves[c]), b \in Range(leaves[p[1]]) : distance[Ordered(a, b)] = z
        /\ \A a \in Range(leaves[c]), b \in Range(leaves[p[1]]) : distance[Ordered(a, b)] >= z
    BY <1>1, ClustersAreNear
  <2>3. x = z
    BY <2>1
  <2> HIDE DEF x, z
  <2> QED
    BY <2>2, <2>3
<1>4. /\ Ordered(c, p[2]) \in PairsOf(active) /\ y \in Nat
      /\ \E a \in Range(leaves[c]), b \in Range(leaves[p[2]]) : distance[Ordered(a, b)] = y
      /\ \A a \in Range(leaves[c]), b \in Range(leaves[p[2]]) : distance[Ordered(a, b)] >= y
  <2>1. Ordered(p[2], c) = Ordered(c, p[2])
    BY <1>1, <1>2
  <2> DEFINE z == distance[Ordered(c, p[2])]
  <2>2. /\ Ordered(c, p[2]) \in PairsOf(active) /\ z \in Nat
        /\ \E a \in Range(leaves[c]), b \in Range(leaves[p[2]]) : distance[Ordered(a, b)] = z
        /\ \A a \in Range(leaves[c]), b \in Range(leaves[p[2]]) : distance[Ordered(a, b)] >= z
    BY <1>1, ClustersAreNear
  <2>3. y = z
    BY <2>1
  <2> HIDE DEF y, z
  <2> QED
    BY <2>2, <2>3
<1>5. distance[p] <= x /\ distance[p] <= y
  <2>1. Ordered(p[1], c) = Ordered(c, p[1]) /\ Ordered(p[2], c) = Ordered(c, p[2])
    BY <1>1, <1>2
  <2> QED
    BY <1>1, <1>3, <1>4, <2>1
<1>6. Range(leaves[p[1]] \o leaves[p[2]]) = Range(leaves[p[1]]) \cup Range(leaves[p[2]])
  <2>1. leaves[p[1]] \in Seq(Leaf) /\ leaves[p[2]] \in Seq(Leaf)
    BY <1>1 DEF ClustersKept
  <2> QED
    BY <2>1, JoinedRange
<1>7. DistanceTo(p, c) = IF x < y THEN x ELSE y
  BY DEF DistanceTo
<1> HIDE DEF x, y
<1>8. DistanceTo(p, c) \in {x, y} /\ DistanceTo(p, c) <= x /\ DistanceTo(p, c) <= y
      /\ DistanceTo(p, c) \in Nat
  BY <1>3, <1>4, <1>7
<1>9. DistanceTo(p, c) >= distance[p]
  <2>1. distance[p] \in Nat
    BY <1>1 DEF DistancesKept
  <2> QED
    BY <1>5, <1>8
<1>10. \E a \in Range(leaves[c]), b \in Range(leaves[p[1]] \o leaves[p[2]]) :
              distance[Ordered(a, b)] = DistanceTo(p, c)
  <2>1. CASE DistanceTo(p, c) = x
    BY <1>3, <1>6, <2>1
  <2>2. CASE DistanceTo(p, c) = y
    BY <1>4, <1>6, <2>2
  <2> QED
    BY <1>8, <2>1, <2>2
<1>11. ASSUME NEW a \in Range(leaves[c]), NEW b \in Range(leaves[p[1]] \o leaves[p[2]]),
              distance[Ordered(a, b)] \in Int
       PROVE  distance[Ordered(a, b)] >= DistanceTo(p, c)
  <2> DEFINE z == distance[Ordered(a, b)]
  <2>1. z >= x \/ z >= y
    BY <1>3, <1>4, <1>6
  <2>2. z \in Int
    BY <1>11
  <2> HIDE DEF z
  <2>3. z >= DistanceTo(p, c)
    BY <1>3, <1>4, <1>8, <2>1, <2>2
  <2> QED
    BY <2>3 DEF z
<1> QED
  BY <1>8, <1>9, <1>10, <1>11

\* Two listings have a distance.
LEMMA LeavesAreFar ==
  ASSUME ClustersKept, DistancesKept, NEW a \in Leaf, NEW b \in Leaf, a # b
  PROVE  Ordered(a, b) \in DOMAIN distance /\ distance[Ordered(a, b)] \in Nat
<1>1. Leaf \subseteq Int
  BY LeavesAreNat DEF Leaf
<1>2. Ordered(a, b) \in PairsOf(Leaf)
  BY <1>1, OrderedIs
<1> QED
  BY <1>2 DEF DistancesKept

\* Listings of two clusters are different ones.
LEMMA ClustersAreApart ==
  ASSUME ClustersKept, NEW c \in active, NEW e \in active, c # e,
         NEW a \in Range(leaves[c]), NEW b \in Range(leaves[e])
  PROVE  a # b /\ a \in Leaf /\ b \in Leaf
<1>1. \A x \in active : leaves[x] \in Seq(Leaf)
  BY DEF ClustersKept
<1>2. a \in Leaf /\ b \in Leaf
  BY <1>1, RangeIn
<1>3. PICK i \in DOMAIN leaves[c] : a = leaves[c][i]
  BY DEF Range
<1>4. PICK j \in DOMAIN leaves[e] : b = leaves[e][j]
  BY DEF Range
<1>5. a # b
  BY <1>3, <1>4 DEF ClustersKept, LeavesOnce
<1> QED
  BY <1>2, <1>5

\* A merge keeps the distances of clusters those of their closest listings.
LEMMA MergeKeepsDistances ==
  ASSUME ClustersKept, DistancesKept, NEW p, NEW new, MergeOf(p, new)
  PROVE  DistancesKept'
<1> DEFINE rest == active \ {p[1], p[2]}
<1>1. /\ p[1] \in active /\ p[2] \in active /\ p[1] < p[2] /\ p \in PairsOf(active)
      /\ active' = rest \cup {new}
      /\ DOMAIN distance' = DOMAIN distance \cup {<<c, new>> : c \in rest}
      /\ \A q \in DOMAIN distance : distance'[q] = distance[q]
      /\ \A c \in rest : distance'[<<c, new>>] = DistanceTo(p, c)
      /\ \A c \in Ids : leaves'[c] = leaves[c]
      /\ leaves'[new] = leaves[p[1]] \o leaves[p[2]]
      /\ Ids' = Ids \cup {new} /\ active \subseteq Ids
      /\ \A c \in Ids : c < new
  BY DEF MergeOf
<1>2. \A q \in DOMAIN distance : q \in Ids \X Ids /\ q[1] < q[2] /\ distance[q] \in Nat
  BY DEF DistancesKept
<1>3. ASSUME NEW q \in DOMAIN distance'
      PROVE  q \in Ids' \X Ids' /\ q[1] < q[2] /\ distance'[q] \in Nat
  <2>1. CASE q \in DOMAIN distance
    <3>1. q \in Ids \X Ids /\ q[1] < q[2] /\ distance'[q] = distance[q] /\ distance[q] \in Nat
      BY <1>1, <1>2, <2>1
    <3>2. Ids \X Ids \subseteq Ids' \X Ids'
      BY <1>1
    <3> QED
      BY <3>1, <3>2
  <2>2. CASE q \notin DOMAIN distance
    <3>1. PICK c \in rest : q = <<c, new>>
      BY <1>1, <1>3, <2>2
    <3>2. c \in Ids /\ c < new
      BY <1>1
    <3>3. distance'[q] \in Nat
      BY <1>1, <3>1, MergedIsNear
    <3>4. q \in Ids' \X Ids' /\ q[1] < q[2]
      BY <1>1, <3>1, <3>2
    <3> QED
      BY <3>3, <3>4
  <2> QED
    BY <2>1, <2>2
<1>4. \A q \in PairsOf(active') : q \in DOMAIN distance'
  <2> SUFFICES ASSUME NEW q \in PairsOf(active') PROVE q \in DOMAIN distance'
    OBVIOUS
  <2>1. CASE q \in PairsOf(active)
    BY <1>1, <2>1 DEF DistancesKept
  <2>2. CASE q[1] \in rest /\ q = <<q[1], new>>
    BY <1>1, <2>2
  <2> QED
    BY <2>1, <2>2, PairsAfterMerge
<1>5. PairsOf(Leaf) \subseteq DOMAIN distance'
  BY <1>1 DEF DistancesKept
<1>6. ASSUME NEW c \in active, NEW e \in active, c # e,
             NEW a \in Range(leaves[c]), NEW b \in Range(leaves[e])
      PROVE  distance'[Ordered(a, b)] = distance[Ordered(a, b)] /\ distance[Ordered(a, b)] \in Nat
  <2>1. a # b /\ a \in Leaf /\ b \in Leaf
    BY <1>6, ClustersAreApart
  <2>2. Ordered(a, b) \in DOMAIN distance /\ distance[Ordered(a, b)] \in Nat
    BY <2>1, LeavesAreFar
  <2> QED
    BY <1>1, <2>2
<1>7. ASSUME NEW q \in PairsOf(active')
      PROVE  /\ \E a \in Range(leaves'[q[1]]), b \in Range(leaves'[q[2]]) :
                  distance'[Ordered(a, b)] = distance'[q]
             /\ \A a \in Range(leaves'[q[1]]), b \in Range(leaves'[q[2]]) :
                  distance'[Ordered(a, b)] >= distance'[q]
  <2>1. CASE q \in PairsOf(active) /\ q[1] \in rest /\ q[2] \in rest
    <3>1. /\ \E a \in Range(leaves[q[1]]), b \in Range(leaves[q[2]]) :
               distance[Ordered(a, b)] = distance[q]
          /\ \A a \in Range(leaves[q[1]]), b \in Range(leaves[q[2]]) :
               distance[Ordered(a, b)] >= distance[q]
          /\ q \in DOMAIN distance
      BY <2>1 DEF DistancesKept
    <3>2. leaves'[q[1]] = leaves[q[1]] /\ leaves'[q[2]] = leaves[q[2]] /\ distance'[q] = distance[q]
      BY <1>1, <2>1, <3>1
    <3>3. q[1] \in active /\ q[2] \in active /\ q[1] # q[2]
      <4>1. q[1] < q[2] /\ q[1] \in Ids /\ q[2] \in Ids
        BY <1>1, <2>1, PairIs
      <4>2. q[1] \in Int /\ q[2] \in Int
        BY <4>1 DEF MergeOf
      <4> QED
        BY <2>1, <4>1, <4>2
    <3>4. \A a \in Range(leaves[q[1]]), b \in Range(leaves[q[2]]) :
            distance'[Ordered(a, b)] = distance[Ordered(a, b)]
      BY <1>6, <3>3
    <3> QED
      BY <3>1, <3>2, <3>4
  <2>2. CASE q[1] \in rest /\ q[2] = new /\ q = <<q[1], new>>
    <3> DEFINE c == q[1]
               t == leaves[p[1]] \o leaves[p[2]]
    <3>1. c \in rest /\ leaves'[c] = leaves[c] /\ leaves'[q[2]] = t
          /\ distance'[q] = DistanceTo(p, c)
      BY <1>1, <2>2
    <3>2. Range(t) = Range(leaves[p[1]]) \cup Range(leaves[p[2]])
      <4>1. leaves[p[1]] \in Seq(Leaf) /\ leaves[p[2]] \in Seq(Leaf)
        BY <1>1 DEF ClustersKept
      <4> QED
        BY <4>1, JoinedRange
    <3> HIDE DEF c, t
    <3>3. \A a \in Range(leaves[c]), b \in Range(t) :
            distance'[Ordered(a, b)] = distance[Ordered(a, b)] /\ distance[Ordered(a, b)] \in Nat
      <4> SUFFICES ASSUME NEW a \in Range(leaves[c]), NEW b \in Range(t)
                   PROVE  distance'[Ordered(a, b)] = distance[Ordered(a, b)]
                          /\ distance[Ordered(a, b)] \in Nat
        OBVIOUS
      <4>1. c \in active /\ c # p[1] /\ c # p[2]
        BY <3>1
      <4>2. CASE b \in Range(leaves[p[1]])
        BY <1>1, <1>6, <4>1, <4>2
      <4>3. CASE b \in Range(leaves[p[2]])
        BY <1>1, <1>6, <4>1, <4>3
      <4> QED
        BY <3>2, <4>2, <4>3
    <3>4. /\ \E a \in Range(leaves[c]), b \in Range(t) :
               distance[Ordered(a, b)] = DistanceTo(p, c)
          /\ \A a \in Range(leaves[c]), b \in Range(t) :
               distance[Ordered(a, b)] \in Int => distance[Ordered(a, b)] >= DistanceTo(p, c)
      BY <3>1, MergedIsNear DEF t
    <3>5. /\ \E a \in Range(leaves[c]), b \in Range(t) :
               distance'[Ordered(a, b)] = DistanceTo(p, c)
          /\ \A a \in Range(leaves[c]), b \in Range(t) :
               distance'[Ordered(a, b)] >= DistanceTo(p, c)
      BY <3>3, <3>4
    <3> QED
      BY <3>1, <3>5 DEF c
  <2> QED
    BY <2>1, <2>2, PairsAfterMerge
<1> QED
  BY <1>3, <1>4, <1>5, <1>7 DEF DistancesKept

\* A merge is no closer than the ones before it, and takes no closed set apart.
LEMMA MergeKeepsHeights ==
  ASSUME ClustersKept, DistancesKept, HeightsKept, NEW p, NEW new, MergeOf(p, new)
  PROVE  HeightsKept'
<1> DEFINE rest == active \ {p[1], p[2]}
           h == distance[p]
           n == Len(heights)
           s == leaves[p[1]]
           t == leaves[p[2]]
<1>1. /\ p[1] \in active /\ p[2] \in active /\ p[1] < p[2] /\ p = <<p[1], p[2]>>
      /\ p \in PairsOf(active) /\ \A q \in PairsOf(active) : h <= distance[q]
      /\ active' = rest \cup {new}
      /\ \A q \in DOMAIN distance : distance'[q] = distance[q]
      /\ \A c \in rest : distance'[<<c, new>>] = DistanceTo(p, c)
      /\ \A c \in Ids : leaves'[c] = leaves[c]
      /\ leaves'[new] = s \o t
      /\ active \subseteq Ids /\ active \subseteq Int
      /\ heights' = Append(heights, h)
  BY DEF MergeOf
<1>2. PairsOf(active) \subseteq DOMAIN distance /\ \A q \in DOMAIN distance : distance[q] \in Nat
  BY DEF DistancesKept
<1>3. h \in Nat
  BY <1>1, <1>2
<1>4. /\ heights \in Seq(Nat) /\ n \in Nat
      /\ \A i \in 1 .. n - 1 : heights[i] <= heights[i + 1]
      /\ heights # <<>> => h >= heights[n] /\ heights[n] \in Nat
      /\ \A S \in SUBSET Leaf : (heights # <<>> => ClosedIn(distance, heights[n], S)) =>
           \A c \in active : Range(leaves[c]) \subseteq S \/ Range(leaves[c]) \cap S = {}
  <2>1. /\ heights \in Seq(Nat) /\ n \in Nat
        /\ \A i \in 1 .. n - 1 : heights[i] <= heights[i + 1]
    BY DEF HeightsKept
  <2>2. heights # <<>> => h >= heights[n] /\ heights[n] \in Nat
    <3>1. heights # <<>> => distance[p] >= heights[n]
      BY <1>1 DEF HeightsKept
    <3>2. heights # <<>> => heights[n] \in Nat
      BY <2>1
    <3> QED
      BY <3>1, <3>2
  <2>3. \A S \in SUBSET Leaf : (heights # <<>> => ClosedIn(distance, heights[n], S)) =>
          \A c \in active : Range(leaves[c]) \subseteq S \/ Range(leaves[c]) \cap S = {}
    BY DEF HeightsKept
  <2> QED
    BY <2>1, <2>2, <2>3
<1> HIDE DEF h
<1>5. /\ heights' \in Seq(Nat) /\ Len(heights') = n + 1 /\ heights'[n + 1] = h
      /\ \A i \in 1 .. n : heights'[i] = heights[i]
      /\ heights' # <<>>
  <2>1. heights' = Append(heights, h) /\ heights \in Seq(Nat)
    BY <1>1, <1>4
  <2> QED
    BY <1>3, <2>1, AppendedIs
<1>6. \A i \in 1 .. Len(heights') - 1 : heights'[i] <= heights'[i + 1]
  <2> SUFFICES ASSUME NEW i \in 1 .. n PROVE heights'[i] <= heights'[i + 1]
    BY <1>4, <1>5
  <2>1. CASE i = n
    <3>1. heights # <<>>
      BY <1>4, <2>1
    <3> QED
      BY <1>4, <1>5, <2>1, <3>1
  <2>2. CASE i # n
    <3>1. i \in 1 .. n - 1 /\ i + 1 \in 1 .. n
      BY <1>4, <2>2
    <3> QED
      BY <1>4, <1>5, <3>1
  <2> QED
    BY <2>1, <2>2
<1>7. \A q \in PairsOf(active') : distance'[q] >= h
  <2> SUFFICES ASSUME NEW q \in PairsOf(active') PROVE distance'[q] >= h
    OBVIOUS
  <2>1. CASE q \in PairsOf(active)
    <3>1. distance'[q] = distance[q] /\ distance[q] \in Nat /\ h <= distance[q]
      BY <1>1, <1>2, <2>1
    <3> QED
      BY <1>3, <3>1
  <2>2. CASE q[1] \in rest /\ q = <<q[1], new>>
    BY <1>1, <2>2, MergedIsNear DEF h
  <2> QED
    BY <2>1, <2>2, PairsAfterMerge
<1>8. ASSUME NEW S \in SUBSET Leaf, ClosedIn(distance', h, S), NEW c \in active'
      PROVE  Range(leaves'[c]) \subseteq S \/ Range(leaves'[c]) \cap S = {}
  <2>1. \A a \in S, b \in Leaf \ S : distance[Ordered(a, b)] > h /\ distance[Ordered(a, b)] \in Nat
    <3> SUFFICES ASSUME NEW a \in S, NEW b \in Leaf \ S
                 PROVE  distance[Ordered(a, b)] > h /\ distance[Ordered(a, b)] \in Nat
      OBVIOUS
    <3>1. a \in Leaf /\ b \in Leaf /\ a # b
      OBVIOUS
    <3>2. Ordered(a, b) \in DOMAIN distance /\ distance[Ordered(a, b)] \in Nat
      BY <3>1, LeavesAreFar
    <3>3. distance'[Ordered(a, b)] > h
      BY <1>8 DEF ClosedIn
    <3> QED
      BY <1>1, <3>2, <3>3
  <2>2. heights # <<>> => ClosedIn(distance, heights[n], S)
    <3> SUFFICES ASSUME heights # <<>>, NEW a \in S, NEW b \in Leaf \ S
                 PROVE  distance[Ordered(a, b)] > heights[n]
      BY DEF ClosedIn
    <3>1. h >= heights[n] /\ heights[n] \in Nat
      BY <1>4
    <3> QED
      BY <1>3, <2>1, <3>1
  <2>3. \A e \in active : Range(leaves[e]) \subseteq S \/ Range(leaves[e]) \cap S = {}
    BY <1>4, <2>2
  <2>4. CASE c \in rest
    BY <1>1, <2>3, <2>4
  <2>5. CASE c = new
    <3>1. s \in Seq(Leaf) /\ t \in Seq(Leaf)
      BY <1>1 DEF ClustersKept
    <3>2. /\ Range(s \o t) = Range(s) \cup Range(t)
          /\ Range(s) \subseteq Leaf /\ Range(t) \subseteq Leaf
      BY <3>1, JoinedRange, RangeIn
    <3>3. PICK a \in Range(s), b \in Range(t) : distance[Ordered(a, b)] = h
      BY <1>1 DEF DistancesKept, h
    <3>4. Ordered(a, b) = Ordered(b, a)
      <4>1. a \in Int /\ b \in Int
        BY <3>2, LeavesAreNat DEF Leaf
      <4> QED
        BY <4>1, OrderedIs
    <3>5. ~(a \in S /\ b \notin S) /\ ~(b \in S /\ a \notin S)
      BY <1>3, <2>1, <3>2, <3>3, <3>4
    <3>6. /\ Range(s) \subseteq S \/ Range(s) \cap S = {}
          /\ Range(t) \subseteq S \/ Range(t) \cap S = {}
      BY <1>1, <2>3
    <3>7. leaves'[c] = s \o t
      BY <1>1, <2>5
    <3> HIDE DEF s, t
    <3>8. Range(s) \cup Range(t) \subseteq S \/ (Range(s) \cup Range(t)) \cap S = {}
      <4>1. CASE a \in S
        BY <3>3, <3>5, <3>6, <4>1
      <4>2. CASE a \notin S
        BY <3>3, <3>5, <3>6, <4>2
      <4> QED
        BY <4>1, <4>2
    <3> QED
      BY <3>2, <3>7, <3>8
  <2> QED
    BY <1>1, <2>4, <2>5
<1> QED
  BY <1>5, <1>6, <1>7, <1>8 DEF HeightsKept

\* There are as many leaves as listings.
LEMMA LeafSize ==
  IsFiniteSet(Leaf) /\ Cardinality(Leaf) = Leaves /\ 0 \in Leaf /\ Leaf \subseteq Int
<1>1. 0 \in Int /\ Leaves - 1 \in Int /\ Leaves \in Nat /\ Leaves > 0
  BY LeavesAreNat
<1>2. IsFiniteSet(0 .. Leaves - 1)
      /\ Cardinality(0 .. Leaves - 1) = IF 0 > Leaves - 1 THEN 0 ELSE (Leaves - 1) - 0 + 1
  BY <1>1, FS_Interval
<1>3. Cardinality(0 .. Leaves - 1) = Leaves
  BY <1>1, <1>2
<1> QED
  BY <1>1, <1>2, <1>3 DEF Leaf

\* Starting to cluster makes every listing a cluster.
LEMMA ClusterStep ==
  ASSUME ClusterInv, NEW d \in [PairsOf(Leaf) -> Distances], Cluster(d)
  PROVE  ClusterInv' /\ pending' = <<>> /\ weight' = <<>>
<1>1. /\ leaves = <<>> /\ heights = <<>> /\ pending = <<>> /\ weight = <<>>
      /\ distance' = d /\ active' = Leaf /\ leaves' = [l \in Leaf |-> <<l>>]
      /\ heights' = <<>> /\ pending' = <<>> /\ weight' = <<>>
  BY DEF Cluster, ClusterInv
<1>2. active' # {}
  BY <1>1, LeafSize
<1>3. Len(heights') = 0 /\ Leaves \in Nat
  BY <1>1, LeavesAreNat
<1>4. Ids' = Leaf
  <2>1. Ids' = 0 .. Leaves + Len(heights') - 1
    BY DEF Ids
  <2>2. Leaves + Len(heights') - 1 = Leaves - 1
    BY <1>3
  <2> QED
    BY <2>1, <2>2 DEF Leaf
<1>5. \A l \in Leaf : /\ leaves'[l] = <<l>> /\ leaves'[l] \in Seq(Leaf) /\ leaves'[l] # <<>>
                      /\ DOMAIN leaves'[l] = {1} /\ leaves'[l][1] = l /\ Range(leaves'[l]) = {l}
  <2> SUFFICES ASSUME NEW l \in Leaf
               PROVE  /\ leaves'[l] = <<l>> /\ leaves'[l] \in Seq(Leaf) /\ leaves'[l] # <<>>
                      /\ DOMAIN leaves'[l] = {1} /\ leaves'[l][1] = l /\ Range(leaves'[l]) = {l}
    OBVIOUS
  <2>1. leaves'[l] = <<l>>
    BY <1>1
  <2>2. <<l>> \in Seq(Leaf) /\ <<l>> # <<>> /\ DOMAIN <<l>> = {1} /\ <<l>>[1] = l
    OBVIOUS
  <2>3. Range(<<l>>) = {l}
    BY <2>2 DEF Range
  <2> QED
    BY <2>1, <2>2, <2>3
<1>6. ClustersKept'
  <2>1. \A c \in Leaf : \E e \in Leaf : Within(leaves'[c], leaves'[e])
    BY <1>5, WithinItself
  <2>2. LeavesOnce'
    <3> SUFFICES ASSUME NEW c \in Leaf, NEW e \in Leaf,
                        NEW i \in DOMAIN leaves'[c], NEW j \in DOMAIN leaves'[e],
                        leaves'[c][i] = leaves'[e][j]
                 PROVE  c = e /\ i = j
      BY <1>1 DEF LeavesOnce
    <3>1. i = 1 /\ j = 1
      BY <1>5
    <3> QED
      BY <1>5, <3>1
  <2>3. \A l \in Leaf : \E c \in Leaf : l \in Range(leaves'[c])
    BY <1>5
  <2>4. Cardinality(Leaf) + Len(heights') = Leaves
    BY <1>3, LeafSize
  <2>5. DOMAIN leaves' = Leaf
    BY <1>1
  <2> QED
    BY <1>1, <1>4, <1>5, <2>1, <2>2, <2>3, <2>4, <2>5, LeafSize DEF ClustersKept
<1>7. DistancesKept'
  <2>1. DOMAIN distance' = PairsOf(Leaf) /\ \A q \in PairsOf(Leaf) : distance'[q] \in Nat
    BY <1>1, LeavesAreNat
  <2>2. \A q \in PairsOf(Leaf) : q \in Leaf \X Leaf /\ q[1] < q[2]
    BY DEF PairsOf
  <2>3. ASSUME NEW q \in PairsOf(Leaf)
        PROVE  /\ \E a \in Range(leaves'[q[1]]), b \in Range(leaves'[q[2]]) :
                    distance'[Ordered(a, b)] = distance'[q]
               /\ \A a \in Range(leaves'[q[1]]), b \in Range(leaves'[q[2]]) :
                    distance'[Ordered(a, b)] >= distance'[q]
    <3>1. q[1] \in Leaf /\ q[2] \in Leaf /\ q[1] < q[2] /\ q = <<q[1], q[2]>>
      BY PairIs
    <3>2. Ordered(q[1], q[2]) = q
      BY <3>1 DEF Ordered
    <3>3. Range(leaves'[q[1]]) = {q[1]} /\ Range(leaves'[q[2]]) = {q[2]}
      BY <1>5, <3>1
    <3>4. distance'[q] \in Nat
      BY <2>1
    <3> QED
      BY <3>2, <3>3, <3>4
  <2>4. PairsOf(active') = PairsOf(Leaf)
    BY <1>1
  <2> QED
    BY <1>4, <2>1, <2>2, <2>3, <2>4 DEF DistancesKept
<1>8. HeightsKept'
  <2>1. <<>> \in Seq(Nat) /\ Len(<<>>) = 0 /\ 1 .. 0 - 1 = {}
    OBVIOUS
  <2>2. \A S \in SUBSET Leaf : \A c \in Leaf :
          Range(leaves'[c]) \subseteq S \/ Range(leaves'[c]) \cap S = {}
    <3>1. \A c \in Leaf : Range(leaves'[c]) = {c}
      BY <1>5
    <3> QED
      BY <3>1
  <2> QED
    BY <1>1, <2>1, <2>2 DEF HeightsKept
<1> QED
  BY <1>1, <1>2, <1>6, <1>7, <1>8 DEF ClusterInv

\* Merging preserves the invariant.
LEMMA MergeStep ==
  ASSUME ClusterInv, Merge
  PROVE  ClusterInv' /\ active # {} /\ ~Clustered
<1>1. Cardinality(active) > 1
  BY DEF Merge
<1>2. active # {}
  <2>1. SUFFICES ASSUME active = {} PROVE FALSE
    OBVIOUS
  <2> QED
    BY <1>1, <2>1, FS_EmptySet
<1>3. ClustersKept /\ DistancesKept /\ HeightsKept
  BY <1>2 DEF ClusterInv
<1>4. PICK p, new : MergeOf(p, new)
  BY <1>3, MergeIs
<1>5. active' # {}
  BY <1>4 DEF MergeOf
<1>6. ClustersKept' /\ DistancesKept' /\ HeightsKept'
  BY <1>3, <1>4, MergeKeepsClusters, MergeKeepsDistances, MergeKeepsHeights
<1>7. ~Clustered
  BY <1>1 DEF Clustered
<1> QED
  BY <1>2, <1>5, <1>6, <1>7 DEF ClusterInv

\* Steps that leave the clusters alone preserve it.
LEMMA ClustersStay ==
  ASSUME ClusterInv, active # {}, UNCHANGED <<distance, active, leaves, heights>>
  PROVE  ClusterInv'
<1>1. distance' = distance /\ active' = active /\ leaves' = leaves /\ heights' = heights
  OBVIOUS
<1>2. Ids' = Ids
  BY <1>1 DEF Ids
<1>3. ClustersKept'
  <2>1. ClustersKept
    BY DEF ClusterInv
  <2>2. LeavesOnce'
    BY <1>1, <2>1 DEF ClustersKept, LeavesOnce
  <2> QED
    BY <1>1, <1>2, <2>1, <2>2 DEF ClustersKept
<1>4. DistancesKept'
  BY <1>1, <1>2 DEF ClusterInv, DistancesKept
<1>5. HeightsKept'
  BY <1>1 DEF ClusterInv, HeightsKept
<1> QED
  BY <1>1, <1>3, <1>4, <1>5 DEF ClusterInv

\* What the invariant says of the finished order.
LEMMA OrderIs ==
  ASSUME ClusterInv, Clustered
  PROVE  /\ active = {Root} /\ leaves[Root] \in Seq(Leaf) /\ leaves[Root] # <<>>
         /\ \A i, j \in DOMAIN leaves[Root] : leaves[Root][i] = leaves[Root][j] => i = j
         /\ Range(leaves[Root]) = Leaf /\ Len(leaves[Root]) = Leaves
         /\ active # {}
<1>1. Cardinality(active) = 1
  BY DEF Clustered
<1>2. active # {}
  <2>1. SUFFICES ASSUME active = {} PROVE FALSE
    OBVIOUS
  <2> QED
    BY <1>1, <2>1, FS_EmptySet
<1>3. ClustersKept
  BY <1>2 DEF ClusterInv
<1>4. \E x : active = {x}
  BY <1>1, <1>3, FS_Singleton DEF ClustersKept
<1>5. active = {Root}
  BY <1>4 DEF Root
<1>6. /\ leaves[Root] \in Seq(Leaf) /\ leaves[Root] # <<>>
      /\ \A i, j \in DOMAIN leaves[Root] : leaves[Root][i] = leaves[Root][j] => i = j
  BY <1>3, <1>5 DEF ClustersKept, LeavesOnce
<1>7. Range(leaves[Root]) = Leaf
  <2>1. Range(leaves[Root]) \subseteq Leaf
    BY <1>6, RangeIn
  <2>2. Leaf \subseteq Range(leaves[Root])
    BY <1>3, <1>5 DEF ClustersKept
  <2> QED
    BY <2>1, <2>2
<1>8. Len(leaves[Root]) = Leaves
  BY <1>6, <1>7, OrderIsWhole
<1> QED
  BY <1>2, <1>5, <1>6, <1>7, <1>8

\* The invariant says that merges are linked and that the order keeps every cluster
\* contiguous.
LEMMA TreeShape ==
  ASSUME ClusterInv
  PROVE  MergesAreLinked /\ OrderKeepsClusters
         /\ (\A c \in DOMAIN leaves : leaves[c] \in Seq(Leaf)) /\ Len(heights) < Leaves
<1>1. CASE active = {}
  <2>1. leaves = <<>> /\ heights = <<>>
    BY <1>1 DEF ClusterInv
  <2>2. DOMAIN leaves = {} /\ Len(heights) = 0
    BY <2>1
  <2>3. ~Clustered
    BY <1>1, FS_EmptySet DEF Clustered
  <2> QED
    BY <2>1, <2>2, <2>3, LeavesAreNat DEF MergesAreLinked, OrderKeepsClusters
<1>2. CASE active # {}
  <2>1. ClustersKept /\ DistancesKept /\ HeightsKept
    BY <1>2 DEF ClusterInv
  <2>2. \A c \in DOMAIN leaves : leaves[c] \in Seq(Leaf)
    BY <2>1 DEF ClustersKept
  <2>3. Len(heights) < Leaves
    <3>1. Cardinality(active) \in Nat /\ Cardinality(active) # 0
      BY <1>2, <2>1, FS_CardinalityType, FS_EmptySet DEF ClustersKept
    <3>2. Len(heights) \in Nat /\ Cardinality(active) + Len(heights) = Leaves
      BY <2>1 DEF ClustersKept, HeightsKept
    <3> QED
      BY <3>1, <3>2
  <2>4. MergesAreLinked
    <3> SUFFICES ASSUME heights # <<>>
                 PROVE  LET h == heights[Len(heights)] IN
                        /\ \A S \in SUBSET Leaf : Closed(h, S) => \A c \in active :
                             Range(leaves[c]) \subseteq S \/ Range(leaves[c]) \cap S = {}
                        /\ \A c, e \in active : c # e =>
                             \A a \in Range(leaves[c]), b \in Range(leaves[e]) :
                               distance[Ordered(a, b)] >= h
                        /\ \A i \in 1 .. Len(heights) - 1 : heights[i] <= heights[i + 1]
      BY DEF MergesAreLinked
    <3> DEFINE h == heights[Len(heights)]
    <3>1. ASSUME NEW S \in SUBSET Leaf, Closed(h, S), NEW c \in active
          PROVE  Range(leaves[c]) \subseteq S \/ Range(leaves[c]) \cap S = {}
      <4>1. ClosedIn(distance, h, S)
        BY <3>1 DEF ClosedIn, Closed
      <4> QED
        BY <2>1, <4>1 DEF HeightsKept
    <3>2. ASSUME NEW c \in active, NEW e \in active, c # e,
                 NEW a \in Range(leaves[c]), NEW b \in Range(leaves[e])
          PROVE  distance[Ordered(a, b)] >= h
      <4> DEFINE x == distance[Ordered(a, b)]
                 y == distance[Ordered(c, e)]
      <4>1. Ordered(c, e) \in PairsOf(active) /\ y \in Nat /\ x >= y
        BY <2>1, <3>2, ClustersAreNear
      <4>2. a # b /\ a \in Leaf /\ b \in Leaf
        BY <2>1, <3>2, ClustersAreApart
      <4>3. x \in Nat
        BY <2>1, <4>2, LeavesAreFar
      <4>4. y >= h
        BY <2>1, <4>1 DEF HeightsKept
      <4>5. h \in Nat
        BY <2>1 DEF HeightsKept
      <4> HIDE DEF x, y, h
      <4>6. x >= h
        BY <4>1, <4>3, <4>4, <4>5
      <4> QED
        BY <4>6 DEF x
    <3>3. \A i \in 1 .. Len(heights) - 1 : heights[i] <= heights[i + 1]
      BY <2>1 DEF HeightsKept
    <3> QED
      BY <3>1, <3>2, <3>3
  <2>5. OrderKeepsClusters
    <3> SUFFICES ASSUME Clustered
                 PROVE  LET order == leaves[Root] IN
                        /\ Len(order) = Leaves /\ Range(order) = Leaf
                        /\ \A c \in DOMAIN leaves : \E i \in 0 .. Leaves - Len(leaves[c]) :
                             SubSeq(order, i + 1, i + Len(leaves[c])) = leaves[c]
      BY DEF OrderKeepsClusters
    <3>1. active = {Root} /\ Len(leaves[Root]) = Leaves /\ Range(leaves[Root]) = Leaf
      BY OrderIs
    <3>2. \A c \in DOMAIN leaves : Within(leaves[c], leaves[Root])
      BY <2>1, <3>1 DEF ClustersKept
    <3> QED
      BY <3>1, <3>2 DEF Within
  <2> QED
    BY <2>2, <2>3, <2>4, <2>5
<1> QED
  BY <1>1, <1>2

------------------------------------------------------------------------------
(***************************************************************************)
(* Risk parity: weights.  Halving shares a cluster's weight, which each of *)
(* its listings has, between the halves.  The invariant lets the first     *)
(* listing of each cluster on the stack stand for it: over any common      *)
(* denominator of the stand-ins, they sum to the whole.                    *)
(***************************************************************************)

\* The listings that stand for the clusters still to be halved, and those that are done.
RepsOf(todo) ==
  {l \in Leaf : \A i \in DOMAIN todo : \A x \in DOMAIN todo[i] : todo[i][x] = l => x = 1}

\* The clusters to be halved share no listing.
TodoOnce(todo) ==
  /\ todo \in Seq(Seq(Leaf))
  /\ \A i \in DOMAIN todo : todo[i] # <<>>
  /\ \A i, j \in DOMAIN todo : \A x \in DOMAIN todo[i], y \in DOMAIN todo[j] :
       todo[i][x] = todo[j][y] => i = j /\ x = y

\* The listings of a cluster that is not yet halved have one weight.
TodoEven(todo, w) ==
  \A i \in DOMAIN todo : \A x \in DOMAIN todo[i] : w[todo[i][x]] = w[todo[i][1]]

Numerators(w, k) == [l \in Leaf |-> w[l][1] * k[l]]

\* The weights of listings are the whole: over any common denominator.
AreWhole(w, R) ==
  \A M \in Nat : \A k \in [Leaf -> Nat] :
    (\A l \in R : w[l][2] * k[l] = M) => SumFunctionOnSet(Numerators(w, k), R) = M

SharesOf(w) == w \in [Leaf -> Nat \X (Nat \ {0})]

\* The inductive invariant of halving.
WeightInv ==
  IF weight = <<>> THEN pending = <<>>
  ELSE /\ Clustered /\ SharesOf(weight)
       /\ TodoOnce(pending) /\ TodoEven(pending, weight)
       /\ AreWhole(weight, RepsOf(pending))

\* A weight is a fraction with a positive denominator.
LEMMA SharesAre ==
  ASSUME NEW w, SharesOf(w), NEW l \in Leaf
  PROVE  w[l][1] \in Nat /\ w[l][2] \in Nat /\ w[l][2] > 0 /\ w[l] = <<w[l][1], w[l][2]>>
<1>1. w[l] \in Nat \X (Nat \ {0})
  BY DEF SharesOf
<1> QED
  BY <1>1

\* A sum over one element is what it has.
LEMMA SumSingle ==
  ASSUME NEW f, NEW x, f[x] \in Int
  PROVE  SumFunctionOnSet(f, {x}) = f[x]
<1>1. IsFiniteSet({x}) /\ \A i \in {x} : f[i] \in Int
  BY FS_Singleton
<1>2. SumFunctionOnSet(f, {x}) = f[x] + SumFunctionOnSet(f, {x} \ {x})
  BY <1>1, SumStep
<1>3. SumFunctionOnSet(f, {x} \ {x}) = 0
  <2>1. {x} \ {x} = {}
    OBVIOUS
  <2> QED
    BY <2>1, SumEmpty
<1> QED
  BY <1>2, <1>3

\* Weights are of some listings.
LEMMA WeightsAreThere ==
  ASSUME NEW w, SharesOf(w)
  PROVE  w # <<>>
<1>1. DOMAIN w = Leaf /\ 0 \in Leaf
  BY LeafSize DEF SharesOf
<1>2. DOMAIN <<>> = {}
  OBVIOUS
<1> QED
  BY <1>1, <1>2

\* The halving starts from the one cluster of all listings, which has the whole.
LEMMA BisectStep ==
  ASSUME ClusterInv, WeightInv, Bisect
  PROVE  WeightInv' /\ active # {} /\ UNCHANGED <<distance, active, leaves, heights>>
<1> DEFINE order == leaves[Root]
           w == [l \in Leaf |-> <<1, 1>>]
           todo == <<order>>
<1>1. /\ Clustered /\ pending' = todo /\ weight' = w
      /\ UNCHANGED <<distance, active, leaves, heights>>
  BY DEF Bisect
<1>2. /\ order \in Seq(Leaf) /\ order # <<>> /\ Range(order) = Leaf /\ active # {}
      /\ \A i, j \in DOMAIN order : order[i] = order[j] => i = j
  BY <1>1, OrderIs
<1>3. Clustered'
  BY <1>1 DEF Clustered
<1> HIDE DEF order
<1>4. todo \in Seq(Seq(Leaf)) /\ DOMAIN todo = {1} /\ todo[1] = order
  BY <1>2
<1>5. 1 \in DOMAIN order /\ order[1] \in Leaf
  BY <1>2
<1> HIDE DEF todo
<1>6. RepsOf(todo) = {order[1]}
  <2>1. order[1] \in RepsOf(todo)
    BY <1>2, <1>4, <1>5 DEF RepsOf
  <2>2. ASSUME NEW l \in RepsOf(todo) PROVE l = order[1]
    <3>1. l \in Leaf
      BY DEF RepsOf
    <3>2. PICK x \in DOMAIN order : l = order[x]
      BY <1>2, <3>1 DEF Range
    <3>3. x = 1
      BY <1>4, <3>2 DEF RepsOf
    <3> QED
      BY <3>2, <3>3
  <2> QED
    BY <2>1, <2>2
<1>7. SharesOf(w)
  BY DEF SharesOf
<1>8. TodoOnce(todo) /\ TodoEven(todo, w)
  <2>1. \A x \in DOMAIN order : order[x] \in Leaf
    BY <1>2
  <2> QED
    BY <1>2, <1>4, <1>5, <2>1 DEF TodoOnce, TodoEven
<1>9. AreWhole(w, {order[1]})
  <2> SUFFICES ASSUME NEW M \in Nat, NEW k \in [Leaf -> Nat], w[order[1]][2] * k[order[1]] = M
               PROVE  SumFunctionOnSet(Numerators(w, k), {order[1]}) = M
    BY DEF AreWhole
  <2>1. w[order[1]][2] = 1 /\ w[order[1]][1] = 1 /\ k[order[1]] \in Nat
    BY <1>5
  <2>2. Numerators(w, k)[order[1]] = 1 * k[order[1]]
    BY <1>5, <2>1 DEF Numerators
  <2>3. Numerators(w, k)[order[1]] = M /\ M \in Int
    BY <2>1, <2>2
  <2> QED
    BY <2>3, SumSingle
<1>10. weight' # <<>>
  BY <1>1, <1>7, WeightsAreThere
<1> HIDE DEF w
<1> QED
  BY <1>1, <1>2, <1>3, <1>6, <1>7, <1>8, <1>9, <1>10 DEF WeightInv

\* A cluster of one listing is done: it is its own stand-in.
LEMMA SingleStep ==
  ASSUME WeightInv, Single
  PROVE  WeightInv' /\ Clustered /\ UNCHANGED <<distance, active, leaves, heights>>
<1> DEFINE todo == Tail(pending)
<1>1. /\ pending # <<>> /\ Len(Head(pending)) = 1 /\ pending' = todo /\ weight' = weight
      /\ UNCHANGED <<distance, active, leaves, heights>>
  BY DEF Single
<1>2. /\ weight # <<>> /\ Clustered /\ SharesOf(weight) /\ TodoOnce(pending)
      /\ TodoEven(pending, weight) /\ AreWhole(weight, RepsOf(pending))
  BY <1>1 DEF WeightInv
<1>3. pending \in Seq(Seq(Leaf)) /\ Head(pending) = pending[1] /\ 1 \in DOMAIN pending
  BY <1>1, <1>2 DEF TodoOnce
<1>4. /\ todo \in Seq(Seq(Leaf))
      /\ \A i \in DOMAIN todo : i + 1 \in DOMAIN pending /\ todo[i] = pending[i + 1] /\ i \in Int
      /\ \A i \in DOMAIN pending : i # 1 => i - 1 \in DOMAIN todo /\ todo[i - 1] = pending[i]
  BY <1>1, <1>3
<1>5. DOMAIN pending[1] = {1}
  <2>1. Len(pending[1]) = 1 /\ pending[1] \in Seq(Leaf)
    BY <1>1, <1>3
  <2>2. DOMAIN pending[1] = 1 .. 1
    BY <2>1
  <2> QED
    BY <2>2
<1> HIDE DEF todo
<1>6. TodoOnce(todo)
  <2>1. \A i \in DOMAIN todo : todo[i] # <<>>
    BY <1>2, <1>4 DEF TodoOnce
  <2>2. ASSUME NEW i \in DOMAIN todo, NEW j \in DOMAIN todo,
               NEW x \in DOMAIN todo[i], NEW y \in DOMAIN todo[j], todo[i][x] = todo[j][y]
        PROVE  i = j /\ x = y
    <3>1. i + 1 \in DOMAIN pending /\ j + 1 \in DOMAIN pending /\ i \in Int /\ j \in Int
          /\ todo[i] = pending[i + 1] /\ todo[j] = pending[j + 1]
      BY <1>4
    <3>2. i + 1 = j + 1 /\ x = y
      BY <1>2, <2>2, <3>1 DEF TodoOnce
    <3> QED
      BY <3>1, <3>2
  <2> QED
    BY <1>4, <2>1, <2>2 DEF TodoOnce
<1>7. TodoEven(todo, weight)
  BY <1>2, <1>4 DEF TodoEven
<1>8. RepsOf(todo) = RepsOf(pending)
  <2>1. ASSUME NEW l \in RepsOf(pending) PROVE l \in RepsOf(todo)
    BY <1>4 DEF RepsOf
  <2>2. ASSUME NEW l \in RepsOf(todo) PROVE l \in RepsOf(pending)
    <3> SUFFICES ASSUME NEW i \in DOMAIN pending, NEW x \in DOMAIN pending[i], pending[i][x] = l
                 PROVE  x = 1
      BY DEF RepsOf
    <3>1. CASE i = 1
      BY <1>5, <3>1
    <3>2. CASE i # 1
      BY <1>4, <3>2 DEF RepsOf
    <3> QED
      BY <3>1, <3>2
  <2> QED
    BY <2>1, <2>2
<1>9. Clustered'
  BY <1>1, <1>2 DEF Clustered
<1> QED
  BY <1>1, <1>2, <1>6, <1>7, <1>8, <1>9 DEF WeightInv

\* The halves of a cluster.
LEMMA HalvesOf ==
  ASSUME NEW T, NEW s \in Seq(T), NEW m \in 1 .. Len(s) - 1
  PROVE  LET a == SubSeq(s, 1, m)
             b == SubSeq(s, m + 1, Len(s))
         IN  /\ a \in Seq(T) /\ b \in Seq(T) /\ m \in Int
             /\ DOMAIN a = 1 .. m /\ DOMAIN b = 1 .. Len(s) - m
             /\ DOMAIN s = 1 .. Len(s) /\ Len(s) \in Nat
             /\ \A x \in 1 .. m : a[x] = s[x]
             /\ \A x \in 1 .. Len(s) - m : b[x] = s[m + x]
  OBVIOUS

\* What the halves get is the whole.
LEMMA SharesAreWhole ==
  ASSUME NEW v \in Nat \X Nat
  PROVE  \E a, b, D \in Nat : D > 0 /\ a + b = D /\ Shares(v) = <<<<a, D>>, <<b, D>>>>
<1>1. v[1] \in Nat /\ v[2] \in Nat
  OBVIOUS
<1>2. CASE v[1] + v[2] = 0
  <2>1. Shares(v) = <<<<1, 2>>, <<1, 2>>>>
    BY <1>2 DEF Shares
  <2>2. 1 \in Nat /\ 2 \in Nat /\ 2 > 0 /\ 1 + 1 = 2
    OBVIOUS
  <2> QED
    BY <2>1, <2>2
<1>3. CASE v[1] + v[2] # 0
  <2> DEFINE D == v[1] + v[2]
  <2>1. Shares(v) = <<<<v[2], D>>, <<v[1], D>>>>
    BY <1>3 DEF Shares
  <2>2. D \in Nat /\ D > 0 /\ v[2] + v[1] = D
    BY <1>1, <1>3
  <2> HIDE DEF D
  <2> QED
    BY <1>1, <2>1, <2>2
<1> QED
  BY <1>2, <1>3

\* A cluster and its halves: which cluster of the old stack each one is a part of, and where.
HalvedTo(todo, next, m) ==
  /\ todo \in Seq(Seq(Leaf)) /\ next \in Seq(Seq(Leaf)) /\ 1 \in DOMAIN todo
  /\ m \in 1 .. Len(todo[1]) - 1
  /\ DOMAIN todo[1] = 1 .. Len(todo[1]) /\ Len(todo[1]) \in Nat
  /\ 1 \in DOMAIN next /\ 2 \in DOMAIN next
  /\ DOMAIN next[1] = 1 .. m /\ DOMAIN next[2] = 1 .. Len(todo[1]) - m
  /\ \A x \in 1 .. m : next[1][x] = todo[1][x]
  /\ \A x \in 1 .. Len(todo[1]) - m : next[2][x] = todo[1][m + x]
  /\ \A i \in DOMAIN next :
       i \in Int /\ i > 0 /\ (i > 2 => i - 1 \in DOMAIN todo /\ next[i] = todo[i - 1])
  /\ \A i \in DOMAIN todo :
       i \in Int /\ i > 0 /\ (i > 1 => i + 1 \in DOMAIN next /\ next[i + 1] = todo[i])

\* Halving the first cluster of the stack puts its two halves in its place.
LEMMA HalvedIs ==
  ASSUME NEW todo \in Seq(Seq(Leaf)), todo # <<>>, Len(Head(todo)) > 1
  PROVE  LET s == Head(todo)
             m == Len(s) \div 2
         IN  HalvedTo(todo, <<SubSeq(s, 1, m), SubSeq(s, m + 1, Len(s))>> \o Tail(todo), m)
<1> DEFINE s == Head(todo)
           m == Len(s) \div 2
           a == SubSeq(s, 1, m)
           b == SubSeq(s, m + 1, Len(s))
           next == <<a, b>> \o Tail(todo)
<1>1. s \in Seq(Leaf) /\ s = todo[1] /\ 1 \in DOMAIN todo /\ Len(s) \in Nat
  OBVIOUS
<1> HIDE DEF s
<1>2. m \in 1 .. Len(s) - 1
  BY <1>1 DEF s
<1> HIDE DEF m
<1>3. /\ a \in Seq(Leaf) /\ b \in Seq(Leaf) /\ m \in Int
      /\ DOMAIN a = 1 .. m /\ DOMAIN b = 1 .. Len(s) - m
      /\ DOMAIN s = 1 .. Len(s) /\ Len(s) \in Nat
      /\ \A x \in 1 .. m : a[x] = s[x]
      /\ \A x \in 1 .. Len(s) - m : b[x] = s[m + x]
  BY <1>1, <1>2, HalvesOf
<1> HIDE DEF a, b
<1>4. /\ <<a, b>> \in Seq(Seq(Leaf)) /\ Tail(todo) \in Seq(Seq(Leaf))
      /\ Len(<<a, b>>) = 2 /\ Len(Tail(todo)) = Len(todo) - 1 /\ Len(todo) \in Nat
      /\ Len(todo) > 0
      /\ <<a, b>>[1] = a /\ <<a, b>>[2] = b /\ DOMAIN todo = 1 .. Len(todo)
      /\ \A i \in 1 .. Len(todo) - 1 : Tail(todo)[i] = todo[i + 1]
  BY <1>3
<1>5. /\ next \in Seq(Seq(Leaf)) /\ DOMAIN next = 1 .. 2 + (Len(todo) - 1)
      /\ \A x \in 1 .. 2 : next[x] = <<a, b>>[x]
      /\ \A x \in 1 .. Len(todo) - 1 : next[2 + x] = Tail(todo)[x]
  <2>1. next \in Seq(Seq(Leaf))
    BY <1>4
  <2> QED
    BY <1>4, <2>1, JoinedIs
<1> HIDE DEF next
<1>6. next[1] = a /\ next[2] = b /\ 1 \in DOMAIN next /\ 2 \in DOMAIN next
  BY <1>4, <1>5
<1>7. ASSUME NEW i \in DOMAIN next
      PROVE  i \in Int /\ i > 0 /\ (i > 2 => i - 1 \in DOMAIN todo /\ next[i] = todo[i - 1])
  <2>1. i \in Int /\ i > 0 /\ i <= Len(todo) + 1
    BY <1>4, <1>5
  <2>2. ASSUME i > 2 PROVE i - 1 \in DOMAIN todo /\ next[i] = todo[i - 1]
    <3>1. PICK z \in 1 .. Len(todo) - 1 : 2 + z = i /\ z + 1 = i - 1
      <4>1. i - 2 \in 1 .. Len(todo) - 1 /\ 2 + (i - 2) = i /\ (i - 2) + 1 = i - 1
        BY <1>4, <2>1, <2>2
      <4> QED
        BY <4>1
    <3>a. next[2 + z] = Tail(todo)[z] /\ Tail(todo)[z] = todo[z + 1]
      BY <1>4, <1>5
    <3>2. next[i] = todo[i - 1]
      BY <3>1, <3>a
    <3>3. i - 1 \in 1 .. Len(todo)
      BY <1>4, <2>1, <2>2
    <3> QED
      BY <1>4, <3>2, <3>3
  <2> QED
    BY <2>1, <2>2
<1>8. ASSUME NEW i \in DOMAIN todo
      PROVE  i \in Int /\ i > 0 /\ (i > 1 => i + 1 \in DOMAIN next /\ next[i + 1] = todo[i])
  <2>1. i \in Int /\ i > 0 /\ i <= Len(todo)
    BY <1>4
  <2>2. ASSUME i > 1 PROVE i + 1 \in DOMAIN next /\ next[i + 1] = todo[i]
    <3>1. PICK z \in 1 .. Len(todo) - 1 : 2 + z = i + 1 /\ z + 1 = i
      <4>1. i - 1 \in 1 .. Len(todo) - 1 /\ 2 + (i - 1) = i + 1 /\ (i - 1) + 1 = i
        BY <1>4, <2>1, <2>2
      <4> QED
        BY <4>1
    <3>a. next[2 + z] = Tail(todo)[z] /\ Tail(todo)[z] = todo[z + 1]
      BY <1>4, <1>5
    <3>2. next[i + 1] = todo[i]
      BY <3>1, <3>a
    <3>3. i + 1 \in 1 .. 2 + (Len(todo) - 1)
      BY <1>4, <2>1, <2>2
    <3> QED
      BY <1>5, <3>2, <3>3
  <2> QED
    BY <2>1, <2>2
<1>9. HalvedTo(todo, next, m)
  BY <1>1, <1>2, <1>3, <1>5, <1>6, <1>7, <1>8 DEF HalvedTo
<1> QED
  BY <1>9 DEF next, a, b, m, s

\* Every place in the new stack is one in the old, and different places are different ones.
LEMMA HalvedPlaces ==
  ASSUME NEW todo, NEW next, NEW m, HalvedTo(todo, next, m),
         NEW i \in DOMAIN next, NEW x \in DOMAIN next[i]
  PROVE  \/ i = 1 /\ x \in DOMAIN todo[1] /\ x <= m /\ x \in Int /\ next[i][x] = todo[1][x]
         \/ /\ i = 2 /\ m + x \in DOMAIN todo[1] /\ x \in Int /\ x > 0
            /\ next[i][x] = todo[1][m + x]
         \/ /\ i > 2 /\ i - 1 \in DOMAIN todo /\ x \in DOMAIN todo[i - 1]
            /\ next[i][x] = todo[i - 1][x]
<1>0. /\ m \in 1 .. Len(todo[1]) - 1 /\ Len(todo[1]) \in Nat
      /\ DOMAIN todo[1] = 1 .. Len(todo[1])
      /\ DOMAIN next[1] = 1 .. m /\ DOMAIN next[2] = 1 .. Len(todo[1]) - m
      /\ \A z \in 1 .. m : next[1][z] = todo[1][z]
      /\ \A z \in 1 .. Len(todo[1]) - m : next[2][z] = todo[1][m + z]
      /\ i \in Int /\ i > 0 /\ (i > 2 => i - 1 \in DOMAIN todo /\ next[i] = todo[i - 1])
  BY DEF HalvedTo
<1>1. CASE i = 1
  <2>1. x \in 1 .. m
    BY <1>0, <1>1
  <2>2. x \in 1 .. Len(todo[1]) /\ x <= m /\ x \in Int
    BY <1>0, <2>1
  <2> QED
    BY <1>0, <1>1, <2>1, <2>2
<1>2. CASE i = 2
  <2>1. x \in 1 .. Len(todo[1]) - m
    BY <1>0, <1>2
  <2>2. m + x \in 1 .. Len(todo[1]) /\ x \in Int /\ x > 0
    BY <1>0, <2>1
  <2> QED
    BY <1>0, <1>2, <2>1, <2>2
<1>3. CASE i > 2
  BY <1>0, <1>3
<1> QED
  BY <1>0, <1>1, <1>2, <1>3

\* A listing has one place in the stack.
LEMMA PlacesDiffer ==
  ASSUME NEW todo, TodoOnce(todo), NEW i \in DOMAIN todo, NEW j \in DOMAIN todo,
         NEW x \in DOMAIN todo[i], NEW y \in DOMAIN todo[j], todo[i][x] = todo[j][y]
  PROVE  i = j /\ x = y
  BY DEF TodoOnce

\* Halving keeps the clusters of the stack apart.
LEMMA HalvedOnce ==
  ASSUME NEW todo, NEW next, NEW m, HalvedTo(todo, next, m), TodoOnce(todo)
  PROVE  TodoOnce(next)
<1>0. \A i, j \in DOMAIN todo : \A x \in DOMAIN todo[i], y \in DOMAIN todo[j] :
        todo[i][x] = todo[j][y] => i = j /\ x = y
  BY DEF TodoOnce
<1>1. 1 \in DOMAIN todo /\ next \in Seq(Seq(Leaf)) /\ m \in Int /\ m > 0
      /\ \A i \in DOMAIN next : i \in Int
  BY DEF HalvedTo
<1>2. \A i \in DOMAIN next : next[i] # <<>>
  <2> SUFFICES ASSUME NEW i \in DOMAIN next PROVE next[i] # <<>>
    OBVIOUS
  <2>0. /\ m \in 1 .. Len(todo[1]) - 1 /\ Len(todo[1]) \in Nat
        /\ DOMAIN next[1] = 1 .. m /\ DOMAIN next[2] = 1 .. Len(todo[1]) - m
        /\ i \in Int /\ i > 0 /\ (i > 2 => i - 1 \in DOMAIN todo /\ next[i] = todo[i - 1])
    BY DEF HalvedTo
  <2>1. i = 1 \/ i = 2 => 1 \in DOMAIN next[i]
    BY <2>0
  <2>2. i = 1 \/ i = 2 => next[i] # <<>>
    BY <2>1
  <2>3. i > 2 => next[i] # <<>>
    BY <2>0 DEF TodoOnce
  <2> QED
    BY <2>0, <2>2, <2>3
<1>3. ASSUME NEW i \in DOMAIN next, NEW j \in DOMAIN next,
             NEW x \in DOMAIN next[i], NEW y \in DOMAIN next[j], next[i][x] = next[j][y]
      PROVE  i = j /\ x = y
  <2>0. i \in Int /\ j \in Int
    BY <1>1
  <2>1. \/ i = 1 /\ x \in DOMAIN todo[1] /\ x <= m /\ x \in Int /\ next[i][x] = todo[1][x]
        \/ /\ i = 2 /\ m + x \in DOMAIN todo[1] /\ x \in Int /\ x > 0
           /\ next[i][x] = todo[1][m + x]
        \/ /\ i > 2 /\ i - 1 \in DOMAIN todo /\ x \in DOMAIN todo[i - 1]
           /\ next[i][x] = todo[i - 1][x]
    BY HalvedPlaces
  <2>2. \/ j = 1 /\ y \in DOMAIN todo[1] /\ y <= m /\ y \in Int /\ next[j][y] = todo[1][y]
        \/ /\ j = 2 /\ m + y \in DOMAIN todo[1] /\ y \in Int /\ y > 0
           /\ next[j][y] = todo[1][m + y]
        \/ /\ j > 2 /\ j - 1 \in DOMAIN todo /\ y \in DOMAIN todo[j - 1]
           /\ next[j][y] = todo[j - 1][y]
    BY HalvedPlaces
  <2>3. CASE i = 1 /\ x \in DOMAIN todo[1] /\ x <= m /\ x \in Int /\ next[i][x] = todo[1][x]
    <3>1. CASE j = 1 /\ y \in DOMAIN todo[1] /\ next[j][y] = todo[1][y]
      BY <1>0, <1>1, <1>3, <2>3, <3>1
    <3>2. CASE j = 2 /\ m + y \in DOMAIN todo[1] /\ y \in Int /\ y > 0
                 /\ next[j][y] = todo[1][m + y]
      <4>1. x = m + y
        BY <1>0, <1>1, <1>3, <2>3, <3>2
      <4> QED
        BY <1>1, <2>3, <3>2, <4>1
    <3>3. CASE j > 2 /\ j - 1 \in DOMAIN todo /\ y \in DOMAIN todo[j - 1]
               /\ next[j][y] = todo[j - 1][y]
      <4>1. 1 = j - 1
        BY <1>0, <1>1, <1>3, <2>3, <3>3
      <4> QED
        BY <2>0, <3>3, <4>1
    <3> QED
      BY <2>2, <3>1, <3>2, <3>3
  <2>4. CASE i = 2 /\ m + x \in DOMAIN todo[1] /\ x \in Int /\ x > 0 /\ next[i][x] = todo[1][m + x]
    <3>1. CASE j = 1 /\ y \in DOMAIN todo[1] /\ y <= m /\ y \in Int /\ next[j][y] = todo[1][y]
      <4>1. m + x = y
        BY <1>0, <1>1, <1>3, <2>4, <3>1
      <4> QED
        BY <1>1, <2>4, <3>1, <4>1
    <3>2. CASE j = 2 /\ m + y \in DOMAIN todo[1] /\ y \in Int /\ next[j][y] = todo[1][m + y]
      <4>1. m + x = m + y
        BY <1>0, <1>1, <1>3, <2>4, <3>2
      <4> QED
        BY <1>1, <2>4, <3>2, <4>1
    <3>3. CASE j > 2 /\ j - 1 \in DOMAIN todo /\ y \in DOMAIN todo[j - 1]
               /\ next[j][y] = todo[j - 1][y]
      <4>1. 1 = j - 1
        BY <1>0, <1>1, <1>3, <2>4, <3>3
      <4> QED
        BY <2>0, <3>3, <4>1
    <3> QED
      BY <2>2, <3>1, <3>2, <3>3
  <2>5. CASE i > 2 /\ i - 1 \in DOMAIN todo /\ x \in DOMAIN todo[i - 1]
               /\ next[i][x] = todo[i - 1][x]
    <3>0. PICK a \in DOMAIN todo : a = i - 1 /\ x \in DOMAIN todo[a] /\ next[i][x] = todo[a][x]
      BY <2>5
    <3>1. CASE j = 1 /\ y \in DOMAIN todo[1] /\ next[j][y] = todo[1][y]
      <4>a. todo[a][x] = todo[1][y]
        BY <1>3, <3>0, <3>1
      <4>1. a = 1
        BY <1>1, <3>0, <3>1, <4>a, PlacesDiffer
      <4> QED
        BY <2>0, <2>5, <3>0, <4>1
    <3>2. CASE j = 2 /\ m + y \in DOMAIN todo[1] /\ next[j][y] = todo[1][m + y]
      <4>a. todo[a][x] = todo[1][m + y]
        BY <1>3, <3>0, <3>2
      <4>1. a = 1
        BY <1>1, <3>0, <3>2, <4>a, PlacesDiffer
      <4> QED
        BY <2>0, <2>5, <3>0, <4>1
    <3>3. CASE j > 2 /\ j - 1 \in DOMAIN todo /\ y \in DOMAIN todo[j - 1]
               /\ next[j][y] = todo[j - 1][y]
      <4>0. PICK b \in DOMAIN todo : b = j - 1 /\ y \in DOMAIN todo[b] /\ next[j][y] = todo[b][y]
        BY <3>3
      <4>a. todo[a][x] = todo[b][y]
        BY <1>3, <3>0, <4>0
      <4>1. a = b /\ x = y
        BY <3>0, <4>0, <4>a, PlacesDiffer
      <4> QED
        BY <2>0, <3>0, <4>0, <4>1
    <3> QED
      BY <2>2, <3>1, <3>2, <3>3
  <2> QED
    BY <2>1, <2>3, <2>4, <2>5
<1> QED
  BY <1>1, <1>2, <1>3 DEF TodoOnce

\* A positive factor cancels.
LEMMA TimesCancels ==
  ASSUME NEW c \in Nat, c > 0, NEW x \in Nat, NEW y \in Nat, c * x = c * y
  PROVE  x = y
  OBVIOUS

\* The stand-in of the right half is a new one.
LEMMA HalvedReps ==
  ASSUME NEW todo, NEW next, NEW m, HalvedTo(todo, next, m), TodoOnce(todo)
  PROVE  LET r == todo[1][m + 1] IN
         /\ r \in Leaf /\ r \notin RepsOf(todo) /\ RepsOf(next) = RepsOf(todo) \cup {r}
         /\ todo[1][1] \in RepsOf(todo)
         /\ 1 \in DOMAIN todo[1] /\ m + 1 \in DOMAIN todo[1]
         /\ \A l \in RepsOf(todo) : l # todo[1][1] => \A x \in DOMAIN todo[1] : todo[1][x] # l
<1> DEFINE r == todo[1][m + 1]
<1>0. \A i, j \in DOMAIN todo : \A x \in DOMAIN todo[i], y \in DOMAIN todo[j] :
        todo[i][x] = todo[j][y] => i = j /\ x = y
  BY DEF TodoOnce
<1>1. /\ 1 \in DOMAIN todo /\ m \in 1 .. Len(todo[1]) - 1 /\ Len(todo[1]) \in Nat
      /\ todo \in Seq(Seq(Leaf)) /\ m \in Int /\ m > 0
      /\ DOMAIN todo[1] = 1 .. Len(todo[1])
      /\ 1 \in DOMAIN next /\ 2 \in DOMAIN next
      /\ DOMAIN next[1] = 1 .. m /\ DOMAIN next[2] = 1 .. Len(todo[1]) - m
      /\ \A z \in 1 .. m : next[1][z] = todo[1][z]
      /\ \A z \in 1 .. Len(todo[1]) - m : next[2][z] = todo[1][m + z]
      /\ \A i \in DOMAIN todo : i \in Int /\ i > 0
                                /\ (i > 1 => i + 1 \in DOMAIN next /\ next[i + 1] = todo[i])
  BY DEF HalvedTo
<1>2. 1 \in DOMAIN todo[1] /\ m + 1 \in DOMAIN todo[1] /\ m + 1 # 1
  BY <1>1
<1>3. r \in Leaf /\ todo[1][1] \in Leaf
  BY <1>1, <1>2
<1>4. r \notin RepsOf(todo)
  BY <1>1, <1>2 DEF RepsOf
<1>5. todo[1][1] \in RepsOf(todo)
  <2> SUFFICES ASSUME NEW i \in DOMAIN todo, NEW x \in DOMAIN todo[i], todo[i][x] = todo[1][1]
               PROVE  x = 1
    BY <1>3 DEF RepsOf
  <2> QED
    BY <1>0, <1>1, <1>2
<1>6. ASSUME NEW l \in RepsOf(todo), l # todo[1][1], NEW x \in DOMAIN todo[1]
      PROVE  todo[1][x] # l
  BY <1>1, <1>6 DEF RepsOf
<1>7. ASSUME NEW l \in RepsOf(todo) \cup {r} PROVE l \in RepsOf(next)
  <2> SUFFICES ASSUME NEW i \in DOMAIN next, NEW x \in DOMAIN next[i], next[i][x] = l
               PROVE  x = 1
    BY <1>3 DEF RepsOf
  <2>1. CASE i = 1 /\ x \in DOMAIN todo[1] /\ x <= m /\ x \in Int /\ next[i][x] = todo[1][x]
    <3>1. l # r
      <4>1. SUFFICES ASSUME l = r PROVE FALSE
        OBVIOUS
      <4>2. x = m + 1
        BY <1>0, <1>1, <1>2, <2>1, <4>1
      <4> QED
        BY <1>1, <2>1, <4>2
    <3> QED
      BY <1>1, <1>7, <2>1, <3>1 DEF RepsOf
  <2>2. CASE i = 2 /\ m + x \in DOMAIN todo[1] /\ x \in Int /\ x > 0 /\ next[i][x] = todo[1][m + x]
    <3>1. CASE l = r
      <4>1. m + x = m + 1
        BY <1>0, <1>1, <1>2, <2>2, <3>1
      <4> QED
        BY <1>1, <2>2, <4>1
    <3>2. CASE l # r
      <4>1. m + x = 1
        BY <1>1, <1>7, <2>2, <3>2 DEF RepsOf
      <4> QED
        BY <1>1, <2>2, <4>1
    <3> QED
      BY <3>1, <3>2
  <2>3. CASE i > 2 /\ i - 1 \in DOMAIN todo /\ x \in DOMAIN todo[i - 1]
               /\ next[i][x] = todo[i - 1][x]
    <3>0. PICK a \in DOMAIN todo : a = i - 1 /\ x \in DOMAIN todo[a] /\ next[i][x] = todo[a][x]
      BY <2>3
    <3>1. l # r
      <4>1. SUFFICES ASSUME l = r PROVE FALSE
        OBVIOUS
      <4>b. PICK y \in DOMAIN todo[1] : y = m + 1
        BY <1>2
      <4>a. todo[a][x] = todo[1][y] /\ 1 \in DOMAIN todo
        BY <1>1, <3>0, <4>1, <4>b
      <4>2. a = 1
        BY <3>0, <4>a, PlacesDiffer
      <4>3. i \in Int
        BY DEF HalvedTo
      <4> QED
        BY <2>3, <3>0, <4>2, <4>3
    <3> QED
      BY <1>7, <3>0, <3>1 DEF RepsOf
  <2> QED
    BY <2>1, <2>2, <2>3, HalvedPlaces
<1>8. ASSUME NEW l \in RepsOf(next) PROVE l \in RepsOf(todo) \cup {r}
  <2>0. l \in Leaf /\ \A i \in DOMAIN next : \A x \in DOMAIN next[i] : next[i][x] = l => x = 1
    BY DEF RepsOf
  <2> SUFFICES ASSUME l # r, NEW i \in DOMAIN todo, NEW x \in DOMAIN todo[i], todo[i][x] = l
               PROVE  x = 1
    BY <2>0 DEF RepsOf
  <2>1. CASE i = 1 /\ x <= m
    <3>1. x \in 1 .. m
      BY <1>1, <2>1
    <3>2. x \in DOMAIN next[1] /\ next[1][x] = l
      BY <1>1, <2>1, <3>1
    <3> QED
      BY <1>1, <2>0, <3>2
  <2>2. CASE i = 1 /\ x > m
    <3>1. x \in 1 .. Len(todo[1])
      BY <1>1, <2>2
    <3>2. PICK z \in 1 .. Len(todo[1]) - m : x = m + z
      <4>1. x - m \in 1 .. Len(todo[1]) - m /\ x = m + (x - m)
        BY <1>1, <2>2, <3>1
      <4> QED
        BY <4>1
    <3>3. z \in DOMAIN next[2] /\ next[2][z] = l
      BY <1>1, <2>2, <3>2
    <3>4. z = 1
      BY <1>1, <2>0, <3>3
    <3> QED
      BY <2>2, <3>2, <3>4
  <2>3. CASE i # 1
    <3>1. i > 1 /\ i + 1 \in DOMAIN next /\ next[i + 1] = todo[i]
      BY <1>1, <2>3
    <3> QED
      BY <2>0, <3>1
  <2> QED
    <3>1. i = 1 => x \in Int
      BY <1>1
    <3> QED
      BY <1>1, <2>1, <2>2, <2>3, <3>1
<1> QED
  BY <1>2, <1>3, <1>4, <1>5, <1>6, <1>7, <1>8

\* What halving does to the weights: a, b of D to the halves of a cluster.
WeighedTo(w, u, todo, m, a, b, D) ==
  /\ SharesOf(w) /\ u \in [Leaf -> Nat \X Nat]
  /\ D \in Nat /\ D > 0 /\ a \in Nat /\ b \in Nat /\ a + b = D
  /\ \A x \in DOMAIN todo[1] :
       u[todo[1][x]] = <<w[todo[1][x]][1] * (IF x <= m THEN a ELSE b), w[todo[1][x]][2] * D>>
  /\ \A l \in Leaf : (\A x \in DOMAIN todo[1] : todo[1][x] # l) => u[l] = w[l]

\* Distributivity, for the shares of two halves.
LEMMA HalvesAdd ==
  ASSUME NEW c \in Nat, NEW a \in Nat, NEW b \in Nat, NEW x \in Nat
  PROVE  c * ((a + b) * x) = (c * b) * x + (c * a) * x
<1>1. (a + b) * x = a * x + b * x
  OBVIOUS
<1>2. c * (a * x) = (c * a) * x /\ c * (b * x) = (c * b) * x
  OBVIOUS
<1> DEFINE y == a * x
           z == b * x
<1>3. y \in Nat /\ z \in Nat
  OBVIOUS
<1>4. c * (y + z) = c * y + c * z
  <2> HIDE DEF y, z
  <2> QED
    BY <1>3
<1>5. c * y \in Nat /\ c * z \in Nat
  <2> HIDE DEF y, z
  <2> QED
    BY <1>3
<1> QED
  BY <1>1, <1>2, <1>4, <1>5

\* Weights that are shared between halves are fractions again.
LEMMA WeighedShares ==
  ASSUME NEW w, NEW u, NEW todo, NEW m, NEW a, NEW b, NEW D, WeighedTo(w, u, todo, m, a, b, D),
         \A x \in DOMAIN todo[1] : todo[1][x] \in Leaf
  PROVE  SharesOf(u)
<1> SUFFICES ASSUME NEW l \in Leaf PROVE u[l][2] # 0
  <2>1. \A l \in Leaf : u[l] \in Nat \X Nat
    BY DEF WeighedTo
  <2>2. \A l \in Leaf : u[l][2] # 0 => u[l] \in Nat \X (Nat \ {0})
    BY <2>1
  <2>3. u = [l \in Leaf |-> u[l]]
    BY DEF WeighedTo
  <2> QED
    BY <2>2, <2>3 DEF SharesOf
<1>1. CASE \A x \in DOMAIN todo[1] : todo[1][x] # l
  <2>1. u[l] = w[l]
    BY <1>1 DEF WeighedTo
  <2>2. w[l][2] > 0 /\ w[l][2] \in Nat
    BY SharesAre DEF WeighedTo
  <2> QED
    BY <2>1, <2>2
<1>2. CASE \E x \in DOMAIN todo[1] : todo[1][x] = l
  <2>1. u[l][2] = w[l][2] * D
    BY <1>2 DEF WeighedTo
  <2>2. w[l][2] \in Nat /\ w[l][2] > 0 /\ D \in Nat /\ D > 0
    BY SharesAre DEF WeighedTo
  <2>3. w[l][2] * D > 0
    BY <2>2, ProductIsPositive
  <2> QED
    BY <2>1, <2>3
<1> QED
  BY <1>1, <1>2

\* What the halves' stand-ins have is what the cluster's had.
LEMMA WeighedWhole ==
  ASSUME NEW w, NEW u, NEW todo, NEW next, NEW m, NEW a, NEW b, NEW D,
         HalvedTo(todo, next, m), TodoOnce(todo), TodoEven(todo, w),
         WeighedTo(w, u, todo, m, a, b, D), AreWhole(w, RepsOf(todo))
  PROVE  AreWhole(u, RepsOf(next))
<1> DEFINE h == todo[1][1]
           r == todo[1][m + 1]
           R == RepsOf(todo)
           Q == RepsOf(next)
<1>1. /\ r \in Leaf /\ r \notin R /\ Q = R \cup {r}
      /\ h \in R /\ 1 \in DOMAIN todo[1] /\ m + 1 \in DOMAIN todo[1]
      /\ \A l \in R : l # h => \A x \in DOMAIN todo[1] : todo[1][x] # l
  BY HalvedReps
<1>2. 1 <= m /\ ~(m + 1 <= m) /\ 1 \in DOMAIN todo
  BY DEF HalvedTo
<1>3. R \subseteq Leaf /\ h \in Leaf
  BY <1>1 DEF RepsOf
<1> DEFINE n == w[h][1]
           d == w[h][2]
<1>4. w[r] = w[h]
  BY <1>1, <1>2 DEF TodoEven
<1>5. n \in Nat /\ d \in Nat /\ d > 0 /\ a \in Nat /\ b \in Nat /\ D \in Nat /\ D > 0 /\ a + b = D
      /\ SharesOf(w) /\ u \in [Leaf -> Nat \X Nat]
  BY <1>3, SharesAre DEF WeighedTo
<1>6. u[h] = <<n * a, d * D>> /\ u[r] = <<n * b, d * D>>
  <2>1. u[h] = <<n * a, d * D>>
    BY <1>1, <1>2 DEF WeighedTo
  <2>2. u[r] = <<w[r][1] * b, w[r][2] * D>>
    BY <1>1, <1>2 DEF WeighedTo
  <2> QED
    BY <2>1, <2>2, <1>4
<1>7. \A l \in R : l # h => u[l] = w[l]
  BY <1>1, <1>3 DEF WeighedTo
<1> HIDE DEF h, r, R, Q
<1>8. IsFiniteSet(R)
  BY <1>3, LeafSize, FS_Subset
<1> SUFFICES ASSUME NEW M \in Nat, NEW k \in [Leaf -> Nat], \A l \in Q : u[l][2] * k[l] = M
             PROVE  SumFunctionOnSet(Numerators(u, k), Q) = M
  BY DEF AreWhole, Q
<1> HIDE DEF n, d
<1>9. d * D \in Nat /\ d * D > 0
  BY <1>5, ProductIsPositive
<1>10. k[h] \in Nat /\ k[r] \in Nat /\ k[h] = k[r] /\ (d * D) * k[h] = M
  <2>1. k[h] \in Nat /\ k[r] \in Nat
    BY <1>1, <1>3
  <2>2. (d * D) * k[h] = M /\ (d * D) * k[r] = M
    BY <1>1, <1>6
  <2> QED
    BY <1>9, <2>1, <2>2, TimesCancels
<1> DEFINE j == [k EXCEPT ![h] = D * k[h]]
           f == Numerators(w, j)
           g == Numerators(u, k)
<1>11. j \in [Leaf -> Nat] /\ j[h] = D * k[h] /\ \A l \in R : l # h => j[l] = k[l]
  BY <1>3, <1>5, <1>10
<1>12. \A l \in R : w[l][2] * j[l] = M
  <2> SUFFICES ASSUME NEW l \in R PROVE w[l][2] * j[l] = M
    OBVIOUS
  <2>1. CASE l = h
    <3>1. d * (D * k[h]) = (d * D) * k[h]
      BY <1>5, <1>10
    <3> QED
      BY <1>10, <1>11, <2>1, <3>1 DEF d
  <2>2. CASE l # h
    BY <1>1, <1>7, <1>11, <2>2
  <2> QED
    BY <2>1, <2>2
<1>13. SumFunctionOnSet(f, R) = M
  BY <1>11, <1>12 DEF AreWhole, R
<1>14. /\ \A l \in R : f[l] = w[l][1] * j[l] /\ g[l] = u[l][1] * k[l]
       /\ g[r] = u[r][1] * k[r]
  BY <1>1, <1>3 DEF Numerators
<1>15. /\ \A l \in R : f[l] \in Int
       /\ \A l \in Q : g[l] \in Int
  <2>1. \A l \in Leaf : w[l][1] \in Nat /\ u[l][1] \in Nat /\ k[l] \in Nat /\ j[l] \in Nat
    <3> HIDE DEF j
    <3> QED
      BY <1>5, <1>11, SharesAre
  <2> HIDE DEF f, g, j
  <2>2. \A l \in Leaf : w[l][1] * j[l] \in Int /\ u[l][1] * k[l] \in Int
    BY <2>1
  <2>3. \A l \in R : f[l] \in Int /\ g[l] \in Int
    BY <1>3, <1>14, <2>2
  <2>4. g[r] \in Int
    BY <1>1, <1>14, <2>2
  <2> QED
    BY <1>1, <2>3, <2>4
<1> HIDE DEF f, g, j
<1>16. SumFunctionOnSet(f, R) = f[h] + SumFunctionOnSet(f, R \ {h})
  BY <1>1, <1>8, <1>15, SumStep
<1>17. SumFunctionOnSet(g, Q) = g[r] + (g[h] + SumFunctionOnSet(g, R \ {h}))
  <2>1. IsFiniteSet(Q) /\ r \in Q
    BY <1>1, <1>8, FS_AddElement
  <2>2. SumFunctionOnSet(g, Q) = g[r] + SumFunctionOnSet(g, Q \ {r})
    BY <1>15, <2>1, SumStep
  <2>3. Q \ {r} = R /\ R \subseteq Q
    BY <1>1
  <2>4. SumFunctionOnSet(g, R) = g[h] + SumFunctionOnSet(g, R \ {h})
    BY <1>1, <1>8, <1>15, <2>3, SumStep
  <2> QED
    BY <2>2, <2>3, <2>4
<1>18. SumFunctionOnSet(g, R \ {h}) = SumFunctionOnSet(f, R \ {h})
       /\ SumFunctionOnSet(f, R \ {h}) \in Int
  <2>1. IsFiniteSet(R \ {h}) /\ \A l \in R \ {h} : f[l] \in Int
    BY <1>8, <1>15, FS_RemoveElement
  <2>2. \A l \in R \ {h} : g[l] = f[l]
    BY <1>7, <1>11, <1>14
  <2>3. SumFunctionOnSet(f, R \ {h}) \in Int
    BY <2>1, SumInt
  <2> QED
    BY <2>1, <2>2, <2>3, SumSame
<1>19. f[h] = g[r] + g[h] /\ f[h] \in Int /\ g[r] \in Int /\ g[h] \in Int
  <2>1. f[h] = n * (D * k[h])
    BY <1>1, <1>11, <1>14 DEF n
  <2>2. g[r] = (n * b) * k[h] /\ g[h] = (n * a) * k[h]
    BY <1>1, <1>6, <1>10, <1>14
  <2>3. n * (D * k[h]) = (n * b) * k[h] + (n * a) * k[h]
    <3>1. D = a + b /\ n \in Nat /\ a \in Nat /\ b \in Nat /\ k[h] \in Nat
      BY <1>5, <1>10
    <3>2. n * ((a + b) * k[h]) = (n * b) * k[h] + (n * a) * k[h]
      BY <3>1, HalvesAdd
    <3> QED
      BY <3>1, <3>2
  <2> QED
    BY <1>1, <1>15, <2>1, <2>2, <2>3
<1> QED
  <2> DEFINE x == SumFunctionOnSet(f, R \ {h})
  <2>1. SumFunctionOnSet(g, Q) = g[r] + (g[h] + x) /\ M = f[h] + x /\ x \in Int
    BY <1>13, <1>16, <1>17, <1>18
  <2> HIDE DEF x
  <2>2. SumFunctionOnSet(g, Q) = M
    BY <1>19, <2>1
  <2> QED
    BY <2>2 DEF g

\* The half a listing is in is said by its place.
LEMMA InHalves ==
  ASSUME NEW todo, NEW next, NEW m, HalvedTo(todo, next, m), TodoOnce(todo),
         NEW x \in DOMAIN todo[1]
  PROVE  /\ todo[1][x] \in Range(next[1]) <=> x <= m
         /\ x <= m \/ todo[1][x] \in Range(next[2])
<1>1. /\ 1 \in DOMAIN todo /\ m \in 1 .. Len(todo[1]) - 1 /\ Len(todo[1]) \in Nat /\ m \in Int
      /\ DOMAIN todo[1] = 1 .. Len(todo[1])
      /\ DOMAIN next[1] = 1 .. m /\ DOMAIN next[2] = 1 .. Len(todo[1]) - m
      /\ \A z \in 1 .. m : next[1][z] = todo[1][z]
      /\ \A z \in 1 .. Len(todo[1]) - m : next[2][z] = todo[1][m + z]
  BY DEF HalvedTo
<1>2. x \in Int /\ x >= 1 /\ x <= Len(todo[1])
  BY <1>1
<1>3. ASSUME x <= m PROVE todo[1][x] \in Range(next[1])
  <2>1. x \in 1 .. m
    BY <1>1, <1>2, <1>3
  <2> QED
    BY <1>1, <2>1 DEF Range
<1>4. ASSUME todo[1][x] \in Range(next[1]) PROVE x <= m
  <2>1. PICK z \in 1 .. m : todo[1][x] = next[1][z]
    BY <1>1, <1>4 DEF Range
  <2>2. z \in DOMAIN todo[1] /\ next[1][z] = todo[1][z] /\ z <= m
    BY <1>1
  <2>3. x = z
    BY <1>1, <2>1, <2>2, PlacesDiffer
  <2> QED
    BY <2>2, <2>3
<1>5. ASSUME x > m PROVE todo[1][x] \in Range(next[2])
  <2>1. PICK z \in 1 .. Len(todo[1]) - m : x = m + z
    <3>1. x - m \in 1 .. Len(todo[1]) - m /\ x = m + (x - m)
      BY <1>1, <1>2, <1>5
    <3> QED
      BY <3>1
  <2> QED
    BY <1>1, <2>1 DEF Range
<1> QED
  BY <1>1, <1>2, <1>3, <1>4, <1>5

\* Only the listings of the cluster are in its halves.
LEMMA HalvesAreOf ==
  ASSUME NEW todo, NEW next, NEW m, HalvedTo(todo, next, m),
         NEW l \in Range(next[1]) \cup Range(next[2])
  PROVE  \E x \in DOMAIN todo[1] : todo[1][x] = l
<1>1. /\ m \in 1 .. Len(todo[1]) - 1 /\ Len(todo[1]) \in Nat /\ m \in Int
      /\ DOMAIN todo[1] = 1 .. Len(todo[1])
      /\ DOMAIN next[1] = 1 .. m /\ DOMAIN next[2] = 1 .. Len(todo[1]) - m
      /\ \A z \in 1 .. m : next[1][z] = todo[1][z]
      /\ \A z \in 1 .. Len(todo[1]) - m : next[2][z] = todo[1][m + z]
  BY DEF HalvedTo
<1>2. CASE l \in Range(next[1])
  <2>1. PICK z \in 1 .. m : l = next[1][z]
    BY <1>1, <1>2 DEF Range
  <2>2. z \in 1 .. Len(todo[1])
    BY <1>1
  <2> QED
    BY <1>1, <2>1, <2>2
<1>3. CASE l \in Range(next[2])
  <2>1. PICK z \in 1 .. Len(todo[1]) - m : l = next[2][z]
    BY <1>1, <1>3 DEF Range
  <2>2. m + z \in 1 .. Len(todo[1])
    BY <1>1
  <2> QED
    BY <1>1, <2>1, <2>2
<1> QED
  BY <1>2, <1>3

\* What is left of the stack keeps even weights.
LEMMA WeighedEven ==
  ASSUME NEW w, NEW u, NEW todo, NEW next, NEW m, NEW a, NEW b, NEW D,
         HalvedTo(todo, next, m), TodoOnce(todo), TodoEven(todo, w),
         WeighedTo(w, u, todo, m, a, b, D)
  PROVE  TodoEven(next, u)
<1> SUFFICES ASSUME NEW i \in DOMAIN next, NEW x \in DOMAIN next[i]
             PROVE  u[next[i][x]] = u[next[i][1]]
  BY DEF TodoEven
<1>1. /\ 1 \in DOMAIN todo /\ m \in 1 .. Len(todo[1]) - 1 /\ Len(todo[1]) \in Nat /\ m \in Int
      /\ DOMAIN todo[1] = 1 .. Len(todo[1])
      /\ DOMAIN next[1] = 1 .. m /\ DOMAIN next[2] = 1 .. Len(todo[1]) - m
      /\ todo \in Seq(Seq(Leaf))
      /\ i \in Int /\ i > 0 /\ (i > 2 => i - 1 \in DOMAIN todo /\ next[i] = todo[i - 1])
      /\ \A z \in 1 .. m : next[1][z] = todo[1][z]
      /\ \A z \in 1 .. Len(todo[1]) - m : next[2][z] = todo[1][m + z]
  BY DEF HalvedTo
<1>2. \A z \in DOMAIN todo[1] : w[todo[1][z]] = w[todo[1][1]]
  BY <1>1 DEF TodoEven
<1>3. \A z \in DOMAIN todo[1] :
        u[todo[1][z]] = <<w[todo[1][1]][1] * (IF z <= m THEN a ELSE b), w[todo[1][1]][2] * D>>
  BY <1>2 DEF WeighedTo
<1>4. CASE i = 1
  <2>1. x \in 1 .. m /\ 1 \in 1 .. m /\ x \in 1 .. Len(todo[1]) /\ 1 \in 1 .. Len(todo[1])
        /\ x <= m /\ 1 <= m
    BY <1>1, <1>4
  <2> QED
    BY <1>1, <1>3, <1>4, <2>1
<1>5. CASE i = 2
  <2>1. PICK y \in DOMAIN todo[1] : y = m + x /\ next[2][x] = todo[1][y] /\ ~(y <= m)
    <3>1. x \in 1 .. Len(todo[1]) - m
      BY <1>1, <1>5
    <3>2. m + x \in 1 .. Len(todo[1]) /\ ~(m + x <= m)
      BY <1>1, <3>1
    <3> QED
      BY <1>1, <3>1, <3>2
  <2>2. PICK z \in DOMAIN todo[1] : next[2][1] = todo[1][z] /\ ~(z <= m)
    <3>1. 1 \in 1 .. Len(todo[1]) - m /\ m + 1 \in 1 .. Len(todo[1]) /\ ~(m + 1 <= m)
      BY <1>1
    <3> QED
      BY <1>1, <3>1
  <2> QED
    BY <1>3, <1>5, <2>1, <2>2
<1>6. CASE i > 2
  <2>1. PICK o \in DOMAIN todo : o = i - 1 /\ next[i] = todo[o]
    BY <1>1, <1>6
  <2>2. o # 1
    BY <1>1, <1>6, <2>1
  <2>3. \A y \in DOMAIN todo[o] : u[todo[o][y]] = w[todo[o][y]]
    <3> SUFFICES ASSUME NEW y \in DOMAIN todo[o] PROVE u[todo[o][y]] = w[todo[o][y]]
      OBVIOUS
    <3>1. todo[o][y] \in Leaf
      BY <1>1
    <3>2. \A z \in DOMAIN todo[1] : todo[1][z] # todo[o][y]
      BY <1>1, <2>2, PlacesDiffer
    <3> QED
      BY <3>1, <3>2 DEF WeighedTo
  <2>4. 1 \in DOMAIN todo[o]
    <3>1. todo[o] \in Seq(Leaf) /\ todo[o] # <<>>
      BY <1>1 DEF TodoOnce
    <3> QED
      BY <3>1
  <2>5. w[todo[o][x]] = w[todo[o][1]]
    BY <2>1 DEF TodoEven
  <2> QED
    BY <2>1, <2>3, <2>4, <2>5
<1> QED
  BY <1>1, <1>4, <1>5, <1>6

\* Halving preserves the invariant.
LEMMA HalveStep ==
  ASSUME WeightInv, NEW v \in Variances, Halve(v)
  PROVE  WeightInv' /\ Clustered /\ UNCHANGED <<distance, active, leaves, heights>>
<1> DEFINE s == Head(pending)
           m == Len(s) \div 2
           left == SubSeq(s, 1, m)
           right == SubSeq(s, m + 1, Len(s))
           next == <<left, right>> \o Tail(pending)
<1>1. /\ pending # <<>> /\ Len(Head(pending)) > 1 /\ pending' = next
      /\ weight' = [l \in Leaf |-> IF l \in Range(left) THEN Times(weight[l], Shares(v)[1])
                                   ELSE IF l \in Range(right) THEN Times(weight[l], Shares(v)[2])
                                   ELSE weight[l]]
      /\ UNCHANGED <<distance, active, leaves, heights>>
  BY DEF Halve
<1>2. /\ Clustered /\ SharesOf(weight) /\ TodoOnce(pending)
      /\ TodoEven(pending, weight) /\ AreWhole(weight, RepsOf(pending))
  BY <1>1 DEF WeightInv
<1>3. HalvedTo(pending, next, m)
  <2>1. pending \in Seq(Seq(Leaf))
    BY <1>2 DEF TodoOnce
  <2> QED
    BY <1>1, <2>1, HalvedIs
<1>4. PICK a, b, D \in Nat : D > 0 /\ a + b = D /\ Shares(v) = <<<<a, D>>, <<b, D>>>>
  <2>1. v \in Nat \X Nat
    BY TreeAssumption
  <2> QED
    BY <2>1, SharesAreWhole
<1>5. next[1] = left /\ next[2] = right
  <2> HIDE DEF left, right
  <2> QED
    BY <1>2, <1>1 DEF TodoOnce
<1> HIDE DEF next, left, right, m, s
<1>6. /\ \A l \in Leaf : weight[l][1] \in Nat /\ weight[l][2] \in Nat /\ weight[l] \in Nat \X Nat
      /\ pending \in Seq(Seq(Leaf)) /\ 1 \in DOMAIN pending
      /\ \A x \in DOMAIN pending[1] : pending[1][x] \in Leaf
  <2>1. pending \in Seq(Seq(Leaf)) /\ 1 \in DOMAIN pending
    BY <1>2, <1>3 DEF TodoOnce, HalvedTo
  <2>2. \A x \in DOMAIN pending[1] : pending[1][x] \in Leaf
    BY <2>1
  <2>3. ASSUME NEW l \in Leaf
        PROVE  weight[l][1] \in Nat /\ weight[l][2] \in Nat /\ weight[l] \in Nat \X Nat
    <3>1. SharesOf(weight)
      BY <1>2
    <3>2. weight[l][1] \in Nat /\ weight[l][2] \in Nat /\ weight[l] = <<weight[l][1], weight[l][2]>>
      BY <3>1, SharesAre
    <3> QED
      BY <3>2
  <2> QED
    BY <2>1, <2>2, <2>3
<1>7. ASSUME NEW l \in Leaf
      PROVE  /\ weight'[l] = IF l \in Range(left) THEN <<weight[l][1] * a, weight[l][2] * D>>
                             ELSE IF l \in Range(right) THEN <<weight[l][1] * b, weight[l][2] * D>>
                             ELSE weight[l]
             /\ weight'[l] \in Nat \X Nat
  <2>1. Times(weight[l], Shares(v)[1]) = <<weight[l][1] * a, weight[l][2] * D>>
    BY <1>4 DEF Times
  <2>2. Times(weight[l], Shares(v)[2]) = <<weight[l][1] * b, weight[l][2] * D>>
    BY <1>4 DEF Times
  <2>3. weight[l][1] * a \in Nat /\ weight[l][1] * b \in Nat /\ weight[l][2] * D \in Nat
    <3>1. weight[l][1] \in Nat /\ weight[l][2] \in Nat
      BY <1>6
    <3> QED
      BY <3>1, ProductIsNat
  <2>4. weight'[l] = IF l \in Range(left) THEN Times(weight[l], Shares(v)[1])
                     ELSE IF l \in Range(right) THEN Times(weight[l], Shares(v)[2])
                     ELSE weight[l]
    BY <1>1
  <2>5. weight'[l] = IF l \in Range(left) THEN <<weight[l][1] * a, weight[l][2] * D>>
                     ELSE IF l \in Range(right) THEN <<weight[l][1] * b, weight[l][2] * D>>
                     ELSE weight[l]
    BY <2>1, <2>2, <2>4
  <2>6. /\ <<weight[l][1] * a, weight[l][2] * D>> \in Nat \X Nat
        /\ <<weight[l][1] * b, weight[l][2] * D>> \in Nat \X Nat
    BY <2>3
  <2>7. weight'[l] \in Nat \X Nat
    BY <1>6, <2>5, <2>6
  <2> QED
    BY <2>5, <2>7
<1>8. WeighedTo(weight, weight', pending, m, a, b, D)
  <2>1. weight' \in [Leaf -> Nat \X Nat]
    <3>1. weight' = [l \in Leaf |-> weight'[l]]
      BY <1>1
    <3> QED
      BY <1>7, <3>1
  <2>2. ASSUME NEW x \in DOMAIN pending[1]
        PROVE  weight'[pending[1][x]] = <<weight[pending[1][x]][1] * (IF x <= m THEN a ELSE b),
                                          weight[pending[1][x]][2] * D>>
    <3>1. /\ pending[1][x] \in Range(next[1]) <=> x <= m
          /\ x <= m \/ pending[1][x] \in Range(next[2])
      BY <1>2, <1>3, InHalves
    <3>2. pending[1][x] \in Leaf
      BY <1>6
    <3> QED
      BY <1>5, <1>7, <3>1, <3>2
  <2>3. ASSUME NEW l \in Leaf, \A x \in DOMAIN pending[1] : pending[1][x] # l
        PROVE  weight'[l] = weight[l]
    <3>1. l \notin Range(next[1]) \cup Range(next[2])
      BY <1>3, <2>3, HalvesAreOf
    <3> QED
      BY <1>5, <1>7, <3>1
  <2> QED
    BY <1>2, <1>4, <2>1, <2>2, <2>3 DEF WeighedTo
<1>9. SharesOf(weight')
  BY <1>6, <1>8, WeighedShares
<1>10. TodoOnce(next)
  BY <1>2, <1>3, HalvedOnce
<1>11. TodoEven(next, weight')
  BY <1>2, <1>3, <1>8, WeighedEven
<1>12. AreWhole(weight', RepsOf(next))
  BY <1>2, <1>3, <1>8, WeighedWhole
<1>13. weight' # <<>>
  BY <1>9, WeightsAreThere
<1>14. Clustered'
  BY <1>1, <1>2 DEF Clustered
<1> QED
  BY <1>1, <1>2, <1>9, <1>10, <1>11, <1>12, <1>13, <1>14 DEF WeightInv

IsProduct(p, w) == p = [n \in 0 .. Leaves |-> IF n = 0 THEN 1 ELSE p[n - 1] * w[n - 1][2]]

\* There is a product of the denominators, by induction over the listings.
LEMMA ProductExists ==
  ASSUME NEW w
  PROVE  \E p : IsProduct(p, w)
<1> DEFINE Step(p, n) == IF n = 0 THEN 1 ELSE p[n - 1] * w[n - 1][2]
           Is(p, n) == p = [d \in 0 .. n |-> Step(p, d)]
           G == {n \in Nat : \E p : Is(p, n)}
<1>1. 0 \in G
  <2>1. Is([d \in 0 .. 0 |-> 1], 0)
    OBVIOUS
  <2> HIDE DEF Is
  <2> QED
    BY <2>1
<1>2. ASSUME NEW n \in G PROVE n + 1 \in G
  <2>1. PICK p : Is(p, n)
    BY <1>2
  <2> DEFINE next == [d \in 0 .. n + 1 |-> Step(p, d)]
  <2>2. ASSUME NEW d \in 0 .. n PROVE next[d] = p[d]
    <3>1. d \in 0 .. n + 1
      OBVIOUS
    <3>2. p[d] = Step(p, d)
      BY <2>1
    <3> QED
      BY <3>1, <3>2
  <2>3. ASSUME NEW d \in 0 .. n + 1 PROVE next[d] = Step(next, d)
    <3>1. next[d] = Step(p, d)
      OBVIOUS
    <3>2. CASE d = 0
      BY <3>1, <3>2
    <3>3. CASE d # 0
      <4>1. d - 1 \in 0 .. n
        BY <3>3
      <4>2. next[d - 1] = p[d - 1]
        BY <4>1, <2>2
      <4> QED
        BY <3>1, <3>3, <4>2
    <3> QED
      BY <3>2, <3>3
  <2>4. next = [d \in 0 .. n + 1 |-> next[d]]
    OBVIOUS
  <2> HIDE DEF next
  <2>5. Is(next, n + 1)
    BY <2>3, <2>4
  <2>6. n + 1 \in Nat
    OBVIOUS
  <2> HIDE DEF Is
  <2> QED
    BY <2>5, <2>6
<1>3. G \in SUBSET Nat
  OBVIOUS
<1>4. Leaves \in G
  <2> HIDE DEF G
  <2>1. G = Nat
    BY <1>1, <1>2, <1>3, NaturalsAll
  <2> QED
    BY <2>1, LeavesAreNat
<1> QED
  BY <1>4 DEF IsProduct

\* A multiple of a multiple.
LEMMA MultipleGrows ==
  ASSUME NEW a \in Nat, NEW k \in Nat, NEW c \in Nat
  PROVE  a * (k * c) = (a * k) * c /\ k * c \in Nat
  OBVIOUS

\* Every denominator divides the product of them all.
LEMMA ProductDivides ==
  ASSUME NEW w, SharesOf(w), NEW p, IsProduct(p, w)
  PROVE  p[Leaves] \in Nat /\ \A l \in Leaf : \E k \in Nat : w[l][2] * k = p[Leaves]
<1> DEFINE Ok(n) == p[n] \in Nat /\ \A l \in Leaf : l < n => \E k \in Nat : w[l][2] * k = p[n]
           G == {n \in Nat : n <= Leaves => Ok(n)}
<1>1. Leaves \in Nat /\ Leaf \subseteq Int /\ \A l \in Leaf : l >= 0
  BY LeavesAreNat DEF Leaf
<1>2. \A n \in 0 .. Leaves : p[n] = IF n = 0 THEN 1 ELSE p[n - 1] * w[n - 1][2]
  BY DEF IsProduct
<1>3. 0 \in G
  <2>1. p[0] = 1
    BY <1>1, <1>2
  <2> QED
    BY <1>1, <2>1
<1>4. ASSUME NEW n \in G PROVE n + 1 \in G
  <2> SUFFICES ASSUME n + 1 <= Leaves PROVE Ok(n + 1)
    OBVIOUS
  <2>1. n \in Nat /\ n \in Leaf /\ Ok(n) /\ p[n + 1] = p[n] * w[n][2]
    <3>1. n \in Nat /\ n <= Leaves /\ n + 1 \in 0 .. Leaves /\ n + 1 # 0 /\ (n + 1) - 1 = n
      BY <1>1
    <3>2. n \in Leaf
      BY <1>1, <3>1 DEF Leaf
    <3>3. p[n + 1] = p[(n + 1) - 1] * w[(n + 1) - 1][2]
      BY <1>2, <3>1
    <3> QED
      BY <3>1, <3>2, <3>3
  <2>2. w[n][2] \in Nat /\ p[n] \in Nat
    BY <2>1, SharesAre
  <2>3. p[n + 1] \in Nat
    <3> DEFINE x == p[n]
               y == w[n][2]
    <3>1. p[n + 1] = x * y /\ x \in Nat /\ y \in Nat
      BY <2>1, <2>2
    <3> HIDE DEF x, y
    <3>2. x * y \in Nat
      BY <3>1
    <3> QED
      BY <3>1, <3>2
  <2>4. ASSUME NEW l \in Leaf, l < n + 1 PROVE \E k \in Nat : w[l][2] * k = p[n + 1]
    <3>1. w[l][2] \in Nat
      BY SharesAre
    <3>2. CASE l = n
      <4>1. w[n][2] * p[n] = p[n] * w[n][2]
        BY <2>2
      <4> QED
        BY <2>1, <2>2, <3>2, <4>1
    <3>3. CASE l # n
      <4>1. l < n
        BY <1>1, <2>1, <2>4, <3>3
      <4>2. PICK k \in Nat : w[l][2] * k = p[n]
        BY <2>1, <4>1
      <4>3. w[l][2] * (k * w[n][2]) = p[n] * w[n][2] /\ k * w[n][2] \in Nat
        BY <2>2, <3>1, <4>2, MultipleGrows
      <4> QED
        BY <2>1, <4>3
    <3> QED
      BY <3>2, <3>3
  <2> QED
    BY <2>3, <2>4
<1>5. G \in SUBSET Nat
  OBVIOUS
<1> HIDE DEF G
<1>6. G = Nat
  BY <1>3, <1>4, <1>5, NaturalsAll
<1>7. Ok(Leaves)
  BY <1>1, <1>6 DEF G
<1>8. \A l \in Leaf : l < Leaves
  BY <1>1 DEF Leaf
<1> QED
  BY <1>7, <1>8

\* Division undoes multiplication.
LEMMA DivCancels ==
  ASSUME NEW d \in Nat, d > 0, NEW k \in Nat
  PROVE  (d * k) \div d = k
  OBVIOUS

\* Once nothing is left to halve every listing stands for itself, and the weights are the
\* whole.
LEMMA WholeInTheEnd ==
  ASSUME WeightInv
  PROVE  WeightsAreWhole
<1> SUFFICES ASSUME weight # <<>>, pending = <<>> PROVE WeightsAreWhole
  BY DEF WeightsAreWhole
<1>1. SharesOf(weight) /\ AreWhole(weight, Leaf)
  <2>1. SharesOf(weight) /\ AreWhole(weight, RepsOf(pending))
    BY DEF WeightInv
  <2>2. DOMAIN pending = {}
    OBVIOUS
  <2>3. RepsOf(pending) = Leaf
    BY <2>2 DEF RepsOf
  <2> QED
    BY <2>1, <2>3
<1> DEFINE Body(p) == [n \in 0 .. Leaves |-> IF n = 0 THEN 1 ELSE p[n - 1] * weight[n - 1][2]]
           product == CHOOSE p : p = Body(p)
           whole == product[Leaves]
           k == [l \in Leaf |-> whole \div weight[l][2]]
           shares == [l \in Leaf |-> weight[l][1] * (whole \div weight[l][2])]
<1>2. IsProduct(product, weight)
  <2>1. \A p : IsProduct(p, weight) <=> p = Body(p)
    BY DEF IsProduct
  <2>2. \E p : p = Body(p)
    BY <2>1, ProductExists
  <2> HIDE DEF Body
  <2>3. product = Body(product)
    BY <2>2
  <2> HIDE DEF product
  <2> QED
    BY <2>1, <2>3
<1>3. SumFunction(shares) = whole
  <2> HIDE DEF product
  <2>1. whole \in Nat /\ \A l \in Leaf : \E c \in Nat : weight[l][2] * c = whole
    BY <1>1, <1>2, ProductDivides
  <2> HIDE DEF whole
  <2>2. ASSUME NEW l \in Leaf PROVE k[l] \in Nat /\ weight[l][2] * k[l] = whole
    <3>1. PICK c \in Nat : weight[l][2] * c = whole
      BY <2>1
    <3>2. weight[l][2] \in Nat /\ weight[l][2] > 0
      BY <1>1, SharesAre
    <3>3. whole \div weight[l][2] = c
      BY <3>1, <3>2, DivCancels
    <3> QED
      BY <3>1, <3>3
  <2>3. k \in [Leaf -> Nat]
    BY <2>2
  <2>4. SumFunctionOnSet(Numerators(weight, k), Leaf) = whole
    <3> HIDE DEF k
    <3> QED
      BY <1>1, <2>1, <2>2, <2>3 DEF AreWhole
  <2>5. shares = Numerators(weight, k)
    BY DEF Numerators
  <2>6. DOMAIN shares = Leaf
    OBVIOUS
  <2> HIDE DEF shares, k
  <2>7. SumFunction(shares) = SumFunctionOnSet(shares, Leaf)
    BY <2>6 DEF SumFunction
  <2> QED
    BY <2>4, <2>5, <2>7
<1> QED
  BY <1>3 DEF WeightsAreWhole

\* The inductive invariant of the tree.
TreeInv == ClusterInv /\ WeightInv

\* Every step preserves it.
LEMMA TreeInvStep ==
  ASSUME TreeInv, [TreeNext]_tree
  PROVE  TreeInv'
<1>1. ClusterInv /\ WeightInv
  BY DEF TreeInv
<1>2. ASSUME NEW d \in [PairsOf(Leaf) -> Distances], Cluster(d) PROVE TreeInv'
  BY <1>1, <1>2, ClusterStep DEF TreeInv, WeightInv
<1>3. CASE Merge
  <2>1. ClusterInv' /\ ~Clustered
    BY <1>1, <1>3, MergeStep
  <2>2. weight = <<>> /\ pending = <<>>
    BY <1>1, <2>1 DEF WeightInv
  <2>3. weight' = <<>> /\ pending' = <<>>
    BY <1>3, <2>2 DEF Merge
  <2> QED
    BY <2>1, <2>3 DEF TreeInv, WeightInv
<1>4. CASE Bisect
  <2>1. WeightInv' /\ active # {} /\ UNCHANGED <<distance, active, leaves, heights>>
    BY <1>1, <1>4, BisectStep
  <2> QED
    BY <1>1, <2>1, ClustersStay DEF TreeInv
<1>5. Clustered => active # {}
  <2>1. Cardinality({}) = 0
    BY FS_EmptySet
  <2> QED
    BY <2>1 DEF Clustered
<1>6. CASE Single
  <2>1. WeightInv' /\ Clustered /\ UNCHANGED <<distance, active, leaves, heights>>
    BY <1>1, <1>6, SingleStep
  <2> QED
    BY <1>1, <1>5, <2>1, ClustersStay DEF TreeInv
<1>7. ASSUME NEW v \in Variances, Halve(v) PROVE TreeInv'
  <2>1. WeightInv' /\ Clustered /\ UNCHANGED <<distance, active, leaves, heights>>
    BY <1>1, <1>7, HalveStep
  <2> QED
    BY <1>1, <1>5, <2>1, ClustersStay DEF TreeInv
<1>8. CASE UNCHANGED tree
  <2>1. /\ distance' = distance /\ active' = active /\ leaves' = leaves /\ heights' = heights
        /\ pending' = pending /\ weight' = weight
    BY <1>8 DEF tree
  <2>2. WeightInv'
    BY <1>1, <2>1 DEF WeightInv, Clustered
  <2>3. CASE active = {}
    BY <1>1, <2>1, <2>2, <2>3 DEF TreeInv, ClusterInv
  <2>4. CASE active # {}
    BY <1>1, <2>1, <2>2, <2>4, ClustersStay DEF TreeInv
  <2> QED
    BY <2>3, <2>4
<1> QED
  BY <1>2, <1>3, <1>4, <1>6, <1>7, <1>8 DEF TreeNext

\* The invariant says that the tree is sound.
LEMMA TreeInvSound ==
  ASSUME TreeInv
  PROVE  TreeIsSound
<1>1. /\ MergesAreLinked /\ OrderKeepsClusters
      /\ (\A c \in DOMAIN leaves : leaves[c] \in Seq(Leaf)) /\ Len(heights) < Leaves
  BY TreeShape DEF TreeInv
<1>2. WeightsAreWhole
  BY WholeInTheEnd DEF TreeInv
<1>3. \A l \in DOMAIN weight : weight[l] \in Nat \X (Nat \ {0})
  <2>1. CASE weight = <<>>
    BY <2>1
  <2>2. CASE weight # <<>>
    BY <2>2 DEF TreeInv, WeightInv, SharesOf
  <2> QED
    BY <2>1, <2>2
<1> QED
  BY <1>1, <1>2, <1>3 DEF TreeIsSound, TreeTypeOK

\* What _hrp_clustering merges are the closest clusters of single linkage, its order keeps
\* every cluster together, and the weights of recursive_bisection are exactly
\* the whole: for every number of listings, their distances and variances.
THEOREM TreeIsSoundCorrect == TreeSpec => []TreeIsSound
<1>1. TreeInit => TreeInv
  BY DEF TreeInit, TreeInv, ClusterInv, WeightInv
<1>2. TreeInv /\ [TreeNext]_tree => TreeInv'
  BY TreeInvStep
<1>3. TreeInv => TreeIsSound
  BY TreeInvSound
<1> QED
  BY <1>1, <1>2, <1>3, PTL DEF TreeSpec

------------------------------------------------------------------------------
(***************************************************************************)
(* Rebalancing.  A day divides amounts by no more than its grain, so that  *)
(* amounts that are multiples of the grain of the days left divide         *)
(* exactly.  Periods of the calendar rise with the months, so that a       *)
(* period that is not the last one is new.  The peak was reached last as   *)
(* many dates ago as the duration says.                                    *)
(***************************************************************************)

\* Amounts that are so many of a unit.
Multiple(n, k) == \E q \in Int : n = q * k

\* Multiples of a unit add up to one.
LEMMA MultiplesAdd ==
  ASSUME NEW a, NEW b, NEW k \in Int, Multiple(a, k), Multiple(b, k)
  PROVE  Multiple(a + b, k) /\ Multiple(a - b, k)
<1>1. PICK p \in Int : a = p * k
  BY DEF Multiple
<1>2. PICK q \in Int : b = q * k
  BY DEF Multiple
<1>3. p + q \in Int /\ p - q \in Int /\ a + b = (p + q) * k /\ a - b = (p - q) * k
  BY <1>1, <1>2
<1> QED
  BY <1>3 DEF Multiple

\* So many times a multiple is one.
LEMMA MultiplesGrow ==
  ASSUME NEW a, NEW c \in Int, NEW k \in Int, Multiple(a, k)
  PROVE  Multiple(c * a, k)
<1>1. PICK p \in Int : a = p * k
  BY DEF Multiple
<1>2. c * p \in Int /\ c * a = (c * p) * k
  BY <1>1
<1> QED
  BY <1>2 DEF Multiple

\* Divisions of amounts that are many enough of a unit are exact.
LEMMA HalfIsExact ==
  ASSUME NEW a, NEW k \in Int, Multiple(a, 2 * k)
  PROVE  a \div 2 \in Int /\ 2 * (a \div 2) = a /\ Multiple(a \div 2, k)
<1>1. PICK p \in Int : a = p * (2 * k)
  BY DEF Multiple
<1> DEFINE x == p * k
<1>2. x \in Int /\ a = 2 * x
  BY <1>1
<1> HIDE DEF x
<1>3. a \div 2 = x
  BY <1>2
<1> QED
  BY <1>2, <1>3 DEF Multiple, x

\* A fourth of an amount of four units is exact.
LEMMA QuarterIsExact ==
  ASSUME NEW a, NEW k \in Int, Multiple(a, 4 * k)
  PROVE  a \div 4 \in Int /\ 4 * (a \div 4) = a /\ Multiple(a \div 4, k)
<1>1. PICK p \in Int : a = p * (4 * k)
  BY DEF Multiple
<1> DEFINE x == p * k
<1>2. x \in Int /\ a = 4 * x
  BY <1>1
<1> HIDE DEF x
<1>3. a \div 4 = x
  BY <1>2
<1> QED
  BY <1>2, <1>3 DEF Multiple, x

\* An eighth of eight is.
LEMMA EighthIsExact ==
  ASSUME NEW a, NEW k \in Int, Multiple(a, 8 * k)
  PROVE  a \div 8 \in Int /\ 8 * (a \div 8) = a /\ Multiple(a \div 8, k)
<1>1. PICK p \in Int : a = p * (8 * k)
  BY DEF Multiple
<1> DEFINE x == p * k
<1>2. x \in Int /\ a = 8 * x
  BY <1>1
<1> HIDE DEF x
<1>3. a \div 8 = x
  BY <1>2
<1> QED
  BY <1>2, <1>3 DEF Multiple, x

\* So is a cost, of thirty-two.
LEMMA CostIsExact ==
  ASSUME NEW a, NEW k \in Int, Multiple(a, 32 * k)
  PROVE  a \div 32 \in Int /\ 32 * (a \div 32) = a /\ Multiple(a \div 32, k)
<1>1. PICK p \in Int : a = p * (32 * k)
  BY DEF Multiple
<1> DEFINE x == p * k
<1>2. x \in Int /\ a = 32 * x
  BY <1>1
<1> HIDE DEF x
<1>3. a \div 32 = x
  BY <1>2
<1> QED
  BY <1>2, <1>3 DEF Multiple, x

\* A sum of multiples is one.
LEMMA SumMultiple ==
  ASSUME NEW S, IsFiniteSet(S), NEW k \in Int, NEW f,
         \A i \in S : f[i] \in Int /\ Multiple(f[i], k)
  PROVE  Multiple(SumFunctionOnSet(f, S), k)
<1> DEFINE Q == [i \in S |-> CHOOSE q \in Int : f[i] = q * k]
           All(T) == SumFunctionOnSet(f, T) = SumFunctionOnSet(Q, T) * k
           G == {T \in SUBSET S : All(T)}
<1>0. \A i \in S : Q[i] \in Int /\ f[i] = Q[i] * k
  BY DEF Multiple
<1> HIDE DEF Q
<1>1. \A T \in SUBSET S : IsFiniteSet(T) /\ SumFunctionOnSet(Q, T) \in Int
  BY <1>0, FS_Subset, SumInt
<1>2. ASSUME NEW T \in SUBSET S, \A R \in SUBSET T : R # T => R \in G PROVE T \in G
  <2>1. CASE T = {}
    <3>1. SumFunctionOnSet(f, T) = 0 /\ SumFunctionOnSet(Q, T) = 0 /\ 0 = 0 * k
      BY <2>1, SumEmpty
    <3> QED
      BY <3>1
  <2>2. CASE T # {}
    <3>1. Pick(T) \in T
      BY <2>2, PickIn
    <3> DEFINE R == T \ {Pick(T)}
               x == SumFunctionOnSet(Q, R)
               y == Q[Pick(T)]
    <3>2. R \in G /\ R \in SUBSET S
      BY <1>2, <3>1
    <3>3. /\ SumFunctionOnSet(f, T) = f[Pick(T)] + SumFunctionOnSet(f, R)
          /\ SumFunctionOnSet(Q, T) = y + x
      BY <1>1, <2>2, SumPick
    <3>4. SumFunctionOnSet(f, R) = x * k /\ f[Pick(T)] = y * k /\ x \in Int /\ y \in Int
      BY <1>0, <1>1, <3>1, <3>2
    <3> HIDE DEF R, x, y
    <3>5. (y + x) * k = y * k + x * k
      BY <3>4
    <3> QED
      BY <3>3, <3>4, <3>5
  <2> QED
    BY <2>1, <2>2
<1>3. G \in SUBSET SUBSET S
  OBVIOUS
<1>4. S \in G
  <2> HIDE DEF G
  <2>1. G = SUBSET S
    BY <1>2, <1>3, SubsetInduction
  <2> QED
    BY <2>1
<1> QED
  BY <1>1, <1>4 DEF Multiple

\* A sum of products with one factor is the product of the sum with it.
LEMMA SumScaled ==
  ASSUME NEW S, IsFiniteSet(S), NEW c \in Int, NEW f, NEW h,
         \A i \in S : f[i] \in Int /\ h[i] = c * f[i]
  PROVE  SumFunctionOnSet(h, S) = c * SumFunctionOnSet(f, S)
<1> DEFINE All(T) == SumFunctionOnSet(h, T) = c * SumFunctionOnSet(f, T)
           G == {T \in SUBSET S : All(T)}
<1>1. \A T \in SUBSET S : IsFiniteSet(T) /\ SumFunctionOnSet(f, T) \in Int
  BY FS_Subset, SumInt
<1>2. ASSUME NEW T \in SUBSET S, \A R \in SUBSET T : R # T => R \in G PROVE T \in G
  <2>1. CASE T = {}
    <3>1. SumFunctionOnSet(f, T) = 0 /\ SumFunctionOnSet(h, T) = 0 /\ 0 = c * 0
      BY <2>1, SumEmpty
    <3> QED
      BY <3>1
  <2>2. CASE T # {}
    <3>1. Pick(T) \in T
      BY <2>2, PickIn
    <3> DEFINE R == T \ {Pick(T)}
               x == SumFunctionOnSet(f, R)
               y == f[Pick(T)]
    <3>2. R \in G /\ R \in SUBSET S
      BY <1>2, <3>1
    <3>3. /\ SumFunctionOnSet(h, T) = h[Pick(T)] + SumFunctionOnSet(h, R)
          /\ SumFunctionOnSet(f, T) = y + x
      BY <1>1, <2>2, SumPick
    <3>4. SumFunctionOnSet(h, R) = c * x /\ h[Pick(T)] = c * y /\ x \in Int /\ y \in Int
      BY <1>1, <3>1, <3>2
    <3> HIDE DEF R, x, y
    <3>5. c * (y + x) = c * y + c * x
      BY <3>4
    <3> QED
      BY <3>3, <3>4, <3>5
  <2> QED
    BY <2>1, <2>2
<1>3. G \in SUBSET SUBSET S
  OBVIOUS
<1>4. S \in G
  <2> HIDE DEF G
  <2>1. G = SUBSET S
    BY <1>2, <1>3, SubsetInduction
  <2> QED
    BY <2>1
<1> QED
  BY <1>4

\* The units of amounts.
LEMMA SettingsAre ==
  /\ IsFiniteSet(Isins) /\ Factors \subseteq Seq(Nat) /\ Gaps \subseteq Nat
  /\ TradeCosts \subseteq 0 .. 4 /\ Thresholds \subseteq 1 .. 8
   /\ Capital \in Nat /\ MaxDays \in Nat
  /\ \A w \in Targets : w \in [Isins -> 0 .. 4] /\ SumFunctionOnSet(w, Isins) = 4
<1>1. \A w \in Targets : w \in [Isins -> 0 .. 4] /\ SumFunction(w) = 4
  BY RebalancingAssumption
<1>2. ASSUME NEW w \in Targets PROVE SumFunctionOnSet(w, Isins) = 4
  <2>1. DOMAIN w = Isins
    BY <1>1
  <2> QED
    BY <1>1, <2>1 DEF SumFunction
<1> QED
  BY <1>1, <1>2, RebalancingAssumption, MatrixAssumption

\* The definition of the grain as a function of itself.
GrainBody(g) == [n \in 0 .. MaxDays |-> IF n = 0 THEN 1 ELSE 128 * g[n - 1]]

\* There is such a function, by induction over the days.
LEMMA GrainExists == \E g : g = GrainBody(g)
<1> DEFINE Step(g, n) == IF n = 0 THEN 1 ELSE 128 * g[n - 1]
           Is(g, n) == g = [d \in 0 .. n |-> Step(g, d)]
           G == {n \in Nat : \E g : Is(g, n)}
<1>1. 0 \in G
  <2>1. Is([d \in 0 .. 0 |-> 1], 0)
    OBVIOUS
  <2> HIDE DEF Is
  <2> QED
    BY <2>1
<1>2. ASSUME NEW n \in G PROVE n + 1 \in G
  <2>1. PICK g : Is(g, n)
    BY <1>2
  <2> DEFINE next == [d \in 0 .. n + 1 |-> Step(g, d)]
  <2>2. ASSUME NEW d \in 0 .. n PROVE next[d] = g[d]
    <3>1. d \in 0 .. n + 1
      OBVIOUS
    <3>2. g[d] = Step(g, d)
      BY <2>1
    <3> QED
      BY <3>1, <3>2
  <2>3. ASSUME NEW d \in 0 .. n + 1 PROVE next[d] = Step(next, d)
    <3>1. next[d] = Step(g, d)
      OBVIOUS
    <3>2. CASE d = 0
      BY <3>1, <3>2
    <3>3. CASE d # 0
      <4>1. d - 1 \in 0 .. n
        BY <3>3
      <4>2. next[d - 1] = g[d - 1]
        BY <4>1, <2>2
      <4> QED
        BY <3>1, <3>3, <4>2
    <3> QED
      BY <3>2, <3>3
  <2>4. next = [d \in 0 .. n + 1 |-> next[d]]
    OBVIOUS
  <2> HIDE DEF next
  <2>5. Is(next, n + 1)
    BY <2>3, <2>4
  <2>6. n + 1 \in Nat
    OBVIOUS
  <2> HIDE DEF Is
  <2> QED
    BY <2>5, <2>6
<1>3. G \in SUBSET Nat
  OBVIOUS
<1>4. MaxDays \in G
  <2> HIDE DEF G
  <2>1. G = Nat
    BY <1>1, <1>2, <1>3, NaturalsAll
  <2> QED
    BY <2>1, SettingsAre
<1> QED
  BY <1>4 DEF GrainBody

\* The grain of the days left is positive, and each day takes 128 of the next day's.
LEMMA GrainIs ==
  /\ \A n \in 0 .. MaxDays : Grain[n] \in Nat /\ Grain[n] > 0
  /\ \A n \in 0 .. MaxDays : n > 0 => n - 1 \in 0 .. MaxDays /\ Grain[n] = 128 * Grain[n - 1]
  /\ Multiple(Capital, 4 * Grain[MaxDays])
<1>1. Grain = GrainBody(Grain)
  <2>1. Grain = CHOOSE g : g = GrainBody(g)
    BY DEF Grain, GrainBody
  <2> QED
    BY <2>1, GrainExists
<1>2. \A n \in 0 .. MaxDays : Grain[n] = IF n = 0 THEN 1 ELSE 128 * Grain[n - 1]
  BY <1>1 DEF GrainBody
<1>3. MaxDays \in Nat /\ Capital \in Nat
  BY SettingsAre
<1>4. \A n \in 0 .. MaxDays : n > 0 => n - 1 \in 0 .. MaxDays /\ Grain[n] = 128 * Grain[n - 1]
  BY <1>2, <1>3
<1> DEFINE Ok(n) == Grain[n] \in Nat /\ Grain[n] > 0
           G == {n \in Nat : n <= MaxDays => Ok(n)}
<1>5. 0 \in G
  BY <1>2, <1>3
<1>6. ASSUME NEW n \in G PROVE n + 1 \in G
  <2> SUFFICES ASSUME n + 1 <= MaxDays PROVE Ok(n + 1)
    OBVIOUS
  <2>1. Ok(n) /\ n + 1 \in 0 .. MaxDays /\ n + 1 > 0 /\ (n + 1) - 1 = n
    BY <1>3
  <2>2. Grain[n + 1] = 128 * Grain[n]
    BY <1>4, <2>1
  <2> QED
    BY <2>1, <2>2
<1>7. G \in SUBSET Nat
  OBVIOUS
<1>8. \A n \in 0 .. MaxDays : Ok(n)
  <2>1. ASSUME NEW n \in 0 .. MaxDays PROVE n \in Nat /\ n <= MaxDays
    BY <1>3
  <2> HIDE DEF Ok, G
  <2>2. G = Nat
    BY <1>5, <1>6, <1>7, NaturalsAll
  <2> QED
    BY <2>1, <2>2 DEF G
<1>9. Multiple(Capital, 4 * Grain[MaxDays])
  <2> DEFINE u == 4 * Grain[MaxDays]
  <2>1. u \in Nat /\ u > 0
    BY <1>3, <1>8
  <2>2. Capital % u = 0
    BY RebalancingAssumption
  <2> HIDE DEF u
  <2>3. Capital \div u \in Int /\ Capital = u * (Capital \div u) + (Capital % u)
    BY <1>3, <2>1
  <2>4. Capital = (Capital \div u) * u
    BY <2>1, <2>2, <2>3
  <2> QED
    BY <2>3, <2>4 DEF Multiple, u
<1> QED
  BY <1>4, <1>8, <1>9

\* Weights in quarters, of the whole.
Weighting(w) == w \in [Isins -> 0 .. 4] /\ SumFunctionOnSet(w, Isins) = 4

\* What is held: of each holding a multiple of k.
Amounts(v, k) == v \in [Isins -> Nat] /\ \A i \in Isins : Multiple(v[i], k)

\* A sum of amounts is one over the holdings.
LEMMA SumIsOver ==
  ASSUME NEW f, DOMAIN f = Isins
  PROVE  SumFunction(f) = SumFunctionOnSet(f, Isins)
  BY DEF SumFunction

\* The sum of amounts is a multiple of their unit.
LEMMA AmountsSum ==
  ASSUME NEW k \in Int, NEW v, Amounts(v, k)
  PROVE  SumFunction(v) \in Nat /\ SumFunction(v) = SumFunctionOnSet(v, Isins)
         /\ Multiple(SumFunction(v), k)
<1>1. SumFunction(v) = SumFunctionOnSet(v, Isins)
  BY SumIsOver DEF Amounts
<1>2. IsFiniteSet(Isins) /\ \A i \in Isins : v[i] \in Nat /\ v[i] \in Int /\ Multiple(v[i], k)
  BY SettingsAre DEF Amounts
<1> QED
  BY <1>1, <1>2, SumNat, SumMultiple

\* Amounts at their weights are exact, and have no drift.
LEMMA AtIs ==
  ASSUME NEW w, Weighting(w), NEW k \in Int, NEW T \in Nat, Multiple(T, 4 * k)
  PROVE  /\ Amounts(At(w, T), k) /\ SumFunction(At(w, T)) = T
         /\ \A i \in Isins : 4 * At(w, T)[i] = w[i] * T
<1> DEFINE v == At(w, T)
           f == [i \in Isins |-> w[i] * T]
<1>1. \A i \in Isins : v[i] = (w[i] * T) \div 4 /\ f[i] = w[i] * T
  BY DEF At
<1>2. v = [i \in Isins |-> v[i]] /\ DOMAIN v = Isins
  BY DEF At
<1> HIDE DEF v, f
<1>3. \A i \in Isins : w[i] \in Nat /\ w[i] \in Int
  BY DEF Weighting
<1>4. ASSUME NEW i \in Isins
      PROVE  f[i] \in Nat /\ v[i] \in Nat /\ 4 * v[i] = f[i] /\ Multiple(v[i], k)
  <2>1. Multiple(w[i] * T, 4 * k)
    BY <1>3, MultiplesGrow
  <2>2. w[i] * T \in Nat
    BY <1>3
  <2>3. f[i] \div 4 \in Int /\ 4 * (f[i] \div 4) = f[i] /\ Multiple(f[i] \div 4, k)
    BY <1>1, <2>1, QuarterIsExact
  <2> QED
    BY <1>1, <2>2, <2>3
<1>5. Amounts(v, k)
  BY <1>2, <1>4 DEF Amounts
<1>6. SumFunctionOnSet(f, Isins) = 4 * SumFunctionOnSet(v, Isins)
  <2>1. \A i \in Isins : v[i] \in Int /\ f[i] = 4 * v[i]
    BY <1>4
  <2> QED
    BY <2>1, SettingsAre, SumScaled
<1>7. SumFunctionOnSet(f, Isins) = T * SumFunctionOnSet(w, Isins)
  <2>1. \A i \in Isins : w[i] \in Int /\ f[i] = T * w[i]
    BY <1>1, <1>3
  <2> QED
    BY <2>1, SettingsAre, SumScaled
<1>8. SumFunctionOnSet(w, Isins) = 4 /\ SumFunctionOnSet(v, Isins) \in Nat
      /\ SumFunction(v) = SumFunctionOnSet(v, Isins)
  BY <1>5, AmountsSum DEF Weighting
<1>9. SumFunction(v) = T
  BY <1>6, <1>7, <1>8
<1> QED
  BY <1>1, <1>4, <1>5, <1>9 DEF v

\* The drift from any weights.
DriftOf(w, v) == SumFunction([i \in Isins |-> Apart(4 * v[i], w[i] * SumFunction(v))])

\* A drift is even, at most twice the whole, and none where the amounts are at their weights.
LEMMA DriftIs ==
  ASSUME NEW k \in Int, NEW v, Amounts(v, k), NEW w, Weighting(w)
  PROVE  /\ DriftOf(w, v) \in Nat /\ Multiple(DriftOf(w, v), 2 * k)
         /\ DriftOf(w, v) <= 8 * SumFunction(v)
         /\ (\A i \in Isins : 4 * v[i] = w[i] * SumFunction(v)) => DriftOf(w, v) = 0
<1> DEFINE total == SumFunction(v)
           far == [i \in Isins |-> Apart(4 * v[i], w[i] * total)]
           off == [i \in Isins |-> 4 * v[i] - w[i] * total]
           four == [i \in Isins |-> 4 * v[i]]
           due == [i \in Isins |-> w[i] * total]
           over == [i \in Isins |-> IF 4 * v[i] > w[i] * total
                                       THEN 4 * v[i] - w[i] * total ELSE 0]
           twice == [i \in Isins |-> 2 * over[i]]
           bound == [i \in Isins |-> 4 * v[i] + w[i] * total]
           S(f) == SumFunctionOnSet(f, Isins)
<1>0. total \in Nat /\ total = S(v) /\ Multiple(total, k) /\ IsFiniteSet(Isins)
  BY AmountsSum, SettingsAre
<1>1. DriftOf(w, v) = S(far)
  BY SumIsOver DEF DriftOf
<1> HIDE DEF total
<1>2. ASSUME NEW i \in Isins
      PROVE  /\ v[i] \in Nat /\ w[i] \in Nat /\ w[i] * total \in Nat
             /\ Multiple(v[i], k) /\ Multiple(w[i] * total, k) /\ Multiple(4 * v[i], k)
  <2>1. v[i] \in Nat /\ w[i] \in Nat /\ Multiple(v[i], k)
    BY DEF Amounts, Weighting
  <2>2. w[i] * total \in Nat
    BY <1>0, <2>1
  <2> QED
    BY <1>0, <2>1, <2>2, MultiplesGrow
<1>3. ASSUME NEW i \in Isins
      PROVE  /\ four[i] = 4 * v[i] /\ four[i] \in Int /\ v[i] \in Int
             /\ due[i] = w[i] * total /\ due[i] = total * w[i] /\ due[i] \in Int
             /\ w[i] \in Int
             /\ four[i] = off[i] + due[i] /\ off[i] \in Int
             /\ over[i] \in Int /\ over[i] \in Nat /\ twice[i] = 2 * over[i] /\ twice[i] \in Int
             /\ far[i] \in Nat /\ far[i] \in Int /\ twice[i] = far[i] + off[i]
             /\ bound[i] = four[i] + due[i] /\ bound[i] \in Int /\ far[i] <= bound[i]
             /\ (4 * v[i] = w[i] * total => far[i] = 0)
  <2> DEFINE a == 4 * v[i]
             b == w[i] * total
  <2>1. a \in Nat /\ b \in Nat /\ b = total * w[i] /\ w[i] \in Int /\ v[i] \in Int
    BY <1>0, <1>2
  <2>2. /\ four[i] = a /\ due[i] = b /\ off[i] = a - b
        /\ over[i] = (IF a > b THEN a - b ELSE 0) /\ twice[i] = 2 * (IF a > b THEN a - b ELSE 0)
        /\ far[i] = (IF a < b THEN b - a ELSE a - b) /\ bound[i] = a + b
    BY DEF Apart
  <2>3. a = 4 * v[i] /\ b = w[i] * total
    OBVIOUS
  <2> HIDE DEF a, b, four, due, off, over, twice, far, bound
  <2>4. /\ four[i] \in Int /\ due[i] \in Int /\ off[i] \in Int /\ four[i] = off[i] + due[i]
        /\ bound[i] = four[i] + due[i] /\ bound[i] \in Int
    BY <2>1, <2>2
  <2>5. /\ over[i] \in Nat /\ twice[i] = 2 * over[i] /\ twice[i] \in Int
        /\ far[i] \in Nat /\ twice[i] = far[i] + off[i] /\ far[i] <= bound[i]
        /\ (a = b => far[i] = 0)
    <3>1. CASE a > b
      BY <2>1, <2>2, <3>1
    <3>2. CASE ~(a > b)
      BY <2>1, <2>2, <3>2
    <3> QED
      BY <3>1, <3>2
  <2> QED
    BY <2>1, <2>2, <2>3, <2>4, <2>5
<1>4. ASSUME NEW i \in Isins PROVE Multiple(over[i], k)
  <2>1. Multiple(4 * v[i] - w[i] * total, k)
    BY <1>2, MultiplesAdd
  <2>2. Multiple(0, k)
    <3>1. 0 = 0 * k /\ 0 \in Int
      OBVIOUS
    <3> QED
      BY <3>1 DEF Multiple
  <2> QED
    BY <2>1, <2>2
<1> HIDE DEF four, due, off, over, twice, far, bound
<1>5. S(four) = 4 * S(v) /\ S(due) = total * S(w)
      /\ S(twice) = 2 * S(over)
  <2>1. S(four) = 4 * S(v)
    BY <1>0, <1>3, SumScaled
  <2>2. S(due) = total * S(w)
    BY <1>0, <1>3, SumScaled
  <2>4. S(twice) = 2 * S(over)
    BY <1>0, <1>3, SumScaled
  <2> QED
    BY <2>1, <2>2, <2>4
<1>6. S(four) = S(off) + S(due) /\ S(twice) = S(far) + S(off) /\ S(bound) = S(four) + S(due)
  <2>1. S(four) = S(off) + S(due)
    BY <1>0, <1>3, SumAdded
  <2>2. S(twice) = S(far) + S(off)
    BY <1>0, <1>3, SumAdded
  <2>3. S(bound) = S(four) + S(due)
    BY <1>0, <1>3, SumAdded
  <2> QED
    BY <2>1, <2>2, <2>3
<1>7. S(far) <= S(bound) /\ S(far) \in Nat /\ S(over) \in Nat /\ S(off) \in Int
  BY <1>0, <1>3, SumMonotone, SumNat, SumInt
<1>8. Multiple(S(over), k)
  BY <1>0, <1>3, <1>4, SumMultiple
<1>9. S(w) = 4
  BY DEF Weighting
<1>10. S(far) = 2 * S(over) /\ S(far) <= 8 * total
  BY <1>0, <1>5, <1>6, <1>7, <1>9
<1>11. Multiple(2 * S(over), 2 * k)
  <2>1. PICK p \in Int : S(over) = p * k
    BY <1>8 DEF Multiple
  <2>2. 2 * S(over) = p * (2 * k)
    BY <2>1
  <2> QED
    BY <2>2 DEF Multiple
<1>12. ASSUME \A i \in Isins : 4 * v[i] = w[i] * total PROVE S(far) = 0
  <2>1. \A i \in Isins : far[i] = 0
    BY <1>3, <1>12
  <2> QED
    BY <1>0, <2>1, SumZero
<1> QED
  BY <1>1, <1>7, <1>10, <1>11, <1>12 DEF total

\* The greatest of a set, when it is known.
LEMMA MaxIs ==
  ASSUME NEW S, S \subseteq Int, NEW x \in S, \A y \in S : y <= x
  PROVE  Max(S) = x
<1>1. \A z \in S : (\A y \in S : z >= y) => z = x
  BY SMT
<1>2. \A y \in S : x >= y
  OBVIOUS
<1> QED
  BY <1>1, <1>2 DEF Max

\* The rows of an ISIN are numbers up to the length of the matrix, and there is a last one.
LEMMA RowsAre ==
  ASSUME NEW m \in Matrices, NEW i \in Isins
  PROVE  /\ m \in Seq(Isins) /\ IsFiniteSet(RowsOfIsin(m, i)) /\ RowsOfIsin(m, i) \subseteq DOMAIN m
         /\ LastRow(m, i) \in RowsOfIsin(m, i)
         /\ OneListingEach(m) => RowsOfIsin(m, i) = {LastRow(m, i)}
<1>1. m \in Seq(Isins) /\ Range(m) = Isins
  BY MatrixAssumption
<1>2. Len(m) \in Nat /\ DOMAIN m = 1 .. Len(m)
  BY <1>1
<1> DEFINE R == RowsOfIsin(m, i)
<1>3. R \in SUBSET (1 .. Len(m)) /\ \A r \in R : m[r] = i
  BY <1>2 DEF RowsOfIsin
<1>4. R # {}
  <2>1. \E r \in DOMAIN m : m[r] = i
    BY <1>1 DEF Range
  <2> QED
    BY <2>1 DEF RowsOfIsin
<1>5. IsFiniteSet(R)
  <2>1. IsFiniteSet(1 .. Len(m))
    BY <1>2, FS_Interval
  <2> QED
    BY <1>3, <2>1, FS_Subset
<1> HIDE DEF R
<1>6. Max(R) \in R
  <2>1. R \in SUBSET Nat
    BY <1>3
  <2>2. PICK x \in R : \A y \in R : y <= x
    BY <1>4, <1>5, <2>1, GreatestExists
  <2>3. Max(R) = x
    <3>1. R \subseteq Int
      BY <2>1
    <3> QED
      BY <2>2, <3>1, MaxIs
  <2> QED
    BY <2>3
<1>7. LastRow(m, i) \in R
  BY <1>6 DEF LastRow, R
<1>8. OneListingEach(m) => R = {LastRow(m, i)}
  BY <1>2, <1>3, <1>7 DEF OneListingEach
<1> QED
  BY <1>1, <1>2, <1>3, <1>5, <1>7, <1>8 DEF R

\* What an ISIN gains on a date is an integer, and of a single row its growth.
LEMMA GainIs ==
  ASSUME listed \in Matrices, NEW growth \in Returns, NEW i \in Isins
  PROVE  /\ Traded(growth, i) \in Nat /\ Gain(growth, i) \in Int
         /\ OneListingEach(listed) => Gain(growth, i) = Traded(growth, i) - 2
<1> DEFINE R == RowsOfIsin(listed, i)
           f == [r \in R |-> growth[r] - 2]
           last == LastRow(listed, i)
<1>1. growth \in Seq(Nat) /\ Len(growth) = Len(listed)
  BY SettingsAre DEF Returns
<1>2. /\ listed \in Seq(Isins) /\ IsFiniteSet(R) /\ R \subseteq DOMAIN listed /\ last \in R
      /\ OneListingEach(listed) => R = {last}
  BY RowsAre
<1>3. Gain(growth, i) = SumFunctionOnSet(f, R) /\ Traded(growth, i) = growth[last]
  BY DEF Gain, Traded, SumFunction
<1> HIDE DEF R, last
<1>4. \A r \in R : growth[r] \in Nat
  BY <1>1, <1>2
<1>5. \A r \in R : f[r] = growth[r] - 2 /\ f[r] \in Int
  BY <1>4
<1> HIDE DEF f
<1>6. SumFunctionOnSet(f, R) \in Int
  BY <1>2, <1>5, SumInt
<1>7. SumFunctionOnSet(f, {last}) = f[last]
  BY <1>2, <1>5, SumSingle
<1> QED
  BY <1>2, <1>3, <1>4, <1>5, <1>6, <1>7

\* What a date records.
Event == [month : Nat, rebalanced : BOOLEAN, cost : Nat]

\* The days left.
Left == MaxDays - Len(events)

\* What the portfolio holds: exact amounts, and, free and always rebalanced, its wealth.
BookKept ==
  /\ listed \in Matrices /\ Weighting(target) /\ rate \in 0 .. 4 /\ threshold \in 1 .. 8
  /\ Amounts(values, Grain[Left]) /\ value = SumFunction(values)
  /\ Wealth \in Int /\ Multiple(Wealth, 4 * Grain[Left])
  /\ schedule = "threshold" /\ value > 0 => DriftOf(target, values) < threshold * value
  /\ rate = 0 /\ OneListingEach(listed) /\ (\A k \in DOMAIN events : events[k].rebalanced)
     => Wealth \in Nat /\ values = At(target, Wealth)

\* The types of the simulation, and what it holds.
BookInv ==
  /\ events \in Seq(Event) /\ Len(events) <= MaxDays
  /\ heldWealth \in Seq(Int) /\ Len(heldWealth) = Len(events)
  /\ month \in Nat /\ value \in Nat
  /\ IF target = <<>> THEN events = <<>> /\ value = Capital ELSE BookKept

\* The days left have a grain.
LEMMA LeftIs ==
  ASSUME events \in Seq(Event), Len(events) <= MaxDays
  PROVE  Left \in 0 .. MaxDays /\ Left \in Int /\ Grain[Left] \in Nat /\ Grain[Left] \in Int
<1>1. Left \in 0 .. MaxDays
  BY SettingsAre DEF Left
<1> QED
  BY <1>1, GrainIs, SettingsAre

\* Starting a simulation holds the capital at the target weights.
LEMMA SimulateStep ==
  ASSUME BookInv, NEW x \in Matrices, NEW w \in Targets, NEW s \in Schedules,
         NEW cost \in TradeCosts, NEW limit \in IF s = "threshold" THEN Thresholds ELSE {8},
         Simulate(x, w, s, cost, limit)
  PROVE  BookInv'
<1>1. /\ target = <<>> /\ events = <<>> /\ heldWealth = <<>> /\ value = Capital
      /\ listed' = x /\ target' = w /\ rate' = cost /\ threshold' = limit
      /\ values' = At(w, Capital)
      /\ UNCHANGED <<month, value, events, heldWealth>>
  <2>1. target = <<>> /\ events = <<>> /\ value = Capital 
        /\ Len(heldWealth) = Len(events) /\ heldWealth \in Seq(Int)
    BY DEF Simulate, BookInv
  <2>2. heldWealth = <<>>
    BY <2>1
  <2> QED
    BY <2>1, <2>2 DEF Simulate
<1>2. Weighting(w) /\ rate' \in 0 .. 4 /\ threshold' \in 1 .. 8
  <2>1. limit \in 1 .. 8
    BY SettingsAre
  <2> QED
    BY <1>1, <2>1, SettingsAre DEF Weighting
<1>3. Left' = MaxDays /\ Wealth' = Capital /\ MaxDays \in 0 .. MaxDays /\ Capital \in Nat
  BY <1>1, SettingsAre DEF Left, Wealth
<1>4. Multiple(Capital, 4 * Grain[MaxDays]) /\ Grain[MaxDays] \in Int
  BY <1>3, GrainIs
<1>5. /\ Amounts(values', Grain[MaxDays]) /\ SumFunction(values') = Capital
      /\ \A i \in Isins : 4 * values'[i] = w[i] * Capital
  BY <1>1, <1>2, <1>3, <1>4, AtIs
<1>6. DriftOf(w, values') = 0
  BY <1>2, <1>4, <1>5, DriftIs
<1>7. Capital > 0 => threshold' * Capital > 0
  <2>1. threshold' \in Nat /\ threshold' > 0
    BY <1>2
  <2> QED
    BY <1>3, <2>1, ProductIsPositive
<1>8. BookKept'
  <2>1. schedule' = "threshold" /\ value' > 0 => DriftOf(target', values') < threshold' * value'
    BY <1>1, <1>6, <1>7
  <2> QED
    BY <1>1, <1>2, <1>3, <1>4, <1>5, <2>1 DEF BookKept, Weighting
<1>9. target' # <<>>
  <2>1. CASE target' = <<>>
    <3>1. Isins = {}
      BY <1>1, <1>2, <2>1 DEF Weighting
    <3> QED
      BY <1>2, <3>1, SumEmpty DEF Weighting
  <2> QED
    BY <2>1
<1> QED
  BY <1>1, <1>8, <1>9 DEF BookInv

\* A date keeps the amounts exact, and its total is appended to the wealth.
LEMMA DateStep ==
  ASSUME BookInv, NEW gap \in Gaps, NEW growth \in Returns, Date(gap, growth)
  PROVE  /\ BookInv' /\ target # <<>> /\ month' = month + gap /\ gap \in Nat
         /\ Len(events) < MaxDays
         /\ \E total \in Int : /\ heldWealth' = Append(heldWealth, total)
                              /\ IF Recovered(total)
                                 THEN peak' = total /\ duration' = 0 /\ recovered' = duration
                                 ELSE peak' = peak /\ duration' = duration + 1 /\ recovered' = 0
<1> DEFINE m == month + gap
           v == [i \in Isins |-> (values[i] * Traded(growth, i)) \div 2]
           due == Period(m) # lastPeriod \/ ThresholdHit(v)
           share == [i \in Isins |-> target[i] * Gain(growth, i)]
           total == ((8 + SumFunction(share)) * Wealth) \div 8
           sum == SumFunction(v)
           cost == IF due THEN Cost(v) ELSE 0
           g == Grain[Left']
           event == [month |-> m, rebalanced |-> due, cost |-> cost]
<1>1. /\ target # <<>> /\ Len(events) < MaxDays /\ month' = m
      /\ values' = IF due THEN Rebalanced(v) ELSE v
      /\ value' = sum - cost
      /\ events' = Append(events, event)
      /\ heldWealth' = Append(heldWealth, total)
      /\ IF Recovered(total)
         THEN peak' = total /\ duration' = 0 /\ recovered' = duration
         ELSE peak' = peak /\ duration' = duration + 1 /\ recovered' = 0
      /\ UNCHANGED <<listed, target, schedule, rate, threshold>>
  BY DEF Date, settings
<1>2. /\ BookKept /\ listed \in Matrices /\ events \in Seq(Event) /\ heldWealth \in Seq(Int)
      /\ Len(heldWealth) = Len(events) /\ month \in Nat /\ gap \in Nat
      /\ Left \in 0 .. MaxDays /\ Grain[Left] \in Int /\ Left > 0 /\ Left - 1 \in Int
  <2>1. Left \in 0 .. MaxDays /\ Left > 0 /\ Left - 1 \in Int
    BY <1>1, SettingsAre DEF Left, BookInv
  <2> QED
    BY <1>1, <2>1, SettingsAre, LeftIs DEF BookInv, BookKept
<1>3. m \in Nat /\ due \in BOOLEAN
  BY <1>2
<1> DEFINE k == Grain[Left - 1]
<1>4. k \in Nat /\ Grain[Left] = 128 * k /\ Left - 1 \in 0 .. MaxDays
  <2>1. Left - 1 \in 0 .. MaxDays /\ Grain[Left] = 128 * Grain[Left - 1]
    BY <1>2, GrainIs
  <2> QED
    BY <2>1, GrainIs
<1>5. Left' = Left - 1 /\ Len(events') = Len(events) + 1 /\ Len(events) \in Nat /\ MaxDays \in Nat
  <2>1. Len(events') = Len(events) + 1 /\ Len(events) \in Nat /\ MaxDays \in Nat
    BY <1>1, <1>2, SettingsAre
  <2> QED
    BY <2>1 DEF Left
<1> HIDE DEF k
<1>6. /\ Weighting(target) /\ rate \in Nat /\ rate <= 4 /\ threshold \in 1 .. 8
      /\ Amounts(values, 128 * k) /\ Wealth \in Int /\ Multiple(Wealth, 512 * k)
  <2>1. Multiple(Wealth, 4 * (128 * k))
    BY <1>2, <1>4 DEF BookKept
  <2>2. 4 * (128 * k) = 512 * k
    BY <1>4
  <2> QED
    BY <1>2, <1>4, <2>1, <2>2 DEF BookKept
<1>7. ASSUME NEW i \in Isins
      PROVE  /\ values[i] \in Nat /\ Traded(growth, i) \in Nat /\ target[i] \in Nat /\ v[i] \in Nat
             /\ 2 * v[i] = values[i] * Traded(growth, i) /\ Multiple(v[i], 64 * k)
             /\ share[i] = target[i] * Gain(growth, i) /\ share[i] \in Int
             /\ OneListingEach(listed) => Gain(growth, i) = Traded(growth, i) - 2
  <2> DEFINE b == Traded(growth, i)
             c == Gain(growth, i)
             x == values[i] * b
  <2>1. b \in Nat /\ c \in Int /\ (OneListingEach(listed) => c = b - 2)
    BY <1>2, GainIs
  <2>2. target[i] \in Nat
    <3>1. target[i] \in 0 .. 4
      BY <1>6 DEF Weighting
    <3> QED
      BY <3>1
  <2>3. values[i] \in Nat /\ Multiple(values[i], 128 * k)
    BY <1>6 DEF Amounts
  <2> HIDE DEF b, c
  <2>4. x \in Nat /\ x = b * values[i]
    BY <2>1, <2>3
  <2>5. Multiple(x, 2 * (64 * k))
    <3>1. 2 * (64 * k) = 128 * k /\ 128 * k \in Int /\ b \in Int
      BY <1>4, <2>1
    <3> QED
      BY <2>3, <2>4, <3>1, MultiplesGrow
  <2>6. v[i] = x \div 2 /\ share[i] = target[i] * c
    BY DEF b, c
  <2>7. target[i] * c \in Int
    BY <2>1, <2>2
  <2>8. x = values[i] * b /\ 64 * k \in Int
    BY <1>4
  <2> HIDE DEF x, v, share
  <2>9. v[i] \in Int /\ 2 * v[i] = x /\ Multiple(v[i], 64 * k)
    BY <2>5, <2>6, <2>8, HalfIsExact
  <2>10. v[i] \in Nat
    BY <2>4, <2>9
  <2> QED
    BY <2>1, <2>2, <2>3, <2>6, <2>7, <2>8, <2>9, <2>10 DEF b, c
<1>8. v = [i \in Isins |-> v[i]] /\ DOMAIN share = Isins
  OBVIOUS
<1> HIDE DEF v
<1>9. Amounts(v, 64 * k)
  BY <1>7, <1>8 DEF Amounts
<1>10. sum \in Nat /\ sum = SumFunctionOnSet(v, Isins) /\ Multiple(sum, 64 * k)
  <2>1. 64 * k \in Int
    BY <1>4
  <2> QED
    BY <1>9, <2>1, AmountsSum
<1>11. /\ Drift(v) \in Nat /\ Multiple(Drift(v), 128 * k) /\ Drift(v) <= 8 * sum
       /\ Drift(v) = DriftOf(target, v)
  <2>1. 64 * k \in Int /\ 2 * (64 * k) = 128 * k
    BY <1>4
  <2>2. Drift(v) = DriftOf(target, v)
    BY DEF Drift, DriftOf
  <2> QED
    BY <1>6, <1>9, <2>1, <2>2, DriftIs
<1> HIDE DEF sum
<1>12. Cost(v) \in Nat /\ Cost(v) <= sum /\ Multiple(Cost(v), 4 * k) /\ (rate = 0 => Cost(v) = 0)
  <2> DEFINE d == Drift(v)
  <2>1. d \in Nat /\ d <= 8 * sum /\ rate \in Nat /\ rate <= 4 /\ Cost(v) = (d * rate) \div 32
    BY <1>6, <1>11 DEF Cost
  <2>2. Multiple(rate * d, 32 * (4 * k)) /\ 4 * k \in Int
    <3>1. 32 * (4 * k) = 128 * k /\ 128 * k \in Int /\ 4 * k \in Int /\ rate \in Int
      BY <1>4, <1>6
    <3> QED
      BY <1>11, <3>1, MultiplesGrow
  <2> HIDE DEF d
  <2>3. d * rate = rate * d /\ d * rate \in Nat /\ d * rate <= 4 * d /\ (rate = 0 => d * rate = 0)
    <3>1. rate \in {0, 1, 2, 3, 4}
      BY <2>1
    <3> QED
      BY <2>1, <3>1
  <2>4. Cost(v) \in Int /\ 32 * Cost(v) = d * rate /\ Multiple(Cost(v), 4 * k)
    BY <2>1, <2>2, <2>3, CostIsExact
  <2> QED
    BY <1>10, <2>1, <2>3, <2>4
<1>13. cost \in Nat /\ (due => cost = Cost(v))
  BY <1>12
<1>14. event \in Event
  BY <1>3, <1>13 DEF Event
<1>15. total \in Int /\ 8 * total = (8 + SumFunction(share)) * Wealth /\ Multiple(total, 4 * k)
  <2> DEFINE s == 8 + SumFunction(share)
  <2>1. s \in Int
    <3>1. SumFunction(share) = SumFunctionOnSet(share, Isins)
      BY <1>8, SumIsOver
    <3>2. \A i \in Isins : share[i] \in Int
      BY <1>7
    <3> HIDE DEF share
    <3>3. SumFunctionOnSet(share, Isins) \in Int
      BY <3>2, SumInt, SettingsAre
    <3> QED
      BY <3>1, <3>3
  <2>2. total = (s * Wealth) \div 8
    OBVIOUS
  <2> HIDE DEF s, total
  <2>4. Multiple(s * Wealth, 8 * (64 * k)) /\ 64 * k \in Int
    <3> DEFINE u == 512 * k
    <3>1. 8 * (64 * k) = u /\ u \in Int /\ 64 * k \in Int /\ s \in Int
      BY <1>4, <2>1
    <3>2. Multiple(Wealth, u)
      BY <1>6
    <3> HIDE DEF u
    <3>3. Multiple(s * Wealth, u)
      BY <3>1, <3>2, MultiplesGrow
    <3> QED
      BY <3>1, <3>3
  <2>5. total \in Int /\ 8 * total = s * Wealth /\ Multiple(total, 64 * k)
    BY <2>2, <2>4, EighthIsExact
  <2>6. Multiple(total, 4 * k)
    <3>1. PICK p \in Int : total = p * (64 * k)
      BY <2>5 DEF Multiple
    <3>2. 16 * p \in Int /\ total = (16 * p) * (4 * k)
      BY <1>4, <3>1
    <3> QED
      BY <3>2 DEF Multiple
  <2> QED
    BY <2>5, <2>6 DEF s
<1>16. /\ events' \in Seq(Event) /\ Len(events') <= MaxDays /\ heldWealth' \in Seq(Int)
       /\ Len(heldWealth') = Len(events') /\ Wealth' = total
       /\ \A j \in DOMAIN events : j \in DOMAIN events' /\ events'[j] = events[j]
       /\ Len(events') \in DOMAIN events' /\ events'[Len(events')] = event
  <2> HIDE DEF total, event
  <2>a. heldWealth' \in Seq(Int) /\ Len(heldWealth') = Len(heldWealth) + 1
        /\ heldWealth'[Len(heldWealth')] = total /\ heldWealth' # <<>>
    <3>1. heldWealth' = Append(heldWealth, total) /\ heldWealth \in Seq(Int) /\ total \in Int
      BY <1>1, <1>2, <1>15
    <3> QED
      BY <3>1
  <2>b. events' \in Seq(Event) /\ events'[Len(events')] = event
    BY <1>1, <1>2, <1>14
  <2>1. events' \in Seq(Event) /\ heldWealth' \in Seq(Int) /\ Len(heldWealth') = Len(heldWealth) + 1
        /\ heldWealth'[Len(heldWealth')] = total /\ heldWealth' # <<>>
        /\ events'[Len(events')] = event
    BY <2>a, <2>b
  <2>2. Wealth' = total
    BY <2>1 DEF Wealth
  <2>3. \A j \in DOMAIN events : j \in DOMAIN events' /\ events'[j] = events[j]
    BY <1>1, <1>2
  <2>4. Len(events') \in DOMAIN events'
    BY <1>5, <2>1
  <2> QED
    BY <1>1, <1>2, <1>5, <2>1, <2>2, <2>3, <2>4
<1> DEFINE worth == sum - cost
<1>17. worth \in Nat /\ Multiple(worth, 4 * k) /\ value' = worth /\ 4 * k \in Int
  <2>1. Multiple(sum, 4 * k)
    <3>1. PICK p \in Int : sum = p * (64 * k)
      BY <1>10 DEF Multiple
    <3>2. 16 * p \in Int /\ sum = (16 * p) * (4 * k)
      BY <1>4, <3>1
    <3> QED
      BY <3>2 DEF Multiple
  <2>2. Multiple(sum - Cost(v), 4 * k) /\ 4 * k \in Int
    <3>1. 4 * k \in Int
      BY <1>4
    <3> QED
      BY <1>12, <2>1, <3>1, MultiplesAdd
  <2>3. sum - Cost(v) \in Nat
    BY <1>10, <1>12
  <2> QED
    BY <1>1, <1>10, <2>1, <2>2, <2>3
<1> HIDE DEF worth, total, event
<1>18. Amounts(values', k) /\ SumFunction(values') = worth
       /\ (due => values' = At(target, worth) /\ DriftOf(target, values') = 0)
  <2>1. CASE due
    <3>1. values' = At(target, worth)
      BY <1>1, <2>1 DEF Rebalanced, worth, sum
    <3>2. /\ Amounts(values', k) /\ SumFunction(values') = worth
          /\ \A i \in Isins : 4 * values'[i] = target[i] * worth
      BY <1>4, <1>6, <1>17, <3>1, AtIs
    <3>3. DriftOf(target, values') = 0
      BY <1>4, <1>6, <3>2, DriftIs
    <3> QED
      BY <3>1, <3>2, <3>3
  <2>2. CASE ~due
    <3>1. values' = v /\ worth = sum
      BY <1>1, <1>10, <2>2 DEF worth
    <3>2. Amounts(v, k)
      <4>1. ASSUME NEW i \in Isins PROVE Multiple(v[i], k)
        <5>1. PICK p \in Int : v[i] = p * (64 * k)
          BY <1>7 DEF Multiple
        <5>2. 64 * p \in Int /\ v[i] = (64 * p) * k
          BY <1>4, <5>1
        <5> QED
          BY <5>2 DEF Multiple
      <4> QED
        BY <1>9, <4>1 DEF Amounts
    <3> QED
      BY <2>2, <3>1, <3>2 DEF sum
  <2> QED
    BY <1>3, <2>1, <2>2
<1>19. schedule = "threshold" /\ worth > 0 => DriftOf(target, values') < threshold * worth
  <2> SUFFICES ASSUME schedule = "threshold", worth > 0
               PROVE  DriftOf(target, values') < threshold * worth
    OBVIOUS
  <2>1. CASE due
    <3>1. threshold \in Nat /\ threshold > 0
      BY <1>6
    <3>2. threshold * worth > 0
      BY <1>17, <3>1, ProductIsPositive
    <3> QED
      BY <1>18, <2>1, <3>2
  <2>2. CASE ~due
    <3>1. values' = v /\ worth = sum
      BY <1>1, <1>10, <2>2 DEF worth
    <3>2. ~(Drift(v) >= threshold * sum)
      BY <2>2, <3>1 DEF ThresholdHit, sum
    <3>3. threshold * sum \in Nat
      BY <1>6, <1>10
    <3> QED
      BY <1>11, <3>1, <3>2, <3>3
  <2> QED
    BY <1>3, <2>1, <2>2
<1>20. ASSUME rate = 0, OneListingEach(listed), \A j \in DOMAIN events' : events'[j].rebalanced
       PROVE  total \in Nat /\ values' = At(target, total)
  <2>1. due /\ \A j \in DOMAIN events : events[j].rebalanced
    <3>1. event.rebalanced = due
      BY DEF event
    <3> QED
      BY <1>16, <1>20, <3>1
  <2>2. Wealth \in Nat /\ values = At(target, Wealth)
    BY <1>2, <1>20, <2>1 DEF BookKept
  <2>3. worth = sum
    BY <1>10, <1>12, <1>13, <1>20, <2>1 DEF worth
  <2> DEFINE eight == [i \in Isins |-> 8 * v[i]]
             whole == [i \in Isins |-> target[i] * Wealth]
             added == [i \in Isins |-> share[i] * Wealth]
             twice == [i \in Isins |-> 2 * whole[i]]
  <2>4. \A i \in Isins : eight[i] = added[i] + twice[i]
    <3> SUFFICES ASSUME NEW i \in Isins PROVE eight[i] = added[i] + twice[i]
      OBVIOUS
    <3>1. 4 * values[i] = target[i] * Wealth
      <4>1. 128 * k \in Int /\ 4 * (128 * k) = 512 * k
        BY <1>4
      <4> QED
        BY <1>6, <2>2, <4>1, AtIs
    <3> DEFINE a == values[i]
               b == Traded(growth, i)
               c == target[i]
               W == Wealth
    <3>2. a \in Nat /\ b \in Nat /\ c \in Nat /\ W \in Nat /\ 2 * v[i] = a * b /\ v[i] \in Nat
          /\ share[i] = c * (b - 2) /\ 4 * a = c * W
      <4>1. Gain(growth, i) = b - 2
        BY <1>7, <1>20
      <4> QED
        BY <1>7, <2>2, <3>1, <4>1
    <3>3. eight[i] = 8 * v[i] /\ added[i] = share[i] * W /\ twice[i] = 2 * (c * W)
      OBVIOUS
    <3> HIDE DEF a, b, c, W, share, v, eight, added, twice, whole
    <3>4. 8 * v[i] = (4 * a) * b
      BY <3>2
    <3>5. (c * W) * b = (c * (b - 2)) * W + 2 * (c * W)
      BY <3>2
    <3> QED
      BY <3>2, <3>3, <3>4, <3>5
  <2>5. \A i \in Isins : /\ eight[i] = 8 * v[i] /\ v[i] \in Int /\ eight[i] \in Int
                          /\ whole[i] = Wealth * target[i] /\ target[i] \in Int /\ whole[i] \in Int
                          /\ added[i] = Wealth * share[i] /\ share[i] \in Int /\ added[i] \in Int
                          /\ twice[i] = 2 * whole[i] /\ twice[i] \in Int
    <3> SUFFICES ASSUME NEW i \in Isins
                 PROVE  /\ eight[i] = 8 * v[i] /\ v[i] \in Int /\ eight[i] \in Int
                        /\ whole[i] = Wealth * target[i] /\ target[i] \in Int /\ whole[i] \in Int
                        /\ added[i] = Wealth * share[i] /\ share[i] \in Int /\ added[i] \in Int
                        /\ twice[i] = 2 * whole[i] /\ twice[i] \in Int
      OBVIOUS
    <3>1. v[i] \in Nat /\ target[i] \in Nat /\ share[i] \in Int /\ Wealth \in Nat
      BY <1>7, <2>2
    <3>2. /\ eight[i] = 8 * v[i] /\ whole[i] = target[i] * Wealth
          /\ added[i] = share[i] * Wealth /\ twice[i] = 2 * whole[i]
      OBVIOUS
    <3> HIDE DEF eight, whole, added, twice, share
    <3> QED
      BY <3>1, <3>2
  <2>6. SumFunction(share) = SumFunctionOnSet(share, Isins) /\ IsFiniteSet(Isins) /\ Wealth \in Int
        /\ SumFunctionOnSet(target, Isins) = 4
    BY <1>6, <1>8, SumIsOver, SettingsAre DEF Weighting
  <2> HIDE DEF eight, whole, added, twice, share
  <2>7. SumFunctionOnSet(eight, Isins) = 8 * sum
    <3>1. 8 \in Int
      OBVIOUS
    <3> QED
      BY <1>10, <2>5, <2>6, <3>1, SumScaled
  <2>8. SumFunctionOnSet(whole, Isins) = Wealth * 4
    BY <2>5, <2>6, SumScaled
  <2>9. SumFunctionOnSet(twice, Isins) = 2 * SumFunctionOnSet(whole, Isins)
    <3>1. 2 \in Int
      OBVIOUS
    <3> QED
      BY <2>5, <2>6, <3>1, SumScaled
  <2>10. SumFunctionOnSet(added, Isins) = Wealth * SumFunction(share) /\ SumFunction(share) \in Int
    <3>1. SumFunctionOnSet(added, Isins) = Wealth * SumFunctionOnSet(share, Isins)
      BY <2>5, <2>6, SumScaled
    <3>2. SumFunctionOnSet(share, Isins) \in Int
      BY <2>5, <2>6, SumInt
    <3> QED
      BY <2>6, <3>1, <3>2
  <2>11. SumFunctionOnSet(eight, Isins)
         = SumFunctionOnSet(added, Isins) + SumFunctionOnSet(twice, Isins)
    BY <2>4, <2>5, <2>6, SumAdded
  <2> DEFINE s == SumFunction(share)
  <2>12. 8 * sum = Wealth * s + 2 * (Wealth * 4) /\ 8 * total = (8 + s) * Wealth /\ s \in Int
    BY <1>15, <2>7, <2>8, <2>9, <2>10, <2>11
  <2> HIDE DEF s
  <2>13. (8 + s) * Wealth = Wealth * s + 2 * (Wealth * 4)
    BY <2>6, <2>12
  <2>14. sum = total
    BY <1>10, <1>15, <2>12, <2>13
  <2> QED
    BY <1>10, <1>18, <2>1, <2>3, <2>14
<1>21. BookKept'
  <2>1. /\ Weighting(target') /\ rate' \in 0 .. 4 /\ threshold' \in 1 .. 8
        /\ target' = target /\ rate' = rate /\ threshold' = threshold /\ schedule' = schedule
        /\ listed' = listed /\ listed \in Matrices
    BY <1>1, <1>2 DEF BookKept
  <2>2. Left' = Left - 1 /\ Grain[Left'] = k
    BY <1>5 DEF k
  <2>3. Amounts(values', Grain[Left']) /\ value' = SumFunction(values') /\ value' = worth
    BY <1>17, <1>18, <2>2
  <2>4. Wealth' \in Int /\ Multiple(Wealth', 4 * Grain[Left']) /\ Wealth' = total
    BY <1>15, <1>16, <2>2
  <2>5. schedule' = "threshold" /\ value' > 0 => DriftOf(target', values') < threshold' * value'
    BY <1>19, <2>1, <2>3
  <2>6. rate' = 0 /\ OneListingEach(listed') /\ (\A j \in DOMAIN events' : events'[j].rebalanced)
        => Wealth' \in Nat /\ values' = At(target', Wealth')
    BY <1>20, <2>1, <2>4
  <2> QED
    BY <2>1, <2>3, <2>4, <2>5, <2>6 DEF BookKept, Weighting, Amounts
<1>22. BookInv'
  <2>1. target' # <<>> /\ month' \in Nat /\ value' \in Nat
    BY <1>1, <1>3, <1>17
  <2> QED
    BY <1>16, <1>21, <2>1 DEF BookInv
<1> QED
  BY <1>1, <1>2, <1>15, <1>22

\* Months rise, and the dates that rebalanced are those the schedule names.
PeriodInv ==
  /\ target = <<>> => events = <<>>
  /\ month \in Nat
  /\ IF events = <<>> THEN lastPeriod = -1 ELSE lastPeriod = Period(month)
  /\ events # <<>> => \E j \in DOMAIN events : events[j].month = month
  /\ \A j \in DOMAIN events : events[j].month \in Nat /\ events[j].month <= month
  /\ \A j \in DOMAIN events :
       LET first == \A i \in 1 .. j - 1 : Period(events[i].month) # Period(events[j].month) IN
       /\ first => events[j].rebalanced
       /\ events[j].rebalanced /\ schedule # "threshold" => first

\* A later month is in no earlier period.
LEMMA PeriodsRise ==
  ASSUME NEW a \in Nat, NEW b \in Nat, a <= b
  PROVE  Period(a) \in Nat /\ Period(a) <= Period(b)
<1>1. a \div 12 \in Nat /\ a \div 12 <= b \div 12 /\ a \div 3 \in Nat /\ a \div 3 <= b \div 3
  OBVIOUS
<1> QED
  BY <1>1 DEF Period

\* Starting a simulation keeps it: no date was yet.
LEMMA PeriodSimulate ==
  ASSUME BookInv, PeriodInv, NEW x, NEW w, NEW s, NEW cost, NEW limit,
         Simulate(x, w, s, cost, limit)
  PROVE  PeriodInv'
<1>1. events = <<>> /\ events' = <<>> /\ UNCHANGED <<month, lastPeriod>>
  BY DEF Simulate, BookInv
<1>2. DOMAIN events' = {}
  BY <1>1
<1> QED
  BY <1>1, <1>2 DEF PeriodInv

\* A date keeps it: it is in a new period exactly if it is in none of the dates before.
LEMMA PeriodDate ==
  ASSUME BookInv, PeriodInv, NEW gap \in Nat, NEW growth, Date(gap, growth)
  PROVE  PeriodInv'
<1> DEFINE m == month + gap
           v == [i \in Isins |-> (values[i] * Traded(growth, i)) \div 2]
           due == Period(m) # lastPeriod \/ ThresholdHit(v)
           event == [month |-> m, rebalanced |-> due, cost |-> IF due THEN Cost(v) ELSE 0]
           n == Len(events) + 1
           first == \A i \in 1 .. n - 1 : Period(events'[i].month) # Period(m)
<1>1. /\ target # <<>> /\ month' = m /\ events' = Append(events, event)
      /\ lastPeriod' = IF due THEN Period(m) ELSE lastPeriod
      /\ UNCHANGED <<target, schedule>> /\ events \in Seq(Event)
  BY DEF Date, settings, BookInv
<1>2. event.month = m /\ event.rebalanced = due /\ due \in BOOLEAN
  OBVIOUS
<1>3. ThresholdHit(v) => schedule = "threshold"
  BY DEF ThresholdHit
<1>4. m \in Nat /\ month \in Nat /\ month <= m
  BY DEF PeriodInv
<1>5. Period(m) # lastPeriod => due
  OBVIOUS
<1>6. due /\ schedule # "threshold" => Period(m) # lastPeriod
  BY <1>3
<1> HIDE DEF due, event
<1>7. /\ n \in Nat /\ n >= 1 /\ DOMAIN events = 1 .. n - 1
     /\ DOMAIN events' = 1 .. n /\ events'[n] = event
      /\ \A i \in 1 .. n - 1 : events'[i] = events[i]
  <2>1. Len(events) \in Nat /\ DOMAIN events = 1 .. Len(events)
    BY <1>1
  <2>2. DOMAIN events' = 1 .. Len(events) + 1 /\ events'[Len(events) + 1] = event
        /\ \A i \in 1 .. Len(events) : events'[i] = events[i]
    BY <1>1
  <2> QED
    BY <2>1, <2>2
<1>8. events = <<>> <=> n = 1
  BY <1>1, <1>7
<1> HIDE DEF n, m
<1>9. \A a : Period(a)' = Period(a)
  BY <1>1 DEF Period
<1>10. n = 1 => Period(m) # lastPeriod
  <2>1. Period(m) \in Nat
    BY <1>4, PeriodsRise
  <2> QED
    BY <1>8, <2>1 DEF PeriodInv
<1>11. Period(m) # lastPeriod => first
  <2> SUFFICES ASSUME Period(m) # lastPeriod, NEW i \in 1 .. n - 1
               PROVE  Period(events'[i].month) # Period(m)
    OBVIOUS
  <2>1. events'[i] = events[i] /\ events[i].month \in Nat /\ events[i].month <= month
        /\ events # <<>>
    BY <1>7 DEF PeriodInv
  <2>2. lastPeriod = Period(month)
    BY <2>1 DEF PeriodInv
  <2>3. Period(events[i].month) \in Nat /\ Period(events[i].month) <= Period(month)
    BY <1>4, <2>1, PeriodsRise
  <2>4. Period(month) \in Nat /\ Period(month) <= Period(m) /\ Period(m) \in Nat
    BY <1>4, PeriodsRise
  <2> QED
    BY <2>1, <2>2, <2>3, <2>4
<1>12. first => Period(m) # lastPeriod
  <2> SUFFICES ASSUME Period(m) = lastPeriod PROVE ~first
    OBVIOUS
  <2>1. events # <<>>
    BY <1>8, <1>10
  <2>2. PICK j \in 1 .. n - 1 : events[j].month = month
    BY <1>7, <2>1 DEF PeriodInv
  <2>3. Period(month) = Period(m)
    BY <2>1 DEF PeriodInv
  <2>4. events'[j].month = month
    BY <1>7, <2>2
  <2> QED
    BY <2>3, <2>4
<1>13. ASSUME NEW j \in DOMAIN events'
       PROVE  LET f == \A i \in 1 .. j - 1 : Period(events'[i].month) # Period(events'[j].month) IN
              /\ f => events'[j].rebalanced
              /\ events'[j].rebalanced /\ schedule # "threshold" => f
  <2>1. CASE j = n
    <3>1. events'[j].month = m /\ events'[j].rebalanced = due
      BY <1>2, <1>7, <2>1
    <3> QED
      BY <1>5, <1>6, <1>11, <1>12, <2>1, <3>1
  <2>2. CASE j # n
    <3>1. j \in 1 .. n - 1 /\ events'[j] = events[j]
      BY <1>7, <2>2
    <3>2. \A i \in 1 .. j - 1 : events'[i] = events[i]
      <4> SUFFICES ASSUME NEW i \in 1 .. j - 1 PROVE events'[i] = events[i]
        OBVIOUS
      <4>1. i \in 1 .. n - 1
        BY <1>7, <3>1
      <4> QED
        BY <1>7, <4>1
    <3> QED
      BY <1>7, <3>1, <3>2 DEF PeriodInv
  <2> QED
    BY <2>1, <2>2
<1>14. events' # <<>> /\ lastPeriod' = Period(m)
  <2>1. events' # <<>>
    BY <1>1
  <2> QED
    BY <1>1, <1>5, <2>1
<1>15. ASSUME NEW j \in DOMAIN events'
       PROVE  events'[j].month \in Nat /\ events'[j].month <= m
  <2>1. CASE j = n
    BY <1>2, <1>4, <1>7, <2>1
  <2>2. CASE j # n
    <3>1. j \in 1 .. n - 1 /\ events'[j] = events[j]
      BY <1>7, <2>2
    <3>2. events[j].month \in Nat /\ events[j].month <= month
      BY <1>7, <3>1 DEF PeriodInv
    <3> QED
      BY <1>4, <3>1, <3>2
  <2> QED
    BY <2>1, <2>2
<1>16. n \in DOMAIN events' /\ events'[n].month = m
  BY <1>2, <1>7
<1> QED
  BY <1>1, <1>4, <1>9, <1>13, <1>14, <1>15, <1>16 DEF PeriodInv

\* The invariant says that a schedule rebalances on the first date of a period and on no
\* other.
LEMMA OncePerPeriodHolds ==
  ASSUME BookInv, PeriodInv
  PROVE  OncePerPeriod
<1> DEFINE years(m) == m \div 12
           of(m) == CASE schedule = "annual" -> <<years(m)>>
                      [] schedule = "quarterly" -> <<years(m), (m % 12) \div 3>>
                      [] OTHER -> <<years(m), m % 12>>
<1>1. ASSUME NEW a \in Nat, NEW b \in Nat PROVE of(a) = of(b) <=> Period(a) = Period(b)
  <2>1. CASE schedule = "annual"
    BY <2>1 DEF Period
  <2>2. CASE schedule = "quarterly"
    <3>1. of(a) = <<a \div 12, (a % 12) \div 3>> /\ of(b) = <<b \div 12, (b % 12) \div 3>>
          /\ Period(a) = a \div 3 /\ Period(b) = b \div 3
      BY <2>2 DEF Period
    <3>2. (a \div 12 = b \div 12 /\ (a % 12) \div 3 = (b % 12) \div 3) <=> a \div 3 = b \div 3
      OBVIOUS
    <3> HIDE DEF of
    <3> QED
      BY <3>1, <3>2
  <2>3. CASE schedule # "annual" /\ schedule # "quarterly"
    <3>1. of(a) = <<a \div 12, a % 12>> /\ of(b) = <<b \div 12, b % 12>>
          /\ Period(a) = a /\ Period(b) = b
      BY <2>3 DEF Period
    <3>2. (a \div 12 = b \div 12 /\ a % 12 = b % 12) <=> a = b
      OBVIOUS
    <3> HIDE DEF of
    <3> QED
      BY <3>1, <3>2
  <2> QED
    BY <2>1, <2>2, <2>3
<1> HIDE DEF of
<1>2. \A k \in DOMAIN events : \A j \in 1 .. k - 1 : j \in DOMAIN events
  <2>1. DOMAIN events = 1 .. Len(events) /\ Len(events) \in Nat
    BY DEF BookInv
  <2> QED
    BY <2>1
<1>3. \A k \in DOMAIN events : events[k].month \in Nat
  BY DEF PeriodInv
<1>4. ASSUME NEW k \in DOMAIN events
      PROVE  (\A j \in 1 .. k - 1 : of(events[j].month) # of(events[k].month))
             <=> (\A j \in 1 .. k - 1 : Period(events[j].month) # Period(events[k].month))
  BY <1>1, <1>2, <1>3
<1>5. \A k \in DOMAIN events :
        /\ (\A j \in 1 .. k - 1 : of(events[j].month) # of(events[k].month)) => events[k].rebalanced
        /\ events[k].rebalanced /\ schedule # "threshold"
           => (\A j \in 1 .. k - 1 : of(events[j].month) # of(events[k].month))
  BY <1>4 DEF PeriodInv
<1> QED
  BY <1>5 DEF OncePerPeriod, of

\* The wealth from the start on.
Path == <<Capital>> \o heldWealth

\* Where the peak was reached last.
PathInv ==
  /\ target = <<>> => heldWealth = <<>> /\ events = <<>>
  /\ Path \in Seq(Int) /\ duration \in 0 .. Len(heldWealth) /\ recovered \in Nat
  /\ LET n == Len(Path) IN
     /\ Path[n - duration] = peak
     /\ \A k \in 1 .. n : Path[k] <= peak /\ (k > n - duration => Path[k] < peak)
     /\ recovered > 0 => recovered < n /\ Path[n] = peak /\ Path[n - recovered] < peak

\* It is one longer than the dates.
LEMMA PathIs ==
  ASSUME heldWealth \in Seq(Int)
  PROVE  Path \in Seq(Int) /\ Len(Path) = Len(heldWealth) + 1 /\ Len(heldWealth) \in Nat
<1>1. Capital \in Nat
  BY SettingsAre
<1> QED
  BY <1>1 DEF Path

\* A date keeps the place of the peak.
LEMMA PathDate ==
  ASSUME PathInv, target # <<>>, target' = target, heldWealth \in Seq(Int), NEW total \in Int,
         heldWealth' = Append(heldWealth, total),
         IF Recovered(total)
         THEN peak' = total /\ duration' = 0 /\ recovered' = duration
         ELSE peak' = peak /\ duration' = duration + 1 /\ recovered' = 0
  PROVE  PathInv'
<1> DEFINE n == Len(Path)
<1>1. Path \in Seq(Int) /\ n = Len(heldWealth) + 1 /\ Len(heldWealth) \in Nat
      /\ duration \in 0 .. n - 1 /\ duration \in Nat
  BY PathIs DEF PathInv
<1>2. Path' = Append(Path, total)
  <2>1. Capital \in Nat
    BY SettingsAre
  <2> QED
    BY <2>1 DEF Path
<1>3. /\ Path' \in Seq(Int) /\ Len(Path') = n + 1 /\ Path'[n + 1] = total
      /\ \A k \in 1 .. n : Path'[k] = Path[k]
      /\ Len(heldWealth') = Len(heldWealth) + 1
  BY <1>1, <1>2
<1>4. \A k \in 1 .. n : Path[k] \in Int
  BY <1>1
<1> DEFINE low == n - duration
<1>5. /\ low \in 1 .. n /\ Path[low] = peak
      /\ \A k \in 1 .. n : Path[k] <= peak /\ (k > low => Path[k] < peak)
  BY <1>1 DEF PathInv
<1>6. peak \in Int
  BY <1>4, <1>5
<1>7. CASE total >= peak
  <2>1. peak' = total /\ duration' = 0 /\ recovered' = duration
    BY <1>7 DEF Recovered
  <2>2. Path'[(n + 1) - duration'] = peak' /\ duration' \in 0 .. Len(heldWealth')
    BY <1>1, <1>3, <2>1
  <2>3. ASSUME NEW k \in 1 .. n + 1
        PROVE  Path'[k] <= peak' /\ (k > (n + 1) - duration' => Path'[k] < peak')
    <3>1. CASE k = n + 1
      BY <1>1, <1>3, <2>1, <3>1
    <3>2. CASE k # n + 1
      <4>1. k \in 1 .. n
        BY <1>1, <3>2
      <4>2. Path'[k] = Path[k] /\ Path[k] \in Int /\ Path[k] <= peak
        BY <1>3, <1>4, <1>5, <4>1
      <4>3. ~(k > (n + 1) - duration')
        BY <1>1, <2>1, <4>1
      <4> QED
        BY <1>6, <1>7, <2>1, <4>2, <4>3
    <3> QED
      BY <3>1, <3>2
  <2>4. ASSUME recovered' > 0
        PROVE  recovered' < n + 1 /\ Path'[n + 1] = peak' /\ Path'[(n + 1) - recovered'] < peak'
    <3> DEFINE z == (n + 1) - duration
    <3>1. z \in 1 .. n /\ z > low /\ duration < n + 1
      <4>1. n \in Nat /\ duration \in Nat /\ duration <= n - 1 /\ duration > 0
        BY <1>1, <2>1, <2>4
      <4> HIDE DEF n
      <4> QED
        BY <4>1
    <3>2. Path[z] < peak /\ Path'[z] = Path[z] /\ Path[z] \in Int
      BY <1>3, <1>4, <1>5, <3>1
    <3>3. (n + 1) - recovered' = z /\ recovered' = duration
      BY <2>1
    <3> HIDE DEF z
    <3>4. total \in Int /\ Path'[n + 1] = peak'
      BY <1>3, <1>6, <1>7, <2>1
    <3>5. Path'[z] < peak'
      BY <1>6, <1>7, <2>1, <3>2, <3>4
    <3> QED
      BY <3>1, <3>3, <3>4, <3>5
  <2> QED
    BY <1>1, <1>3, <2>1, <2>2, <2>3, <2>4 DEF PathInv
<1>8. CASE ~(total >= peak)
  <2>1. peak' = peak /\ duration' = duration + 1 /\ recovered' = 0
    BY <1>8 DEF Recovered
  <2>2. Path'[(n + 1) - duration'] = peak' /\ duration' \in 0 .. Len(heldWealth')
        /\ (n + 1) - duration' = low
    <3>1. (n + 1) - duration' = low /\ duration' \in 0 .. Len(heldWealth')
      BY <1>1, <1>3, <2>1
    <3>2. Path'[low] = Path[low]
      BY <1>3, <1>5
    <3> QED
      BY <1>5, <2>1, <3>1, <3>2
  <2>3. ASSUME NEW k \in 1 .. n + 1
        PROVE  Path'[k] <= peak' /\ (k > (n + 1) - duration' => Path'[k] < peak')
    <3>1. CASE k = n + 1
      BY <1>1, <1>3, <1>6, <1>8, <2>1, <3>1
    <3>2. CASE k # n + 1
      <4>1. k \in 1 .. n
        BY <1>1, <3>2
      <4>2. Path'[k] = Path[k] /\ Path[k] <= peak /\ (k > low => Path[k] < peak)
        BY <1>3, <1>5, <4>1
      <4> QED
        BY <2>1, <2>2, <4>2
    <3> QED
      BY <3>1, <3>2
  <2> QED
    BY <1>1, <1>3, <2>1, <2>2, <2>3 DEF PathInv
<1> QED
  BY <1>7, <1>8

\* The place of the peak says what the drawdown and its duration are.
LEMMA DrawdownsHold ==
  ASSUME PathInv, heldWealth \in Seq(Int)
  PROVE  DrawdownsFollowThePath
<1> DEFINE n == Len(Path)
           low == n - duration
           since == {k \in DOMAIN Path : Path[k] = peak}
<1>1. Path \in Seq(Int) /\ n = Len(heldWealth) + 1 /\ Len(heldWealth) \in Nat
      /\ duration \in 0 .. n - 1 /\ DOMAIN Path = 1 .. n
  BY PathIs DEF PathInv
<1>2. /\ low \in 1 .. n /\ Path[low] = peak
      /\ \A k \in 1 .. n : Path[k] <= peak /\ (k > low => Path[k] < peak)
      /\ \A k \in 1 .. n : Path[k] \in Int
  <2>1. low \in 1 .. n
    BY <1>1
  <2>2. Path[low] = peak /\ \A k \in 1 .. n : Path[k] <= peak /\ (k > low => Path[k] < peak)
    BY DEF PathInv
  <2>3. \A k \in 1 .. n : Path[k] \in Int
    BY <1>1
  <2> QED
    BY <2>1, <2>2, <2>3
<1>3. Max(Range(Path)) = peak
  <2>1. Range(Path) \subseteq Int
    BY <1>1, <1>2 DEF Range
  <2>3. peak \in Range(Path)
    <3>1. low \in DOMAIN Path /\ Path[low] = peak
      BY <1>1, <1>2
    <3> HIDE DEF low
    <3> QED
      BY <3>1 DEF Range
  <2>2. \A y \in Range(Path) : y <= peak
    BY <1>1, <1>2 DEF Range
  <2> QED
    BY <2>1, <2>2, <2>3, MaxIs
<1>4. Max(since) = low
  <2>1. since \subseteq Int /\ low \in since
    BY <1>1, <1>2
  <2>2. ASSUME NEW k \in since PROVE k <= low
    <3>1. k \in 1 .. n /\ Path[k] = peak /\ peak \in Int
      BY <1>1, <1>2
    <3>2. ~(k > low)
      BY <1>2, <3>1
    <3> QED
      BY <1>1, <1>2, <3>1, <3>2
  <2> HIDE DEF since, low
  <2> QED
    BY <2>1, <2>2, MaxIs
<1>5. duration = n - low
  BY <1>1
<1>6. recovered > 0 => Path[n] = peak /\ Path[n - recovered] < peak
  BY DEF PathInv
<1> QED
  BY <1>3, <1>4, <1>5, <1>6 DEF DrawdownsFollowThePath, Path

\* The inductive invariant of a simulation.
RebalancingInv == BookInv /\ PeriodInv /\ PathInv

\* The invariant holds where no simulation was started.
LEMMA RebalancingStarts ==
  ASSUME RebalancingInit
  PROVE  RebalancingInv
<1>1. /\ target = <<>> /\ month = 0 /\ lastPeriod = -1 /\ value = Capital
      /\ events = <<>> /\ heldWealth = <<>> /\ peak = Capital /\ duration = 0 /\ recovered = 0
      /\ Capital \in Nat /\ MaxDays \in Nat
  BY SettingsAre DEF RebalancingInit
<1>2. events \in Seq(Event) /\ Len(events) = 0 /\ heldWealth \in Seq(Int) /\ Len(heldWealth) = 0
      /\ DOMAIN events = {}
  BY <1>1
<1>3. BookInv
  BY <1>1, <1>2 DEF BookInv
<1>4. PeriodInv
  BY <1>1, <1>2 DEF PeriodInv
<1>5. Path = <<Capital>> /\ Len(Path) = 1 /\ Path[1] = Capital /\ Path \in Seq(Int)
  BY <1>1 DEF Path
<1>6. PathInv
  BY <1>1, <1>2, <1>5 DEF PathInv
<1> QED
  BY <1>3, <1>4, <1>6 DEF RebalancingInv

\* Every step preserves it.
LEMMA RebalancingStep ==
  ASSUME RebalancingInv, [RebalancingNext]_rebalancing
  PROVE  RebalancingInv'
<1>0. BookInv /\ PeriodInv /\ PathInv
  BY DEF RebalancingInv
<1>1. ASSUME NEW x \in Matrices, NEW w \in Targets, NEW s \in Schedules, NEW cost \in TradeCosts,
             NEW limit \in IF s = "threshold" THEN Thresholds ELSE {8},
             Simulate(x, w, s, cost, limit)
      PROVE  RebalancingInv'
  <2>1. BookInv'
    BY <1>0, <1>1, SimulateStep
  <2>2. PeriodInv'
    BY <1>0, <1>1, PeriodSimulate
  <2>3. PathInv'
    <3>1. UNCHANGED <<heldWealth, events, peak, duration, recovered>> /\ target = <<>>
      BY <1>1 DEF Simulate, drawdown
    <3>2. Path' = Path
      BY <3>1 DEF Path
    <3> QED
      BY <1>0, <3>1, <3>2 DEF PathInv
  <2> QED
    BY <2>1, <2>2, <2>3 DEF RebalancingInv
<1>2. ASSUME NEW gap \in Gaps, NEW growth \in Returns, Date(gap, growth)
      PROVE  RebalancingInv'
  <2>1. /\ BookInv' /\ target # <<>> /\ gap \in Nat
        /\ \E total \in Int : /\ heldWealth' = Append(heldWealth, total)
                              /\ IF Recovered(total)
                                 THEN peak' = total /\ duration' = 0 /\ recovered' = duration
                                 ELSE peak' = peak /\ duration' = duration + 1 /\ recovered' = 0
    BY <1>0, <1>2, DateStep
  <2>2. PeriodInv'
    BY <1>0, <1>2, <2>1, PeriodDate
  <2>3. target' = target /\ heldWealth \in Seq(Int)
    BY <1>0, <1>2 DEF Date, settings, BookInv
  <2>4. PathInv'
    BY <1>0, <2>1, <2>3, PathDate
  <2> QED
    BY <2>1, <2>2, <2>4 DEF RebalancingInv
<1>3. CASE UNCHANGED rebalancing
  <2>1. /\ listed' = listed /\ target' = target /\ schedule' = schedule /\ rate' = rate /\ threshold' = threshold
        /\ month' = month /\ values' = values /\ lastPeriod' = lastPeriod /\ value' = value
        /\ events' = events /\ heldWealth' = heldWealth
        /\ peak' = peak /\ duration' = duration /\ recovered' = recovered
    BY <1>3 DEF rebalancing, settings, drawdown
  <2>2. BookInv'
    BY <1>0, <2>1 DEF BookInv, BookKept, Weighting, Amounts, Left, Wealth, At, DriftOf
  <2>3. PeriodInv'
    BY <1>0, <2>1 DEF PeriodInv, Period
  <2>4. PathInv'
    BY <1>0, <2>1 DEF PathInv, Path
  <2> QED
    BY <2>2, <2>3, <2>4 DEF RebalancingInv
<1> QED
  BY <1>1, <1>2, <1>3 DEF RebalancingNext

\* The invariant says that the simulation is sound.
LEMMA SimulationHolds ==
  ASSUME RebalancingInv
  PROVE  SimulationIsSound
<1>0. BookInv /\ PeriodInv /\ PathInv
  BY DEF RebalancingInv
<1>1. target # <<>> => BookKept
  BY <1>0 DEF BookInv
<1>2. value \in Nat /\ Len(heldWealth) = Len(events) /\ Len(events) <= MaxDays
      /\ heldWealth \in Seq(Int) /\ events \in Seq(Event) /\ Len(events) \in Nat
      /\ (target = <<>> => events = <<>>) /\ MaxDays \in Nat
  BY <1>0, SettingsAre DEF BookInv
<1>3. RebalancingTypeOK
  <2>1. target # <<>> => values \in [Isins -> Nat]
    BY <1>1 DEF BookKept, Amounts
  <2>2. duration \in 0 .. MaxDays
    <3>1. duration \in 0 .. Len(heldWealth)
      BY <1>0 DEF PathInv
    <3> QED
      BY <1>2, <3>1
  <2>3. peak \in Nat
    <3>1. Path[Len(Path) - duration] = peak /\ duration \in 0 .. Len(heldWealth)
      BY <1>0 DEF PathInv
    <3>2. Path \in Seq(Int) /\ Len(Path) = Len(heldWealth) + 1 /\ Len(heldWealth) \in Nat
      BY <1>2, PathIs
    <3>3. Len(Path) - duration \in DOMAIN Path /\ 1 \in 1 .. Len(Path)
      BY <3>1, <3>2
    <3>4. Path[1] <= peak
      BY <1>0, <3>3 DEF PathInv
    <3>5. Path[1] = Capital /\ Capital \in Nat
      BY <1>2, SettingsAre DEF Path
    <3> QED
      BY <3>1, <3>2, <3>3, <3>4, <3>5
  <2> QED
    BY <1>2, <2>1, <2>2, <2>3 DEF RebalancingTypeOK
<1>4. ValueIsHeld
  BY <1>1 DEF ValueIsHeld, BookKept
<1>5. SimulationsAgree
  <2> SUFFICES ASSUME events # <<>>, rate = 0, OneListingEach(listed),
                      \A k \in DOMAIN events : events[k].rebalanced
               PROVE  value = Wealth
    BY DEF SimulationsAgree
  <2>1. BookKept
    BY <1>1, <1>2
  <2>2. values = At(target, Wealth) /\ Weighting(target) /\ Wealth \in Nat
        /\ Multiple(Wealth, 4 * Grain[Left]) /\ value = SumFunction(values)
    BY <2>1 DEF BookKept
  <2>3. Grain[Left] \in Int
    BY <1>2, LeftIs
  <2> QED
    BY <2>2, <2>3, AtIs
<1>6. OncePerPeriod
  BY <1>0, OncePerPeriodHolds
<1>7. DriftIsBounded
  <2> SUFFICES ASSUME schedule = "threshold", target # <<>>, value > 0
               PROVE  Drift(values) < threshold * SumFunction(values)
    BY DEF DriftIsBounded
  <2>1. DriftOf(target, values) < threshold * value /\ value = SumFunction(values)
    BY <1>1 DEF BookKept
  <2> QED
    BY <2>1 DEF Drift, DriftOf
<1>8. DrawdownsFollowThePath
  BY <1>0, <1>2, DrawdownsHold
<1> QED
  BY <1>3, <1>4, <1>5, <1>6, <1>7, <1>8 DEF SimulationIsSound

\* build_rebalance_events holds what its portfolio is worth, rebalances on the first date of
\* a period or at the threshold and leaves no larger drift, and, if no two listings have one
\* ISIN, agrees with the portfolio held at its weights, whose drawdowns build_drawdowns
\* measures: for every matrix, schedule and growth.
THEOREM SimulationIsSoundCorrect == RebalancingSpec => []SimulationIsSound
<1>1. RebalancingInit => RebalancingInv
  BY RebalancingStarts
<1>2. RebalancingInv /\ [RebalancingNext]_rebalancing => RebalancingInv'
  BY RebalancingStep
<1>3. RebalancingInv => SimulationIsSound
  BY SimulationHolds
<1> QED
  BY <1>1, <1>2, <1>3, PTL DEF RebalancingSpec
==============================================================================
