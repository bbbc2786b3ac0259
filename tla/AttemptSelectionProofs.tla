----------------------- MODULE AttemptSelectionProofs -----------------------
(***************************************************************************)
(* The selection from a batch of attempts, for any answers, entropies and  *)
(* votes: sums and rankings first, then the score as a linear form, the    *)
(* inductive invariant, and the properties with the thresholds each needs. *)
(***************************************************************************)
EXTENDS AttemptSelection, FiniteSetTheorems, SequenceTheorems, TLAPS

\* A set of numbers that holds 0 and, with a number, the next one, holds them all.
LEMMA Counting ==
  ASSUME NEW U, 0 \in U, \A n \in Nat : n \in U => n + 1 \in U
  PROVE  Nat \subseteq U
<1> DEFINE T == Nat \ U
           R == OpToRel(<, Nat)
<1> SUFFICES ASSUME T # {} PROVE FALSE
  OBVIOUS
<1>1. PICK m \in T : \A k \in T : ~(<<k, m>> \in R)
  <2>1. IsWellFoundedOn(R, Nat) /\ T \subseteq Nat
    BY NatLessThanWellFounded
  <2> HIDE DEF R, T
  <2> QED
    BY <2>1, WFMin
<1>2. m # 0 /\ m \in Nat /\ m - 1 \in Nat
  OBVIOUS
<1>3. m - 1 \in T
  <2>1. m - 1 \in U => (m - 1) + 1 \in U
    BY <1>2
  <2> QED
    BY <2>1, <1>2
<1>4. <<m - 1, m>> \in R
  BY <1>2 DEF OpToRel
<1> QED
  BY <1>1, <1>3, <1>4

-----------------------------------------------------------------------------
\* Sums over finite sets.  The fold takes the elements in the order of a
\* choice: Part holds the sums of the subsets of a set.
One(s) == CHOOSE x \in s : TRUE
PartsOn(f, P, g) == g = [s \in P |-> IF s = {} THEN 0 ELSE f[One(s)] + g[s \ {One(s)}]]
Parts(f, S, g) == PartsOn(f, SUBSET S, g)
Smaller(S, n) == {s \in SUBSET S : Cardinality(s) <= n}

LEMMA OneLess ==
  ASSUME NEW s, IsFiniteSet(s), s # {}
  PROVE  /\ One(s) \in s
         /\ IsFiniteSet(s \ {One(s)})
         /\ Cardinality(s) \in Nat
         /\ Cardinality(s \ {One(s)}) = Cardinality(s) - 1
<1>1. One(s) \in s
  BY DEF One
<1> QED
  BY <1>1, FS_RemoveElement, FS_CardinalityType

\* There is a table of the sums of the subsets of a finite set.
LEMMA PartsExist ==
  ASSUME NEW f, NEW S, IsFiniteSet(S)
  PROVE  \E g : Parts(f, S, g)
<1> DEFINE U == {n \in Nat : \E g : PartsOn(f, Smaller(S, n), g)}
<1>0. \A s \in SUBSET S : IsFiniteSet(s) /\ Cardinality(s) \in Nat
  BY FS_Subset, FS_CardinalityType
<1>1. 0 \in U
  <2> DEFINE g == [s \in Smaller(S, 0) |-> 0]
  <2>1. \A s \in Smaller(S, 0) : s = {}
    BY <1>0, FS_EmptySet DEF Smaller
  <2>2. g = [s \in Smaller(S, 0) |-> IF s = {} THEN 0 ELSE f[One(s)] + g[s \ {One(s)}]]
    BY <2>1
  <2> QED
    BY <2>2 DEF Parts, PartsOn
<1>2. ASSUME NEW n \in Nat, n \in U
      PROVE  n + 1 \in U
  <2>1. PICK g : PartsOn(f, Smaller(S, n), g)
    BY <1>2
  <2> DEFINE h == [s \in Smaller(S, n + 1) |-> IF s = {} THEN 0 ELSE f[One(s)] + g[s \ {One(s)}]]
  <2>2. ASSUME NEW s \in Smaller(S, n + 1), s # {}
        PROVE  h[s \ {One(s)}] = g[s \ {One(s)}]
    <3> DEFINE r == s \ {One(s)}
    <3>1. r \in Smaller(S, n) /\ r \in Smaller(S, n + 1)
      BY <1>0, <2>2, OneLess DEF Smaller
    <3>2. g[r] = IF r = {} THEN 0 ELSE f[One(r)] + g[r \ {One(r)}]
      BY <2>1, <3>1 DEF Parts, PartsOn
    <3>3. h[r] = IF r = {} THEN 0 ELSE f[One(r)] + g[r \ {One(r)}]
      BY <3>1
    <3> QED
      BY <3>2, <3>3
  <2>3. h = [s \in Smaller(S, n + 1) |-> IF s = {} THEN 0 ELSE f[One(s)] + h[s \ {One(s)}]]
    <3> HIDE DEF h
    <3>1. h = [s \in Smaller(S, n + 1) |-> IF s = {} THEN 0 ELSE f[One(s)] + g[s \ {One(s)}]]
      BY DEF h
    <3> QED
      BY <2>2, <3>1
  <2>4. PartsOn(f, Smaller(S, n + 1), h)
    BY <2>3 DEF Parts, PartsOn
  <2> QED
    BY <2>4
<1>3. Cardinality(S) \in U
  <2> HIDE DEF U
  <2> QED
    BY <1>0, <1>1, <1>2, Counting
<1>4. Smaller(S, Cardinality(S)) = SUBSET S
  BY FS_Subset DEF Smaller
<1> QED
  BY <1>3, <1>4 DEF Parts

\* Two tables agree wherever both say something.
LEMMA PartsAgree ==
  ASSUME NEW f, NEW S, NEW T, IsFiniteSet(S), IsFiniteSet(T),
         NEW g, Parts(f, S, g), NEW h, Parts(f, T, h),
         NEW e, e \subseteq S, e \subseteq T
  PROVE  g[e] = h[e]
<1> DEFINE B == (SUBSET S) \cap (SUBSET T)
           U == {n \in Nat : \A s \in B : Cardinality(s) = n => g[s] = h[s]}
<1>0. \A s \in B : IsFiniteSet(s) /\ Cardinality(s) \in Nat
  BY FS_Subset, FS_CardinalityType
<1>1. \A s \in B : /\ g[s] = IF s = {} THEN 0 ELSE f[One(s)] + g[s \ {One(s)}]
                   /\ h[s] = IF s = {} THEN 0 ELSE f[One(s)] + h[s \ {One(s)}]
  BY DEF Parts, PartsOn
<1>2. 0 \in U
  BY <1>0, <1>1, FS_EmptySet
<1>3. ASSUME NEW n \in Nat, n \in U
      PROVE  n + 1 \in U
  <2>1. ASSUME NEW s \in B, Cardinality(s) = n + 1
        PROVE  g[s] = h[s]
    <3>1. s # {} /\ IsFiniteSet(s)
      BY <1>0, <2>1, FS_EmptySet
    <3>2. Cardinality(s \ {One(s)}) = n
      <4>1. Cardinality(s \ {One(s)}) = Cardinality(s) - 1
        BY <3>1, OneLess
      <4> QED
        BY <2>1, <4>1
    <3>3. s \ {One(s)} \in B
      OBVIOUS
    <3> QED
      BY <1>1, <1>3, <3>1, <3>2, <3>3
  <2> QED
    BY <2>1
<1>4. Nat \subseteq U
  <2> HIDE DEF U
  <2> QED
    BY <1>2, <1>3, Counting
<1>5. e \in B
  OBVIOUS
<1> QED
  BY <1>0, <1>4, <1>5

LEMMA SumTable ==
  ASSUME NEW f, NEW S, IsFiniteSet(S)
  PROVE  \E g : Parts(f, S, g) /\ SumFunctionOnSet(f, S) = g[S]
<1> DEFINE g == CHOOSE g : Parts(f, S, g)
<1>1. Parts(f, S, g)
  BY PartsExist
<1>2. SumFunctionOnSet(f, S) = g[S]
  BY DEF SumFunctionOnSet, FoldFunctionOnSet, MapThenFoldSet, Parts, PartsOn, One
<1> QED
  BY <1>1, <1>2

\* A sum is unfolded by one element, the chosen one.
LEMMA SumUnfold ==
  ASSUME NEW f, NEW S, IsFiniteSet(S)
  PROVE  SumFunctionOnSet(f, S) =
           IF S = {} THEN 0 ELSE f[One(S)] + SumFunctionOnSet(f, S \ {One(S)})
<1>1. PICK g : Parts(f, S, g) /\ SumFunctionOnSet(f, S) = g[S]
  BY SumTable
<1>2. g[S] = IF S = {} THEN 0 ELSE f[One(S)] + g[S \ {One(S)}]
  BY <1>1 DEF Parts, PartsOn
<1>3. CASE S # {}
  <2> DEFINE T == S \ {One(S)}
  <2>1. IsFiniteSet(T) /\ T \in (SUBSET S) \cap (SUBSET T)
    BY <1>3, OneLess
  <2>2. PICK h : Parts(f, T, h) /\ SumFunctionOnSet(f, T) = h[T]
    BY <2>1, SumTable
  <2>3. g[T] = h[T]
    <3> HIDE DEF T
    <3>1. Parts(f, S, g) /\ Parts(f, T, h) /\ IsFiniteSet(T) /\ IsFiniteSet(S)
      BY <1>1, <2>1, <2>2
    <3>2. T \subseteq S /\ T \subseteq T
      BY <2>1
    <3> QED
      BY <3>1, <3>2, PartsAgree
  <2> QED
    BY <1>1, <1>2, <1>3, <2>2, <2>3
<1> QED
  BY <1>1, <1>2, <1>3

\* What holds of the empty set, and of a set when it holds of the set without
\* its chosen element, is proved by counting.  The sum of integers is one.
LEMMA SumInt ==
  ASSUME NEW f, NEW S, IsFiniteSet(S), \A x \in S : f[x] \in Int
  PROVE  SumFunctionOnSet(f, S) \in Int
<1> DEFINE U == {n \in Nat : \A s \in SUBSET S : Cardinality(s) = n => SumFunctionOnSet(f, s) \in Int}
<1>0. \A s \in SUBSET S : IsFiniteSet(s) /\ Cardinality(s) \in Nat
  BY FS_Subset, FS_CardinalityType
<1>1. 0 \in U
  <2>1. SumFunctionOnSet(f, {}) = 0
    BY SumUnfold, FS_EmptySet
  <2> QED
    BY <1>0, <2>1, FS_EmptySet
<1>2. ASSUME NEW n \in Nat, n \in U
      PROVE  n + 1 \in U
  <2>1. ASSUME NEW s \in SUBSET S, Cardinality(s) = n + 1
        PROVE  SumFunctionOnSet(f, s) \in Int
    <3>1. s # {}
      BY <2>1, FS_EmptySet
    <3>2. One(s) \in S /\ s \ {One(s)} \in SUBSET S /\ Cardinality(s \ {One(s)}) = n
      BY <1>0, <2>1, <3>1, OneLess
    <3>3. SumFunctionOnSet(f, s) = f[One(s)] + SumFunctionOnSet(f, s \ {One(s)})
      BY <1>0, <3>1, SumUnfold
    <3> QED
      BY <1>2, <3>2, <3>3
  <2> QED
    BY <2>1
<1>3. Nat \subseteq U
  <2> HIDE DEF U
  <2> QED
    BY <1>1, <1>2, Counting
<1> QED
  BY <1>0, <1>3

\* Any element may be taken out first.
LEMMA SumAny ==
  ASSUME NEW f, NEW S, IsFiniteSet(S), \A x \in S : f[x] \in Int, NEW e \in S
  PROVE  SumFunctionOnSet(f, S) = f[e] + SumFunctionOnSet(f, S \ {e})
<1> DEFINE Sum(s) == SumFunctionOnSet(f, s)
           U == {n \in Nat : \A s \in SUBSET S : Cardinality(s) = n =>
                               \A x \in s : Sum(s) = f[x] + Sum(s \ {x})}
<1>0. \A s \in SUBSET S : IsFiniteSet(s) /\ Cardinality(s) \in Nat
  BY FS_Subset, FS_CardinalityType
<1>1. 0 \in U
  BY <1>0, FS_EmptySet
<1>2. ASSUME NEW n \in Nat, n \in U
      PROVE  n + 1 \in U
  <2>1. ASSUME NEW s \in SUBSET S, Cardinality(s) = n + 1, NEW x \in s, x # One(s)
        PROVE  Sum(s) = f[x] + Sum(s \ {x})
    <3> DEFINE y == One(s)
               r == s \ {y}
               t == s \ {x}
    <3>1. s # {} /\ y \in s /\ Cardinality(r) = n /\ Cardinality(t) = n
      BY <1>0, <2>1, OneLess, FS_RemoveElement
    <3>2. Sum(s) = f[y] + Sum(r)
      BY <1>0, <3>1, SumUnfold
    <3>3. Sum(r) = f[x] + Sum(r \ {x})
      BY <1>2, <2>1, <3>1
    <3>4. Sum(t) = f[y] + Sum(t \ {y})
      BY <1>2, <2>1, <3>1
    <3>5. r \ {x} = t \ {y}
      OBVIOUS
    <3>6. Sum(t \ {y}) \in Int /\ f[x] \in Int /\ f[y] \in Int
      <4>1. t \ {y} \in SUBSET S
        OBVIOUS
      <4> QED
        BY <1>0, <3>1, <4>1, SumInt
    <3>7. Sum(s) = f[y] + (f[x] + Sum(t \ {y}))
      BY <3>2, <3>3, <3>5
    <3>8. f[y] + (f[x] + Sum(t \ {y})) = f[x] + (f[y] + Sum(t \ {y}))
      <4> HIDE DEF Sum, t, y
      <4> QED
        BY <3>6
    <3> QED
      BY <3>4, <3>7, <3>8
  <2>2. ASSUME NEW s \in SUBSET S, Cardinality(s) = n + 1, NEW x \in s, x = One(s)
        PROVE  Sum(s) = f[x] + Sum(s \ {x})
    BY <1>0, <2>2, SumUnfold
  <2> QED
    BY <2>1, <2>2
<1>3. Nat \subseteq U
  <2> HIDE DEF U
  <2> QED
    BY <1>1, <1>2, Counting
<1> QED
  BY <1>0, <1>3

\* Sums of functions, one of which is at most a multiple of the other.
LEMMA SumBound ==
  ASSUME NEW f, NEW g, NEW c \in Nat, NEW S, IsFiniteSet(S),
         \A x \in S : f[x] \in Int /\ g[x] \in Int /\ 0 <= f[x] /\ f[x] <= c * g[x]
  PROVE  0 <= SumFunctionOnSet(f, S) /\ SumFunctionOnSet(f, S) <= c * SumFunctionOnSet(g, S)
<1> DEFINE F(s) == SumFunctionOnSet(f, s)
           G(s) == SumFunctionOnSet(g, s)
           U == {n \in Nat : \A s \in SUBSET S : Cardinality(s) = n => 0 <= F(s) /\ F(s) <= c * G(s)}
<1>0. \A s \in SUBSET S : IsFiniteSet(s) /\ Cardinality(s) \in Nat
  BY FS_Subset, FS_CardinalityType
<1>1. 0 \in U
  <2>1. F({}) = 0 /\ G({}) = 0
    BY SumUnfold, FS_EmptySet
  <2>2. \A s \in SUBSET S : Cardinality(s) = 0 => s = {}
    BY <1>0, FS_EmptySet
  <2>3. 0 <= 0 /\ 0 <= c * 0
    OBVIOUS
  <2> HIDE DEF F, G
  <2> QED
    BY <2>1, <2>2, <2>3
<1>2. ASSUME NEW n \in Nat, n \in U
      PROVE  n + 1 \in U
  <2>1. ASSUME NEW s \in SUBSET S, Cardinality(s) = n + 1
        PROVE  0 <= F(s) /\ F(s) <= c * G(s)
    <3> DEFINE y == One(s)
               r == s \ {y}
    <3>1. s # {} /\ IsFiniteSet(s)
      BY <1>0, <2>1, FS_EmptySet
    <3>2. y \in S /\ r \in SUBSET S /\ Cardinality(r) = n
      <4>1. y \in s /\ Cardinality(r) = Cardinality(s) - 1
        BY <3>1, OneLess
      <4> QED
        BY <2>1, <4>1
    <3>3. F(s) = f[y] + F(r) /\ G(s) = g[y] + G(r)
      BY <3>1, SumUnfold
    <3>4. F(r) \in Int /\ G(r) \in Int
      BY <1>0, <3>2, SumInt
    <3>5. 0 <= F(r) /\ F(r) <= c * G(r)
      BY <1>2, <3>2
    <3>6. f[y] \in Int /\ g[y] \in Int /\ 0 <= f[y] /\ f[y] <= c * g[y]
      BY <3>2
    <3> HIDE DEF F, G, y, r
    <3>7. c * (g[y] + G(r)) = c * g[y] + c * G(r)
      BY <3>4, <3>6
    <3>8. c * g[y] \in Int /\ c * G(r) \in Int
      BY <3>4, <3>6
    <3>9. 0 <= f[y] + F(r) /\ f[y] + F(r) <= c * g[y] + c * G(r)
      BY <3>4, <3>5, <3>6, <3>8
    <3> QED
      BY <3>3, <3>7, <3>9
  <2> QED
    BY <2>1
<1>3. Nat \subseteq U
  <2> HIDE DEF U
  <2> QED
    BY <1>1, <1>2, Counting
<1> QED
  BY <1>0, <1>3

\* A set is summed in two parts.
LEMMA SumParts ==
  ASSUME NEW f, NEW S, IsFiniteSet(S), \A x \in S : f[x] \in Int, NEW T, T \subseteq S
  PROVE  SumFunctionOnSet(f, S) = SumFunctionOnSet(f, T) + SumFunctionOnSet(f, S \ T)
<1> DEFINE F(s) == SumFunctionOnSet(f, s)
           R == S \ T
           U == {n \in Nat : \A s \in SUBSET T : Cardinality(s) = n => F(s \cup R) = F(s) + F(R)}
<1>0. \A s \in SUBSET T : IsFiniteSet(s) /\ Cardinality(s) \in Nat /\ s \in SUBSET S
  BY FS_Subset, FS_CardinalityType
<1>1. F(R) \in Int /\ IsFiniteSet(R)
  BY FS_Subset, SumInt
<1>2. 0 \in U
  <2>1. F({}) = 0 /\ {} \cup R = R
    BY SumUnfold, FS_EmptySet
  <2>2. \A s \in SUBSET T : Cardinality(s) = 0 => s = {}
    BY <1>0, FS_EmptySet
  <2>3. F(R) = 0 + F(R)
    BY <1>1
  <2> HIDE DEF F, R
  <2> QED
    BY <2>1, <2>2, <2>3
<1>3. ASSUME NEW n \in Nat, n \in U
      PROVE  n + 1 \in U
  <2>1. ASSUME NEW s \in SUBSET T, Cardinality(s) = n + 1
        PROVE  F(s \cup R) = F(s) + F(R)
    <3> DEFINE y == One(s)
               r == s \ {y}
    <3>1. s # {} /\ IsFiniteSet(s)
      BY <1>0, <2>1, FS_EmptySet
    <3>2. y \in s /\ y \in S /\ r \in SUBSET T /\ Cardinality(r) = n
      <4>1. y \in s /\ Cardinality(r) = Cardinality(s) - 1
        BY <3>1, OneLess
      <4> QED
        BY <2>1, <4>1
    <3>3. F(s) = f[y] + F(r)
      BY <3>1, SumUnfold
    <3>4. F(s \cup R) = f[y] + F(r \cup R)
      <4>1. IsFiniteSet(s \cup R) /\ s \cup R \subseteq S /\ y \in s \cup R
        BY <3>2, <2>1, FS_Subset
      <4>2. F(s \cup R) = f[y] + F((s \cup R) \ {y})
        BY <4>1, SumAny
      <4>3. (s \cup R) \ {y} = r \cup R
        BY <3>2
      <4> QED
        BY <4>2, <4>3
    <3>5. F(r \cup R) = F(r) + F(R)
      BY <1>3, <3>2
    <3>6. F(r) \in Int /\ f[y] \in Int
      BY <1>0, <3>2, SumInt
    <3> HIDE DEF F, r, R, y
    <3> QED
      BY <1>1, <3>3, <3>4, <3>5, <3>6
  <2> QED
    BY <2>1
<1>4. Nat \subseteq U
  <2> HIDE DEF U
  <2> QED
    BY <1>2, <1>3, Counting
<1>5. T \cup R = S
  OBVIOUS
<1> QED
  BY <1>0, <1>4, <1>5

\* Counts and amounts: sums of naturals.
LEMMA SumNat ==
  ASSUME NEW f, NEW S, IsFiniteSet(S), \A x \in S : f[x] \in Nat
  PROVE  SumFunctionOnSet(f, S) \in Nat
<1>1. \A x \in S : f[x] \in Int /\ 0 <= f[x] /\ f[x] <= 1 * f[x]
  OBVIOUS
<1>2. SumFunctionOnSet(f, S) \in Int
  BY SumInt
<1>3. 0 <= SumFunctionOnSet(f, S)
  BY <1>1, SumBound, 1 \in Nat
<1> QED
  BY <1>2, <1>3

\* Of functions that agree on a set the sums agree.
LEMMA SumSame ==
  ASSUME NEW f, NEW g, NEW S, IsFiniteSet(S),
         \A x \in S : f[x] \in Nat /\ g[x] = f[x]
  PROVE  SumFunctionOnSet(g, S) = SumFunctionOnSet(f, S)
<1> DEFINE F == SumFunctionOnSet(f, S)
           G == SumFunctionOnSet(g, S)
<1>1. F \in Nat /\ G \in Nat
  BY SumNat
<1>2. F <= 1 * G
  <2>1. \A x \in S : f[x] \in Int /\ g[x] \in Int /\ 0 <= f[x] /\ f[x] <= 1 * g[x]
    OBVIOUS
  <2> QED
    BY <2>1, SumBound, 1 \in Nat
<1>3. G <= 1 * F
  <2>1. \A x \in S : g[x] \in Int /\ f[x] \in Int /\ 0 <= g[x] /\ g[x] <= 1 * f[x]
    OBVIOUS
  <2> QED
    BY <2>1, SumBound, 1 \in Nat
<1> HIDE DEF F, G
<1>4. F = G
  BY <1>1, <1>2, <1>3
<1> QED
  BY <1>4 DEF F, G

\* One element that counts more is all the difference.
LEMMA SumRaised ==
  ASSUME NEW f, NEW g, NEW S, IsFiniteSet(S), NEW e \in S, NEW d \in Nat,
         \A x \in S : f[x] \in Nat /\ g[x] = IF x = e THEN f[x] + d ELSE f[x]
  PROVE  SumFunctionOnSet(g, S) = SumFunctionOnSet(f, S) + d
<1> DEFINE R == S \ {e}
           F(s) == SumFunctionOnSet(f, s)
           G(s) == SumFunctionOnSet(g, s)
<1>1. IsFiniteSet(R) /\ \A x \in R : f[x] \in Nat /\ g[x] = f[x]
  BY FS_Subset
<1>2. G(R) = F(R) /\ F(R) \in Nat
  BY <1>1, SumSame, SumNat
<1>3. F(S) = f[e] + F(R)
  BY SumAny
<1>4. G(S) = g[e] + G(R)
  <2>1. \A x \in S : g[x] \in Int
    OBVIOUS
  <2> QED
    BY <2>1, SumAny
<1>5. g[e] = f[e] + d /\ f[e] \in Nat
  OBVIOUS
<1> HIDE DEF F, G, R
<1>6. G(S) = F(S) + d
  BY <1>2, <1>3, <1>4, <1>5
<1> QED
  BY <1>6 DEF F, G

LEMMA SumSub ==
  ASSUME NEW f, NEW S, IsFiniteSet(S), \A x \in S : f[x] \in Nat, NEW T, T \subseteq S
  PROVE  SumFunctionOnSet(f, T) <= SumFunctionOnSet(f, S)
<1>1. IsFiniteSet(T) /\ IsFiniteSet(S \ T)
  BY FS_Subset
<1>2. SumFunctionOnSet(f, T) \in Nat /\ SumFunctionOnSet(f, S \ T) \in Nat
  BY <1>1, SumNat
<1>3. SumFunctionOnSet(f, S) = SumFunctionOnSet(f, T) + SumFunctionOnSet(f, S \ T)
  BY SumParts
<1> QED
  BY <1>2, <1>3

-----------------------------------------------------------------------------
LEMMA PairFinite ==
  ASSUME NEW a, NEW b
  PROVE  IsFiniteSet({a, b})
<1>1. {a, b} = {a} \cup {b}
  OBVIOUS
<1>2. IsFiniteSet({a})
  BY FS_Singleton
<1>3. IsFiniteSet({a} \cup {b})
  BY <1>2, FS_AddElement
<1> QED
  BY <1>1, <1>3

LEMMA FiniteImage ==
  ASSUME NEW S, IsFiniteSet(S), NEW f
  PROVE  IsFiniteSet({f[x] : x \in S})
<1> DEFINE T == {f[x] : x \in S}
           g == [x \in S |-> f[x]]
<1>1. g \in Surjection(S, T)
  BY DEF Surjection
<1> QED
  BY <1>1, FS_Surjection

\* A finite set of numbers has a largest and a smallest one.
LEMMA Largest ==
  ASSUME NEW S, IsFiniteSet(S), S # {}, S \subseteq Int
  PROVE  Max(S) \in S /\ \A k \in S : k <= Max(S)
<1> DEFINE U == {n \in Nat : \A s \in SUBSET S : s # {} /\ Cardinality(s) = n =>
                               \E m \in s : \A k \in s : m >= k}
<1>0. \A s \in SUBSET S : IsFiniteSet(s) /\ Cardinality(s) \in Nat
  BY FS_Subset, FS_CardinalityType
<1>1. 0 \in U
  BY <1>0, FS_EmptySet
<1>2. ASSUME NEW n \in Nat, n \in U
      PROVE  n + 1 \in U
  <2>1. ASSUME NEW s \in SUBSET S, s # {}, Cardinality(s) = n + 1
        PROVE  \E m \in s : \A k \in s : m >= k
    <3> DEFINE y == One(s)
               r == s \ {y}
    <3>1. y \in s /\ y \in Int /\ r \subseteq Int /\ Cardinality(r) = n
      <4>1. IsFiniteSet(s) /\ s \subseteq Int
        BY <1>0
      <4>2. y \in s /\ Cardinality(r) = Cardinality(s) - 1
        BY <2>1, <4>1, OneLess
      <4>3. Cardinality(r) = n
        BY <2>1, <4>2
      <4> QED
        BY <4>1, <4>2, <4>3
    <3>2. CASE r = {}
      BY <3>1, <3>2
    <3>3. CASE r # {}
      <4>1. PICK m \in r : \A k \in r : m >= k
        BY <1>2, <3>1, <3>3
      <4>2. CASE m >= y
        BY <4>1, <4>2, <3>1
      <4>3. CASE ~(m >= y)
        <5>1. m \in Int /\ y > m
          BY <3>1, <4>1, <4>3
        <5>2. \A k \in s : y >= k
          BY <3>1, <4>1, <5>1
        <5> QED
          BY <3>1, <5>2
      <4> QED
        BY <4>2, <4>3
    <3> QED
      BY <3>2, <3>3
  <2> QED
    BY <2>1
<1>3. Nat \subseteq U
  <2> HIDE DEF U
  <2> QED
    BY <1>1, <1>2, Counting
<1>4. \E m \in S : \A k \in S : m >= k
  BY <1>0, <1>3
<1>5. Max(S) \in S /\ \A k \in S : Max(S) >= k
  BY <1>4 DEF Max
<1> QED
  BY <1>5

LEMMA Smallest ==
  ASSUME NEW S, IsFiniteSet(S), S # {}, S \subseteq Int
  PROVE  Min(S) \in S /\ \A k \in S : Min(S) <= k
<1> DEFINE f == [k \in S |-> 0 - k]
           N == {f[k] : k \in S}
<1>1. IsFiniteSet(N)
  <2> HIDE DEF f
  <2> QED
    BY FiniteImage
<1>2. N # {} /\ N \subseteq Int
  <2>1. PICK e : e \in S
    OBVIOUS
  <2>2. \A k \in S : f[k] \in Int
    OBVIOUS
  <2> HIDE DEF f
  <2> QED
    BY <2>1, <2>2
<1>3. PICK m \in N : \A k \in N : k <= m
  <2> HIDE DEF N
  <2> QED
    BY <1>1, <1>2, Largest
<1>4. PICK l \in S : m = 0 - l
  OBVIOUS
<1>5. \A k \in S : l <= k
  <2>1. ASSUME NEW k \in S PROVE l <= k
    <3>1. 0 - k <= 0 - l
      BY <1>3, <1>4
    <3> QED
      BY <3>1
  <2> QED
    BY <2>1
<1>6. Min(S) \in S /\ \A k \in S : Min(S) <= k
  BY <1>5 DEF Min
<1> QED
  BY <1>6

\* What is ordered strictly and totally can be put in that order.
Ordered(R) ==
  /\ \A x \in R : ~Outranks(x, x)
  /\ \A x, y \in R : x # y => Outranks(x, y) \/ Outranks(y, x)
  /\ \A x, y, z \in R : Outranks(x, y) /\ Outranks(y, z) => Outranks(x, z)

LEMMA RankingExists ==
  ASSUME NEW R, IsFiniteSet(R), Ordered(R)
  PROVE  \E ranking \in [1..Cardinality(R) -> R] :
           \A i, j \in DOMAIN ranking : i < j => Outranks(ranking[i], ranking[j])
<1> DEFINE n == Cardinality(R)
           over == [y \in R |-> {x \in R : Outranks(x, y)}]
           place == [y \in R |-> Cardinality(over[y]) + 1]
<1>0. n \in Nat /\ \A x \in R : IsFiniteSet(over[x]) /\ Cardinality(over[x]) \in Nat
  BY FS_CardinalityType, FS_Subset
<1>1. ASSUME NEW x \in R, NEW y \in R, Outranks(x, y)
      PROVE  place[x] < place[y]
  <2>1. over[x] \subseteq over[y] /\ x \in over[y] /\ x \notin over[x]
    BY <1>1 DEF Ordered
  <2>2. Cardinality(over[x]) < Cardinality(over[y])
    <3>1. IsFiniteSet(over[y]) /\ over[x] \in SUBSET over[y] /\ over[x] # over[y]
      BY <1>0, <2>1
    <3>2. Cardinality(over[x]) \in Nat /\ Cardinality(over[y]) \in Nat
      BY <1>0
    <3> HIDE DEF over
    <3>3. Cardinality(over[x]) <= Cardinality(over[y]) /\ Cardinality(over[x]) # Cardinality(over[y])
      BY <3>1, FS_Subset
    <3> QED
      BY <3>2, <3>3
  <2>3. place[x] = Cardinality(over[x]) + 1 /\ place[y] = Cardinality(over[y]) + 1
    OBVIOUS
  <2> HIDE DEF over, place
  <2> QED
    BY <1>0, <2>2, <2>3
<1>2. \A x \in R : place[x] \in 1..n
  <2>1. ASSUME NEW x \in R PROVE place[x] \in 1..n
    <3>1. over[x] \subseteq R /\ x \notin over[x]
      BY DEF Ordered
    <3>2. Cardinality(over[x]) < n
      <4>1. over[x] \in SUBSET R /\ over[x] # R
        BY <3>1
      <4>2. Cardinality(over[x]) \in Nat /\ n \in Nat
        BY <1>0
      <4> HIDE DEF over
      <4>3. Cardinality(over[x]) <= n /\ Cardinality(over[x]) # n
        BY <4>1, FS_Subset
      <4> QED
        BY <4>2, <4>3
    <3> QED
      BY <1>0, <3>2
  <2> QED
    BY <2>1
<1>3. \A x, y \in R : x # y => place[x] # place[y]
  <2>1. ASSUME NEW x \in R, NEW y \in R, x # y PROVE place[x] # place[y]
    <3>1. place[x] \in Int /\ place[y] \in Int
      BY <1>0
    <3>2. place[x] < place[y] \/ place[y] < place[x]
      <4> HIDE DEF place
      <4> QED
        BY <1>1, <2>1 DEF Ordered
    <3> QED
      BY <3>1, <3>2
  <2> QED
    BY <2>1
<1>4. \A i \in 1..n : \E x \in R : place[x] = i
  <2>1. ASSUME NEW i \in 1..n, \A x \in R : place[x] # i PROVE FALSE
    <3> DEFINE T == (1..n) \ {i}
    <3>1. IsFiniteSet(1..n) /\ Cardinality(1..n) = n
      BY <1>0, FS_Interval
    <3>2. IsFiniteSet(T) /\ Cardinality(T) = n - 1
      BY <3>1, FS_RemoveElement
    <3>3. place \in [R -> T]
      BY <1>2, <2>1
    <3>4. \E x, y \in R : x # y /\ place[x] = place[y]
      <4> HIDE DEF place, T
      <4> QED
        BY <1>0, <3>2, <3>3, FS_PigeonHole
    <3> QED
      BY <1>3, <3>4
  <2> QED
    BY <2>1
<1> DEFINE ranking == [i \in 1..n |-> CHOOSE x \in R : place[x] = i]
<1>5. \A i \in 1..n : ranking[i] \in R /\ place[ranking[i]] = i
  <2> HIDE DEF place
  <2> QED
    BY <1>4
<1>6. ASSUME NEW i \in 1..n, NEW j \in 1..n, i < j
      PROVE  Outranks(ranking[i], ranking[j])
  <2> HIDE DEF ranking, place
  <2>1. ranking[i] \in R /\ ranking[j] \in R /\ place[ranking[i]] < place[ranking[j]]
    BY <1>5, <1>6
  <2>2. ranking[i] # ranking[j] /\ ~Outranks(ranking[j], ranking[i])
    BY <1>1, <1>2, <2>1
  <2> QED
    BY <2>1, <2>2 DEF Ordered
<1>7. ranking \in [1..n -> R]
  BY <1>4
<1> QED
  BY <1>6, <1>7

-----------------------------------------------------------------------------
\* The arithmetic of the scores.  A fraction is a number of units up to Unit.
Fraction(x) == x \in Int /\ 0 <= x /\ x <= 10000

LEMMA ClampFraction ==
  ASSUME NEW x \in Int
  PROVE  /\ Fraction(Clamp(x))
         /\ Fraction(x) => Clamp(x) = x
<1>1. Fraction(Clamp(x))
  BY DEF Fraction, Clamp, Unit
<1>2. Fraction(x) => Clamp(x) = x
  BY DEF Fraction, Clamp, Unit
<1> QED
  BY <1>1, <1>2

LEMMA ClampMonotone ==
  ASSUME NEW x \in Int, NEW y \in Int, x <= y
  PROVE  Clamp(x) <= Clamp(y)
  BY DEF Clamp, Unit

LEMMA PctOne ==
  ASSUME NEW x, Fraction(x), NEW p \in Nat, p <= 100
  PROVE  Fraction(Pct(p, x))
<1>1. x \in Int /\ 0 <= x /\ x <= 10000
  BY DEF Fraction
<1>2. 0 <= p * x /\ p * x <= 1000000
  BY <1>1
<1> DEFINE y == p * x
<1>3. y \in Int /\ 0 <= y /\ y <= 1000000
  BY <1>1, <1>2
<1> HIDE DEF y
<1>4. y \div 100 \in Int /\ 0 <= y \div 100 /\ y \div 100 <= 10000
  BY <1>3
<1> QED
  BY <1>4 DEF Fraction, Pct, y

\* The measures of a cluster.
Measured(c) ==
  /\ c.size \in Int /\ c.size >= 1
  /\ Fraction(c.share) /\ Fraction(c.weight) /\ Fraction(c.confidence)
  /\ Fraction(c.entropy) /\ Fraction(c.spread)

\* The terms of Score.
Quality(c) == (4 * c.confidence + Completeness(c) + Likelihood(c)) \div 8
Bonus(c) == Pct(5, Clamp(Pct(45, c.share) + Pct(30, c.weight) + Pct(25, Unit)))
            + Pct(5, Pct(40, c.confidence) + Pct(30, Completeness(c)))
            + Pct(5, Pct(55, c.confidence))
Charges(c) == If(c.size = 1, Pct(3, Unit)) + (Pct(8, Pct(40, Unit)) + Pct(4, Pct(35, Unit)))
Quarrel(c, d) == Pct(8, Clamp(Pct(55, d) + Pct(25, c.spread)))
Frailty(c) == Pct(7, Clamp(If(c.size = 1, Pct(35, Unit)) + If(c.share < 1800, Pct(25, Unit))
                           + Pct(20, c.entropy) + Pct(20, Unit - Quality(c))))
Raw(c, d) == Composite(c) + Bonus(c) - Charges(c) - Quarrel(c, d) - Frailty(c)

LEMMA CompositeBounds ==
  ASSUME NEW c, Measured(c)
  PROVE  /\ Fraction(Composite(c))
         /\ 100 * Composite(c) <= 52 * c.share + 33 * c.weight + 15 * c.confidence
         /\ 52 * c.share + 33 * c.weight + 15 * c.confidence < 100 * Composite(c) + 300
<1> DEFINE s == c.share
           w == c.weight
           k == c.confidence
           x == Pct(52, s)
           y == Pct(33, w)
           z == Pct(15, k)
<1>1. /\ s \in Int /\ 0 <= s /\ s <= 10000
      /\ w \in Int /\ 0 <= w /\ w <= 10000
      /\ k \in Int /\ 0 <= k /\ k <= 10000
  BY DEF Measured, Fraction
<1>2. Composite(c) = Clamp(x + y + z)
  BY DEF Composite
<1> HIDE DEF s, w, k
<1>3. x \in Int /\ 100 * x <= 52 * s /\ 52 * s < 100 * x + 100
  BY <1>1 DEF Pct
<1>4. y \in Int /\ 100 * y <= 33 * w /\ 33 * w < 100 * y + 100
  BY <1>1 DEF Pct
<1>5. z \in Int /\ 100 * z <= 15 * k /\ 15 * k < 100 * z + 100
  BY <1>1 DEF Pct
<1> HIDE DEF x, y, z
<1>6. Fraction(x + y + z)
  BY <1>1, <1>3, <1>4, <1>5 DEF Fraction
<1>7. Composite(c) = x + y + z
  BY <1>2, <1>3, <1>4, <1>5, <1>6, ClampFraction
<1>8. /\ 100 * Composite(c) <= 52 * s + 33 * w + 15 * k
      /\ 52 * s + 33 * w + 15 * k < 100 * Composite(c) + 300
  BY <1>1, <1>3, <1>4, <1>5, <1>7
<1> QED
  BY <1>6, <1>7, <1>8 DEF s, w, k

LEMMA CompletenessBounds ==
  ASSUME NEW c, Measured(c)
  PROVE  /\ Fraction(Completeness(c))
         /\ 100 * Completeness(c) <= 55 * c.confidence + 45 * c.share
         /\ 55 * c.confidence + 45 * c.share < 100 * Completeness(c) + 200
<1> DEFINE s == c.share
           k == c.confidence
           x == Pct(55, k)
           y == Pct(45, s)
<1>1. /\ s \in Int /\ 0 <= s /\ s <= 10000
      /\ k \in Int /\ 0 <= k /\ k <= 10000
  BY DEF Measured, Fraction
<1>2. Completeness(c) = x + y
  BY DEF Completeness
<1> HIDE DEF s, k
<1>3. x \in Int /\ 100 * x <= 55 * k /\ 55 * k < 100 * x + 100
  BY <1>1 DEF Pct
<1>4. y \in Int /\ 100 * y <= 45 * s /\ 45 * s < 100 * y + 100
  BY <1>1 DEF Pct
<1> HIDE DEF x, y
<1>5. /\ Fraction(x + y)
      /\ 100 * (x + y) <= 55 * k + 45 * s
      /\ 55 * k + 45 * s < 100 * (x + y) + 200
  BY <1>1, <1>3, <1>4 DEF Fraction
<1> QED
  BY <1>2, <1>5 DEF s, k

LEMMA LikelihoodBounds ==
  ASSUME NEW c, Measured(c)
  PROVE  /\ Fraction(Likelihood(c))
         /\ 2 * Likelihood(c) <= c.weight + c.confidence
         /\ c.weight + c.confidence <= 2 * Likelihood(c) + 1
<1> DEFINE w == c.weight
           k == c.confidence
<1>1. /\ w \in Int /\ 0 <= w /\ w <= 10000
      /\ k \in Int /\ 0 <= k /\ k <= 10000
  BY DEF Measured, Fraction
<1>2. Likelihood(c) = (w + k) \div 2
  BY DEF Likelihood
<1> HIDE DEF w, k
<1>3. /\ Fraction((w + k) \div 2)
      /\ 2 * ((w + k) \div 2) <= w + k
      /\ w + k <= 2 * ((w + k) \div 2) + 1
  BY <1>1 DEF Fraction
<1> QED
  BY <1>2, <1>3 DEF w, k

\* In units of 1/1600: quality is 1010 parts confidence, 90 share, 100 weight.
LEMMA QualityBounds ==
  ASSUME NEW c, Measured(c)
  PROVE  /\ Fraction(Quality(c))
         /\ 1600 * Quality(c) <= 1010 * c.confidence + 90 * c.share + 100 * c.weight
         /\ 1010 * c.confidence + 90 * c.share + 100 * c.weight < 1600 * Quality(c) + 2200
<1> DEFINE s == c.share
           w == c.weight
           k == c.confidence
           x == Completeness(c)
           y == Likelihood(c)
           q == (4 * k + x + y) \div 8
<1>1. /\ s \in Int /\ 0 <= s /\ s <= 10000
      /\ w \in Int /\ 0 <= w /\ w <= 10000
      /\ k \in Int /\ 0 <= k /\ k <= 10000
  BY DEF Measured, Fraction
<1>2. Quality(c) = q
  BY DEF Quality
<1>3. x \in Int /\ 0 <= x /\ x <= 10000 /\ 100 * x <= 55 * k + 45 * s /\ 55 * k + 45 * s < 100 * x + 200
  BY CompletenessBounds DEF Fraction
<1>4. y \in Int /\ 0 <= y /\ y <= 10000 /\ 2 * y <= w + k /\ w + k <= 2 * y + 1
  BY LikelihoodBounds DEF Fraction
<1> HIDE DEF s, w, k, x, y
<1>5. q \in Int /\ 8 * q <= 4 * k + x + y /\ 4 * k + x + y < 8 * q + 8
  BY <1>1, <1>3, <1>4
<1> HIDE DEF q
<1>6. Fraction(q)
  BY <1>1, <1>3, <1>4, <1>5 DEF Fraction
<1>7. /\ 1600 * q <= 1010 * k + 90 * s + 100 * w
      /\ 1010 * k + 90 * s + 100 * w < 1600 * q + 2200
  BY <1>1, <1>3, <1>4, <1>5
<1> QED
  BY <1>2, <1>6, <1>7 DEF s, w, k

LEMMA BonusBounds ==
  ASSUME NEW c, Measured(c)
  PROVE  /\ Bonus(c) \in Int
         /\ 1000000 * Bonus(c) <= 29250 * c.share + 15000 * c.weight + 55750 * c.confidence + 125000000
         /\ 29250 * c.share + 15000 * c.weight + 55750 * c.confidence + 125000000
              < 1000000 * Bonus(c) + 3280000
<1> DEFINE s == c.share
           w == c.weight
           k == c.confidence
           l == Completeness(c)
           u == Pct(45, s)
           v == Pct(30, w)
           x == Pct(40, k)
           y == Pct(30, l)
           z == Pct(55, k)
           f == Pct(5, u + v + 2500)
           g == Pct(5, x + y)
           h == Pct(5, z)
<1>1. /\ s \in Int /\ 0 <= s /\ s <= 10000
      /\ w \in Int /\ 0 <= w /\ w <= 10000
      /\ k \in Int /\ 0 <= k /\ k <= 10000
  BY DEF Measured, Fraction
<1>2. l \in Int /\ 100 * l <= 55 * k + 45 * s /\ 55 * k + 45 * s < 100 * l + 200
  BY CompletenessBounds DEF Fraction
<1>3. Bonus(c) = Pct(5, Clamp(u + v + Pct(25, Unit))) + g + h
  BY DEF Bonus
<1>4. Pct(25, Unit) = 2500
  BY DEF Pct, Unit
<1> HIDE DEF s, w, k, l
<1>5. u \in Int /\ 100 * u <= 45 * s /\ 45 * s < 100 * u + 100
  BY <1>1 DEF Pct
<1>6. v \in Int /\ 100 * v <= 30 * w /\ 30 * w < 100 * v + 100
  BY <1>1 DEF Pct
<1>7. x \in Int /\ 100 * x <= 40 * k /\ 40 * k < 100 * x + 100
  BY <1>1 DEF Pct
<1>8. y \in Int /\ 100 * y <= 30 * l /\ 30 * l < 100 * y + 100
  BY <1>2 DEF Pct
<1>9. z \in Int /\ 100 * z <= 55 * k /\ 55 * k < 100 * z + 100
  BY <1>1 DEF Pct
<1> HIDE DEF u, v, x, y, z
<1>10. u + v + 2500 \in Int /\ Fraction(u + v + 2500)
  BY <1>1, <1>5, <1>6 DEF Fraction
<1>11. Bonus(c) = f + g + h
  BY <1>3, <1>4, <1>10, ClampFraction
<1>12. f \in Int /\ 100 * f <= 5 * (u + v + 2500) /\ 5 * (u + v + 2500) < 100 * f + 100
  BY <1>10 DEF Pct
<1>13. g \in Int /\ 100 * g <= 5 * (x + y) /\ 5 * (x + y) < 100 * g + 100
  <2>1. x + y \in Int
    BY <1>7, <1>8
  <2> QED
    BY <2>1 DEF Pct
<1>14. h \in Int /\ 100 * h <= 5 * z /\ 5 * z < 100 * h + 100
  BY <1>9 DEF Pct
<1> HIDE DEF f, g, h
<1>15. /\ f + g + h \in Int
       /\ 1000000 * (f + g + h) <= 29250 * s + 15000 * w + 55750 * k + 125000000
       /\ 29250 * s + 15000 * w + 55750 * k + 125000000 < 1000000 * (f + g + h) + 3280000
  BY <1>1, <1>2, <1>5, <1>6, <1>7, <1>8, <1>9, <1>12, <1>13, <1>14
<1> QED
  BY <1>11, <1>15 DEF s, w, k

LEMMA QuarrelBounds ==
  ASSUME NEW c, Measured(c), NEW d, Fraction(d)
  PROVE  /\ Quarrel(c, d) \in Int
         /\ 10000 * Quarrel(c, d) <= 440 * d + 200 * c.spread
         /\ 440 * d + 200 * c.spread < 10000 * Quarrel(c, d) + 11600
<1> DEFINE r == c.spread
           x == Pct(55, d)
           y == Pct(25, r)
           q == Pct(8, x + y)
<1>1. /\ r \in Int /\ 0 <= r /\ r <= 10000
      /\ d \in Int /\ 0 <= d /\ d <= 10000
  BY DEF Measured, Fraction
<1>2. Quarrel(c, d) = Pct(8, Clamp(x + y))
  BY DEF Quarrel
<1> HIDE DEF r
<1>3. x \in Int /\ 100 * x <= 55 * d /\ 55 * d < 100 * x + 100
  BY <1>1 DEF Pct
<1>4. y \in Int /\ 100 * y <= 25 * r /\ 25 * r < 100 * y + 100
  BY <1>1 DEF Pct
<1> HIDE DEF x, y
<1>5. x + y \in Int /\ Fraction(x + y)
  BY <1>1, <1>3, <1>4 DEF Fraction
<1>6. Quarrel(c, d) = q
  BY <1>2, <1>5, ClampFraction
<1>7. q \in Int /\ 100 * q <= 8 * (x + y) /\ 8 * (x + y) < 100 * q + 100
  BY <1>5 DEF Pct
<1> HIDE DEF q
<1>8. 10000 * q <= 440 * d + 200 * r /\ 440 * d + 200 * r < 10000 * q + 11600
  BY <1>1, <1>3, <1>4, <1>7
<1> QED
  BY <1>6, <1>7, <1>8 DEF r

\* A lone attempt, and a small share, cost as much.
Lone(c) == If(c.size = 1, 1)
Small(c) == If(c.share < 1800, 1)

LEMMA Flags ==
  ASSUME NEW c
  PROVE  /\ Lone(c) \in Int /\ 0 <= Lone(c) /\ Lone(c) <= 1
         /\ Small(c) \in Int /\ 0 <= Small(c) /\ Small(c) <= 1
         /\ If(c.size = 1, Pct(35, Unit)) = 3500 * Lone(c)
         /\ If(c.size = 1, Pct(3, Unit)) = 300 * Lone(c)
         /\ If(c.share < 1800, Pct(25, Unit)) = 2500 * Small(c)
<1>1. Pct(35, Unit) = 3500 /\ Pct(3, Unit) = 300 /\ Pct(25, Unit) = 2500
  BY DEF Pct, Unit
<1> QED
  BY <1>1 DEF Lone, Small, If

LEMMA FrailtyBounds ==
  ASSUME NEW c, Measured(c)
  PROVE  /\ Frailty(c) \in Int
         /\ 10000 * Frailty(c) <= 2450000 * Lone(c) + 1750000 * Small(c) + 140 * c.entropy
                                  + 140 * (10000 - Quality(c))
         /\ 2450000 * Lone(c) + 1750000 * Small(c) + 140 * c.entropy + 140 * (10000 - Quality(c))
              < 10000 * Frailty(c) + 11400
<1> DEFINE e == c.entropy
           m == Quality(c)
           i == Lone(c)
           j == Small(c)
           x == Pct(20, e)
           y == Pct(20, 10000 - m)
           a == 3500 * i + 2500 * j + x + y
           q == Pct(7, a)
<1>1. /\ e \in Int /\ 0 <= e /\ e <= 10000
      /\ m \in Int /\ 0 <= m /\ m <= 10000
  BY QualityBounds DEF Measured, Fraction
<1>2. /\ i \in Int /\ 0 <= i /\ i <= 1
      /\ j \in Int /\ 0 <= j /\ j <= 1
  BY Flags
<1>3. Frailty(c) = Pct(7, Clamp(a))
  BY Flags DEF Frailty, Unit
<1> HIDE DEF e, m, i, j
<1>4. x \in Int /\ 100 * x <= 20 * e /\ 20 * e < 100 * x + 100
  BY <1>1 DEF Pct
<1>5. y \in Int /\ 100 * y <= 20 * (10000 - m) /\ 20 * (10000 - m) < 100 * y + 100
  <2>1. 10000 - m \in Int
    BY <1>1
  <2> QED
    BY <2>1 DEF Pct
<1> HIDE DEF x, y
<1>6. a \in Int /\ Fraction(a)
  BY <1>1, <1>2, <1>4, <1>5 DEF Fraction
<1> HIDE DEF a
<1>7. Frailty(c) = q
  BY <1>3, <1>6, ClampFraction
<1>8. q \in Int /\ 100 * q <= 7 * a /\ 7 * a < 100 * q + 100
  BY <1>6 DEF Pct
<1> HIDE DEF q
<1>9. /\ 10000 * q <= 2450000 * i + 1750000 * j + 140 * e + 140 * (10000 - m)
      /\ 2450000 * i + 1750000 * j + 140 * e + 140 * (10000 - m) < 10000 * q + 11400
  BY <1>1, <1>2, <1>4, <1>5, <1>8 DEF a
<1> QED
  BY <1>7, <1>8, <1>9 DEF e, m, i, j

\* The score before it is clamped, without roundings, in units of 1/8000000.
Linear(c, d) ==
  4400300 * c.share + 2767000 * c.weight + 1716700 * c.confidence
  - 352000 * d - 160000 * c.spread - 112000 * c.entropy
  - 4360000000 * Lone(c) - 1400000000 * Small(c) - 3800000000

\* The score is linear up to ten roundings.
LEMMA ScoreLinear ==
  ASSUME NEW c, Measured(c), NEW d, Fraction(d)
  PROVE  /\ Raw(c, d) \in Int
         /\ Score(c, d) = Clamp(Raw(c, d))
         /\ Linear(c, d) \in Int
         /\ 8000000 * Raw(c, d) <= Linear(c, d) + 24000000
         /\ Linear(c, d) <= 8000000 * Raw(c, d) + 56000000
<1> DEFINE s == c.share
           w == c.weight
           k == c.confidence
           e == c.entropy
           r == c.spread
           i == Lone(c)
           j == Small(c)
           m == Quality(c)
           A == Composite(c)
           B == Bonus(c)
           C == Charges(c)
           D == Quarrel(c, d)
           F == Frailty(c)
<1>1. /\ s \in Int /\ 0 <= s /\ s <= 10000
      /\ w \in Int /\ 0 <= w /\ w <= 10000
      /\ k \in Int /\ 0 <= k /\ k <= 10000
      /\ e \in Int /\ 0 <= e /\ e <= 10000
      /\ r \in Int /\ 0 <= r /\ r <= 10000
      /\ d \in Int /\ 0 <= d /\ d <= 10000
  BY DEF Measured, Fraction
<1>2. i \in Int /\ j \in Int
  BY Flags
<1>3. /\ A \in Int /\ 100 * A <= 52 * s + 33 * w + 15 * k
      /\ 52 * s + 33 * w + 15 * k < 100 * A + 300
  BY CompositeBounds DEF Fraction
<1>4. /\ B \in Int /\ 1000000 * B <= 29250 * s + 15000 * w + 55750 * k + 125000000
      /\ 29250 * s + 15000 * w + 55750 * k + 125000000 < 1000000 * B + 3280000
  BY BonusBounds
<1>5. C = 300 * i + 460
  <2>1. Pct(8, Pct(40, Unit)) + Pct(4, Pct(35, Unit)) = 460
    BY DEF Pct, Unit
  <2> QED
    BY <2>1, Flags DEF Charges
<1>6. /\ D \in Int /\ 10000 * D <= 440 * d + 200 * r
      /\ 440 * d + 200 * r < 10000 * D + 11600
  BY QuarrelBounds
<1>7. /\ F \in Int
      /\ 10000 * F <= 2450000 * i + 1750000 * j + 140 * e + 140 * (10000 - m)
      /\ 2450000 * i + 1750000 * j + 140 * e + 140 * (10000 - m) < 10000 * F + 11400
  BY FrailtyBounds
<1>8. /\ m \in Int /\ 1600 * m <= 1010 * k + 90 * s + 100 * w
      /\ 1010 * k + 90 * s + 100 * w < 1600 * m + 2200
  BY QualityBounds DEF Fraction
<1>9. Raw(c, d) = A + B - C - D - F
  BY DEF Raw
<1>10. Score(c, d) = Clamp(Raw(c, d))
  <2>1. Score(c, d) = Clamp(A + B - If(c.size = 1, Pct(3, Unit))
                              - (Pct(8, Pct(40, Unit)) + Pct(4, Pct(35, Unit))) - D - F)
    BY DEF Score, Bonus, Quarrel, Frailty, Quality
  <2>2. C = If(c.size = 1, Pct(3, Unit)) + (Pct(8, Pct(40, Unit)) + Pct(4, Pct(35, Unit)))
    BY DEF Charges
  <2>3. /\ If(c.size = 1, Pct(3, Unit)) \in Int
        /\ Pct(8, Pct(40, Unit)) + Pct(4, Pct(35, Unit)) \in Int
    <3>1. Pct(8, Pct(40, Unit)) + Pct(4, Pct(35, Unit)) \in Int
      BY DEF Pct, Unit
    <3> QED
      BY <1>2, <3>1, Flags
  <2> DEFINE t == If(c.size = 1, Pct(3, Unit))
             b == Pct(8, Pct(40, Unit)) + Pct(4, Pct(35, Unit))
  <2> HIDE DEF t, b, A, B, D, F
  <2>4. A + B - t - b - D - F = A + B - (t + b) - D - F
    BY <1>3, <1>4, <1>6, <1>7, <2>3 DEF t, b
  <2> QED
    BY <1>9, <2>1, <2>2, <2>4 DEF t, b
<1> DEFINE L == 4400300 * s + 2767000 * w + 1716700 * k - 352000 * d - 160000 * r - 112000 * e
                - 4360000000 * i - 1400000000 * j - 3800000000
           R == A + B - C - D - F
<1>11. Linear(c, d) = L
  BY DEF Linear
<1> HIDE DEF s, w, k, e, r, i, j, m, A, B, C, D, F
<1>12. R \in Int /\ L \in Int
  BY <1>1, <1>2, <1>3, <1>4, <1>5, <1>6, <1>7
<1>13. 8000000 * R <= L + 24000000
  BY <1>1, <1>2, <1>3, <1>4, <1>5, <1>6, <1>7, <1>8
<1>14. L <= 8000000 * R + 56000000
  BY <1>1, <1>2, <1>3, <1>4, <1>5, <1>6, <1>7, <1>8
<1> QED
  BY <1>9, <1>10, <1>11, <1>12, <1>13, <1>14

-----------------------------------------------------------------------------
\* Divisions by what varies.
LEMMA DivBy ==
  ASSUME NEW n \in Int, NEW d \in Nat, d > 0
  PROVE  n \div d \in Int /\ d * (n \div d) <= n /\ n < d * (n \div d) + d
  OBVIOUS

\* A quotient is at least what times the divisor is at most the dividend.
LEMMA DivAtLeast ==
  ASSUME NEW n \in Int, NEW d \in Nat, d > 0, NEW q \in Int, d * q <= n
  PROVE  q <= n \div d
<1> DEFINE p == n \div d
<1>1. p \in Int /\ n < d * p + d
  BY DivBy
<1> HIDE DEF p
<1>2. SUFFICES ASSUME p < q PROVE FALSE
  BY <1>1 DEF p
<1>3. p + 1 <= q
  BY <1>1, <1>2
<1>4. d * (p + 1) <= d * q
  BY <1>1, <1>3
<1>5. d * (p + 1) = d * p + d
  BY <1>1
<1>6. d * q \in Int /\ d * p \in Int
  BY <1>1
<1> QED
  BY <1>1, <1>4, <1>5, <1>6

LEMMA DivFraction ==
  ASSUME NEW n \in Nat, NEW d \in Nat, d > 0, n <= 10000 * d
  PROVE  Fraction(n \div d)
<1> DEFINE p == n \div d
<1>1. p \in Int /\ d * p <= n /\ n < d * p + d
  BY DivBy
<1>2. 0 <= p
  <2>1. d * 0 <= n
    OBVIOUS
  <2> QED
    BY <2>1, DivAtLeast
<1> HIDE DEF p
<1>3. p <= 10000
  <2>1. SUFFICES ASSUME 10001 <= p PROVE FALSE
    BY <1>1
  <2>2. d * 10001 <= d * p
    BY <1>1, <2>1
  <2>3. d * p \in Int
    BY <1>1
  <2> QED
    BY <1>1, <2>2, <2>3
<1> QED
  BY <1>1, <1>2, <1>3 DEF Fraction, p

-----------------------------------------------------------------------------
\* The attempts: how many of each kind.
Bags == [Kinds -> Nat]
Mine(bag, answer) == {kind \in Present(bag) : kind.answer = answer}

LEMMA KindsFinite == IsFiniteSet(Kinds)
<1> DEFINE f == [p \in Answers \X Entropies |-> [answer |-> p[1], entropy |-> p[2], whole |-> TRUE]]
           g == [p \in Answers \X BOOLEAN |-> [answer |-> p[1], entropy |-> None, whole |-> p[2]]]
           A == {f[p] : p \in Answers \X Entropies}
           B == {g[p] : p \in Answers \X BOOLEAN}
<1>1. IsFiniteSet(A)
  <2>1. IsFiniteSet(Answers \X Entropies)
    BY FS_Product, SelectionAssumption
  <2> HIDE DEF f
  <2> QED
    BY <2>1, FiniteImage
<1>2. IsFiniteSet(B)
  <2>1. IsFiniteSet(BOOLEAN)
    <3>1. BOOLEAN = {TRUE, FALSE}
      OBVIOUS
    <3> QED
      BY <3>1, PairFinite
  <2>2. IsFiniteSet(Answers \X BOOLEAN)
    BY <2>1, FS_Product, SelectionAssumption
  <2> HIDE DEF g
  <2> QED
    BY <2>2, FiniteImage
<1>3. Kinds \subseteq A \cup B
  <2>1. ASSUME NEW kind \in [answer : Answers, entropy : Entropies, whole : {TRUE}]
        PROVE  kind \in A
    <3>1. <<kind.answer, kind.entropy>> \in Answers \X Entropies
      OBVIOUS
    <3>2. f[<<kind.answer, kind.entropy>>] = kind
      OBVIOUS
    <3> HIDE DEF f
    <3> QED
      BY <3>1, <3>2
  <2>2. ASSUME NEW kind \in [answer : Answers, entropy : {None}, whole : BOOLEAN]
        PROVE  kind \in B
    <3>1. <<kind.answer, kind.whole>> \in Answers \X BOOLEAN
      OBVIOUS
    <3>2. g[<<kind.answer, kind.whole>>] = kind
      OBVIOUS
    <3> HIDE DEF g
    <3> QED
      BY <3>1, <3>2
  <2> QED
    BY <2>1, <2>2 DEF Kinds
<1> HIDE DEF A, B
<1>4. IsFiniteSet(A \cup B)
  BY <1>1, <1>2, FS_Union
<1> QED
  BY <1>3, <1>4, FS_Subset

\* What one attempt counts.
LEMMA KindMeasures ==
  ASSUME NEW kind \in Kinds
  PROVE  /\ kind.answer \in Answers
         /\ Fraction(Confidence(kind)) /\ Fraction(Uncertainty(kind))
         /\ Weight(kind) \in Nat /\ Weight(kind) >= 1
<1>1. kind.answer \in Answers /\ (kind.entropy = None \/ kind.entropy \in Entropies)
  BY DEF Kinds
<1>2. CASE Silent(kind)
  <2>1. Confidence(kind) = 0 \/ Confidence(kind) = 5000
    BY <1>2 DEF Confidence, Unit
  <2>2. Uncertainty(kind) = 10000 - Confidence(kind) /\ Weight(kind) = 1000
    BY <1>2 DEF Uncertainty, Weight, Unit
  <2> QED
    BY <1>1, <2>1, <2>2 DEF Fraction
<1>3. CASE ~Silent(kind)
  <2> DEFINE e == kind.entropy
             m == Max({e, Epsilon})
  <2>1. e \in Nat /\ e <= 10000000
    <3>0. e \in Entropies
      BY <1>1, <1>3 DEF Silent
    <3>1. e \in 0..(1000 * Unit)
      BY <3>0, SelectionAssumption
    <3>2. Unit \in Int
      BY DEF Unit
    <3> HIDE DEF e
    <3>3. e \in Int /\ 0 <= e /\ e <= 1000 * Unit
      BY <3>1, <3>2
    <3> QED
      BY <3>3, SMT DEF Unit
  <2>2. Confidence(kind) = 100000000 \div (10000 + e)
    BY <1>3, SMT DEF Confidence, Unit
  <2>3. Uncertainty(kind) = Clamp(e)
    BY <1>3, SMT DEF Uncertainty
  <2>4. Weight(kind) = 10000000 \div m
    BY <1>3, SMT DEF Weight, Unit
  <2> HIDE DEF e
  <2>5. m \in {e, 500}
    <3>1. \E x \in {e, 500} : \A y \in {e, 500} : x >= y
      BY <2>1, SMT
    <3> QED
      BY <3>1, SMT DEF Max, Epsilon
  <2> HIDE DEF m
  <2>6. m \in Nat /\ m > 0 /\ m <= 10000000
    <3>1. m >= 500
      <4>1. Max({e, Epsilon}) \in {e, Epsilon} /\ \A k \in {e, Epsilon} : k <= Max({e, Epsilon})
        <5>1. IsFiniteSet({e, Epsilon})
          BY PairFinite
        <5>2. {e, Epsilon} \subseteq Int /\ {e, Epsilon} # {}
          BY <2>1, SMT DEF Epsilon
        <5> QED
          BY <5>1, <5>2, Largest, SMT
      <4> QED
        BY <4>1, SMT DEF Epsilon, m
    <3> QED
      BY <2>1, <2>5, <3>1, SMT
  <2>7. Fraction(Confidence(kind))
    <3>1. 10000 + e \in Nat /\ 10000 + e > 0 /\ 100000000 <= 10000 * (10000 + e)
      BY <2>1, SMT
    <3>2. Fraction(100000000 \div (10000 + e))
      BY <3>1, DivFraction, SMT
    <3> QED
      BY <2>2, <3>2, SMT
  <2>8. Fraction(Uncertainty(kind))
    BY <2>1, <2>3, ClampFraction, SMT
  <2>9. Weight(kind) \in Nat /\ Weight(kind) >= 1
    <3>1. m * 1 <= 10000000
      BY <2>6, SMT
    <3>2. 1 <= 10000000 \div m
      BY <2>6, <3>1, DivAtLeast, SMT
    <3>3. 10000000 \div m \in Int
      BY <2>6, SMT
    <3> QED
      BY <2>4, <3>2, <3>3, SMT
  <2> QED
    BY <1>1, <2>7, <2>8, <2>9, SMT
<1> QED
  BY <1>2, <1>3, SMT

\* What the attempts of each kind count together.
Weighed(bag) == [kind \in Kinds |-> bag[kind] * Weight(kind)]
Trusted(bag) == [kind \in Kinds |-> bag[kind] * Confidence(kind)]
Unsure(bag) == [kind \in Kinds |-> bag[kind] * Uncertainty(kind)]

LEMMA Products ==
  ASSUME NEW n \in Nat, NEW x, Fraction(x)
  PROVE  n * x \in Nat /\ n * x <= 10000 * n
<1>1. x \in Nat /\ x <= 10000
  BY DEF Fraction
<1>2. n * x \in Nat
  BY <1>1
<1>3. n * x <= n * 10000
  BY <1>1
<1> QED
  BY <1>2, <1>3

LEMMA CountsOfKinds ==
  ASSUME NEW bag \in Bags, NEW kind \in Kinds
  PROVE  /\ bag[kind] \in Nat
         /\ Weighed(bag)[kind] \in Nat /\ bag[kind] <= 1 * Weighed(bag)[kind]
         /\ Trusted(bag)[kind] \in Nat /\ Trusted(bag)[kind] <= 10000 * bag[kind]
         /\ Unsure(bag)[kind] \in Nat /\ Unsure(bag)[kind] <= 10000 * bag[kind]
<1> DEFINE n == bag[kind]
           w == Weight(kind)
<1>1. n \in Nat /\ w \in Nat /\ w >= 1
  BY KindMeasures DEF Bags
<1>2. n * w \in Nat /\ n <= 1 * (n * w)
  <2> HIDE DEF n, w
  <2>1. n * 1 <= n * w
    BY <1>1
  <2> QED
    BY <1>1, <2>1
<1>3. n * Confidence(kind) \in Nat /\ n * Confidence(kind) <= 10000 * n
  BY <1>1, KindMeasures, Products
<1>4. n * Uncertainty(kind) \in Nat /\ n * Uncertainty(kind) <= 10000 * n
  BY <1>1, KindMeasures, Products
<1>5. /\ Weighed(bag)[kind] = n * w
      /\ Trusted(bag)[kind] = n * Confidence(kind)
      /\ Unsure(bag)[kind] = n * Uncertainty(kind)
  BY DEF Weighed, Trusted, Unsure
<1> QED
  BY <1>1, <1>2, <1>3, <1>4, <1>5

\* Totals are sums of these.
LEMMA TotalsAreSums ==
  ASSUME NEW bag \in Bags, NEW S \in SUBSET Kinds
  PROVE  /\ IsFiniteSet(S)
         /\ Size(bag, S) = SumFunctionOnSet(bag, S)
         /\ Total(bag, S, Weight) = SumFunctionOnSet(Weighed(bag), S)
         /\ Total(bag, S, Confidence) = SumFunctionOnSet(Trusted(bag), S)
         /\ Total(bag, S, Uncertainty) = SumFunctionOnSet(Unsure(bag), S)
<1>1. IsFiniteSet(S)
  BY KindsFinite, FS_Subset
<1>2. Total(bag, S, Weight) = SumFunctionOnSet(Weighed(bag), S)
  <2> DEFINE g == [kind \in S |-> bag[kind] * Weight(kind)]
             f == Weighed(bag)
  <2>1. Total(bag, S, Weight) = SumFunctionOnSet(g, S)
    BY DEF Total, SumFunction
  <2>2. \A x \in S : f[x] \in Nat
    BY CountsOfKinds
  <2>3. \A x \in S : g[x] = f[x]
    BY DEF Weighed
  <2> HIDE DEF f, g
  <2>4. SumFunctionOnSet(g, S) = SumFunctionOnSet(f, S)
    BY <1>1, <2>2, <2>3, SumSame
  <2> QED
    BY <2>1, <2>4 DEF f
<1>3. Total(bag, S, Confidence) = SumFunctionOnSet(Trusted(bag), S)
  <2> DEFINE g == [kind \in S |-> bag[kind] * Confidence(kind)]
             f == Trusted(bag)
  <2>1. Total(bag, S, Confidence) = SumFunctionOnSet(g, S)
    BY DEF Total, SumFunction
  <2>2. \A x \in S : f[x] \in Nat
    BY CountsOfKinds
  <2>3. \A x \in S : g[x] = f[x]
    BY DEF Trusted
  <2> HIDE DEF f, g
  <2>4. SumFunctionOnSet(g, S) = SumFunctionOnSet(f, S)
    BY <1>1, <2>2, <2>3, SumSame
  <2> QED
    BY <2>1, <2>4 DEF f
<1>4. Total(bag, S, Uncertainty) = SumFunctionOnSet(Unsure(bag), S)
  <2> DEFINE g == [kind \in S |-> bag[kind] * Uncertainty(kind)]
             f == Unsure(bag)
  <2>1. Total(bag, S, Uncertainty) = SumFunctionOnSet(g, S)
    BY DEF Total, SumFunction
  <2>2. \A x \in S : f[x] \in Nat
    BY CountsOfKinds
  <2>3. \A x \in S : g[x] = f[x]
    BY DEF Unsure
  <2> HIDE DEF f, g
  <2>4. SumFunctionOnSet(g, S) = SumFunctionOnSet(f, S)
    BY <1>1, <2>2, <2>3, SumSame
  <2> QED
    BY <2>1, <2>4 DEF f
<1> QED
  BY <1>1, <1>2, <1>3, <1>4 DEF Size

\* Each attempt weighs something, and no attempt is surer than sure.
LEMMA TotalsBounded ==
  ASSUME NEW bag \in Bags, NEW S \in SUBSET Kinds
  PROVE  /\ Size(bag, S) \in Nat
         /\ Total(bag, S, Weight) \in Nat /\ Size(bag, S) <= Total(bag, S, Weight)
         /\ Total(bag, S, Confidence) \in Nat /\ Total(bag, S, Confidence) <= 10000 * Size(bag, S)
         /\ Total(bag, S, Uncertainty) \in Nat /\ Total(bag, S, Uncertainty) <= 10000 * Size(bag, S)
<1> DEFINE w == Weighed(bag)
           t == Trusted(bag)
           u == Unsure(bag)
<1>1. IsFiniteSet(S)
  BY TotalsAreSums
<1>2. \A x \in S : /\ bag[x] \in Nat /\ w[x] \in Nat /\ t[x] \in Nat /\ u[x] \in Nat
                   /\ bag[x] <= 1 * w[x] /\ t[x] <= 10000 * bag[x] /\ u[x] <= 10000 * bag[x]
  BY CountsOfKinds
<1> HIDE DEF w, t, u
<1>3. /\ SumFunctionOnSet(bag, S) \in Nat /\ SumFunctionOnSet(w, S) \in Nat
      /\ SumFunctionOnSet(t, S) \in Nat /\ SumFunctionOnSet(u, S) \in Nat
  BY <1>1, <1>2, SumNat
<1>4. SumFunctionOnSet(bag, S) <= 1 * SumFunctionOnSet(w, S)
  <2>1. \A x \in S : bag[x] \in Int /\ w[x] \in Int /\ 0 <= bag[x] /\ bag[x] <= 1 * w[x]
    BY <1>2
  <2> QED
    BY <1>1, <2>1, SumBound, 1 \in Nat
<1>5. ASSUME NEW f, \A x \in S : f[x] \in Nat /\ bag[x] \in Nat /\ f[x] <= 10000 * bag[x]
      PROVE  SumFunctionOnSet(f, S) <= 10000 * SumFunctionOnSet(bag, S)
  <2> DEFINE c == 10000
  <2>1. c \in Nat /\ c = 10000
    OBVIOUS
  <2>2. \A x \in S : f[x] \in Int /\ bag[x] \in Int /\ 0 <= f[x] /\ f[x] <= c * bag[x]
    BY <1>5
  <2> HIDE DEF c
  <2>3. SumFunctionOnSet(f, S) <= c * SumFunctionOnSet(bag, S)
    BY <1>1, <2>1, <2>2, SumBound
  <2> QED
    BY <2>1, <2>3
<1>6. /\ SumFunctionOnSet(t, S) <= 10000 * SumFunctionOnSet(bag, S)
      /\ SumFunctionOnSet(u, S) <= 10000 * SumFunctionOnSet(bag, S)
  BY <1>2, <1>5
<1>7. /\ Size(bag, S) = SumFunctionOnSet(bag, S)
      /\ Total(bag, S, Weight) = SumFunctionOnSet(w, S)
      /\ Total(bag, S, Confidence) = SumFunctionOnSet(t, S)
      /\ Total(bag, S, Uncertainty) = SumFunctionOnSet(u, S)
  BY TotalsAreSums DEF w, t, u
<1>8. SumFunctionOnSet(bag, S) <= SumFunctionOnSet(w, S)
  BY <1>3, <1>4
<1> QED
  BY <1>3, <1>5, <1>6, <1>7, <1>8

\* The more kinds, the more.
LEMMA TotalsGrow ==
  ASSUME NEW bag \in Bags, NEW S \in SUBSET Kinds, NEW T \in SUBSET S
  PROVE  Size(bag, T) <= Size(bag, S) /\ Total(bag, T, Weight) <= Total(bag, S, Weight)
<1>1. T \in SUBSET Kinds /\ IsFiniteSet(S)
  BY TotalsAreSums
<1>2. \A x \in S : bag[x] \in Nat /\ Weighed(bag)[x] \in Nat
  BY CountsOfKinds
<1>3. SumFunctionOnSet(bag, T) <= SumFunctionOnSet(bag, S)
  BY <1>1, <1>2, SumSub
<1>4. SumFunctionOnSet(Weighed(bag), T) <= SumFunctionOnSet(Weighed(bag), S)
  BY <1>1, <1>2, SumSub
<1> QED
  BY <1>1, <1>3, <1>4, TotalsAreSums

LEMMA SizePositive ==
  ASSUME NEW bag \in Bags, NEW S \in SUBSET Kinds, NEW kind \in S, bag[kind] > 0
  PROVE  Size(bag, S) >= 1
<1>1. IsFiniteSet(S) /\ \A x \in S : bag[x] \in Int
  BY TotalsAreSums, CountsOfKinds
<1>2. SumFunctionOnSet(bag, S) = bag[kind] + SumFunctionOnSet(bag, S \ {kind})
  BY <1>1, SumAny
<1>3. S \ {kind} \in SUBSET Kinds
  OBVIOUS
<1>4. SumFunctionOnSet(bag, S \ {kind}) \in Nat
  BY <1>3, TotalsAreSums, TotalsBounded
<1>5. Size(bag, S) = SumFunctionOnSet(bag, S)
  BY TotalsAreSums
<1>6. bag[kind] \in Nat
  BY CountsOfKinds
<1> QED
  BY <1>2, <1>4, <1>5, <1>6

-----------------------------------------------------------------------------
\* The clusters.
All(bag) == Size(bag, Present(bag))
AllWeight(bag) == Total(bag, Present(bag), Weight)

Levels(bag, a) == {Uncertainty(kind) : kind \in Mine(bag, a)}

LEMMA ClusterFields ==
  ASSUME NEW bag, NEW a
  PROVE  /\ Cluster(bag, a).answer = a
         /\ Cluster(bag, a).size = Size(bag, Mine(bag, a))
         /\ Cluster(bag, a).share = (10000 * Size(bag, Mine(bag, a))) \div All(bag)
         /\ Cluster(bag, a).weight = (10000 * Total(bag, Mine(bag, a), Weight)) \div AllWeight(bag)
         /\ Cluster(bag, a).confidence = Total(bag, Mine(bag, a), Confidence) \div Size(bag, Mine(bag, a))
         /\ Cluster(bag, a).entropy = Total(bag, Mine(bag, a), Uncertainty) \div Size(bag, Mine(bag, a))
         /\ Cluster(bag, a).spread = Max(Levels(bag, a)) - Min(Levels(bag, a))
<1>1. Unit = 10000
  BY DEF Unit
<1> QED
  BY <1>1 DEF Cluster, Mine, All, AllWeight, Levels

LEMMA MineCounts ==
  ASSUME NEW bag \in Bags, NEW a \in Found(bag)
  PROVE  LET m == Mine(bag, a)
         IN  /\ m \in SUBSET Present(bag) /\ Present(bag) \in SUBSET Kinds /\ m # {}
             /\ a \in Answers
             /\ Size(bag, m) \in Nat /\ 1 <= Size(bag, m) /\ Size(bag, m) <= All(bag)
             /\ All(bag) \in Nat /\ AllWeight(bag) \in Nat /\ 1 <= AllWeight(bag)
             /\ Total(bag, m, Weight) \in Nat /\ Total(bag, m, Weight) <= AllWeight(bag)
             /\ Total(bag, m, Confidence) \in Nat /\ Total(bag, m, Confidence) <= 10000 * Size(bag, m)
             /\ Total(bag, m, Uncertainty) \in Nat /\ Total(bag, m, Uncertainty) <= 10000 * Size(bag, m)
<1> DEFINE m == Mine(bag, a)
<1>1. m \in SUBSET Present(bag) /\ Present(bag) \in SUBSET Kinds /\ m \in SUBSET Kinds
  BY DEF Mine, Present
<1>2. PICK kind \in m : bag[kind] > 0
  BY DEF Found, Present, Mine
<1>3. a \in Answers
  BY KindMeasures DEF Found, Present
<1> HIDE DEF m
<1>4. Size(bag, m) >= 1
  BY <1>1, <1>2, SizePositive
<1>5. Size(bag, m) <= All(bag) /\ Total(bag, m, Weight) <= AllWeight(bag)
  BY <1>1, TotalsGrow DEF All, AllWeight
<1>6. /\ Size(bag, m) \in Nat /\ Total(bag, m, Weight) \in Nat
      /\ Total(bag, m, Confidence) \in Nat /\ Total(bag, m, Confidence) <= 10000 * Size(bag, m)
      /\ Total(bag, m, Uncertainty) \in Nat /\ Total(bag, m, Uncertainty) <= 10000 * Size(bag, m)
  BY <1>1, TotalsBounded
<1>7. All(bag) \in Nat /\ AllWeight(bag) \in Nat /\ All(bag) <= AllWeight(bag)
  BY <1>1, TotalsBounded DEF All, AllWeight
<1>8. 1 <= AllWeight(bag) /\ 1 <= Size(bag, m)
  BY <1>4, <1>5, <1>6, <1>7
<1> QED
  BY <1>1, <1>2, <1>3, <1>5, <1>6, <1>7, <1>8 DEF m

LEMMA ClusterMeasured ==
  ASSUME NEW bag \in Bags, NEW a \in Found(bag)
  PROVE  Measured(Cluster(bag, a)) /\ Cluster(bag, a).answer = a
<1> DEFINE c == Cluster(bag, a)
           m == Mine(bag, a)
           n == Size(bag, m)
           w == Total(bag, m, Weight)
           t == Total(bag, m, Confidence)
           u == Total(bag, m, Uncertainty)
           levels == Levels(bag, a)
<1>1. /\ m \in SUBSET Kinds /\ m # {}
      /\ n \in Nat /\ 1 <= n /\ n <= All(bag) /\ All(bag) \in Nat
      /\ w \in Nat /\ w <= AllWeight(bag) /\ AllWeight(bag) \in Nat /\ 1 <= AllWeight(bag)
      /\ t \in Nat /\ t <= 10000 * n /\ u \in Nat /\ u <= 10000 * n
  BY MineCounts
<1>2. /\ c.answer = a /\ c.size = n
      /\ c.share = (10000 * n) \div All(bag)
      /\ c.weight = (10000 * w) \div AllWeight(bag)
      /\ c.confidence = t \div n
      /\ c.entropy = u \div n
      /\ c.spread = Max(levels) - Min(levels)
  BY ClusterFields
<1>3. Fraction(Max(levels) - Min(levels))
  <2> DEFINE f == [kind \in m |-> Uncertainty(kind)]
  <2>1. levels = {f[kind] : kind \in m}
    BY DEF Levels
  <2>2. IsFiniteSet(m)
    BY <1>1, TotalsAreSums
  <2>3. IsFiniteSet(levels)
    <3> HIDE DEF f, m
    <3> QED
      BY <2>1, <2>2, FiniteImage
  <2>4. \A x \in levels : x \in Int /\ 0 <= x /\ x <= 10000
    BY <1>1, KindMeasures DEF Fraction, Levels
  <2>5. levels # {} /\ levels \subseteq Int
    <3>1. PICK kind : kind \in m
      BY <1>1
    <3>2. Uncertainty(kind) \in levels
      BY <3>1 DEF Levels
    <3> QED
      BY <2>4, <3>2
  <2> HIDE DEF levels
  <2>6. Max(levels) \in levels /\ Min(levels) \in levels /\ Min(levels) <= Max(levels)
    BY <2>3, <2>5, Largest, Smallest
  <2> QED
    BY <2>4, <2>6 DEF Fraction
<1> HIDE DEF c, m, n, w, t, u, levels
<1>4. Fraction((10000 * n) \div All(bag))
  <2>1. 10000 * n \in Nat /\ All(bag) > 0 /\ 10000 * n <= 10000 * All(bag)
    BY <1>1
  <2> QED
    BY <1>1, <2>1, DivFraction
<1>5. Fraction((10000 * w) \div AllWeight(bag))
  <2>1. 10000 * w \in Nat /\ AllWeight(bag) > 0 /\ 10000 * w <= 10000 * AllWeight(bag)
    BY <1>1
  <2> QED
    BY <1>1, <2>1, DivFraction
<1>6. Fraction(t \div n) /\ Fraction(u \div n)
  BY <1>1, DivFraction
<1>7. n \in Int /\ n >= 1
  BY <1>1
<1>8. Measured(c) /\ c.answer = a
  BY <1>2, <1>3, <1>4, <1>5, <1>6, <1>7 DEF Measured
<1> QED
  BY <1>8 DEF c

-----------------------------------------------------------------------------
\* The ranking.
Clusters(bag) == {Cluster(bag, a) : a \in Found(bag)}
Apart(bag) == Disagreement(Clusters(bag))
Row(bag, a) == [cluster |-> Cluster(bag, a), score |-> Score(Cluster(bag, a), Apart(bag))]

LEMMA DisagreementOf ==
  ASSUME NEW C, IsFiniteSet(C), C # {}, \A c \in C : Measured(c), Cardinality(C) # 1
  PROVE  \E top \in C, next \in Int, mixed \in Nat :
           /\ \A c \in C : c.share <= top.share
           /\ next <= top.share
           /\ \A c \in C : c # top => c.share <= next
           /\ Disagreement(C) = Clamp(Pct(45, Unit - (top.share - next)) + Pct(30, mixed))
<1> DEFINE n == Cardinality(C)
           top == CHOOSE c \in C : \A d \in C : d.share <= c.share
           others == {c.share : c \in C \ {top}}
           next == Max(others)
           spreads == SumFunction([c \in C |-> c.spread])
<1>1. n \in Nat /\ n # 0 /\ n # 1
  BY FS_CardinalityType, FS_EmptySet
<1>2. \A c \in C : c.share \in Int /\ c.spread \in Nat
  BY DEF Measured, Fraction
<1>3. top \in C /\ \A c \in C : c.share <= top.share
  <2> DEFINE f == [c \in C |-> c.share]
             shares == {f[c] : c \in C}
  <2>1. IsFiniteSet(shares)
    <3> HIDE DEF f
    <3> QED
      BY FiniteImage
  <2>2. shares \subseteq Int /\ shares # {}
    BY <1>2
  <2>3. Max(shares) \in shares /\ \A k \in shares : k <= Max(shares)
    <3> HIDE DEF shares
    <3> QED
      BY <2>1, <2>2, Largest
  <2>4. PICK c \in C : Max(shares) = c.share
    BY <2>3
  <2>5. \A d \in C : d.share <= c.share
    <3>1. ASSUME NEW d \in C PROVE d.share <= c.share
      <4>1. d.share \in shares
        OBVIOUS
      <4> HIDE DEF shares
      <4> QED
        BY <2>3, <2>4, <4>1
    <3> QED
      BY <3>1
  <2> QED
    BY <2>5
<1> HIDE DEF top
<1>4. C \ {top} # {}
  <2>1. SUFFICES ASSUME C = {top} PROVE FALSE
    BY <1>3
  <2> QED
    BY <2>1, FS_Singleton
<1>5. IsFiniteSet(others)
  <2> DEFINE f == [c \in C \ {top} |-> c.share]
  <2>1. IsFiniteSet(C \ {top})
    BY FS_Subset
  <2>2. others = {f[c] : c \in C \ {top}}
    OBVIOUS
  <2> HIDE DEF f, others
  <2> QED
    BY <2>1, <2>2, FiniteImage
<1>6. others \subseteq Int /\ others # {}
  BY <1>2, <1>4
<1>7. next \in others /\ \A k \in others : k <= next
  <2> HIDE DEF others
  <2> QED
    BY <1>5, <1>6, Largest
<1>8. next \in Int /\ next <= top.share /\ \A c \in C : c # top => c.share <= next
  <2> HIDE DEF next
  <2> QED
    BY <1>3, <1>6, <1>7
<1>9. spreads \in Nat
  <2> DEFINE f == [c \in C |-> c.spread]
  <2>1. spreads = SumFunctionOnSet(f, C)
    BY DEF SumFunction
  <2>2. \A c \in C : f[c] \in Nat
    BY <1>2
  <2> HIDE DEF f
  <2> QED
    BY <2>1, <2>2, SumNat
<1>10. Disagreement(C) = Clamp(Pct(45, Unit - (top.share - next)) + Pct(30, spreads \div n))
  BY <1>1 DEF Disagreement, top
<1> HIDE DEF next, spreads, n
<1>11. spreads \div n \in Nat
  BY <1>1, <1>9
<1> QED
  BY <1>3, <1>8, <1>10, <1>11

LEMMA DisagreementFraction ==
  ASSUME NEW C, IsFiniteSet(C), C # {}, \A c \in C : Measured(c)
  PROVE  Fraction(Disagreement(C))
<1>1. CASE Cardinality(C) = 1
  BY <1>1 DEF Disagreement, Fraction
<1>2. CASE Cardinality(C) # 1
  <2>1. PICK top \in C, next \in Int, mixed \in Nat :
          Disagreement(C) = Clamp(Pct(45, Unit - (top.share - next)) + Pct(30, mixed))
    BY <1>2, DisagreementOf
  <2> DEFINE x == Pct(45, Unit - (top.share - next)) + Pct(30, mixed)
  <2>2. top.share \in Int
    BY DEF Measured, Fraction
  <2>3. x \in Int
    BY <2>2 DEF Pct, Unit
  <2> HIDE DEF x
  <2>4. Fraction(Clamp(x))
    BY <2>3, ClampFraction
  <2> QED
    BY <2>1, <2>4 DEF x
<1> QED
  BY <1>1, <1>2

\* Two shares of at least p, and none above q: the first two are at most q - p apart.
LEMMA DisagreementAtLeast ==
  ASSUME NEW C, IsFiniteSet(C), \A c \in C : Measured(c),
         NEW x \in C, NEW y \in C, x # y,
         NEW p \in Int, NEW q \in Int, p <= x.share, p <= y.share, \A c \in C : c.share <= q
  PROVE  45 * (10000 - (q - p)) <= 100 * Disagreement(C) + 100
<1>1. Cardinality(C) # 1
  <2>1. SUFFICES ASSUME Cardinality(C) = 1 PROVE FALSE
    OBVIOUS
  <2>2. IsFiniteSet(C \ {x}) /\ Cardinality(C \ {x}) = Cardinality(C) - 1
    BY FS_RemoveElement
  <2>3. Cardinality(C \ {x}) = 0
    BY <2>1, <2>2
  <2> QED
    BY <2>2, <2>3, FS_EmptySet
<1>2. C # {}
  OBVIOUS
<1>3. PICK top \in C, next \in Int, mixed \in Nat :
        /\ next <= top.share
        /\ \A c \in C : c # top => c.share <= next
        /\ Disagreement(C) = Clamp(Pct(45, Unit - (top.share - next)) + Pct(30, mixed))
  BY <1>1, <1>2, DisagreementOf
<1>4. \A c \in C : c.share \in Int /\ 0 <= c.share
  BY DEF Measured, Fraction
<1> DEFINE h == top.share
           u == Pct(45, Unit - (h - next))
           v == Pct(30, mixed)
<1>5. h \in Int /\ h <= q /\ next <= h
  BY <1>3, <1>4
<1>6. p <= next
  <2>1. CASE x # top
    BY <1>3, <1>4, <2>1
  <2>2. CASE y # top
    BY <1>3, <1>4, <2>2
  <2> QED
    BY <2>1, <2>2
<1> HIDE DEF h
<1>7. u \in Int /\ 100 * u <= 45 * (10000 - (h - next)) /\ 45 * (10000 - (h - next)) <= 100 * u + 100
  BY <1>5 DEF Pct, Unit
<1>8. v \in Int /\ 0 <= v
  BY DEF Pct
<1>9. Disagreement(C) = Clamp(u + v)
  BY <1>3 DEF h
<1> HIDE DEF u, v
<1>10. u <= 4500
  BY <1>5, <1>7
<1>11. u <= Clamp(u + v) /\ Clamp(u + v) \in Int
  BY <1>7, <1>8, <1>10 DEF Clamp, Unit
<1> QED
  BY <1>5, <1>6, <1>7, <1>9, <1>11

LEMMA FoundFinite ==
  ASSUME NEW bag \in Bags
  PROVE  IsFiniteSet(Found(bag)) /\ Found(bag) \subseteq Answers
<1> DEFINE f == [kind \in Present(bag) |-> kind.answer]
<1>1. IsFiniteSet(Present(bag))
  BY KindsFinite, FS_Subset DEF Present
<1>2. Found(bag) = {f[kind] : kind \in Present(bag)}
  BY DEF Found
<1>3. Found(bag) \subseteq Answers
  BY KindMeasures DEF Found, Present
<1> HIDE DEF f
<1> QED
  BY <1>1, <1>2, <1>3, FiniteImage

LEMMA ClustersMeasured ==
  ASSUME NEW bag \in Bags
  PROVE  /\ IsFiniteSet(Clusters(bag)) /\ \A c \in Clusters(bag) : Measured(c)
         /\ Found(bag) # {} => Fraction(Apart(bag))
<1> DEFINE f == [a \in Found(bag) |-> Cluster(bag, a)]
<1>1. Clusters(bag) = {f[a] : a \in Found(bag)}
  BY DEF Clusters
<1>2. IsFiniteSet(Clusters(bag))
  <2> HIDE DEF f
  <2> QED
    BY <1>1, FiniteImage, FoundFinite
<1>3. \A c \in Clusters(bag) : Measured(c)
  BY ClusterMeasured DEF Clusters
<1>4. Found(bag) # {} => Clusters(bag) # {}
  BY DEF Clusters
<1> QED
  BY <1>2, <1>3, <1>4, DisagreementFraction DEF Apart

LEMMA RowsAre ==
  ASSUME NEW bag
  PROVE  Rows(bag) = {Row(bag, a) : a \in Found(bag)}
  BY DEF Rows, Row, Apart, Clusters

\* Keys are compared from the left.
LEMMA Lexical ==
  ASSUME NEW k \in [1..6 -> Int], NEW l \in [1..6 -> Int], NEW m \in [1..6 -> Int]
  PROVE  /\ ~Above(k, k)
         /\ k[6] # l[6] => Above(k, l) \/ Above(l, k)
         /\ Above(k, l) /\ Above(l, m) => Above(k, m)
<1>1. ~Above(k, k)
  BY DEF Above
<1>2. ASSUME k[6] # l[6] PROVE Above(k, l) \/ Above(l, k)
  <2>1. \E i \in 1..6 : k[i] # l[i] /\ \A j \in 1..(i - 1) : k[j] = l[j]
    <3>1. CASE k[1] # l[1]
      BY <3>1
    <3>2. CASE k[1] = l[1] /\ k[2] # l[2]
      BY <3>2
    <3>3. CASE k[1] = l[1] /\ k[2] = l[2] /\ k[3] # l[3]
      BY <3>3
    <3>4. CASE k[1] = l[1] /\ k[2] = l[2] /\ k[3] = l[3] /\ k[4] # l[4]
      BY <3>4
    <3>5. CASE k[1] = l[1] /\ k[2] = l[2] /\ k[3] = l[3] /\ k[4] = l[4] /\ k[5] # l[5]
      BY <3>5
    <3>6. CASE k[1] = l[1] /\ k[2] = l[2] /\ k[3] = l[3] /\ k[4] = l[4] /\ k[5] = l[5]
      BY <1>2, <3>6
    <3> QED
      BY <3>1, <3>2, <3>3, <3>4, <3>5, <3>6
  <2>2. PICK i \in 1..6 : k[i] # l[i] /\ \A j \in 1..(i - 1) : k[j] = l[j]
    BY <2>1
  <2>3. k[i] > l[i] \/ l[i] > k[i]
    BY <2>2
  <2> QED
    BY <2>2, <2>3 DEF Above
<1>3. ASSUME Above(k, l), Above(l, m) PROVE Above(k, m)
  <2>1. PICK i \in 1..6 : k[i] > l[i] /\ \A j \in 1..(i - 1) : k[j] = l[j]
    BY <1>3 DEF Above
  <2>2. PICK h \in 1..6 : l[h] > m[h] /\ \A j \in 1..(h - 1) : l[j] = m[j]
    BY <1>3 DEF Above
  <2>3. CASE i <= h
    <3>1. k[i] > m[i] /\ \A j \in 1..(i - 1) : k[j] = m[j]
      BY <2>1, <2>2, <2>3
    <3> QED
      BY <3>1 DEF Above
  <2>4. CASE h < i
    <3>1. k[h] > m[h] /\ \A j \in 1..(h - 1) : k[j] = m[j]
      BY <2>1, <2>2, <2>4
    <3> QED
      BY <3>1 DEF Above
  <2> QED
    BY <2>3, <2>4
<1> QED
  BY <1>1, <1>2, <1>3

LEMMA KeyOf ==
  ASSUME NEW bag \in Bags, NEW a \in Found(bag)
  PROVE  /\ Key(Row(bag, a).cluster, Row(bag, a).score) \in [1..6 -> Int]
         /\ Key(Row(bag, a).cluster, Row(bag, a).score)[6] = a
         /\ Fraction(Row(bag, a).score)
<1> DEFINE c == Cluster(bag, a)
           t == Row(bag, a).score
<1>1. Measured(c) /\ c.answer = a /\ a \in Int
  <2>1. Measured(c) /\ c.answer = a
    BY ClusterMeasured
  <2>2. a \in Answers
    BY FoundFinite
  <2>3. Answers \subseteq Nat
    BY SelectionAssumption
  <2> QED
    BY <2>1, <2>2, <2>3
<1>2. Fraction(Apart(bag))
  BY ClustersMeasured
<1>3. t = Score(c, Apart(bag)) /\ Row(bag, a).cluster = c
  BY DEF Row
<1> HIDE DEF c, t
<1>4. Fraction(t)
  BY <1>1, <1>2, <1>3, ScoreLinear, ClampFraction
<1>5. Fraction(Likelihood(c))
  BY <1>1, LikelihoodBounds
<1>6. /\ t \in Int /\ Likelihood(c) \in Int /\ c.share \in Int /\ c.confidence \in Int
      /\ -c.spread \in Int
  BY <1>1, <1>4, <1>5 DEF Measured, Fraction
<1>7. Key(c, t) \in [1..6 -> Int] /\ Key(c, t)[6] = a
  BY <1>1, <1>6 DEF Key
<1> QED
  BY <1>3, <1>4, <1>7 DEF t

LEMMA RowsOrdered ==
  ASSUME NEW bag \in Bags
  PROVE  IsFiniteSet(Rows(bag)) /\ Ordered(Rows(bag))
<1> DEFINE f == [a \in Found(bag) |-> Row(bag, a)]
           K(x) == Key(x.cluster, x.score)
<1>1. Rows(bag) = {f[a] : a \in Found(bag)}
  BY RowsAre
<1>2. IsFiniteSet(Rows(bag))
  <2> HIDE DEF f
  <2> QED
    BY <1>1, FiniteImage, FoundFinite
<1>3. \A x \in Rows(bag) : K(x) \in [1..6 -> Int] /\ Row(bag, K(x)[6]) = x
  BY RowsAre, KeyOf
<1>4. \A x, y : Outranks(x, y) <=> Above(K(x), K(y))
  BY DEF Outranks
<1> HIDE DEF K
<1>5. \A x \in Rows(bag) : ~Outranks(x, x)
  BY <1>3, <1>4, Lexical
<1>6. \A x, y \in Rows(bag) : x # y => Outranks(x, y) \/ Outranks(y, x)
  <2>1. ASSUME NEW x \in Rows(bag), NEW y \in Rows(bag), x # y
        PROVE  Outranks(x, y) \/ Outranks(y, x)
    <3>1. K(x)[6] # K(y)[6]
      BY <1>3, <2>1
    <3> QED
      BY <1>3, <1>4, <3>1, Lexical
  <2> QED
    BY <2>1
<1>7. \A x, y, z \in Rows(bag) : Outranks(x, y) /\ Outranks(y, z) => Outranks(x, z)
  <2>1. ASSUME NEW x \in Rows(bag), NEW y \in Rows(bag), NEW z \in Rows(bag),
               Outranks(x, y), Outranks(y, z)
        PROVE  Outranks(x, z)
    BY <1>3, <1>4, <2>1, Lexical
  <2> QED
    BY <2>1
<1> QED
  BY <1>2, <1>5, <1>6, <1>7 DEF Ordered

LEMMA SortedBefore ==
  ASSUME NEW R, Ordered(R), NEW n \in Nat, NEW r \in [1..n -> R],
         \A i, j \in 1..n : i < j => Outranks(r[i], r[j]),
         NEW i \in 1..n, NEW j \in 1..n
  PROVE  /\ i # j => r[i] # r[j]
         /\ Outranks(r[i], r[j]) => i < j
<1>1. r[i] \in R /\ r[j] \in R
  OBVIOUS
<1>2. i < j \/ i = j \/ j < i
  OBVIOUS
<1>3. CASE i < j
  <2>1. Outranks(r[i], r[j])
    BY <1>3
  <2> QED
    BY <1>1, <1>3, <2>1 DEF Ordered
<1>4. CASE i = j
  BY <1>1, <1>4 DEF Ordered
<1>5. CASE j < i
  <2>1. Outranks(r[j], r[i])
    BY <1>5
  <2> QED
    BY <1>1, <2>1 DEF Ordered
<1> QED
  BY <1>2, <1>3, <1>4, <1>5

LEMMA SortedOnto ==
  ASSUME NEW R, IsFiniteSet(R), Ordered(R), NEW r \in [1..Cardinality(R) -> R],
         \A i, j \in 1..Cardinality(R) : i < j => Outranks(r[i], r[j]),
         NEW x \in R
  PROVE  \E i \in 1..Cardinality(R) : r[i] = x
<1> DEFINE n == Cardinality(R)
           T == R \ {x}
<1>1. n \in Nat
  BY FS_CardinalityType
<1> SUFFICES ASSUME \A i \in 1..n : r[i] # x PROVE FALSE
  OBVIOUS
<1>2. IsFiniteSet(T) /\ Cardinality(T) = n - 1
  BY FS_RemoveElement
<1>3. IsFiniteSet(1..n) /\ Cardinality(1..n) = n
  BY <1>1, FS_Interval
<1>4. r \in [1..n -> T]
  OBVIOUS
<1>5. \E i, j \in 1..n : i # j /\ r[i] = r[j]
  <2>1. Cardinality(T) < Cardinality(1..n)
    BY <1>1, <1>2, <1>3
  <2> HIDE DEF T, n
  <2> QED
    BY <1>2, <1>3, <1>4, <2>1, FS_PigeonHole
<1> QED
  BY <1>1, <1>5, SortedBefore

\* Every answer found has its row, in the order of the keys.
LEMMA RankingFacts ==
  ASSUME NEW bag \in Bags, Found(bag) # {}
  PROVE  LET r == Ranking(bag)
         IN  /\ Len(r) \in Nat /\ Len(r) >= 1 /\ DOMAIN r = 1..Len(r)
             /\ \A i \in DOMAIN r : /\ r[i].cluster.answer \in Found(bag)
                                    /\ r[i] = Row(bag, r[i].cluster.answer)
             /\ \A i, j \in DOMAIN r : Outranks(r[i], r[j]) => i < j
             /\ \A i, j \in DOMAIN r : i < j => Outranks(r[i], r[j])
             /\ \A i, j \in DOMAIN r : r[i].cluster.answer = r[j].cluster.answer => i = j
             /\ \A a \in Found(bag) : \E i \in DOMAIN r : r[i] = Row(bag, a)
<1> DEFINE R == Rows(bag)
           n == Cardinality(R)
           r == Ranking(bag)
<1>1. IsFiniteSet(R) /\ Ordered(R)
  BY RowsOrdered
<1>2. n \in Nat
  BY <1>1, FS_CardinalityType
<1>3. n # 0
  <2>1. R # {}
    BY RowsAre
  <2> QED
    BY <1>1, <2>1, FS_EmptySet
<1>4. r \in [1..n -> R] /\ \A i, j \in DOMAIN r : i < j => Outranks(r[i], r[j])
  <2>1. r = CHOOSE ranking \in [1..n -> R] :
              \A i, j \in DOMAIN ranking : i < j => Outranks(ranking[i], ranking[j])
    BY DEF Ranking
  <2>2. \E ranking \in [1..n -> R] :
              \A i, j \in DOMAIN ranking : i < j => Outranks(ranking[i], ranking[j])
    BY <1>1, RankingExists
  <2> HIDE DEF R, n, r
  <2> QED
    BY <2>1, <2>2
<1>5. r \in Seq(R) /\ Len(r) = n /\ DOMAIN r = 1..n
  <2> HIDE DEF R, n, r
  <2>1. r \in Seq(R)
    BY <1>2, <1>4, SeqDef
  <2>2. DOMAIN r = 1..Len(r) /\ Len(r) \in Nat
    BY <2>1, LenProperties
  <2>3. DOMAIN r = 1..n
    BY <1>4
  <2>4. Len(r) = n
    <3> DEFINE l == Len(r)
    <3>1. l \in Nat /\ 1..l = 1..n
      BY <2>2, <2>3
    <3> HIDE DEF l
    <3>2. l = n
      BY <1>2, <3>1, SMT
    <3> QED
      BY <3>2 DEF l
  <2> QED
    BY <2>1, <2>3, <2>4
<1>6. \A a \in Found(bag) : Row(bag, a).cluster.answer = a
  <2>1. \A a : Row(bag, a).cluster = Cluster(bag, a)
    BY DEF Row
  <2> QED
    BY <2>1, ClusterMeasured
<1>7. \A x \in R : x.cluster.answer \in Found(bag) /\ x = Row(bag, x.cluster.answer)
  BY <1>6, RowsAre
<1>8. \A a \in Found(bag) : Row(bag, a) \in R
  BY RowsAre
<1> HIDE DEF R, r
<1>9. \A i, j \in 1..n : (i # j => r[i] # r[j]) /\ (Outranks(r[i], r[j]) => i < j)
  <2> HIDE DEF n
  <2>1. \A i, j \in 1..n : i < j => Outranks(r[i], r[j])
    BY <1>4, <1>5
  <2> QED
    BY <1>1, <1>2, <1>4, <2>1, SortedBefore
<1>10. \A x \in R : \E i \in 1..n : r[i] = x
  <2>1. \A i, j \in 1..n : i < j => Outranks(r[i], r[j])
    BY <1>4, <1>5
  <2> QED
    BY <1>1, <1>4, <2>1, SortedOnto
<1> HIDE DEF n
<1>11. Len(r) \in Nat /\ Len(r) >= 1 /\ DOMAIN r = 1..Len(r)
  BY <1>2, <1>3, <1>5
<1>12. \A i \in DOMAIN r : r[i] \in R
  BY <1>4, <1>5
<1>13. \A i \in DOMAIN r : /\ r[i].cluster.answer \in Found(bag)
                           /\ r[i] = Row(bag, r[i].cluster.answer)
  BY <1>7, <1>12
<1>14. \A i, j \in DOMAIN r : r[i].cluster.answer = r[j].cluster.answer => i = j
  BY <1>5, <1>9, <1>13
<1>15. \A a \in Found(bag) : \E i \in DOMAIN r : r[i] = Row(bag, a)
  BY <1>5, <1>8, <1>10
<1>16. \A i, j \in DOMAIN r : Outranks(r[i], r[j]) => i < j
  BY <1>5, <1>9
<1> QED
  BY <1>4, <1>11, <1>13, <1>14, <1>15, <1>16 DEF r

-----------------------------------------------------------------------------
\* With up to 15 attempts one more vote is worth more than what can be lost by
\* mixed and by uncertain attempts.
LEMMA ShareGap ==
  ASSUME NEW bag \in Bags, All(bag) <= 15, NEW a \in Found(bag), NEW b \in Found(bag),
         Cluster(bag, a).size > Cluster(bag, b).size
  PROVE  Cluster(bag, b).share + 666 <= Cluster(bag, a).share
<1> DEFINE n == Size(bag, Mine(bag, a))
           m == Size(bag, Mine(bag, b))
           N == All(bag)
           p == (10000 * m) \div N
<1>1. n \in Nat /\ N \in Nat /\ 1 <= n /\ n <= N
  BY MineCounts
<1>2. m \in Nat
  BY MineCounts
<1>3. /\ Cluster(bag, a).size = n /\ Cluster(bag, b).size = m
      /\ Cluster(bag, a).share = (10000 * n) \div N /\ Cluster(bag, b).share = p
  BY ClusterFields
<1> HIDE DEF n, m, N
<1>4. m + 1 <= n /\ N <= 15
  BY <1>1, <1>2, <1>3 DEF N
<1>5. p \in Int /\ N * p <= 10000 * m
  BY <1>1, <1>2, DivBy
<1> HIDE DEF p
<1>6. N * (p + 666) <= 10000 * n
  <2>1. N * (p + 666) = N * p + 666 * N
    BY <1>1, <1>5
  <2>2. N * p \in Int
    BY <1>1, <1>5
  <2> QED
    BY <1>1, <1>2, <1>4, <1>5, <2>1, <2>2
<1>7. p + 666 <= (10000 * n) \div N
  <2>1. N > 0 /\ 10000 * n \in Int /\ p + 666 \in Int
    BY <1>1, <1>5
  <2> QED
    BY <1>1, <1>6, <2>1, DivAtLeast
<1> QED
  BY <1>3, <1>7

LEMMA ScoreOver ==
  ASSUME NEW x, Measured(x), NEW y, Measured(y), NEW d, Fraction(d),
         x.size > y.size, x.weight >= y.weight, x.confidence >= y.confidence,
         y.share + 666 <= x.share
  PROVE  Score(x, d) >= Score(y, d)
<1> DEFINE A == 4400300 * x.share + 2767000 * x.weight + 1716700 * x.confidence
           B == 4400300 * y.share + 2767000 * y.weight + 1716700 * y.confidence
           P == 160000 * x.spread + 112000 * x.entropy + 1400000000 * Small(x)
           Q == 160000 * y.spread + 112000 * y.entropy + 4360000000 * Lone(y) + 1400000000 * Small(y)
<1>1. /\ x.share \in Int /\ x.weight \in Int /\ x.confidence \in Int
      /\ x.spread \in Int /\ x.spread <= 10000 /\ x.entropy \in Int /\ x.entropy <= 10000
  BY DEF Measured, Fraction
<1>2. /\ y.share \in Int /\ y.weight \in Int /\ y.confidence \in Int
      /\ y.spread \in Int /\ 0 <= y.spread /\ y.entropy \in Int /\ 0 <= y.entropy
  BY DEF Measured, Fraction
<1>3. Lone(x) = 0 /\ Lone(y) \in Int /\ 0 <= Lone(y)
  <2>1. x.size # 1
    BY DEF Measured
  <2> QED
    BY <2>1, Flags DEF Lone, If
<1>4. Small(x) \in Int /\ Small(y) \in Int /\ Small(x) <= Small(y)
  BY <1>1, <1>2 DEF Small, If
<1>5. A \in Int /\ B \in Int /\ A >= B + 2930000000
  BY <1>1, <1>2, SMT
<1>6. P \in Int /\ Q \in Int /\ P <= Q + 2720000000
  BY <1>1, <1>2, <1>3, <1>4, SMT
<1>7. d \in Int
  BY DEF Fraction
<1>8. Linear(x, d) = A - 352000 * d - P - 3800000000
  BY <1>1, <1>3, <1>4, <1>7, SMT DEF Linear
<1>9. Linear(y, d) = B - 352000 * d - Q - 3800000000
  <2> DEFINE r == y.spread
             e == y.entropy
             i == Lone(y)
             j == Small(y)
  <2>1. r \in Int /\ e \in Int /\ i \in Int /\ j \in Int
    BY <1>2, <1>3, <1>4
  <2>2. Q = 160000 * r + 112000 * e + 4360000000 * i + 1400000000 * j
    OBVIOUS
  <2>3. Linear(y, d) = B - 352000 * d - 160000 * r - 112000 * e - 4360000000 * i - 1400000000 * j - 3800000000
    BY <1>2, <1>3, <1>4, <1>7, <2>1, SMT DEF Linear
  <2> HIDE DEF r, e, i, j, B, Q
  <2> QED
    BY <1>5, <1>7, <2>1, <2>2, <2>3, SMT
<1>10. /\ Raw(x, d) \in Int /\ Score(x, d) = Clamp(Raw(x, d))
       /\ Linear(x, d) <= 8000000 * Raw(x, d) + 56000000
  BY ScoreLinear
<1>11. /\ Raw(y, d) \in Int /\ Score(y, d) = Clamp(Raw(y, d))
       /\ 8000000 * Raw(y, d) <= Linear(y, d) + 24000000
  BY ScoreLinear
<1> HIDE DEF A, B, P, Q
<1>12. Raw(y, d) <= Raw(x, d)
  BY <1>5, <1>6, <1>7, <1>8, <1>9, <1>10, <1>11, SMT
<1>13. Clamp(Raw(y, d)) <= Clamp(Raw(x, d)) /\ Clamp(Raw(y, d)) \in Int /\ Clamp(Raw(x, d)) \in Int
  BY <1>10, <1>11, <1>12, ClampMonotone, ClampFraction DEF Fraction
<1> QED
  BY <1>10, <1>11, <1>13

\* More of everything is ranked above.
LEMMA MoreOutranks ==
  ASSUME NEW bag \in Bags, All(bag) <= 15, NEW a \in Found(bag), NEW b \in Found(bag),
         Cluster(bag, a).size > Cluster(bag, b).size,
         Cluster(bag, a).weight >= Cluster(bag, b).weight,
         Cluster(bag, a).confidence >= Cluster(bag, b).confidence
  PROVE  Outranks(Row(bag, a), Row(bag, b))
<1> DEFINE x == Cluster(bag, a)
           y == Cluster(bag, b)
           d == Apart(bag)
           k == Key(x, Score(x, d))
           l == Key(y, Score(y, d))
<1>1. Measured(x) /\ Measured(y) /\ Fraction(d)
  BY ClusterMeasured, ClustersMeasured
<1>2. y.share + 666 <= x.share
  BY ShareGap
<1>3. /\ Row(bag, a).cluster = x /\ Row(bag, a).score = Score(x, d)
      /\ Row(bag, b).cluster = y /\ Row(bag, b).score = Score(y, d)
  BY DEF Row
<1>4. k \in [1..6 -> Int] /\ l \in [1..6 -> Int]
  BY <1>3, KeyOf
<1>5. x.size > y.size /\ x.weight >= y.weight /\ x.confidence >= y.confidence
  OBVIOUS
<1> HIDE DEF x, y, d
<1>6. Score(x, d) >= Score(y, d)
  BY <1>1, <1>2, <1>5, ScoreOver
<1>7. Likelihood(x) >= Likelihood(y)
  <2>1. /\ x.weight \in Int /\ x.confidence \in Int
        /\ y.weight \in Int /\ y.confidence \in Int
    BY <1>1 DEF Measured, Fraction
  <2> QED
    BY <1>5, <2>1 DEF Likelihood
<1>8. /\ k[1] = Score(x, d) /\ l[1] = Score(y, d)
      /\ k[2] = Likelihood(x) /\ l[2] = Likelihood(y)
      /\ k[3] = x.share /\ l[3] = y.share
  BY DEF Key
<1>9. x.share \in Int /\ y.share \in Int
  BY <1>1 DEF Measured, Fraction
<1> HIDE DEF k, l
<1>10. k[1] >= l[1] /\ k[2] >= l[2] /\ k[3] > l[3]
  BY <1>2, <1>6, <1>7, <1>8, <1>9
<1>11. Above(k, l)
  <2>1. CASE k[1] > l[1]
    BY <1>4, <2>1 DEF Above
  <2>2. CASE k[1] = l[1] /\ k[2] > l[2]
    BY <1>4, <2>2 DEF Above
  <2>3. CASE k[1] = l[1] /\ k[2] = l[2]
    BY <1>4, <1>10, <2>3 DEF Above
  <2> QED
    BY <1>4, <1>10, <2>1, <2>2, <2>3
<1> QED
  BY <1>3, <1>11 DEF Outranks, k, l

-----------------------------------------------------------------------------
\* What holds in every state: there is room for another attempt while attempts
\* are made, no answer has the votes that stop them early unless they stopped so,
\* and a selection is the ranking of the votes.
For(answer) == {k \in Kinds : k.answer = answer}
Undecided == \A a \in Answers : Size(votes, For(a)) < StopCount

SelectionInv ==
  /\ votes \in Bags /\ blanks \in Nat
  /\ Tried(votes, blanks) <= AttemptCount
  /\ pc \in {"attempts", "consensus", "exhausted", "kept", "escalated"}
  /\ pc = "attempts" => Tried(votes, blanks) < AttemptCount
  /\ pc \in {"attempts", "exhausted"} => Undecided
  /\ Selected => selection.answers = Answered(votes)
  /\ ~Selected => selection = None
  /\ pc = "kept" /\ selection.method # "minimal_early_stop_consensus" =>
       Undecided /\ Doubts(votes) = {}

LEMMA SizeInNat ==
  ASSUME NEW bag \in Bags
  PROVE  Size(bag, Kinds) \in Nat /\ \A a : Size(bag, For(a)) \in Nat
<1>1. Kinds \in SUBSET Kinds /\ \A a : For(a) \in SUBSET Kinds
  BY DEF For
<1> QED
  BY <1>1, TotalsBounded

LEMMA InitSelectionInv == Init => SelectionInv
<1> SUFFICES ASSUME Init PROVE SelectionInv
  OBVIOUS
<1>1. votes \in Bags /\ \A kind \in Kinds : votes[kind] = 0
  BY DEF Init, Bags
<1>2. \A S \in SUBSET Kinds : Size(votes, S) = 0
  <2>1. ASSUME NEW S \in SUBSET Kinds PROVE Size(votes, S) = 0
    <3>1. IsFiniteSet(S)
      BY KindsFinite, FS_Subset
    <3>2. \A x \in S : votes[x] \in Int /\ 0 <= votes[x] /\ votes[x] <= 0 * votes[x]
      BY <1>1
    <3>3. SumFunctionOnSet(votes, S) \in Int
      BY <3>1, <3>2, SumInt
    <3>4. 0 <= SumFunctionOnSet(votes, S) /\ SumFunctionOnSet(votes, S) <= 0 * SumFunctionOnSet(votes, S)
      BY <3>1, <3>2, SumBound, 0 \in Nat
    <3> QED
      BY <3>3, <3>4 DEF Size
  <2> QED
    BY <2>1
<1>3. Size(votes, Kinds) = 0 /\ \A a : Size(votes, For(a)) = 0
  BY <1>2 DEF For
<1> QED
  BY <1>1, <1>3, SelectionAssumption DEF Init, SelectionInv, Tried, Undecided, Selected

\* One more attempt.
Plus(bag, kind) == [bag EXCEPT ![kind] = @ + 1]

LEMMA OneMore ==
  ASSUME NEW bag \in Bags, NEW kind \in Kinds
  PROVE  /\ Plus(bag, kind) \in Bags
         /\ Size(Plus(bag, kind), Kinds) = Size(bag, Kinds) + 1
         /\ \A a : a # kind.answer => Size(Plus(bag, kind), For(a)) = Size(bag, For(a))
<1> DEFINE more == Plus(bag, kind)
<1>1. more \in Bags /\ \A x \in Kinds : more[x] = IF x = kind THEN bag[x] + 1 ELSE bag[x]
  BY DEF Bags, Plus
<1> HIDE DEF more
<1>2. \A x \in Kinds : bag[x] \in Nat
  BY DEF Bags
<1>3. Size(more, Kinds) = Size(bag, Kinds) + 1
  <2>1. \A x \in Kinds : bag[x] \in Nat /\ more[x] = IF x = kind THEN bag[x] + 1 ELSE bag[x]
    BY <1>1, <1>2
  <2>2. SumFunctionOnSet(more, Kinds) = SumFunctionOnSet(bag, Kinds) + 1
    <3> DEFINE d == 1
    <3>1. \A x \in Kinds : bag[x] \in Nat /\ more[x] = IF x = kind THEN bag[x] + d ELSE bag[x]
      BY <2>1
    <3>2. d \in Nat /\ IsFiniteSet(Kinds)
      BY KindsFinite
    <3> HIDE DEF d
    <3>3. SumFunctionOnSet(more, Kinds) = SumFunctionOnSet(bag, Kinds) + d
      BY <3>1, <3>2, SumRaised
    <3> QED
      BY <3>3 DEF d
  <2> QED
    BY <2>2 DEF Size
<1>4. ASSUME NEW a, a # kind.answer PROVE Size(more, For(a)) = Size(bag, For(a))
  <2>1. IsFiniteSet(For(a))
    BY KindsFinite, FS_Subset DEF For
  <2>2. \A x \in For(a) : bag[x] \in Nat /\ more[x] = bag[x]
    BY <1>1, <1>2, <1>4 DEF For
  <2> QED
    BY <2>1, <2>2, SumSame DEF Size
<1> QED
  BY <1>1, <1>3, <1>4 DEF more

LEMMA AttemptKeeps ==
  ASSUME SelectionInv, NEW kind \in Kinds, Attempt(kind)
  PROVE  SelectionInv'
<1>1. /\ pc = "attempts" /\ votes \in Bags /\ blanks \in Nat /\ selection = None
      /\ Tried(votes, blanks) < AttemptCount /\ Undecided
  BY DEF SelectionInv, Attempt, Selected
<1>2. blanks' = blanks /\ selection' = selection /\ votes' = Plus(votes, kind)
  BY DEF Attempt, Plus
<1>3. /\ votes' \in Bags /\ Size(votes', Kinds) = Size(votes, Kinds) + 1
      /\ \A a : a # kind.answer => Size(votes', For(a)) = Size(votes, For(a))
  BY <1>1, <1>2, OneMore
<1>4. /\ Size(votes, Kinds) \in Nat
      /\ \A a : Size(votes', For(a)) \in Nat
  BY <1>1, <1>3, SizeInNat
<1>5. AttemptCount \in Nat /\ StopCount \in Nat
  BY SelectionAssumption
<1>6. Tried(votes', blanks') <= AttemptCount
  BY <1>1, <1>2, <1>3, <1>4, <1>5 DEF Tried
<1>7. CASE Size(votes', For(kind.answer)) >= StopCount
  <2>1. pc' = "consensus"
    BY <1>7 DEF Attempt, For
  <2> QED
    BY <1>1, <1>2, <1>3, <1>6, <2>1 DEF SelectionInv, Selected
<1>8. CASE ~(Size(votes', For(kind.answer)) >= StopCount)
  <2>1. pc' = Further(votes', blanks)
    BY <1>8 DEF Attempt, For
  <2>2. Undecided'
    <3>1. \A a \in Answers : Size(votes', For(a)) < StopCount
      BY <1>1, <1>3, <1>4, <1>5, <1>8 DEF Undecided
    <3> QED
      BY <3>1 DEF Undecided, For
  <2>3. Tried(votes', blanks') \in Int
    BY <1>1, <1>2, <1>3, <1>4 DEF Tried
  <2>4. \/ pc' = "exhausted"
        \/ pc' = "attempts" /\ Tried(votes', blanks') < AttemptCount
    BY <1>2, <1>5, <2>1, <2>3 DEF Further
  <2> QED
    BY <1>1, <1>2, <1>3, <1>6, <2>2, <2>4 DEF SelectionInv, Selected
<1> QED
  BY <1>7, <1>8

LEMMA BlankKeeps ==
  ASSUME SelectionInv, BlankAttempt
  PROVE  SelectionInv'
<1>1. /\ pc = "attempts" /\ votes \in Bags /\ blanks \in Nat /\ selection = None
      /\ Tried(votes, blanks) < AttemptCount /\ Undecided
  BY DEF SelectionInv, BlankAttempt, Selected
<1>2. /\ votes' = votes /\ selection' = selection /\ blanks' = blanks + 1
      /\ pc' = Further(votes, blanks')
  BY DEF BlankAttempt
<1>3. Size(votes, Kinds) \in Nat /\ AttemptCount \in Nat
  BY <1>1, SizeInNat, SelectionAssumption
<1>4. Tried(votes, blanks') <= AttemptCount /\ Tried(votes, blanks') \in Int
  BY <1>1, <1>2, <1>3 DEF Tried
<1>5. Undecided'
  BY <1>1, <1>2 DEF Undecided, For
<1>6. \/ pc' = "exhausted"
      \/ pc' = "attempts" /\ Tried(votes, blanks') < AttemptCount
  BY <1>2, <1>3, <1>4 DEF Further
<1>7. blanks' \in Nat
  BY <1>1, <1>2
<1> QED
  BY <1>1, <1>2, <1>4, <1>5, <1>6, <1>7 DEF SelectionInv, Selected

LEMMA SelectKeeps ==
  ASSUME SelectionInv, NEW uncertain \in BOOLEAN, Select(uncertain)
  PROVE  SelectionInv'
<1> DEFINE reasons == IF pc = "consensus" THEN {}
                      ELSE Doubts(votes) \cup (IF uncertain THEN {"high_route_uncertainty"} ELSE {})
<1>1. /\ pc \in {"consensus", "exhausted"}
      /\ votes' = votes /\ blanks' = blanks
      /\ selection' = [answers |-> Answered(votes), method |-> Method(votes), reasons |-> reasons]
      /\ pc' = IF reasons = {} THEN "kept" ELSE "escalated"
  BY DEF Select
<1>2. selection'.answers = Answered(votes) /\ selection'.method = Method(votes)
  BY <1>1
<1>3. pc = "consensus" => Method(votes) = "minimal_early_stop_consensus"
  BY DEF Method
<1>4. ASSUME pc' = "kept", selection'.method # "minimal_early_stop_consensus"
      PROVE  Undecided /\ Doubts(votes) = {}
  <2>1. pc = "exhausted"
    BY <1>1, <1>2, <1>3, <1>4
  <2>2. reasons = {}
    BY <1>1, <1>4
  <2>3. Doubts(votes) = {}
    BY <2>1, <2>2
  <2> QED
    BY <2>1, <2>3 DEF SelectionInv
<1>5. Answered(votes)' = Answered(votes) /\ Doubts(votes)' = Doubts(votes)
  BY <1>1
<1>6. Undecided' <=> Undecided
  BY <1>1 DEF Undecided, For
<1> HIDE DEF reasons
<1>7. pc' \in {"kept", "escalated"}
  BY <1>1
<1>8. votes' \in Bags /\ blanks' \in Nat /\ Tried(votes', blanks') <= AttemptCount
  BY <1>1 DEF SelectionInv
<1> QED
  BY <1>1, <1>2, <1>4, <1>5, <1>6, <1>7, <1>8 DEF SelectionInv, Selected

LEMMA NextKeeps == SelectionInv /\ [Next]_vars => SelectionInv'
<1> SUFFICES ASSUME SelectionInv, [Next]_vars PROVE SelectionInv'
  OBVIOUS
<1>1. CASE \E kind \in Kinds : Attempt(kind)
  BY <1>1, AttemptKeeps
<1>2. CASE BlankAttempt
  BY <1>2, BlankKeeps
<1>3. CASE \E uncertain \in BOOLEAN : Select(uncertain)
  BY <1>3, SelectKeeps
<1>4. CASE UNCHANGED vars
  <2>1. votes' = votes /\ blanks' = blanks /\ selection' = selection /\ pc' = pc
    BY <1>4 DEF vars
  <2>2. Answered(votes)' = Answered(votes) /\ Doubts(votes)' = Doubts(votes)
    BY <2>1
  <2>3. Undecided' <=> Undecided
    BY <2>1 DEF Undecided, For
  <2> QED
    BY <2>1, <2>2, <2>3 DEF SelectionInv, Selected
<1> QED
  BY <1>1, <1>2, <1>3, <1>4 DEF Next

\* SelectionInv holds in every reachable state.
THEOREM SelectionInvariant == Spec => []SelectionInv
<1>1. Init => SelectionInv
  BY InitSelectionInv
<1>2. SelectionInv /\ [Next]_vars => SelectionInv'
  BY NextKeeps
<1> QED
  BY <1>1, <1>2, PTL DEF Spec

\* The answers are those of the ranking, one for one.
LEMMA AnsweredFacts ==
  ASSUME NEW bag \in Bags, Present(bag) # {}
  PROVE  /\ Found(bag) # {}
         /\ Answered(bag) \in Seq(Answers)
         /\ DOMAIN Answered(bag) = DOMAIN Ranking(bag)
         /\ \A i \in DOMAIN Answered(bag) : /\ Answered(bag)[i] \in Found(bag)
                                            /\ Ranking(bag)[i] = Row(bag, Answered(bag)[i])
<1> DEFINE r == Ranking(bag)
           s == Answered(bag)
<1>1. Found(bag) # {}
  BY DEF Found
<1>2. s = [i \in DOMAIN r |-> r[i].cluster.answer]
  BY DEF Answered
<1>3. /\ Len(r) \in Nat /\ DOMAIN r = 1..Len(r)
      /\ \A i \in DOMAIN r : /\ r[i].cluster.answer \in Found(bag)
                             /\ r[i] = Row(bag, r[i].cluster.answer)
  BY <1>1, RankingFacts
<1>4. \A i \in DOMAIN r : r[i].cluster.answer \in Answers
  BY <1>3, FoundFinite
<1> HIDE DEF r, s
<1>5. s \in [1..Len(r) -> Answers]
  BY <1>2, <1>3, <1>4
<1>6. s \in Seq(Answers)
  <2> DEFINE n == Len(r)
  <2>1. n \in Nat /\ s \in [1..n -> Answers]
    BY <1>3, <1>5
  <2> HIDE DEF n
  <2> QED
    BY <2>1, SeqDef
<1>7. DOMAIN s = DOMAIN r /\ \A i \in DOMAIN s : s[i] \in Found(bag) /\ r[i] = Row(bag, s[i])
  BY <1>2, <1>3
<1> QED
  BY <1>1, <1>6, <1>7 DEF r, s

\* The types: attempts are counted up to AttemptCount, and a selection names
\* answers, or 0 when there is none (run_minimal_attempts and FinalSelectionResult).
THEOREM SelectionTypeOK == Spec => []TypeOK
<1>1. SelectionInv => TypeOK
  <2> SUFFICES ASSUME SelectionInv PROVE TypeOK
    OBVIOUS
  <2>1. votes \in Bags /\ blanks \in Nat /\ Tried(votes, blanks) <= AttemptCount
    BY DEF SelectionInv
  <2>2. Size(votes, Kinds) \in Nat /\ AttemptCount \in Nat
    BY <2>1, SizeInNat, SelectionAssumption
  <2>3. ASSUME NEW kind \in Kinds PROVE votes[kind] \in 0..AttemptCount
    <3>1. \A x \in Kinds : votes[x] \in Int
      BY <2>1, CountsOfKinds
    <3>2. Size(votes, Kinds) = votes[kind] + SumFunctionOnSet(votes, Kinds \ {kind})
      BY <3>1, KindsFinite, SumAny DEF Size
    <3>3. SumFunctionOnSet(votes, Kinds \ {kind}) \in Nat
      <4>1. Kinds \ {kind} \in SUBSET Kinds
        OBVIOUS
      <4> QED
        BY <2>1, <4>1, TotalsBounded DEF Size
    <3>4. votes[kind] \in Nat
      BY <2>1, CountsOfKinds
    <3> QED
      BY <2>1, <2>2, <3>2, <3>3, <3>4 DEF Tried
  <2>4. votes \in [Kinds -> 0..AttemptCount]
    BY <2>1, <2>3 DEF Bags
  <2>5. blanks \in 0..AttemptCount
    BY <2>1, <2>2 DEF Tried
  <2>6. Selected => selection.answers \in Seq(Answers \cup {0})
    <3>1. CASE Present(votes) = {}
      <4>1. Answered(votes) = <<0>>
        BY <3>1 DEF Answered
      <4>2. <<0>> \in Seq(Answers \cup {0})
        <5> DEFINE A == Answers \cup {0}
        <5>1. 0 \in A
          OBVIOUS
        <5> HIDE DEF A
        <5>2. <<0>> \in Seq(A)
          BY <5>1
        <5> QED
          BY <5>2 DEF A
      <4> QED
        BY <4>1, <4>2 DEF SelectionInv
    <3>2. CASE Present(votes) # {}
      <4>1. Answered(votes) \in Seq(Answers)
        BY <2>1, <3>2, AnsweredFacts
      <4> QED
        BY <4>1 DEF SelectionInv
    <3> QED
      BY <3>1, <3>2
  <2> QED
    BY <2>1, <2>4, <2>5, <2>6 DEF SelectionInv, TypeOK
<1> QED
  BY <1>1, SelectionInvariant, PTL

\* With up to 15 attempts (the engine makes eight) an answer of more attempts, with
\* no less weight and no less confidence, is ranked above another: in the terms of
\* _score_cluster, what spread, entropy and the roundings can cost it is less than
\* what one vote of 15 is worth.
THEOREM MoreOfEverythingAlwaysWins ==
  ASSUME AttemptCount <= 15
  PROVE  Spec => []MoreOfEverythingWins
<1>1. SelectionInv => MoreOfEverythingWins
  <2> SUFFICES ASSUME SelectionInv, Selected, Present(votes) # {},
                      NEW i \in DOMAIN selection.answers, NEW j \in DOMAIN selection.answers,
                      Cluster(votes, selection.answers[i]).size > Cluster(votes, selection.answers[j]).size,
                      Cluster(votes, selection.answers[i]).weight >= Cluster(votes, selection.answers[j]).weight,
                      Cluster(votes, selection.answers[i]).confidence
                        >= Cluster(votes, selection.answers[j]).confidence
               PROVE  i < j
    BY DEF MoreOfEverythingWins
  <2> DEFINE s == selection.answers
             r == Ranking(votes)
  <2>1. votes \in Bags /\ s = Answered(votes)
    BY DEF SelectionInv
  <2>2. All(votes) <= 15
    <3>1. Present(votes) \in SUBSET Kinds /\ Kinds \in SUBSET Kinds
      BY DEF Present
    <3>2. All(votes) <= Size(votes, Kinds) /\ All(votes) \in Nat /\ Size(votes, Kinds) \in Nat
      BY <2>1, <3>1, TotalsGrow, TotalsBounded DEF All
    <3>3. blanks \in Nat /\ Size(votes, Kinds) + blanks <= AttemptCount
      BY DEF SelectionInv, Tried
    <3>4. AttemptCount \in Nat
      BY SelectionAssumption
    <3> QED
      BY <3>2, <3>3, <3>4
  <2>3. /\ Found(votes) # {} /\ DOMAIN s = DOMAIN r
        /\ s[i] \in Found(votes) /\ r[i] = Row(votes, s[i])
        /\ s[j] \in Found(votes) /\ r[j] = Row(votes, s[j])
    BY <2>1, AnsweredFacts
  <2>4. Outranks(Row(votes, s[i]), Row(votes, s[j]))
    BY <2>1, <2>2, <2>3, MoreOutranks
  <2>5. \A x, y \in DOMAIN r : Outranks(r[x], r[y]) => x < y
    BY <2>1, <2>3, RankingFacts
  <2> QED
    BY <2>3, <2>4, <2>5
<1> QED
  BY <1>1, SelectionInvariant, PTL

-----------------------------------------------------------------------------
\* What an attempt more does to a cluster.
Near(n, p, q) ==
  /\ n = 1 => p >= q - 5000 /\ p <= q + 5000
  /\ n >= 2 => p >= q - 3334 /\ p <= q + 3335

LEMMA Diluted ==
  ASSUME NEW t \in Nat, NEW n \in Nat, n >= 1, NEW v, Fraction(v), Fraction(t \div n)
  PROVE  Near(n, (t + v) \div (n + 1), t \div n)
<1> DEFINE q == t \div n
           p == (t + v) \div (n + 1)
<1>1. v \in Int /\ 0 <= v /\ v <= 10000 /\ q \in Int /\ 0 <= q /\ q <= 10000
  BY DEF Fraction
<1>2. n * q <= t /\ t < n * q + n
  BY DivBy
<1>3. p \in Int /\ (n + 1) * p <= t + v /\ t + v < (n + 1) * p + (n + 1)
  <2>1. n + 1 \in Nat /\ n + 1 > 0 /\ t + v \in Int
    BY <1>1
  <2> QED
    BY <2>1, DivBy
<1> HIDE DEF p, q
<1>4. ASSUME n = 1 PROVE p >= q - 5000 /\ p <= q + 5000
  BY <1>1, <1>2, <1>3, <1>4
<1>5. ASSUME n >= 2 PROVE p >= q - 3334 /\ p <= q + 3335
  <2>1. n * q \in Int /\ (n + 1) * p \in Int
    BY <1>1, <1>3
  <2>2. p >= q - 3334
    <3>1. (n + 1) * (q - 3334) = n * q + q - 3334 * n - 3334
      BY <1>1
    <3>2. (n + 1) * (q - 3334) <= t + v
      BY <1>1, <1>2, <1>5, <2>1, <3>1
    <3>3. n + 1 \in Nat /\ n + 1 > 0 /\ t + v \in Int /\ q - 3334 \in Int
      BY <1>1
    <3>4. q - 3334 <= (t + v) \div (n + 1)
      BY <3>2, <3>3, DivAtLeast
    <3> QED
      BY <1>1, <1>3, <3>4 DEF p
  <2>3. p <= q + 3335
    <3> SUFFICES ASSUME q + 3336 <= p PROVE FALSE
      BY <1>1, <1>3
    <3>1. (n + 1) * (q + 3336) <= (n + 1) * p
      BY <1>1, <1>3
    <3>2. (n + 1) * (q + 3336) = n * q + q + 3336 * n + 3336
      BY <1>1
    <3> QED
      BY <1>1, <1>2, <1>3, <1>5, <2>1, <3>1, <3>2
  <2> QED
    BY <2>2, <2>3
<1> QED
  BY <1>4, <1>5 DEF p, q, Near

\* A part that grows with the whole does not become a smaller part of it.
LEMMA GrowsWith ==
  ASSUME NEW n \in Nat, NEW N \in Nat, N >= 1, n <= N, NEW w \in Nat
  PROVE  (10000 * n) \div N <= (10000 * (n + w)) \div (N + w)
<1> DEFINE p == (10000 * n) \div N
<1>1. p \in Int /\ N * p <= 10000 * n /\ p <= 10000
  <2>1. 10000 * n \in Nat /\ N > 0 /\ 10000 * n <= 10000 * N
    OBVIOUS
  <2> QED
    BY <2>1, DivBy, DivFraction DEF Fraction
<1> HIDE DEF p
<1>2. (N + w) * p <= 10000 * (n + w)
  <2>1. w * p <= w * 10000
    BY <1>1
  <2>2. (N + w) * p = N * p + w * p
    BY <1>1
  <2>3. N * p \in Int /\ w * p \in Int
    BY <1>1
  <2> QED
    BY <1>1, <2>1, <2>2, <2>3
<1>3. N + w \in Nat /\ N + w > 0 /\ 10000 * (n + w) \in Int
  OBVIOUS
<1>4. p <= (10000 * (n + w)) \div (N + w)
  BY <1>1, <1>2, <1>3, DivAtLeast
<1> QED
  BY <1>4 DEF p

LEMMA ShrinksBelow ==
  ASSUME NEW n \in Nat, NEW N \in Nat, N >= 1, NEW w \in Nat
  PROVE  (10000 * n) \div (N + w) <= (10000 * n) \div N
<1> DEFINE p == (10000 * n) \div (N + w)
<1>1. p \in Int /\ (N + w) * p <= 10000 * n /\ 0 <= p
  <2>1. N + w \in Nat /\ N + w > 0 /\ 10000 * n \in Int
    OBVIOUS
  <2>2. (N + w) * 0 <= 10000 * n
    OBVIOUS
  <2> QED
    BY <2>1, <2>2, DivBy, DivAtLeast
<1> HIDE DEF p
<1>2. N * p <= 10000 * n
  <2>1. 0 <= w * p
    BY <1>1
  <2>2. (N + w) * p = N * p + w * p
    BY <1>1
  <2>3. N * p \in Int /\ w * p \in Int
    BY <1>1
  <2> QED
    BY <1>1, <2>1, <2>2, <2>3
<1>3. p <= (10000 * n) \div N
  BY <1>1, <1>2, DivAtLeast
<1> QED
  BY <1>3 DEF p

\* x2 is x with an attempt more, y2 is another cluster beside it.
Grown(x, x2) ==
  /\ x2.size = x.size + 1 /\ x2.share >= x.share /\ x2.weight >= x.weight
  /\ x.size = 1 => x2.confidence >= x.confidence - 5000 /\ x2.entropy <= x.entropy + 5000
  /\ x.size >= 2 => x2.confidence >= x.confidence - 3334 /\ x2.entropy <= x.entropy + 3335
Shrunk(y, y2) ==
  /\ y2.size = y.size /\ y2.share <= y.share /\ y2.weight <= y.weight
  /\ y2.confidence = y.confidence /\ y2.entropy = y.entropy /\ y2.spread = y.spread

\* The attempt costs less than the margin.
LEMMA MarginHolds ==
  ASSUME NEW x, Measured(x), NEW y, Measured(y), NEW x2, Measured(x2), NEW y2, Measured(y2),
         NEW d, Fraction(d), NEW d2, Fraction(d2), Grown(x, x2), Shrunk(y, y2),
         Score(x, d) >= Score(y, d) + 1000, x.weight >= 4500
  PROVE  Score(x2, d2) > Score(y2, d2)
<1>1. /\ Raw(x, d) \in Int /\ Score(x, d) = Clamp(Raw(x, d)) /\ Linear(x, d) \in Int
      /\ 8000000 * Raw(x, d) <= Linear(x, d) + 24000000
  BY ScoreLinear
<1>2. /\ Raw(y, d) \in Int /\ Score(y, d) = Clamp(Raw(y, d)) /\ Linear(y, d) \in Int
      /\ Linear(y, d) <= 8000000 * Raw(y, d) + 56000000
  BY ScoreLinear
<1>3. /\ Raw(x2, d2) \in Int /\ Score(x2, d2) = Clamp(Raw(x2, d2)) /\ Linear(x2, d2) \in Int
      /\ Linear(x2, d2) <= 8000000 * Raw(x2, d2) + 56000000
  BY ScoreLinear
<1>4. /\ Raw(y2, d2) \in Int /\ Score(y2, d2) = Clamp(Raw(y2, d2)) /\ Linear(y2, d2) \in Int
      /\ 8000000 * Raw(y2, d2) <= Linear(y2, d2) + 24000000
  BY ScoreLinear
<1>5. d \in Int /\ 0 <= d /\ d <= 10000 /\ d2 \in Int /\ 0 <= d2 /\ d2 <= 10000
  BY DEF Fraction
\* The scores before the attempt are not clamped but at 0.
<1>6. Raw(x, d) >= Raw(y, d) + 1000 /\ Raw(y, d) <= 9000
  BY <1>1, <1>2 DEF Clamp, Unit
\* The other cluster gains at most what the disagreement loses.
<1>7. Linear(y2, d2) <= Linear(y, d) + 352000 * d - 352000 * d2
  <2> DEFINE s == y.share
             w == y.weight
             k == y.confidence
             e == y.entropy
             r == y.spread
             s2 == y2.share
             w2 == y2.weight
             i == Lone(y)
             j == Small(y)
             j2 == Small(y2)
  <2>1. /\ s \in Int /\ w \in Int /\ k \in Int /\ e \in Int /\ r \in Int
        /\ s2 \in Int /\ w2 \in Int /\ s2 <= s /\ w2 <= w
    BY DEF Measured, Fraction, Shrunk
  <2>2. i \in Int /\ j \in Int /\ j2 \in Int
    BY Flags
  <2>3. Lone(y2) = i
    BY DEF Lone, Shrunk
  <2>4. j <= j2
    BY <2>1 DEF Small, If
  <2>5. y2.confidence = k /\ y2.entropy = e /\ y2.spread = r
    BY DEF Shrunk
  <2>6. Linear(y, d) = 4400300 * s + 2767000 * w + 1716700 * k - 352000 * d - 160000 * r - 112000 * e
                       - 4360000000 * i - 1400000000 * j - 3800000000
    BY <1>5, <2>1, <2>2, SMT DEF Linear
  <2>7. Linear(y2, d2) = 4400300 * s2 + 2767000 * w2 + 1716700 * k - 352000 * d2 - 160000 * r - 112000 * e
                         - 4360000000 * i - 1400000000 * j2 - 3800000000
    BY <1>5, <2>1, <2>2, <2>3, <2>5, SMT DEF Linear
  <2> HIDE DEF s, w, k, e, r, s2, w2, i, j, j2
  <2> QED
    BY <1>5, <2>1, <2>2, <2>4, <2>6, <2>7, SMT
\* The winner loses 963 of the 1000, and stays above 0.
<1>8. /\ Linear(x2, d2) >= Linear(x, d) + 352000 * d - 352000 * d2 - 7704000000
      /\ Linear(x2, d2) >= 64000000
  <2> DEFINE s == x.share
             w == x.weight
             k == x.confidence
             e == x.entropy
             r == x.spread
             s2 == x2.share
             w2 == x2.weight
             k2 == x2.confidence
             e2 == x2.entropy
             r2 == x2.spread
             i == Lone(x)
             j == Small(x)
             j2 == Small(x2)
  <2>1. /\ s \in Int /\ w \in Int /\ k \in Int /\ e \in Int
        /\ r \in Int /\ 0 <= r
        /\ s2 \in Int /\ w2 \in Int /\ s2 >= s /\ w2 >= w /\ 0 <= s2
        /\ k2 \in Int /\ e2 \in Int /\ r2 \in Int /\ 0 <= k2 /\ e2 <= 10000 /\ r2 <= 10000
    BY DEF Measured, Fraction, Grown
  <2>2. i \in Int /\ 0 <= i /\ j \in Int /\ j2 \in Int /\ j2 <= 1
    BY Flags
  <2>3. Lone(x2) = 0
    BY DEF Measured, Grown, Lone, If
  <2>4. j2 <= j
    BY <2>1 DEF Small, If
  <2>5. w >= 4500
    OBVIOUS
  <2>6. \/ i = 1 /\ k2 >= k - 5000 /\ e2 <= e + 5000
        \/ k2 >= k - 3334 /\ e2 <= e + 3335
    <3>1. x.size \in Int /\ (x.size = 1 \/ x.size >= 2)
      BY DEF Measured
    <3>2. x.size = 1 => i = 1
      BY DEF Lone, If
    <3> QED
      BY <3>1, <3>2 DEF Grown
  <2>7. Linear(x, d) = 4400300 * s + 2767000 * w + 1716700 * k - 352000 * d - 160000 * r - 112000 * e
                       - 4360000000 * i - 1400000000 * j - 3800000000
    BY <1>5, <2>1, <2>2, SMT DEF Linear
  <2>8. Linear(x2, d2) = 4400300 * s2 + 2767000 * w2 + 1716700 * k2 - 352000 * d2 - 160000 * r2 - 112000 * e2
                         - 1400000000 * j2 - 3800000000
    BY <1>5, <2>1, <2>2, <2>3, SMT DEF Linear
  <2> HIDE DEF s, w, k, e, r, s2, w2, k2, e2, r2, i, j, j2
  <2>9. Linear(x2, d2) >= 64000000
    BY <1>5, <2>1, <2>2, <2>5, <2>8, SMT
  <2>10. CASE i = 1 /\ k2 >= k - 5000 /\ e2 <= e + 5000
    BY <1>5, <2>1, <2>2, <2>4, <2>7, <2>8, <2>9, <2>10, SMT
  <2>11. CASE k2 >= k - 3334 /\ e2 <= e + 3335
    BY <1>5, <2>1, <2>2, <2>4, <2>7, <2>8, <2>9, <2>11, SMT
  <2> QED
    BY <2>6, <2>10, <2>11
<1>9. Raw(x2, d2) > Raw(y2, d2) /\ Raw(x2, d2) > 0 /\ Raw(y2, d2) < 10000
  BY <1>1, <1>2, <1>3, <1>4, <1>5, <1>6, <1>7, <1>8, SMT
<1> QED
  BY <1>3, <1>4, <1>9 DEF Clamp, Unit

\* Kinds without an attempt add nothing to a sum.
LEMMA OnlyPresent ==
  ASSUME NEW f, NEW S, IsFiniteSet(S), \A x \in S : f[x] \in Nat,
         NEW T, T \subseteq S, \A x \in S \ T : f[x] = 0
  PROVE  SumFunctionOnSet(f, T) = SumFunctionOnSet(f, S)
<1> DEFINE R == S \ T
<1>1. IsFiniteSet(T) /\ IsFiniteSet(R)
  BY FS_Subset
<1>2. SumFunctionOnSet(f, S) = SumFunctionOnSet(f, T) + SumFunctionOnSet(f, R)
  BY SumParts
<1>3. SumFunctionOnSet(f, T) \in Nat /\ SumFunctionOnSet(f, R) \in Nat
  BY <1>1, SumNat
<1>4. SumFunctionOnSet(f, R) <= 0 * SumFunctionOnSet(f, R)
  <2>1. \A x \in R : f[x] \in Int /\ 0 <= f[x] /\ f[x] <= 0 * f[x]
    OBVIOUS
  <2> HIDE DEF R
  <2> QED
    BY <1>1, <2>1, SumBound, 0 \in Nat
<1> HIDE DEF R
<1> QED
  BY <1>2, <1>3, <1>4

\* The totals of a cluster, over all kinds with its answer.
Sized(bag, a) == SumFunctionOnSet(bag, For(a))
Loaded(bag, a) == SumFunctionOnSet(Weighed(bag), For(a))
Sure(bag, a) == SumFunctionOnSet(Trusted(bag), For(a))
Doubtful(bag, a) == SumFunctionOnSet(Unsure(bag), For(a))

LEMMA ClusterTotals ==
  ASSUME NEW bag \in Bags, NEW a
  PROVE  /\ Size(bag, Mine(bag, a)) = Sized(bag, a)
         /\ Total(bag, Mine(bag, a), Weight) = Loaded(bag, a)
         /\ Total(bag, Mine(bag, a), Confidence) = Sure(bag, a)
         /\ Total(bag, Mine(bag, a), Uncertainty) = Doubtful(bag, a)
         /\ All(bag) = SumFunctionOnSet(bag, Kinds)
         /\ AllWeight(bag) = SumFunctionOnSet(Weighed(bag), Kinds)
<1> DEFINE w == Weighed(bag)
           t == Trusted(bag)
           u == Unsure(bag)
           M == Mine(bag, a)
           P == Present(bag)
           F == For(a)
<1>1. /\ IsFiniteSet(F) /\ IsFiniteSet(Kinds) /\ M \subseteq F /\ P \subseteq Kinds /\ M \in SUBSET Kinds
      /\ P \in SUBSET Kinds /\ F \subseteq Kinds
  <2>1. F \subseteq Kinds /\ M \subseteq F /\ P \subseteq Kinds /\ M \subseteq Kinds
    BY DEF For, Mine, Present
  <2> QED
    BY <2>1, KindsFinite, FS_Subset
<1>2. \A x \in Kinds : /\ bag[x] \in Nat /\ w[x] \in Nat /\ t[x] \in Nat /\ u[x] \in Nat
                       /\ t[x] <= 10000 * bag[x] /\ u[x] <= 10000 * bag[x]
  BY CountsOfKinds
<1>3. \A x \in Kinds : bag[x] = 0 => w[x] = 0
  <2>1. ASSUME NEW x \in Kinds, bag[x] = 0 PROVE w[x] = 0
    <3>1. w[x] = 0 * Weight(x) /\ Weight(x) \in Nat
      BY <2>1, KindMeasures DEF Weighed
    <3> QED
      BY <3>1
  <2> QED
    BY <2>1
<1>4. \A x \in Kinds \ P : bag[x] = 0
  BY <1>2 DEF Present
<1>5. \A x \in F \ M : x \in Kinds /\ bag[x] = 0
  BY <1>2 DEF For, Mine, Present
<1> HIDE DEF w, t, u
<1>6. \A x \in F \ M : bag[x] = 0 /\ w[x] = 0 /\ t[x] = 0 /\ u[x] = 0
  <2>1. ASSUME NEW x \in F \ M PROVE bag[x] = 0 /\ w[x] = 0 /\ t[x] = 0 /\ u[x] = 0
    <3>1. x \in Kinds /\ bag[x] = 0
      BY <1>5
    <3>2. /\ t[x] \in Nat /\ u[x] \in Nat
          /\ t[x] <= 10000 * bag[x] /\ u[x] <= 10000 * bag[x]
      BY <1>2, <3>1
    <3> QED
      BY <1>3, <3>1, <3>2
  <2> QED
    BY <2>1
<1>7. \A x \in F : bag[x] \in Nat /\ w[x] \in Nat /\ t[x] \in Nat /\ u[x] \in Nat
  BY <1>1, <1>2
<1>8. \A x \in Kinds \ P : bag[x] = 0 /\ w[x] = 0
  BY <1>3, <1>4
<1> HIDE DEF M, P, F
<1>9. SumFunctionOnSet(bag, M) = SumFunctionOnSet(bag, F)
  BY <1>1, <1>6, <1>7, OnlyPresent
<1>10. SumFunctionOnSet(w, M) = SumFunctionOnSet(w, F)
  BY <1>1, <1>6, <1>7, OnlyPresent
<1>11. SumFunctionOnSet(t, M) = SumFunctionOnSet(t, F)
  BY <1>1, <1>6, <1>7, OnlyPresent
<1>12. SumFunctionOnSet(u, M) = SumFunctionOnSet(u, F)
  BY <1>1, <1>6, <1>7, OnlyPresent
<1>13. SumFunctionOnSet(bag, P) = SumFunctionOnSet(bag, Kinds)
  BY <1>1, <1>2, <1>8, OnlyPresent
<1>14. SumFunctionOnSet(w, P) = SumFunctionOnSet(w, Kinds)
  BY <1>1, <1>2, <1>8, OnlyPresent
<1>15. /\ Size(bag, M) = SumFunctionOnSet(bag, M)
       /\ Total(bag, M, Weight) = SumFunctionOnSet(w, M)
       /\ Total(bag, M, Confidence) = SumFunctionOnSet(t, M)
       /\ Total(bag, M, Uncertainty) = SumFunctionOnSet(u, M)
  BY <1>1, TotalsAreSums DEF w, t, u
<1>16. All(bag) = SumFunctionOnSet(bag, P) /\ AllWeight(bag) = SumFunctionOnSet(w, P)
  BY <1>1, TotalsAreSums DEF w, P, All, AllWeight
<1> QED
  BY <1>9, <1>10, <1>11, <1>12, <1>13, <1>14, <1>15, <1>16
     DEF w, t, u, M, P, F, Sized, Loaded, Sure, Doubtful

\* What an attempt more adds to the totals.
LEMMA TotalsRise ==
  ASSUME NEW bag \in Bags, NEW kind \in Kinds
  PROVE  LET more == Plus(bag, kind)
             a == kind.answer
         IN  /\ Sized(more, a) = Sized(bag, a) + 1
             /\ Loaded(more, a) = Loaded(bag, a) + Weight(kind)
             /\ Sure(more, a) = Sure(bag, a) + Confidence(kind)
             /\ Doubtful(more, a) = Doubtful(bag, a) + Uncertainty(kind)
             /\ SumFunctionOnSet(more, Kinds) = SumFunctionOnSet(bag, Kinds) + 1
             /\ SumFunctionOnSet(Weighed(more), Kinds) = SumFunctionOnSet(Weighed(bag), Kinds) + Weight(kind)
<1> DEFINE more == Plus(bag, kind)
           F == For(kind.answer)
           w == Weighed(bag)
           t == Trusted(bag)
           u == Unsure(bag)
           v == Weighed(more)
           p == Trusted(more)
           q == Unsure(more)
           h == Weight(kind)
           c == Confidence(kind)
           e == Uncertainty(kind)
<1>1. /\ IsFiniteSet(F) /\ IsFiniteSet(Kinds) /\ F \subseteq Kinds /\ kind \in F
  <2>1. F \subseteq Kinds /\ kind \in F
    BY DEF For
  <2> QED
    BY <2>1, KindsFinite, FS_Subset
<1>2. \A x \in Kinds : /\ bag[x] \in Nat /\ w[x] \in Nat /\ t[x] \in Nat /\ u[x] \in Nat
  BY CountsOfKinds
<1>3. \A x \in Kinds : more[x] = IF x = kind THEN bag[x] + 1 ELSE bag[x]
  BY DEF Plus, Bags
<1>4. h \in Nat /\ c \in Nat /\ e \in Nat
  BY KindMeasures DEF Fraction
<1>5. \A x \in Kinds : /\ w[x] = bag[x] * Weight(x) /\ v[x] = more[x] * Weight(x)
                       /\ t[x] = bag[x] * Confidence(x) /\ p[x] = more[x] * Confidence(x)
                       /\ u[x] = bag[x] * Uncertainty(x) /\ q[x] = more[x] * Uncertainty(x)
  BY DEF Weighed, Trusted, Unsure
<1> HIDE DEF more, F, w, t, u, v, p, q, h, c, e
<1>6. /\ v[kind] = w[kind] + h /\ p[kind] = t[kind] + c /\ q[kind] = u[kind] + e
  <2> DEFINE n == bag[kind]
  <2>1. n \in Nat /\ more[kind] = n + 1
    BY <1>2, <1>3
  <2>2. /\ w[kind] = n * h /\ v[kind] = (n + 1) * h
        /\ t[kind] = n * c /\ p[kind] = (n + 1) * c
        /\ u[kind] = n * e /\ q[kind] = (n + 1) * e
    BY <1>5, <2>1 DEF h, c, e
  <2> HIDE DEF n
  <2>3. (n + 1) * h = n * h + h
    BY <1>4, <2>1
  <2>4. (n + 1) * c = n * c + c
    BY <1>4, <2>1
  <2>5. (n + 1) * e = n * e + e
    BY <1>4, <2>1
  <2> QED
    BY <2>2, <2>3, <2>4, <2>5
<1>7. \A x \in Kinds : x # kind => v[x] = w[x] /\ p[x] = t[x] /\ q[x] = u[x]
  BY <1>3, <1>5
<1>8. \A x \in Kinds : v[x] = IF x = kind THEN w[x] + h ELSE w[x]
  BY <1>6, <1>7
<1>9. \A x \in Kinds : p[x] = IF x = kind THEN t[x] + c ELSE t[x]
  BY <1>6, <1>7
<1>10. \A x \in Kinds : q[x] = IF x = kind THEN u[x] + e ELSE u[x]
  BY <1>6, <1>7
<1>11. SumFunctionOnSet(v, F) = SumFunctionOnSet(w, F) + h
  <2>1. \A x \in F : w[x] \in Nat /\ v[x] = IF x = kind THEN w[x] + h ELSE w[x]
    BY <1>1, <1>2, <1>8
  <2> QED
    BY <1>1, <1>4, <2>1, SumRaised
<1>12. SumFunctionOnSet(p, F) = SumFunctionOnSet(t, F) + c
  <2>1. \A x \in F : t[x] \in Nat /\ p[x] = IF x = kind THEN t[x] + c ELSE t[x]
    BY <1>1, <1>2, <1>9
  <2> QED
    BY <1>1, <1>4, <2>1, SumRaised
<1>13. SumFunctionOnSet(q, F) = SumFunctionOnSet(u, F) + e
  <2>1. \A x \in F : u[x] \in Nat /\ q[x] = IF x = kind THEN u[x] + e ELSE u[x]
    BY <1>1, <1>2, <1>10
  <2> QED
    BY <1>1, <1>4, <2>1, SumRaised
<1>14. SumFunctionOnSet(v, Kinds) = SumFunctionOnSet(w, Kinds) + h
  <2>1. \A x \in Kinds : w[x] \in Nat /\ v[x] = IF x = kind THEN w[x] + h ELSE w[x]
    BY <1>2, <1>8
  <2> QED
    BY <1>1, <1>4, <2>1, SumRaised
<1>15. /\ SumFunctionOnSet(more, F) = SumFunctionOnSet(bag, F) + 1
       /\ SumFunctionOnSet(more, Kinds) = SumFunctionOnSet(bag, Kinds) + 1
  <2> DEFINE d == 1
  <2>1. d \in Nat /\ \A x \in Kinds : bag[x] \in Nat /\ more[x] = IF x = kind THEN bag[x] + d ELSE bag[x]
    BY <1>2, <1>3
  <2> HIDE DEF d
  <2>2. \A x \in F : bag[x] \in Nat /\ more[x] = IF x = kind THEN bag[x] + d ELSE bag[x]
    BY <1>1, <2>1
  <2>3. SumFunctionOnSet(more, F) = SumFunctionOnSet(bag, F) + d
    BY <1>1, <2>1, <2>2, SumRaised
  <2>4. SumFunctionOnSet(more, Kinds) = SumFunctionOnSet(bag, Kinds) + d
    BY <1>1, <2>1, SumRaised
  <2> QED
    BY <2>3, <2>4 DEF d
<1> QED
  BY <1>11, <1>12, <1>13, <1>14, <1>15 DEF more, F, w, t, u, v, p, q, h, c, e, Sized, Loaded, Sure, Doubtful

LEMMA FoundStays ==
  ASSUME NEW bag \in Bags, NEW kind \in Kinds, kind.answer \in Found(bag)
  PROVE  Plus(bag, kind) \in Bags /\ Found(Plus(bag, kind)) = Found(bag)
<1> DEFINE more == Plus(bag, kind)
<1>1. more \in Bags
  BY OneMore
<1>2. \A x \in Kinds : more[x] = IF x = kind THEN bag[x] + 1 ELSE bag[x]
  BY DEF Plus, Bags
<1>3. \A x \in Kinds : bag[x] \in Nat
  BY DEF Bags
<1> HIDE DEF more
<1>4. Present(more) = Present(bag) \cup {kind}
  BY <1>2, <1>3 DEF Present
<1>5. Found(more) = Found(bag) \cup {kind.answer}
  BY <1>4 DEF Found
<1> QED
  BY <1>1, <1>5 DEF more

LEMMA ClusterGrown ==
  ASSUME NEW bag \in Bags, NEW kind \in Kinds, kind.answer \in Found(bag)
  PROVE  Grown(Cluster(bag, kind.answer), Cluster(Plus(bag, kind), kind.answer))
<1> DEFINE a == kind.answer
           more == Plus(bag, kind)
           x == Cluster(bag, a)
           x2 == Cluster(more, a)
           n == Sized(bag, a)
           N == SumFunctionOnSet(bag, Kinds)
           w == Loaded(bag, a)
           W == SumFunctionOnSet(Weighed(bag), Kinds)
           t == Sure(bag, a)
           u == Doubtful(bag, a)
           h == Weight(kind)
           c == Confidence(kind)
           e == Uncertainty(kind)
<1>1. more \in Bags
  BY FoundStays
<1>2. /\ x.size = n /\ x.share = (10000 * n) \div N /\ x.weight = (10000 * w) \div W
      /\ x.confidence = t \div n /\ x.entropy = u \div n
  BY ClusterFields, ClusterTotals
<1>3. /\ x2.size = n + 1 /\ x2.share = (10000 * (n + 1)) \div (N + 1)
      /\ x2.weight = (10000 * (w + h)) \div (W + h)
      /\ x2.confidence = (t + c) \div (n + 1) /\ x2.entropy = (u + e) \div (n + 1)
  <2>1. /\ x2.size = Sized(more, a)
        /\ x2.share = (10000 * Sized(more, a)) \div SumFunctionOnSet(more, Kinds)
        /\ x2.weight = (10000 * Loaded(more, a)) \div SumFunctionOnSet(Weighed(more), Kinds)
        /\ x2.confidence = Sure(more, a) \div Sized(more, a)
        /\ x2.entropy = Doubtful(more, a) \div Sized(more, a)
    BY <1>1, ClusterFields, ClusterTotals
  <2>2. /\ Sized(more, a) = n + 1 /\ Loaded(more, a) = w + h
        /\ Sure(more, a) = t + c /\ Doubtful(more, a) = u + e
        /\ SumFunctionOnSet(more, Kinds) = N + 1
        /\ SumFunctionOnSet(Weighed(more), Kinds) = W + h
    BY TotalsRise
  <2> HIDE DEF x2, more, n, N, w, W, t, u, h, c, e
  <2> QED
    BY <2>1, <2>2
<1>4. /\ n \in Nat /\ 1 <= n /\ n <= N /\ N \in Nat
      /\ w \in Nat /\ w <= W /\ W \in Nat /\ 1 <= W
      /\ t \in Nat /\ u \in Nat
  <2>1. /\ Size(bag, Mine(bag, a)) \in Nat /\ 1 <= Size(bag, Mine(bag, a))
        /\ Size(bag, Mine(bag, a)) <= All(bag)
        /\ All(bag) \in Nat /\ AllWeight(bag) \in Nat /\ 1 <= AllWeight(bag)
        /\ Total(bag, Mine(bag, a), Weight) \in Nat /\ Total(bag, Mine(bag, a), Weight) <= AllWeight(bag)
        /\ Total(bag, Mine(bag, a), Confidence) \in Nat
        /\ Total(bag, Mine(bag, a), Uncertainty) \in Nat
    BY MineCounts
  <2> QED
    BY <2>1, ClusterTotals
<1>5. h \in Nat /\ Fraction(c) /\ Fraction(e)
  BY KindMeasures
<1>6. Fraction(x.confidence) /\ Fraction(x.entropy)
  BY ClusterMeasured DEF Measured
<1> HIDE DEF x, x2, n, N, w, W, t, u, h, c, e
<1>7. x2.share >= x.share
  <2> DEFINE d == 1
  <2>1. d \in Nat /\ N >= 1
    BY <1>4
  <2> HIDE DEF d
  <2>2. (10000 * n) \div N <= (10000 * (n + d)) \div (N + d)
    BY <1>4, <2>1, GrowsWith
  <2>3. x.share <= x2.share
    BY <1>2, <1>3, <2>2 DEF d
  <2>4. x.share \in Int /\ x2.share \in Int
    BY <1>2, <1>3, <1>4
  <2> QED
    BY <2>3, <2>4
<1>8. x2.weight >= x.weight
  <2>1. (10000 * w) \div W <= (10000 * (w + h)) \div (W + h)
    BY <1>4, <1>5, GrowsWith
  <2>2. x.weight \in Int /\ x2.weight \in Int
    <3>1. W + h \in Nat /\ W + h > 0 /\ 10000 * (w + h) \in Int /\ 10000 * w \in Int
      BY <1>4, <1>5
    <3> QED
      BY <1>2, <1>3, <1>4, <3>1, DivBy
  <2> QED
    BY <1>2, <1>3, <2>1, <2>2
<1>9. /\ n = 1 => x2.confidence >= x.confidence - 5000 /\ x2.entropy <= x.entropy + 5000
      /\ n >= 2 => x2.confidence >= x.confidence - 3334 /\ x2.entropy <= x.entropy + 3335
  <2>1. Fraction(t \div n) /\ Fraction(u \div n) /\ n >= 1
    BY <1>2, <1>4, <1>6
  <2>2. Near(n, (t + c) \div (n + 1), t \div n)
    BY <1>4, <1>5, <2>1, Diluted
  <2>3. Near(n, (u + e) \div (n + 1), u \div n)
    BY <1>4, <1>5, <2>1, Diluted
  <2>4. Near(n, x2.confidence, x.confidence) /\ Near(n, x2.entropy, x.entropy)
    BY <1>2, <1>3, <2>2, <2>3
  <2> QED
    BY <2>4 DEF Near
<1> QED
  BY <1>2, <1>3, <1>7, <1>8, <1>9 DEF Grown, x, x2, more

LEMMA ClusterShrunk ==
  ASSUME NEW bag \in Bags, NEW kind \in Kinds, NEW b \in Found(bag), b # kind.answer
  PROVE  Shrunk(Cluster(bag, b), Cluster(Plus(bag, kind), b))
<1> DEFINE more == Plus(bag, kind)
           M == Mine(bag, b)
           y == Cluster(bag, b)
           y2 == Cluster(more, b)
           m == Sized(bag, b)
           N == SumFunctionOnSet(bag, Kinds)
           w == Loaded(bag, b)
           W == SumFunctionOnSet(Weighed(bag), Kinds)
           h == Weight(kind)
<1>1. more \in Bags
  BY OneMore
<1>2. \A x \in Kinds : more[x] = IF x = kind THEN bag[x] + 1 ELSE bag[x]
  BY DEF Plus, Bags
<1>3. \A x \in For(b) : x \in Kinds /\ more[x] = bag[x]
  BY <1>2 DEF For
<1>4. Mine(more, b) = M
  <2> HIDE DEF more
  <2> QED
    BY <1>3 DEF Mine, Present, For
<1>5. /\ Sized(more, b) = m /\ Loaded(more, b) = w
      /\ Sure(more, b) = Sure(bag, b) /\ Doubtful(more, b) = Doubtful(bag, b)
  <2> DEFINE F == For(b)
             v == Weighed(bag)
             p == Trusted(bag)
             q == Unsure(bag)
             v2 == Weighed(more)
             p2 == Trusted(more)
             q2 == Unsure(more)
  <2>1. F \subseteq Kinds /\ IsFiniteSet(F)
    <3>1. F \subseteq Kinds
      BY DEF For
    <3> QED
      BY <3>1, KindsFinite, FS_Subset
  <2>2. \A x \in F : /\ bag[x] \in Nat /\ v[x] \in Nat /\ p[x] \in Nat /\ q[x] \in Nat
    BY <2>1, CountsOfKinds
  <2>3. \A x \in F : more[x] = bag[x] /\ v2[x] = v[x] /\ p2[x] = p[x] /\ q2[x] = q[x]
    BY <1>3, <2>1 DEF Weighed, Trusted, Unsure
  <2> HIDE DEF F, v, p, q, v2, p2, q2, more
  <2>4. SumFunctionOnSet(more, F) = SumFunctionOnSet(bag, F)
    BY <2>1, <2>2, <2>3, SumSame
  <2>5. SumFunctionOnSet(v2, F) = SumFunctionOnSet(v, F)
    BY <2>1, <2>2, <2>3, SumSame
  <2>6. SumFunctionOnSet(p2, F) = SumFunctionOnSet(p, F)
    BY <2>1, <2>2, <2>3, SumSame
  <2>7. SumFunctionOnSet(q2, F) = SumFunctionOnSet(q, F)
    BY <2>1, <2>2, <2>3, SumSame
  <2> QED
    BY <2>4, <2>5, <2>6, <2>7 DEF F, v, p, q, v2, p2, q2, Sized, Loaded, Sure, Doubtful
<1>6. /\ y.size = m /\ y.share = (10000 * m) \div N /\ y.weight = (10000 * w) \div W
      /\ y.confidence = Sure(bag, b) \div m /\ y.entropy = Doubtful(bag, b) \div m
      /\ y.spread = Max(Levels(bag, b)) - Min(Levels(bag, b))
  BY ClusterFields, ClusterTotals
<1>7. /\ y2.size = m /\ y2.share = (10000 * m) \div (N + 1)
      /\ y2.weight = (10000 * w) \div (W + h)
      /\ y2.confidence = Sure(bag, b) \div m /\ y2.entropy = Doubtful(bag, b) \div m
      /\ y2.spread = Max(Levels(bag, b)) - Min(Levels(bag, b))
  <2>1. /\ y2.size = Sized(more, b)
        /\ y2.share = (10000 * Sized(more, b)) \div SumFunctionOnSet(more, Kinds)
        /\ y2.weight = (10000 * Loaded(more, b)) \div SumFunctionOnSet(Weighed(more), Kinds)
        /\ y2.confidence = Sure(more, b) \div Sized(more, b)
        /\ y2.entropy = Doubtful(more, b) \div Sized(more, b)
        /\ y2.spread = Max(Levels(more, b)) - Min(Levels(more, b))
    BY <1>1, ClusterFields, ClusterTotals
  <2>2. /\ SumFunctionOnSet(more, Kinds) = N + 1
        /\ SumFunctionOnSet(Weighed(more), Kinds) = W + h
    BY TotalsRise
  <2>3. Levels(more, b) = Levels(bag, b)
    BY <1>4 DEF Levels
  <2> HIDE DEF y2, more, m, N, w, W, h, M
  <2> QED
    BY <1>5, <2>1, <2>2, <2>3
<1>8. /\ m \in Nat /\ 1 <= m /\ m <= N /\ N \in Nat
      /\ w \in Nat /\ W \in Nat /\ 1 <= W
  <2>1. /\ Size(bag, M) \in Nat /\ 1 <= Size(bag, M) /\ Size(bag, M) <= All(bag)
        /\ All(bag) \in Nat /\ AllWeight(bag) \in Nat /\ 1 <= AllWeight(bag)
        /\ Total(bag, M, Weight) \in Nat
    BY MineCounts
  <2> QED
    BY <2>1, ClusterTotals
<1>9. h \in Nat
  BY KindMeasures
<1> HIDE DEF y, y2, m, N, w, W, h, more, M
<1>10. y2.share <= y.share
  <2> DEFINE d == 1
  <2>1. d \in Nat /\ N >= 1
    BY <1>8
  <2> HIDE DEF d
  <2>2. (10000 * m) \div (N + d) <= (10000 * m) \div N
    BY <1>8, <2>1, ShrinksBelow
  <2> QED
    BY <1>6, <1>7, <2>2 DEF d
<1>11. y2.weight <= y.weight
  <2>1. (10000 * w) \div (W + h) <= (10000 * w) \div W
    BY <1>8, <1>9, ShrinksBelow
  <2> QED
    BY <1>6, <1>7, <2>1
<1> QED
  BY <1>6, <1>7, <1>10, <1>11 DEF Shrunk, y, y2, more

-----------------------------------------------------------------------------
\* The answer with the best score is chosen.
LEMMA BestIsChosen ==
  ASSUME NEW bag \in Bags, NEW a \in Found(bag),
         \A b \in Found(bag) : b # a => Row(bag, a).score > Row(bag, b).score
  PROVE  Chosen(bag) = a
<1> DEFINE r == Ranking(bag)
<1>1. /\ Len(r) \in Nat /\ Len(r) >= 1 /\ DOMAIN r = 1..Len(r)
      /\ \A i \in DOMAIN r : /\ r[i].cluster.answer \in Found(bag)
                             /\ r[i] = Row(bag, r[i].cluster.answer)
      /\ \A i, j \in DOMAIN r : Outranks(r[i], r[j]) => i < j
      /\ \A b \in Found(bag) : \E i \in DOMAIN r : r[i] = Row(bag, b)
  BY RankingFacts
<1> DEFINE b == r[1].cluster.answer
<1>2. 1 \in DOMAIN r /\ b \in Found(bag) /\ r[1] = Row(bag, b)
  BY <1>1
<1>3. PICK i \in DOMAIN r : r[i] = Row(bag, a)
  BY <1>1
<1> HIDE DEF b
<1>4. ASSUME b # a PROVE FALSE
  <2> DEFINE k == Key(Row(bag, a).cluster, Row(bag, a).score)
             l == Key(Row(bag, b).cluster, Row(bag, b).score)
  <2>1. k \in [1..6 -> Int] /\ l \in [1..6 -> Int]
    BY <1>2, KeyOf
  <2>2. k[1] = Row(bag, a).score /\ l[1] = Row(bag, b).score
    BY DEF Key
  <2>3. Row(bag, a).score > Row(bag, b).score
    BY <1>2, <1>4
  <2> HIDE DEF k, l
  <2>4. Above(k, l)
    BY <2>1, <2>2, <2>3 DEF Above
  <2>5. Outranks(Row(bag, a), Row(bag, b))
    BY <2>4 DEF Outranks, k, l
  <2>6. i < 1
    BY <1>1, <1>2, <1>3, <2>5
  <2> QED
    BY <1>1, <1>3, <2>6
<1>5. Chosen(bag) = b
  BY DEF Chosen, b
<1> QED
  BY <1>4, <1>5

LEMMA Unmarked ==
  ASSUME NEW tests, Marked(tests) = {}, NEW name, NEW p \in BOOLEAN, <<name, p>> \in tests
  PROVE  ~p
<1> SUFFICES ASSUME p PROVE FALSE
  OBVIOUS
<1> DEFINE t == <<name, p>>
<1>1. t \in tests /\ t[2] = p /\ t[1] = name
  OBVIOUS
<1> HIDE DEF t
<1>2. t \in {test \in tests : test[2]}
  BY <1>1
<1>3. t[1] \in Marked(tests)
  BY <1>2 DEF Marked
<1> QED
  BY <1>3

\* A selection without a doubt.
LEMMA Undoubted ==
  ASSUME NEW bag \in Bags, Doubts(bag) = {}
  PROVE  /\ Present(bag) # {}
         /\ ~(PredictionConfidence(Ranking(bag)) < MinConfidence)
         /\ ~(Ranking(bag)[1].cluster.weight < MinAgreement)
         /\ ~(Margin(Ranking(bag)) < LowMargin)
<1> DEFINE ranking == Ranking(bag)
           measured == {kind \in Present(bag) : ~Silent(kind)}
           tests == {
             <<"low_confidence", PredictionConfidence(ranking) < MinConfidence>>,
             <<"low_agreement", ranking[1].cluster.weight < MinAgreement>>,
             <<"low_margin", Margin(ranking) < LowMargin>>,
             <<"high_true_entropy", measured # {} /\
                Total(bag, measured, LAMBDA kind : kind.entropy) >= HighEntropy * Size(bag, measured)>>,
             <<"fragmented_answer_families", DisagreementLevel(ranking) >= Fragmentation>>,
             <<"warning_high_disagreement", "high_disagreement" \in Warnings(ranking)>>}
<1>1. Present(bag) # {}
  BY DEF Doubts
<1>2. Marked(tests) = {}
  BY <1>1 DEF Doubts
<1> DEFINE p == PredictionConfidence(ranking) < MinConfidence
           q == ranking[1].cluster.weight < MinAgreement
           s == Margin(ranking) < LowMargin
<1>3. /\ <<"low_confidence", p>> \in tests
      /\ <<"low_agreement", q>> \in tests
      /\ <<"low_margin", s>> \in tests
  OBVIOUS
<1>4. p \in BOOLEAN /\ q \in BOOLEAN /\ s \in BOOLEAN
  OBVIOUS
<1> HIDE DEF tests, p, q, s
<1>5. ~p /\ ~q /\ ~s
  BY <1>2, <1>3, <1>4, Unmarked
<1> QED
  BY <1>1, <1>5 DEF p, q, s

\* The first of the ranking, and what the others score less.
LEMMA FirstRanked ==
  ASSUME NEW bag \in Bags, Found(bag) # {}
  PROVE  LET r == Ranking(bag)
             a == r[1].cluster.answer
         IN  /\ Len(r) \in Nat /\ Len(r) >= 1
             /\ a \in Found(bag) /\ r[1] = Row(bag, a)
             /\ Len(r) = 1 => \A b \in Found(bag) : b = a
             /\ Len(r) > 1 => /\ r[2].cluster.answer \in Found(bag) /\ r[2].cluster.answer # a
                              /\ r[2] = Row(bag, r[2].cluster.answer)
             /\ \A b \in Found(bag) : b # a => Row(bag, b).score <= r[2].score
             /\ \A b \in Found(bag) : Row(bag, b).score <= r[1].score
<1> DEFINE r == Ranking(bag)
           a == r[1].cluster.answer
<1>1. /\ Len(r) \in Nat /\ Len(r) >= 1 /\ DOMAIN r = 1..Len(r)
      /\ \A i \in DOMAIN r : /\ r[i].cluster.answer \in Found(bag)
                             /\ r[i] = Row(bag, r[i].cluster.answer)
      /\ \A i, j \in DOMAIN r : i < j => Outranks(r[i], r[j])
      /\ \A i, j \in DOMAIN r : r[i].cluster.answer = r[j].cluster.answer => i = j
      /\ \A b \in Found(bag) : \E i \in DOMAIN r : r[i] = Row(bag, b)
  BY RankingFacts
<1>2. \A b \in Found(bag) : Row(bag, b).cluster.answer = b /\ Row(bag, b).score \in Int
  BY ClusterMeasured, KeyOf DEF Fraction, Row
<1> HIDE DEF r
<1>3. 1 \in DOMAIN r /\ a \in Found(bag) /\ r[1] = Row(bag, a)
  BY <1>1
<1>4. \A i \in DOMAIN r : r[i].score \in Int
  BY <1>1, <1>2
<1>5. ASSUME NEW i \in DOMAIN r, NEW j \in DOMAIN r, i <= j
      PROVE  r[j].score <= r[i].score
  <2>1. CASE i = j
    BY <1>4, <2>1
  <2>2. CASE i < j
    <3> DEFINE k == Key(r[i].cluster, r[i].score)
               l == Key(r[j].cluster, r[j].score)
    <3>1. k \in [1..6 -> Int] /\ l \in [1..6 -> Int] /\ k[1] = r[i].score /\ l[1] = r[j].score
      <4>1. k[1] = r[i].score /\ l[1] = r[j].score
        BY DEF Key
      <4>2. k \in [1..6 -> Int]
        <5>1. r[i].cluster.answer \in Found(bag) /\ r[i] = Row(bag, r[i].cluster.answer)
          BY <1>1
        <5> QED
          BY <5>1, KeyOf
      <4>3. l \in [1..6 -> Int]
        <5>1. r[j].cluster.answer \in Found(bag) /\ r[j] = Row(bag, r[j].cluster.answer)
          BY <1>1
        <5> QED
          BY <5>1, KeyOf
      <4> QED
        BY <4>1, <4>2, <4>3
    <3>2. Above(k, l)
      BY <1>1, <2>2 DEF Outranks
    <3> HIDE DEF k, l
    <3>3. PICK h \in 1..6 : k[h] > l[h] /\ \A m \in 1..(h - 1) : k[m] = l[m]
      BY <3>1, <3>2 DEF Above
    <3>4. k[1] >= l[1]
      <4>1. CASE h = 1
        BY <3>1, <3>3, <4>1
      <4>2. CASE h # 1
        BY <3>1, <3>3, <4>2
      <4> QED
        BY <4>1, <4>2
    <3> QED
      BY <1>4, <3>1, <3>4
  <2> QED
    BY <1>1, <1>5, <2>1, <2>2
<1>6. ASSUME Len(r) = 1, NEW b \in Found(bag) PROVE b = a
  <2>1. PICK i \in DOMAIN r : r[i] = Row(bag, b)
    BY <1>1
  <2>2. i = 1
    BY <1>1, <1>6
  <2> QED
    BY <1>2, <2>1, <2>2
<1>7. ASSUME Len(r) > 1
      PROVE  /\ r[2].cluster.answer \in Found(bag) /\ r[2].cluster.answer # a
             /\ r[2] = Row(bag, r[2].cluster.answer)
  <2>1. 2 \in DOMAIN r
    BY <1>1, <1>7
  <2>2. r[2].cluster.answer = r[1].cluster.answer => FALSE
    BY <1>1, <1>3, <2>1
  <2> QED
    BY <1>1, <2>1, <2>2
<1>8. ASSUME NEW b \in Found(bag), b # a PROVE Row(bag, b).score <= r[2].score
  <2>1. PICK i \in DOMAIN r : r[i] = Row(bag, b)
    BY <1>1
  <2>2. i # 1
    BY <1>2, <1>8, <2>1
  <2>3. i \in Int /\ 2 <= i /\ 2 \in DOMAIN r
    BY <1>1, <2>2
  <2>4. r[i].score <= r[2].score
    BY <1>5, <2>3
  <2> QED
    BY <2>1, <2>4
<1>9. ASSUME NEW b \in Found(bag) PROVE Row(bag, b).score <= r[1].score
  <2>1. PICK i \in DOMAIN r : r[i] = Row(bag, b)
    BY <1>1
  <2>2. i \in Int /\ 1 <= i
    BY <1>1
  <2>3. r[i].score <= r[1].score
    BY <1>3, <1>5, <2>2
  <2> QED
    BY <2>1, <2>3
<1> HIDE DEF a
<1>10. /\ Len(r) = 1 => \A b \in Found(bag) : b = a
       /\ \A b \in Found(bag) : b # a => Row(bag, b).score <= r[2].score
       /\ \A b \in Found(bag) : Row(bag, b).score <= r[1].score
  BY <1>6, <1>8, <1>9
<1> QED
  BY <1>1, <1>3, <1>7, <1>10 DEF a, r

\* An attempt more for the answer that leads by a margin leaves it in front.
LEMMA LeadHolds ==
  ASSUME NEW bag \in Bags, NEW kind \in Kinds, NEW a \in Found(bag), kind.answer = a,
         \A b \in Found(bag) : b # a => Row(bag, a).score >= Row(bag, b).score + 1000,
         Cluster(bag, a).weight >= 4500
  PROVE  Chosen(Plus(bag, kind)) = a
<1> DEFINE more == Plus(bag, kind)
<1>1. more \in Bags /\ Found(more) = Found(bag)
  BY FoundStays
<1>2. ASSUME NEW b \in Found(bag), b # a
      PROVE  Row(more, a).score > Row(more, b).score
  <2> DEFINE x == Cluster(bag, a)
             y == Cluster(bag, b)
             x2 == Cluster(more, a)
             y2 == Cluster(more, b)
             d == Apart(bag)
             d2 == Apart(more)
  <2>1. Measured(x) /\ Measured(y) /\ Measured(x2) /\ Measured(y2)
    BY <1>1, ClusterMeasured
  <2>2. Fraction(d) /\ Fraction(d2)
    BY <1>1, ClustersMeasured
  <2>3. Grown(x, x2)
    BY ClusterGrown
  <2>4. Shrunk(y, y2)
    BY <1>2, ClusterShrunk
  <2>5. /\ Row(bag, a).score = Score(x, d) /\ Row(bag, b).score = Score(y, d)
        /\ Row(more, a).score = Score(x2, d2) /\ Row(more, b).score = Score(y2, d2)
    BY DEF Row
  <2>6. Row(bag, a).score >= Row(bag, b).score + 1000 /\ x.weight >= 4500
    BY <1>2
  <2> HIDE DEF x, y, x2, y2, d, d2, more
  <2>7. Score(x2, d2) > Score(y2, d2)
    BY <2>1, <2>2, <2>3, <2>4, <2>5, <2>6, MarginHolds
  <2> QED
    BY <2>5, <2>7
<1> HIDE DEF more
<1>3. Chosen(more) = a
  BY <1>1, <1>2, BestIsChosen
<1> QED
  BY <1>3 DEF more

\* With a margin of at least 0.1 and an agreement of at least 0.45 (the runner asks
\* for 0.12 and 0.6), a selection kept after all attempts does not hang on a failed
\* one: an attempt more for the same answer, however unsure, costs it less than the
\* margin that _attempt_escalation_reasons asked of it.
THEOREM KeptIsAlwaysRobust ==
  ASSUME LowMargin >= 1000, MinAgreement >= 4500
  PROVE  Spec => []KeptIsRobust
<1>1. SelectionInv => KeptIsRobust
  <2> SUFFICES ASSUME SelectionInv, pc = "kept", selection.method # "minimal_early_stop_consensus",
                      NEW kind \in Kinds, kind.answer = selection.answers[1]
               PROVE  Chosen(Plus(votes, kind)) = kind.answer
    BY DEF KeptIsRobust, Plus
  <2> DEFINE r == Ranking(votes)
             a == r[1].cluster.answer
  <2>1. votes \in Bags /\ selection.answers = Answered(votes) /\ Doubts(votes) = {}
    BY DEF SelectionInv, Selected
  <2>2. /\ Present(votes) # {}
        /\ ~(r[1].cluster.weight < MinAgreement)
        /\ ~(Margin(r) < LowMargin)
    BY <2>1, Undoubted
  <2>3. Found(votes) # {}
    BY <2>1, <2>2, AnsweredFacts
  <2>4. /\ Len(r) \in Nat /\ Len(r) >= 1
        /\ a \in Found(votes) /\ r[1] = Row(votes, a)
        /\ Len(r) = 1 => \A b \in Found(votes) : b = a
        /\ Len(r) > 1 => /\ r[2].cluster.answer \in Found(votes)
                         /\ r[2] = Row(votes, r[2].cluster.answer)
        /\ \A b \in Found(votes) : b # a => Row(votes, b).score <= r[2].score
    BY <2>1, <2>3, FirstRanked
  <2>5. kind.answer = a
    <3>1. 1 \in DOMAIN r
      BY <2>1, <2>3, RankingFacts
    <3> QED
      BY <2>1, <2>2, <3>1 DEF Answered
  <2>6. LowMargin \in Nat /\ MinAgreement \in Nat
    BY SelectionAssumption
  <2>7. \A b \in Found(votes) : Row(votes, b).score \in Int
    BY <2>1, KeyOf DEF Fraction
  <2>8. ASSUME NEW b \in Found(votes), b # a
        PROVE  Row(votes, a).score >= Row(votes, b).score + 1000
    <3>1. Len(r) > 1
      <4> DEFINE n == Len(r)
      <4>1. n \in Nat /\ n >= 1
        BY <2>4
      <4>2. n # 1
        BY <2>4, <2>8
      <4> HIDE DEF n
      <4>3. n > 1
        BY <4>1, <4>2
      <4> QED
        BY <4>3 DEF n
    <3>2. r[2].score \in Int /\ r[1].score \in Int
      BY <2>4, <2>7, <3>1
    <3>3. Margin(r) = r[1].score - r[2].score
      BY <3>1 DEF Margin
    <3>4. r[1].score - r[2].score >= 1000
      BY <2>2, <2>6, <3>2, <3>3
    <3>5. Row(votes, b).score <= r[2].score /\ Row(votes, b).score \in Int
      BY <2>4, <2>7, <2>8
    <3>6. Row(votes, a).score = r[1].score
      BY <2>4
    <3> QED
      BY <3>2, <3>4, <3>5, <3>6
  <2>9. Cluster(votes, a).weight >= 4500
    <3>1. Cluster(votes, a) = r[1].cluster
      BY <2>4 DEF Row
    <3>2. Cluster(votes, a).weight \in Int
      BY <2>1, <2>4, ClusterMeasured DEF Measured, Fraction
    <3> QED
      BY <2>2, <2>6, <3>1, <3>2
  <2> HIDE DEF a, r
  <2>10. Chosen(Plus(votes, kind)) = a
    BY <2>1, <2>4, <2>5, <2>8, <2>9, LeadHolds
  <2> QED
    BY <2>5, <2>10
<1> QED
  BY <1>1, SelectionInvariant, PTL

-----------------------------------------------------------------------------
\* What is always taken off the score of a winner that is not alone: the
\* disagreement, the pressure to abstain, and the warning of a low discharge.
LEMMA WarningsCounted ==
  ASSUME NEW r
  PROVE  Cardinality(Warnings(r)) \in Nat /\ Cardinality(Warnings(r)) >= 1
<1> DEFINE W == Warnings(r)
           N == {"low_discharge", "low_confidence"} \cup {"low_margin", "high_disagreement"}
                \cup {"fragile_winner", "outlier_winner"} \cup {"weak_evidence", "cluster_caution"}
                \cup {"abstention_recommended", "low_discharge"}
<1>1. IsFiniteSet(N)
  BY PairFinite, FS_Union
<1>2. W \subseteq N
  BY DEF Warnings, Marked
<1>3. "low_discharge" \in W
  BY DEF Warnings
<1> HIDE DEF N, W
<1>4. IsFiniteSet(W) /\ Cardinality(W) \in Nat
  BY <1>1, <1>2, FS_Subset, FS_CardinalityType
<1>5. Cardinality(W) # 0
  BY <1>3, <1>4, FS_EmptySet
<1> QED
  BY <1>4, <1>5 DEF W

LEMMA DiscordAtLeast ==
  ASSUME NEW r, Len(r) # 1, Len(r) > 1,
         Measured(r[1].cluster), Measured(r[2].cluster),
         Fraction(r[1].score), Fraction(r[2].score), r[2].score <= r[1].score
  PROVE  /\ Margin(r) = r[1].score - r[2].score
         /\ Fraction(DisagreementLevel(r))
         /\ 55 * (10000 - (r[1].score - r[2].score)) <= 100 * DisagreementLevel(r) + 99
<1> DEFINE c == r[1].cluster
           b == r[2].cluster
           s == r[1].score
           t == r[2].score
           far == Max({c.share - b.share, b.share - c.share})
           wide == Max({c.spread, b.spread})
           u == Pct(55, Unit - (s - t))
           v == Pct(15, far)
           w == Pct(20, wide)
<1>1. s \in Int /\ 0 <= s /\ s <= 10000 /\ t \in Int /\ 0 <= t /\ t <= s
  BY DEF Fraction
<1>2. /\ c.share \in Int /\ b.share \in Int
      /\ c.spread \in Int /\ 0 <= c.spread /\ b.spread \in Int /\ 0 <= b.spread
  BY DEF Measured, Fraction
<1>3. far \in Int /\ 0 <= far
  <2> DEFINE e == c.share - b.share
             f == b.share - c.share
  <2>1. e \in Int /\ f \in Int /\ (0 <= e \/ 0 <= f)
    BY <1>2
  <2> HIDE DEF e, f
  <2>2. Max({e, f}) \in {e, f} /\ \A k \in {e, f} : k <= Max({e, f})
    <3>1. {e, f} # {} /\ {e, f} \subseteq Int /\ IsFiniteSet({e, f})
      BY <2>1, PairFinite
    <3> QED
      BY <3>1, Largest
  <2>3. Max({e, f}) \in Int /\ 0 <= Max({e, f})
    BY <2>1, <2>2
  <2> QED
    BY <2>3 DEF e, f
<1>4. wide \in Int /\ 0 <= wide
  <2> DEFINE e == c.spread
             f == b.spread
  <2>1. e \in Int /\ 0 <= e /\ f \in Int /\ 0 <= f
    BY <1>2
  <2> HIDE DEF e, f
  <2>2. Max({e, f}) \in {e, f}
    <3>1. {e, f} # {} /\ {e, f} \subseteq Int /\ IsFiniteSet({e, f})
      BY <2>1, PairFinite
    <3> QED
      BY <3>1, Largest
  <2>3. Max({e, f}) \in Int /\ 0 <= Max({e, f})
    BY <2>1, <2>2
  <2> QED
    BY <2>3 DEF e, f
<1>5. Margin(r) = s - t
  BY DEF Margin
<1>6. DisagreementLevel(r) = Clamp(u + v + w)
  BY <1>5 DEF DisagreementLevel, Discord
<1> HIDE DEF s, t, far, wide
<1>7. u \in Int /\ 55 * (10000 - (s - t)) <= 100 * u + 99 /\ u <= 5500
  BY <1>1 DEF Pct, Unit
<1>8. v \in Int /\ 0 <= v
  BY <1>3 DEF Pct
<1>9. w \in Int /\ 0 <= w
  BY <1>4 DEF Pct
<1> HIDE DEF u, v, w
<1>10. u + v + w \in Int /\ u <= u + v + w
  BY <1>7, <1>8, <1>9
<1>11. Fraction(Clamp(u + v + w)) /\ u <= Clamp(u + v + w)
  BY <1>7, <1>10 DEF Clamp, Unit, Fraction
<1>12. 55 * (10000 - (s - t)) <= 100 * Clamp(u + v + w) + 99
  BY <1>1, <1>7, <1>11 DEF Fraction
<1> QED
  BY <1>5, <1>6, <1>11, <1>12 DEF s, t

LEMMA PressureAtLeast ==
  ASSUME NEW r, Measured(r[1].cluster), Fraction(DisagreementLevel(r))
  PROVE  /\ Fraction(Pressure(r))
         /\ 10 * DisagreementLevel(r) + 150000 <= 100 * Pressure(r) + 99
<1> DEFINE c == r[1].cluster
           l == DisagreementLevel(r)
           f == If(c.size = 1, Pct(30, Unit)) + If(c.share < 1800, Pct(20, Unit))
                + Pct(20, c.entropy) + Pct(15, Unit) + Pct(15, c.spread)
           i == If(r[1].score < 4200, Pct(30, Unit))
           j == If(Margin(r) < 500, Pct(20, Unit))
           k == If(c.share < 1800, Pct(15, Unit))
           u == Pct(10, l)
           v == Pct(10, Clamp(f))
           p == i + j + k + Pct(15, Unit) + u + v
<1>1. Pressure(r) = Clamp(p)
  BY DEF Pressure
<1>2. /\ Pct(15, Unit) = 1500 /\ Pct(20, Unit) = 2000 /\ Pct(30, Unit) = 3000
  BY DEF Pct, Unit
<1>3. /\ i \in Int /\ 0 <= i /\ j \in Int /\ 0 <= j /\ k \in Int /\ 0 <= k
  BY <1>2 DEF If
<1>4. f \in Int
  <2>1. c.entropy \in Int /\ c.spread \in Int
    BY DEF Measured, Fraction
  <2>2. Pct(20, c.entropy) \in Int /\ Pct(15, c.spread) \in Int
    BY <2>1 DEF Pct
  <2>3. If(c.size = 1, Pct(30, Unit)) \in Int /\ If(c.share < 1800, Pct(20, Unit)) \in Int
    BY <1>2 DEF If
  <2> QED
    BY <1>2, <2>2, <2>3
<1>5. l \in Int /\ 0 <= l /\ l <= 10000
  BY DEF Fraction
<1> HIDE DEF f, i, j, k, l
<1>6. u \in Int /\ 10 * l <= 100 * u + 99 /\ u <= 1000
  BY <1>5 DEF Pct
<1>7. v \in Int /\ 0 <= v
  <2> DEFINE x == Clamp(f)
  <2>1. x \in Int /\ 0 <= x
    BY <1>4, ClampFraction DEF Fraction
  <2> HIDE DEF x
  <2>2. Pct(10, x) \in Int /\ 0 <= Pct(10, x)
    BY <2>1 DEF Pct
  <2> QED
    BY <2>2 DEF x
<1> HIDE DEF u, v
<1>8. p \in Int /\ 1500 + u <= p
  BY <1>2, <1>3, <1>6, <1>7
<1> HIDE DEF p
<1>9. Fraction(Clamp(p)) /\ 1500 + u <= Clamp(p)
  BY <1>6, <1>8 DEF Clamp, Unit, Fraction
<1>10. 10 * l + 150000 <= 100 * Clamp(p) + 99
  BY <1>5, <1>6, <1>9 DEF Fraction
<1> QED
  BY <1>1, <1>9, <1>10 DEF l

LEMMA ConfidenceBound ==
  ASSUME NEW r, Len(r) # 1, Len(r) > 1,
         Measured(r[1].cluster), Measured(r[2].cluster),
         Fraction(r[1].score), Fraction(r[2].score), r[2].score <= r[1].score
  PROVE  /\ PredictionConfidence(r) \in Int
         /\ \/ PredictionConfidence(r) = 0
            \/ 10000 * PredictionConfidence(r) <= 11799 * r[1].score - 1799 * r[2].score - 15900000
<1> DEFINE s == r[1].score
           t == r[2].score
           l == DisagreementLevel(r)
           p == Pressure(r)
           n == Cardinality(Warnings(r))
           a == Pct(20, l)
           b == Pct(18, p)
           c == Pct(10, Clamp((Unit * n) \div 8))
           e == Pct(6, Clamp(s - t))
           x == s - a - b - c + e
<1>1. s \in Int /\ 0 <= s /\ s <= 10000 /\ t \in Int /\ 0 <= t /\ t <= s
  BY DEF Fraction
<1>2. Margin(r) = s - t /\ Fraction(l) /\ 55 * (10000 - (s - t)) <= 100 * l + 99
  BY DiscordAtLeast
<1>3. Fraction(p) /\ 10 * l + 150000 <= 100 * p + 99
  BY <1>2, PressureAtLeast
<1>4. n \in Nat /\ n >= 1
  BY WarningsCounted
<1>5. PredictionConfidence(r) = Clamp(x)
  BY <1>2 DEF PredictionConfidence
<1> HIDE DEF s, t, l, p, n
<1>6. l \in Int /\ p \in Int
  BY <1>2, <1>3 DEF Fraction
<1>7. a \in Int /\ 20 * l <= 100 * a + 99
  BY <1>6 DEF Pct
<1>8. b \in Int /\ 18 * p <= 100 * b + 99
  BY <1>6 DEF Pct
<1>9. c \in Int /\ 125 <= c
  <2> DEFINE m == (10000 * n) \div 8
             k == Clamp(m)
  <2>1. m \in Int /\ 1250 <= m
    BY <1>4
  <2> HIDE DEF m
  <2>2. k \in Int /\ 1250 <= k
    BY <2>1 DEF Clamp, Unit
  <2>3. c = Pct(10, k)
    BY DEF m, Unit
  <2> HIDE DEF k, c
  <2> QED
    BY <2>2, <2>3 DEF Pct
<1>10. e \in Int /\ 100 * e <= 6 * (s - t)
  <2>1. Clamp(s - t) = s - t
    BY <1>1 DEF Clamp, Unit
  <2> QED
    BY <1>1, <2>1 DEF Pct
<1> HIDE DEF a, b, c, e
<1>11. x \in Int /\ 10000 * x <= 11799 * s - 1799 * t - 15900000
  BY <1>1, <1>2, <1>3, <1>6, <1>7, <1>8, <1>9, <1>10, SMT
<1> HIDE DEF x
<1>12. Clamp(x) \in Int /\ (Clamp(x) = 0 \/ Clamp(x) <= x)
  BY <1>11 DEF Clamp, Unit
<1>13. 11799 * s - 1799 * t - 15900000 \in Int
  BY <1>1, SMT
<1>14. Clamp(x) = 0 \/ 10000 * Clamp(x) <= 11799 * s - 1799 * t - 15900000
  BY <1>11, <1>12, <1>13, SMT
<1> QED
  BY <1>5, <1>12, <1>14 DEF s, t

\* Two and three votes of at least five.
LEMMA TwoAndThree ==
  ASSUME NEW N \in Nat, N >= 5
  PROVE  LET p == 20000 \div N
             q == 30000 \div N
         IN  /\ p \in Int /\ q \in Int /\ 0 <= p /\ p <= 4000 /\ p <= q
             /\ 3 * p - 1 <= 2 * q /\ 2 * q <= 3 * p + 2
<1> DEFINE p == 20000 \div N
           q == 30000 \div N
<1>1. p \in Int /\ N * p <= 20000 /\ 20000 < N * p + N
  BY DivBy, 20000 \in Int
<1>2. q \in Int /\ N * q <= 30000 /\ 30000 < N * q + N
  BY DivBy, 30000 \in Int
<1>3. 0 <= p
  <2>1. N * 0 <= 20000
    OBVIOUS
  <2> QED
    BY <2>1, DivAtLeast, 20000 \in Int
<1> HIDE DEF p, q
<1>4. p <= 4000
  <2> SUFFICES ASSUME 4001 <= p PROVE FALSE
    BY <1>1
  <2>1. N * 4001 <= N * p
    BY <1>1
  <2> QED
    BY <1>1, <2>1
<1>5. N * p \in Int /\ N * q \in Int
  BY <1>1, <1>2
<1>6. 3 * p - 1 <= 2 * q
  <2> SUFFICES ASSUME 2 * q + 2 <= 3 * p PROVE FALSE
    BY <1>1, <1>2
  <2>1. N * (2 * q + 2) <= N * (3 * p)
    BY <1>1, <1>2
  <2>2. N * (2 * q + 2) = 2 * (N * q) + 2 * N /\ N * (3 * p) = 3 * (N * p)
    BY <1>1, <1>2
  <2> QED
    BY <1>1, <1>2, <1>5, <2>1, <2>2
<1>7. 2 * q <= 3 * p + 2
  <2> SUFFICES ASSUME 3 * p + 3 <= 2 * q PROVE FALSE
    BY <1>1, <1>2
  <2>1. N * (3 * p + 3) <= N * (2 * q)
    BY <1>1, <1>2
  <2>2. N * (3 * p + 3) = 3 * (N * p) + 3 * N /\ N * (2 * q) = 2 * (N * q)
    BY <1>1, <1>2
  <2> QED
    BY <1>1, <1>2, <1>5, <2>1, <2>2
<1>8. p <= q
  BY <1>1, <1>2, <1>3, <1>6
<1> QED
  BY <1>1, <1>2, <1>3, <1>4, <1>6, <1>7, <1>8 DEF p, q

\* A winner of one vote against more scores too little.
LEMMA LoneScore ==
  ASSUME NEW x, Measured(x), NEW d, Fraction(d), x.size = 1, x.share <= 3333
  PROVE  Score(x, d) <= 6425
<1>1. /\ Raw(x, d) \in Int /\ Score(x, d) = Clamp(Raw(x, d))
      /\ 8000000 * Raw(x, d) <= Linear(x, d) + 24000000
  BY ScoreLinear
<1> DEFINE s == x.share
           w == x.weight
           k == x.confidence
           e == x.entropy
           r == x.spread
           j == Small(x)
<1>2. /\ s \in Int /\ s <= 3333 /\ w \in Int /\ w <= 10000 /\ k \in Int /\ k <= 10000
      /\ e \in Int /\ 0 <= e /\ r \in Int /\ 0 <= r /\ d \in Int /\ 0 <= d
  BY DEF Measured, Fraction
<1>3. Lone(x) = 1 /\ j \in Int /\ 0 <= j
  BY Flags DEF Lone, If
<1>4. Linear(x, d) = 4400300 * s + 2767000 * w + 1716700 * k - 352000 * d - 160000 * r - 112000 * e
                     - 4360000000 - 1400000000 * j - 3800000000
  BY <1>2, <1>3, SMT DEF Linear
<1> HIDE DEF s, w, k, e, r, j
<1>5. Raw(x, d) <= 6425
  BY <1>1, <1>2, <1>3, <1>4, SMT
<1> QED
  BY <1>1, <1>5, SMT DEF Clamp, Unit

\* A winner of two votes against three of at least five: what it scores, and what
\* the other one scores the less.
LEMMA MinorityScores ==
  ASSUME NEW x, Measured(x), NEW y, Measured(y), NEW d, Fraction(d),
         x.share <= 4000, y.size # 1, 3 * x.share - 1 <= 2 * y.share, 2 * y.share <= 3 * x.share + 2,
         45 * (10000 - (y.share - x.share)) <= 100 * d + 100
  PROVE  Score(x, d) <= 6900 \/ 11799 * Score(x, d) - 1799 * Score(y, d) < 81900000
<1>1. /\ Raw(x, d) \in Int /\ Score(x, d) = Clamp(Raw(x, d))
      /\ 8000000 * Raw(x, d) <= Linear(x, d) + 24000000
  BY ScoreLinear
<1>2. /\ Raw(y, d) \in Int /\ Score(y, d) = Clamp(Raw(y, d)) /\ Linear(y, d) \in Int
      /\ Linear(y, d) <= 8000000 * Raw(y, d) + 56000000
  BY ScoreLinear
<1> SUFFICES ASSUME 6901 <= Score(x, d)
             PROVE  11799 * Score(x, d) - 1799 * Score(y, d) < 81900000
  <2>1. Score(x, d) \in Int
    BY <1>1, ClampFraction, SMT DEF Fraction
  <2> QED
    BY <2>1, SMT
<1> DEFINE s == x.share
           w == x.weight
           k == x.confidence
           e == x.entropy
           r == x.spread
           i == Lone(x)
           j == Small(x)
           s2 == y.share
           w2 == y.weight
           k2 == y.confidence
           e2 == y.entropy
           r2 == y.spread
           i2 == Lone(y)
           j2 == Small(y)
           A == Score(x, d)
           B == Score(y, d)
           R == Raw(x, d)
           Q == Raw(y, d)
<1>3. /\ s \in Int /\ 0 <= s /\ s <= 4000 /\ w \in Int /\ w <= 10000 /\ k \in Int /\ k <= 10000
      /\ e \in Int /\ 0 <= e /\ r \in Int /\ 0 <= r
      /\ d \in Int /\ 0 <= d /\ d <= 10000
      /\ s2 \in Int /\ 3 * s - 1 <= 2 * s2 /\ 2 * s2 <= 3 * s + 2
      /\ 45 * (10000 - (s2 - s)) <= 100 * d + 100
  BY DEF Measured, Fraction
<1>4. /\ w2 \in Int /\ 0 <= w2 /\ k2 \in Int /\ 0 <= k2
      /\ e2 \in Int /\ e2 <= 10000 /\ r2 \in Int /\ r2 <= 10000
  BY DEF Measured, Fraction
<1>5. i \in Int /\ 0 <= i /\ j \in Int /\ 0 <= j /\ i2 \in Int /\ j2 \in Int
  BY Flags
<1>6. Linear(x, d) = 4400300 * s + 2767000 * w + 1716700 * k - 352000 * d - 160000 * r - 112000 * e
                     - 4360000000 * i - 1400000000 * j - 3800000000
  BY <1>3, <1>5, SMT DEF Linear
<1>7. Linear(y, d) = 4400300 * s2 + 2767000 * w2 + 1716700 * k2 - 352000 * d - 160000 * r2 - 112000 * e2
                     - 4360000000 * i2 - 1400000000 * j2 - 3800000000
  BY <1>3, <1>4, <1>5, SMT DEF Linear
<1>8. A \in Int /\ A <= R /\ B \in Int /\ 0 <= B /\ (Q <= B \/ B = 10000)
  BY <1>1, <1>2, SMT DEF Clamp, Unit
<1>9. 6901 <= A
  BY SMT
<1>10. s2 >= 1800 => j2 = 0
  BY <1>3 DEF Small, If
<1>11. y.size # 1 => i2 = 0
  BY DEF Lone, If
<1> HIDE DEF s, w, k, e, r, i, j, s2, w2, k2, e2, r2, i2, j2, A, B, R, Q
<1>12. 8000000 * R <= 4400300 * s + 41061000000 - 352000 * d
  BY <1>1, <1>3, <1>5, <1>6, SMT DEF R
<1>13. s >= 3000
  BY <1>1, <1>3, <1>8, <1>9, <1>12, SMT DEF R
<1>14. i2 = 0 /\ j2 = 0
  BY <1>3, <1>10, <1>11, <1>13, SMT
<1>15. 4400300 * s2 - 352000 * d - 6576000000 <= 8000000 * Q
  BY <1>2, <1>3, <1>4, <1>7, <1>14, SMT DEF Q
<1>16. ASSUME B = 10000 PROVE 11799 * A - 1799 * B < 81900000
  <2>1. R \in Int
    BY <1>1 DEF R
  <2> QED
    BY <1>3, <1>8, <1>12, <1>16, <2>1, SMT
<1>17. ASSUME Q <= B PROVE 11799 * A - 1799 * B < 81900000
  <2>1. Q \in Int /\ R \in Int
    BY <1>1, <1>2 DEF Q, R
  <2> QED
    BY <1>3, <1>8, <1>12, <1>15, <1>17, <2>1, SMT
<1>18. 11799 * A - 1799 * B < 81900000
  BY <1>8, <1>16, <1>17, SMT
<1> QED
  BY <1>18, SMT DEF A, B

\* Two clusters share the attempts.
LEMMA TwoClusters ==
  ASSUME NEW bag \in Bags, NEW a \in Found(bag), NEW b \in Found(bag), a # b
  PROVE  Cluster(bag, a).size + Cluster(bag, b).size <= All(bag)
<1> DEFINE F == For(a)
           G == For(b)
           H == F \cup G
<1>1. /\ F \subseteq Kinds /\ G \subseteq Kinds /\ H \subseteq Kinds /\ H \ F = G
      /\ F \subseteq H
  BY DEF For
<1>2. /\ IsFiniteSet(H) /\ IsFiniteSet(Kinds)
      /\ \A x \in Kinds : bag[x] \in Nat
  BY <1>1, KindsFinite, FS_Subset DEF Bags
<1> HIDE DEF F, G, H
<1>3. SumFunctionOnSet(bag, H) = SumFunctionOnSet(bag, F) + SumFunctionOnSet(bag, G)
  <2>1. \A x \in H : bag[x] \in Int
    BY <1>1, <1>2
  <2>2. SumFunctionOnSet(bag, H) = SumFunctionOnSet(bag, F) + SumFunctionOnSet(bag, H \ F)
    BY <1>1, <1>2, <2>1, SumParts
  <2> QED
    BY <1>1, <2>2
<1>4. SumFunctionOnSet(bag, H) <= SumFunctionOnSet(bag, Kinds)
  BY <1>1, <1>2, SumSub
<1>5. /\ Cluster(bag, a).size = SumFunctionOnSet(bag, F)
      /\ Cluster(bag, b).size = SumFunctionOnSet(bag, G)
      /\ All(bag) = SumFunctionOnSet(bag, Kinds)
  BY ClusterFields, ClusterTotals DEF Sized, F, G
<1> QED
  BY <1>3, <1>4, <1>5

\* When no answer has four votes, the confidence in a winner with fewer votes than
\* another answer is below 0.66.
LEMMA MinorityUnsure ==
  ASSUME NEW bag \in Bags, Found(bag) # {}, \A c \in Found(bag) : Cluster(bag, c).size <= 3,
         NEW b \in Found(bag),
         Cluster(bag, Ranking(bag)[1].cluster.answer).size < Cluster(bag, b).size
  PROVE  PredictionConfidence(Ranking(bag)) \in Int /\ PredictionConfidence(Ranking(bag)) < 6600
<1> DEFINE r == Ranking(bag)
           a == r[1].cluster.answer
           x == Cluster(bag, a)
           y == Cluster(bag, b)
           d == Apart(bag)
           N == All(bag)
           s == r[1].score
           t == r[2].score
           p == PredictionConfidence(r)
<1>1. /\ Len(r) \in Nat /\ Len(r) >= 1
      /\ a \in Found(bag) /\ r[1] = Row(bag, a)
      /\ Len(r) = 1 => \A c \in Found(bag) : c = a
      /\ Len(r) > 1 => /\ r[2].cluster.answer \in Found(bag)
                       /\ r[2] = Row(bag, r[2].cluster.answer)
      /\ \A c \in Found(bag) : c # a => Row(bag, c).score <= r[2].score
      /\ \A c \in Found(bag) : Row(bag, c).score <= r[1].score
  BY FirstRanked
<1>2. Measured(x) /\ Measured(y) /\ x.answer = a /\ y.answer = b /\ Fraction(d)
  BY <1>1, ClusterMeasured, ClustersMeasured
<1>3. x.size < y.size /\ y.size <= 3 /\ x.size \in Int /\ y.size \in Int /\ 1 <= x.size
  BY <1>2 DEF Measured
<1>4. a # b
  <2>1. a = b => x = y
    OBVIOUS
  <2> QED
    BY <1>3, <2>1
<1>5. Len(r) > 1 /\ Len(r) # 1
  <2> DEFINE n == Len(r)
  <2>1. n \in Nat /\ n >= 1 /\ n # 1
    BY <1>1, <1>4
  <2> HIDE DEF n
  <2>2. n > 1 /\ n # 1
    BY <2>1
  <2> QED
    BY <2>2 DEF n
<1>6. r[2].cluster.answer \in Found(bag) /\ r[2] = Row(bag, r[2].cluster.answer)
  BY <1>1, <1>5
<1>7. Measured(r[1].cluster) /\ Measured(r[2].cluster)
  <2>1. \A c \in Found(bag) : Measured(Row(bag, c).cluster)
    BY ClusterMeasured DEF Row
  <2> QED
    BY <1>1, <1>6, <2>1
<1>8. Fraction(s) /\ Fraction(t) /\ t <= s /\ s = Score(x, d) /\ Score(y, d) <= t /\ Fraction(Score(y, d))
  <2>1. \A c \in Found(bag) : Fraction(Row(bag, c).score)
    BY KeyOf
  <2>2. Row(bag, b).score = Score(y, d) /\ Row(bag, a).score = Score(x, d)
    BY DEF Row
  <2>3. Row(bag, b).score <= t /\ t <= s
    BY <1>1, <1>4, <1>6
  <2> QED
    BY <1>1, <1>6, <2>1, <2>2, <2>3
<1>9. p \in Int /\ (p = 0 \/ 10000 * p <= 11799 * s - 1799 * t - 15900000)
  BY <1>5, <1>7, <1>8, ConfidenceBound
<1>10. N \in Nat /\ x.size + y.size <= N
  BY <1>1, <1>4, TwoClusters, MineCounts
<1>11. \A c \in Found(bag) : Cluster(bag, c).share = (10000 * Cluster(bag, c).size) \div N
  BY ClusterFields
<1>12. ASSUME x.size = 1
       PROVE  s <= 6425
  <2>1. N >= 3 /\ x.share = 10000 \div N
    <3>1. N >= 3
      BY <1>3, <1>10, <1>12
    <3>2. x.share = (10000 * x.size) \div N
      BY <1>1, <1>11
    <3> QED
      BY <1>12, <3>1, <3>2
  <2>2. x.share <= 3333
    <3> DEFINE q == 10000 \div N
    <3>1. q \in Int /\ N * q <= 10000
      BY <1>10, <2>1, DivBy, 10000 \in Int
    <3> HIDE DEF q
    <3>2. q <= 3333
      <4> SUFFICES ASSUME 3334 <= q PROVE FALSE
        BY <3>1
      <4>1. N * 3334 <= N * q
        BY <1>10, <3>1
      <4>2. N * q \in Int
        BY <1>10, <3>1
      <4> QED
        BY <1>10, <2>1, <3>1, <4>1, <4>2
    <3> QED
      BY <2>1, <3>2 DEF q
  <2>3. Score(x, d) <= 6425
    BY <1>2, <1>12, <2>2, LoneScore
  <2> QED
    BY <1>8, <2>3
<1>13. ASSUME x.size = 2
       PROVE  s <= 6900 \/ 11799 * s - 1799 * Score(y, d) < 81900000
  <2>1. y.size = 3 /\ N >= 5
    BY <1>3, <1>10, <1>13
  <2>2. x.share = 20000 \div N /\ y.share = 30000 \div N
    <3>1. x.share = (10000 * x.size) \div N /\ y.share = (10000 * y.size) \div N
      BY <1>1, <1>11
    <3> QED
      BY <1>13, <2>1, <3>1
  <2>3. /\ x.share \in Int /\ y.share \in Int /\ x.share <= 4000 /\ x.share <= y.share
        /\ 3 * x.share - 1 <= 2 * y.share /\ 2 * y.share <= 3 * x.share + 2
    <3>1. /\ 20000 \div N \in Int /\ 30000 \div N \in Int
          /\ 20000 \div N <= 4000 /\ 20000 \div N <= 30000 \div N
          /\ 3 * (20000 \div N) - 1 <= 2 * (30000 \div N)
          /\ 2 * (30000 \div N) <= 3 * (20000 \div N) + 2
      BY <1>10, <2>1, TwoAndThree
    <3> QED
      BY <2>2, <3>1
  <2>4. \A c \in Clusters(bag) : c.share <= y.share
    <3>1. ASSUME NEW e \in Found(bag) PROVE Cluster(bag, e).share <= y.share
      <4> DEFINE n == Cluster(bag, e).size
                 q == (10000 * n) \div N
      <4>1. n \in Int /\ n <= 3 /\ 1 <= n
        BY ClusterMeasured DEF Measured
      <4>2. Cluster(bag, e).share = q
        BY <1>11
      <4> HIDE DEF n
      <4>3. q \in Int /\ N * q <= 10000 * n
        BY <1>10, <2>1, <4>1, DivBy
      <4> HIDE DEF q
      <4>4. N * q <= 30000
        <5>1. N * q \in Int
          BY <1>10, <4>3
        <5> QED
          BY <4>1, <4>3, <5>1
      <4>5. q <= 30000 \div N
        BY <1>10, <2>1, <4>3, <4>4, DivAtLeast, 30000 \in Int
      <4> QED
        BY <2>2, <4>2, <4>5
    <3> QED
      BY <3>1 DEF Clusters
  <2>5. x \in Clusters(bag) /\ y \in Clusters(bag)
    BY <1>1 DEF Clusters
  <2>6. 45 * (10000 - (y.share - x.share)) <= 100 * d + 100
    <3>1. IsFiniteSet(Clusters(bag)) /\ \A c \in Clusters(bag) : Measured(c)
      BY ClustersMeasured
    <3>2. x # y
      BY <1>3
    <3>3. x.share <= x.share /\ x.share <= y.share
      BY <2>3
    <3>4. d = Disagreement(Clusters(bag))
      BY DEF Apart
    <3> HIDE DEF x, y, d
    <3>5. 45 * (10000 - (y.share - x.share)) <= 100 * Disagreement(Clusters(bag)) + 100
      BY <2>3, <2>4, <2>5, <3>1, <3>2, <3>3, DisagreementAtLeast
    <3> QED
      BY <3>4, <3>5
  <2>7. y.size # 1
    BY <2>1
  <2> HIDE DEF x, y, d
  <2>8. Score(x, d) <= 6900 \/ 11799 * Score(x, d) - 1799 * Score(y, d) < 81900000
    BY <1>2, <2>3, <2>6, <2>7, MinorityScores
  <2> QED
    BY <1>8, <2>8, SMT
<1> DEFINE u == Score(y, d)
<1>14. s \in Int /\ 0 <= s /\ t \in Int /\ 0 <= t /\ u \in Int /\ u <= t
  BY <1>8 DEF Fraction
<1>15. x.size = 1 \/ x.size = 2
  BY <1>3
<1>16. s <= 6900 \/ 11799 * s - 1799 * u < 81900000
  <2>1. CASE x.size = 1
    BY <1>12, <1>14, <2>1, SMT
  <2>2. CASE x.size = 2
    BY <1>13, <2>2, SMT
  <2> QED
    BY <1>15, <2>1, <2>2, SMT
<1> HIDE DEF p, s, t, u
<1>17. p \in Int /\ p < 6600
  BY <1>9, <1>14, <1>16, SMT
<1> QED
  BY <1>17 DEF p

\* With an early stop at four votes at the most and a confidence of at least 0.66
\* asked for (the runner's numbers), an answer that another one has more votes than
\* is never kept after all attempts: its weight can bring it to the top of the
\* ranking, but not to the confidence of _prediction_confidence.
THEOREM MinorityAlwaysDoubted ==
  ASSUME StopCount <= 4, MinConfidence >= 6600
  PROVE  Spec => []MinorityDoubted
<1>1. SelectionInv => MinorityDoubted
  <2> SUFFICES ASSUME SelectionInv, pc = "kept", selection.method # "minimal_early_stop_consensus",
                      NEW b \in Found(votes),
                      ~(Cluster(votes, b).size <= Cluster(votes, selection.answers[1]).size)
               PROVE  FALSE
    BY DEF MinorityDoubted
  <2> DEFINE r == Ranking(votes)
             a == r[1].cluster.answer
  <2>1. votes \in Bags /\ selection.answers = Answered(votes) /\ Doubts(votes) = {} /\ Undecided
    BY DEF SelectionInv, Selected
  <2>2. Present(votes) # {} /\ ~(PredictionConfidence(r) < MinConfidence)
    BY <2>1, Undoubted
  <2>3. Found(votes) # {} /\ a \in Found(votes)
    <3>1. Found(votes) # {}
      OBVIOUS
    <3> QED
      BY <2>1, <3>1, FirstRanked
  <2>4. selection.answers[1] = a
    <3>1. 1 \in DOMAIN r
      BY <2>1, <2>3, RankingFacts
    <3> QED
      BY <2>1, <2>2, <3>1 DEF Answered
  <2>5. ASSUME NEW c \in Found(votes)
        PROVE  Cluster(votes, c).size \in Int /\ Cluster(votes, c).size <= 3
    <3> DEFINE n == Cluster(votes, c).size
    <3>1. n = Size(votes, For(c))
      BY <2>1, ClusterFields, ClusterTotals DEF Sized, Size
    <3>2. c \in Answers
      BY <2>1, FoundFinite
    <3>3. n < StopCount
      BY <2>1, <3>1, <3>2 DEF Undecided
    <3>4. n \in Int /\ StopCount \in Nat
      BY <2>1, ClusterMeasured, SelectionAssumption DEF Measured
    <3> HIDE DEF n
    <3>5. n \in Int /\ n <= 3
      BY <3>3, <3>4
    <3> QED
      BY <3>5 DEF n
  <2>6. Cluster(votes, a).size < Cluster(votes, b).size
    BY <2>3, <2>4, <2>5
  <2>7. PredictionConfidence(r) \in Int /\ PredictionConfidence(r) < 6600
    BY <2>1, <2>3, <2>5, <2>6, MinorityUnsure
  <2>8. MinConfidence \in Nat
    BY SelectionAssumption
  <2> QED
    BY <2>2, <2>7, <2>8
<1> QED
  BY <1>1, SelectionInvariant, PTL
=============================================================================
