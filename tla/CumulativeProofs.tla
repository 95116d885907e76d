---------------------------- MODULE CumulativeProofs ----------------------------
(***************************************************************************)
(* Theorems about CumulativeShift, for any fibres, shifts, contents of     *)
(* memory, threshold and number of neighbours; about PeakWindow, for any   *)
(* axis, peak and window; and about SensorGrid, for any two fibres.        *)
(***************************************************************************)
EXTENDS CumulativeShift, PeakWindow, SensorGrid, Folds, FiniteSetTheorems, NaturalsInduction,
        WellFoundedInduction, TLAPS

-----------------------------------------------------------------------------
(* Sums over finite sets.  A set of numbers with 0 and every successor is  *)
(* Nat, because its complement would have a least element: this is the     *)
(* induction that the lemmas below use, each for the set of the numbers    *)
(* for which it holds.                                                     *)

LEMMA NatSets ==
    ASSUME NEW A \in SUBSET Nat, 0 \in A, \A n \in A : n + 1 \in A
    PROVE  A = Nat
<1> DEFINE T == Nat \ A
<1> SUFFICES ASSUME T # {} PROVE FALSE
  OBVIOUS
<1>1. IsWellFoundedOn(OpToRel(<, Nat), Nat)
  BY NatLessThanWellFounded
<1>2. T \subseteq Nat /\ T # {}
  OBVIOUS
<1>3. PICK m \in T : \A n \in T : ~(<<n, m>> \in OpToRel(<, Nat))
  <2> HIDE DEF T
  <2> QED  BY <1>1, <1>2, WFMin
<1>4. m \in Nat /\ m - 1 \in Nat
  OBVIOUS
<1>5. m - 1 \in A
  <2>1. <<m - 1, m>> \in OpToRel(<, Nat)
    BY <1>4 DEF OpToRel
  <2> QED  BY <2>1, <1>3, <1>4
<1> QED  BY <1>4, <1>5

(* g holds the partial sums of f: what SumFunction computes as it takes    *)
(* the elements of a set one by one, in the order of CHOOSE.               *)
Chosen(s) == CHOOSE x \in s : TRUE
SumsOn(g, f, S) ==
    g = [s \in SUBSET S |-> IF s = {} THEN 0 ELSE f[Chosen(s)] + g[s \ {Chosen(s)}]]

LEMMA SumIsFold ==
    ASSUME NEW f, NEW S, \E g : SumsOn(g, f, S)
    PROVE  \E g : SumsOn(g, f, S) /\ SumFunctionOnSet(f, S) = g[S]
<1> DEFINE it == CHOOSE g : SumsOn(g, f, S)
<1>1. SumFunctionOnSet(f, S) = it[S]
  BY DEF SumsOn, SumFunctionOnSet, FoldFunctionOnSet, MapThenFoldSet, Chosen
<1>2. SumsOn(it, f, S)
  OBVIOUS
<1> QED  BY <1>1, <1>2

LEMMA SmallerRest ==
    ASSUME NEW s, IsFiniteSet(s), s # {}
    PROVE  /\ Chosen(s) \in s /\ IsFiniteSet(s \ {Chosen(s)})
           /\ Cardinality(s) \in Nat \ {0}
           /\ Cardinality(s \ {Chosen(s)}) = Cardinality(s) - 1
<1>1. Chosen(s) \in s
  BY DEF Chosen
<1> QED  BY <1>1, FS_RemoveElement, FS_CardinalityType, FS_EmptySet

(* The fold exists.                                                        *)
Partly(g, f, S, n) ==
    \A s \in SUBSET S : Cardinality(s) <= n =>
        g[s] = IF s = {} THEN 0 ELSE f[Chosen(s)] + g[s \ {Chosen(s)}]

LEMMA SumExists ==
    ASSUME NEW S, IsFiniteSet(S), NEW f \in [S -> Int]
    PROVE  \E g \in [SUBSET S -> Int] : SumsOn(g, f, S)
<1> DEFINE A == {n \in Nat : \E g \in [SUBSET S -> Int] : Partly(g, f, S, n)}
<1>f. \A s \in SUBSET S : IsFiniteSet(s) /\ Cardinality(s) \in Nat
  BY FS_Subset, FS_CardinalityType
<1>1. 0 \in A
  <2> DEFINE g == [s \in SUBSET S |-> 0]
  <2>1. \A s \in SUBSET S : Cardinality(s) <= 0 => s = {}
    BY <1>f, FS_EmptySet
  <2>2. g \in [SUBSET S -> Int] /\ Partly(g, f, S, 0)
    BY <2>1 DEF Partly
  <2> QED  BY <2>2
<1>2. ASSUME NEW n \in A PROVE n + 1 \in A
  <2>1. PICK g \in [SUBSET S -> Int] : Partly(g, f, S, n)
    OBVIOUS
  <2> DEFINE h == [s \in SUBSET S |-> IF Cardinality(s) <= n THEN g[s]
                                      ELSE f[Chosen(s)] + g[s \ {Chosen(s)}]]
  <2>2. h \in [SUBSET S -> Int]
    <3>1. ASSUME NEW s \in SUBSET S, ~(Cardinality(s) <= n)
          PROVE  f[Chosen(s)] + g[s \ {Chosen(s)}] \in Int
      <4>1. s # {}
        <5>1. n \in Nat
          OBVIOUS
        <5>2. CASE s = {}
          <6>1. Cardinality(s) = 0
            BY <5>2, FS_EmptySet
          <6> HIDE DEF A, h
          <6> QED  BY <3>1, <5>1, <6>1
        <5> QED  BY <5>2
      <4>2. Chosen(s) \in S /\ s \ {Chosen(s)} \in SUBSET S
        BY <1>f, <4>1, SmallerRest
      <4>3. f[Chosen(s)] \in Int /\ g[s \ {Chosen(s)}] \in Int
        BY <4>2
      <4> QED  BY <4>3
    <3> QED  BY <3>1
  <2>3. ASSUME NEW s \in SUBSET S, Cardinality(s) <= n + 1, s # {}
        PROVE  h[s] = f[Chosen(s)] + h[s \ {Chosen(s)}]
    <3> DEFINE r == s \ {Chosen(s)}
    <3>1. r \in SUBSET S /\ Cardinality(r) <= n
      BY <1>f, <2>3, SmallerRest
    <3>2. h[r] = g[r]
      BY <3>1
    <3>3. CASE Cardinality(s) <= n
      BY <3>2, <3>3, <2>1, <2>3 DEF Partly
    <3>4. CASE ~(Cardinality(s) <= n)
      BY <3>2, <3>4
    <3> QED  BY <3>3, <3>4
  <2>4. h[{}] = 0
    BY <2>1, FS_EmptySet DEF Partly
  <2>5. Partly(h, f, S, n + 1)
    <3> HIDE DEF h
    <3> QED  BY <2>3, <2>4 DEF Partly
  <2> HIDE DEF h
  <2> QED  BY <2>2, <2>5
<1>3. Cardinality(S) \in A
  <2>1. A \in SUBSET Nat
    OBVIOUS
  <2> HIDE DEF A
  <2> QED  BY <1>1, <1>2, <1>f, <2>1, NatSets
<1>4. PICK g \in [SUBSET S -> Int] : Partly(g, f, S, Cardinality(S))
  BY <1>3
<1>5. \A s \in SUBSET S : Cardinality(s) <= Cardinality(S)
  BY FS_Subset
<1>6. SumsOn(g, f, S)
  BY <1>4, <1>5 DEF Partly, SumsOn
<1> QED  BY <1>6

(* A sum depends on the numbers it adds and on nothing else.               *)
LEMMA SumsAgree ==
    ASSUME NEW S1, NEW f1, NEW g1, SumsOn(g1, f1, S1),
           NEW S2, NEW f2, NEW g2, SumsOn(g2, f2, S2),
           NEW U, IsFiniteSet(U), U \subseteq S1, U \subseteq S2,
           \A x \in U : f1[x] = f2[x]
    PROVE  g1[U] = g2[U]
<1> DEFINE A == {n \in Nat : \A s \in SUBSET U : Cardinality(s) = n => g1[s] = g2[s]}
<1>f. \A s \in SUBSET U : IsFiniteSet(s) /\ Cardinality(s) \in Nat
  BY FS_Subset, FS_CardinalityType
<1>g. \A s \in SUBSET U :
        /\ g1[s] = IF s = {} THEN 0 ELSE f1[Chosen(s)] + g1[s \ {Chosen(s)}]
        /\ g2[s] = IF s = {} THEN 0 ELSE f2[Chosen(s)] + g2[s \ {Chosen(s)}]
  BY DEF SumsOn
<1>1. 0 \in A
  BY <1>f, <1>g, FS_EmptySet
<1>2. ASSUME NEW n \in A PROVE n + 1 \in A
  <2>1. ASSUME NEW s \in SUBSET U, Cardinality(s) = n + 1
        PROVE  g1[s] = g2[s]
    <3>1. n \in Nat /\ s # {}
      BY <2>1, FS_EmptySet
    <3>2. /\ Chosen(s) \in U /\ s \ {Chosen(s)} \in SUBSET U
          /\ Cardinality(s \ {Chosen(s)}) = n
      BY <1>f, <2>1, <3>1, SmallerRest
    <3>3. g1[s \ {Chosen(s)}] = g2[s \ {Chosen(s)}]
      BY <3>2
    <3>4. f1[Chosen(s)] = f2[Chosen(s)]
      BY <3>2
    <3> HIDE DEF A
    <3> QED  BY <1>g, <3>1, <3>3, <3>4
  <2> QED  BY <2>1
<1>3. Cardinality(U) \in A
  <2>1. A \in SUBSET Nat
    OBVIOUS
  <2> HIDE DEF A
  <2> QED  BY <1>1, <1>2, <1>f, <2>1, NatSets
<1> QED  BY <1>3

(* An array of integers, and its partial sums, as one fact each.           *)
Ints(f, S) == IsFiniteSet(S) /\ f \in [S -> Int]
Sums(g, f, S) ==
    /\ IsFiniteSet(S) /\ f \in [S -> Int]
    /\ g \in [SUBSET S -> Int] /\ SumsOn(g, f, S)

(* Any element can be taken first.                                         *)
LEMMA SumPeels ==
    ASSUME NEW S, NEW f, NEW g, Sums(g, f, S), NEW x \in S
    PROVE  g[S] = f[x] + g[S \ {x}]
<1>t. /\ IsFiniteSet(S) /\ f \in [S -> Int] /\ g \in [SUBSET S -> Int]
      /\ SumsOn(g, f, S)
  BY DEF Sums
<1> DEFINE A == {n \in Nat : \A s \in SUBSET S : Cardinality(s) = n =>
                     \A y \in s : g[s] = f[y] + g[s \ {y}]}
<1>f. \A s \in SUBSET S : IsFiniteSet(s) /\ Cardinality(s) \in Nat
  BY <1>t, FS_Subset, FS_CardinalityType
<1>g. \A s \in SUBSET S : s # {} => g[s] = f[Chosen(s)] + g[s \ {Chosen(s)}]
  BY <1>t DEF SumsOn
<1>1. 0 \in A
  BY <1>f, FS_EmptySet
<1>2. ASSUME NEW n \in A PROVE n + 1 \in A
  <2>1. ASSUME NEW s \in SUBSET S, Cardinality(s) = n + 1, NEW y \in s
        PROVE  g[s] = f[y] + g[s \ {y}]
    <3> DEFINE c == Chosen(s)
    <3>1. /\ c \in s /\ s \ {c} \in SUBSET S /\ Cardinality(s \ {c}) = n
          /\ n \in Nat /\ s # {}
      BY <1>f, <2>1, SmallerRest
    <3>2. s \ {y} \in SUBSET S /\ Cardinality(s \ {y}) = n
      BY <1>f, <2>1, <3>1, FS_RemoveElement
    <3>3. g[s] = f[c] + g[s \ {c}]
      BY <1>g, <3>1
    <3>4. CASE c = y
      BY <3>3, <3>4
    <3>5. CASE c # y
      <4> DEFINE r == (s \ {c}) \ {y}
      <4>1. g[s \ {c}] = f[y] + g[r]
        BY <3>1, <3>5
      <4>2. g[s \ {y}] = f[c] + g[r]
        <5>1. r = (s \ {y}) \ {c}
          OBVIOUS
        <5>2. c \in s \ {y}
          BY <3>1, <3>5
        <5>3. g[s \ {y}] = f[c] + g[(s \ {y}) \ {c}]
          BY <3>2, <5>2
        <5> QED  BY <5>1, <5>3
      <4>3. f[c] \in Int /\ f[y] \in Int /\ g[r] \in Int
        BY <1>t, <3>1
      <4> HIDE DEF c, r, A
      <4> QED  BY <3>3, <4>1, <4>2, <4>3
    <3> QED  BY <3>4, <3>5
  <2> QED  BY <2>1
<1>3. Cardinality(S) \in A
  <2>1. A \in SUBSET Nat
    OBVIOUS
  <2> HIDE DEF A
  <2> QED  BY <1>1, <1>2, <1>f, <2>1, NatSets
<1> QED  BY <1>3

(* Bounds of the numbers are bounds of the sum.                            *)
LEMMA SumBounded ==
    ASSUME NEW S, IsFiniteSet(S), NEW b \in Int, NEW f \in [S -> -b..b],
           NEW g \in [SUBSET S -> Int], SumsOn(g, f, S)
    PROVE  -(Cardinality(S) * b) <= g[S] /\ g[S] <= Cardinality(S) * b
<1> DEFINE A == {n \in Nat : \A s \in SUBSET S : Cardinality(s) = n =>
                     -(n * b) <= g[s] /\ g[s] <= n * b}
<1>f. \A s \in SUBSET S : IsFiniteSet(s) /\ Cardinality(s) \in Nat
  BY FS_Subset, FS_CardinalityType
<1>g. \A s \in SUBSET S :
        g[s] = IF s = {} THEN 0 ELSE f[Chosen(s)] + g[s \ {Chosen(s)}]
  BY DEF SumsOn
<1>1. 0 \in A
  <2>1. \A s \in SUBSET S : Cardinality(s) = 0 => g[s] = 0
    BY <1>f, <1>g, FS_EmptySet
  <2>2. 0 * b = 0
    OBVIOUS
  <2> QED  BY <2>1, <2>2
<1>2. ASSUME NEW n \in A PROVE n + 1 \in A
  <2>0. n \in Nat /\ (n + 1) * b = n * b + b /\ n * b \in Int
    OBVIOUS
  <2>1. ASSUME NEW s \in SUBSET S, Cardinality(s) = n + 1
        PROVE  -((n + 1) * b) <= g[s] /\ g[s] <= (n + 1) * b
    <3> DEFINE c == Chosen(s)
    <3>1. /\ c \in S /\ s \ {c} \in SUBSET S /\ Cardinality(s \ {c}) = n
          /\ s # {}
      <4>1. s # {}
        BY <2>0, <2>1, FS_EmptySet
      <4> QED  BY <1>f, <2>0, <2>1, <4>1, SmallerRest
    <3>2. g[s] = f[c] + g[s \ {c}]
      BY <1>g, <3>1
    <3>3. -(n * b) <= g[s \ {c}] /\ g[s \ {c}] <= n * b
      BY <3>1
    <3>4. f[c] \in Int /\ -b <= f[c] /\ f[c] <= b /\ g[s \ {c}] \in Int
      BY <3>1
    <3> DEFINE m == n * b
    <3>5. m \in Int /\ (n + 1) * b = m + b
      BY <2>0
    <3> HIDE DEF c, A, m
    <3>6. -m <= g[s \ {c}] /\ g[s \ {c}] <= m
      BY <3>3 DEF m
    <3>7. -(m + b) <= g[s] /\ g[s] <= m + b
      BY <3>2, <3>4, <3>5, <3>6
    <3> QED  BY <3>5, <3>7
  <2>2. n + 1 \in Nat
    BY <2>0
  <2> QED  BY <2>1, <2>2
<1>3. Cardinality(S) \in A
  <2>1. A \in SUBSET Nat
    OBVIOUS
  <2> HIDE DEF A
  <2> QED  BY <1>1, <1>2, <1>f, <2>1, NatSets
<1> QED  BY <1>3

LEMMA SumIs ==
    ASSUME NEW S, IsFiniteSet(S), NEW f \in [S -> Int]
    PROVE  \E g : Sums(g, f, S) /\ SumFunction(f) = g[S]
<1>1. PICK g \in [SUBSET S -> Int] : SumsOn(g, f, S)
  BY SumExists
<1>2. PICK h : SumsOn(h, f, S) /\ SumFunctionOnSet(f, S) = h[S]
  BY <1>1, SumIsFold
<1>3. h[S] = g[S]
  BY <1>1, <1>2, SumsAgree
<1>4. SumFunction(f) = g[S]
  BY <1>2, <1>3 DEF SumFunction
<1> QED  BY <1>1, <1>4 DEF Sums

LEMMA Agree ==
    \A S, f, g, T, e, h :
        Sums(g, f, S) /\ Sums(h, e, T) /\ T \subseteq S /\ (\A x \in T : e[x] = f[x])
            => g[T] = h[T] /\ g[T] \in Int
<1> SUFFICES ASSUME NEW S, NEW f, NEW g, NEW T, NEW e, NEW h, Sums(g, f, S), Sums(h, e, T),
                    T \subseteq S, \A x \in T : f[x] = e[x]
             PROVE  g[T] = h[T] /\ g[T] \in Int
  OBVIOUS
<1>1. IsFiniteSet(T) /\ SumsOn(g, f, S) /\ SumsOn(h, e, T) /\ g[T] \in Int
  BY DEF Sums
<1>2. g[T] = h[T]
  BY <1>1, SumsAgree
<1> QED  BY <1>1, <1>2

LEMMA SumWithout ==
    ASSUME NEW S, NEW f, NEW x \in S, NEW T, NEW e, Ints(f, S), Ints(e, T), T = S \ {x},
           \A y \in T : e[y] = f[y]
    PROVE  SumFunction(f) = SumFunction(e) + f[x]
<1>1. IsFiniteSet(T) /\ T \subseteq S /\ e \in [T -> Int] /\ \A y \in T : e[y] = f[y]
  BY DEF Ints
<1>2. f[x] \in Int
  BY DEF Ints
<1>3. PICK g : Sums(g, f, S) /\ SumFunction(f) = g[S]
  BY SumIs DEF Ints
<1>4. g[S] = f[x] + g[T]
  BY <1>3, SumPeels
<1>5. PICK h : Sums(h, e, T) /\ SumFunction(e) = h[T]
  BY <1>1, SumIs
<1>6. g[T] = h[T] /\ g[T] \in Int
  BY <1>1, <1>3, <1>5, Agree
<1> QED  BY <1>2, <1>3, <1>4, <1>5, <1>6

(* A sum over 1..n + 1 is the one over 1..n and the last number.           *)
LEMMA SumToNext ==
    ASSUME NEW n \in Nat, NEW f \in [1..n + 1 -> Int]
    PROVE  SumFunction(f) = SumFunction([i \in 1..n |-> f[i]]) + f[n + 1]
<1> DEFINE e == [i \in 1..n |-> f[i]]
           S == 1..n + 1
           k == n + 1
<1>1. IsFiniteSet(S)
  <2>1. n + 1 \in Int /\ 1 \in Int
    OBVIOUS
  <2>2. QED  BY <2>1, FS_Interval
<1>2. k \in S /\ 1..n = S \ {k}
  OBVIOUS
<1>3. f \in [S -> Int] /\ e \in [1..n -> Int] /\ \A x \in 1..n : e[x] = f[x]
  BY <1>2
<1>4. Ints(f, S) /\ Ints(e, 1..n)
  BY <1>1, <1>3, FS_Interval DEF Ints
<1>5. SumFunction(f) = SumFunction(e) + f[k]
  <2> HIDE DEF e, S, k
  <2> QED  BY <1>2, <1>3, <1>4, SumWithout
<1> QED  BY <1>5

LEMMA SumOfOne ==
    ASSUME NEW f \in [1..1 -> Int]
    PROVE  SumFunction(f) = f[1]
<1> DEFINE e == [i \in 1..0 |-> f[i]]
<1>1. SumFunction(f) = SumFunction(e) + f[1]
  BY SumToNext, 0 + 1 = 1
<1>2. e \in [{} -> Int] /\ IsFiniteSet({})
  BY FS_EmptySet
<1>3. SumFunction(e) = 0
  <2> HIDE DEF e
  <2>1. PICK g : Sums(g, e, {}) /\ SumFunction(e) = g[{}]
    BY <1>2, SumIs
  <2> QED  BY <2>1 DEF Sums, SumsOn
<1> QED  BY <1>1, <1>3

(* And bounds of the numbers are bounds of their mean.                     *)
LEMMA MeanBounded ==
    ASSUME NEW S, IsFiniteSet(S), S # {}, NEW b \in Nat, NEW f \in [S -> -b..b]
    PROVE  LET mean == SumFunction(f) \div Cardinality(S)
           IN  mean \in Int /\ -b <= mean /\ mean <= b
<1>1. f \in [S -> Int]
  OBVIOUS
<1>2. PICK g : Sums(g, f, S) /\ SumFunction(f) = g[S]
  BY <1>1, SumIs
<1> DEFINE n == Cardinality(S)
           a == SumFunction(f)
<1>3. n \in Nat \ {0} /\ a \in Int
  <2>1. g[S] \in Int
    BY <1>2 DEF Sums
  <2> QED  BY <1>2, <2>1, FS_CardinalityType, FS_EmptySet
<1>4. -(n * b) <= a /\ a <= n * b
  <2>1. b \in Int
    OBVIOUS
  <2>2. -(n * b) <= g[S] /\ g[S] <= n * b
    BY <1>2, <2>1, SumBounded DEF Sums
  <2> QED  BY <1>2, <2>2
<1> HIDE DEF n, a
<1>5. a \div n \in Int /\ -b <= a \div n /\ a \div n <= b
  <2> DEFINE q == a \div n
  <2>1. q \in Int /\ n * q <= a /\ a < n * q + n
    BY <1>3
  <2> HIDE DEF q
  <2>2. q <= b
    <3> SUFFICES ASSUME q >= b + 1 PROVE FALSE
      BY <2>1
    <3>1. n * q >= n * (b + 1) /\ n * (b + 1) = n * b + n
      BY <1>3, <2>1
    <3>2. n * b \in Int /\ n * q \in Int
      BY <1>3, <2>1
    <3> QED  BY <1>3, <1>4, <2>1, <3>1, <3>2
  <2>3. -b <= q
    <3> SUFFICES ASSUME q <= -b - 1 PROVE FALSE
      BY <2>1
    <3>1. n * q <= n * (-b - 1) /\ n * (-b - 1) = -(n * b) - n
      BY <1>3, <2>1
    <3>2. n * b \in Int /\ n * q \in Int
      BY <1>3, <2>1
    <3> QED  BY <1>3, <1>4, <2>1, <3>1, <3>2
  <2> QED  BY <2>1, <2>2, <2>3 DEF q
<1> QED  BY <1>5 DEF n, a

-----------------------------------------------------------------------------
(* The nearest ordinary points, and the mean of their steps.               *)

LEMMA LeastOf ==
    ASSUME NEW D, D \subseteq Nat, D # {}
    PROVE  \E m \in D : \A n \in D : m <= n
<1>1. PICK m \in D : \A n \in D : ~(<<n, m>> \in OpToRel(<, Nat))
  BY NatLessThanWellFounded, WFMin
<1>2. ASSUME NEW n \in D, ~(m <= n) PROVE FALSE
  <2>1. <<n, m>> \in OpToRel(<, Nat)
    BY <1>2 DEF OpToRel
  <2> QED  BY <1>1, <2>1
<1> QED  BY <1>2

Closest(x, near, ordinary) ==
    \A y \in near, z \in ordinary \ near : Size(y - x) <= Size(z - x)

(* There are as many nearest points as the code asks for.                  *)
LEMMA ClosestExist ==
    ASSUME NEW ordinary, IsFiniteSet(ordinary), ordinary \subseteq Int, NEW x \in Int,
           NEW count \in 0..Cardinality(ordinary)
    PROVE  \E near \in kSubset(count, ordinary) : Closest(x, near, ordinary)
<1> DEFINE A == {k \in Nat : k <= Cardinality(ordinary) =>
                     \E near \in kSubset(k, ordinary) : Closest(x, near, ordinary)}
<1>f. Cardinality(ordinary) \in Nat
  BY FS_CardinalityType
<1>1. 0 \in A
  <2>1. {} \in kSubset(0, ordinary)
    BY FS_EmptySet DEF kSubset
  <2> QED  BY <2>1 DEF Closest
<1>2. ASSUME NEW k \in A PROVE k + 1 \in A
  <2> SUFFICES ASSUME k + 1 <= Cardinality(ordinary)
               PROVE  \E near \in kSubset(k + 1, ordinary) : Closest(x, near, ordinary)
    OBVIOUS
  <2>0. k \in Nat /\ k <= Cardinality(ordinary) /\ k # Cardinality(ordinary)
    BY <1>f
  <2>1. PICK near \in kSubset(k, ordinary) : Closest(x, near, ordinary)
    BY <2>0
  <2>2. near \in SUBSET ordinary /\ Cardinality(near) = k
    BY <2>1 DEF kSubset
  <2>3. IsFiniteSet(near)
    BY <2>2, FS_Subset
  <2>4. ordinary \ near # {}
    <3>1. near # ordinary
      BY <2>0, <2>2
    <3>  QED  BY <2>2, <3>1
  <2> DEFINE D == {Size(z - x) : z \in ordinary \ near}
  <2>5. D \subseteq Nat /\ D # {}
    <3>1. \A z \in ordinary : Size(z - x) \in Nat
      <4> SUFFICES ASSUME NEW z \in ordinary PROVE Size(z - x) \in Nat
        OBVIOUS
      <4>1. z - x \in Int
        OBVIOUS
      <4> QED  BY <4>1 DEF Size
    <3>2. QED  BY <2>4, <3>1
  <2>6. PICK d \in D : \A e \in D : d <= e
    <3> HIDE DEF D
    <3> QED  BY <2>5, LeastOf
  <2>7. PICK z \in ordinary \ near : d = Size(z - x)
    OBVIOUS
  <2>8. \A w \in ordinary \ near : Size(z - x) <= Size(w - x)
    BY <2>6, <2>7
  <2> DEFINE more == near \cup {z}
  <2>9. more \in kSubset(k + 1, ordinary)
    <3>1. Cardinality(more) = k + 1
      BY <2>2, <2>3, FS_AddElement
    <3> QED  BY <2>2, <3>1 DEF kSubset
  <2>10. Closest(x, more, ordinary)
    BY <2>1, <2>8 DEF Closest
  <2> QED  BY <2>9, <2>10
<1>3. count \in A
  <2>1. A \in SUBSET Nat /\ count \in Nat
    BY <1>f
  <2> HIDE DEF A
  <2> QED  BY <1>1, <1>2, <2>1, NatSets
<1> QED  BY <1>3, <1>f

LEMMA NearestIs ==
    ASSUME NEW ordinary, IsFiniteSet(ordinary), ordinary \subseteq Int, ordinary # {},
           NEW x \in Int
    PROVE  /\ Nearest(x, ordinary) \in SUBSET ordinary
           /\ IsFiniteSet(Nearest(x, ordinary)) /\ Nearest(x, ordinary) # {}
<1> DEFINE count == IF Cardinality(ordinary) < NEIGHBOURS THEN Cardinality(ordinary)
                    ELSE NEIGHBOURS
<1>1. Cardinality(ordinary) \in Nat \ {0}
  BY FS_CardinalityType, FS_EmptySet
<1>2. count \in 0..Cardinality(ordinary) /\ count # 0
  BY <1>1, BoundsAssumption
<1>3. Nearest(x, ordinary) \in kSubset(count, ordinary)
  <2> HIDE DEF count
  <2>1. \E near \in kSubset(count, ordinary) : Closest(x, near, ordinary)
    BY <1>2, ClosestExist
  <2>2. Nearest(x, ordinary) =
          CHOOSE near \in kSubset(count, ordinary) : Closest(x, near, ordinary)
    BY DEF Nearest, Closest, count
  <2> QED  BY <2>1, <2>2
<1>4. Nearest(x, ordinary) \in SUBSET ordinary /\ Cardinality(Nearest(x, ordinary)) # 0
  <2> HIDE DEF count
  <2> QED  BY <1>2, <1>3 DEF kSubset
<1> QED  BY <1>4, FS_Subset, FS_EmptySet

-----------------------------------------------------------------------------
(* Floats. *)

LEMMA SizeType ==
    ASSUME NEW n \in Int
    PROVE  Size(n) \in Nat /\ \A m \in Int : Size(n + m) <= Size(n) + Size(m)
BY DEF Size

LEMMA RoundedType ==
    ASSUME NEW n \in Int
    PROVE  /\ Rounded(n) \in Int \cup {INF}
           /\ Size(n) <= EXACT => Rounded(n) = n
<1> DEFINE grains == {g \in GRAINS : Size(n) <= g * EXACT}
           grain == Min(grains)
           nearest == grain * ((2 * n + grain) \div (2 * grain))
<1>1. Rounded(n) = IF Size(n) <= EXACT THEN n ELSE IF grains = {} THEN INF ELSE nearest
  BY DEF Rounded
<1>2. ASSUME grains # {} PROVE nearest \in Int
  <2>1. grains \subseteq Nat \ {0}
    BY FloatsAssumption
  <2>2. PICK m \in grains : \A g \in grains : m <= g
    <3>1. grains \subseteq Nat
      BY <2>1
    <3> HIDE DEF grains
    <3> QED  BY <1>2, <3>1, LeastOf
  <2>3. grain \in grains
    <3> HIDE DEF grains
    <3> QED  BY <2>2 DEF Min
  <2>4. grain \in Nat \ {0}
    <3> HIDE DEF grain, grains
    <3> QED  BY <2>1, <2>3
  <2> HIDE DEF grain, grains
  <2> QED  BY <2>4
<1> HIDE DEF grains, nearest
<1> QED  BY <1>1, <1>2

(* Sums and differences are values again, and a difference of values that  *)
(* is no outlying one is small or NaN.                                     *)
LEMMA PlusType ==
    ASSUME NEW a \in Numbers, NEW b \in Numbers
    PROVE  Plus(a, b) \in Numbers /\ Minus(a, b) \in Numbers
<1>1. CASE a \in Int /\ b \in Int
  <2>1. a + b \in Int /\ a - b \in Int
    BY <1>1
  <2> QED  BY <2>1, RoundedType DEF Plus, Minus, Numbers
<1>2. CASE ~(a \in Int /\ b \in Int)
  BY <1>2, ShiftsAssumption DEF Plus, Minus, Numbers
<1> QED  BY <1>1, <1>2

LEMMA PlusIsNumber ==
    ASSUME NEW a \in Numbers, a # NaN, NEW n \in Int
    PROVE  Plus(a, n) # NaN
<1>1. CASE a = INF
  BY <1>1, ShiftsAssumption DEF Plus
<1>2. CASE a \in Int
  <2>1. a + n \in Int
    BY <1>2
  <2>2. Rounded(a + n) # NaN
    BY <2>1, RoundedType, ShiftsAssumption
  <2> QED  BY <1>2, <2>2, ShiftsAssumption DEF Plus
<1> QED  BY <1>1, <1>2 DEF Numbers

LEMMA SmallOrNaN ==
    ASSUME NEW v \in Numbers, ~AtLeast(v, THRESHOLD), v # NaN
    PROVE  v \in Int /\ v \in Small
<1>1. v \in Int /\ ~(Size(v) >= THRESHOLD)
  BY ShiftsAssumption DEF AtLeast, Numbers
<1> QED  BY <1>1, BoundsAssumption DEF Size, Small

(* A shift, or a mean, is added exactly to a number that does not absorb   *)
(* it.                                                                     *)
LEMMA ExactSum ==
    ASSUME NEW a \in -LARGEST..LARGEST, NEW b \in Numbers, ~Absorbs(b), b # NaN
    PROVE  /\ b \in Int /\ Plus(a, b) = a + b /\ Plus(b, a) = a + b
           /\ Minus(a + b, b) = a
<1>1. b \in Int /\ Size(b) <= EXACT - LARGEST
  <2>1. b \in Int
    BY DEF Absorbs, Numbers
  <2>2. ~(Size(b) > EXACT - LARGEST)
    BY DEF Absorbs
  <2> QED  BY <2>1, <2>2, SizeType, FloatsAssumption
<1>2. a \in Int /\ Size(a) <= LARGEST /\ LARGEST \in Nat /\ EXACT \in Nat
  BY FloatsAssumption DEF Size
<1>3. a + b \in Int /\ b + a = a + b /\ (a + b) - b = a
  BY <1>1, <1>2
<1>4. Size(a + b) <= EXACT
  <2>1. Size(a + b) <= Size(a) + Size(b)
    BY <1>1, <1>2, SizeType
  <2>2. Size(a) \in Nat /\ Size(b) \in Nat /\ Size(a + b) \in Nat
    BY <1>1, <1>2, <1>3, SizeType
  <2> QED  BY <1>1, <1>2, <2>1, <2>2
<1>5. Rounded(a + b) = a + b
  BY <1>3, <1>4, RoundedType
<1>6. NaN \notin {a, b} /\ INF \notin {a, b} /\ NaN # a + b /\ INF # a + b
  BY <1>1, <1>2, <1>3, ShiftsAssumption
<1>7. Plus(a, b) = a + b /\ Plus(b, a) = a + b
  BY <1>3, <1>5, <1>6 DEF Plus
<1>8. Minus(a + b, b) = a
  BY <1>3, <1>6 DEF Minus
<1> QED  BY <1>1, <1>7, <1>8

(* A mean of ordinary steps is an ordinary step, or NaN if one of them is. *)
LEMMA MeanOrdinary ==
    ASSUME NEW near \in SUBSET Points, IsFiniteSet(near), near # {},
           NEW before \in Rows, NEW row \in Rows,
           \A y \in near : ~Outlying(before, row, y)
    PROVE  LET mean == MeanStep(before, row, near)
           IN  \/ mean = NaN /\ \E y \in near : Minus(row[y], before[y]) = NaN
               \/ mean \in Small
<1> DEFINE steps == [y \in near |-> Minus(row[y], before[y])]
           b == THRESHOLD - 1
<1>1. CASE \E y \in near : steps[y] = NaN
  BY <1>1 DEF MeanStep
<1>2. CASE \A y \in near : steps[y] # NaN
  <2>1. b \in Nat /\ -b = 1 - THRESHOLD
    BY BoundsAssumption
  <2>2. steps \in [near -> -b..b]
    <3>1. ASSUME NEW y \in near PROVE steps[y] \in -b..b
      <4>1. row[y] \in Numbers /\ before[y] \in Numbers
        BY DEF Rows
      <4>2. steps[y] = Minus(row[y], before[y]) /\ steps[y] \in Numbers
        BY <4>1, PlusType
      <4>3. ~AtLeast(steps[y], THRESHOLD)
        BY <4>2 DEF Outlying
      <4> HIDE DEF steps
      <4> QED  BY <1>2, <2>1, <4>2, <4>3, SmallOrNaN DEF Small
    <3> QED  BY <3>1
  <2>3. MeanStep(before, row, near) = SumFunction(steps) \div Cardinality(near)
    BY <1>2 DEF MeanStep
  <2> DEFINE mean == SumFunction(steps) \div Cardinality(near)
  <2>4. mean \in Int /\ -b <= mean /\ mean <= b
    <3> HIDE DEF steps, b
    <3> QED  BY <2>1, <2>2, MeanBounded
  <2> HIDE DEF mean, steps
  <2>5. mean \in Small
    BY <2>1, <2>4, BoundsAssumption DEF Small
  <2> QED  BY <2>3, <2>5 DEF mean
<1> QED  BY <1>1, <1>2

-----------------------------------------------------------------------------
(* One row after its correction.                                           *)

LEMMA FibresApart ==
    /\ TFibre \in SUBSET Points /\ RHFibre \in SUBSET Points
    /\ TFibre \cap RHFibre = {} /\ Points \subseteq Int
    /\ \A fibre \in SUBSET Points : IsFiniteSet(fibre)
<1>1. TFibre \in SUBSET Points /\ RHFibre \in SUBSET Points /\ TFibre \cap RHFibre = {}
  <2>1. /\ POINTS \in Int /\ T_INITIAL \in Int /\ T_FINAL \in Int /\ RH_INITIAL \in Int
        /\ RH_FINAL \in Int /\ 0 <= T_INITIAL /\ T_INITIAL <= T_FINAL
        /\ T_FINAL <= RH_INITIAL /\ 0 <= RH_INITIAL /\ RH_INITIAL <= RH_FINAL
        /\ RH_FINAL <= POINTS
    BY FibresAssumption
  <2> QED  BY <2>1 DEF TFibre, RHFibre, Fibre, Points
<1>2. IsFiniteSet(Points) /\ Points \subseteq Int
  BY FibresAssumption, FS_Interval DEF Points
<1> QED  BY <1>1, <1>2, FS_Subset

(* A point of a row before its correction, and after it: as it was, or the *)
(* point before it with a small step added, or NaN because a step near it  *)
(* is NaN.                                                                 *)
Kept(fibre, before, row, x, new) ==
    /\ new = row[x]
    /\ x \in fibre /\ Outlying(before, row, x) => \A y \in fibre : Outlying(before, row, y)
Moved(fibre, before, row, x, new) ==
    /\ x \in fibre /\ Outlying(before, row, x)
    /\ \/ new = NaN /\ \E y \in fibre : Minus(row[y], before[y]) = NaN
       \/ before[x] # NaN /\ \E step \in Small : new = Plus(before[x], step)

(* A corrected point is an outlier; less than the threshold is added to it,*)
(* or it is NaN because a step near it is NaN.                             *)
LEMMA SubstitutedPoint ==
    ASSUME NEW fibre \in SUBSET Points, NEW before \in Rows, NEW row \in Rows,
           NEW x \in Points
    PROVE  LET new == Substituted(fibre, before, row)[x]
           IN  Kept(fibre, before, row, x, new) \/ Moved(fibre, before, row, x, new)
<1> DEFINE outliers == {y \in fibre : Outlying(before, row, y)}
           ordinary == fibre \ outliers
           near == Nearest(x, ordinary)
           mean == MeanStep(before, row, near)
<1>1. Substituted(fibre, before, row)[x] =
        IF x \in outliers /\ ordinary # {} THEN Plus(before[x], mean) ELSE row[x]
  BY DEF Substituted
<1>2. CASE x \in outliers /\ ordinary # {}
  <2>1. near \in SUBSET ordinary /\ IsFiniteSet(near) /\ near # {}
    <3>1. IsFiniteSet(ordinary) /\ ordinary \subseteq Int /\ x \in Int
      BY FibresApart
    <3> HIDE DEF ordinary
    <3> QED  BY <1>2, <3>1, NearestIs
  <2>2. near \in SUBSET Points /\ \A y \in near : y \in fibre /\ ~Outlying(before, row, y)
    BY <2>1
  <2>3. \/ mean = NaN /\ \E y \in near : Minus(row[y], before[y]) = NaN
        \/ mean \in Small
    <3> HIDE DEF near
    <3> QED  BY <2>1, <2>2, MeanOrdinary
  <2>4. before[x] # NaN
    BY <1>2 DEF Outlying, AtLeast, Minus
  <2> HIDE DEF mean, near
  <2>5. CASE mean = NaN /\ \E y \in near : Minus(row[y], before[y]) = NaN
    <3>1. Plus(before[x], mean) = NaN
      BY <2>5 DEF Plus
    <3> QED  BY <1>1, <1>2, <2>2, <2>5, <3>1 DEF Moved
  <2>6. CASE mean \in Small
    BY <1>1, <1>2, <2>4, <2>6 DEF Moved
  <2> QED  BY <2>3, <2>5, <2>6
<1>3. CASE ~(x \in outliers /\ ordinary # {})
  BY <1>1, <1>3 DEF Kept
<1> QED  BY <1>2, <1>3

LEMMA SubstitutedType ==
    ASSUME NEW fibre \in SUBSET Points, NEW before \in Rows, NEW row \in Rows
    PROVE  Substituted(fibre, before, row) \in Rows
<1>1. ASSUME NEW x \in Points
      PROVE  Substituted(fibre, before, row)[x] \in Numbers
  <2>1. row[x] \in Numbers /\ before[x] \in Numbers
    BY DEF Rows
  <2>2. \A step \in Small : Plus(before[x], step) \in Numbers
    <3> TAKE step \in Small
    <3>1. step \in Numbers
      BY BoundsAssumption DEF Numbers, Small
    <3> QED  BY <2>1, <3>1, PlusType
  <2>3. NaN \in Numbers
    BY DEF Numbers
  <2>4. \/ Substituted(fibre, before, row)[x] \in {row[x], NaN}
        \/ \E step \in Small : Substituted(fibre, before, row)[x] = Plus(before[x], step)
    BY SubstitutedPoint DEF Kept, Moved
  <2> QED  BY <2>1, <2>2, <2>3, <2>4
<1>2. /\ DOMAIN Substituted(fibre, before, row) = Points
      /\ Substituted(fibre, before, row) =
            [x \in Points |-> Substituted(fibre, before, row)[x]]
  BY DEF Substituted
<1> HIDE DEF Substituted
<1> QED  BY <1>1, <1>2 DEF Rows

(* Substitution looks at the fibre alone.                                  *)
LEMMA SubstitutedLocally ==
    ASSUME NEW fibre \in SUBSET Points, NEW before, NEW row, NEW other,
           \A y \in fibre : row[y] = other[y], NEW x \in fibre
    PROVE  Substituted(fibre, before, row)[x] = Substituted(fibre, before, other)[x]
<1> DEFINE outliers == {y \in fibre : Outlying(before, row, y)}
           ordinary == fibre \ outliers
           near == Nearest(x, ordinary)
<1>1. outliers = {y \in fibre : Outlying(before, other, y)}
  BY DEF Outlying
<1>2. ASSUME ordinary # {}
      PROVE  MeanStep(before, row, near) = MeanStep(before, other, near)
  <2>1. near \in SUBSET ordinary
    <3>1. IsFiniteSet(ordinary) /\ ordinary \subseteq Int /\ x \in Int
      BY FibresApart
    <3> HIDE DEF ordinary
    <3> QED  BY <1>2, <3>1, NearestIs
  <2>2. \A y \in near : row[y] = other[y]
    BY <2>1
  <2> HIDE DEF near
  <2>3. [y \in near |-> Minus(row[y], before[y])] = [y \in near |-> Minus(other[y], before[y])]
    BY <2>2
  <2> QED  BY <2>3 DEF MeanStep
<1>3. Substituted(fibre, before, row)[x] =
        IF x \in outliers /\ ordinary # {}
        THEN Plus(before[x], MeanStep(before, row, near)) ELSE row[x]
  BY DEF Substituted
<1>4. Substituted(fibre, before, other)[x] =
        IF x \in outliers /\ ordinary # {}
        THEN Plus(before[x], MeanStep(before, other, near)) ELSE other[x]
  BY <1>1 DEF Substituted
<1> HIDE DEF near
<1> QED  BY <1>2, <1>3, <1>4

(* The two fibres are corrected independently, and nothing else.           *)
LEMMA CorrectedPoint ==
    ASSUME NEW before \in Rows, NEW row \in Rows
    PROVE  /\ Corrected(before, row) \in Rows
           /\ \A fibre \in {TFibre, RHFibre} : \A x \in fibre :
                 Corrected(before, row)[x] = Substituted(fibre, before, row)[x]
           /\ \A x \in Points : x \notin TFibre \cup RHFibre =>
                 Corrected(before, row)[x] = row[x]
<1> DEFINE first == Substituted(TFibre, before, row)
<1>1. first \in Rows
  BY FibresApart, SubstitutedType
<1>2. \A x \in Points : x \notin TFibre => first[x] = row[x]
  BY DEF Substituted
<1>3. Corrected(before, row) = Substituted(RHFibre, before, first)
  BY DEF Corrected
<1>4. \A x \in Points : x \notin RHFibre => Corrected(before, row)[x] = first[x]
  BY <1>3 DEF Substituted
<1>5. Corrected(before, row) \in Rows
  <2> HIDE DEF first
  <2> QED  BY <1>1, <1>3, FibresApart, SubstitutedType
<1>6. \A x \in RHFibre : Corrected(before, row)[x] = Substituted(RHFibre, before, row)[x]
  <2>1. \A x \in RHFibre : first[x] = row[x]
    BY <1>2, FibresApart
  <2> HIDE DEF first
  <2> QED  BY <1>3, <2>1, FibresApart, SubstitutedLocally
<1>7. \A x \in TFibre : Corrected(before, row)[x] = first[x]
  BY <1>4, FibresApart
<1>8. \A x \in Points : x \notin TFibre \cup RHFibre => Corrected(before, row)[x] = row[x]
  BY <1>2, <1>4
<1> QED  BY <1>5, <1>6, <1>7, <1>8

-----------------------------------------------------------------------------
(* The rows of the array.                                                  *)

(* A row before its correction, and what the first row is compared with.   *)
Added(shift, last) == [x \in Points |-> Plus(shift[x], last[x])]
FirstBefore == IF Len(shifts) = 1 THEN shifts[1] ELSE memory

(* Each row of the array, and from the second on each row of the array     *)
(* before, is its shift added to the row before it, corrected.             *)
RowsInv ==
    /\ rows # <<>> => rows[1] = Corrected(FirstBefore, shifts[1])
    /\ \A t \in 2..Len(rows) : rows[t] = Corrected(rows[t - 1], Added(shifts[t], rows[t - 1]))
    /\ \A t \in 2..Len(published) :
          published[t] = Corrected(published[t - 1], Added(shifts[t], published[t - 1]))

LEMMA ShiftsAreRows ==
    /\ PairShifts \subseteq [Points -> Int] /\ PairShifts \subseteq Rows
    /\ PairShifts \subseteq [Points -> -LARGEST..LARGEST]
<1>1. ASSUME NEW shift \in PairShifts PROVE shift \in [Points -> -LARGEST..LARGEST]
  <2>1. \A x \in Points : shift[x] \in -LARGEST..LARGEST
    BY ShiftsAssumption DEF PairShifts
  <2>2. shift = [x \in Points |-> shift[x]]
    BY DEF PairShifts
  <2> QED  BY <2>1, <2>2
<1>2. -LARGEST..LARGEST \subseteq Int
  BY FloatsAssumption
<1> QED  BY <1>1, <1>2 DEF Rows, Numbers

LEMMA AddedType ==
    ASSUME TypeOK, NEW t \in 1..Len(shifts), NEW last \in Rows
    PROVE  shifts[t] \in PairShifts /\ Added(shifts[t], last) \in Rows
<1>1. shifts[t] \in PairShifts
  BY DEF TypeOK
<1>2. \A x \in Points : Plus(shifts[t][x], last[x]) \in Numbers
  <2> TAKE x \in Points
  <2>1. shifts[t][x] \in Numbers /\ last[x] \in Numbers
    BY <1>1, ShiftsAreRows DEF Rows
  <2> QED  BY <2>1, PlusType
<1> QED  BY <1>1, <1>2 DEF Added, Rows

(* What Advance appends.                                                   *)
LEMMA AdvanceAppends ==
    ASSUME TypeOK, Advance
    PROVE  LET n == Len(rows) + 1
               before == IF n = 1 THEN FirstBefore ELSE rows[n - 1]
               row == IF n = 1 THEN shifts[1] ELSE Added(shifts[n], rows[n - 1])
           IN  /\ n \in 1..Len(shifts) /\ rows' = Append(rows, Corrected(before, row))
               /\ before \in Rows /\ row \in Rows
<1>1. /\ Len(rows) \in Nat /\ Len(shifts) \in Nat /\ Len(rows) < Len(shifts)
      /\ rows' = Append(rows, Corrected(Before, Accumulated))
  BY DEF TypeOK, Advance
<1>2. CASE Len(rows) = 0
  <2>1. shifts[1] \in PairShifts /\ shifts[1] \in Rows
    BY <1>1, <1>2, ShiftsAreRows DEF TypeOK
  <2>2. Accumulated = shifts[1]
    <3>1. Accumulated = [x \in Points |-> shifts[1][x]]
      BY <1>2 DEF Accumulated, time
    <3> QED  BY <2>1, <3>1 DEF Rows
  <2>3. Before = FirstBefore /\ FirstBefore \in Rows
    BY <1>2, <2>1, <2>2, ShiftsAssumption DEF Before, time, FirstBefore, TypeOK
  <2> QED  BY <1>1, <1>2, <2>1, <2>2, <2>3
<1>3. CASE Len(rows) # 0
  <2> DEFINE n == Len(rows) + 1
  <2>1. n \in 1..Len(shifts) /\ n - 1 \in 1..Len(rows) /\ n # 1 /\ n > 1
    BY <1>1, <1>3
  <2>2. rows[n - 1] \in Rows
    BY <2>1 DEF TypeOK
  <2>3. Accumulated = Added(shifts[n], rows[n - 1]) /\ Before = rows[n - 1]
    BY <2>1 DEF Accumulated, Added, Before, time
  <2>4. Added(shifts[n], rows[n - 1]) \in Rows
    BY <2>1, <2>2, AddedType
  <2> HIDE DEF n
  <2>5. rows' = Append(rows, Corrected(rows[n - 1], Added(shifts[n], rows[n - 1])))
    BY <1>1, <2>3
  <2> QED  BY <2>1, <2>2, <2>4, <2>5 DEF n
<1> QED  BY <1>1, <1>2, <1>3

LEMMA TypeStep == TypeOK /\ [Next]_vars => TypeOK'
<1> SUFFICES ASSUME TypeOK, [Next]_vars PROVE TypeOK'
  OBVIOUS
<1>1. CASE NewSweep
  <2>1. PICK shift \in PairShifts : shifts' = Append(shifts, shift)
    BY <1>1 DEF NewSweep
  <2>2. /\ rows' = <<>> /\ published' = rows /\ Len(rows) = Len(shifts)
        /\ Len(shifts) < MAX_PAIRS /\ memory' \in Memories
    BY <1>1 DEF NewSweep
  <2>3. shifts' \in Seq(PairShifts) /\ Len(shifts') = Len(shifts) + 1 /\ Len(shifts) \in Nat
    BY <2>1 DEF TypeOK
  <2>4. rows' \in Seq(Rows) /\ Len(rows') = 0
    BY <2>2
  <2>5. published' \in Seq(Rows) /\ Len(published') = Len(shifts') - 1
    BY <2>2, <2>3 DEF TypeOK
  <2>6. Len(rows') <= Len(shifts') /\ Len(shifts') <= MAX_PAIRS
    BY <2>2, <2>3, <2>4, BoundsAssumption
  <2> QED  BY <2>2, <2>3, <2>4, <2>5, <2>6 DEF TypeOK
<1>2. CASE Advance
  <2> DEFINE n == Len(rows) + 1
             before == IF n = 1 THEN FirstBefore ELSE rows[n - 1]
             row == IF n = 1 THEN shifts[1] ELSE Added(shifts[n], rows[n - 1])
  <2>1. rows' = Append(rows, Corrected(before, row)) /\ before \in Rows /\ row \in Rows
    BY <1>2, AdvanceAppends
  <2> HIDE DEF before, row
  <2>2. rows' \in Seq(Rows) /\ Len(rows') = Len(rows) + 1
    BY <2>1, CorrectedPoint DEF TypeOK
  <2> QED  BY <1>2, <2>2 DEF Advance, TypeOK
<1>3. CASE UNCHANGED vars
  BY <1>3 DEF vars, TypeOK
<1> QED  BY <1>1, <1>2, <1>3 DEF Next

LEMMA RowsStep == TypeOK /\ RowsInv /\ [Next]_vars => RowsInv'
<1> SUFFICES ASSUME TypeOK, RowsInv, [Next]_vars PROVE RowsInv'
  OBVIOUS
<1>1. CASE NewSweep
  <2>1. PICK shift \in PairShifts : shifts' = Append(shifts, shift)
    BY <1>1 DEF NewSweep
  <2>2. rows' = <<>> /\ published' = rows /\ Len(rows) = Len(shifts)
    BY <1>1 DEF NewSweep
  <2>3. \A t \in 1..Len(rows) : shifts'[t] = shifts[t]
    BY <2>1, <2>2 DEF TypeOK
  <2>4. ASSUME NEW t \in 2..Len(published')
        PROVE  published'[t] = Corrected(published'[t - 1], Added(shifts'[t], published'[t - 1]))
    <3>1. t \in 1..Len(rows) /\ t \in 2..Len(rows)
      BY <2>2
    <3>2. shifts'[t] = shifts[t]
      BY <2>3, <3>1
    <3> QED  BY <2>2, <3>1, <3>2 DEF RowsInv
  <2>5. Len(rows') = 0
    BY <2>2
  <2> QED  BY <2>2, <2>4, <2>5 DEF RowsInv
<1>2. CASE Advance
  <2> DEFINE n == Len(rows) + 1
             before == IF n = 1 THEN FirstBefore ELSE rows[n - 1]
             row == IF n = 1 THEN shifts[1] ELSE Added(shifts[n], rows[n - 1])
  <2>1. rows' = Append(rows, Corrected(before, row))
    BY <1>2, AdvanceAppends
  <2>2. UNCHANGED <<shifts, memory, published>>
    BY <1>2 DEF Advance
  <2>3. /\ Len(rows) \in Nat /\ Len(rows') = Len(rows) + 1
        /\ \A t \in 1..Len(rows) : rows'[t] = rows[t]
        /\ rows'[Len(rows) + 1] = Corrected(before, row)
    <3> HIDE DEF before, row
    <3> QED  BY <2>1 DEF TypeOK
  <2>4. FirstBefore' = FirstBefore
    BY <2>2 DEF FirstBefore
  <2>5. rows'[1] = Corrected(FirstBefore, shifts[1])
    <3>1. CASE Len(rows) = 0
      BY <2>3, <3>1
    <3>2. CASE Len(rows) # 0
      BY <2>3, <3>2 DEF RowsInv, TypeOK
    <3> QED  BY <3>1, <3>2
  <2>6. ASSUME NEW t \in 2..Len(rows')
        PROVE  rows'[t] = Corrected(rows'[t - 1], Added(shifts[t], rows'[t - 1]))
    <3>1. rows'[t - 1] = rows[t - 1]
      BY <2>3
    <3>2. CASE t \in 1..Len(rows)
      <4>1. t \in 2..Len(rows) /\ rows'[t] = rows[t]
        BY <2>3, <3>2
      <4> QED  BY <3>1, <4>1 DEF RowsInv
    <3>3. CASE t = n
      BY <2>3, <3>1, <3>3
    <3> QED  BY <2>3, <3>2, <3>3
  <2>7. \A t \in 2..Len(rows') :
          rows'[t] = Corrected(rows'[t - 1], Added(shifts'[t], rows'[t - 1]))
    BY <2>2, <2>6
  <2>8. \A t \in 2..Len(published') :
          published'[t] = Corrected(published'[t - 1], Added(shifts'[t], published'[t - 1]))
    BY <2>2 DEF RowsInv
  <2> QED  BY <2>2, <2>4, <2>5, <2>7, <2>8 DEF RowsInv
<1>3. CASE UNCHANGED vars
  BY <1>3 DEF vars, RowsInv, FirstBefore
<1> QED  BY <1>1, <1>2, <1>3 DEF Next

(* Every array has one row per pair, of numbers or NaN                     *)
(* (moving_cumulative).                                                    *)
THEOREM CumulativeTypeCorrect == Spec => []TypeOK
<1>1. Init => TypeOK
  BY BoundsAssumption DEF Init, TypeOK
<1> QED  BY <1>1, TypeStep, PTL DEF Spec

(* Each row is the row before it with the shifts of its pair, corrected    *)
(* (moving_cumulative_calculation), also in the message before.            *)
THEOREM RowsCorrect == Spec => []RowsInv
<1>1. Init => RowsInv
  BY DEF Init, RowsInv
<1> QED  BY <1>1, RowsStep, CumulativeTypeCorrect, PTL DEF Spec

LEMMA TotalNext ==
    ASSUME TypeOK, NEW n \in Nat, n + 1 <= Len(shifts), NEW x \in Points
    PROVE  /\ Total(1, x) = shifts[1][x]
           /\ Total(n + 1, x) = Total(n, x) + shifts[n + 1][x]
           /\ Total(n + 1, x) \in Int
<1>1. Len(shifts) \in Nat /\ \A i \in 1..Len(shifts) : shifts[i][x] \in Int
  <2>1. \A i \in 1..Len(shifts) : shifts[i] \in [Points -> Int]
    BY ShiftsAreRows DEF TypeOK
  <2> QED  BY <2>1 DEF TypeOK
<1>2. Total(1, x) = shifts[1][x]
  <2> DEFINE f == [i \in 1..1 |-> shifts[i][x]]
  <2>1. f \in [1..1 -> Int] /\ f[1] = shifts[1][x]
    BY <1>1
  <2> HIDE DEF f
  <2>2. SumFunction(f) = f[1]
    BY <2>1, SumOfOne
  <2> QED  BY <2>1, <2>2 DEF Total, f
<1> DEFINE f == [i \in 1..n + 1 |-> shifts[i][x]]
<1>3. f \in [1..n + 1 -> Int] /\ f[n + 1] = shifts[n + 1][x]
  BY <1>1
<1>4. [i \in 1..n |-> f[i]] = [i \in 1..n |-> shifts[i][x]]
  OBVIOUS
<1>5. SumFunction(f) = SumFunction([i \in 1..n |-> f[i]]) + f[n + 1]
  <2> HIDE DEF f
  <2> QED  BY <1>3, SumToNext
<1>6. SumFunction(f) \in Int
  <2>1. IsFiniteSet(1..n + 1)
    BY FS_Interval
  <2> DEFINE S == 1..n + 1
  <2> HIDE DEF f, S
  <2>2. PICK g : Sums(g, f, S) /\ SumFunction(f) = g[S]
    BY <1>3, <2>1, SumIs DEF S
  <2> QED  BY <2>2 DEF Sums
<1> QED  BY <1>2, <1>3, <1>4, <1>5, <1>6 DEF Total

(* Outside the fibres a row is the sum of the shifts so far, while the sums*)
(* are exact floats, whatever the memory held (error_detect_and_replace    *)
(* changes the two fibres only).                                           *)
THEOREM OutsideIsExact == Spec => []OutsideExact
<1> DEFINE Outside(x) == x \in Points /\ x \notin TFibre \cup RHFibre
           Summable(t, x) == \A i \in 1..t : ~(Size(Total(i, x)) > EXACT)
           OutsideInv == \A t \in 1..Len(rows) : \A x \in Points :
                             Outside(x) /\ Summable(t, x) => rows[t][x] = Total(t, x)
<1>1. OutsideInv => OutsideExact
  <2>1. ASSUME NEW x \in Points, ~(T_INITIAL <= x /\ x < T_FINAL),
               ~(RH_INITIAL <= x /\ x < RH_FINAL)
        PROVE  Outside(x)
    BY <2>1, FibresAssumption DEF TFibre, RHFibre, Fibre, Points
  <2> QED  BY <2>1 DEF OutsideExact
<1>2. Init => OutsideInv
  BY DEF Init
<1>3. TypeOK /\ OutsideInv /\ [Next]_vars => OutsideInv'
  <2> SUFFICES ASSUME TypeOK, OutsideInv, [Next]_vars PROVE OutsideInv'
    OBVIOUS
  <2>1. CASE NewSweep
    BY <2>1 DEF NewSweep
  <2>2. CASE Advance
    <3> DEFINE n == Len(rows) + 1
               before == IF n = 1 THEN FirstBefore ELSE rows[n - 1]
               row == IF n = 1 THEN shifts[1] ELSE Added(shifts[n], rows[n - 1])
    <3>1. /\ n \in 1..Len(shifts) /\ rows' = Append(rows, Corrected(before, row))
          /\ before \in Rows /\ row \in Rows
      BY <2>2, AdvanceAppends
    <3>2. shifts' = shifts
      BY <2>2 DEF Advance
    <3>3. /\ Len(rows) \in Nat /\ Len(rows') = n
          /\ \A t \in 1..Len(rows) : rows'[t] = rows[t]
          /\ rows'[n] = Corrected(before, row)
      <4> HIDE DEF before, row
      <4> QED  BY <3>1 DEF TypeOK
    <3>4. ASSUME NEW x \in Points, Outside(x), Summable(n, x)
          PROVE  rows'[n][x] = Total(n, x)
      <4>1. rows'[n][x] = row[x]
        <5> HIDE DEF before, row
        <5> QED  BY <3>1, <3>3, <3>4, CorrectedPoint
      <4>2. CASE n = 1
        <5>1. Total(1, x) = shifts[1][x]
          BY <3>1, <4>2, TotalNext, 0 + 1 = 1
        <5> QED  BY <4>1, <4>2, <5>1
      <4>3. CASE n # 1
        <5>1. n - 1 \in 1..Len(rows)
          BY <3>3, <4>3
        <5>2. rows[n - 1][x] = Total(n - 1, x)
          <6>1. Summable(n - 1, x)
            BY <3>4, <5>1
          <6> QED  BY <3>4, <5>1, <6>1
        <5>3. /\ Total(n, x) = Total(n - 1, x) + shifts[n][x]
          <6>1. n - 1 \in Nat /\ (n - 1) + 1 = n /\ n <= Len(shifts)
            BY <3>1, <5>1
          <6> HIDE DEF n
          <6> QED  BY <6>1, TotalNext
        <5>4. Total(n - 1, x) \in Int
          <6>1. n - 2 \in Nat /\ (n - 2) + 1 = n - 1 /\ n - 1 <= Len(shifts)
            BY <3>1, <5>1
          <6> HIDE DEF n
          <6> QED  BY <6>1, TotalNext
        <5>5. shifts[n][x] \in Int
          BY <3>1, ShiftsAreRows DEF TypeOK
        <5>6. row[x] = Rounded(shifts[n][x] + rows[n - 1][x])
          <6>1. row[x] = Plus(shifts[n][x], rows[n - 1][x])
            BY <4>3 DEF Added
          <6>2. {NaN, INF} \cap {shifts[n][x], rows[n - 1][x]} = {}
            BY <5>2, <5>4, <5>5, ShiftsAssumption
          <6> QED  BY <6>1, <6>2 DEF Plus
        <5>7. ~(Size(Total(n, x)) > EXACT)
          BY <3>1, <3>4
        <5> HIDE DEF n, row, before
        <5>8. shifts[n][x] + rows[n - 1][x] = Total(n, x) /\ Total(n, x) \in Int
          BY <5>2, <5>3, <5>4, <5>5
        <5>9. Rounded(Total(n, x)) = Total(n, x)
          <6>1. Size(Total(n, x)) \in Nat /\ EXACT \in Nat
            BY <5>8, SizeType, FloatsAssumption
          <6>2. Size(Total(n, x)) <= EXACT
            BY <5>7, <6>1
          <6> QED  BY <5>8, <6>2, RoundedType
        <5> QED  BY <4>1, <5>6, <5>8, <5>9
      <4> QED  BY <4>2, <4>3
    <3>5. \A t, x : Total(t, x)' = Total(t, x)
      BY <3>2 DEF Total
    <3>6. ASSUME NEW t \in 1..Len(rows'), NEW x \in Points, Outside(x), Summable(t, x)
          PROVE  rows'[t][x] = Total(t, x)
      <4>1. t \in 1..Len(rows) \/ t = n
        BY <3>3
      <4> HIDE DEF n, before, row
      <4> QED  BY <3>3, <3>4, <3>6, <4>1
    <3> QED  BY <3>5, <3>6
  <2>3. CASE UNCHANGED vars
    BY <2>3 DEF vars, Total
  <2> QED  BY <2>1, <2>2, <2>3 DEF Next
<1> HIDE DEF OutsideInv
<1> QED  BY <1>1, <1>2, <1>3, CumulativeTypeCorrect, PTL DEF Spec

-----------------------------------------------------------------------------
(* Steps from one row to the next.                                         *)

LEMMA StepIsShift ==
    ASSUME NEW shift \in PairShifts, NEW last \in Rows, NEW x \in Points,
           ~Absorbs(last[x])
    PROVE  /\ Minus(Added(shift, last)[x], last[x]) = IF last[x] = NaN THEN NaN ELSE shift[x]
           /\ Outlying(last, Added(shift, last), x) <=>
                 last[x] # NaN /\ Size(shift[x]) >= THRESHOLD
<1>1. last[x] \in Numbers /\ shift[x] \in -LARGEST..LARGEST /\ shift[x] \in Int
  BY ShiftsAreRows DEF Rows
<1>2. Added(shift, last)[x] = Plus(shift[x], last[x])
  BY DEF Added
<1>3. CASE last[x] = NaN
  BY <1>2, <1>3 DEF Plus, Minus, Outlying, AtLeast
<1>4. CASE last[x] # NaN
  <2>1. Minus(Added(shift, last)[x], last[x]) = shift[x]
    BY <1>1, <1>2, <1>4, ExactSum
  <2>2. shift[x] # NaN /\ shift[x] # INF
    BY <1>1, ShiftsAssumption
  <2>3. AtLeast(shift[x], THRESHOLD) <=> Size(shift[x]) >= THRESHOLD
    BY <2>2 DEF AtLeast
  <2> QED  BY <1>4, <2>1, <2>3 DEF Outlying
<1> QED  BY <1>3, <1>4

(* Less than the threshold added to a value is a small step, or none that  *)
(* can be told.                                                            *)
LEMMA StepIsSmall ==
    ASSUME NEW last \in Numbers, ~Absorbs(last), last # NaN,
           NEW step \in Small
    PROVE  Minus(Plus(last, step), last) = step /\ ~AtLeast(step, THRESHOLD)
<1>1. step \in -LARGEST..LARGEST /\ step \in Int
  BY BoundsAssumption, FloatsAssumption DEF Small
<1>2. ~(Size(step) >= THRESHOLD)
  BY <1>1, BoundsAssumption DEF Size, Small
<1>3. step # INF
  BY <1>1, ShiftsAssumption
<1> QED  BY <1>1, <1>2, <1>3, ExactSum DEF AtLeast

LEMMA TypedRows ==
    ASSUME TypeOK, RowsInv, NEW t \in 2..Len(rows)
    PROVE  /\ rows[t - 1] \in Rows /\ shifts[t] \in PairShifts
           /\ Added(shifts[t], rows[t - 1]) \in Rows
           /\ rows[t] = Corrected(rows[t - 1], Added(shifts[t], rows[t - 1]))
<1>1. t \in 1..Len(shifts) /\ t - 1 \in 1..Len(rows)
  BY DEF TypeOK
<1>2. rows[t - 1] \in Rows
  BY <1>1 DEF TypeOK
<1>3. shifts[t] \in PairShifts /\ Added(shifts[t], rows[t - 1]) \in Rows
  BY <1>1, <1>2, AddedType
<1> QED  BY <1>2, <1>3 DEF RowsInv

(* From the second row on, a fibre with a point that takes up a small shift*)
(* keeps no step of the threshold or more where the mean can be added      *)
(* exactly (substitute_outliers: a mean of ordinary steps is an ordinary   *)
(* step).                                                                  *)
THEOREM RepairsAreSmooth == Spec => []RepairedSmooth
<1>1. TypeOK /\ RowsInv => RepairedSmooth
  <2> SUFFICES ASSUME TypeOK, RowsInv, NEW t \in 2..Len(rows),
                      NEW fibre \in {TFibre, RHFibre}, NEW y \in fibre,
                      Size(shifts[t][y]) < THRESHOLD, ~Absorbs(rows[t - 1][y]),
                      NEW x \in fibre, ~Absorbs(rows[t - 1][x])
               PROVE  ~AtLeast(Minus(rows[t][x], rows[t - 1][x]), THRESHOLD)
    BY DEF RepairedSmooth
  <2> DEFINE last == rows[t - 1]
             shift == shifts[t]
             new == rows[t][x]
  <2>1. /\ last \in Rows /\ shift \in PairShifts /\ Added(shift, last) \in Rows
        /\ rows[t] = Corrected(last, Added(shift, last))
    BY TypedRows
  <2>2. fibre \in SUBSET Points /\ x \in Points /\ y \in Points
    BY FibresApart
  <2>3. Size(shift[y]) < THRESHOLD /\ ~Absorbs(last[y]) /\ ~Absorbs(last[x])
    OBVIOUS
  <2> HIDE DEF last, shift
  <2>4. new = Substituted(fibre, last, Added(shift, last))[x]
    BY <2>1, CorrectedPoint
  <2>5. ~Outlying(last, Added(shift, last), y)
    <3>1. shift[y] \in Int
      BY <2>1, <2>2, ShiftsAreRows
    <3>2. ~(Size(shift[y]) >= THRESHOLD)
      <4>1. Size(shift[y]) \in Nat
        BY <3>1, SizeType
      <4> QED  BY <2>3, <4>1, BoundsAssumption
    <3> QED  BY <2>1, <2>2, <2>3, <3>2, StepIsShift
  <2>6. CASE new = Added(shift, last)[x] /\ ~Outlying(last, Added(shift, last), x)
    BY <2>6 DEF Outlying, last
  <2>7. CASE new = NaN
    BY <2>7 DEF Minus, AtLeast
  <2>8. CASE /\ last[x] # NaN
             /\ \E step \in Small : new = Plus(last[x], step)
    <3>1. last[x] \in Numbers
      BY <2>1, <2>2 DEF Rows
    <3> QED  BY <2>3, <2>8, <3>1, StepIsSmall DEF last
  <2> DEFINE row == Added(shift, last)
  <2>9. Kept(fibre, last, row, x, new) \/ Moved(fibre, last, row, x, new)
    BY <2>1, <2>2, <2>4, SubstitutedPoint
  <2> HIDE DEF new, row
  <2>10. CASE Kept(fibre, last, row, x, new)
    BY <2>5, <2>6, <2>10 DEF Kept, row
  <2>11. CASE Moved(fibre, last, row, x, new)
    BY <2>7, <2>8, <2>11 DEF Moved
  <2> QED  BY <2>9, <2>10, <2>11 DEF new
<1> QED  BY <1>1, CumulativeTypeCorrect, RowsCorrect, PTL

(* What unwritten memory can spoil of the first row: points of a fibre far *)
(* from it, in a later message than the first, and how (the comparison     *)
(* with cumulative[0, -1] in moving_cumulative_calculation).               *)
THEOREM SpoiltByMemoryOnly == Spec => []SpoiltOnlyByMemory
<1>1. TypeOK /\ RowsInv => SpoiltOnlyByMemory
  <2> SUFFICES ASSUME TypeOK, RowsInv, rows # <<>>, NEW x \in Points,
                      rows[1][x] # shifts[1][x]
               PROVE  /\ Len(shifts) > 1
                      /\ x \in TFibre \cup RHFibre
                      /\ Outlying(memory, shifts[1], x)
                      /\ IF rows[1][x] = NaN THEN \E y \in Points : memory[y] = NaN
                         ELSE \E step \in Small : rows[1][x] = Plus(memory[x], step)
    BY DEF SpoiltOnlyByMemory
  <2> DEFINE first == shifts[1]
             new == rows[1][x]
  <2>1. Len(shifts) \in Nat \ {0} /\ first \in [Points -> Int] /\ first \in Rows
    <3>1. Len(shifts) \in Nat \ {0}
      BY DEF TypeOK
    <3> QED  BY <3>1, ShiftsAreRows DEF TypeOK
  <2>2. memory \in Rows /\ FirstBefore \in Rows /\ NaN \notin Int
    BY <2>1, ShiftsAssumption DEF FirstBefore, TypeOK
  <2>3. new = Corrected(FirstBefore, first)[x]
    BY DEF RowsInv
  <2> HIDE DEF first
  <2>4. PICK fibre \in {TFibre, RHFibre} : x \in fibre
    BY <2>1, <2>2, <2>3, CorrectedPoint DEF first
  <2>5. fibre \in SUBSET Points /\ new = Substituted(fibre, FirstBefore, first)[x]
    BY <2>1, <2>2, <2>3, <2>4, CorrectedPoint, FibresApart
  <2> HIDE DEF new
  <2>6. new # first[x]
    BY DEF new, first
  <2>7. Moved(fibre, FirstBefore, first, x, new)
    <3>1. \/ Kept(fibre, FirstBefore, first, x, new)
          \/ Moved(fibre, FirstBefore, first, x, new)
      BY <2>1, <2>2, <2>5, SubstitutedPoint
    <3> QED  BY <2>6, <3>1 DEF Kept
  <2>8. Len(shifts) # 1
    <3> SUFFICES ASSUME FirstBefore = first PROVE FALSE
      BY DEF FirstBefore, first
    <3>1. first[x] \in Int
      BY <2>1
    <3>2. Minus(first[x], first[x]) = 0
      BY <3>1, ShiftsAssumption DEF Minus
    <3>3. Size(0) >= THRESHOLD
      BY <2>7, <3>2, ShiftsAssumption DEF Moved, Outlying, AtLeast
    <3> QED  BY <3>3, BoundsAssumption DEF Size
  <2>9. FirstBefore = memory
    BY <2>8 DEF FirstBefore
  <2>10. ASSUME NEW y \in fibre, Minus(first[y], memory[y]) = NaN
         PROVE  memory[y] = NaN
    <3>1. first[y] \in Int /\ memory[y] \in Numbers
      BY <2>1, <2>2, <2>5 DEF Rows
    <3> QED  BY <2>10, <3>1, ShiftsAssumption DEF Minus, Numbers
  <2>11. IF new = NaN THEN \E y \in Points : memory[y] = NaN
         ELSE \E step \in Small : new = Plus(memory[x], step)
    <3>1. new # NaN => \E step \in Small : new = Plus(memory[x], step)
      BY <2>7, <2>9 DEF Moved
    <3>2. new = NaN => \E y \in Points : memory[y] = NaN
      <4>1. CASE \E y \in fibre : Minus(first[y], memory[y]) = NaN
        BY <2>5, <2>10, <4>1
      <4>2. CASE memory[x] # NaN /\ \E step \in Small : NaN = Plus(memory[x], step)
        <5>1. PICK step \in Small : NaN = Plus(memory[x], step)
          BY <4>2
        <5>2. step \in Int /\ memory[x] \in Numbers
          BY <2>2, BoundsAssumption DEF Small, Rows
        <5> QED  BY <4>2, <5>1, <5>2, PlusIsNumber
      <4> QED  BY <2>7, <2>9, <4>1, <4>2 DEF Moved
    <3> QED  BY <3>1, <3>2
  <2>12. Len(shifts) > 1 /\ x \in TFibre \cup RHFibre
    <3>1. Len(shifts) > 1
      <4>1. \A n \in Nat \ {0} : n # 1 => n > 1
        OBVIOUS
      <4> QED  BY <2>1, <2>8, <4>1
    <3>2. x \in TFibre \cup RHFibre
      BY <2>4
    <3> QED  BY <3>1, <3>2
  <2>13. Outlying(memory, first, x)
    BY <2>7, <2>9 DEF Moved
  <2> QED  BY <2>11, <2>12, <2>13 DEF new, first
<1> QED  BY <1>1, CumulativeTypeCorrect, RowsCorrect, PTL

(* With NaN at the same points of a fibre and no number that absorbs a     *)
(* shift, the same points are ordinary, so the same mean is taken.         *)
LEMMA SubstitutedRepeats ==
    ASSUME NEW fibre \in SUBSET Points, NEW shift \in PairShifts,
           NEW last \in Rows, NEW old \in Rows, NEW x \in fibre,
           Hidden(last, fibre) = Hidden(old, fibre),
           Absorbing(last, fibre) = {}, Absorbing(old, fibre) = {}
    PROVE  Minus(Substituted(fibre, last, Added(shift, last))[x], last[x])
             = Minus(Substituted(fibre, old, Added(shift, old))[x], old[x])
<1> DEFINE Outliers(before) == {y \in fibre : Outlying(before, Added(shift, before), y)}
           ordinary == fibre \ Outliers(last)
           near == Nearest(x, ordinary)
           Mean(before) == MeanStep(before, Added(shift, before), near)
<1>1. \A y \in fibre : /\ last[y] = NaN <=> old[y] = NaN
                       /\ ~Absorbs(last[y]) /\ ~Absorbs(old[y])
  BY DEF Hidden, Absorbing
<1>s. ASSUME NEW before \in {last, old}, NEW y \in fibre
      PROVE  /\ Minus(Added(shift, before)[y], before[y])
                   = IF before[y] = NaN THEN NaN ELSE shift[y]
             /\ Outlying(before, Added(shift, before), y) <=>
                   before[y] # NaN /\ Size(shift[y]) >= THRESHOLD
  <2>1. before \in Rows /\ y \in Points /\ ~Absorbs(before[y])
    BY <1>1
  <2> QED  BY <2>1, StepIsShift
<1>2. Outliers(last) = Outliers(old)
  <2>1. \A y \in fibre : Outlying(last, Added(shift, last), y)
                            <=> Outlying(old, Added(shift, old), y)
    BY <1>1, <1>s
  <2> QED  BY <2>1
<1>3. ASSUME NEW before \in {last, old}
      PROVE  Substituted(fibre, before, Added(shift, before))[x] =
               IF x \in Outliers(last) /\ ordinary # {}
               THEN Plus(before[x], Mean(before)) ELSE Added(shift, before)[x]
  <2>1. Outliers(before) = Outliers(last)
    BY <1>2
  <2> QED  BY <2>1 DEF Substituted
<1>4. CASE x \in Outliers(last) /\ ordinary # {}
  <2>1. near \in SUBSET ordinary /\ IsFiniteSet(near) /\ near # {}
    <3>1. IsFiniteSet(ordinary) /\ ordinary \subseteq Int /\ x \in Int
      BY FibresApart
    <3> HIDE DEF ordinary
    <3> QED  BY <1>4, <3>1, NearestIs
  <2>2. near \in SUBSET Points /\ near \in SUBSET fibre
        /\ \A y \in near : ~Outlying(last, Added(shift, last), y)
    BY <2>1
  <2>3. Added(shift, last) \in Rows
    <3>1. \A y \in Points : Added(shift, last)[y] \in Numbers
      <4> TAKE y \in Points
      <4>1. Added(shift, last)[y] = Plus(shift[y], last[y])
        BY DEF Added
      <4>2. shift[y] \in Numbers /\ last[y] \in Numbers
        BY ShiftsAreRows DEF Rows
      <4> QED  BY <4>1, <4>2, PlusType
    <3> QED  BY <3>1 DEF Added, Rows
  <2> HIDE DEF near
  <2>4. Mean(last) = Mean(old)
    <3>1. \A y \in near : Minus(Added(shift, last)[y], last[y])
                             = Minus(Added(shift, old)[y], old[y])
      BY <1>1, <1>s, <2>2
    <3>2. [y \in near |-> Minus(Added(shift, last)[y], last[y])]
            = [y \in near |-> Minus(Added(shift, old)[y], old[y])]
      BY <3>1
    <3> QED  BY <3>2 DEF MeanStep
  <2>5. Mean(last) = NaN \/ Mean(last) \in Small
    BY <2>1, <2>2, <2>3, MeanOrdinary
  <2>6. last[x] # NaN /\ old[x] # NaN
    BY <1>1, <1>4, <1>s
  <2>7. /\ last[x] \in Numbers /\ old[x] \in Numbers
        /\ ~Absorbs(last[x]) /\ ~Absorbs(old[x])
    <3>1. x \in Points
      OBVIOUS
    <3> QED  BY <1>1, <3>1 DEF Rows
  <2>8. ASSUME NEW a \in Numbers, ~Absorbs(a), a # NaN, NEW mean \in Small \cup {NaN}
        PROVE  Minus(Plus(a, mean), a) = mean
    <3>1. CASE mean = NaN
      BY <3>1 DEF Minus, Plus
    <3>2. CASE mean \in Small
      BY <2>8, <3>2, StepIsSmall
    <3> QED  BY <2>8, <3>1, <3>2
  <2>9. Minus(Plus(last[x], Mean(last)), last[x]) = Mean(last)
        /\ Minus(Plus(old[x], Mean(old)), old[x]) = Mean(last)
    <3>1. Mean(last) \in Small \cup {NaN}
      BY <2>5
    <3> HIDE DEF Mean
    <3> QED  BY <2>4, <2>6, <2>7, <2>8, <3>1
  <2> HIDE DEF Mean, ordinary, Outliers
  <2> QED  BY <1>3, <1>4, <2>9
<1>5. CASE ~(x \in Outliers(last) /\ ordinary # {})
  <2>1. Minus(Added(shift, last)[x], last[x]) = Minus(Added(shift, old)[x], old[x])
    BY <1>1, <1>s
  <2> HIDE DEF ordinary, Outliers, Mean
  <2> QED  BY <1>3, <1>5, <2>1
<1> QED  BY <1>4, <1>5

(* Two rows of which memory has spoilt nothing in a fibre, or the same.    *)
Alike(last, old, fibre) ==
    /\ Hidden(last, fibre) = Hidden(old, fibre)
    /\ Absorbing(last, fibre) = {} /\ Absorbing(old, fibre) = {}

(* From the second row on, a message repeats the steps of the message      *)
(* before (moving_cumulative_calculation computes every row again), unless *)
(* NaN hides a step, a number too large for a float32 to take up a shift   *)
(* absorbs it, or one of them changes which points of a fibre are ordinary.*)
THEOREM StepsAreRepeated == Spec => []StepsRepeated
<1>1. TypeOK /\ RowsInv => StepsRepeated
  <2> SUFFICES ASSUME TypeOK, RowsInv, NEW t \in 2..Len(rows), t <= Len(published),
                      NEW x \in Points,
                      ~Absorbs(rows[t - 1][x]), ~Absorbs(published[t - 1][x])
               PROVE  LET step == Minus(rows[t][x], rows[t - 1][x])
                          before == Minus(published[t][x], published[t - 1][x])
                      IN  \/ NaN \in {step, before}
                          \/ step = before
                          \/ \E fibre \in {TFibre, RHFibre} :
                                /\ x \in fibre /\ Size(shifts[t][x]) >= THRESHOLD
                                /\ ~Alike(rows[t - 1], published[t - 1], fibre)
    BY DEF StepsRepeated, Alike
  <2> DEFINE last == rows[t - 1]
             old == published[t - 1]
             shift == shifts[t]
  <2>0. ~Absorbs(last[x]) /\ ~Absorbs(old[x])
    OBVIOUS
  <2>1. /\ last \in Rows /\ shift \in PairShifts /\ Added(shift, last) \in Rows
        /\ rows[t] = Corrected(last, Added(shift, last))
    BY TypedRows
  <2>2. /\ old \in Rows /\ Added(shift, old) \in Rows
        /\ published[t] = Corrected(old, Added(shift, old))
    <3>1. t \in 1..Len(shifts) /\ t \in 2..Len(published) /\ t - 1 \in 1..Len(published)
      BY DEF TypeOK
    <3>2. old \in Rows
      BY <3>1 DEF TypeOK
    <3> QED  BY <3>1, <3>2, AddedType DEF RowsInv
  <2> HIDE DEF last, old, shift
  <2>3. CASE x \notin TFibre \cup RHFibre
    <3>1. rows[t][x] = Added(shift, last)[x] /\ published[t][x] = Added(shift, old)[x]
      BY <2>1, <2>2, <2>3, CorrectedPoint
    <3>2. /\ Minus(rows[t][x], last[x]) \in {NaN, shift[x]}
          /\ Minus(published[t][x], old[x]) \in {NaN, shift[x]}
      BY <2>1, <2>2, <3>1, <2>0, StepIsShift
    <3> QED  BY <3>2 DEF last, old
  <2>4. ASSUME NEW fibre \in {TFibre, RHFibre}, x \in fibre
        PROVE  \/ NaN \in {Minus(rows[t][x], last[x]), Minus(published[t][x], old[x])}
               \/ Minus(rows[t][x], last[x]) = Minus(published[t][x], old[x])
               \/ Size(shift[x]) >= THRESHOLD /\ ~Alike(last, old, fibre)
    <3>1. fibre \in SUBSET Points
      BY FibresApart
    <3>2. /\ rows[t][x] = Substituted(fibre, last, Added(shift, last))[x]
          /\ published[t][x] = Substituted(fibre, old, Added(shift, old))[x]
      BY <2>1, <2>2, <2>4, CorrectedPoint
    <3>3. CASE Alike(last, old, fibre)
      <4>1. Minus(Substituted(fibre, last, Added(shift, last))[x], last[x])
              = Minus(Substituted(fibre, old, Added(shift, old))[x], old[x])
        BY <2>1, <2>2, <2>4, <3>1, <3>3, SubstitutedRepeats DEF Alike
      <4> QED  BY <3>2, <4>1
    <3>4. CASE ~(Size(shift[x]) >= THRESHOLD)
      <4>1. /\ ~Outlying(last, Added(shift, last), x)
            /\ ~Outlying(old, Added(shift, old), x)
        BY <2>1, <2>2, <3>4, <2>0, StepIsShift
      <4>2. rows[t][x] = Added(shift, last)[x] /\ published[t][x] = Added(shift, old)[x]
        BY <3>2, <4>1 DEF Substituted
      <4>3. /\ Minus(rows[t][x], last[x]) \in {NaN, shift[x]}
            /\ Minus(published[t][x], old[x]) \in {NaN, shift[x]}
        BY <2>1, <2>2, <4>2, <2>0, StepIsShift
      <4> QED  BY <4>3
    <3> QED  BY <3>3, <3>4
  <2> QED  BY <2>3, <2>4 DEF last, old, shift
<1> QED  BY <1>1, CumulativeTypeCorrect, RowsCorrect, PTL

-----------------------------------------------------------------------------
(* The window of the peak search.                                          *)

LEMMA SliceSize ==
    ASSUME NEW a \in Int, NEW b \in Int
    PROVE  Cardinality(a..b) = (IF a > b THEN 0 ELSE b - a + 1) /\ IsFiniteSet(a..b)
BY FS_Interval

(* A window fits where it reaches over neither end; one place beyond the   *)
(* last entry does not show, since a slice stops there.                    *)
LEMMA FitsWhen ==
    ASSUME NEW n \in Nat \ {0, 1}, NEW peak \in 0..n - 1, NEW w \in 0..n - 1
    PROVE  Fits(peak, w, n) <=> w = 0 \/ (w <= peak /\ w <= n - peak)
<1>1. Right(peak, w, n) = IF peak + w + 1 < n THEN w + 1 ELSE n - peak
  <2>1. PySlice(peak, peak + w + 1, n)
          = peak..(IF peak + w + 1 < n THEN peak + w + 1 ELSE n) - 1
    BY DEF PySlice, Smaller
  <2>2. CASE peak + w + 1 < n
    <3>1. Right(peak, w, n) = Cardinality(peak..peak + w)
      BY <2>1, <2>2 DEF Right
    <3> QED  BY <2>2, <3>1, SliceSize
  <2>3. CASE ~(peak + w + 1 < n)
    <3>1. Right(peak, w, n) = Cardinality(peak..n - 1)
      BY <2>1, <2>3 DEF Right
    <3> QED  BY <2>3, <3>1, SliceSize
  <2> QED  BY <2>2, <2>3
<1>2. Left(peak, w, n) = IF w <= peak THEN w + 1 ELSE 0
  <2>1. CASE w <= peak
    <3>1. PySlice(peak - w, peak + 1, n) = peak - w..peak
      BY <2>1 DEF PySlice, Smaller
    <3>2. Cardinality(peak - w..peak) = w + 1
      BY <2>1, SliceSize
    <3> QED  BY <2>1, <3>1, <3>2 DEF Left
  <2>2. CASE w > peak
    <3>1. PySlice(peak - w, peak + 1, n) = n + (peak - w)..peak
      BY <2>2 DEF PySlice, Smaller, Larger
    <3>2. Cardinality(n + (peak - w)..peak) = 0
      BY <2>2, SliceSize
    <3> QED  BY <2>2, <3>1, <3>2 DEF Left
  <2> QED  BY <2>1, <2>2
<1> QED  BY <1>1, <1>2 DEF Fits

LEMMA WindowIsLargest ==
    ASSUME NEW n \in Nat \ {0, 1}, NEW peak \in 0..n - 1, NEW sw \in 1..n - 1
    PROVE  /\ Window(peak, sw, n) \in 0..sw
           /\ Fits(peak, Window(peak, sw, n), n)
           /\ \A v \in 1..sw : v > Window(peak, sw, n) => ~Fits(peak, v, n)
<1>1. CASE Fits(peak, sw, n)
  BY <1>1 DEF Window
<1>2. CASE ~Fits(peak, sw, n)
  <2> DEFINE Good(w) == /\ Fits(peak, w, n)
                        /\ \A v \in w + 1..sw - 1 : ~Fits(peak, v, n)
             D == {d \in 0..sw - 1 : Fits(peak, sw - 1 - d, n)}
  <2>1. sw - 1 \in D
    <3>1. Fits(peak, 0, n)
      BY FitsWhen
    <3>2. sw - 1 \in 0..sw - 1 /\ sw - 1 - (sw - 1) = 0
      OBVIOUS
    <3> QED  BY <3>1, <3>2
  <2>2. PICK d \in D : \A e \in D : d <= e
    <3>1. D \subseteq Nat /\ D # {}
      BY <2>1
    <3> HIDE DEF D
    <3> QED  BY <3>1, LeastOf
  <2>3. sw - 1 - d \in 0..sw - 1 /\ Good(sw - 1 - d)
    <3>1. ASSUME NEW v \in (sw - 1 - d) + 1..sw - 1, Fits(peak, v, n) PROVE FALSE
      <4>1. sw - 1 - v \in 0..sw - 1 /\ sw - 1 - (sw - 1 - v) = v /\ sw - 1 - v < d
        BY <3>1
      <4>2. sw - 1 - v \in D
        BY <3>1, <4>1
      <4>3. d \in Nat
        OBVIOUS
      <4>4. d <= sw - 1 - v
        <5> HIDE DEF D
        <5> QED  BY <2>2, <4>2
      <4> QED  BY <4>1, <4>3, <4>4
    <3> QED  BY <3>1
  <2>4. Window(peak, sw, n) = CHOOSE w \in 0..sw - 1 : Good(w)
    BY <1>2 DEF Window
  <2> DEFINE w == Window(peak, sw, n)
  <2>5. w \in 0..sw - 1 /\ Good(w)
    <3> HIDE DEF Good
    <3> QED  BY <2>3, <2>4
  <2> HIDE DEF w
  <2>6. \A v \in 1..sw : v > w => ~Fits(peak, v, n)
    <3> TAKE v \in 1..sw
    <3>1. CASE v = sw
      BY <1>2, <3>1
    <3>2. CASE v # sw
      BY <2>5, <3>2
    <3> QED  BY <3>1, <3>2
  <2> QED  BY <2>5, <2>6 DEF w
<1> QED  BY <1>1, <1>2

(* For every axis, place of the peak and size of the window: the parabola  *)
(* goes through points around the peak, the whole window of them away from *)
(* the ends, and three at least but at the two last places                 *)
(* (smooth_polynomial_peak_finding).                                       *)
THEOREM PeakIsSurrounded ==
    ASSUME NEW n \in Nat \ {0, 1}, NEW peak \in 0..n - 1, NEW sw \in 1..n - 1
    PROVE  /\ WindowAround(peak, sw, n)
           /\ WindowWhole(peak, sw, n)
           /\ EnoughPoints(peak, sw, n)
<1> DEFINE w == Window(peak, sw, n)
           points == Fitted(peak, sw, n)
<1>1. w \in 0..sw /\ Fits(peak, w, n) /\ \A v \in 1..sw : v > w => ~Fits(peak, v, n)
  BY WindowIsLargest
<1>2. points = IF w = 0 THEN {} ELSE PySlice(peak - w, peak + w + 1, n)
  BY DEF Fitted
<1> HIDE DEF w, points
<1>3. w <= n - 1
  BY <1>1
<1>4. CASE w > 0
  <2>1. w <= peak /\ w <= n - peak
    BY <1>1, <1>3, <1>4, FitsWhen
  <2>2. \/ peak + w < n /\ points = peak - w..peak + w
        \/ peak + w = n /\ points = peak - w..n - 1
    <3>1. points = peak - w..Smaller(peak + w + 1, n) - 1
      BY <1>1, <1>2, <1>4, <2>1 DEF PySlice
    <3> QED  BY <1>1, <2>1, <3>1 DEF Smaller
  <2>3. Cardinality(points) < 3 => peak = n - 1 /\ points = {n - 2, n - 1}
    <3>1. CASE peak + w < n /\ points = peak - w..peak + w
      <4>1. Cardinality(peak - w..peak + w) = 2 * w + 1
        BY <1>1, <1>4, SliceSize
      <4> QED  BY <1>1, <1>4, <3>1, <4>1
    <3>2. CASE peak + w = n /\ points = peak - w..n - 1
      <4>1. Cardinality(peak - w..n - 1) = 2 * w
        BY <1>1, <1>4, <3>2, SliceSize
      <4>2. ASSUME 2 * w < 3 PROVE peak = n - 1 /\ points = {n - 2, n - 1}
        BY <1>1, <1>4, <3>2, <4>2
      <4> QED  BY <3>2, <4>1, <4>2
    <3> QED  BY <2>2, <3>1, <3>2
  <2>4. peak \in sw..n - 1 - sw => w = sw
    <3> SUFFICES ASSUME peak \in sw..n - 1 - sw, w < sw PROVE FALSE
      BY <1>1
    <3>1. ~Fits(peak, sw, n)
      BY <1>1
    <3> QED  BY <3>1, FitsWhen
  <2> QED  BY <1>4, <2>2, <2>3, <2>4 DEF WindowAround, WindowWhole, EnoughPoints, w, points
<1>5. CASE w = 0
  <2>1. peak = 0
    <3>1. ~Fits(peak, 1, n)
      BY <1>1, <1>5
    <3> QED  BY <3>1, FitsWhen
  <2>2. points = {}
    BY <1>2, <1>5
  <2> QED  BY <1>5, <2>1, <2>2 DEF WindowAround, WindowWhole, EnoughPoints, w, points
<1> QED  BY <1>1, <1>4, <1>5

-----------------------------------------------------------------------------
(* The points of the two fibres.                                           *)

(* The quotient of natural numbers.                                        *)
LEMMA Quotient ==
    ASSUME NEW a \in Nat, NEW s \in Nat \ {0}
    PROVE  a \div s \in Nat /\ (a \div s) * s <= a /\ a < (a \div s) * s + s
<1>1. a = s * (a \div s) + (a % s) /\ a % s \in 0..s - 1 /\ a \div s \in Int
  OBVIOUS
<1> DEFINE q == a \div s
           r == a % s
<1> HIDE DEF q, r
<1>2. a = s * q + r /\ r \in 0..s - 1 /\ q \in Int
  BY <1>1 DEF q, r
<1>3. q >= 0
  <2> SUFFICES ASSUME q <= -1 PROVE FALSE
    BY <1>2
  <2>1. s * q <= -s
    BY <1>2
  <2> QED  BY <1>2, <2>1
<1>4. q * s = s * q
  BY <1>2
<1> QED  BY <1>2, <1>3, <1>4 DEF q

(* There is one multiple of s from a up to, not including, a + s.          *)
LEMMA Between ==
    ASSUME NEW a \in Int, NEW s \in Nat \ {0}, NEW n \in Int, NEW m \in Int,
           (n - 1) * s < a, a <= n * s, (m - 1) * s < a, a <= m * s
    PROVE  n = m
<1>1. ASSUME NEW i \in Int, NEW j \in Int, (i - 1) * s < a, a <= j * s PROVE i <= j
  <2> SUFFICES ASSUME j <= i - 1 PROVE FALSE
    OBVIOUS
  <2>1. (i - 1 - j) * s >= 0
    OBVIOUS
  <2>2. (i - 1 - j) * s = (i - 1) * s - j * s
    OBVIOUS
  <2> QED  BY <1>1, <2>1, <2>2
<1>2. n <= m
  BY <1>1
<1>3. m <= n
  BY <1>1
<1> QED  BY <1>2, <1>3

(* range(first, stop, step).                                              *)
LEMMA RangeOf ==
    ASSUME NEW first \in Int, NEW stop \in Int, NEW step \in Nat \ {0}, NEW r,
           r = PyRange(first, stop, step)
    PROVE  /\ r \in Seq(Int) /\ Len(r) \in Nat
           /\ \A i \in 1..Len(r) : /\ r[i] = first + (i - 1) * step
                                   /\ first <= r[i] /\ r[i] < stop
           /\ first < stop => /\ Len(r) >= 1
                              /\ (Len(r) - 1) * step < stop - first
                              /\ stop - first <= Len(r) * step
<1> DEFINE n == IF stop <= first THEN 0 ELSE (stop - first + step - 1) \div step
<1>1. r = [i \in 1..n |-> first + (i - 1) * step]
  BY DEF PyRange
<1>2. /\ n \in Nat
      /\ first < stop => n >= 1 /\ (n - 1) * step < stop - first /\ stop - first <= n * step
      /\ ~(first < stop) => n = 0
  <2>1. CASE stop <= first
    BY <2>1
  <2>2. CASE first < stop
    <3>1. stop - first + step - 1 \in Nat /\ n = (stop - first + step - 1) \div step
      BY <2>2
    <3> HIDE DEF n
    <3>2. n \in Nat /\ n * step <= stop - first + step - 1
            /\ stop - first + step - 1 < n * step + step
      BY <3>1, Quotient
    <3>3. n # 0
      BY <2>2, <3>2
    <3>4. (n - 1) * step = n * step - step
      BY <3>2
    <3> QED  BY <2>2, <3>2, <3>3, <3>4
  <2> QED  BY <2>1, <2>2
<1> HIDE DEF n
<1>3. \A i \in 1..n : first + (i - 1) * step \in Int
  BY <1>2
<1>4. r \in Seq(Int) /\ Len(r) = n
  BY <1>1, <1>2, <1>3
<1>5. \A i \in 1..n : /\ r[i] = first + (i - 1) * step
                      /\ first <= r[i] /\ r[i] < stop
  <2> TAKE i \in 1..n
  <2>1. r[i] = first + (i - 1) * step
    BY <1>1
  <2>2. (i - 1) * step >= 0
    BY <1>2
  <2>3. (n - i) * step >= 0 /\ (n - i) * step = (n - 1) * step - (i - 1) * step
    BY <1>2
  <2>4. first < stop
    BY <1>2
  <2>5. (i - 1) * step <= (n - 1) * step /\ (i - 1) * step \in Int /\ (n - 1) * step \in Int
    BY <1>2, <2>3
  <2>6. (i - 1) * step < stop - first
    BY <1>2, <2>4, <2>5
  <2> QED  BY <2>1, <2>2, <2>5, <2>6
<1> QED  BY <1>2, <1>4, <1>5

(* The points of one fibre from a to b and of another from c to d lie      *)
(* inside with their windows, and side by side.                            *)
SideBySide(a, b, c, d, x, leading, following) ==
    /\ leading \in Seq(Int) /\ following \in Seq(Int)
    /\ \A i \in 1..Len(leading) : a <= leading[i] - x /\ leading[i] + x <= b
    /\ \A i \in 1..Len(following) : c <= following[i] - x /\ following[i] + x <= d
    /\ \A i \in 1..Len(leading) : i \in 1..Len(following) =>
          leading[i] - leading[1] = following[i] - following[1]
    /\ b - a = d - c =>
          /\ Len(leading) = Len(following)
          /\ \A i \in 1..Len(leading) :
                following[Len(leading) + 1 - i] - c = b - leading[i]

(* So they do when the second begins as far from c as the first ends       *)
(* before b.                                                               *)
LEMMA RangesLie ==
    ASSUME NEW a \in Int, NEW b \in Int, NEW c \in Int, NEW d \in Int,
           NEW x \in Nat, NEW s \in Nat \ {0}, b - a >= 2 * x,
           NEW leading, leading = PyRange(a + x, b - x + 1, s),
           NEW following, following = PyRange(c + (b - Last(leading)), d - x + 1, s)
    PROVE  SideBySide(a, b, c, d, x, leading, following)
<1> DEFINE n == Len(leading)
           m == Len(following)
           rest == b - Last(leading)
<1>4. /\ leading \in Seq(Int) /\ n \in Nat /\ n >= 1
      /\ \A i \in 1..n : /\ leading[i] = a + x + (i - 1) * s
                         /\ a + x <= leading[i]
                         /\ leading[i] < b - x + 1
      /\ (n - 1) * s < b - a - 2 * x + 1
      /\ b - a - 2 * x + 1 <= n * s
  <2>1. /\ a + x \in Int /\ b - x + 1 \in Int
        /\ a + x < b - x + 1
        /\ (b - x + 1) - (a + x) = b - a - 2 * x + 1
    OBVIOUS
  <2> HIDE DEF n
  <2> DEFINE lo == a + x
             hi == b - x + 1
  <2> HIDE DEF lo, hi
  <2>0. lo \in Int /\ hi \in Int /\ leading = PyRange(lo, hi, s)
    BY <2>1 DEF lo, hi
  <2>3. /\ leading \in Seq(Int) /\ Len(leading) \in Nat
        /\ \A i \in 1..Len(leading) : /\ leading[i] = lo + (i - 1) * s
                                      /\ lo <= leading[i] /\ leading[i] < hi
        /\ lo < hi => /\ Len(leading) >= 1
                      /\ (Len(leading) - 1) * s < hi - lo
                      /\ hi - lo <= Len(leading) * s
    BY <2>0, RangeOf
  <2>2. /\ leading \in Seq(Int) /\ Len(leading) \in Nat
        /\ \A i \in 1..Len(leading) : /\ leading[i] = a + x + (i - 1) * s
                                      /\ a + x <= leading[i] /\ leading[i] < b - x + 1
        /\ Len(leading) >= 1
        /\ (Len(leading) - 1) * s < (b - x + 1) - (a + x)
        /\ (b - x + 1) - (a + x) <= Len(leading) * s
    BY <2>1, <2>3 DEF lo, hi
  <2> QED  BY <2>1, <2>2 DEF n
<1>5. rest \in Int /\ rest >= x /\ rest = b - a - x - (n - 1) * s
  <2>1. Last(leading) = leading[n] /\ n \in 1..n
    BY <1>4 DEF Last
  <2> HIDE DEF n
  <2>2. leading[n] = a + x + (n - 1) * s /\ leading[n] < b - x + 1
    BY <1>4, <2>1
  <2>3. (n - 1) * s \in Int
    BY <1>4
  <2>4. leading[n] \in Int
    BY <2>2, <2>3
  <2> QED  BY <2>1, <2>2, <2>3, <2>4
<1> HIDE DEF rest, n, m
<1>6. /\ following \in Seq(Int) /\ m \in Nat
      /\ \A i \in 1..m : /\ following[i] = c + rest + (i - 1) * s
                         /\ c + rest <= following[i]
                         /\ following[i] < d - x + 1
      /\ c + rest < d - x + 1 =>
            /\ (m - 1) * s < d - c - x + 1 - rest
            /\ d - c - x + 1 - rest <= m * s
  <2>1. /\ c + rest \in Int /\ d - x + 1 \in Int
        /\ (d - x + 1) - (c + rest) = d - c - x + 1 - rest
    BY <1>5
  <2>2. following = PyRange(c + rest, d - x + 1, s)
    BY DEF rest
  <2>3. /\ following \in Seq(Int) /\ Len(following) \in Nat
        /\ \A i \in 1..Len(following) : /\ following[i] = c + rest + (i - 1) * s
                                        /\ c + rest <= following[i] /\ following[i] < d - x + 1
        /\ c + rest < d - x + 1 =>
              /\ (Len(following) - 1) * s < (d - x + 1) - (c + rest)
              /\ (d - x + 1) - (c + rest) <= Len(following) * s
    BY <2>1, <2>2, RangeOf
  <2> QED  BY <2>1, <2>3 DEF m
<1>7. \A i \in 1..n : a <= leading[i] - x /\ leading[i] + x <= b
  <2> TAKE i \in 1..n
  <2>1. leading[i] \in Int
    BY <1>4 DEF n
  <2> QED  BY <1>4, <2>1
<1>8. \A i \in 1..m : c <= following[i] - x /\ following[i] + x <= d
  <2> TAKE i \in 1..m
  <2>1. following[i] \in Int
    BY <1>6 DEF m
  <2>2. c + rest <= following[i] /\ following[i] < d - x + 1
    BY <1>6
  <2> QED  BY <1>5, <2>1, <2>2
<1>9. ASSUME NEW i \in 1..n, i \in 1..m
      PROVE  leading[i] - leading[1] = following[i] - following[1]
  <2>1. (i - 1) * s \in Int /\ (1 - 1) * s = 0 /\ 1 \in 1..n /\ 1 \in 1..m
    BY <1>4, <1>6, <1>9
  <2>2. leading[i] = a + x + (i - 1) * s /\ leading[1] = a + x + (1 - 1) * s
    BY <1>4, <2>1
  <2>3. following[i] = c + rest + (i - 1) * s /\ following[1] = c + rest + (1 - 1) * s
    BY <1>6, <1>9, <2>1
  <2> QED  BY <1>5, <2>1, <2>2, <2>3
<1>10. ASSUME b - a = d - c
       PROVE  /\ n = m
              /\ \A i \in 1..n : following[n + 1 - i] - c = b - leading[i]
  <2> DEFINE k == (n - 1) * s
  <2>0. k \in Int /\ n * s = k + s
    BY <1>4
  <2>1. k >= 0
    BY <1>4
  <2>2. d - c - x + 1 - rest = k + 1
    <3>1. rest = b - a - x - k
      BY <1>5
    <3> HIDE DEF k
    <3> QED  BY <1>10, <2>0, <3>1
  <2>3. (n - 1) * s = k
    OBVIOUS
  <2> HIDE DEF k
  <2>4. c + rest < d - x + 1
    BY <1>5, <2>0, <2>1, <2>2
  <2>5. (m - 1) * s < k + 1 /\ k + 1 <= m * s
    BY <1>6, <2>2, <2>4
  <2>6. (n - 1) * s < k + 1 /\ k + 1 <= n * s
    BY <2>0, <2>3
  <2>7. n = m
    <3>1. n \in Int /\ m \in Int /\ k + 1 \in Int
      BY <1>4, <1>6, <2>0
    <3> QED  BY <2>5, <2>6, <3>1, Between
  <2>8. ASSUME NEW i \in 1..n
        PROVE  following[n + 1 - i] - c = b - leading[i]
    <3>1. n + 1 - i \in 1..m /\ (n + 1 - i) - 1 = n - i
      BY <1>4, <2>7
    <3>2. following[n + 1 - i] = c + rest + (n - i) * s
      <4>1. following[n + 1 - i] = c + rest + ((n + 1 - i) - 1) * s
        BY <1>6, <3>1
      <4> QED  BY <3>1, <4>1
    <3>3. leading[i] = a + x + (i - 1) * s
      BY <1>4
    <3>4. (n - i) * s = (n - 1) * s - (i - 1) * s /\ (n - 1) * s \in Int /\ (i - 1) * s \in Int
            /\ (n - i) * s \in Int
      BY <1>4
    <3>5. following[n + 1 - i] \in Int /\ leading[i] \in Int
      BY <1>5, <3>2, <3>3, <3>4
    <3> QED  BY <1>5, <3>2, <3>3, <3>4, <3>5
  <2> QED  BY <2>7, <2>8
<1> QED  BY <1>4, <1>6, <1>7, <1>8, <1>9, <1>10 DEF n, m, SideBySide

(* The fibres of the configuration.                                        *)
Fibres == [min : Int, max : Int]

(* The leading fibre and the other one.                                    *)
LEMMA PointsLie ==
    ASSUME NEW leader \in Fibres, NEW other \in Fibres, NEW x \in Nat,
           leader.max - leader.min >= 2 * x,
           NEW leading, leading = Leading(leader, x),
           NEW following, following = Following(other, leader, leading, x)
    PROVE  /\ leading \in Seq(Int) /\ following \in Seq(Int)
           /\ \A i \in 1..Len(leading) :
                 leader.min <= leading[i] - x /\ leading[i] + x <= leader.max
           /\ \A i \in 1..Len(following) :
                 other.min <= following[i] - x /\ following[i] + x <= other.max
           /\ \A i \in 1..Len(leading) : i \in 1..Len(following) =>
                 leading[i] - leading[1] = following[i] - following[1]
           /\ leader.max - leader.min = other.max - other.min =>
                 /\ Len(leading) = Len(following)
                 /\ \A i \in 1..Len(leading) :
                       following[Len(leading) + 1 - i] - other.min = leader.max - leading[i]
<1>1. leader.min \in Int /\ leader.max \in Int /\ other.min \in Int /\ other.max \in Int
  BY DEF Fibres
<1>2. Step(x) \in Nat \ {0}
  BY DEF Step
<1>3. leading = PyRange(leader.min + x, leader.max - x + 1, Step(x))
  BY DEF Leading
<1>4. following = PyRange(other.min + (leader.max - Last(leading)), other.max - x + 1, Step(x))
  BY DEF Following
<1> DEFINE a == leader.min
           b == leader.max
           c == other.min
           d == other.max
           s == Step(x)
<1>5. b - a >= 2 * x
  OBVIOUS
<1> HIDE DEF a, b, c, d, s
<1>6. a \in Int /\ b \in Int /\ c \in Int /\ d \in Int /\ s \in Nat \ {0}
  BY <1>1, <1>2 DEF a, b, c, d, s
<1>7. /\ leading = PyRange(a + x, b - x + 1, s)
      /\ following = PyRange(c + (b - Last(leading)), d - x + 1, s)
  BY <1>3, <1>4 DEF a, b, c, d, s
<1>8. SideBySide(a, b, c, d, x, leading, following)
  BY <1>5, <1>6, <1>7, RangesLie
<1> QED  BY <1>8 DEF SideBySide, a, b, c, d

(* For fibres of the same length with room for a window: the points of a   *)
(* pair match (points_fibers).                                             *)
THEOREM PointsMatch ==
    ASSUME NEW temperature \in Fibres, NEW humidity \in Fibres, NEW x_average \in Nat,
           NEW check_reversed \in BOOLEAN, NEW sensors,
           temperature.max - temperature.min = humidity.max - humidity.min,
           temperature.max - temperature.min >= 2 * x_average
    PROVE  PairsMatch(temperature, humidity, x_average, check_reversed, sensors)
<1> DEFINE p == PointsFibers(temperature, humidity, x_average, check_reversed, sensors)
           first == HumidityLeads(temperature, humidity, check_reversed)
           folded == Folded(temperature, humidity, check_reversed)
           leader == IF first THEN humidity ELSE temperature
           other == IF first THEN temperature ELSE humidity
           leading == Leading(leader, x_average)
           following == Following(other, leader, leading, x_average)
           others == IF folded THEN Reverse(following) ELSE following
           n == Len(leading)
<1>1. /\ p.temperature = IF first THEN others ELSE leading
      /\ p.humidity = IF first THEN leading ELSE others
  BY DEF PointsFibers
<1>2. leader \in Fibres /\ other \in Fibres /\ leader.max - leader.min >= 2 * x_average
        /\ leader.max - leader.min = other.max - other.min
  OBVIOUS
<1>3. first => folded
  BY DEF HumidityLeads, Folded, Fibres
<1> HIDE DEF p, leading, following
<1>4. /\ leading \in Seq(Int) /\ following \in Seq(Int) /\ n = Len(following)
      /\ \A i \in 1..n : leading[i] - leading[1] = following[i] - following[1]
      /\ \A i \in 1..n : following[n + 1 - i] - other.min = leader.max - leading[i]
  <2> HIDE DEF leader, other
  <2> QED  BY <1>2, PointsLie DEF leading, following
<1> HIDE DEF first, folded
<1>5. folded => /\ Len(others) = n /\ DOMAIN others = 1..n
                /\ \A i \in 1..n : others[i] - other.min = leader.max - leading[i]
  <2> SUFFICES ASSUME folded
               PROVE  /\ Len(others) = n /\ DOMAIN others = 1..n
                      /\ \A i \in 1..n : others[i] - other.min = leader.max - leading[i]
    OBVIOUS
  <2>1. others = [i \in 1..n |-> following[(n - i) + 1]]
    BY <1>4 DEF Reverse
  <2>2. n \in Nat
    BY <1>4
  <2> HIDE DEF n, others
  <2>3. \A i \in 1..n : (n - i) + 1 = n + 1 - i
    BY <2>2
  <2> QED  BY <1>4, <2>1, <2>2, <2>3
<1>6. CASE ~folded
  <2>1. p.temperature = leading /\ p.humidity = following
    BY <1>1, <1>3, <1>6
  <2>2. DOMAIN leading = 1..n
    BY <1>4
  <2> QED  BY <1>4, <1>6, <2>1, <2>2 DEF PairsMatch, p, folded
<1>7. CASE folded /\ first
  <2>1. p.temperature = others /\ p.humidity = leading
    BY <1>1, <1>7
  <2> QED  BY <1>4, <1>5, <1>7, <2>1 DEF PairsMatch, p, folded, first
<1>8. CASE folded /\ ~first
  <2>1. p.temperature = leading /\ p.humidity = others
    BY <1>1, <1>8
  <2>2. DOMAIN leading = 1..n
    BY <1>4
  <2> QED  BY <1>4, <1>5, <1>8, <2>1, <2>2 DEF PairsMatch, p, folded, first
<1> QED  BY <1>6, <1>7, <1>8

(* For any two fibres with room for a window, no averaging window leaves   *)
(* its fibre (points_fibers, temperature_humidity_calculation).            *)
THEOREM WindowsStayInside ==
    ASSUME NEW temperature \in Fibres, NEW humidity \in Fibres, NEW x_average \in Nat,
           NEW check_reversed \in BOOLEAN, NEW sensors,
           temperature.max - temperature.min >= 2 * x_average,
           humidity.max - humidity.min >= 2 * x_average
    PROVE  WindowsInside(temperature, humidity, x_average, check_reversed, sensors)
<1> DEFINE p == PointsFibers(temperature, humidity, x_average, check_reversed, sensors)
           first == HumidityLeads(temperature, humidity, check_reversed)
           folded == Folded(temperature, humidity, check_reversed)
           leader == IF first THEN humidity ELSE temperature
           other == IF first THEN temperature ELSE humidity
           leading == Leading(leader, x_average)
           following == Following(other, leader, leading, x_average)
           others == IF folded THEN Reverse(following) ELSE following
<1>1. /\ p.temperature = IF first THEN others ELSE leading
      /\ p.humidity = IF first THEN leading ELSE others
  BY DEF PointsFibers
<1>2. leader \in Fibres /\ other \in Fibres /\ leader.max - leader.min >= 2 * x_average
  OBVIOUS
<1> HIDE DEF p, leading, following, first, folded
<1>3. /\ leading \in Seq(Int) /\ following \in Seq(Int)
      /\ \A i \in 1..Len(leading) : /\ leader.min <= leading[i] - x_average
                                    /\ leading[i] + x_average <= leader.max
      /\ \A i \in 1..Len(following) : /\ other.min <= following[i] - x_average
                                      /\ following[i] + x_average <= other.max
  <2> HIDE DEF leader, other
  <2> QED  BY <1>2, PointsLie DEF leading, following
<1>4. \A i \in DOMAIN leading : /\ leader.min <= leading[i] - x_average
                                /\ leading[i] + x_average <= leader.max
  <2>1. DOMAIN leading = 1..Len(leading)
    BY <1>3
  <2> HIDE DEF leader
  <2> QED  BY <1>3, <2>1
<1>5. \A i \in DOMAIN others : /\ other.min <= others[i] - x_average
                               /\ others[i] + x_average <= other.max
  <2>1. CASE folded
    <3>1. others = [i \in 1..Len(following) |-> following[(Len(following) - i) + 1]]
      BY <2>1 DEF Reverse
    <3>2. Len(following) \in Nat
      BY <1>3
    <3>3. \A i \in 1..Len(following) : (Len(following) - i) + 1 \in 1..Len(following)
      BY <3>2
    <3> HIDE DEF other, others
    <3> QED  BY <1>3, <3>1, <3>3
  <2>2. CASE ~folded
    <3>1. others = following /\ DOMAIN following = 1..Len(following)
      BY <1>3, <2>2
    <3> HIDE DEF other, others
    <3> QED  BY <1>3, <3>1
  <2> QED  BY <2>1, <2>2
<1> HIDE DEF others
<1>6. CASE first
  BY <1>1, <1>4, <1>5, <1>6 DEF WindowsInside, p
<1>7. CASE ~first
  BY <1>1, <1>4, <1>5, <1>7 DEF WindowsInside, p
<1> QED  BY <1>6, <1>7
=============================================================================
