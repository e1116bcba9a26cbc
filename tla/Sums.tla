-------------------------------- MODULE Sums --------------------------------
(***************************************************************************)
(* What the sums of the models compute: FoldFunctionOnSet of Functions is  *)
(* a recursive function that takes the elements of a set in an order that  *)
(* CHOOSE fixes.  For a finite set it is defined, it is an integer, and    *)
(* the order does not matter.  Induction is taken from the well-founded    *)
(* order of the natural numbers, with a set where a predicate would stand. *)
(***************************************************************************)
EXTENDS Integers, Functions, FiniteSetsExt, FiniteSetTheorems, WellFoundedInduction, TLAPS

Total(f, S) == FoldFunctionOnSet(+, 0, f, S)

\* The element a fold takes first.
Pick(s) == CHOOSE x \in s : TRUE

\* g computes the sum of f over every subset of S.
Computes(g, f, S) ==
  g = [s \in SUBSET S |-> IF s = {} THEN 0 ELSE f[Pick(s)] + g[s \ {Pick(s)}]]

(***************************************************************************)
(* Induction.                                                              *)
(***************************************************************************)
LEMMA SetOfNat ==
  ASSUME NEW F, 0 \in F, \A n \in Nat : n \in F => n + 1 \in F
  PROVE  Nat \subseteq F
  <1> SUFFICES ASSUME Nat \ F # {} PROVE FALSE
    OBVIOUS
  <1>1. PICK n \in Nat \ F : \A m \in Nat \ F : ~(<<m, n>> \in OpToRel(<, Nat))
    BY NatLessThanWellFounded, WFMin
  <1>2. n # 0 /\ n \in Nat
    OBVIOUS
  <1>3. n - 1 \in Nat /\ n - 1 < n
    BY <1>2
  <1>4. n - 1 \in F
    <2>1. <<n - 1, n>> \in OpToRel(<, Nat)
      BY <1>3, <1>2 DEF OpToRel
    <2> QED
      BY <1>1, <1>3, <2>1
  <1>5. (n - 1) + 1 \in F
    BY <1>3, <1>4
  <1> QED
    BY <1>2, <1>5

LEMMA SubsetInduction ==
  ASSUME NEW S, IsFiniteSet(S), NEW F, {} \in F,
         \A T \in SUBSET S : \A x \in S \ T : T \in F => T \cup {x} \in F
  PROVE  S \in F
  <1> DEFINE N == {n \in Nat : \A T \in SUBSET S : Cardinality(T) = n => T \in F}
  <1>1. \A T \in SUBSET S : IsFiniteSet(T) /\ Cardinality(T) \in Nat
    BY FS_Subset, FS_CardinalityType
  <1>2. 0 \in N
    BY <1>1, FS_EmptySet
  <1>3. ASSUME NEW n \in Nat, n \in N PROVE n + 1 \in N
    <2> SUFFICES ASSUME NEW T \in SUBSET S, Cardinality(T) = n + 1 PROVE T \in F
      OBVIOUS
    <2>1. IsFiniteSet(T) /\ T # {}
      <3>1. Cardinality({}) # n + 1
        BY FS_EmptySet
      <3>2. T # {}
        BY <3>1
      <3> QED
        BY <1>1, <3>2
    <2>2. PICK x \in T : TRUE
      BY <2>1
    <2>3. Cardinality(T \ {x}) = n
      <3>1. Cardinality(T \ {x}) = Cardinality(T) - 1
        BY <2>1, FS_RemoveElement
      <3> QED
        BY <3>1
    <2>4. T \ {x} \in F
      BY <1>3, <2>3
    <2>5. (T \ {x}) \cup {x} = T /\ x \in S \ (T \ {x}) /\ T \ {x} \in SUBSET S
      OBVIOUS
    <2> QED
      BY <2>4, <2>5
  <1>4. Nat \subseteq N
    <2> HIDE DEF N
    <2> QED
      BY <1>2, <1>3, SetOfNat
  <1> QED
    BY <1>1, <1>4

\* The size of the subsets a fold visits.
LEMMA Visits ==
  ASSUME NEW S, IsFiniteSet(S)
  PROVE  \A s \in SUBSET S :
           /\ IsFiniteSet(s) /\ Cardinality(s) \in Nat
           /\ Cardinality(s) = 0 <=> s = {}
           /\ s # {} => /\ Pick(s) \in s /\ s \ {Pick(s)} \in SUBSET S
                        /\ Cardinality(s \ {Pick(s)}) = Cardinality(s) - 1
  <1> SUFFICES ASSUME NEW s \in SUBSET S
               PROVE  /\ IsFiniteSet(s) /\ Cardinality(s) \in Nat
                      /\ Cardinality(s) = 0 <=> s = {}
                      /\ s # {} => /\ Pick(s) \in s /\ s \ {Pick(s)} \in SUBSET S
                                   /\ Cardinality(s \ {Pick(s)}) = Cardinality(s) - 1
    OBVIOUS
  <1>1. IsFiniteSet(s) /\ Cardinality(s) \in Nat
    BY FS_Subset, FS_CardinalityType
  <1>2. Cardinality(s) = 0 <=> s = {}
    BY <1>1, FS_EmptySet
  <1>3. ASSUME s # {} PROVE Pick(s) \in s
    BY <1>3 DEF Pick
  <1>4. ASSUME s # {} PROVE Cardinality(s \ {Pick(s)}) = Cardinality(s) - 1
    BY <1>1, <1>3, <1>4, FS_RemoveElement
  <1> QED
    BY <1>1, <1>2, <1>3, <1>4

(***************************************************************************)
(* The recursion has a solution, and one only.                             *)
(***************************************************************************)
LEMMA SumExists ==
  ASSUME NEW S, IsFiniteSet(S), NEW f, \A x \in S : f[x] \in Int
  PROVE  \E g \in [SUBSET S -> Int] : Computes(g, f, S)
  <1> DEFINE D(n) == {s \in SUBSET S : Cardinality(s) <= n}
             Next(g, n) == [s \in D(n) |-> IF s = {} THEN 0 ELSE f[Pick(s)] + g[s \ {Pick(s)}]]
             N == {n \in Nat : \E g \in [D(n) -> Int] : g = Next(g, n)}
  <1>1. 0 \in N
    <2> DEFINE g == [s \in D(0) |-> 0]
    <2>1. ASSUME NEW s \in D(0) PROVE s = {}
      <3>1. s \in SUBSET S /\ Cardinality(s) <= 0
        OBVIOUS
      <3>2. Cardinality(s) \in Nat /\ (Cardinality(s) = 0 <=> s = {})
        BY <3>1, Visits
      <3> QED
        BY <3>1, <3>2
    <2>2. g = Next(g, 0)
      BY <2>1
    <2>3. g \in [D(0) -> Int]
      OBVIOUS
    <2> QED
      BY <2>2, <2>3
  <1>2. ASSUME NEW n \in Nat, n \in N PROVE n + 1 \in N
    <2>1. PICK g \in [D(n) -> Int] : g = Next(g, n)
      BY <1>2
    <2> DEFINE h == Next(g, n + 1)
    <2>2. \A s \in D(n + 1) : s # {} => Pick(s) \in S /\ s \ {Pick(s)} \in D(n)
      BY Visits
    <2>3. h \in [D(n + 1) -> Int]
      <3>1. ASSUME NEW s \in D(n + 1), s # {} PROVE f[Pick(s)] + g[s \ {Pick(s)}] \in Int
        <4>1. f[Pick(s)] \in Int /\ s \ {Pick(s)} \in D(n)
          BY <2>2, <3>1
        <4> HIDE DEF D
        <4>2. g[s \ {Pick(s)}] \in Int
          BY <4>1
        <4> QED
          BY <4>1, <4>2
      <3> QED
        BY <3>1
    <2>4. ASSUME NEW s \in D(n) PROVE s \in D(n + 1)
      <3>1. s \in SUBSET S /\ Cardinality(s) <= n
        OBVIOUS
      <3>2. Cardinality(s) \in Nat
        BY <3>1, Visits
      <3> QED
        BY <3>1, <3>2
    <2>5. \A s \in D(n) : h[s] = g[s]
      <3> SUFFICES ASSUME NEW s \in D(n) PROVE h[s] = g[s]
        OBVIOUS
      <3>1. h[s] = IF s = {} THEN 0 ELSE f[Pick(s)] + g[s \ {Pick(s)}]
        BY <2>4
      <3>2. g[s] = Next(g, n)[s]
        BY <2>1
      <3>3. g[s] = IF s = {} THEN 0 ELSE f[Pick(s)] + g[s \ {Pick(s)}]
        BY <3>2
      <3> QED
        BY <3>1, <3>3
    <2>6. h = Next(h, n + 1)
      <3> HIDE DEF h
      <3>1. \A s \in D(n + 1) : s # {} => h[s \ {Pick(s)}] = g[s \ {Pick(s)}]
        BY <2>2, <2>5
      <3>2. Next(h, n + 1) = Next(g, n + 1)
        BY <3>1
      <3> QED
        BY <3>2 DEF h
    <2> HIDE DEF h
    <2>7. \E i \in [D(n + 1) -> Int] : i = Next(i, n + 1)
      BY <2>3, <2>6
    <2>8. n + 1 \in Nat
      OBVIOUS
    <2> HIDE DEF D, Next
    <2> QED
      BY <2>7, <2>8
  <1>3. Nat \subseteq N
    <2> HIDE DEF N
    <2> QED
      BY <1>1, <1>2, SetOfNat
  <1>4. D(Cardinality(S)) = SUBSET S
    BY FS_Subset, FS_CardinalityType
  <1>5. PICK g \in [D(Cardinality(S)) -> Int] : g = Next(g, Cardinality(S))
    BY <1>3, FS_CardinalityType
  <1> QED
    BY <1>4, <1>5 DEF Computes

LEMMA SumUnique ==
  ASSUME NEW S, IsFiniteSet(S), NEW T \in SUBSET S, NEW f, NEW e, \A x \in T : e[x] = f[x],
         NEW g, Computes(g, f, S), NEW h, Computes(h, e, T)
  PROVE  h[T] = g[T]
  <1> DEFINE N == {n \in Nat : \A s \in SUBSET T : Cardinality(s) = n => h[s] = g[s]}
  <1>1. \A s \in SUBSET S : g[s] = IF s = {} THEN 0 ELSE f[Pick(s)] + g[s \ {Pick(s)}]
    BY DEF Computes
  <1>2. \A s \in SUBSET T : h[s] = IF s = {} THEN 0 ELSE e[Pick(s)] + h[s \ {Pick(s)}]
    BY DEF Computes
  <1>3. IsFiniteSet(T)
    BY FS_Subset
  <1>4. 0 \in N
    BY <1>1, <1>2, <1>3, Visits
  <1>5. ASSUME NEW n \in Nat, n \in N PROVE n + 1 \in N
    <2> SUFFICES ASSUME NEW s \in SUBSET T, Cardinality(s) = n + 1 PROVE h[s] = g[s]
      OBVIOUS
    <2>1. s # {} /\ Pick(s) \in T /\ s \ {Pick(s)} \in SUBSET T /\ Cardinality(s \ {Pick(s)}) = n
      BY <1>3, Visits
    <2>2. h[s \ {Pick(s)}] = g[s \ {Pick(s)}]
      BY <1>5, <2>1
    <2> QED
      BY <1>1, <1>2, <2>1, <2>2
  <1>6. Nat \subseteq N
    <2> HIDE DEF N
    <2> QED
      BY <1>4, <1>5, SetOfNat
  <1> QED
    BY <1>3, <1>6, FS_CardinalityType

LEMMA TotalComputes ==
  ASSUME NEW S, IsFiniteSet(S), NEW f, \A x \in S : f[x] \in Int, NEW T \in SUBSET S,
         NEW g, Computes(g, f, S)
  PROVE  Total(f, T) = g[T]
  <1> DEFINE h == CHOOSE i : Computes(i, f, T)
  <1>1. Total(f, T) = h[T]
    BY DEF Total, FoldFunctionOnSet, MapThenFoldSet, Computes, Pick
  <1>2. \E i : Computes(i, f, T)
    BY FS_Subset, SumExists
  <1>3. Computes(h, f, T)
    BY <1>2
  <1> HIDE DEF h
  <1> QED
    BY <1>1, <1>3, SumUnique

(***************************************************************************)
(* What the sums of the models need.                                       *)
(***************************************************************************)
LEMMA TotalEmpty == ASSUME NEW f PROVE Total(f, {}) = 0
  <1>1. IsFiniteSet({}) /\ \A x \in {} : f[x] \in Int
    BY FS_EmptySet
  <1>2. PICK g : Computes(g, f, {})
    BY <1>1, SumExists
  <1>3. Total(f, {}) = g[{}]
    BY <1>1, <1>2, TotalComputes
  <1> QED
    BY <1>2, <1>3 DEF Computes

LEMMA TotalType ==
  ASSUME NEW S, IsFiniteSet(S), NEW f, \A x \in S : f[x] \in Int
  PROVE  Total(f, S) \in Int
  <1>1. PICK g \in [SUBSET S -> Int] : Computes(g, f, S)
    BY SumExists
  <1>2. Total(f, S) = g[S]
    BY <1>1, TotalComputes
  <1> QED
    BY <1>1, <1>2

\* Only the values at the elements matter.
LEMMA TotalAgrees ==
  ASSUME NEW S, IsFiniteSet(S), NEW f, NEW e, \A x \in S : f[x] \in Int /\ e[x] = f[x]
  PROVE  Total(e, S) = Total(f, S)
  <1>1. PICK g : Computes(g, f, S)
    BY SumExists
  <1>2. PICK h : Computes(h, e, S)
    BY SumExists
  <1>3. Total(f, S) = g[S] /\ Total(e, S) = h[S]
    BY <1>1, <1>2, TotalComputes
  <1>4. g[S] = h[S]
    BY <1>1, <1>2, SumUnique
  <1> QED
    BY <1>3, <1>4

\* One element may be taken out, whichever it is.
LEMMA TotalRemove ==
  ASSUME NEW S, IsFiniteSet(S), NEW f, \A x \in S : f[x] \in Int, NEW x \in S
  PROVE  Total(f, S) = f[x] + Total(f, S \ {x})
  <1>0. PICK g \in [SUBSET S -> Int] : Computes(g, f, S)
    BY SumExists
  <1> DEFINE N == {n \in Nat : \A s \in SUBSET S : \A y \in s :
                                 Cardinality(s) = n => g[s] = f[y] + g[s \ {y}]}
  <1>1. \A s \in SUBSET S : g[s] = IF s = {} THEN 0 ELSE f[Pick(s)] + g[s \ {Pick(s)}]
    BY <1>0 DEF Computes
  <1>2. 0 \in N
    BY Visits
  <1>3. ASSUME NEW n \in Nat, n \in N PROVE n + 1 \in N
    <2> SUFFICES ASSUME NEW s \in SUBSET S, NEW y \in s, Cardinality(s) = n + 1
                 PROVE  g[s] = f[y] + g[s \ {y}]
      OBVIOUS
    <2> DEFINE p == Pick(s)
    <2>1. p \in s /\ Cardinality(s \ {p}) = n /\ Cardinality(s \ {y}) = n /\ IsFiniteSet(s)
      <3>1. IsFiniteSet(s) /\ p \in s /\ Cardinality(s \ {p}) = Cardinality(s) - 1
        BY Visits
      <3>2. Cardinality(s \ {y}) = Cardinality(s) - 1
        BY <3>1, FS_RemoveElement
      <3> QED
        BY <3>1, <3>2
    <2>2. g[s] = f[p] + g[s \ {p}]
      BY <1>1
    <2> HIDE DEF p
    <2>3. CASE y # p
      <3>1. y \in s \ {p} /\ s \ {p} \in SUBSET S /\ p \in s \ {y} /\ s \ {y} \in SUBSET S
        BY <2>1, <2>3
      <3>2. g[s \ {p}] = f[y] + g[(s \ {p}) \ {y}]
        BY <1>3, <2>1, <3>1
      <3>3. g[s \ {y}] = f[p] + g[(s \ {y}) \ {p}]
        BY <1>3, <2>1, <3>1
      <3>4. (s \ {p}) \ {y} = (s \ {y}) \ {p} /\ (s \ {p}) \ {y} \in SUBSET S
        OBVIOUS
      <3>5. f[p] \in Int /\ f[y] \in Int /\ g[(s \ {p}) \ {y}] \in Int
        BY <1>0, <2>1, <3>4
      <3>6. g[(s \ {p}) \ {y}] = g[(s \ {y}) \ {p}]
        BY <3>4
      <3> QED
        BY <2>2, <3>2, <3>3, <3>5, <3>6
    <2> QED
      BY <2>2, <2>3
  <1>4. Nat \subseteq N
    <2> HIDE DEF N
    <2> QED
      BY <1>2, <1>3, SetOfNat
  <1>5. g[S] = f[x] + g[S \ {x}]
    BY <1>4, FS_CardinalityType
  <1> QED
    BY <1>0, <1>5, TotalComputes

LEMMA TotalAdd ==
  ASSUME NEW S, IsFiniteSet(S), NEW f, NEW x, x \notin S, \A y \in S \cup {x} : f[y] \in Int
  PROVE  Total(f, S \cup {x}) = Total(f, S) + f[x]
  <1>1. (S \cup {x}) \ {x} = S /\ IsFiniteSet(S \cup {x})
    BY FS_AddElement
  <1>2. Total(f, S \cup {x}) = f[x] + Total(f, S)
    <2> DEFINE U == S \cup {x}
    <2>1. x \in U /\ IsFiniteSet(U) /\ U \ {x} = S /\ \A y \in U : f[y] \in Int
      BY <1>1
    <2> HIDE DEF U
    <2>2. Total(f, U) = f[x] + Total(f, U \ {x})
      BY <2>1, TotalRemove
    <2> QED
      BY <2>1, <2>2 DEF U
  <1>3. Total(f, S) \in Int /\ f[x] \in Int
    BY TotalType
  <1> QED
    BY <1>2, <1>3

\* e and f differ at x only.
DifferAt(e, f, S, x) == \A y \in S : f[y] \in Int /\ e[y] \in Int /\ (y # x => e[y] = f[y])

\* A value that changes changes the sum by as much.
LEMMA TotalChange ==
  ASSUME NEW S, IsFiniteSet(S), NEW f, NEW e, NEW x \in S, DifferAt(e, f, S, x)
  PROVE  Total(e, S) = Total(f, S) + e[x] - f[x]
  <1>1. IsFiniteSet(S \ {x}) /\ f[x] \in Int /\ e[x] \in Int
    BY FS_Subset DEF DifferAt
  <1>2. Total(e, S \ {x}) = Total(f, S \ {x}) /\ Total(f, S \ {x}) \in Int
    BY <1>1, TotalAgrees, TotalType DEF DifferAt
  <1>3. Total(e, S) = e[x] + Total(e, S \ {x}) /\ Total(f, S) = f[x] + Total(f, S \ {x})
    BY TotalRemove DEF DifferAt
  <1> QED
    BY <1>1, <1>2, <1>3

\* A value that moves from one element to another stays in the sum, or leaves
\* it with the element it moved to.
LEMMA TotalMoved ==
  ASSUME NEW S, IsFiniteSet(S), NEW f, NEW e, NEW x \in S, NEW z, x # z,
         e[x] = 0, z \in S => e[z] = f[z] + f[x], f[x] \in Int,
         DifferAt(e, f, S \ {x}, z)
  PROVE  Total(e, S) = Total(f, S) - IF z \in S THEN 0 ELSE f[x]
  <1> DEFINE R == S \ {x}
  <1>1. IsFiniteSet(R) /\ (z \in R <=> z \in S)
    BY FS_Subset
  <1>2. \A y \in S : f[y] \in Int /\ e[y] \in Int
    BY DEF DifferAt
  <1>3. Total(e, S) = e[x] + Total(e, R) /\ Total(f, S) = f[x] + Total(f, R)
    BY <1>2, TotalRemove
  <1>4. DifferAt(e, f, R, z)
    OBVIOUS
  <1> HIDE DEF R
  <1>5. Total(f, R) \in Int /\ Total(e, R) \in Int
    BY <1>1, <1>4, TotalType DEF DifferAt
  <1>6. CASE z \in S
    <2>1. Total(e, R) = Total(f, R) + e[z] - f[z]
      BY <1>1, <1>4, <1>6, TotalChange
    <2> QED
      BY <1>2, <1>3, <1>5, <1>6, <2>1
  <1>7. CASE z \notin S
    <2>1. \A y \in R : f[y] \in Int /\ e[y] = f[y]
      BY <1>1, <1>4, <1>7 DEF DifferAt
    <2>2. Total(e, R) = Total(f, R)
      BY <1>1, <2>1, TotalAgrees
    <2> QED
      BY <1>3, <1>5, <1>7, <2>2
  <1> QED
    BY <1>6, <1>7

\* A sum of natural numbers grows with its set.
LEMMA TotalGrows ==
  ASSUME NEW S, IsFiniteSet(S), NEW f, \A x \in S : f[x] \in Nat, NEW T \in SUBSET S
  PROVE  0 <= Total(f, T) /\ Total(f, T) <= Total(f, S)
  <1> DEFINE F == {U \in SUBSET S : Total(f, T \cap U) >= 0 /\ Total(f, T \cap U) <= Total(f, U)}
  <1>1. {} \in F
    <2>1. T \cap {} = {}
      OBVIOUS
    <2> QED
      BY <2>1, TotalEmpty
  <1>2. ASSUME NEW U \in SUBSET S, NEW x \in S \ U, U \in F PROVE U \cup {x} \in F
    <2> DEFINE V == T \cap U
               W == T \cap (U \cup {x})
    <2>0. f[x] \in Nat /\ U \cup {x} \in SUBSET S
      OBVIOUS
    <2>1. /\ IsFiniteSet(U) /\ IsFiniteSet(V) /\ x \notin U /\ x \notin V
          /\ \A y \in U \cup {x} : f[y] \in Int
          /\ \A y \in V \cup {x} : f[y] \in Int
      BY FS_Subset
    <2>2. W = IF x \in T THEN V \cup {x} ELSE V
      OBVIOUS
    <2>3. Total(f, V) >= 0 /\ Total(f, V) <= Total(f, U)
      BY <1>2
    <2> HIDE DEF V
    <2>4. Total(f, U \cup {x}) = Total(f, U) + f[x] /\ Total(f, U) \in Int
      BY <2>1, TotalAdd, TotalType
    <2>5. Total(f, V \cup {x}) = Total(f, V) + f[x] /\ Total(f, V) \in Int
      BY <2>1, TotalAdd, TotalType
    <2> HIDE DEF W
    <2>6. Total(f, W) \in {Total(f, V), Total(f, V) + f[x]}
      BY <2>2, <2>5
    <2>7. Total(f, W) >= 0 /\ Total(f, W) <= Total(f, U \cup {x})
      BY <2>0, <2>3, <2>4, <2>5, <2>6
    <2> QED
      BY <2>0, <2>7 DEF W
  <1>3. S \in F
    <2> HIDE DEF F
    <2> QED
      BY <1>1, <1>2, SubsetInduction
  <1>4. T \cap S = T
    OBVIOUS
  <1> QED
    BY <1>3, <1>4

LEMMA TotalSingle == ASSUME NEW f, NEW x, f[x] \in Int PROVE Total(f, {x}) = f[x]
  <1>1. IsFiniteSet({}) /\ {} \cup {x} = {x} /\ x \notin {}
    BY FS_EmptySet
  <1>2. Total(f, {} \cup {x}) = Total(f, {}) + f[x]
    BY <1>1, TotalAdd
  <1> QED
    BY <1>1, <1>2, TotalEmpty

\* Elements of value zero may be left out.
LEMMA TotalSupport ==
  ASSUME NEW S, IsFiniteSet(S), NEW f, \A x \in S : f[x] \in Int,
         NEW T \in SUBSET S, \A x \in S \ T : f[x] = 0
  PROVE  Total(f, T) = Total(f, S)
  <1> DEFINE F == {U \in SUBSET S : Total(f, T \cap U) = Total(f, U)}
  <1>1. {} \in F
    <2>1. T \cap {} = {}
      OBVIOUS
    <2> QED
      BY <2>1
  <1>2. ASSUME NEW U \in SUBSET S, NEW x \in S \ U, U \in F PROVE U \cup {x} \in F
    <2> DEFINE V == T \cap U
               W == T \cap (U \cup {x})
    <2>0. U \cup {x} \in SUBSET S /\ (x \notin T => f[x] = 0)
      OBVIOUS
    <2>1. /\ IsFiniteSet(U) /\ IsFiniteSet(V) /\ x \notin U /\ x \notin V
          /\ \A y \in U \cup {x} : f[y] \in Int
          /\ \A y \in V \cup {x} : f[y] \in Int
      BY FS_Subset
    <2>2. W = IF x \in T THEN V \cup {x} ELSE V
      OBVIOUS
    <2>3. Total(f, V) = Total(f, U)
      BY <1>2
    <2> HIDE DEF V
    <2>4. Total(f, U \cup {x}) = Total(f, U) + f[x] /\ Total(f, U) \in Int
      BY <2>1, TotalAdd, TotalType
    <2>5. Total(f, V \cup {x}) = Total(f, V) + f[x]
      BY <2>1, TotalAdd
    <2> HIDE DEF W
    <2>6. Total(f, W) = Total(f, U \cup {x})
      BY <2>0, <2>2, <2>3, <2>4, <2>5
    <2> QED
      BY <2>0, <2>6 DEF W
  <1>3. S \in F
    <2> HIDE DEF F
    <2> QED
      BY <1>1, <1>2, SubsetInduction
  <1>4. T \cap S = T
    OBVIOUS
  <1> QED
    BY <1>3, <1>4

\* The sum of a set of numbers is that of a function that returns what it is given.
Counts(g, S) ==
  g = [s \in SUBSET S |-> IF s = {} THEN 0 ELSE Pick(s) + g[s \ {Pick(s)}]]

LEMMA SumSetIsTotal ==
  ASSUME NEW S, IsFiniteSet(S), NEW f, \A x \in S : f[x] = x /\ f[x] \in Int
  PROVE  SumSet(S) = Total(f, S)
  <1> DEFINE h == CHOOSE g : Counts(g, S)
  <1>1. SumSet(S) = h[S]
    BY DEF SumSet, FoldSet, MapThenFoldSet, Counts, Pick
  <1>2. ASSUME NEW g PROVE Computes(g, f, S) <=> Counts(g, S)
    <2>1. \A s \in SUBSET S : s # {} => f[Pick(s)] = Pick(s)
      BY DEF Pick
    <2>2. [s \in SUBSET S |-> IF s = {} THEN 0 ELSE f[Pick(s)] + g[s \ {Pick(s)}]]
            = [s \in SUBSET S |-> IF s = {} THEN 0 ELSE Pick(s) + g[s \ {Pick(s)}]]
      BY <2>1
    <2> QED
      BY <2>2 DEF Computes, Counts
  <1>3. \E g : Counts(g, S)
    BY <1>2, SumExists
  <1>4. Counts(h, S)
    BY <1>3
  <1> HIDE DEF h
  <1>5. Computes(h, f, S)
    BY <1>2, <1>4
  <1> QED
    BY <1>1, <1>5, TotalComputes
=============================================================================
