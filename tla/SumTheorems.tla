----------------------------- MODULE SumTheorems ----------------------------
(***************************************************************************)
(* What the proofs of the components need of SumFunctionOnSet, the sum of  *)
(* the numbers w[x] for x in a finite set S, which the community module    *)
(* Functions defines as a fold.  The sum does not depend on the order in   *)
(* which the elements are taken (SumWithout), grows with the set and with  *)
(* the numbers (SumGrows), splits (SumOfBoth), is the same over the image  *)
(* of an injection (SumOverImage) and scales (SumScaled).                  *)
(*                                                                         *)
(* Facts about every finite set follow from the least counterexample       *)
(* (LeastNumber), as a fact to cite: SubsetInduction.                      *)
(***************************************************************************)
EXTENDS Naturals, FiniteSets, Functions, FiniteSetTheorems, WellFoundedInduction, TLAPS

\* A set of numbers has a least one.
LEMMA LeastNumber ==
  ASSUME NEW bad \in SUBSET Nat, bad # {}
  PROVE  \E n \in bad : \A m \in bad : n <= m
  <1>1. PICK n \in bad : \A m \in bad : ~(<<m, n>> \in OpToRel(<, Nat))
    BY NatLessThanWellFounded, WFMin
  <1>2. ASSUME NEW m \in bad, m < n PROVE FALSE
    BY <1>1, <1>2 DEF OpToRel
  <1> QED
    BY <1>2

Pick(s) == CHOOSE x \in s : TRUE
Numbers(w, S) == \A x \in S : w[x] \in Nat

\* f is the fold of w over the subsets of S.
FoldOf(f, w, S) == f = [s \in SUBSET S |-> IF s = {} THEN 0 ELSE LET x == CHOOSE x \in s : TRUE IN w[x] + f[s \ {x}]]

LEMMA SumIsAFold ==
  ASSUME NEW w, NEW S, \E f : FoldOf(f, w, S)
  PROVE  \E f : FoldOf(f, w, S) /\ SumFunctionOnSet(w, S) = f[S]
  <1> DEFINE P(f) == FoldOf(f, w, S)
  <1>1. P(CHOOSE f : P(f))
    OBVIOUS
  <1> QED
    BY <1>1, Zenon DEF SumFunctionOnSet, FoldFunctionOnSet, MapThenFoldSet, FoldOf

LEMMA FoldSteps ==
  ASSUME NEW f, NEW w, NEW S, FoldOf(f, w, S)
  PROVE  /\ f[{}] = 0
         /\ \A s \in SUBSET S : s # {} => f[s] = w[Pick(s)] + f[s \ {Pick(s)}]
  BY DEF FoldOf, Pick

\* One element less.
LEMMA OneLess ==
  ASSUME NEW s, IsFiniteSet(s), NEW x \in s
  PROVE  IsFiniteSet(s \ {x}) /\ Cardinality(s \ {x}) = Cardinality(s) - 1 /\ Cardinality(s) \in Nat \ {0}
  BY FS_RemoveElement, FS_CardinalityType, FS_EmptySet

LEMMA FoldExists ==
  ASSUME NEW S, IsFiniteSet(S), NEW w, Numbers(w, S)
  PROVE  \E f : FoldOf(f, w, S)
  <1> DEFINE Folds(g, n) == /\ g \in [SUBSET S -> Nat]
                            /\ \A s \in SUBSET S : Cardinality(s) <= n =>
                                  g[s] = IF s = {} THEN 0 ELSE w[Pick(s)] + g[s \ {Pick(s)}]
             bad == {n \in Nat : ~\E g : Folds(g, n)}
  <1>0. \A s \in SUBSET S : s # {} => Pick(s) \in s
    BY DEF Pick
  <1>1. \A s \in SUBSET S : IsFiniteSet(s) /\ Cardinality(s) \in Nat /\ Cardinality(s) <= Cardinality(S)
    BY FS_Subset, FS_CardinalityType
  <1>2. bad = {}
    <2> SUFFICES ASSUME bad # {} PROVE FALSE
      OBVIOUS
    <2>0. bad \in SUBSET Nat
      OBVIOUS
    <2>1. PICK n \in bad : \A m \in bad : n <= m
      BY <2>0, LeastNumber
    <2>a. n \in Nat /\ \A m \in Nat : m < n => m \notin bad
      <3> HIDE DEF bad
      <3> QED
        BY <2>0, <2>1
    <2>2. CASE n = 0
      <3> DEFINE g == [s \in SUBSET S |-> 0]
      <3>1. \A s \in SUBSET S : Cardinality(s) <= 0 => s = {}
        BY <1>1, FS_EmptySet
      <3>2. Folds(g, 0)
        BY <3>1
      <3> QED
        BY <2>2, <3>2
    <2>3. CASE n # 0
      <3>1. n - 1 \in Nat /\ n - 1 \notin bad
        <4> HIDE DEF bad
        <4> QED
          BY <2>a, <2>3
      <3>2. PICK g : Folds(g, n - 1)
        BY <3>1
      <3> DEFINE h == [s \in SUBSET S |-> IF Cardinality(s) <= n - 1 THEN g[s] ELSE w[Pick(s)] + g[s \ {Pick(s)}]]
      <3>3. \A s \in SUBSET S : s # {} => s \ {Pick(s)} \in SUBSET S /\ Cardinality(s \ {Pick(s)}) = Cardinality(s) - 1 /\ Cardinality(s) # 0
        BY <1>0, <1>1, OneLess
      <3>4. Cardinality({}) = 0
        BY FS_EmptySet
      <3>5. h \in [SUBSET S -> Nat]
        <4> SUFFICES ASSUME NEW s \in SUBSET S, ~(Cardinality(s) <= n - 1)
                     PROVE  w[Pick(s)] + g[s \ {Pick(s)}] \in Nat
          BY <3>2
        <4>1. s # {}
          <5> HIDE DEF bad
          <5> QED
            BY <3>1, <3>4
        <4>2. w[Pick(s)] \in Nat /\ s \ {Pick(s)} \in SUBSET S
          BY <1>0, <3>3, <4>1 DEF Numbers
        <4> QED
          BY <3>2, <4>2
      <3>6. ASSUME NEW s \in SUBSET S, Cardinality(s) <= n
            PROVE  h[s] = IF s = {} THEN 0 ELSE w[Pick(s)] + h[s \ {Pick(s)}]
        <4>1. CASE s = {}
          BY <3>1, <3>2, <3>4, <4>1
        <4>2. CASE s # {}
          <5>1. s \ {Pick(s)} \in SUBSET S /\ Cardinality(s \ {Pick(s)}) <= n - 1
            BY <1>1, <3>3, <3>6, <4>2
          <5>2. h[s \ {Pick(s)}] = g[s \ {Pick(s)}]
            BY <5>1
          <5>3. h[s] = w[Pick(s)] + g[s \ {Pick(s)}]
            BY <3>2, <4>2
          <5> QED
            BY <4>2, <5>2, <5>3
        <4> QED
          BY <4>1, <4>2
      <3> HIDE DEF h
      <3> QED
        BY <3>5, <3>6
    <2> QED
      BY <2>2, <2>3
  <1>3. PICK f : Folds(f, Cardinality(S))
    BY <1>1, <1>2
  <1>4. FoldOf(f, w, S)
    BY <1>1, <1>3 DEF FoldOf, Pick
  <1> QED
    BY <1>4

\* Folds of functions that agree agree on the sets that both know.
LEMMA FoldsAgree ==
  ASSUME NEW S, IsFiniteSet(S), NEW T \in SUBSET S, NEW w, NEW v, \A x \in T : w[x] = v[x],
         NEW f, NEW g, FoldOf(f, w, S), FoldOf(g, v, T)
  PROVE  \A s \in SUBSET T : f[s] = g[s]
  <1> DEFINE bad == {n \in Nat : \E s \in SUBSET T : Cardinality(s) = n /\ f[s] # g[s]}
  <1>1. \A s \in SUBSET T : s \in SUBSET S /\ IsFiniteSet(s) /\ Cardinality(s) \in Nat
    BY FS_Subset, FS_CardinalityType
  <1>2. bad = {}
    <2> SUFFICES ASSUME bad # {} PROVE FALSE
      OBVIOUS
    <2>0. bad \in SUBSET Nat
      OBVIOUS
    <2>1. PICK n \in bad : \A m \in bad : n <= m
      BY <2>0, LeastNumber
    <2>a. n \in Nat /\ \A m \in Nat : m < n => m \notin bad
      <3> HIDE DEF bad
      <3> QED
        BY <2>0, <2>1
    <2>2. PICK s \in SUBSET T : Cardinality(s) = n /\ f[s] # g[s]
      BY <2>1
    <2>3. s # {}
      BY <2>2, FoldSteps
    <2>4. Pick(s) \in s
      BY <2>3 DEF Pick
    <2>5. s \ {Pick(s)} \in SUBSET T /\ Cardinality(s \ {Pick(s)}) = n - 1 /\ n \in Nat \ {0}
      BY <1>1, <2>2, <2>4, OneLess
    <2>6. f[s \ {Pick(s)}] = g[s \ {Pick(s)}]
      BY <2>1, <2>5
    <2>7. /\ f[s] = w[Pick(s)] + f[s \ {Pick(s)}]
          /\ g[s] = v[Pick(s)] + g[s \ {Pick(s)}]
      BY <1>1, <2>3, FoldSteps
    <2> QED
      BY <2>2, <2>4, <2>6, <2>7
  <1> QED
    BY <1>1, <1>2

LEMMA SumAgrees ==
  ASSUME NEW S, IsFiniteSet(S), NEW w, NEW v, Numbers(w, S), \A x \in S : w[x] = v[x]
  PROVE  SumFunctionOnSet(w, S) = SumFunctionOnSet(v, S)
  <1>1. Numbers(v, S)
    BY DEF Numbers
  <1>2. PICK f : FoldOf(f, w, S) /\ SumFunctionOnSet(w, S) = f[S]
    BY FoldExists, SumIsAFold
  <1>3. PICK g : FoldOf(g, v, S) /\ SumFunctionOnSet(v, S) = g[S]
    BY <1>1, FoldExists, SumIsAFold
  <1>4. S \in SUBSET S /\ \A s \in SUBSET S : f[s] = g[s]
    BY <1>2, <1>3, FoldsAgree
  <1> QED
    BY <1>2, <1>3, <1>4

LEMMA SumOfNothing ==
  ASSUME NEW w
  PROVE  SumFunctionOnSet(w, {}) = 0
  <1>1. IsFiniteSet({}) /\ Numbers(w, {})
    BY FS_EmptySet DEF Numbers
  <1>2. PICK f : FoldOf(f, w, {}) /\ SumFunctionOnSet(w, {}) = f[{}]
    BY <1>1, FoldExists, SumIsAFold
  <1> QED
    BY <1>2, FoldSteps

LEMMA SumSteps ==
  ASSUME NEW S, IsFiniteSet(S), NEW w, Numbers(w, S), S # {}
  PROVE  SumFunctionOnSet(w, S) = w[Pick(S)] + SumFunctionOnSet(w, S \ {Pick(S)}) /\ Pick(S) \in S
  <1> DEFINE T == S \ {Pick(S)}
  <1>1. Pick(S) \in S
    BY DEF Pick
  <1>2. T \in SUBSET S /\ IsFiniteSet(T) /\ Numbers(w, T)
    BY <1>1, OneLess DEF Numbers
  <1>3. PICK f : FoldOf(f, w, S) /\ SumFunctionOnSet(w, S) = f[S]
    BY FoldExists, SumIsAFold
  <1>4. PICK g : FoldOf(g, w, T) /\ SumFunctionOnSet(w, T) = g[T]
    BY <1>2, FoldExists, SumIsAFold
  <1>5. f[T] = g[T]
    BY <1>2, <1>3, <1>4, FoldsAgree
  <1>6. f[S] = w[Pick(S)] + f[T]
    BY <1>3, FoldSteps
  <1> QED
    BY <1>1, <1>3, <1>4, <1>5, <1>6

LEMMA SumIsANumber ==
  ASSUME NEW S, IsFiniteSet(S), NEW w, Numbers(w, S)
  PROVE  SumFunctionOnSet(w, S) \in Nat
  <1> DEFINE bad == {n \in Nat : \E s \in SUBSET S : Cardinality(s) = n /\ SumFunctionOnSet(w, s) \notin Nat}
  <1>1. \A s \in SUBSET S : IsFiniteSet(s) /\ Cardinality(s) \in Nat /\ Numbers(w, s)
    BY FS_Subset, FS_CardinalityType DEF Numbers
  <1>2. bad = {}
    <2> SUFFICES ASSUME bad # {} PROVE FALSE
      OBVIOUS
    <2>0. bad \in SUBSET Nat
      OBVIOUS
    <2>1. PICK n \in bad : \A m \in bad : n <= m
      BY <2>0, LeastNumber
    <2>a. n \in Nat /\ \A m \in Nat : m < n => m \notin bad
      <3> HIDE DEF bad
      <3> QED
        BY <2>0, <2>1
    <2>2. PICK s \in SUBSET S : Cardinality(s) = n /\ SumFunctionOnSet(w, s) \notin Nat
      BY <2>1
    <2>3. s # {}
      BY <2>2, SumOfNothing
    <2>4. SumFunctionOnSet(w, s) = w[Pick(s)] + SumFunctionOnSet(w, s \ {Pick(s)}) /\ Pick(s) \in s
      BY <1>1, <2>3, SumSteps
    <2>5. s \ {Pick(s)} \in SUBSET S /\ Cardinality(s \ {Pick(s)}) = n - 1 /\ n \in Nat \ {0}
      BY <1>1, <2>2, <2>4, OneLess
    <2>6. SumFunctionOnSet(w, s \ {Pick(s)}) \in Nat /\ w[Pick(s)] \in Nat
      BY <1>1, <2>1, <2>4, <2>5 DEF Numbers
    <2> QED
      BY <2>2, <2>4, <2>6
  <1> QED
    BY <1>1, <1>2

\* Any element can be taken out first.
LEMMA SumWithout ==
  ASSUME NEW S, IsFiniteSet(S), NEW w, Numbers(w, S), NEW y \in S
  PROVE  SumFunctionOnSet(w, S) = w[y] + SumFunctionOnSet(w, S \ {y})
  <1> DEFINE Wrong(s, x) == SumFunctionOnSet(w, s) # w[x] + SumFunctionOnSet(w, s \ {x})
             bad == {n \in Nat : \E s \in SUBSET S, x \in S : x \in s /\ Cardinality(s) = n /\ Wrong(s, x)}
  <1>1. \A s \in SUBSET S : IsFiniteSet(s) /\ Cardinality(s) \in Nat /\ Numbers(w, s)
    BY FS_Subset, FS_CardinalityType DEF Numbers
  <1>2. bad = {}
    <2> SUFFICES ASSUME bad # {} PROVE FALSE
      OBVIOUS
    <2>0. bad \in SUBSET Nat
      OBVIOUS
    <2>1. PICK n \in bad : \A m \in bad : n <= m
      BY <2>0, LeastNumber
    <2>a. n \in Nat /\ \A m \in Nat : m < n => m \notin bad
      <3> HIDE DEF bad
      <3> QED
        BY <2>0, <2>1
    <2>2. PICK s \in SUBSET S, x \in S : x \in s /\ Cardinality(s) = n /\ Wrong(s, x)
      BY <2>1
    <2> DEFINE p == Pick(s)
    <2>3. SumFunctionOnSet(w, s) = w[p] + SumFunctionOnSet(w, s \ {p}) /\ p \in s
      BY <1>1, <2>2, SumSteps
    <2>4. p # x
      BY <2>2, <2>3
    <2> HIDE DEF p
    <2>5. /\ s \ {p} \in SUBSET S /\ Cardinality(s \ {p}) = n - 1 /\ x \in s \ {p} /\ n \in Nat \ {0}
          /\ s \ {x} \in SUBSET S /\ Cardinality(s \ {x}) = n - 1 /\ p \in s \ {x} /\ p \in S
      BY <1>1, <2>2, <2>3, <2>4, OneLess
    <2>6. n - 1 \notin bad /\ n - 1 \in Nat
      <3> HIDE DEF bad
      <3> QED
        BY <2>a, <2>5
    <2>7. ~Wrong(s \ {p}, x) /\ ~Wrong(s \ {x}, p)
      BY <2>5, <2>6
    <2>8. (s \ {p}) \ {x} = (s \ {x}) \ {p} /\ (s \ {p}) \ {x} \in SUBSET S
      BY <2>5
    <2>9. SumFunctionOnSet(w, (s \ {p}) \ {x}) \in Nat /\ w[p] \in Nat /\ w[x] \in Nat
      BY <1>1, <2>5, <2>8, SumIsANumber DEF Numbers
    <2>10. SumFunctionOnSet(w, s) = w[p] + (w[x] + SumFunctionOnSet(w, (s \ {p}) \ {x}))
      BY <2>3, <2>7
    <2>11. SumFunctionOnSet(w, s \ {x}) = w[p] + SumFunctionOnSet(w, (s \ {p}) \ {x})
      BY <2>7, <2>8
    <2>12. SumFunctionOnSet(w, s) # w[x] + SumFunctionOnSet(w, s \ {x})
      BY <2>2
    <2> HIDE DEF Wrong, bad
    <2> QED
      BY <2>9, <2>10, <2>11, <2>12
  <1> QED
    BY <1>1, <1>2

LEMMA SumWith ==
  ASSUME NEW S, IsFiniteSet(S), NEW w, NEW y, y \notin S, Numbers(w, S \cup {y})
  PROVE  SumFunctionOnSet(w, S \cup {y}) = w[y] + SumFunctionOnSet(w, S)
  <1>1. IsFiniteSet(S \cup {y}) /\ (S \cup {y}) \ {y} = S
    BY FS_AddElement
  <1> QED
    BY <1>1, SumWithout

\* Less of less is less.
LEMMA SumGrows ==
  ASSUME NEW S, IsFiniteSet(S), NEW w, Numbers(w, S), NEW T \in SUBSET S, NEW v,
         \A x \in T : v[x] \in Nat /\ v[x] <= w[x]
  PROVE  SumFunctionOnSet(v, T) <= SumFunctionOnSet(w, S)
  <1> DEFINE bad == {n \in Nat : \E s \in SUBSET S : Cardinality(s) = n
                                   /\ ~(SumFunctionOnSet(v, s \cap T) <= SumFunctionOnSet(w, s))}
  <1>1. \A s \in SUBSET S : /\ IsFiniteSet(s) /\ Cardinality(s) \in Nat /\ Numbers(w, s)
                            /\ IsFiniteSet(s \cap T) /\ Numbers(v, s \cap T)
    BY FS_Subset, FS_CardinalityType DEF Numbers
  <1>2. bad = {}
    <2> SUFFICES ASSUME bad # {} PROVE FALSE
      OBVIOUS
    <2>0. bad \in SUBSET Nat
      OBVIOUS
    <2>1. PICK n \in bad : \A m \in bad : n <= m
      BY <2>0, LeastNumber
    <2>a. n \in Nat /\ \A m \in Nat : m < n => m \notin bad
      <3> HIDE DEF bad
      <3> QED
        BY <2>0, <2>1
    <2>2. PICK s \in SUBSET S : Cardinality(s) = n /\ ~(SumFunctionOnSet(v, s \cap T) <= SumFunctionOnSet(w, s))
      BY <2>1
    <2>3. s # {}
      <3> SUFFICES ASSUME s = {} PROVE FALSE
        OBVIOUS
      <3>1. s \cap T = {}
        OBVIOUS
      <3> QED
        BY <2>2, <3>1, SumOfNothing
    <2> DEFINE p == Pick(s)
               t == s \ {p}
    <2>4. SumFunctionOnSet(w, s) = w[p] + SumFunctionOnSet(w, t) /\ p \in s
      BY <1>1, <2>3, SumSteps
    <2> HIDE DEF p
    <2>5. t \in SUBSET S /\ Cardinality(t) = n - 1 /\ n \in Nat \ {0}
      BY <1>1, <2>2, <2>4, OneLess
    <2>b. n - 1 \notin bad /\ n - 1 \in Nat
      <3> HIDE DEF bad
      <3> QED
        BY <2>a, <2>5
    <2>6. SumFunctionOnSet(v, t \cap T) <= SumFunctionOnSet(w, t)
      BY <2>b, <2>5
    <2>7. SumFunctionOnSet(v, t \cap T) \in Nat /\ SumFunctionOnSet(w, t) \in Nat /\ w[p] \in Nat
      BY <1>1, <2>4, <2>5, SumIsANumber DEF Numbers
    <2>8. CASE p \in T
      <3>1. (s \cap T) \ {p} = t \cap T /\ p \in s \cap T
        BY <2>4, <2>8
      <3>2. SumFunctionOnSet(v, s \cap T) = v[p] + SumFunctionOnSet(v, t \cap T)
        <4>1. IsFiniteSet(s \cap T) /\ Numbers(v, s \cap T) /\ p \in s \cap T
          BY <1>1, <3>1
        <4>2. SumFunctionOnSet(v, s \cap T) = v[p] + SumFunctionOnSet(v, (s \cap T) \ {p})
          BY <4>1, SumWithout
        <4> QED
          BY <3>1, <4>2
      <3> HIDE DEF t
      <3> QED
        BY <2>2, <2>4, <2>6, <2>7, <2>8, <3>2
    <2>9. CASE p \notin T
      <3>1. s \cap T = t \cap T
        BY <2>9
      <3>2. SumFunctionOnSet(v, s \cap T) <= SumFunctionOnSet(w, t)
        BY <2>6, <3>1
      <3>3. SumFunctionOnSet(v, s \cap T) \in Nat
        BY <2>7, <3>1
      <3> HIDE DEF t
      <3> QED
        BY <2>2, <2>4, <2>7, <3>2, <3>3
    <2> QED
      BY <2>8, <2>9
  <1>3. Cardinality(S) \notin bad /\ S \cap T = T
    BY <1>2
  <1> QED
    BY <1>1, <1>3

\* What holds of the empty set and of a set whenever it holds of the set less one element
\* holds of every subset of a finite set.
LEMMA SubsetInduction ==
  ASSUME NEW S, IsFiniteSet(S), NEW good, {} \in good,
         \A s \in SUBSET S : \A x \in s : s \ {x} \in good => s \in good
  PROVE  \A s \in SUBSET S : s \in good
  <1> DEFINE bad == {n \in Nat : \E s \in SUBSET S : Cardinality(s) = n /\ s \notin good}
  <1>1. \A s \in SUBSET S : IsFiniteSet(s) /\ Cardinality(s) \in Nat
    BY FS_Subset, FS_CardinalityType
  <1>2. bad = {}
    <2> SUFFICES ASSUME bad # {} PROVE FALSE
      OBVIOUS
    <2>1. bad \in SUBSET Nat
      OBVIOUS
    <2>2. PICK n \in bad : \A m \in bad : n <= m
      BY <2>1, LeastNumber
    <2>3. n \in Nat /\ \A m \in Nat : m < n => m \notin bad
      <3> HIDE DEF bad
      <3> QED
        BY <2>1, <2>2
    <2>4. PICK s \in SUBSET S : Cardinality(s) = n /\ s \notin good
      BY <2>2
    <2>5. PICK x \in s : TRUE
      BY <2>4
    <2>6. s \ {x} \in SUBSET S /\ Cardinality(s \ {x}) = n - 1 /\ n \in Nat \ {0}
      BY <1>1, <2>4, OneLess
    <2>7. n - 1 \notin bad /\ n - 1 \in Nat
      <3> HIDE DEF bad
      <3> QED
        BY <2>3, <2>6
    <2>8. s \ {x} \in good
      BY <2>6, <2>7
    <2> QED
      BY <2>4, <2>8
  <1> QED
    BY <1>1, <1>2

LEMMA SumOfBoth ==
  ASSUME NEW S, IsFiniteSet(S), NEW T, IsFiniteSet(T), S \cap T = {}, NEW w, Numbers(w, S \cup T)
  PROVE  SumFunctionOnSet(w, S \cup T) = SumFunctionOnSet(w, S) + SumFunctionOnSet(w, T)
  <1> DEFINE Adds(t) == SumFunctionOnSet(w, S \cup t) = SumFunctionOnSet(w, S) + SumFunctionOnSet(w, t)
             good == {t \in SUBSET T : Adds(t)}
  <1>1. Numbers(w, S) /\ SumFunctionOnSet(w, S) \in Nat
    BY SumIsANumber DEF Numbers
  <1>2. {} \in good
    <2>1. S \cup {} = S
      OBVIOUS
    <2> QED
      BY <1>1, <2>1, SumOfNothing
  <1>3. ASSUME NEW t \in SUBSET T, NEW x \in t, t \ {x} \in good PROVE t \in good
    <2>1. /\ IsFiniteSet(t) /\ IsFiniteSet(t \ {x}) /\ IsFiniteSet(S \cup t)
          /\ Numbers(w, t) /\ Numbers(w, t \ {x}) /\ Numbers(w, S \cup t)
      BY FS_Subset, FS_Union DEF Numbers
    <2>2. (S \cup t) \ {x} = S \cup (t \ {x}) /\ x \in S \cup t
      OBVIOUS
    <2>3. SumFunctionOnSet(w, S \cup t) = w[x] + SumFunctionOnSet(w, S \cup (t \ {x}))
      BY <2>1, <2>2, SumWithout
    <2>4. SumFunctionOnSet(w, t) = w[x] + SumFunctionOnSet(w, t \ {x})
      BY <2>1, SumWithout
    <2>5. SumFunctionOnSet(w, t \ {x}) \in Nat /\ w[x] \in Nat
      BY <2>1, SumIsANumber DEF Numbers
    <2>6. Adds(t \ {x})
      BY <1>3
    <2>7. Adds(t)
      BY <1>1, <2>3, <2>4, <2>5, <2>6
    <2> QED
      BY <2>7
  <1> HIDE DEF good
  <1>4. \A t \in SUBSET T : \A x \in t : t \ {x} \in good => t \in good
    BY <1>3
  <1>5. T \in SUBSET T
    OBVIOUS
  <1>6. T \in good
    <2>1. \A t \in SUBSET T : t \in good
      BY ONLY IsFiniteSet(T), <1>2, <1>4, SubsetInduction
    <2> QED
      BY <1>5, <2>1
  <1> QED
    BY <1>6 DEF good

\* g takes no two elements of S to one.
OneToOne(g, S) == \A x, y \in S : g[x] = g[y] => x = y
ImageOf(g, S) == {g[x] : x \in S}

LEMMA SumOverImage ==
  ASSUME NEW S, IsFiniteSet(S), NEW g, OneToOne(g, S), NEW w, Numbers(w, ImageOf(g, S)),
         NEW v, \A x \in S : v[x] = w[g[x]]
  PROVE  SumFunctionOnSet(v, S) = SumFunctionOnSet(w, ImageOf(g, S))
  <1> DEFINE Same(s) == /\ IsFiniteSet(ImageOf(g, s))
                        /\ SumFunctionOnSet(v, s) = SumFunctionOnSet(w, ImageOf(g, s))
             good == {s \in SUBSET S : Same(s)}
  <1>1. {} \in good
    <2>1. ImageOf(g, {}) = {}
      BY DEF ImageOf
    <2> QED
      BY <2>1, SumOfNothing, FS_EmptySet
  <1>2. ASSUME NEW s \in SUBSET S, NEW x \in s, s \ {x} \in good PROVE s \in good
    <2>0. Same(s \ {x})
      BY <1>2
    <2>1. IsFiniteSet(s) /\ IsFiniteSet(ImageOf(g, s))
      <3>1. ImageOf(g, s) = ImageOf(g, s \ {x}) \cup {g[x]}
        BY DEF ImageOf
      <3> QED
        BY <2>0, <3>1, FS_Subset, FS_AddElement
    <2>2. Numbers(v, s) /\ Numbers(w, ImageOf(g, s)) /\ v[x] = w[g[x]] /\ g[x] \in ImageOf(g, s)
      BY DEF Numbers, ImageOf
    <2>3. ImageOf(g, s) \ {g[x]} = ImageOf(g, s \ {x})
      BY DEF ImageOf, OneToOne
    <2>4. SumFunctionOnSet(v, s) = v[x] + SumFunctionOnSet(v, s \ {x})
      BY <2>1, <2>2, SumWithout
    <2>5. SumFunctionOnSet(w, ImageOf(g, s)) = w[g[x]] + SumFunctionOnSet(w, ImageOf(g, s \ {x}))
      BY <2>1, <2>2, <2>3, SumWithout
    <2>6. Same(s)
      BY <2>0, <2>1, <2>2, <2>4, <2>5
    <2> QED
      BY <2>6
  <1> HIDE DEF good
  <1>3. \A s \in SUBSET S : \A x \in s : s \ {x} \in good => s \in good
    BY <1>2
  <1>4. S \in SUBSET S
    OBVIOUS
  <1>5. S \in good
    BY <1>1, <1>3, <1>4, SubsetInduction
  <1> QED
    BY <1>5 DEF good

LEMMA ScaledOnce ==
  ASSUME NEW d \in Nat, NEW k \in Nat, NEW a \in Nat, NEW b \in Nat, NEW p \in Nat, NEW q \in Nat,
         d * a = k * p, d * b = k * q
  PROVE  d * (a + b) = k * (p + q)
  OBVIOUS

LEMMA SumScaled ==
  ASSUME NEW S, IsFiniteSet(S), NEW v, Numbers(v, S), NEW w, Numbers(w, S), NEW d \in Nat, NEW k \in Nat,
         \A x \in S : d * v[x] = k * w[x]
  PROVE  d * SumFunctionOnSet(v, S) = k * SumFunctionOnSet(w, S)
  <1> DEFINE Scales(s) == d * SumFunctionOnSet(v, s) = k * SumFunctionOnSet(w, s)
             good == {s \in SUBSET S : Scales(s)}
  <1>1. {} \in good
    BY SumOfNothing
  <1>2. ASSUME NEW s \in SUBSET S, NEW x \in s, s \ {x} \in good PROVE s \in good
    <2>1. /\ IsFiniteSet(s) /\ IsFiniteSet(s \ {x}) /\ Numbers(v, s) /\ Numbers(w, s)
          /\ Numbers(v, s \ {x}) /\ Numbers(w, s \ {x}) /\ v[x] \in Nat /\ w[x] \in Nat
      BY FS_Subset DEF Numbers
    <2>2. /\ SumFunctionOnSet(v, s) = v[x] + SumFunctionOnSet(v, s \ {x})
          /\ SumFunctionOnSet(w, s) = w[x] + SumFunctionOnSet(w, s \ {x})
      BY <2>1, SumWithout
    <2>3. SumFunctionOnSet(v, s \ {x}) \in Nat /\ SumFunctionOnSet(w, s \ {x}) \in Nat
      BY <2>1, SumIsANumber
    <2>4. Scales(s \ {x}) /\ d * v[x] = k * w[x]
      BY <1>2
    <2>5. d * (v[x] + SumFunctionOnSet(v, s \ {x})) = k * (w[x] + SumFunctionOnSet(w, s \ {x}))
      <3> DEFINE a == v[x]
                 p == w[x]
                 b == SumFunctionOnSet(v, s \ {x})
                 q == SumFunctionOnSet(w, s \ {x})
      <3>1. a \in Nat /\ b \in Nat /\ p \in Nat /\ q \in Nat /\ d * a = k * p /\ d * b = k * q
        BY <2>1, <2>3, <2>4
      <3> HIDE DEF a, b, p, q
      <3>2. d * (a + b) = k * (p + q)
        BY <3>1, ScaledOnce
      <3> QED
        BY <3>2 DEF a, b, p, q
    <2>6. Scales(s)
      BY <2>2, <2>5
    <2> QED
      BY <2>6
  <1> HIDE DEF good
  <1>3. \A s \in SUBSET S : \A x \in s : s \ {x} \in good => s \in good
    BY <1>2
  <1>4. S \in SUBSET S
    OBVIOUS
  <1>5. S \in good
    BY <1>1, <1>3, <1>4, SubsetInduction
  <1> QED
    BY <1>5 DEF good

LEMMA SumOfZeros ==
  ASSUME NEW S, IsFiniteSet(S), NEW w, \A x \in S : w[x] = 0
  PROVE  SumFunctionOnSet(w, S) = 0
  <1>1. Numbers(w, S) /\ \A x \in S : 1 * w[x] = 0 * w[x]
    BY DEF Numbers
  <1>2. 1 * SumFunctionOnSet(w, S) = 0 * SumFunctionOnSet(w, S) /\ SumFunctionOnSet(w, S) \in Nat
    BY <1>1, SumScaled, SumIsANumber
  <1> QED
    BY <1>2
=============================================================================
