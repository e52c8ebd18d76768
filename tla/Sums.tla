-------------------------------- MODULE Sums --------------------------------
(***************************************************************************)
(* Facts about sums over finite sets, SumFunctionOnSet of module Functions. *)
(* The induction they need is over sets of sets: a family of subsets of a  *)
(* finite set that has every set whose strict subsets it has, has them all. *)
(***************************************************************************)
EXTENDS Integers, FiniteSets, Functions, FiniteSetTheorems, TLAPS

\* A family of subsets of S that contains a subset whenever it contains the
\* strict subsets of it contains all: the strict subset order is well founded.
LEMMA SubsetInduction ==
    ASSUME NEW S, IsFiniteSet(S), NEW F,
           \A T \in SUBSET S : (\A U \in SUBSET T : U # T => U \in F) => T \in F
    PROVE  \A T \in SUBSET S : T \in F
<1> SUFFICES ASSUME NEW T0 \in SUBSET S, T0 \notin F PROVE FALSE
    OBVIOUS
<1> DEFINE M == {T \in SUBSET S : T \notin F}
<1>1. IsWellFoundedOn(StrictSubsetOrdering(S), SUBSET S)
    <2>1. IsWellFoundedOn(StrictSubsetOrdering(S), FiniteSubsetsOf(S))
        BY FS_StrictSubsetOrderingWellFounded
    <2>2. FiniteSubsetsOf(S) = SUBSET S
        BY FS_FiniteSubsetsOfFinite
    <2> QED BY <2>1, <2>2
<1>2. M \subseteq SUBSET S /\ M # {}
    OBVIOUS
<1> HIDE DEF M
<1>3. PICK T \in M : \A U \in M : ~ (<<U, T>> \in StrictSubsetOrdering(S))
    BY <1>1, <1>2, WFMin
<1> USE DEF M
<1>4. \A U \in SUBSET T : U # T => U \in F
    <2> SUFFICES ASSUME NEW U \in SUBSET T, U # T, U \notin F PROVE FALSE
        OBVIOUS
    <2>1. T \in SUBSET S /\ U \in SUBSET S /\ U \in M
        OBVIOUS
    <2>2. <<U, T>> \in StrictSubsetOrdering(S)
        BY <2>1 DEF StrictSubsetOrdering
    <2> QED BY <2>1, <2>2, <1>3
<1> QED BY <1>3, <1>4

\* Of a finite set, what holds of {} and is kept when an element is added.
LEMMA SetInduction ==
    ASSUME NEW S, IsFiniteSet(S), NEW F, {} \in F,
           \A T \in SUBSET S : \A x \in S \ T : T \in F => T \cup {x} \in F
    PROVE  \A T \in SUBSET S : T \in F
<1>1. ASSUME NEW T \in SUBSET S, \A U \in SUBSET T : U # T => U \in F
      PROVE  T \in F
    <2>1. CASE T = {}
        BY <2>1
    <2>2. CASE T # {}
        <3>1. PICK x \in T : TRUE
            BY <2>2
        <3>2. T \ {x} \in SUBSET T /\ T \ {x} # T /\ x \in S \ (T \ {x})
            BY <3>1
        <3>3. T \ {x} \in F
            BY <3>2, <1>1
        <3>4. T = (T \ {x}) \cup {x}
            BY <3>1
        <3> QED BY <3>2, <3>3, <3>4
    <2> QED BY <2>1, <2>2
<1> QED BY <1>1, SubsetInduction

\* What holds of 0 and is kept by + 1 holds of every natural number.
LEMMA NumberInduction ==
    ASSUME NEW A, 0 \in A, \A n \in Nat : n \in A => n + 1 \in A
    PROVE  \A n \in Nat : n \in A
<1> SUFFICES ASSUME NEW n0 \in Nat, n0 \notin A PROVE FALSE
    OBVIOUS
<1> DEFINE M == {n \in Nat : n \notin A}
<1>1. M \subseteq Nat /\ M # {}
    OBVIOUS
<1> HIDE DEF M
<1>2. PICK n \in M : \A m \in M : ~ (<<m, n>> \in OpToRel(<, Nat))
    BY <1>1, NatLessThanWellFounded, WFMin
<1>3. n \in Nat /\ n \notin A
    BY <1>2 DEF M
<1>4. n # 0 /\ n - 1 \in Nat
    BY <1>3
<1>5. <<n - 1, n>> \in OpToRel(<, Nat)
    BY <1>3, <1>4 DEF OpToRel
<1>6. n - 1 \in A
    BY <1>2, <1>4, <1>5 DEF M
<1>7. (n - 1) + 1 = n
    BY <1>3
<1> QED BY <1>3, <1>4, <1>6, <1>7

-----------------------------------------------------------------------------
(* The recursion behind a sum. *)

First(s) == CHOOSE x \in s : TRUE

\* g gives each subset of S its sum.
Adds(f, S, g) ==
    g = [s \in SUBSET S |-> IF s = {} THEN 0
                            ELSE f[CHOOSE x \in s : TRUE] + g[s \ {CHOOSE x \in s : TRUE}]]

\* A function that adds is one equation per subset.
LEMMA AddsPointwise ==
    ASSUME NEW f, NEW S, NEW g, Adds(f, S, g)
    PROVE  /\ g[{}] = 0
           /\ \A s \in SUBSET S : s # {} => g[s] = f[First(s)] + g[s \ {First(s)}]
BY DEF Adds, First

LEMMA FirstIsMember == ASSUME NEW s, s # {} PROVE First(s) \in s
BY DEF First

\* Functions that add, over sets that contain S, agree on the subsets of S
\* where what they add agrees.
LEMMA AddsAgree ==
    ASSUME NEW S, IsFiniteSet(S), NEW V, NEW W, S \subseteq V, S \subseteq W,
           NEW f, NEW e, \A x \in S : f[x] = e[x],
           NEW g, Adds(f, V, g), NEW h, Adds(e, W, h)
    PROVE  \A s \in SUBSET S : g[s] = h[s]
<1> DEFINE F == {s \in SUBSET S : g[s] = h[s]}
<1>1. ASSUME NEW T \in SUBSET S, \A U \in SUBSET T : U # T => U \in F
      PROVE  T \in F
    <2>1. CASE T = {}
        BY <2>1, AddsPointwise
    <2>2. CASE T # {}
        <3>1. First(T) \in T
            BY <2>2, FirstIsMember
        <3>2. T \ {First(T)} \in F
            BY <3>1, <1>1
        <3>3. g[T] = f[First(T)] + g[T \ {First(T)}]
            <4>1. T \in SUBSET V
                OBVIOUS
            <4> QED BY <2>2, <4>1, AddsPointwise
        <3>4. h[T] = e[First(T)] + h[T \ {First(T)}]
            <4>1. T \in SUBSET W
                OBVIOUS
            <4> QED BY <2>2, <4>1, AddsPointwise
        <3>5. f[First(T)] = e[First(T)]
            BY <3>1
        <3> QED BY <3>2, <3>3, <3>4, <3>5
    <2> QED BY <2>1, <2>2
<1> HIDE DEF F
<1>2. \A s \in SUBSET S : s \in F
    BY <1>1, SubsetInduction
<1> QED BY <1>2 DEF F

LEMMA SumIsChosen ==
    ASSUME NEW f, NEW S
    PROVE  SumFunctionOnSet(f, S) = (CHOOSE g : Adds(f, S, g))[S]
BY DEF SumFunctionOnSet, FoldFunctionOnSet, MapThenFoldSet, Adds

\* If something adds, the sum is what it gives the whole set.
LEMMA SumIsAdded ==
    ASSUME NEW f, NEW S, IsFiniteSet(S), NEW g, Adds(f, S, g)
    PROVE  SumFunctionOnSet(f, S) = g[S]
<1> DEFINE h == CHOOSE e : Adds(f, S, e)
<1>1. Adds(f, S, h)
    OBVIOUS
<1> HIDE DEF h
<1>2. h[S] = g[S]
    BY <1>1, AddsAgree
<1> QED BY <1>2, SumIsChosen DEF h

\* For every finite set there is a function that adds: from the sums of the
\* strict subsets of a set, those of its subsets.
LEMMA AddsExists ==
    ASSUME NEW f, NEW S, IsFiniteSet(S)
    PROVE  \A T \in SUBSET S : \E g : Adds(f, T, g)
<1> DEFINE F == {T \in SUBSET S : \E g : Adds(f, T, g)}
<1>1. ASSUME NEW T \in SUBSET S, \A U \in SUBSET T : U # T => U \in F
      PROVE  T \in F
    <2> DEFINE G == [s \in SUBSET T |->
                      IF s = {} THEN 0
                      ELSE f[CHOOSE x \in s : TRUE]
                             + SumFunctionOnSet(f, s \ {CHOOSE x \in s : TRUE})]
    <2>1. ASSUME NEW s \in SUBSET T, s # {}
          PROVE  G[s \ {First(s)}] = SumFunctionOnSet(f, s \ {First(s)})
        <3> DEFINE U == s \ {First(s)}
        <3>1. First(s) \in s
            BY <2>1, FirstIsMember
        <3>2. U \in SUBSET T /\ U # T
            BY <3>1
        <3>3. PICK g : Adds(f, U, g)
            BY <3>2, <1>1
        <3>4. IsFiniteSet(U)
            BY <3>2, FS_Subset
        <3>5. SumFunctionOnSet(f, U) = g[U]
            BY <3>3, <3>4, SumIsAdded
        <3>6. CASE U = {}
            <4>1. g[{}] = 0
                BY <3>3, AddsPointwise
            <4>2. G[{}] = 0
                OBVIOUS
            <4> QED BY <4>1, <4>2, <3>5, <3>6
        <3>7. CASE U # {}
            <4> DEFINE V == U \ {First(U)}
            <4>1. First(U) \in U
                BY <3>7, FirstIsMember
            <4>2. V \in SUBSET T /\ V # T /\ V \subseteq U
                BY <4>1, <3>2
            <4>3. PICK h : Adds(f, V, h)
                BY <4>2, <1>1
            <4>4. IsFiniteSet(V)
                BY <4>2, FS_Subset
            <4>5. SumFunctionOnSet(f, V) = h[V]
                BY <4>3, <4>4, SumIsAdded
            <4> HIDE DEF V, U
            <4>6. g[V] = h[V]
                BY <4>2, <4>3, <4>4, <3>3, AddsAgree
            <4> USE DEF V
            <4>7. g[U] = f[First(U)] + g[V]
                BY <3>3, <3>7, AddsPointwise
            <4>8. G[U] = f[First(U)] + SumFunctionOnSet(f, V)
                BY <3>2, <3>7 DEF First
            <4> QED BY <4>5, <4>6, <4>7, <4>8, <3>5 DEF U
        <3> QED BY <3>6, <3>7
    <2>2. \A s \in SUBSET T : G[s] = IF s = {} THEN 0
                     ELSE f[CHOOSE x \in s : TRUE] + G[s \ {CHOOSE x \in s : TRUE}]
        <3> SUFFICES ASSUME NEW s \in SUBSET T
                     PROVE  G[s] = IF s = {} THEN 0
                     ELSE f[CHOOSE x \in s : TRUE] + G[s \ {CHOOSE x \in s : TRUE}]
            OBVIOUS
        <3>1. CASE s = {}
            BY <3>1
        <3>2. CASE s # {}
            <4>1. G[s] = f[First(s)] + SumFunctionOnSet(f, s \ {First(s)})
                BY <3>2 DEF First
            <4> HIDE DEF G
            <4>2. G[s] = f[First(s)] + G[s \ {First(s)}]
                BY <4>1, <2>1, <3>2
            <4> QED BY <4>2, <3>2 DEF First
        <3> QED BY <3>1, <3>2
    <2> HIDE DEF G
    <2>3. G = [s \in SUBSET T |-> G[s]]
        BY DEF G
    <2>4. Adds(f, T, G)
        BY <2>2, <2>3 DEF Adds
    <2> QED BY <2>4
<1> HIDE DEF F
<1>2. \A T \in SUBSET S : T \in F
    BY <1>1, SubsetInduction
<1> QED BY <1>2 DEF F

-----------------------------------------------------------------------------
(* What a sum is. *)

\* Nothing adds up to zero.
LEMMA SumEmpty ==
    ASSUME NEW f
    PROVE  SumFunctionOnSet(f, {}) = 0
<1>1. IsFiniteSet({})
    BY FS_EmptySet
<1>2. PICK g : Adds(f, {}, g)
    BY <1>1, AddsExists
<1> QED BY <1>1, <1>2, SumIsAdded, AddsPointwise

\* The equation of the recursion.
LEMMA SumFirst ==
    ASSUME NEW f, NEW S, IsFiniteSet(S), S # {}
    PROVE  SumFunctionOnSet(f, S) = f[First(S)] + SumFunctionOnSet(f, S \ {First(S)})
<1> DEFINE U == S \ {First(S)}
<1>1. First(S) \in S
    BY FirstIsMember
<1>2. U \in SUBSET S /\ IsFiniteSet(U)
    BY FS_Subset
<1>3. PICK g : Adds(f, S, g)
    BY AddsExists
<1>4. PICK h : Adds(f, U, h)
    BY <1>2, AddsExists
<1>5. g[U] = h[U]
    <2> HIDE DEF U
    <2> QED BY <1>2, <1>3, <1>4, AddsAgree
<1>6. SumFunctionOnSet(f, U) = h[U]
    BY <1>2, <1>4, SumIsAdded
<1>7. SumFunctionOnSet(f, S) = g[S]
    BY <1>3, SumIsAdded
<1>8. g[S] = f[First(S)] + g[U]
    BY <1>3, AddsPointwise
<1> QED BY <1>5, <1>6, <1>7, <1>8

\* Only the values on the set count.
LEMMA SumExtensional ==
    ASSUME NEW f, NEW e, NEW S, IsFiniteSet(S), \A x \in S : f[x] = e[x]
    PROVE  SumFunctionOnSet(f, S) = SumFunctionOnSet(e, S)
<1>1. PICK g : Adds(f, S, g)
    BY AddsExists
<1>2. PICK h : Adds(e, S, h)
    BY AddsExists
<1>3. g[S] = h[S]
    BY <1>1, <1>2, AddsAgree
<1> QED BY <1>1, <1>2, <1>3, SumIsAdded

\* A sum of integers is one.
LEMMA SumInt ==
    ASSUME NEW f, NEW S, IsFiniteSet(S), \A x \in S : f[x] \in Int
    PROVE  SumFunctionOnSet(f, S) \in Int
<1> DEFINE F == {T \in SUBSET S : SumFunctionOnSet(f, T) \in Int}
<1>1. ASSUME NEW T \in SUBSET S, \A U \in SUBSET T : U # T => U \in F
      PROVE  T \in F
    <2>1. CASE T = {}
        BY <2>1, SumEmpty
    <2>2. CASE T # {}
        <3>1. First(T) \in T
            BY <2>2, FirstIsMember
        <3>2. T \ {First(T)} \in F
            BY <3>1, <1>1
        <3>3. SumFunctionOnSet(f, T) = f[First(T)] + SumFunctionOnSet(f, T \ {First(T)})
            BY <2>2, FS_Subset, SumFirst
        <3>4. f[First(T)] \in Int
            BY <3>1
        <3> QED BY <3>2, <3>3, <3>4
    <2> QED BY <2>1, <2>2
<1> HIDE DEF F
<1>2. \A T \in SUBSET S : T \in F
    BY <1>1, SubsetInduction
<1> QED BY <1>2 DEF F

\* It does not matter which element is added first.
LEMMA SumRemove ==
    ASSUME NEW f, NEW S, IsFiniteSet(S), \A x \in S : f[x] \in Int, NEW x0 \in S
    PROVE  SumFunctionOnSet(f, S) = f[x0] + SumFunctionOnSet(f, S \ {x0})
<1> DEFINE F == {T \in SUBSET S : \A x \in T :
                    SumFunctionOnSet(f, T) = f[x] + SumFunctionOnSet(f, T \ {x})}
<1>1. ASSUME NEW T \in SUBSET S, \A U \in SUBSET T : U # T => U \in F
      PROVE  T \in F
    <2> SUFFICES ASSUME NEW x \in T
                 PROVE  SumFunctionOnSet(f, T) = f[x] + SumFunctionOnSet(f, T \ {x})
        OBVIOUS
    <2> DEFINE y == First(T)
    <2>1. y \in T
        BY FirstIsMember
    <2>2. SumFunctionOnSet(f, T) = f[y] + SumFunctionOnSet(f, T \ {y})
        BY FS_Subset, SumFirst
    <2>3. CASE x = y
        BY <2>2, <2>3
    <2>4. CASE x # y
        <3> HIDE DEF y
        <3>1. T \ {y} \in F /\ x \in T \ {y}
            BY <2>1, <2>4, <1>1
        <3>2. SumFunctionOnSet(f, T \ {y}) = f[x] + SumFunctionOnSet(f, (T \ {y}) \ {x})
            BY <3>1
        <3>3. T \ {x} \in F /\ y \in T \ {x}
            BY <2>1, <2>4, <1>1
        <3>4. SumFunctionOnSet(f, T \ {x}) = f[y] + SumFunctionOnSet(f, (T \ {x}) \ {y})
            BY <3>3
        <3>5. (T \ {y}) \ {x} = (T \ {x}) \ {y}
            OBVIOUS
        <3> DEFINE rest == (T \ {x}) \ {y}
        <3>6. SumFunctionOnSet(f, rest) \in Int
            <4>1. IsFiniteSet(rest) /\ \A z \in rest : f[z] \in Int
                BY FS_Subset
            <4> QED BY <4>1, SumInt
        <3>7. f[x] \in Int /\ f[y] \in Int
            BY <2>1
        <3> HIDE DEF rest
        <3>8. SumFunctionOnSet(f, (T \ {y}) \ {x}) = SumFunctionOnSet(f, rest)
            BY <3>5 DEF rest
        <3>9. SumFunctionOnSet(f, (T \ {x}) \ {y}) = SumFunctionOnSet(f, rest)
            BY DEF rest
        <3> QED BY <2>2, <3>2, <3>4, <3>6, <3>7, <3>8, <3>9
    <2> QED BY <2>3, <2>4
<1> HIDE DEF F
<1>2. \A T \in SUBSET S : T \in F
    BY <1>1, SubsetInduction
<1>3. S \in F
    BY <1>2
<1> QED BY <1>3 DEF F

-----------------------------------------------------------------------------
(* What the proofs about ledgers use. *)

\* A sum after one more element.
LEMMA SumAdd ==
    ASSUME NEW f, NEW S, IsFiniteSet(S), \A x \in S : f[x] \in Int,
           NEW y, y \notin S, f[y] \in Int
    PROVE  SumFunctionOnSet(f, S \cup {y}) = f[y] + SumFunctionOnSet(f, S)
<1> DEFINE T == S \cup {y}
<1>1. IsFiniteSet(T) /\ y \in T /\ \A x \in T : f[x] \in Int
    BY FS_AddElement
<1>2. T \ {y} = S
    OBVIOUS
<1> HIDE DEF T
<1>3. SumFunctionOnSet(f, T) = f[y] + SumFunctionOnSet(f, T \ {y})
    BY <1>1, SumRemove
<1> QED BY <1>2, <1>3 DEF T

\* A sum of natural numbers is one.
LEMMA SumNat ==
    ASSUME NEW f, NEW S, IsFiniteSet(S), \A x \in S : f[x] \in Nat
    PROVE  SumFunctionOnSet(f, S) \in Nat
<1> DEFINE F == {T \in SUBSET S : SumFunctionOnSet(f, T) \in Nat}
<1>1. {} \in F
    BY SumEmpty
<1>2. ASSUME NEW T \in SUBSET S, NEW x \in S \ T, T \in F
      PROVE  T \cup {x} \in F
    <2>1. IsFiniteSet(T) /\ \A y \in T : f[y] \in Int
        BY FS_Subset
    <2>2. f[x] \in Nat /\ x \notin T
        OBVIOUS
    <2>3. SumFunctionOnSet(f, T \cup {x}) = f[x] + SumFunctionOnSet(f, T)
        BY <2>1, <2>2, SumAdd
    <2>4. SumFunctionOnSet(f, T) \in Nat
        BY <1>2
    <2> QED BY <2>2, <2>3, <2>4
<1> HIDE DEF F
<1>3. \A T \in SUBSET S : T \in F
    BY <1>1, <1>2, SetInduction
<1> QED BY <1>3 DEF F

\* No term exceeds the sum of natural numbers it belongs to.
LEMMA SumTerm ==
    ASSUME NEW f, NEW S, IsFiniteSet(S), \A x \in S : f[x] \in Nat, NEW y \in S
    PROVE  f[y] <= SumFunctionOnSet(f, S)
<1>1. SumFunctionOnSet(f, S) = f[y] + SumFunctionOnSet(f, S \ {y})
    BY SumRemove
<1>2. SumFunctionOnSet(f, S \ {y}) \in Nat
    <2>1. IsFiniteSet(S \ {y})
        BY FS_RemoveElement
    <2>2. \A x \in S \ {y} : f[x] \in Nat
        OBVIOUS
    <2> QED BY <2>1, <2>2, SumNat
<1> QED BY <1>1, <1>2

\* When only the term of y differs, so does the sum.
LEMMA SumUpdate ==
    ASSUME NEW f, NEW e, NEW S, IsFiniteSet(S), NEW y \in S,
           \A x \in S : f[x] \in Int /\ e[x] \in Int,
           \A x \in S \ {y} : f[x] = e[x]
    PROVE  SumFunctionOnSet(e, S) = (SumFunctionOnSet(f, S) - f[y]) + e[y]
<1>1. SumFunctionOnSet(f, S) = f[y] + SumFunctionOnSet(f, S \ {y})
    BY SumRemove
<1>2. SumFunctionOnSet(e, S) = e[y] + SumFunctionOnSet(e, S \ {y})
    BY SumRemove
<1>3. IsFiniteSet(S \ {y})
    BY FS_RemoveElement
<1>4. SumFunctionOnSet(f, S \ {y}) = SumFunctionOnSet(e, S \ {y})
    BY <1>3, SumExtensional
<1>5. SumFunctionOnSet(f, S \ {y}) \in Int
    <2>1. \A x \in S \ {y} : f[x] \in Int
        OBVIOUS
    <2> QED BY <1>3, <2>1, SumInt
<1> QED BY <1>1, <1>2, <1>4, <1>5

\* Elements that add nothing may be left out.
LEMMA SumSupport ==
    ASSUME NEW f, NEW S, IsFiniteSet(S), NEW E, E \subseteq S,
           \A x \in E : f[x] \in Int, \A x \in S \ E : f[x] = 0
    PROVE  SumFunctionOnSet(f, S) = SumFunctionOnSet(f, E)
<1> DEFINE D == S \ E
           F == {T \in SUBSET D :
                    SumFunctionOnSet(f, E \cup T) = SumFunctionOnSet(f, E)}
<1>1. IsFiniteSet(D) /\ IsFiniteSet(E)
    BY FS_Subset
<1>2. {} \in F
    <2>1. E \cup {} = E
        OBVIOUS
    <2> QED BY <2>1
<1>3. ASSUME NEW T \in SUBSET D, NEW x \in D \ T, T \in F
      PROVE  T \cup {x} \in F
    <2> DEFINE W == E \cup T
    <2>1. IsFiniteSet(W) /\ (\A y \in W : f[y] \in Int) /\ x \notin W /\ f[x] = 0
        BY FS_Subset
    <2>2. SumFunctionOnSet(f, W) = SumFunctionOnSet(f, E)
        BY <1>3
    <2>3. SumFunctionOnSet(f, E) \in Int
        BY <1>1, SumInt
    <2>4. E \cup (T \cup {x}) = W \cup {x}
        OBVIOUS
    <2> HIDE DEF W
    <2>5. SumFunctionOnSet(f, W \cup {x}) = f[x] + SumFunctionOnSet(f, W)
        BY <2>1, SumAdd
    <2>6. SumFunctionOnSet(f, E \cup (T \cup {x})) = SumFunctionOnSet(f, W \cup {x})
        BY <2>4
    <2>7. SumFunctionOnSet(f, E \cup (T \cup {x})) = SumFunctionOnSet(f, E)
        BY <2>1, <2>2, <2>3, <2>5, <2>6
    <2>8. T \cup {x} \in SUBSET D
        OBVIOUS
    <2> QED BY <2>7, <2>8
<1>4. S = E \cup D
    OBVIOUS
<1> HIDE DEF F, D
<1>5. \A T \in SUBSET D : T \in F
    BY <1>1, <1>2, <1>3, SetInduction
<1>6. D \in F
    BY <1>5
<1> QED BY <1>4, <1>6 DEF F

\* Zeros add up to zero.
LEMMA SumZero ==
    ASSUME NEW f, NEW S, IsFiniteSet(S), \A x \in S : f[x] = 0
    PROVE  SumFunctionOnSet(f, S) = 0
<1>1. SumFunctionOnSet(f, S) = SumFunctionOnSet(f, {})
    BY SumSupport
<1> QED BY <1>1, SumEmpty

\* Equal terms, numbered from 1.
LEMMA SumEqualTerms ==
    ASSUME NEW f, NEW c \in Int, NEW n \in Nat, \A k \in 1 .. n : f[k] = c
    PROVE  SumFunctionOnSet(f, 1 .. n) = n * c
<1> DEFINE A == {m \in Nat : m <= n => SumFunctionOnSet(f, 1 .. m) = m * c}
<1>1. 0 \in A
    <2>1. 1 .. 0 = {}
        OBVIOUS
    <2>2. SumFunctionOnSet(f, 1 .. 0) = 0
        BY <2>1, SumEmpty
    <2> QED BY <2>2
<1>2. ASSUME NEW m \in Nat, m \in A
      PROVE  m + 1 \in A
    <2> SUFFICES ASSUME m + 1 <= n
                 PROVE  SumFunctionOnSet(f, 1 .. m + 1) = (m + 1) * c
        OBVIOUS
    <2>1. SumFunctionOnSet(f, 1 .. m) = m * c
        BY <1>2
    <2>2. 1 .. m + 1 = (1 .. m) \cup {m + 1}
        OBVIOUS
    <2>3. IsFiniteSet(1 .. m)
        BY FS_Interval
    <2>4. (\A k \in 1 .. m : f[k] \in Int) /\ m + 1 \notin 1 .. m /\ f[m + 1] = c
        OBVIOUS
    <2>5. SumFunctionOnSet(f, (1 .. m) \cup {m + 1}) = f[m + 1] + SumFunctionOnSet(f, 1 .. m)
        BY <2>3, <2>4, SumAdd
    <2>6. c + m * c = (m + 1) * c
        OBVIOUS
    <2> QED BY <2>1, <2>2, <2>4, <2>5, <2>6
<1> HIDE DEF A
<1>3. \A m \in Nat : m \in A
    BY <1>1, <1>2, NumberInduction
<1> QED BY <1>3 DEF A

=============================================================================
