---------------------------- MODULE FiniteFacts ----------------------------
(***************************************************************************)
(* Facts about finite sets that several proofs need: the ends of a set of  *)
(* naturals, induction, and sums.  An induction hypothesis is a set here,  *)
(* of the numbers or of the subsets that have it.                          *)
(***************************************************************************)
EXTENDS Integers, FiniteSets, Functions, FiniteSetTheorems, TLAPS

\* A finite set of naturals that is not empty has a greatest element.
LEMMA Greatest ==
  ASSUME NEW T \in SUBSET Nat, IsFiniteSet(T), T # {}
  PROVE  \E m \in T : \A n \in T : n <= m
<1> DEFINE above(x) == {y \in T : x < y}
           U == {above(x) : x \in T}
<1>1. IsWellFoundedOn(StrictSubsetOrdering(T), SUBSET T)
  BY FS_StrictSubsetOrderingWellFounded, FS_FiniteSubsetsOfFinite
<1>2. U \subseteq SUBSET T /\ U # {}
  OBVIOUS
<1>3. PICK A \in U : \A B \in U : <<B, A>> \notin StrictSubsetOrdering(T)
  <2> HIDE DEF U
  <2>1. QED  BY <1>1, <1>2, WFMin
<1>4. PICK x \in T : A = above(x)
  OBVIOUS
<1>5. ASSUME NEW y \in T, x < y
      PROVE  FALSE
  <2>1. above(y) \in U /\ above(y) \subseteq above(x)
    <3>1. \A z \in T : y < z => x < z
      BY <1>5
    <3>2. QED  BY <3>1
  <2>2. y \in above(x) /\ y \notin above(y)
    BY <1>5
  <2>3. above(y) \in SUBSET T /\ above(x) \in SUBSET T /\ above(y) # above(x)
    BY <2>2
  <2> HIDE DEF above, U
  <2>4. <<above(y), above(x)>> \in StrictSubsetOrdering(T)
    BY <2>1, <2>3 DEF StrictSubsetOrdering
  <2>5. QED  BY <1>3, <1>4, <2>1, <2>4
<1>6. \A n \in T : n <= x
  BY <1>5
<1>7. QED  BY <1>6

\* A finite set of naturals that is not empty has a least element.
LEMMA Least ==
  ASSUME NEW T \in SUBSET Nat, IsFiniteSet(T), T # {}
  PROVE  \E m \in T : \A n \in T : m <= n
<1> DEFINE below(x) == {y \in T : y < x}
           U == {below(x) : x \in T}
<1>1. IsWellFoundedOn(StrictSubsetOrdering(T), SUBSET T)
  BY FS_StrictSubsetOrderingWellFounded, FS_FiniteSubsetsOfFinite
<1>2. U \subseteq SUBSET T /\ U # {}
  OBVIOUS
<1>3. PICK A \in U : \A B \in U : <<B, A>> \notin StrictSubsetOrdering(T)
  <2> HIDE DEF U
  <2>1. QED  BY <1>1, <1>2, WFMin
<1>4. PICK x \in T : A = below(x)
  OBVIOUS
<1>5. ASSUME NEW y \in T, y < x
      PROVE  FALSE
  <2>1. below(y) \in U /\ below(y) \subseteq below(x)
    <3>1. \A z \in T : z < y => z < x
      BY <1>5
    <3>2. QED  BY <3>1
  <2>2. y \in below(x) /\ y \notin below(y)
    BY <1>5
  <2>3. below(y) \in SUBSET T /\ below(x) \in SUBSET T /\ below(y) # below(x)
    BY <2>2
  <2> HIDE DEF below, U
  <2>4. <<below(y), below(x)>> \in StrictSubsetOrdering(T)
    BY <2>1, <2>3 DEF StrictSubsetOrdering
  <2>5. QED  BY <1>3, <1>4, <2>1, <2>4
<1>6. \A n \in T : x <= n
  BY <1>5
<1>7. QED  BY <1>6
-----------------------------------------------------------------------------
\* Induction over the naturals.
LEMMA AllNaturals ==
  ASSUME NEW N, 0 \in N, \A n \in Nat : n \in N => n + 1 \in N
  PROVE  \A n \in Nat : n \in N
<1> SUFFICES ASSUME NEW k \in Nat, k \notin N PROVE FALSE
  OBVIOUS
<1> DEFINE T == {m \in 0..k : m \notin N}
<1>1. T \in SUBSET Nat /\ T # {} /\ IsFiniteSet(T)
  <2>1. k \in T /\ T \subseteq 0..k
    OBVIOUS
  <2>2. IsFiniteSet(0..k)
    BY FS_Interval
  <2>3. QED  BY <2>1, <2>2, FS_Subset
<1>2. PICK m \in T : \A n \in T : m <= n
  <2> HIDE DEF T
  <2>1. QED  BY <1>1, Least
<1>3. m # 0 /\ m - 1 \in Nat /\ m - 1 \in 0..k /\ (m - 1) + 1 = m
  OBVIOUS
<1>4. m - 1 \in N
  BY <1>2, <1>3
<1>5. QED  BY <1>3, <1>4

\* Induction over the subsets of a finite set, smaller ones first.
LEMMA AllSubsets ==
  ASSUME NEW S, IsFiniteSet(S), NEW F,
         \A T \in SUBSET S : (\A U \in SUBSET T : U # T => U \in F) => T \in F
  PROVE  \A T \in SUBSET S : T \in F
<1> DEFINE N == {n \in Nat : \A T \in SUBSET S : Cardinality(T) < n => T \in F}
<1>1. \A T \in SUBSET S : IsFiniteSet(T) /\ Cardinality(T) \in Nat
  BY FS_Subset, FS_CardinalityType
<1>2. 0 \in N
  BY <1>1
<1>3. ASSUME NEW n \in Nat, n \in N PROVE n + 1 \in N
  <2> SUFFICES ASSUME NEW T \in SUBSET S, Cardinality(T) < n + 1 PROVE T \in F
    OBVIOUS
  <2>1. ASSUME NEW U \in SUBSET T, U # T PROVE U \in F
    <3>1. Cardinality(U) < Cardinality(T)
      BY <1>1, <2>1, FS_Subset
    <3>2. U \in SUBSET S /\ Cardinality(U) < n
      BY <1>1, <3>1
    <3>3. QED  BY <1>3, <3>2
  <2>2. QED  BY <2>1
<1> HIDE DEF N
<1>4. \A n \in Nat : n \in N
  BY <1>2, <1>3, AllNaturals
<1>5. ASSUME NEW T \in SUBSET S PROVE T \in F
  <2>1. Cardinality(T) + 1 \in N /\ Cardinality(T) < Cardinality(T) + 1
    BY <1>1, <1>4
  <2>2. QED  BY <2>1 DEF N
<1>6. QED  BY <1>5
-----------------------------------------------------------------------------
(* Sums.                                                                   *)

Some(s) == CHOOSE x \in s : TRUE

\* g has the sum of f over every subset of S.
Sums(f, S, g) ==
  g = [s \in SUBSET S |-> IF s = {} THEN 0 ELSE f[Some(s)] + g[s \ {Some(s)}]]

\* The recursion has a solution.
LEMMA SumsExist ==
  ASSUME NEW f, NEW S, IsFiniteSet(S)
  PROVE  \E g : Sums(f, S, g)
<1> DEFINE Small(n) == {s \in SUBSET S : Cardinality(s) <= n}
           Body(g, s) == IF s = {} THEN 0 ELSE f[Some(s)] + g[s \ {Some(s)}]
           N == {n \in Nat : \E g : \A s \in Small(n) : g[s] = Body(g, s)}
<1>1. \A s \in SUBSET S : IsFiniteSet(s) /\ Cardinality(s) \in Nat
  BY FS_Subset, FS_CardinalityType
<1>2. \A s \in SUBSET S : s # {} => Some(s) \in s /\ Cardinality(s \ {Some(s)}) = Cardinality(s) - 1
  BY <1>1, FS_RemoveElement DEF Some
<1>3. 0 \in N
  <2>1. \A s \in Small(0) : s = {}
    BY <1>1, FS_EmptySet
  <2>2. \A s \in Small(0) : [t \in {{}} |-> 0][s] = Body([t \in {{}} |-> 0], s)
    BY <2>1
  <2>3. QED  BY <2>2
<1>4. ASSUME NEW n \in Nat, n \in N PROVE n + 1 \in N
  <2>1. PICK g : \A s \in Small(n) : g[s] = Body(g, s)
    BY <1>4
  <2> DEFINE h == [s \in Small(n + 1) |-> Body(g, s)]
  <2>2. \A s \in Small(n) : s \in Small(n + 1) /\ h[s] = g[s]
    BY <1>1, <2>1
  <2>3. ASSUME NEW s \in Small(n + 1) PROVE h[s] = Body(h, s)
    <3>1. CASE s = {}
      BY <3>1
    <3>2. CASE s # {}
      <4>1. s \ {Some(s)} \in Small(n)
        BY <1>1, <1>2, <3>2
      <4>2. h[s \ {Some(s)}] = g[s \ {Some(s)}]
        BY <2>2, <4>1
      <4>3. h[s] = Body(g, s)
        OBVIOUS
      <4> HIDE DEF h
      <4>4. QED  BY <4>2, <4>3
    <3>3. QED  BY <3>1, <3>2
  <2> HIDE DEF h, Body
  <2>4. QED  BY <2>3
<1> HIDE DEF N
<1>5. Cardinality(S) \in N
  BY <1>1, <1>3, <1>4, AllNaturals
<1>6. PICK g : \A s \in Small(Cardinality(S)) : g[s] = Body(g, s)
  BY <1>5 DEF N
<1> DEFINE k == [s \in SUBSET S |-> g[s]]
<1>7. \A s \in SUBSET S : k[s] = Body(g, s)
  BY <1>1, <1>6, FS_Subset
<1>8. \A s \in SUBSET S : Body(g, s) = Body(k, s)
  BY <1>2
<1>9. k = [s \in SUBSET S |-> Body(k, s)]
  <2> HIDE DEF Body
  <2>1. \A s \in SUBSET S : k[s] = Body(k, s)
    BY <1>7, <1>8
  <2>2. k = [s \in SUBSET S |-> k[s]]
    OBVIOUS
  <2> HIDE DEF k
  <2>3. QED  BY <2>1, <2>2
<1>10. QED  BY <1>9 DEF Sums

\* The sum of the community module is that solution.
LEMMA SumIs ==
  ASSUME NEW f, NEW S, IsFiniteSet(S)
  PROVE  \E g : Sums(f, S, g) /\ SumFunctionOnSet(f, S) = g[S]
<1> DEFINE g == CHOOSE h : h = [s \in SUBSET S |->
                  IF s = {} THEN 0
                  ELSE LET x == CHOOSE y \in s : TRUE IN f[x] + h[s \ {x}]]
<1>1. Sums(f, S, g)
  <2>1. \E h : h = [s \in SUBSET S |->
                  IF s = {} THEN 0
                  ELSE LET x == CHOOSE y \in s : TRUE IN f[x] + h[s \ {x}]]
    <3>1. PICK h : Sums(f, S, h)
      BY SumsExist
    <3>2. QED  BY <3>1 DEF Sums, Some
  <2>2. QED  BY <2>1 DEF Sums, Some
<1>2. SumFunctionOnSet(f, S) = g[S]
  BY DEF SumFunctionOnSet, FoldFunctionOnSet, MapThenFoldSet
<1>3. QED  BY <1>1, <1>2

\* What is summed outside of a set does not matter to the sum over it.
LEMMA SumsAgree ==
  ASSUME NEW f, NEW g, NEW S, NEW T \in SUBSET S, NEW a, NEW b, IsFiniteSet(S),
         Sums(f, S, a), Sums(g, T, b), \A x \in T : f[x] = g[x]
  PROVE  \A s \in SUBSET T : a[s] = b[s]
<1> DEFINE F == {s \in SUBSET T : a[s] = b[s]}
<1>1. ASSUME NEW s \in SUBSET T, \A u \in SUBSET s : u # s => u \in F
      PROVE  s \in F
  <2>1. CASE s = {}
    BY <2>1 DEF Sums
  <2>2. CASE s # {}
    <3>1. Some(s) \in s
      BY <2>2 DEF Some
    <3>2. s \ {Some(s)} \in F
      BY <1>1, <3>1
    <3>3. a[s] = f[Some(s)] + a[s \ {Some(s)}] /\ b[s] = g[Some(s)] + b[s \ {Some(s)}]
      BY <2>2 DEF Sums
    <3>4. QED  BY <3>1, <3>2, <3>3
  <2>3. QED  BY <2>1, <2>2
<1>2. IsFiniteSet(T)
  BY FS_Subset
<1> HIDE DEF F
<1>3. \A s \in SUBSET T : s \in F
  BY <1>1, <1>2, AllSubsets
<1>4. QED  BY <1>3 DEF F

\* The sum of integers is one, and any of them may be the last to be added.
LEMMA SumsStep ==
  ASSUME NEW f, NEW S, NEW g, IsFiniteSet(S), Sums(f, S, g), \A x \in S : f[x] \in Int
  PROVE  \A s \in SUBSET S : g[s] \in Int /\ \A x \in s : g[s] = f[x] + g[s \ {x}]
<1> DEFINE P(s) == g[s] \in Int /\ \A x \in s : g[s] = f[x] + g[s \ {x}]
           F == {s \in SUBSET S : P(s)}
<1>1. ASSUME NEW s \in SUBSET S, \A u \in SUBSET s : u # s => u \in F
      PROVE  s \in F
  <2>1. CASE s = {}
    BY <2>1 DEF Sums
  <2>2. CASE s # {}
    <3> DEFINE y == Some(s)
    <3>1. y \in s /\ f[y] \in Int
      BY <2>2 DEF Some
    <3>2. g[s] = f[y] + g[s \ {y}]
      BY <2>2 DEF Sums
    <3>3. P(s \ {y})
      BY <1>1, <3>1
    <3>4. ASSUME NEW x \in s, x # y PROVE g[s] = f[x] + g[s \ {x}]
      <4>1. P(s \ {x}) /\ y \in s \ {x} /\ x \in s \ {y} /\ f[x] \in Int
        BY <1>1, <3>1, <3>4
      <4>2. (s \ {x}) \ {y} = (s \ {y}) \ {x}
        OBVIOUS
      <4>3. P((s \ {x}) \ {y})
        BY <1>1, <4>1
      <4>4. /\ g[s \ {y}] = f[x] + g[(s \ {y}) \ {x}]
            /\ g[s \ {x}] = f[y] + g[(s \ {x}) \ {y}]
            /\ g[(s \ {x}) \ {y}] \in Int
        BY <3>3, <4>1, <4>3
      <4> DEFINE rest == g[(s \ {x}) \ {y}]
      <4>5. g[s] = f[y] + (f[x] + rest) /\ g[s \ {x}] = f[y] + rest
        BY <3>2, <4>2, <4>4
      <4>6. f[y] \in Int /\ f[x] \in Int /\ rest \in Int
        BY <3>1, <4>1, <4>4
      <4> HIDE DEF y, rest, P
      <4>7. QED  BY <4>5, <4>6
    <3>5. g[s] \in Int
      BY <3>1, <3>2, <3>3
    <3>6. P(s)
      <4> HIDE DEF y
      <4>1. QED  BY <3>2, <3>4, <3>5
    <3>7. QED  BY <3>6
  <2>3. QED  BY <2>1, <2>2
<1> HIDE DEF F
<1>2. \A s \in SUBSET S : s \in F
  BY <1>1, AllSubsets
<1>3. QED  BY <1>2 DEF F

\* The sum over a set without one of its elements.
LEMMA SumRemove ==
  ASSUME NEW f, NEW S, IsFiniteSet(S), \A x \in S : f[x] \in Int, NEW x \in S
  PROVE  /\ SumFunctionOnSet(f, S \ {x}) \in Int
         /\ SumFunctionOnSet(f, S) = f[x] + SumFunctionOnSet(f, S \ {x})
<1>1. PICK g : Sums(f, S, g) /\ SumFunctionOnSet(f, S) = g[S]
  BY SumIs
<1>2. IsFiniteSet(S \ {x})
  BY FS_Subset
<1>3. PICK h : Sums(f, S \ {x}, h) /\ SumFunctionOnSet(f, S \ {x}) = h[S \ {x}]
  BY <1>2, SumIs
<1>4. g[S \ {x}] = h[S \ {x}]
  BY <1>1, <1>3, SumsAgree
<1>5. g[S \ {x}] \in Int /\ g[S] = f[x] + g[S \ {x}]
  BY <1>1, SumsStep
<1>6. QED  BY <1>1, <1>3, <1>4, <1>5

\* The sum over the empty set.
LEMMA SumEmpty ==
  ASSUME NEW f
  PROVE  SumFunctionOnSet(f, {}) = 0
<1>1. PICK g : Sums(f, {}, g) /\ SumFunctionOnSet(f, {}) = g[{}]
  BY SumIs, FS_EmptySet
<1>2. QED  BY <1>1 DEF Sums

\* The sum of integers is an integer.
LEMMA SumType ==
  ASSUME NEW f, NEW S, IsFiniteSet(S), \A x \in S : f[x] \in Int
  PROVE  SumFunctionOnSet(f, S) \in Int
<1>1. PICK g : Sums(f, S, g) /\ SumFunctionOnSet(f, S) = g[S]
  BY SumIs
<1>2. QED  BY <1>1, SumsStep

\* The sum depends on what is summed alone.
LEMMA SumSame ==
  ASSUME NEW f, NEW g, NEW S, IsFiniteSet(S), \A x \in S : f[x] = g[x]
  PROVE  SumFunctionOnSet(f, S) = SumFunctionOnSet(g, S)
<1>1. PICK a : Sums(f, S, a) /\ SumFunctionOnSet(f, S) = a[S]
  BY SumIs
<1>2. PICK b : Sums(g, S, b) /\ SumFunctionOnSet(g, S) = b[S]
  BY SumIs
<1>3. a[S] = b[S]
  BY <1>1, <1>2, SumsAgree
<1>4. QED  BY <1>1, <1>2, <1>3

\* When one of the summands changes, the sum changes by as much.
LEMMA SumChange ==
  ASSUME NEW f, NEW g, NEW S, IsFiniteSet(S), NEW x \in S,
         \A y \in S : f[y] \in Int /\ g[y] \in Int, \A y \in S \ {x} : f[y] = g[y]
  PROVE  SumFunctionOnSet(g, S) - SumFunctionOnSet(f, S) = g[x] - f[x]
<1>1. IsFiniteSet(S \ {x})
  BY FS_Subset
<1>2. SumFunctionOnSet(f, S \ {x}) = SumFunctionOnSet(g, S \ {x})
  BY <1>1, SumSame
<1>3. /\ SumFunctionOnSet(f, S \ {x}) \in Int
      /\ SumFunctionOnSet(f, S) = f[x] + SumFunctionOnSet(f, S \ {x})
  <2>1. \A y \in S : f[y] \in Int
    OBVIOUS
  <2>2. QED  BY <2>1, SumRemove
<1>6. SumFunctionOnSet(g, S) = g[x] + SumFunctionOnSet(g, S \ {x})
  <2>1. \A y \in S : g[y] \in Int
    OBVIOUS
  <2>2. QED  BY <2>1, SumRemove
<1>4. f[x] \in Int /\ g[x] \in Int
  OBVIOUS
<1>5. QED  BY <1>2, <1>3, <1>4, <1>6
=============================================================================
