-------------------------- MODULE HistoryProofs --------------------------
(***************************************************************************)
(* The engines that read a history of trades in timestamp order.           *)
(***************************************************************************)
EXTENDS PropCompliance, SortedLists, Functions, FiniteSetTheorems, SequenceTheorems,
        NaturalsInduction, WellFoundedInduction, TLAPS

-----------------------------------------------------------------------------
(* What SumFunctionOnSet(fun, S) computes for every finite set S: the      *)
(* library defines it by recursion over an unspecified order of elements.  *)
(* Induction is over sets of naturals and so needs no operator parameter.  *)

Pick(s)         == CHOOSE x \in s : TRUE
Step(fun, g, s) == IF s = {} THEN 0 ELSE fun[Pick(s)] + g[s \ {Pick(s)}]
Iter(fun, S)    == CHOOSE g : g = [s \in SUBSET S |-> Step(fun, g, s)]

\* A set of naturals that is not empty has a least member.
LEMMA LeastOfNats ==
  ASSUME NEW P \in SUBSET Nat, P # {}
  PROVE  \E m \in P : \A n \in P : m <= n
PROOF
  <1> DEFINE Less == {p \in Nat \X Nat : p[1] < p[2]}
  <1>1. IsWellFoundedOn(Less, Nat)
    BY NatLessThanWellFounded DEF OpToRel
  <1>2. PICK m \in P : \A n \in P : <<n, m>> \notin Less
    <2> HIDE DEF Less
    <2> QED
      BY <1>1, WFMin
  <1>3. ASSUME NEW n \in P
        PROVE  m <= n
    <2>1. n \in Nat /\ m \in Nat /\ ~(n < m)
      BY <1>2
    <2> QED
      BY <2>1
  <1> QED
    BY <1>3

\* A set of naturals that has 0 and every successor of its members has them all.
LEMMA NatsByInduction ==
  ASSUME NEW P, 0 \in P, \A n \in Nat : n \in P => n + 1 \in P
  PROVE  \A n \in Nat : n \in P
PROOF
  <1> SUFFICES ASSUME Nat \ P # {} PROVE FALSE
    OBVIOUS
  <1>1. PICK m \in Nat \ P : \A n \in Nat \ P : m <= n
    BY LeastOfNats
  <1>2. m # 0 /\ m - 1 \in Nat /\ ~(m <= m - 1)
    BY <1>1
  <1> QED
    BY <1>1, <1>2

\* Taking out the element picked leaves a smaller set.
LEMMA Picked ==
  ASSUME NEW s, IsFiniteSet(s), s # {}
  PROVE  /\ Pick(s) \in s /\ IsFiniteSet(s \ {Pick(s)})
         /\ Cardinality(s) \in Nat /\ Cardinality(s \ {Pick(s)}) = Cardinality(s) - 1
PROOF
  <1>1. Pick(s) \in s
    BY DEF Pick
  <1> QED
    BY <1>1, FS_RemoveElement, FS_CardinalityType

\* The recursion has a solution.
LEMMA IterExists ==
  ASSUME NEW fun, NEW S, IsFiniteSet(S)
  PROVE  \E g : g = [s \in SUBSET S |-> Step(fun, g, s)]
PROOF
  <1> DEFINE UpTo(n)   == {s \in SUBSET S : Cardinality(s) <= n}
             Solved(n) == \E g : g = [s \in UpTo(n) |-> Step(fun, g, s)]
             P == {n \in Nat : Solved(n)}
  <1>1. \A s \in SUBSET S : IsFiniteSet(s) /\ Cardinality(s) \in Nat
    BY FS_Subset, FS_CardinalityType
  <1>2. 0 \in P
    <2>1. \A s \in UpTo(0) : s = {}
      BY <1>1, FS_EmptySet
    <2>2. \A g : \A s \in UpTo(0) : Step(fun, g, s) = 0
      BY <2>1 DEF Step
    <2>3. [s \in UpTo(0) |-> 0] = [s \in UpTo(0) |-> Step(fun, [r \in UpTo(0) |-> 0], s)]
      BY <2>2
    <2>4. Solved(0)
      BY <2>3
    <2> HIDE DEF Solved
    <2> QED
      BY <2>4
  <1>3. ASSUME NEW n \in Nat, n \in P
        PROVE  n + 1 \in P
    <2>1. PICK g : g = [s \in UpTo(n) |-> Step(fun, g, s)]
      BY <1>3
    <2> DEFINE h == [s \in UpTo(n + 1) |-> Step(fun, g, s)]
    <2>2. ASSUME NEW s \in UpTo(n + 1)
          PROVE  Step(fun, g, s) = Step(fun, h, s)
      <3>1. CASE s = {}
        BY <3>1 DEF Step
      <3>2. CASE s # {}
        <4>1. s \ {Pick(s)} \in UpTo(n) /\ s \ {Pick(s)} \in UpTo(n + 1)
          BY <3>2, <1>1, Picked
        <4>2. g[s \ {Pick(s)}] = h[s \ {Pick(s)}]
          BY <2>1, <4>1
        <4> QED
          BY <4>2 DEF Step
      <3> QED
        BY <3>1, <3>2
    <2>3. h = [s \in UpTo(n + 1) |-> Step(fun, h, s)]
      BY <2>2
    <2> HIDE DEF h
    <2>4. Solved(n + 1)
      BY <2>3
    <2> HIDE DEF Solved
    <2> QED
      BY <2>4
  <1>4. Cardinality(S) \in P
    <2> HIDE DEF P
    <2> QED
      BY <1>2, <1>3, FS_CardinalityType, NatsByInduction
  <1>5. UpTo(Cardinality(S)) = SUBSET S
    BY <1>1, FS_Subset
  <1> QED
    BY <1>4, <1>5

\* So the iteration satisfies its equation.
LEMMA IterStep ==
  ASSUME NEW fun, NEW S, IsFiniteSet(S), NEW s \in SUBSET S
  PROVE  Iter(fun, S)[s] = Step(fun, Iter(fun, S), s)
PROOF
  <1>1. Iter(fun, S) = [r \in SUBSET S |-> Step(fun, Iter(fun, S), r)]
    BY IterExists DEF Iter
  <1> QED
    BY <1>1

\* The library's sum is the iteration at the whole set.
LEMMA SumIsIter == ASSUME NEW fun, NEW S PROVE SumFunctionOnSet(fun, S) = Iter(fun, S)[S]
PROOF BY DEF SumFunctionOnSet, FoldFunctionOnSet, MapThenFoldSet, Iter, Step, Pick

\* The value at a set does not depend on the set the recursion is over.
LEMMA IterAgrees ==
  ASSUME NEW fun, NEW S, IsFiniteSet(S), NEW T \in SUBSET S
  PROVE  Iter(fun, S)[T] = Iter(fun, T)[T]
PROOF
  <1> DEFINE P == {n \in Nat : \A s \in SUBSET T :
                      Cardinality(s) <= n => Iter(fun, S)[s] = Iter(fun, T)[s]}
  <1>1. IsFiniteSet(T) /\ \A s \in SUBSET T :
           s \in SUBSET S /\ IsFiniteSet(s) /\ Cardinality(s) \in Nat
    BY FS_Subset, FS_CardinalityType
  <1>2. 0 \in P
    <2> SUFFICES ASSUME NEW s \in SUBSET T, Cardinality(s) <= 0
                 PROVE  Iter(fun, S)[s] = Iter(fun, T)[s]
      OBVIOUS
    <2>1. s = {}
      BY <1>1, FS_EmptySet
    <2> QED
      BY <2>1, <1>1, IterStep DEF Step
  <1>3. ASSUME NEW n \in Nat, n \in P
        PROVE  n + 1 \in P
    <2> SUFFICES ASSUME NEW s \in SUBSET T, Cardinality(s) <= n + 1
                 PROVE  Iter(fun, S)[s] = Iter(fun, T)[s]
      OBVIOUS
    <2>1. CASE s = {}
      BY <2>1, <1>1, IterStep DEF Step
    <2>2. CASE s # {}
      <3>1. Iter(fun, S)[s \ {Pick(s)}] = Iter(fun, T)[s \ {Pick(s)}]
        BY <2>2, <1>1, <1>3, Picked
      <3>2. Step(fun, Iter(fun, S), s) = Step(fun, Iter(fun, T), s)
        BY <3>1 DEF Step
      <3> QED
        BY <3>2, <1>1, IterStep
    <2> QED
      BY <2>1, <2>2
  <1>4. Cardinality(T) \in P
    <2> HIDE DEF P
    <2> QED
      BY <1>1, <1>2, <1>3, FS_CardinalityType, NatsByInduction
  <1> QED
    BY <1>4, <1>1

\* A sum is the value of the element picked and the sum of the others.
LEMMA SumPicked ==
  ASSUME NEW fun, NEW S, IsFiniteSet(S), S # {}
  PROVE  SumFunctionOnSet(fun, S) = fun[Pick(S)] + SumFunctionOnSet(fun, S \ {Pick(S)})
PROOF
  <1>1. Iter(fun, S)[S] = fun[Pick(S)] + Iter(fun, S)[S \ {Pick(S)}]
    BY IterStep DEF Step
  <1>2. Iter(fun, S)[S \ {Pick(S)}] = Iter(fun, S \ {Pick(S)})[S \ {Pick(S)}]
    BY IterAgrees, S \ {Pick(S)} \in SUBSET S
  <1> QED
    BY <1>1, <1>2, SumIsIter

\* Nothing sums up to zero.
THEOREM SumOfNone == ASSUME NEW fun PROVE SumFunctionOnSet(fun, {}) = 0
PROOF BY IterStep, SumIsIter, FS_EmptySet DEF Step

\* A sum of integers is an integer, and of naturals a natural.
THEOREM SumType ==
  ASSUME NEW fun, NEW V, V = Int \/ V = Nat, NEW S, IsFiniteSet(S), \A x \in S : fun[x] \in V
  PROVE  SumFunctionOnSet(fun, S) \in V
PROOF
  <1> DEFINE P == {n \in Nat : \A s \in SUBSET S :
                      Cardinality(s) <= n => SumFunctionOnSet(fun, s) \in V}
  <1>1. \A s \in SUBSET S : IsFiniteSet(s) /\ Cardinality(s) \in Nat
    BY FS_Subset, FS_CardinalityType
  <1>2. 0 \in P
    <2> SUFFICES ASSUME NEW s \in SUBSET S, Cardinality(s) <= 0
                 PROVE  SumFunctionOnSet(fun, s) \in V
      OBVIOUS
    <2>1. s = {}
      BY <1>1, FS_EmptySet
    <2> QED
      BY <2>1, SumOfNone
  <1>3. ASSUME NEW n \in Nat, n \in P
        PROVE  n + 1 \in P
    <2> SUFFICES ASSUME NEW s \in SUBSET S, Cardinality(s) <= n + 1
                 PROVE  SumFunctionOnSet(fun, s) \in V
      OBVIOUS
    <2>1. CASE s = {}
      BY <2>1, SumOfNone
    <2>2. CASE s # {}
      <3>1. SumFunctionOnSet(fun, s \ {Pick(s)}) \in V /\ fun[Pick(s)] \in V
        BY <2>2, <1>1, <1>3, Picked
      <3> QED
        BY <3>1, <2>2, <1>1, SumPicked
    <2> QED
      BY <2>1, <2>2
  <1>4. Cardinality(S) \in P
    <2> HIDE DEF P
    <2> QED
      BY <1>2, <1>3, FS_CardinalityType, NatsByInduction
  <1> QED
    BY <1>4, <1>1

\* Any element may be taken out first.
THEOREM SumWithout ==
  ASSUME NEW fun, NEW S, IsFiniteSet(S), \A y \in S : fun[y] \in Int, NEW x \in S
  PROVE  SumFunctionOnSet(fun, S) = SumFunctionOnSet(fun, S \ {x}) + fun[x]
PROOF
  <1> DEFINE Sum(s) == SumFunctionOnSet(fun, s)
             P == {n \in Nat : \A s \in SUBSET S : Cardinality(s) <= n =>
                      \A y \in s : Sum(s) = Sum(s \ {y}) + fun[y]}
  <1>1. \A s \in SUBSET S : IsFiniteSet(s) /\ Cardinality(s) \in Nat /\ Sum(s) \in Int
    BY FS_Subset, FS_CardinalityType, SumType
  <1>2. 0 \in P
    BY <1>1, FS_EmptySet
  <1>3. ASSUME NEW n \in Nat, n \in P
        PROVE  n + 1 \in P
    <2> SUFFICES ASSUME NEW s \in SUBSET S, Cardinality(s) <= n + 1, NEW y \in s
                 PROVE  Sum(s) = Sum(s \ {y}) + fun[y]
      OBVIOUS
    <2> DEFINE p == Pick(s)
    <2>1. p \in s /\ IsFiniteSet(s \ {p}) /\ Sum(s) = fun[p] + Sum(s \ {p})
      BY <1>1, Picked, SumPicked
    <2>2. CASE y = p
      BY <2>1, <2>2, <1>1
    <2>3. CASE y # p
      <3>1. Cardinality(s \ {p}) <= n /\ Cardinality(s \ {y}) <= n
        BY <2>1, <1>1, FS_RemoveElement
      <3>2. Sum(s \ {p}) = Sum((s \ {p}) \ {y}) + fun[y]
        BY <1>3, <3>1, <2>1, <2>3
      <3>3. Sum(s \ {y}) = Sum((s \ {y}) \ {p}) + fun[p]
        BY <1>3, <3>1, <2>1, <2>3
      <3>4. (s \ {p}) \ {y} = (s \ {y}) \ {p}
        OBVIOUS
      <3>5. Sum((s \ {p}) \ {y}) \in Int /\ fun[p] \in Int /\ fun[y] \in Int
        BY <1>1, <2>1
      <3> HIDE DEF Sum, p, P
      <3>6. Sum(s \ {y}) = Sum((s \ {p}) \ {y}) + fun[p]
        BY <3>3, <3>4
      <3> QED
        BY <2>1, <3>2, <3>5, <3>6
    <2> QED
      BY <2>2, <2>3
  <1>4. Cardinality(S) \in P
    <2> HIDE DEF P
    <2> QED
      BY <1>2, <1>3, FS_CardinalityType, NatsByInduction
  <1> QED
    BY <1>4, <1>1

\* A new element adds its value.
THEOREM SumWith ==
  ASSUME NEW fun, NEW S, IsFiniteSet(S), NEW x, x \notin S,
         \A y \in S \cup {x} : fun[y] \in Int
  PROVE  SumFunctionOnSet(fun, S \cup {x}) = SumFunctionOnSet(fun, S) + fun[x]
PROOF
  <1>1. IsFiniteSet(S \cup {x}) /\ (S \cup {x}) \ {x} = S
    BY FS_AddElement
  <1> QED
    BY <1>1, SumWithout

\* The sum depends on the values of the elements only.
THEOREM SumSame ==
  ASSUME NEW fun, NEW gun, NEW S, IsFiniteSet(S), \A x \in S : fun[x] = gun[x]
  PROVE  SumFunctionOnSet(fun, S) = SumFunctionOnSet(gun, S)
PROOF
  <1> DEFINE P == {n \in Nat : \A s \in SUBSET S : Cardinality(s) <= n =>
                      SumFunctionOnSet(fun, s) = SumFunctionOnSet(gun, s)}
  <1>1. \A s \in SUBSET S : IsFiniteSet(s) /\ Cardinality(s) \in Nat
    BY FS_Subset, FS_CardinalityType
  <1>2. 0 \in P
    <2> SUFFICES ASSUME NEW s \in SUBSET S, Cardinality(s) <= 0
                 PROVE  SumFunctionOnSet(fun, s) = SumFunctionOnSet(gun, s)
      OBVIOUS
    <2>1. s = {}
      BY <1>1, FS_EmptySet
    <2> QED
      BY <2>1, SumOfNone
  <1>3. ASSUME NEW n \in Nat, n \in P
        PROVE  n + 1 \in P
    <2> SUFFICES ASSUME NEW s \in SUBSET S, Cardinality(s) <= n + 1
                 PROVE  SumFunctionOnSet(fun, s) = SumFunctionOnSet(gun, s)
      OBVIOUS
    <2>1. CASE s = {}
      BY <2>1, SumOfNone
    <2>2. CASE s # {}
      <3>1. /\ SumFunctionOnSet(fun, s \ {Pick(s)}) = SumFunctionOnSet(gun, s \ {Pick(s)})
            /\ fun[Pick(s)] = gun[Pick(s)]
        BY <2>2, <1>1, <1>3, Picked
      <3> QED
        BY <3>1, <2>2, <1>1, SumPicked
    <2> QED
      BY <2>1, <2>2
  <1>4. Cardinality(S) \in P
    <2> HIDE DEF P
    <2> QED
      BY <1>2, <1>3, FS_CardinalityType, NatsByInduction
  <1> QED
    BY <1>4, <1>1

\* The sum over two sets without a common element is the sum of their sums.
THEOREM SumUnion ==
  ASSUME NEW fun, NEW S, NEW T, IsFiniteSet(S), IsFiniteSet(T), S \cap T = {},
         \A x \in S \cup T : fun[x] \in Int
  PROVE  SumFunctionOnSet(fun, S \cup T) = SumFunctionOnSet(fun, S) + SumFunctionOnSet(fun, T)
PROOF
  <1> DEFINE Sum(s) == SumFunctionOnSet(fun, s)
             P == {n \in Nat : \A s \in SUBSET T :
                      Cardinality(s) <= n => Sum(S \cup s) = Sum(S) + Sum(s)}
  <1>1. \A s \in SUBSET T : IsFiniteSet(s) /\ Cardinality(s) \in Nat /\ Sum(s) \in Int
    BY FS_Subset, FS_CardinalityType, SumType
  <1>2. Sum(S) \in Int
    BY SumType
  <1>3. 0 \in P
    <2> SUFFICES ASSUME NEW s \in SUBSET T, Cardinality(s) <= 0
                 PROVE  Sum(S \cup s) = Sum(S) + Sum(s)
      OBVIOUS
    <2>1. s = {} /\ S \cup s = S
      BY <1>1, FS_EmptySet
    <2> QED
      BY <2>1, <1>2, SumOfNone
  <1>4. ASSUME NEW n \in Nat, n \in P
        PROVE  n + 1 \in P
    <2> SUFFICES ASSUME NEW s \in SUBSET T, Cardinality(s) <= n + 1
                 PROVE  Sum(S \cup s) = Sum(S) + Sum(s)
      OBVIOUS
    <2>1. CASE s = {}
      BY <2>1, <1>2, SumOfNone, S \cup s = S
    <2>2. CASE s # {}
      <3>1. PICK x \in s : TRUE
        BY <2>2
      <3> DEFINE r == s \ {x}
      <3>2. r \in SUBSET T /\ Cardinality(r) <= n
        BY <1>1, FS_RemoveElement
      <3>3. Sum(S \cup r) = Sum(S) + Sum(r)
        BY <3>2, <1>4
      <3>4. IsFiniteSet(S \cup s) /\ x \in S \cup s /\ (S \cup s) \ {x} = S \cup r
        BY <1>1, FS_Union
      <3>5. Sum(S \cup s) = Sum(S \cup r) + fun[x]
        BY <3>4, SumWithout
      <3>6. Sum(s) = Sum(r) + fun[x]
        BY <1>1, SumWithout
      <3>7. Sum(r) \in Int /\ fun[x] \in Int
        BY <3>2, <1>1
      <3> HIDE DEF Sum, r
      <3> QED
        BY <3>3, <3>5, <3>6, <3>7, <1>2
    <2> QED
      BY <2>1, <2>2
  <1>5. Cardinality(T) \in P
    <2> HIDE DEF P
    <2> QED
      BY <1>3, <1>4, FS_CardinalityType, NatsByInduction
  <1> QED
    BY <1>5, <1>1

\* Of naturals, a larger set has the larger sum.
THEOREM SumOfMore ==
  ASSUME NEW fun, NEW T, IsFiniteSet(T), NEW S \in SUBSET T, \A x \in T : fun[x] \in Nat
  PROVE  SumFunctionOnSet(fun, S) <= SumFunctionOnSet(fun, T)
PROOF
  <1>1. IsFiniteSet(S) /\ IsFiniteSet(T \ S) /\ S \cup (T \ S) = T
    BY FS_Subset
  <1>2. SumFunctionOnSet(fun, S) \in Nat /\ SumFunctionOnSet(fun, T \ S) \in Nat
    BY <1>1, SumType
  <1>3. SumFunctionOnSet(fun, T) = SumFunctionOnSet(fun, S) + SumFunctionOnSet(fun, T \ S)
    BY <1>1, SumUnion
  <1> QED
    BY <1>2, <1>3

\* Parts of S that share nothing, and what they hold together.
Separate(A, part, S) ==
    /\ IsFiniteSet(A) /\ IsFiniteSet(S) /\ \A a \in A : part[a] \in SUBSET S
    /\ \A a, b \in A : a # b => part[a] \cap part[b] = {}
Together(A, part) == UNION {part[a] : a \in A}

\* Sums over disjoint parts add up to the sum over all of them.
LEMMA PartsAddUp ==
  ASSUME NEW A, NEW part, NEW S, Separate(A, part, S), NEW fun, \A x \in S : fun[x] \in Int,
         NEW gun, \A a \in A : gun[a] = SumFunctionOnSet(fun, part[a])
  PROVE  SumFunctionOnSet(gun, A) = SumFunctionOnSet(fun, Together(A, part))
PROOF
  <1> USE DEF Separate
  <1> DEFINE Union(B) == UNION {part[a] : a \in B}
             Adds(B)  == SumFunctionOnSet(gun, B) = SumFunctionOnSet(fun, Union(B))
             P == {n \in Nat : \A B \in SUBSET A : Cardinality(B) = n => Adds(B)}
  <1>1. \A B \in SUBSET A : IsFiniteSet(B) /\ Cardinality(B) \in Nat
    BY FS_Subset, FS_CardinalityType
  <1>2. \A B \in SUBSET S : IsFiniteSet(B) /\ SumFunctionOnSet(fun, B) \in Int
    <2> SUFFICES ASSUME NEW B \in SUBSET S PROVE IsFiniteSet(B) /\ SumFunctionOnSet(fun, B) \in Int
      OBVIOUS
    <2>1. IsFiniteSet(B)
      BY FS_Subset
    <2> QED
      BY <2>1, SumType
  <1>3. \A a \in A : gun[a] \in Int
    BY <1>2
  <1>4. 0 \in P
    <2> SUFFICES ASSUME NEW B \in SUBSET A, Cardinality(B) = 0 PROVE Adds(B)
      OBVIOUS
    <2>1. B = {} /\ Union(B) = {}
      BY <1>1, FS_EmptySet
    <2> QED
      BY <2>1, SumOfNone
  <1>5. ASSUME NEW n \in Nat, n \in P
        PROVE  n + 1 \in P
    <2> SUFFICES ASSUME NEW B \in SUBSET A, Cardinality(B) = n + 1 PROVE Adds(B)
      OBVIOUS
    <2>1. PICK b \in B : TRUE
      BY <1>1, FS_EmptySet
    <2> DEFINE C == B \ {b}
    <2>2. C \in SUBSET A /\ Cardinality(C) = n
      <3>1. IsFiniteSet(B) /\ b \in B /\ n + 1 - 1 = n
        BY <1>1, <2>1
      <3>2. Cardinality(C) = Cardinality(B) - 1
        BY <3>1, FS_RemoveElement
      <3> QED
        BY <3>1, <3>2
    <2>3. Adds(C)
      BY <1>5, <2>2
    <2>4. SumFunctionOnSet(gun, B) = SumFunctionOnSet(gun, C) + gun[b]
      BY <1>1, <1>3, <2>1, SumWithout
    <2> DEFINE U == Union(C)
               V == part[b]
    <2>5. Union(B) = U \cup V /\ U \cap V = {} /\ U \in SUBSET S /\ V \in SUBSET S
      <3>1. Union(B) = U \cup V
        BY <2>1
      <3>2. U \cap V = {}
        BY <2>1, <2>2
      <3>3. U \in SUBSET S /\ V \in SUBSET S
        BY <2>1, <2>2
      <3> QED
        BY <3>1, <3>2, <3>3
    <2>6. SumFunctionOnSet(gun, C) = SumFunctionOnSet(fun, U) /\ gun[b] = SumFunctionOnSet(fun, V)
      BY <2>1, <2>3
    <2>7. SumFunctionOnSet(fun, U \cup V) = SumFunctionOnSet(fun, U) + SumFunctionOnSet(fun, V)
      <3> HIDE DEF U, V
      <3>1. IsFiniteSet(U) /\ IsFiniteSet(V)
        BY <1>2, <2>5
      <3>2. \A x \in U \cup V : fun[x] \in Int
        BY <2>5
      <3> QED
        BY <2>5, <3>1, <3>2, SumUnion
    <2> HIDE DEF U, V
    <2> QED
      BY <2>4, <2>5, <2>6, <2>7
  <1> HIDE DEF P
  <1>6. \A n \in Nat : n \in P
    BY <1>4, <1>5, NatsByInduction
  <1>7. Adds(A)
    BY <1>1, <1>6 DEF P
  <1> QED
    BY <1>7 DEF Together

\* What does not rise above zero adds up to no more than zero.
LEMMA SumBelow ==
  ASSUME NEW S, IsFiniteSet(S), NEW fun, \A x \in S : fun[x] \in Int /\ fun[x] <= 0
  PROVE  SumFunctionOnSet(fun, S) <= 0
PROOF
  <1> DEFINE P == {n \in Nat : \A B \in SUBSET S : Cardinality(B) = n => SumFunctionOnSet(fun, B) <= 0}
  <1>1. \A B \in SUBSET S : /\ IsFiniteSet(B) /\ Cardinality(B) \in Nat
                             /\ SumFunctionOnSet(fun, B) \in Int
    <2> SUFFICES ASSUME NEW B \in SUBSET S
                 PROVE  /\ IsFiniteSet(B) /\ Cardinality(B) \in Nat
                        /\ SumFunctionOnSet(fun, B) \in Int
      OBVIOUS
    <2>1. IsFiniteSet(B) /\ Cardinality(B) \in Nat
      BY FS_Subset, FS_CardinalityType
    <2> QED
      BY <2>1, SumType
  <1>2. 0 \in P
    <2> SUFFICES ASSUME NEW B \in SUBSET S, Cardinality(B) = 0 PROVE SumFunctionOnSet(fun, B) <= 0
      OBVIOUS
    <2>1. B = {}
      BY <1>1, FS_EmptySet
    <2> QED
      BY <2>1, SumOfNone
  <1>3. ASSUME NEW n \in Nat, n \in P
        PROVE  n + 1 \in P
    <2> SUFFICES ASSUME NEW B \in SUBSET S, Cardinality(B) = n + 1
                 PROVE  SumFunctionOnSet(fun, B) <= 0
      OBVIOUS
    <2>1. PICK b \in B : TRUE
      BY <1>1, FS_EmptySet
    <2> DEFINE C == B \ {b}
    <2>2. C \in SUBSET S /\ Cardinality(C) = n
      <3>1. IsFiniteSet(B) /\ b \in B /\ n + 1 - 1 = n
        BY <1>1, <2>1
      <3>2. Cardinality(C) = Cardinality(B) - 1
        BY <3>1, FS_RemoveElement
      <3> QED
        BY <3>1, <3>2
    <2>3. SumFunctionOnSet(fun, B) = SumFunctionOnSet(fun, C) + fun[b]
      BY <1>1, <2>1, SumWithout
    <2>4. SumFunctionOnSet(fun, C) \in Int /\ SumFunctionOnSet(fun, C) <= 0
      BY <1>1, <1>3, <2>2
    <2> QED
      BY <2>1, <2>3, <2>4
  <1> HIDE DEF P
  <1>4. \A n \in Nat : n \in P
    BY <1>2, <1>3, NatsByInduction
  <1> QED
    BY <1>1, <1>4 DEF P

\* Counting is adding ones.
LEMMA CountIsSum ==
  ASSUME NEW S, IsFiniteSet(S), NEW one, \A x \in S : one[x] = 1
  PROVE  SumFunctionOnSet(one, S) = Cardinality(S)
PROOF
  <1> DEFINE P == {n \in Nat : \A B \in SUBSET S : Cardinality(B) = n => SumFunctionOnSet(one, B) = n}
  <1>1. \A B \in SUBSET S : IsFiniteSet(B) /\ Cardinality(B) \in Nat
    BY FS_Subset, FS_CardinalityType
  <1>2. 0 \in P
    <2> SUFFICES ASSUME NEW B \in SUBSET S, Cardinality(B) = 0 PROVE SumFunctionOnSet(one, B) = 0
      OBVIOUS
    <2>1. B = {}
      BY <1>1, FS_EmptySet
    <2> QED
      BY <2>1, SumOfNone
  <1>3. ASSUME NEW n \in Nat, n \in P
        PROVE  n + 1 \in P
    <2> SUFFICES ASSUME NEW B \in SUBSET S, Cardinality(B) = n + 1
                 PROVE  SumFunctionOnSet(one, B) = n + 1
      OBVIOUS
    <2>1. PICK b \in B : TRUE
      BY <1>1, FS_EmptySet
    <2> DEFINE C == B \ {b}
    <2>2. C \in SUBSET S /\ Cardinality(C) = n
      <3>1. IsFiniteSet(B) /\ b \in B /\ n + 1 - 1 = n
        BY <1>1, <2>1
      <3>2. Cardinality(C) = Cardinality(B) - 1
        BY <3>1, FS_RemoveElement
      <3> QED
        BY <3>1, <3>2
    <2>3. \A y \in B : one[y] \in Int
      OBVIOUS
    <2>4. SumFunctionOnSet(one, B) = SumFunctionOnSet(one, C) + one[b]
      BY <1>1, <2>1, <2>3, SumWithout
    <2>5. SumFunctionOnSet(one, C) = n
      BY <1>3, <2>2
    <2> QED
      BY <2>1, <2>4, <2>5
  <1> HIDE DEF P
  <1>4. \A n \in Nat : n \in P
    BY <1>2, <1>3, NatsByInduction
  <1> QED
    BY <1>1, <1>4 DEF P

\* The sum of equal terms.
LEMMA SumOfEqual ==
  ASSUME NEW S, IsFiniteSet(S), NEW c \in Int, NEW fun, \A x \in S : fun[x] = c
  PROVE  SumFunctionOnSet(fun, S) = c * Cardinality(S)
PROOF
  <1> DEFINE P == {n \in Nat : \A B \in SUBSET S :
                      Cardinality(B) = n => SumFunctionOnSet(fun, B) = c * n}
  <1>1. \A B \in SUBSET S : IsFiniteSet(B) /\ Cardinality(B) \in Nat
    BY FS_Subset, FS_CardinalityType
  <1>2. 0 \in P
    <2> SUFFICES ASSUME NEW B \in SUBSET S, Cardinality(B) = 0
                 PROVE  SumFunctionOnSet(fun, B) = c * 0
      OBVIOUS
    <2>1. B = {}
      BY <1>1, FS_EmptySet
    <2>2. c * 0 = 0
      OBVIOUS
    <2> QED
      BY <2>1, <2>2, SumOfNone
  <1>3. ASSUME NEW n \in Nat, n \in P
        PROVE  n + 1 \in P
    <2> SUFFICES ASSUME NEW B \in SUBSET S, Cardinality(B) = n + 1
                 PROVE  SumFunctionOnSet(fun, B) = c * (n + 1)
      OBVIOUS
    <2>1. PICK b \in B : TRUE
      BY <1>1, FS_EmptySet
    <2> DEFINE C == B \ {b}
    <2>2. C \in SUBSET S /\ Cardinality(C) = n
      <3>1. IsFiniteSet(B) /\ b \in B /\ n + 1 - 1 = n
        BY <1>1, <2>1
      <3>2. Cardinality(C) = Cardinality(B) - 1
        BY <3>1, FS_RemoveElement
      <3> QED
        BY <3>1, <3>2
    <2>3. \A y \in B : fun[y] \in Int
      OBVIOUS
    <2>4. SumFunctionOnSet(fun, B) = SumFunctionOnSet(fun, C) + fun[b]
      BY <1>1, <2>1, <2>3, SumWithout
    <2>5. SumFunctionOnSet(fun, C) = c * n
      BY <1>3, <2>2
    <2>6. c * (n + 1) = c * n + c
      OBVIOUS
    <2> QED
      BY <2>1, <2>4, <2>5, <2>6
  <1> HIDE DEF P
  <1>4. \A n \in Nat : n \in P
    BY <1>2, <1>3, NatsByInduction
  <1> QED
    BY <1>1, <1>4 DEF P

-----------------------------------------------------------------------------
(* The net result of a part of a history.                                  *)

Histories == Seq([day : Int, pnl : Int])

\* A set of integers below some integer has a greatest member, which Max names.
LEMMA MaxOfBounded ==
  ASSUME NEW T \in SUBSET Int, T # {}, NEW u \in Int, \A x \in T : x <= u
  PROVE  Max(T) \in T /\ \A x \in T : x <= Max(T)
PROOF
  <1> DEFINE Gaps == {n \in Nat : u - n \in T}
  <1>1. \A x \in T : u - x \in Gaps /\ u - (u - x) = x
    <2> SUFFICES ASSUME NEW x \in T PROVE u - x \in Gaps /\ u - (u - x) = x
      OBVIOUS
    <2>1. x \in Int /\ u - x \in Nat /\ u - (u - x) = x
      OBVIOUS
    <2> QED
      BY <2>1
  <1>2. PICK m \in Gaps : \A n \in Gaps : m <= n
    <2>1. Gaps \in SUBSET Nat /\ Gaps # {}
      BY <1>1
    <2> HIDE DEF Gaps
    <2> QED
      BY <2>1, LeastOfNats
  <1>3. u - m \in T /\ m \in Nat
    BY <1>2
  <1>4. ASSUME NEW x \in T
        PROVE  u - m >= x
    <2>1. m <= u - x
      BY <1>1, <1>2
    <2>2. x \in Int
      OBVIOUS
    <2> QED
      BY <1>3, <2>1, <2>2
  <1>5. Max(T) \in T /\ \A y \in T : Max(T) >= y
    BY <1>3, <1>4 DEF Max
  <1> QED
    BY <1>5

\* The terms of a finite sequence of integers are bounded.
LEMMA TermsBounded ==
  ASSUME NEW n \in Nat, NEW f, \A i \in 1 .. n : f[i] \in Int
  PROVE  \E u \in Nat : \A i \in 1 .. n : f[i] <= u
PROOF
  <1> DEFINE Bounded(m) == m <= n => \E u \in Nat : \A i \in 1 .. m : f[i] <= u
             P == {m \in Nat : Bounded(m)}
  <1>1. 0 \in P
    BY 0 \in Nat
  <1>2. ASSUME NEW m \in Nat, m \in P
        PROVE  m + 1 \in P
    <2> SUFFICES ASSUME m + 1 <= n
                 PROVE  \E u \in Nat : \A i \in 1 .. m + 1 : f[i] <= u
      OBVIOUS
    <2>1. PICK u \in Nat : \A i \in 1 .. m : f[i] <= u
      BY <1>2
    <2>2. f[m + 1] \in Int
      OBVIOUS
    <2>3. PICK v \in Nat : u <= v /\ f[m + 1] <= v
      <3>1. CASE f[m + 1] <= u
        BY <3>1
      <3>2. CASE f[m + 1] > u
        <4>1. f[m + 1] \in Nat
          BY <2>2, <3>2
        <4> QED
          BY <4>1, <3>2
      <3> QED
        BY <2>2, <3>1, <3>2
    <2>4. ASSUME NEW i \in 1 .. m + 1
          PROVE  f[i] <= v
      <3>1. f[i] \in Int /\ (i = m + 1 \/ i \in 1 .. m)
        OBVIOUS
      <3> QED
        BY <3>1, <2>1, <2>3
    <2> QED
      BY <2>4
  <1> HIDE DEF P
  <1>3. n \in P
    BY <1>1, <1>2, NatsByInduction
  <1> QED
    BY <1>3 DEF P

\* What is said of a sum holds of the net result of positions of a history.
LEMMA NetFacts ==
  ASSUME NEW h \in Histories, NEW I \in SUBSET DOMAIN h
  PROVE  /\ IsFiniteSet(I) /\ Net(h, I) \in Int /\ Net(h, {}) = 0
         /\ \A J \in SUBSET DOMAIN h :
               I \cap J = {} => Net(h, I \cup J) = Net(h, I) + Net(h, J)
         /\ \A i \in DOMAIN h : h[i].pnl \in Int /\ Net(h, {i}) = h[i].pnl
PROOF
  <1> DEFINE made == [i \in DOMAIN h |-> h[i].pnl]
  <1>1. \A J : Net(h, J) = SumFunctionOnSet(made, J)
    BY DEF Net
  <1>2. \A i \in DOMAIN h : made[i] = h[i].pnl /\ made[i] \in Int
    <2> DEFINE T == [day : Int, pnl : Int]
    <2>1. \A i \in DOMAIN h : h[i] \in T
      <3>1. h \in Seq(T)
        BY DEF Histories
      <3> HIDE DEF T
      <3> QED
        BY <3>1
    <2> QED
      BY <2>1
  <1>3. \A J \in SUBSET DOMAIN h : IsFiniteSet(J)
    BY FS_Interval, FS_Subset DEF Histories
  <1> HIDE DEF made
  <1>4. SumFunctionOnSet(made, I) \in Int
    BY <1>2, <1>3, SumType
  <1>5. SumFunctionOnSet(made, {}) = 0
    BY SumOfNone
  <1>6. ASSUME NEW J \in SUBSET DOMAIN h, I \cap J = {}
        PROVE  Net(h, I \cup J) = Net(h, I) + Net(h, J)
    <2>1. SumFunctionOnSet(made, I \cup J) = SumFunctionOnSet(made, I) + SumFunctionOnSet(made, J)
      BY <1>2, <1>3, <1>6, SumUnion
    <2> QED
      BY <2>1, <1>1
  <1>7. ASSUME NEW i \in DOMAIN h
        PROVE  h[i].pnl \in Int /\ Net(h, {i}) = h[i].pnl
    <2>1. SumFunctionOnSet(made, {} \cup {i}) = SumFunctionOnSet(made, {}) + made[i]
      BY <1>2, FS_EmptySet, SumWith
    <2>2. {} \cup {i} = {i}
      OBVIOUS
    <2> QED
      BY <2>1, <2>2, <1>1, <1>2, <1>5
  <1> QED
    BY <1>1, <1>3, <1>4, <1>5, <1>6, <1>7

\* Parts without a common trade add up.
LEMMA NetUnion ==
  ASSUME NEW h \in Histories, NEW I \in SUBSET DOMAIN h, NEW J \in SUBSET DOMAIN h, I \cap J = {}
  PROVE  Net(h, I \cup J) = Net(h, I) + Net(h, J) /\ Net(h, I) \in Int /\ Net(h, J) \in Int
PROOF
  BY NetFacts

\* It depends on the trades of that part only.
LEMMA NetSame ==
  ASSUME NEW g \in Histories, NEW h \in Histories, NEW I,
         I \subseteq DOMAIN g, I \subseteq DOMAIN h, \A i \in I : g[i] = h[i]
  PROVE  Net(g, I) = Net(h, I)
PROOF
  <1> DEFINE madeG == [i \in DOMAIN g |-> g[i].pnl]
             madeH == [i \in DOMAIN h |-> h[i].pnl]
  <1>1. \A i \in I : madeG[i] = madeH[i]
    OBVIOUS
  <1>2. IsFiniteSet(I)
    BY NetFacts
  <1>3. Net(g, I) = SumFunctionOnSet(madeG, I) /\ Net(h, I) = SumFunctionOnSet(madeH, I)
    BY DEF Net
  <1> HIDE DEF madeG, madeH
  <1> QED
    BY <1>1, <1>2, <1>3, SumSame

\* What a history made up to a trade, and over a run of trades.
UpToNow(h, i) == Net(h, 1 .. i)

\* It grows by one trade at a time, and a run of trades made the difference.
LEMMA RunningNet ==
  ASSUME NEW h \in Histories
  PROVE  /\ UpToNow(h, 0) = 0
         /\ \A i \in 0 .. Len(h) : UpToNow(h, i) \in Int
         /\ \A i \in 1 .. Len(h) : UpToNow(h, i) = UpToNow(h, i - 1) + h[i].pnl
         /\ \A i, j \in 1 .. Len(h) :
               -Net(h, i .. j) = IF i <= j THEN UpToNow(h, i - 1) - UpToNow(h, j) ELSE 0
PROOF
  <1>1. Len(h) \in Nat /\ DOMAIN h = 1 .. Len(h)
    BY DEF Histories
  <1>2. 1 .. 0 = {} /\ {} \in SUBSET DOMAIN h
    OBVIOUS
  <1>3. UpToNow(h, 0) = 0
    BY <1>2, NetFacts DEF UpToNow
  <1>4. \A i \in 0 .. Len(h) : 1 .. i \in SUBSET DOMAIN h /\ UpToNow(h, i) \in Int
    <2>1. \A i \in 0 .. Len(h) : 1 .. i \in SUBSET DOMAIN h
      BY <1>1
    <2> QED
      BY <2>1, NetFacts DEF UpToNow
  <1>5. ASSUME NEW i \in 1 .. Len(h), NEW j \in 1 .. Len(h), i <= j
        PROVE  UpToNow(h, j) = UpToNow(h, i - 1) + Net(h, i .. j) /\ Net(h, i .. j) \in Int
    <2>1. /\ 1 .. j = (1 .. (i - 1)) \cup (i .. j) /\ (1 .. (i - 1)) \cap (i .. j) = {}
          /\ i - 1 \in 0 .. Len(h)
      BY <1>1, <1>5
    <2>2. 1 .. (i - 1) \in SUBSET DOMAIN h /\ i .. j \in SUBSET DOMAIN h
      BY <1>1
    <2> DEFINE I == 1 .. (i - 1)
               J == i .. j
    <2>3. 1 .. j = I \cup J /\ I \cap J = {} /\ I \in SUBSET DOMAIN h /\ J \in SUBSET DOMAIN h
      BY <2>1, <2>2
    <2> HIDE DEF I, J
    <2>4. Net(h, I \cup J) = Net(h, I) + Net(h, J) /\ Net(h, J) \in Int
      BY <2>3, NetUnion
    <2> QED
      BY <2>3, <2>4 DEF UpToNow, I, J
  <1>6. ASSUME NEW i \in 1 .. Len(h)
        PROVE  UpToNow(h, i) = UpToNow(h, i - 1) + h[i].pnl
    <2>1. i .. i = {i} /\ i <= i /\ i \in DOMAIN h
      BY <1>1
    <2>2. Net(h, {i}) = h[i].pnl
      BY <2>1, NetFacts, {} \in SUBSET DOMAIN h
    <2>3. UpToNow(h, i) = UpToNow(h, i - 1) + Net(h, i .. i)
      BY <2>1, <1>5
    <2> QED
      BY <2>1, <2>2, <2>3
  <1>7. ASSUME NEW i \in 1 .. Len(h), NEW j \in 1 .. Len(h)
        PROVE  -Net(h, i .. j) = IF i <= j THEN UpToNow(h, i - 1) - UpToNow(h, j) ELSE 0
    <2>1. CASE i <= j
      <3>1. UpToNow(h, i - 1) \in Int
        BY <1>4, i - 1 \in 0 .. Len(h), <1>1
      <3>2. UpToNow(h, j) = UpToNow(h, i - 1) + Net(h, i .. j) /\ Net(h, i .. j) \in Int
        BY <2>1, <1>5
      <3> QED
        BY <2>1, <3>1, <3>2
    <2>2. CASE ~(i <= j)
      <3>1. i .. j = {}
        BY <2>2
      <3> QED
        BY <2>2, <3>1, <1>2, NetFacts
    <2> QED
      BY <2>1, <2>2
  <1> QED
    BY <1>3, <1>4, <1>6, <1>7

-----------------------------------------------------------------------------
(* The loop over the trades keeps the balance and its peak.                *)

\* The running balance after i trades is what they made.
LEMMA RunningIsNet ==
  ASSUME NEW h \in Histories, NEW i \in 0 .. Len(h)
  PROVE  Running(h)[i] = UpToNow(h, i)
PROOF
  <1> DEFINE Adds(g) == [k \in 0 .. Len(h) |-> IF k = 0 THEN 0 ELSE g[k - 1] + h[k].pnl]
             g0 == [k \in 0 .. Len(h) |-> UpToNow(h, k)]
             R == Running(h)
  <1>1. Len(h) \in Nat
    BY DEF Histories
  <1>2. g0 = Adds(g0)
    <2>1. ASSUME NEW k \in 0 .. Len(h)
          PROVE  g0[k] = Adds(g0)[k]
      <3>1. CASE k = 0
        BY <3>1, RunningNet
      <3>2. CASE k # 0
        <4>1. k \in 1 .. Len(h) /\ k - 1 \in 0 .. Len(h)
          BY <3>2, <1>1
        <4> QED
          BY <4>1, <3>2, RunningNet
      <3> QED
        BY <3>1, <3>2
    <2> QED
      BY <2>1
  <1>3. R = CHOOSE g : g = Adds(g)
    BY DEF Running
  <1>4. R = Adds(R)
    <2> HIDE DEF Adds, R, g0
    <2> QED
      BY <1>2, <1>3
  <1>5. /\ R[0] = 0
        /\ \A k \in 1 .. Len(h) : R[k] = R[k - 1] + h[k].pnl
    <2>1. \A k \in 0 .. Len(h) : R[k] = IF k = 0 THEN 0 ELSE R[k - 1] + h[k].pnl
      <3> HIDE DEF R
      <3> QED
        BY <1>4
    <2> QED
      BY <2>1, <1>1
  <1> DEFINE P == {n \in Nat : n <= Len(h) => R[n] = UpToNow(h, n)}
  <1> HIDE DEF R
  <1>6. 0 \in P
    BY <1>5, RunningNet
  <1>7. ASSUME NEW n \in Nat, n \in P
        PROVE  n + 1 \in P
    <2> SUFFICES ASSUME n + 1 <= Len(h) PROVE R[n + 1] = UpToNow(h, n + 1)
      OBVIOUS
    <2>1. n + 1 \in 1 .. Len(h) /\ (n + 1) - 1 = n /\ n <= Len(h)
      BY <1>1
    <2> QED
      BY <2>1, <1>5, <1>7, RunningNet
  <1> HIDE DEF P
  <1>8. i \in P
    BY <1>6, <1>7, NatsByInduction
  <1> QED
    BY <1>8, <1>1 DEF P, R

\* Where the peak may lie: anywhere so far, or at the initial balance.
Heights(type, i) == IF type = "trailing" THEN 0 .. i ELSE {0}

\* The peak is the highest of the balances it is measured over.
LEMMA PeakIsHighest ==
  ASSUME NEW h \in Histories, NEW type, NEW i \in 0 .. Len(h)
  PROVE  /\ \E k \in Heights(type, i) : Peak(h, type)[i] = UpToNow(h, k)
         /\ \A k \in Heights(type, i) : UpToNow(h, k) <= Peak(h, type)[i]
PROOF
  <1> DEFINE Up(g, k) == IF k = 0 THEN 0
                         ELSE IF type = "trailing" THEN Max2(g[k - 1], Running(h)[k]) ELSE g[k - 1]
             R == Peak(h, type)
             N == Len(h)
  <1>1. N \in Nat
    BY DEF Histories
  <1>2. \E g : g = [k \in 0 .. N |-> Up(g, k)]
    <2> DEFINE Q == {n \in Nat : \E g : g = [k \in 0 .. n |-> Up(g, k)]}
    <2>1. 0 \in Q
      <3>1. \A g : [k \in 0 .. 0 |-> 0] = [k \in 0 .. 0 |-> Up(g, k)]
        OBVIOUS
      <3> HIDE DEF Up
      <3> QED
        BY <3>1
    <2>2. ASSUME NEW n \in Nat, n \in Q
          PROVE  n + 1 \in Q
      <3>1. PICK g : g = [k \in 0 .. n |-> Up(g, k)]
        BY <2>2
      <3> DEFINE f == [k \in 0 .. n + 1 |-> Up(g, k)]
      <3>2. \A k \in 0 .. n : g[k] = f[k]
        <4> HIDE DEF Up
        <4> QED
          BY <3>1
      <3>3. \A k \in 0 .. n + 1 : Up(g, k) = Up(f, k)
        <4>1. \A k \in 0 .. n + 1 : k # 0 => k - 1 \in 0 .. n
          OBVIOUS
        <4> HIDE DEF f
        <4> QED
          BY <3>2, <4>1
      <3>4. f = [k \in 0 .. n + 1 |-> Up(f, k)]
        <4> HIDE DEF Up
        <4> QED
          BY <3>3
      <3> HIDE DEF f, Up
      <3> QED
        BY <3>4
    <2> HIDE DEF Q
    <2>3. N \in Q
      BY <1>1, <2>1, <2>2, NatsByInduction
    <2> QED
      BY <2>3 DEF Q
  <1>3. R = CHOOSE g : g = [k \in 0 .. N |-> Up(g, k)]
    BY DEF Peak
  <1>4. R = [k \in 0 .. N |-> Up(R, k)]
    <2> HIDE DEF Up, R, N
    <2> QED
      BY <1>2, <1>3
  <1>5. \A k \in 0 .. N : R[k] = Up(R, k)
    <2> HIDE DEF R, Up
    <2> QED
      BY <1>4
  <1> HIDE DEF R
  <1> DEFINE Highest(n) == /\ \E k \in Heights(type, n) : R[n] = UpToNow(h, k)
                           /\ \A k \in Heights(type, n) : UpToNow(h, k) <= R[n]
             P == {n \in Nat : n <= N => Highest(n)}
  <1>6. 0 \in P
    <2>1. R[0] = 0 /\ Heights(type, 0) = {0} /\ UpToNow(h, 0) = 0
      BY <1>1, <1>5, RunningNet DEF Heights
    <2> QED
      BY <2>1
  <1>7. ASSUME NEW n \in Nat, n \in P
        PROVE  n + 1 \in P
    <2> SUFFICES ASSUME n + 1 <= N PROVE Highest(n + 1)
      OBVIOUS
    <2>1. /\ n + 1 \in 0 .. N /\ n + 1 # 0 /\ (n + 1) - 1 = n /\ n \in 0 .. N
          /\ Highest(n)
      BY <1>1, <1>7
    <2>2. CASE type = "trailing"
      <3>1. Running(h)[n + 1] = UpToNow(h, n + 1)
        BY <2>1, RunningIsNet
      <3>2. R[n + 1] = Max2(R[n], UpToNow(h, n + 1))
        BY <1>5, <2>1, <2>2, <3>1
      <3>3. \A k \in 0 .. n + 1 : UpToNow(h, k) \in Int
        BY <2>1, RunningNet
      <3>4. /\ \E k \in 0 .. n : R[n] = UpToNow(h, k)
            /\ \A k \in 0 .. n : UpToNow(h, k) <= R[n]
        BY <2>1, <2>2 DEF Heights
      <3>5. R[n] \in Int /\ UpToNow(h, n + 1) \in Int
        BY <3>3, <3>4
      <3>6. R[n] <= R[n + 1] /\ UpToNow(h, n + 1) <= R[n + 1] /\ R[n + 1] \in Int
        BY <3>2, <3>5 DEF Max2
      <3>7. \E k \in 0 .. n + 1 : R[n + 1] = UpToNow(h, k)
        BY <3>2, <3>4 DEF Max2
      <3>8. ASSUME NEW k \in 0 .. n + 1
            PROVE  UpToNow(h, k) <= R[n + 1]
        <4>1. CASE k = n + 1
          BY <4>1, <3>6
        <4>2. CASE k # n + 1
          <5>1. k \in 0 .. n
            BY <4>2
          <5> QED
            BY <5>1, <3>3, <3>4, <3>5, <3>6
        <4> QED
          BY <4>1, <4>2
      <3> QED
        BY <2>2, <3>7, <3>8 DEF Heights
    <2>3. CASE type # "trailing"
      <3>1. R[n + 1] = R[n]
        BY <1>5, <2>1, <2>3
      <3> QED
        BY <2>1, <2>3, <3>1 DEF Heights
    <2> QED
      BY <2>2, <2>3
  <1> HIDE DEF P
  <1>8. i \in P
    BY <1>6, <1>7, NatsByInduction
  <1> QED
    BY <1>8, <1>1 DEF P, R

-----------------------------------------------------------------------------
(* The drawdown of the loop is the worst run of the history.               *)

Falls(h, type)  == {0} \cup {Peak(h, type)[i] - Running(h)[i] : i \in DOMAIN h}
RunStarts(h, type) == IF type = "trailing" THEN DOMAIN h ELSE {1}
Runs(h, type)   == {0} \cup {-Net(h, i .. j) : i \in RunStarts(h, type), j \in DOMAIN h}

\* A fall from the peak is a run of trades, and a run of trades is no worse than a
\* fall from the peak.
LEMMA FallsAreRuns ==
  ASSUME NEW h \in Histories, NEW type
  PROVE  /\ Falls(h, type) \subseteq Runs(h, type)
         /\ \A x \in Runs(h, type) : x \in Int /\ \E y \in Falls(h, type) : x <= y
PROOF
  <1>1. Len(h) \in Nat /\ DOMAIN h = 1 .. Len(h)
    BY DEF Histories
  <1>2. ASSUME NEW i \in DOMAIN h
        PROVE  /\ Running(h)[i] = UpToNow(h, i) /\ UpToNow(h, i) \in Int
               /\ \E k \in Heights(type, i) : Peak(h, type)[i] = UpToNow(h, k)
               /\ \A k \in Heights(type, i) : UpToNow(h, k) <= Peak(h, type)[i]
               /\ \A k \in Heights(type, i) : k \in 0 .. i /\ UpToNow(h, k) \in Int
               /\ Peak(h, type)[i] \in Int
    <2>1. i \in 0 .. Len(h)
      BY <1>1
    <2>2. \A k \in Heights(type, i) : k \in 0 .. i
      BY <2>1 DEF Heights
    <2>3. \A k \in 0 .. i : k \in 0 .. Len(h)
      BY <2>1
    <2>4. \A k \in Heights(type, i) : k \in 0 .. i /\ UpToNow(h, k) \in Int
      BY <2>2, <2>3, RunningNet
    <2> QED
      BY <2>1, <2>4, PeakIsHighest, RunningIsNet, RunningNet
  <1>3. ASSUME NEW i \in DOMAIN h
        PROVE  Peak(h, type)[i] - Running(h)[i] \in Runs(h, type)
    <2>1. PICK k \in Heights(type, i) : Peak(h, type)[i] = UpToNow(h, k)
      BY <1>2
    <2>2. Peak(h, type)[i] - Running(h)[i] = UpToNow(h, k) - UpToNow(h, i)
      BY <2>1, <1>2
    <2>3. k \in 0 .. i /\ UpToNow(h, i) \in Int /\ i \in 1 .. Len(h)
      BY <1>1, <1>2
    <2>4. CASE k = i
      BY <2>2, <2>3, <2>4 DEF Runs
    <2>5. CASE k # i
      <3>1. k + 1 \in 1 .. Len(h) /\ k + 1 <= i /\ (k + 1) - 1 = k
        BY <2>3, <2>5, <1>1
      <3>2. -Net(h, (k + 1) .. i) = UpToNow(h, k) - UpToNow(h, i)
        BY <2>3, <3>1, RunningNet
      <3>3. k + 1 \in RunStarts(h, type)
        BY <1>1, <3>1 DEF RunStarts, Heights
      <3> QED
        BY <2>2, <3>2, <3>3 DEF Runs
    <2> QED
      BY <2>4, <2>5
  <1>4. ASSUME NEW i \in RunStarts(h, type), NEW j \in DOMAIN h
        PROVE  -Net(h, i .. j) \in Int /\ \E y \in Falls(h, type) : -Net(h, i .. j) <= y
    <2>1. i \in 1 .. Len(h) /\ j \in 1 .. Len(h)
      BY <1>1 DEF RunStarts
    <2>2. -Net(h, i .. j) = IF i <= j THEN UpToNow(h, i - 1) - UpToNow(h, j) ELSE 0
      BY <2>1, RunningNet
    <2>3. CASE i <= j
      <3>1. i - 1 \in Heights(type, j)
        BY <2>1, <2>3, <1>1 DEF Heights, RunStarts
      <3>2. UpToNow(h, i - 1) <= Peak(h, type)[j] /\ UpToNow(h, i - 1) \in Int
        BY <3>1, <1>2
      <3>3. Peak(h, type)[j] \in Int /\ UpToNow(h, j) \in Int /\ Running(h)[j] = UpToNow(h, j)
        BY <1>2
      <3>4. -Net(h, i .. j) = UpToNow(h, i - 1) - UpToNow(h, j)
        BY <2>2, <2>3
      <3>5. -Net(h, i .. j) \in Int /\ -Net(h, i .. j) <= Peak(h, type)[j] - Running(h)[j]
        BY <3>2, <3>3, <3>4
      <3>6. Peak(h, type)[j] - Running(h)[j] \in Falls(h, type)
        BY DEF Falls
      <3> QED
        BY <3>5, <3>6
    <2>4. CASE ~(i <= j)
      <3>1. -Net(h, i .. j) = 0 /\ 0 \in Falls(h, type) /\ 0 \in Int
        BY <2>2, <2>4 DEF Falls
      <3> QED
        BY <3>1
    <2> QED
      BY <2>3, <2>4
  <1>5. Falls(h, type) \subseteq Runs(h, type)
    BY <1>3 DEF Falls, Runs
  <1>6. ASSUME NEW x \in Runs(h, type)
        PROVE  x \in Int /\ \E y \in Falls(h, type) : x <= y
    <2>1. CASE x = 0
      BY <2>1 DEF Falls
    <2>2. CASE x # 0
      <3>1. PICK i \in RunStarts(h, type), j \in DOMAIN h : x = -Net(h, i .. j)
        BY <2>2 DEF Runs
      <3> QED
        BY <3>1, <1>4
    <2> QED
      BY <2>1, <2>2
  <1> QED
    BY <1>5, <1>6

\* The worst run is the greatest of them, and the drawdown is that.
LEMMA DrawdownIsWorstRun ==
  ASSUME NEW h \in Histories, NEW type
  PROVE  /\ Drawdown(h, type) = WorstRun(h, type)
         /\ WorstRun(h, type) \in Runs(h, type) /\ WorstRun(h, type) \in Int
         /\ \A x \in Runs(h, type) : x <= WorstRun(h, type)
PROOF
  <1> DEFINE A == Falls(h, type)
             B == Runs(h, type)
             fall == [i \in DOMAIN h |-> Peak(h, type)[i] - Running(h)[i]]
  <1>1. Len(h) \in Nat /\ DOMAIN h = 1 .. Len(h)
    BY DEF Histories
  <1>2. A \subseteq B /\ \A x \in B : x \in Int /\ \E y \in A : x <= y
    BY FallsAreRuns
  <1>3. \A i \in 1 .. Len(h) : fall[i] \in A
    BY <1>1 DEF Falls
  <1>4. PICK u \in Nat : \A i \in 1 .. Len(h) : fall[i] <= u
    <2>1. \A i \in 1 .. Len(h) : fall[i] \in Int
      BY <1>2, <1>3
    <2> HIDE DEF fall
    <2> QED
      BY <1>1, <2>1, TermsBounded
  <1>5. \A y \in A : y <= u
    BY <1>1, <1>4 DEF Falls
  <1>6. A \subseteq Int /\ A # {} /\ B \subseteq Int /\ B # {} /\ u \in Int
    BY <1>2 DEF Falls
  <1>7. Drawdown(h, type) = Max(A) /\ WorstRun(h, type) = Max(B)
    BY DEF Drawdown, WorstRun, Falls, Runs, RunStarts
  <1> HIDE DEF A, B
  <1>8. \A x \in B : x <= u
    <2> SUFFICES ASSUME NEW x \in B PROVE x <= u
      OBVIOUS
    <2>1. PICK y \in A : x <= y
      BY <1>2
    <2>2. x \in Int /\ y \in Int /\ y <= u
      BY <1>5, <1>6
    <2> QED
      BY <2>1, <2>2
  <1>9. Max(A) \in A /\ \A y \in A : y <= Max(A)
    BY <1>5, <1>6, MaxOfBounded
  <1>10. Max(B) \in B /\ \A x \in B : x <= Max(B)
    BY <1>6, <1>8, MaxOfBounded
  <1>11. Max(A) = Max(B)
    <2>1. Max(A) <= Max(B)
      BY <1>2, <1>9, <1>10
    <2>2. PICK y \in A : Max(B) <= y
      BY <1>2, <1>10
    <2>3. Max(A) \in Int /\ Max(B) \in Int /\ y \in Int /\ y <= Max(A)
      BY <1>6, <1>9, <1>10
    <2> QED
      BY <2>1, <2>2, <2>3
  <1>12. Max(B) \in Int
    BY <1>6, <1>10
  <1> QED
    BY <1>7, <1>10, <1>11, <1>12 DEF B

\* A history that goes on has every run it had.
LEMMA WorstRunGrows ==
  ASSUME NEW g \in Histories, NEW h \in Histories, IsPrefix(g, h), NEW type
  PROVE  WorstRun(g, type) <= WorstRun(h, type)
PROOF
  <1>1. /\ Len(g) \in Nat /\ DOMAIN g = 1 .. Len(g) /\ Len(h) \in Nat /\ DOMAIN h = 1 .. Len(h)
        /\ Len(g) <= Len(h)
    BY DEF Histories, IsPrefix
  <1>2. DOMAIN g \subseteq DOMAIN h
    BY <1>1
  <1>3. \A i \in DOMAIN g : g[i] = h[i]
    <2>1. SubSeq(g, 1, Len(g)) = SubSeq(h, 1, Len(g))
      BY DEF IsPrefix
    <2>2. \A i \in 1 .. Len(g) : SubSeq(g, 1, Len(g))[i] = g[i] /\ SubSeq(h, 1, Len(g))[i] = h[i]
      BY <1>1, <1>2 DEF Histories
    <2> QED
      BY <1>1, <2>1, <2>2
  <1>4. Runs(g, type) \subseteq Runs(h, type)
    <2> SUFFICES ASSUME NEW i \in RunStarts(g, type), NEW j \in DOMAIN g
                 PROVE  -Net(g, i .. j) \in Runs(h, type)
      BY DEF Runs
    <2>1. i \in 1 .. Len(g) /\ j \in 1 .. Len(g) /\ i \in RunStarts(h, type) /\ j \in DOMAIN h
      BY <1>1, <1>2 DEF RunStarts
    <2>2. i .. j \subseteq DOMAIN g
      BY <1>1, <2>1
    <2>3. Net(g, i .. j) = Net(h, i .. j)
      BY <1>2, <1>3, <2>2, NetSame
    <2> QED
      BY <2>1, <2>3 DEF Runs
  <1> QED
    BY <1>4, DrawdownIsWorstRun

-----------------------------------------------------------------------------
(* The consistency rule.                                                   *)

\* A winning day made at least one unit; a set of winning days made the sum of them.
LEMMA WinningDaysAdd ==
  ASSUME NEW h \in Histories, NEW q \in Int, \A d \in WinningDays(h) : Gain(h, d) * 100 <= q
  PROVE  /\ IsFiniteSet(WinningDays(h))
         /\ \A V \in SUBSET WinningDays(h) :
               /\ Cardinality(V) \in Nat /\ Net(h, Within(h, V)) \in Int
               /\ Cardinality(V) <= Net(h, Within(h, V))
               /\ Net(h, Within(h, V)) * 100 <= Cardinality(V) * q
PROOF
  <1> DEFINE W == WinningDays(h)
             Adds(V) == /\ Cardinality(V) <= Net(h, Within(h, V))
                        /\ Net(h, Within(h, V)) * 100 <= Cardinality(V) * q
             P == {n \in Nat : \A V \in SUBSET W : Cardinality(V) = n => Adds(V)}
  <1>1. IsFiniteSet(W)
    <2> DEFINE day == [i \in DOMAIN h |-> h[i].day]
    <2>1. day \in Surjection(DOMAIN h, DaysOf(h))
      BY DEF Surjection, DaysOf
    <2>2. IsFiniteSet(DOMAIN h)
      BY NetFacts
    <2> HIDE DEF day
    <2>3. IsFiniteSet(DaysOf(h))
      BY <2>1, <2>2, FS_Surjection
    <2>4. W \in SUBSET DaysOf(h)
      BY DEF WinningDays
    <2> QED
      BY <2>3, <2>4, FS_Subset
  <1>2. \A V \in SUBSET W : /\ IsFiniteSet(V) /\ Cardinality(V) \in Nat
                             /\ Within(h, V) \in SUBSET DOMAIN h /\ Net(h, Within(h, V)) \in Int
    <2>1. \A V \in SUBSET W : IsFiniteSet(V) /\ Cardinality(V) \in Nat
      BY <1>1, FS_Subset, FS_CardinalityType
    <2>2. \A V \in SUBSET W : Within(h, V) \in SUBSET DOMAIN h
      BY DEF Within
    <2> QED
      BY <2>1, <2>2, NetFacts
  <1>3. \A d \in W : Gain(h, d) \in Int /\ 1 <= Gain(h, d) /\ Gain(h, d) * 100 <= q
    <2>1. \A d : OnDay(h, d) \in SUBSET DOMAIN h
      BY DEF OnDay
    <2>2. \A d : Gain(h, d) \in Int
      BY <2>1, NetFacts DEF Gain
    <2>3. \A d \in W : Gain(h, d) > 0
      BY DEF WinningDays
    <2> QED
      BY <2>2, <2>3
  <1> HIDE DEF W
  <1>4. 0 \in P
    <2> SUFFICES ASSUME NEW V \in SUBSET W, Cardinality(V) = 0 PROVE Adds(V)
      OBVIOUS
    <2>1. V = {} /\ Within(h, V) = {}
      BY <1>2, FS_EmptySet DEF Within
    <2>2. Net(h, {}) = 0
      BY NetFacts, {} \in SUBSET DOMAIN h
    <2> QED
      BY <2>1, <2>2
  <1>5. ASSUME NEW n \in Nat, n \in P
        PROVE  n + 1 \in P
    <2> SUFFICES ASSUME NEW V \in SUBSET W, Cardinality(V) = n + 1 PROVE Adds(V)
      OBVIOUS
    <2>1. PICK d \in V : TRUE
      BY <1>2, FS_EmptySet
    <2> DEFINE U == V \ {d}
    <2>2. U \in SUBSET W /\ Cardinality(U) = n
      BY <1>2, <2>1, FS_RemoveElement
    <2>3. Adds(U)
      BY <1>5, <2>2
    <2>4. /\ Within(h, V) = Within(h, U) \cup OnDay(h, d) /\ Within(h, U) \cap OnDay(h, d) = {}
          /\ Within(h, U) \in SUBSET DOMAIN h /\ OnDay(h, d) \in SUBSET DOMAIN h
      BY <2>1 DEF Within, OnDay
    <2>5. Net(h, Within(h, V)) = Net(h, Within(h, U)) + Gain(h, d)
      <3> DEFINE I == Within(h, U)
                 J == OnDay(h, d)
      <3>1. Within(h, V) = I \cup J /\ I \cap J = {} /\ I \in SUBSET DOMAIN h /\ J \in SUBSET DOMAIN h
        BY <2>4
      <3> HIDE DEF I, J
      <3>2. Net(h, I \cup J) = Net(h, I) + Net(h, J)
        BY <3>1, NetUnion
      <3> QED
        BY <3>1, <3>2 DEF Gain, I, J
    <2>6. /\ Gain(h, d) \in Int /\ 1 <= Gain(h, d) /\ Gain(h, d) * 100 <= q
          /\ Net(h, Within(h, U)) \in Int
      BY <1>2, <1>3, <2>1, <2>2
    <2> HIDE DEF U
    <2>7. n <= Net(h, Within(h, U)) /\ Net(h, Within(h, U)) * 100 <= n * q
      BY <2>2, <2>3
    <2>8. n + 1 <= Net(h, Within(h, V))
      BY <2>5, <2>6, <2>7
    <2>9. Net(h, Within(h, V)) * 100 <= (n + 1) * q
      <3>1. (n + 1) * q = n * q + q /\ n * q \in Int
        OBVIOUS
      <3> QED
        BY <3>1, <2>5, <2>6, <2>7
    <2> QED
      BY <2>8, <2>9
  <1> HIDE DEF P
  <1>6. \A n \in Nat : n \in P
    BY <1>4, <1>5, NatsByInduction
  <1>7. \A V \in SUBSET W : Adds(V)
    BY <1>2, <1>6 DEF P
  <1> QED
    BY <1>1, <1>2, <1>7 DEF W

\* So where no winning day has more than its share there are enough of them.
LEMMA ConsistentHistory ==
  ASSUME NEW h \in Histories, NEW pct \in Nat, WinningDays(h) # {}, BestDays(h, pct) = {}
  PROVE  Cardinality(WinningDays(h)) * pct >= 100
PROOF
  <1> DEFINE W     == WinningDays(h)
             total == Net(h, Within(h, W))
             k     == Cardinality(W)
  <1>1. Within(h, W) \in SUBSET DOMAIN h /\ \A d : OnDay(h, d) \in SUBSET DOMAIN h
    BY DEF Within, OnDay
  <1>2. total \in Int /\ \A d : Gain(h, d) \in Int
    BY <1>1, NetFacts DEF Gain
  <1>3. pct * total \in Int
    BY <1>2
  <1>4. \A d \in W : Gain(h, d) * 100 <= pct * total
    <2>1. \A d \in W : ~(Gain(h, d) * 100 > pct * total)
      BY DEF BestDays
    <2> HIDE DEF W, total
    <2> QED
      BY <1>2, <1>3, <2>1 DEF W
  <1>5. IsFiniteSet(W) /\ k \in Nat /\ k <= total /\ total * 100 <= k * (pct * total)
    <2> HIDE DEF total
    <2>1. IsFiniteSet(W) /\ \A V \in SUBSET W :
             /\ Cardinality(V) \in Nat /\ Cardinality(V) <= Net(h, Within(h, V))
             /\ Net(h, Within(h, V)) * 100 <= Cardinality(V) * (pct * total)
      BY <1>3, <1>4, WinningDaysAdd
    <2> QED
      BY <2>1 DEF total
  <1>6. k # 0
    BY <1>5, FS_EmptySet
  <1> HIDE DEF W, total, k
  <1>7. total > 0 /\ k * (pct * total) = (k * pct) * total /\ k * pct \in Int
    BY <1>2, <1>5, <1>6
  <1>8. k * pct >= 100
    <2> SUFFICES ASSUME k * pct <= 99 PROVE FALSE
      BY <1>7
    <2>1. (k * pct) * total <= 99 * total
      BY <1>2, <1>7
    <2> QED
      BY <2>1, <1>2, <1>5, <1>7
  <1> QED
    BY <1>8 DEF k, W

-----------------------------------------------------------------------------
(* Sorting.                                                                *)

\* What goes ahead of what is a strict total order on the keys.
LinearOrder(ahead) ==
    \A k \in DOMAIN ahead :
        /\ ahead[k] \subseteq DOMAIN ahead /\ k \notin ahead[k]
        /\ \A j \in DOMAIN ahead : /\ j = k \/ j \in ahead[k] \/ k \in ahead[j]
                                   /\ j \in ahead[k] => ahead[j] \subseteq ahead[k]

\* f lists the keys of ahead, each once, at the place the number of those ahead gives.
Lists(f, ahead, N) ==
    /\ N \in Nat /\ DOMAIN f = 1 .. N
    /\ \A n \in 1 .. N : f[n] \in DOMAIN ahead /\ Cardinality(ahead[f[n]]) = n - 1
    /\ \A k \in DOMAIN ahead : \E n \in 1 .. N : f[n] = k
    /\ \A m, n \in 1 .. N : m < n <=> f[m] \in ahead[f[n]]

\* Sorting does that.
LEMMA SortedFacts ==
  ASSUME NEW ahead, IsFiniteSet(DOMAIN ahead), LinearOrder(ahead)
  PROVE  Lists(Sorted(ahead), ahead, Cardinality(DOMAIN ahead))
PROOF
  <1> DEFINE S == DOMAIN ahead
             N == Cardinality(S)
             f == Sorted(ahead)
             rank == [k \in S |-> Cardinality(ahead[k])]
  <1>1. N \in Nat /\ \A k \in S : /\ ahead[k] \in SUBSET (S \ {k}) /\ IsFiniteSet(ahead[k])
                                  /\ Cardinality(ahead[k]) \in 0 .. N - 1
    <2>1. N \in Nat
      BY FS_CardinalityType
    <2>2. ASSUME NEW k \in S
          PROVE  /\ ahead[k] \in SUBSET (S \ {k}) /\ IsFiniteSet(ahead[k])
                 /\ Cardinality(ahead[k]) \in 0 .. N - 1
      <3>1. ahead[k] \in SUBSET (S \ {k})
        BY DEF LinearOrder
      <3>2. IsFiniteSet(S \ {k}) /\ Cardinality(S \ {k}) = N - 1
        BY FS_RemoveElement
      <3>3. /\ IsFiniteSet(ahead[k]) /\ Cardinality(ahead[k]) <= N - 1
            /\ Cardinality(ahead[k]) \in Nat
        BY <3>1, <3>2, FS_Subset, FS_CardinalityType
      <3> QED
        BY <3>1, <3>3, <2>1
    <2> QED
      BY <2>1, <2>2
  <1>2. ASSUME NEW j \in S, NEW k \in S, j \in ahead[k]
        PROVE  rank[j] < rank[k]
    <2>1. ahead[j] \in SUBSET (ahead[k] \ {j})
      BY <1>2 DEF LinearOrder
    <2>2. IsFiniteSet(ahead[k] \ {j}) /\ Cardinality(ahead[k] \ {j}) = Cardinality(ahead[k]) - 1
      BY <1>1, <1>2, FS_RemoveElement
    <2>3. Cardinality(ahead[j]) <= Cardinality(ahead[k]) - 1
      BY <2>1, <2>2, FS_Subset
    <2> QED
      BY <1>1, <2>3
  <1>3. \A j, k \in S : j = k \/ j \in ahead[k] \/ k \in ahead[j]
    BY DEF LinearOrder
  <1>4. \A k \in S : rank[k] \in 0 .. N - 1 /\ rank[k] = Cardinality(ahead[k])
    BY <1>1
  <1>5. rank \in Injection(S, 0 .. N - 1)
    <2>1. rank \in [S -> 0 .. N - 1]
      BY <1>4
    <2> HIDE DEF rank
    <2>2. \A j, k \in S : rank[j] = rank[k] => j = k
      BY <1>2, <1>3, <1>4
    <2> QED
      BY <2>1, <2>2 DEF Injection, IsInjective
  <1> HIDE DEF rank
  <1>6. \A n \in 0 .. N - 1 : \E k \in S : rank[k] = n
    <2>1. IsFiniteSet(0 .. N - 1) /\ Cardinality(0 .. N - 1) = N
      <3>1. 0 \in Int /\ N - 1 \in Int
        BY <1>1
      <3>2. Cardinality(0 .. N - 1) = IF 0 > N - 1 THEN 0 ELSE N - 1 - 0 + 1
        BY <3>1, FS_Interval
      <3> QED
        BY <1>1, <3>1, <3>2, FS_Interval
    <2>2. rank \in Surjection(S, 0 .. N - 1)
      BY <1>5, <2>1, FS_Injection
    <2> QED
      BY <2>2 DEF Surjection
  <1>7. DOMAIN f = 1 .. N /\ \A n \in 1 .. N : f[n] = CHOOSE k \in S : Cardinality(ahead[k]) = n - 1
    BY DEF Sorted
  <1> HIDE DEF f
  <1>8. ASSUME NEW n \in 1 .. N
        PROVE  f[n] \in S /\ Cardinality(ahead[f[n]]) = n - 1
    <2>1. n - 1 \in 0 .. N - 1
      BY <1>1
    <2>2. \E k \in S : Cardinality(ahead[k]) = n - 1
      BY <1>4, <1>6, <2>1
    <2> QED
      BY <1>7, <2>2
  <1>9. ASSUME NEW k \in S
        PROVE  \E n \in 1 .. N : f[n] = k
    <2>1. rank[k] + 1 \in 1 .. N /\ (rank[k] + 1) - 1 = rank[k]
      BY <1>1, <1>4
    <2>2. f[rank[k] + 1] \in S /\ rank[f[rank[k] + 1]] = rank[k]
      BY <1>4, <1>8, <2>1
    <2>3. f[rank[k] + 1] = k
      BY <1>2, <1>3, <1>4, <2>2
    <2> QED
      BY <2>1, <2>3
  <1>10. ASSUME NEW m \in 1 .. N, NEW n \in 1 .. N
         PROVE  m < n <=> f[m] \in ahead[f[n]]
    <2>1. /\ f[m] \in S /\ f[n] \in S /\ rank[f[m]] = m - 1 /\ rank[f[n]] = n - 1
          /\ m \in Int /\ n \in Int
      BY <1>1, <1>4, <1>8
    <2>2. CASE f[m] \in ahead[f[n]]
      <3>1. rank[f[m]] < rank[f[n]]
        BY <1>2, <2>1, <2>2
      <3> QED
        BY <2>1, <2>2, <3>1
    <2>3. CASE f[m] = f[n]
      <3>1. ~(m < n)
        BY <2>1, <2>3
      <3> QED
        BY <1>1, <2>1, <2>3, <3>1
    <2>4. CASE f[n] \in ahead[f[m]]
      <3>1. rank[f[n]] < rank[f[m]]
        BY <1>2, <2>1, <2>4
      <3>2. ~(m < n)
        BY <2>1, <3>1
      <3>3. f[m] \notin ahead[f[n]]
        BY <1>2, <2>1, <3>1
      <3> QED
        BY <3>2, <3>3
    <2> QED
      BY <1>3, <2>1, <2>2, <2>3, <2>4
  <1>11. Lists(f, ahead, N)
    BY <1>1, <1>7, <1>8, <1>9, <1>10 DEF Lists, S
  <1> QED
    BY <1>11 DEF f, N, S

\* f is the numbers of S, each once, in order.
Enumerates(f, S, N) ==
    /\ N \in Nat /\ DOMAIN f = 1 .. N
    /\ \A n \in 1 .. N : f[n] \in S /\ Cardinality({j \in S : j < f[n]}) = n - 1
    /\ \A k \in S : \E n \in 1 .. N : f[n] = k
    /\ \A m, n \in 1 .. N : m < n <=> f[m] < f[n]

\* Ascending(S) is that.
LEMMA AscendingFacts ==
  ASSUME NEW S \in SUBSET Int, IsFiniteSet(S)
  PROVE  Enumerates(Ascending(S), S, Cardinality(S))
PROOF
  <1> DEFINE ahead == [k \in S |-> {j \in S : j < k}]
  <1>1. DOMAIN ahead = S /\ \A k \in S : ahead[k] = {j \in S : j < k}
    OBVIOUS
  <1> HIDE DEF ahead
  <1>2. LinearOrder(ahead)
    <2>1. ASSUME NEW k \in S, NEW j \in S
          PROVE  /\ ahead[k] \subseteq S /\ k \notin ahead[k]
                 /\ j = k \/ j \in ahead[k] \/ k \in ahead[j]
                 /\ j \in ahead[k] => ahead[j] \subseteq ahead[k]
      BY <1>1
    <2> QED
      BY <1>1, <2>1 DEF LinearOrder
  <1>3. Ascending(S) = Sorted(ahead)
    BY DEF Ascending, ahead
  <1> DEFINE N == Cardinality(S)
             f == Ascending(S)
  <1>4. Lists(f, ahead, N)
    BY <1>1, <1>2, <1>3, SortedFacts
  <1>5. /\ N \in Nat /\ DOMAIN f = 1 .. N
        /\ \A n \in 1 .. N : f[n] \in S /\ Cardinality(ahead[f[n]]) = n - 1
        /\ \A k \in S : \E n \in 1 .. N : f[n] = k
        /\ \A m, n \in 1 .. N : m < n <=> f[m] \in ahead[f[n]]
    <2> HIDE DEF f, N
    <2> QED
      BY <1>1, <1>4 DEF Lists
  <1> HIDE DEF f, N
  <1>6. \A n \in 1 .. N : Cardinality({j \in S : j < f[n]}) = n - 1
    BY <1>1, <1>5
  <1>7. \A m, n \in 1 .. N : f[m] \in ahead[f[n]] <=> f[m] < f[n]
    <2>1. \A j, k \in S : j \in ahead[k] <=> j < k
      BY <1>1
    <2> QED
      BY <1>5, <2>1
  <1>8. \A m, n \in 1 .. N : m < n <=> f[m] < f[n]
    BY <1>5, <1>7
  <1>9. Enumerates(f, S, N)
    BY <1>5, <1>6, <1>8 DEF Enumerates
  <1> QED
    BY <1>9 DEF f, N

\* An increasing list of them all is Ascending(S).
LEMMA AscendingIs ==
  ASSUME NEW S \in SUBSET Int, NEW n \in Nat, NEW g \in [1 .. n -> S],
         \A k \in S : \E m \in 1 .. n : g[m] = k,
         \A l, m \in 1 .. n : l < m => g[l] < g[m]
  PROVE  IsFiniteSet(S) /\ Cardinality(S) = n /\ Ascending(S) = g
PROOF
  <1>1. IsFiniteSet(S) /\ Cardinality(S) = n
    <2>1. g \in Bijection(1 .. n, S)
      <3>1. \A l, m \in 1 .. n : g[l] = g[m] => l = m
        <4> SUFFICES ASSUME NEW l \in 1 .. n, NEW m \in 1 .. n, g[l] = g[m] PROVE l = m
          OBVIOUS
        <4>1. ~(g[l] < g[m]) /\ ~(g[m] < g[l])
          BY g[l] \in Int
        <4>2. ~(l < m) /\ ~(m < l)
          BY <4>1
        <4> QED
          BY <4>2
      <3> QED
        BY <3>1 DEF Bijection, Injection, IsInjective, Surjection
    <2>2. IsFiniteSet(1 .. n) /\ Cardinality(1 .. n) = n
      BY FS_Interval
    <2> QED
      BY <2>1, <2>2, FS_Bijection DEF ExistsBijection
  <1> DEFINE f == Ascending(S)
  <1>2. /\ DOMAIN f = 1 .. n /\ \A m \in 1 .. n : f[m] \in S
        /\ \A m \in 1 .. n : Cardinality({j \in S : j < f[m]}) = m - 1
        /\ \A k \in S : \E m \in 1 .. n : f[m] = k
        /\ \A l, m \in 1 .. n : l < m <=> f[l] < f[m]
    <2>1. Enumerates(f, S, n)
      BY <1>1, AscendingFacts
    <2> HIDE DEF f
    <2> QED
      BY <2>1 DEF Enumerates
  <1>3. Sorted([k \in S |-> {j \in S : j < k}]) = f
    BY DEF Ascending
  <1> HIDE DEF f
  <1>4. \A l, m \in 1 .. n : l < m <=> g[l] < g[m]
    <2> SUFFICES ASSUME NEW l \in 1 .. n, NEW m \in 1 .. n, g[l] < g[m] PROVE l < m
      OBVIOUS
    <2>1. l # m /\ ~(m < l)
      BY g[l] \in Int, g[m] \in Int
    <2> QED
      BY <2>1
  <1> DEFINE P == {m \in Nat : \A l \in 1 .. n : l <= m => f[l] = g[l]}
  <1>5. 0 \in P
    OBVIOUS
  <1>6. ASSUME NEW m \in Nat, m \in P
        PROVE  m + 1 \in P
    <2> SUFFICES ASSUME m + 1 \in 1 .. n PROVE f[m + 1] = g[m + 1]
      BY <1>6
    <2>1. PICK a \in 1 .. n : f[a] = g[m + 1]
      BY <1>2
    <2>2. PICK b \in 1 .. n : g[b] = f[m + 1]
      BY <1>2
    <2>3. ~(a <= m) /\ ~(b <= m)
      <3>1. a <= m => g[a] = g[m + 1]
        BY <1>6, <2>1
      <3>2. b <= m => f[b] = f[m + 1]
        BY <1>6, <2>2
      <3>3. \A x \in S : ~(x < x)
        OBVIOUS
      <3>4. a <= m => a < m + 1
        OBVIOUS
      <3>5. b <= m => b < m + 1
        OBVIOUS
      <3> QED
        BY <1>2, <1>4, <3>1, <3>2, <3>3, <3>4, <3>5
    <2>4. ~(a > m + 1)
      <3> SUFFICES ASSUME m + 1 < a PROVE FALSE
        OBVIOUS
      <3>1. f[m + 1] < g[m + 1]
        BY <1>2, <2>1
      <3>2. b < m + 1
        BY <1>4, <2>2, <3>1
      <3> QED
        BY <2>3, <3>2
    <2>5. a = m + 1
      BY <2>3, <2>4
    <2> QED
      BY <2>1, <2>5
  <1> HIDE DEF P
  <1>7. n \in P
    BY <1>5, <1>6, NatsByInduction
  <1>8. \A l \in 1 .. n : f[l] = g[l]
    BY <1>7 DEF P
  <1>9. f = g
    <2>1. f = [m \in 1 .. n |-> f[m]]
      BY <1>1, <1>3 DEF Sorted
    <2> QED
      BY <1>8, <2>1
  <1> QED
    BY <1>1, <1>9 DEF f

\* The entries at consecutive positions, in order.
LEMMA EntriesInRow ==
  ASSUME NEW s, NEW b \in Nat, NEW a \in 0 .. b
  PROVE  Entries(s, a + 1 .. b) = [n \in 1 .. b - a |-> s[a + n]]
PROOF
  <1> DEFINE I == a + 1 .. b
             g == [n \in 1 .. b - a |-> a + n]
  <1>1. b - a \in Nat /\ I \in SUBSET Int
    OBVIOUS
  <1>2. \A n \in 1 .. b - a : a + n \in I
    OBVIOUS
  <1>3. \A i \in I : i - a \in 1 .. b - a /\ a + (i - a) = i
    OBVIOUS
  <1>4. \A l, m \in 1 .. b - a : l < m => a + l < a + m
    OBVIOUS
  <1> HIDE DEF I
  <1>5. g \in [1 .. b - a -> I] /\ \A n \in 1 .. b - a : g[n] = a + n
    BY <1>2
  <1> HIDE DEF g
  <1>6. \A i \in I : \E n \in 1 .. b - a : g[n] = i
    BY <1>3, <1>5
  <1>7. Ascending(I) = g
    <2> DEFINE w == b - a
    <2>1. /\ w \in Nat /\ g \in [1 .. w -> I] /\ \A i \in I : \E n \in 1 .. w : g[n] = i
          /\ \A l, m \in 1 .. w : l < m => g[l] < g[m]
      BY <1>1, <1>4, <1>5, <1>6
    <2> HIDE DEF w
    <2> QED
      BY <1>1, <2>1, AscendingIs
  <1>8. DOMAIN g = 1 .. b - a
    BY <1>5
  <1> QED
    BY <1>5, <1>7, <1>8 DEF Entries, I

-----------------------------------------------------------------------------
(* Histories stay in the order of their days or timestamps.                *)

\* h is in the order of the keys of its entries.
Increasing(h, key) == \A i, j \in DOMAIN h : i < j => key[h[i]] <= key[h[j]]

\* The trades up to a day, or a moment, are the first ones.
LEMMA FirstOnes ==
  ASSUME NEW R, NEW key, \A x \in R : key[x] \in Int,
         NEW h \in Seq(R), Increasing(h, key), NEW d \in Int
  PROVE  LET I == {i \in DOMAIN h : key[h[i]] <= d} IN
         Cardinality(I) \in 0 .. Len(h) /\ I = 1 .. Cardinality(I)
PROOF
  <1> DEFINE I == {i \in DOMAIN h : key[h[i]] <= d}
  <1>1. Len(h) \in Nat /\ DOMAIN h = 1 .. Len(h)
    BY LenProperties
  <1>2. \A i \in DOMAIN h : key[h[i]] \in Int
    BY <1>1, ElementOfSeq
  <1>3. \E n \in 0 .. Len(h) : I = 1 .. n
    <2>1. CASE I = {}
      BY <1>1, <2>1, 0 \in 0 .. Len(h)
    <2>2. CASE I # {}
      <3>1. I \in SUBSET Int /\ Len(h) \in Int /\ \A i \in I : i <= Len(h)
        BY <1>1
      <3>2. Max(I) \in I /\ \A i \in I : i <= Max(I)
        <4> DEFINE u == Len(h)
        <4>1. u \in Int /\ I # {} /\ I \in SUBSET Int /\ \A i \in I : i <= u
          BY <2>2, <3>1
        <4> HIDE DEF I, u
        <4> QED
          BY <4>1, MaxOfBounded
      <3>3. Max(I) \in 1 .. Len(h) /\ key[h[Max(I)]] <= d
        BY <1>1, <3>2
      <3>4. ASSUME NEW i \in 1 .. Max(I)
            PROVE  i \in I
        <4> HIDE DEF I
        <4>1. i \in DOMAIN h /\ Max(I) \in DOMAIN h /\ (i < Max(I) \/ i = Max(I))
          BY <1>1, <3>3
        <4>2. key[h[i]] \in Int /\ key[h[Max(I)]] \in Int
          BY <1>2, <4>1
        <4>3. key[h[i]] <= key[h[Max(I)]]
          BY <4>1, <4>2 DEF Increasing
        <4>4. key[h[i]] <= d
          BY <3>3, <4>2, <4>3
        <4> QED
          BY <4>1, <4>4 DEF I
      <3>5. \A i \in I : i \in 1 .. Max(I)
        <4>1. \A i \in I : i \in 1 .. Len(h)
          BY <1>1
        <4> HIDE DEF I
        <4> QED
          BY <3>2, <3>3, <4>1
      <3>6. I = 1 .. Max(I)
        BY <3>4, <3>5
      <3> HIDE DEF I
      <3>7. Max(I) \in 0 .. Len(h)
        BY <3>3
      <3> QED
        BY <3>6, <3>7
    <2> QED
      BY <2>1, <2>2
  <1>4. PICK n \in 0 .. Len(h) : I = 1 .. n
    BY <1>3
  <1>5. Cardinality(1 .. n) = n
    <2>1. n \in Int /\ 1 \in Int /\ n >= 0
      BY <1>1
    <2>2. Cardinality(1 .. n) = IF 1 > n THEN 0 ELSE n - 1 + 1
      BY <2>1, FS_Interval
    <2> QED
      BY <2>1, <2>2
  <1> QED
    BY <1>4, <1>5

\* c is a followed by b.
Joint(a, b, c, R) ==
    /\ c \in Seq(R) /\ Len(c) = Len(a) + Len(b)
    /\ \A i \in 1 .. Len(a) + Len(b) : c[i] = IF i <= Len(a) THEN a[i] ELSE b[i - Len(a)]

\* What concatenation does.
LEMMA Joining == ASSUME NEW R, NEW a \in Seq(R), NEW b \in Seq(R) PROVE Joint(a, b, a \o b, R)
PROOF BY ConcatProperties DEF Joint

\* a and b are the entries of h up to n and after n.
Parts(a, b, R, h, N, n) ==
    /\ a \in Seq(R) /\ Len(a) = n /\ \A i \in 1 .. n : a[i] = h[i]
    /\ b \in Seq(R) /\ Len(b) = N - n /\ \A i \in 1 .. N - n : b[i] = h[n + i]

\* The beginning and the end of a sequence.
LEMMA TwoParts ==
  ASSUME NEW R, NEW h \in Seq(R), NEW N \in Nat, N = Len(h), NEW n \in 0 .. N
  PROVE  Parts(SubSeq(h, 1, n), SubSeq(h, n + 1, N), R, h, N, n)
PROOF
  <1>1. \A i \in 1 .. N : h[i] \in R
    BY ElementOfSeq
  <1>2. n \in Nat /\ n <= N /\ 1 \in Int /\ n + 1 \in Int /\ N \in Int /\ n \in Int
    OBVIOUS
  <1>3. (\A i \in 1 .. n : h[i] \in R) /\ (\A i \in n + 1 .. N : h[i] \in R)
    BY <1>1, <1>2
  <1>4. /\ SubSeq(h, 1, n) \in Seq(R)
        /\ Len(SubSeq(h, 1, n)) = IF 1 <= n THEN n - 1 + 1 ELSE 0
        /\ \A i \in 1 .. n - 1 + 1 : SubSeq(h, 1, n)[i] = h[1 + i - 1]
    BY <1>2, <1>3, SubSeqProperties
  <1>5. /\ SubSeq(h, n + 1, N) \in Seq(R)
        /\ Len(SubSeq(h, n + 1, N)) = IF n + 1 <= N THEN N - (n + 1) + 1 ELSE 0
        /\ \A i \in 1 .. N - (n + 1) + 1 : SubSeq(h, n + 1, N)[i] = h[n + 1 + i - 1]
    BY <1>2, <1>3, SubSeqProperties
  <1>6. \A i \in 1 .. n : i \in 1 .. n - 1 + 1 /\ 1 + i - 1 = i
    BY <1>2
  <1>7. \A i \in 1 .. N - n : i \in 1 .. N - (n + 1) + 1 /\ n + 1 + i - 1 = n + i
    BY <1>2
  <1>8. Len(SubSeq(h, 1, n)) = n /\ \A i \in 1 .. n : SubSeq(h, 1, n)[i] = h[i]
    BY <1>2, <1>4, <1>6
  <1>9. /\ Len(SubSeq(h, n + 1, N)) = N - n
        /\ \A i \in 1 .. N - n : SubSeq(h, n + 1, N)[i] = h[n + i]
    <2> DEFINE m == n + 1
               b == SubSeq(h, m, N)
    <2>1. /\ Len(b) = IF m <= N THEN N - m + 1 ELSE 0
          /\ \A i \in 1 .. N - m + 1 : b[i] = h[m + i - 1]
      BY <1>5
    <2>2. \A i \in 1 .. N - n : b[i] = h[n + i]
      <3> HIDE DEF b
      <3> QED
        BY <1>7, <2>1
    <2>3. Len(b) = N - n
      <3> HIDE DEF b
      <3> QED
        BY <1>2, <2>1
    <2> QED
      BY <2>2, <2>3
  <1> DEFINE a == SubSeq(h, 1, n)
             b == SubSeq(h, n + 1, N)
  <1>10. /\ a \in Seq(R) /\ Len(a) = n /\ \A i \in 1 .. n : a[i] = h[i]
         /\ b \in Seq(R) /\ Len(b) = N - n /\ \A i \in 1 .. N - n : b[i] = h[n + i]
    BY <1>4, <1>5, <1>8, <1>9
  <1> HIDE DEF a, b
  <1>11. Parts(a, b, R, h, N, n)
    BY <1>10 DEF Parts
  <1> QED
    BY <1>11 DEF a, b

Inserted(h, key, t) == InsertAt(h, Cardinality({i \in DOMAIN h : key[h[i]] <= key[t]}) + 1, t)

\* A trade goes after those of its time and before later ones.
LEMMA InsertKeeps ==
  ASSUME NEW R, NEW key, \A x \in R : key[x] \in Int,
         NEW h \in Seq(R), Increasing(h, key), NEW t \in R
  PROVE  Inserted(h, key, t) \in Seq(R) /\ Increasing(Inserted(h, key, t), key)
PROOF
  <1> DEFINE I == {i \in DOMAIN h : key[h[i]] <= key[t]}
             n == Cardinality(I)
             N == Len(h)
             k == Inserted(h, key, t)
  <1>1. N \in Nat /\ DOMAIN h = 1 .. N /\ \A i \in DOMAIN h : h[i] \in R
    BY LenProperties, ElementOfSeq
  <1>2. key[t] \in Int /\ \A i \in DOMAIN h : key[h[i]] \in Int
    BY <1>1
  <1>3. n \in 0 .. N /\ I = 1 .. n
    BY <1>2, FirstOnes
  <1>4. k = SubSeq(h, 1, n) \o <<t>> \o SubSeq(h, n + 1, N)
    <2>1. k = InsertAt(h, n + 1, t)
      BY DEF Inserted
    <2>2. n \in Int /\ (n + 1) - 1 = n
      BY <1>3
    <2> HIDE DEF n, k
    <2> QED
      BY <2>1, <2>2 DEF InsertAt
  <1>5. /\ \A i \in 1 .. n : i \in DOMAIN h /\ key[h[i]] <= key[t]
        /\ \A i \in n + 1 .. N : i \in DOMAIN h /\ key[t] < key[h[i]]
    <2>1. \A i \in DOMAIN h : i \in I <=> key[h[i]] <= key[t]
      OBVIOUS
    <2> HIDE DEF n, I, N
    <2>2. \A i \in 1 .. n : i \in 1 .. N
      BY <1>1, <1>3
    <2>3. \A i \in n + 1 .. N : i \in 1 .. N /\ i \notin 1 .. n
      BY <1>1, <1>3
    <2>4. \A i \in 1 .. n : i \in DOMAIN h /\ key[h[i]] <= key[t]
      BY <1>1, <1>3, <2>1, <2>2
    <2>5. ASSUME NEW i \in n + 1 .. N
          PROVE  i \in DOMAIN h /\ key[t] < key[h[i]]
      <3>1. i \in DOMAIN h /\ ~(key[h[i]] <= key[t])
        BY <1>1, <1>3, <2>1, <2>3
      <3>2. key[h[i]] \in Int /\ key[t] \in Int
        BY <1>2, <3>1
      <3> QED
        BY <3>1, <3>2
    <2> QED
      BY <2>4, <2>5
  <1> DEFINE a == SubSeq(h, 1, n)
             b == SubSeq(h, n + 1, N)
  <1>6. /\ a \in Seq(R) /\ Len(a) = n /\ \A i \in 1 .. n : a[i] = h[i]
        /\ b \in Seq(R) /\ Len(b) = N - n /\ \A i \in 1 .. N - n : b[i] = h[n + i]
    <2>1. N = Len(h)
      OBVIOUS
    <2> HIDE DEF n, N, a, b
    <2>2. Parts(SubSeq(h, 1, n), SubSeq(h, n + 1, N), R, h, N, n)
      BY <1>1, <1>3, <2>1, TwoParts
    <2>3. Parts(a, b, R, h, N, n)
      BY <2>2 DEF a, b
    <2> QED
      BY <2>3 DEF Parts
  <1> HIDE DEF n, I, N, k, a, b
  <1>7. <<t>> \in Seq(R) /\ Len(<<t>>) = 1 /\ <<t>>[1] = t
    OBVIOUS
  <1>8. /\ a \o <<t>> \in Seq(R) /\ Len(a \o <<t>>) = n + 1
        /\ \A i \in 1 .. n + 1 : (a \o <<t>>)[i] = IF i <= n THEN a[i] ELSE <<t>>[i - n]
    <2> DEFINE c == <<t>>
    <2>1. c \in Seq(R) /\ Len(c) = 1
      BY <1>7
    <2> HIDE DEF c
    <2>2. Joint(a, c, a \o c, R)
      BY <1>6, <2>1, Joining
    <2>3. Len(a) = n /\ Len(c) = 1
      BY <1>6, <2>1
    <2> QED
      BY <2>2, <2>3 DEF Joint, c
  <1>9. /\ k \in Seq(R) /\ Len(k) = n + 1 + (N - n)
         /\ \A i \in 1 .. n + 1 + (N - n) :
               k[i] = IF i <= n + 1 THEN (a \o <<t>>)[i] ELSE b[i - (n + 1)]
    <2> DEFINE c == a \o <<t>>
    <2>1. k = c \o b /\ c \in Seq(R) /\ Len(c) = n + 1
      BY <1>4, <1>8 DEF a, b
    <2> HIDE DEF c
    <2>2. Joint(c, b, k, R)
      BY <1>6, <2>1, Joining
    <2>3. Len(c) = n + 1 /\ Len(b) = N - n
      BY <1>6, <2>1
    <2> QED
      BY <2>2, <2>3 DEF Joint, c
  <1>10. /\ k \in Seq(R) /\ DOMAIN k = 1 .. N + 1
         /\ \A i \in 1 .. n : k[i] = h[i]
         /\ k[n + 1] = t
         /\ \A i \in n + 2 .. N + 1 : k[i] = h[i - 1]
    <2>1. n \in Nat /\ N \in Nat /\ n <= N
      BY <1>1, <1>3
    <2>2. n + 1 + (N - n) = N + 1
      BY <2>1
    <2>3. DOMAIN k = 1 .. N + 1
      BY <1>9, <2>2, LenProperties
    <2>4. \A i \in 1 .. n : i \in 1 .. N + 1 /\ i \in 1 .. n + 1 /\ i <= n /\ i <= n + 1
      BY <2>1
    <2>5. \A i \in 1 .. n : k[i] = h[i]
      BY <1>6, <1>8, <1>9, <2>2, <2>4
    <2>6. n + 1 \in 1 .. N + 1 /\ n + 1 \in 1 .. n + 1 /\ n + 1 <= n + 1 /\ ~(n + 1 <= n)
          /\ (n + 1) - n = 1
      BY <2>1
    <2>7. k[n + 1] = t
      BY <1>7, <1>8, <1>9, <2>2, <2>6
    <2>8. \A i \in n + 2 .. N + 1 : /\ i \in 1 .. N + 1 /\ ~(i <= n + 1)
                                   /\ i - (n + 1) \in 1 .. N - n /\ n + (i - (n + 1)) = i - 1
      BY <2>1
    <2>9. ASSUME NEW i \in n + 2 .. N + 1
          PROVE  k[i] = h[i - 1]
      <3>1. k[i] = b[i - (n + 1)]
        BY <1>9, <2>2, <2>8
      <3> QED
        BY <1>6, <2>8, <3>1
    <2> QED
      BY <1>9, <2>3, <2>5, <2>7, <2>9
  <1>11. ASSUME NEW i \in DOMAIN k, NEW j \in DOMAIN k, i < j
         PROVE  key[k[i]] <= key[k[j]]
    <2>1. i \in 1 .. N + 1 /\ j \in 1 .. N + 1 /\ n \in Nat /\ N \in Nat /\ n <= N
      BY <1>1, <1>3, <1>10
    <2>2. CASE j <= n
      <3>1. i \in 1 .. n /\ j \in 1 .. n /\ i \in 1 .. N /\ j \in 1 .. N
        BY <1>11, <2>1, <2>2
      <3> QED
        BY <1>1, <1>10, <1>11, <3>1 DEF Increasing
    <2>3. CASE j = n + 1
      <3>1. i \in 1 .. n
        BY <1>11, <2>1, <2>3
      <3> QED
        BY <1>5, <1>10, <2>3, <3>1
    <2>4. CASE j > n + 1
      <3>1. j \in n + 2 .. N + 1 /\ j - 1 \in n + 1 .. N /\ j - 1 \in 1 .. N
        BY <2>1, <2>4
      <3>2. k[j] = h[j - 1] /\ key[t] < key[h[j - 1]]
        BY <1>5, <1>10, <3>1
      <3>3. CASE i <= n
        <4>1. i \in 1 .. n /\ i \in 1 .. N /\ i < j - 1
          BY <2>1, <2>4, <3>3
        <4> QED
          BY <1>1, <1>10, <3>1, <3>2, <4>1 DEF Increasing
      <3>4. CASE i = n + 1
        <4>1. k[i] = t /\ key[h[j - 1]] \in Int
          BY <1>1, <1>2, <1>10, <3>1, <3>4
        <4> QED
          BY <1>2, <3>2, <4>1
      <3>5. CASE i > n + 1
        <4>1. i \in n + 2 .. N + 1 /\ i - 1 \in 1 .. N /\ i - 1 < j - 1
          BY <1>11, <2>1, <3>5
        <4> QED
          BY <1>1, <1>10, <3>1, <3>2, <4>1 DEF Increasing
      <3> QED
        BY <2>1, <3>3, <3>4, <3>5
    <2> QED
      BY <2>1, <2>2, <2>3, <2>4
  <1> QED
    BY <1>10, <1>11 DEF Increasing, k

\* Taking a trade out leaves the others in order.
LEMMA RemoveKeeps ==
  ASSUME NEW R, NEW key, NEW h \in Seq(R), Increasing(h, key), NEW m \in DOMAIN h
  PROVE  RemoveAt(h, m) \in Seq(R) /\ Increasing(RemoveAt(h, m), key)
PROOF
  <1> DEFINE N == Len(h)
             k == RemoveAt(h, m)
             a == SubSeq(h, 1, m - 1)
             b == SubSeq(h, m + 1, N)
  <1>1. N \in Nat /\ DOMAIN h = 1 .. N /\ m \in 1 .. N
    BY LenProperties
  <1>2. k = a \o b
    BY DEF RemoveAt
  <1>3. a \in Seq(R) /\ Len(a) = m - 1 /\ \A i \in 1 .. m - 1 : a[i] = h[i]
    <2>1. m - 1 \in 0 .. N /\ N = Len(h)
      BY <1>1
    <2> HIDE DEF N
    <2>2. Parts(SubSeq(h, 1, m - 1), SubSeq(h, m - 1 + 1, N), R, h, N, m - 1)
      BY <1>1, <2>1, TwoParts
    <2> QED
      BY <2>2 DEF Parts, a
  <1>4. b \in Seq(R) /\ Len(b) = N - m /\ \A i \in 1 .. N - m : b[i] = h[m + i]
    <2>1. m \in 0 .. N /\ N = Len(h)
      BY <1>1
    <2> HIDE DEF N
    <2>2. Parts(SubSeq(h, 1, m), SubSeq(h, m + 1, N), R, h, N, m)
      BY <1>1, <2>1, TwoParts
    <2> QED
      BY <2>2 DEF Parts, b
  <1> HIDE DEF N, k, a, b
  <1>5. /\ k \in Seq(R) /\ Len(k) = (m - 1) + (N - m)
        /\ \A i \in 1 .. (m - 1) + (N - m) :
               k[i] = IF i <= m - 1 THEN a[i] ELSE b[i - (m - 1)]
    <2>1. Joint(a, b, k, R)
      BY <1>2, <1>3, <1>4, Joining
    <2>2. Len(a) = m - 1 /\ Len(b) = N - m
      BY <1>3, <1>4
    <2> QED
      BY <2>1, <2>2 DEF Joint
  <1>6. DOMAIN k = 1 .. N - 1
    <2>1. (m - 1) + (N - m) = N - 1
      BY <1>1
    <2> QED
      BY <1>5, <2>1, LenProperties
  <1>7. ASSUME NEW i \in 1 .. N - 1
        PROVE  \/ i < m /\ k[i] = h[i]
               \/ i >= m /\ k[i] = h[i + 1]
    <2>1. (m - 1) + (N - m) = N - 1
      BY <1>1
    <2>2. CASE i < m
      <3>1. i \in 1 .. m - 1 /\ i <= m - 1
        BY <1>1, <2>2
      <3> QED
        BY <1>3, <1>5, <2>1, <2>2, <3>1
    <2>3. CASE i >= m
      <3>1. ~(i <= m - 1) /\ i - (m - 1) \in 1 .. N - m /\ m + (i - (m - 1)) = i + 1
        BY <1>1, <2>3
      <3> QED
        BY <1>4, <1>5, <2>1, <2>3, <3>1
    <2> QED
      BY <1>1, <2>2, <2>3
  <1>8. ASSUME NEW i \in DOMAIN k, NEW j \in DOMAIN k, i < j
        PROVE  key[k[i]] <= key[k[j]]
    <2>1. i \in 1 .. N - 1 /\ j \in 1 .. N - 1
      BY <1>6
    <2>2. PICK c \in 1 .. N : k[i] = h[c] /\ ((c = i /\ i < m) \/ (c = i + 1 /\ i >= m))
      <3>1. i \in 1 .. N /\ i + 1 \in 1 .. N
        BY <1>1, <2>1
      <3> QED
        BY <1>7, <2>1, <3>1
    <2>3. PICK d \in 1 .. N : k[j] = h[d] /\ ((d = j /\ j < m) \/ (d = j + 1 /\ j >= m))
      <3>1. j \in 1 .. N /\ j + 1 \in 1 .. N
        BY <1>1, <2>1
      <3> QED
        BY <1>7, <2>1, <3>1
    <2>4. c < d
      BY <1>1, <1>8, <2>1, <2>2, <2>3
    <2> QED
      BY <1>1, <2>2, <2>3, <2>4 DEF Increasing
  <1> QED
    BY <1>5, <1>8 DEF Increasing, k

-----------------------------------------------------------------------------
(* The account.                                                            *)

\* The trades of the first n days.
Records(n) == [day : 0 .. n, pnl : Pnls]
ByDay(h)   == \A i, j \in DOMAIN h : i < j => h[i].day <= h[j].day

\* Both operations on them keep them in order.
LEMMA DaysKept ==
  ASSUME NEW R, R \subseteq [day : Int, pnl : Int], NEW h \in Seq(R), ByDay(h)
  PROVE  /\ \A t \in R : InOrder(h, t) \in Seq(R) /\ ByDay(InOrder(h, t))
         /\ \A m \in DOMAIN h : RemoveAt(h, m) \in Seq(R) /\ ByDay(RemoveAt(h, m))
PROOF
  <1> DEFINE key == [x \in R |-> x.day]
  <1>1. \A x \in R : key[x] = x.day /\ key[x] \in Int
    OBVIOUS
  <1>2. \A g \in Seq(R) : Increasing(g, key) <=> ByDay(g)
    <2> SUFFICES ASSUME NEW g \in Seq(R) PROVE Increasing(g, key) <=> ByDay(g)
      OBVIOUS
    <2>1. \A i \in DOMAIN g : key[g[i]] = g[i].day
      BY LenProperties, ElementOfSeq, <1>1
    <2> HIDE DEF key
    <2> QED
      BY <2>1 DEF Increasing, ByDay
  <1>3. ASSUME NEW t \in R
        PROVE  InOrder(h, t) = Inserted(h, key, t)
    <2>1. \A i \in DOMAIN h : key[h[i]] = h[i].day
      BY LenProperties, ElementOfSeq, <1>1
    <2>2. {i \in DOMAIN h : h[i].day <= t.day} = {i \in DOMAIN h : key[h[i]] <= key[t]}
      BY <1>1, <2>1
    <2> HIDE DEF key
    <2> QED
      BY <2>2 DEF InOrder, Inserted
  <1> HIDE DEF key
  <1>4. Increasing(h, key)
    BY <1>2
  <1>5. ASSUME NEW t \in R
        PROVE  InOrder(h, t) \in Seq(R) /\ ByDay(InOrder(h, t))
    BY <1>1, <1>2, <1>3, <1>4, InsertKeeps
  <1>6. ASSUME NEW m \in DOMAIN h
        PROVE  RemoveAt(h, m) \in Seq(R) /\ ByDay(RemoveAt(h, m))
    BY <1>2, <1>4, RemoveKeeps
  <1> QED
    BY <1>5, <1>6

\* They make up histories.
LEMMA RecordsAreHistory ==
  ASSUME NEW n \in Nat, NEW h \in Seq(Records(n))
  PROVE  h \in Histories /\ Records(n) \subseteq [day : Int, pnl : Int]
PROOF
  <1>1. 0 .. n \subseteq Int /\ Pnls \subseteq Int
    BY AccountAssumption
  <1>2. Records(n) \subseteq [day : Int, pnl : Int]
    <2> SUFFICES ASSUME NEW x \in Records(n) PROVE x \in [day : Int, pnl : Int]
      OBVIOUS
    <2>1. PICK d \in 0 .. n, p \in Pnls : x = [day |-> d, pnl |-> p]
      BY DEF Records
    <2> QED
      BY <1>1, <2>1
  <1> QED
    BY <1>2, SeqMonotonic DEF Histories

\* The user's trades are a history in the order of its days.
LEMMA TradesAreHistory ==
  ASSUME PropTypeOK
  PROVE  /\ accountTrades \in Seq(Records(today)) /\ ByDay(accountTrades)
         /\ today \in Nat /\ accountTrades \in Histories
         /\ Records(today) \subseteq [day : Int, pnl : Int]
PROOF
  <1>1. today \in Nat
    BY AccountAssumption DEF PropTypeOK
  <1>2. accountTrades \in Seq(Records(today)) /\ ByDay(accountTrades)
    BY DEF PropTypeOK, Records, ByDay
  <1> QED
    BY <1>1, <1>2, RecordsAreHistory

\* An account starts with no trades, and every operation keeps them in order.
LEMMA PropStarts == PropInit => PropTypeOK
PROOF
  <1> SUFFICES ASSUME PropInit PROVE PropTypeOK
    OBVIOUS
  <1>1. account = None /\ accountTrades = <<>> /\ today = 0
    BY DEF PropInit
  <1>2. accountTrades \in Seq([day : 0 .. today, pnl : Pnls]) /\ DOMAIN accountTrades = {}
    BY <1>1
  <1>3. today \in 0 .. LastDay
    BY <1>1, AccountAssumption
  <1> QED
    BY <1>1, <1>2, <1>3 DEF PropTypeOK

\* Each operation on the account or its trades keeps them so.
LEMMA PropSteps == PropTypeOK /\ [PropNext]_propVars => PropTypeOK'
PROOF
  <1> SUFFICES ASSUME PropTypeOK, [PropNext]_propVars PROVE PropTypeOK'
    OBVIOUS
  <1>1. /\ accountTrades \in Seq(Records(today)) /\ ByDay(accountTrades)
        /\ today \in 0 .. LastDay /\ today \in Nat
        /\ Records(today) \subseteq [day : Int, pnl : Int]
    BY TradesAreHistory DEF PropTypeOK, Records, ByDay
  <1>2. ASSUME NEW plan \in Plans, NEW asked \in Overrides, CreateAccount(plan, asked)
        PROVE  PropTypeOK'
    <2>1. DOMAIN account' = DOMAIN RuleSet(0, 0, "static", 0, 0, 0, 0)
      BY <1>2 DEF CreateAccount, StoredRules, RuleSet
    <2> QED
      BY <1>2, <2>1 DEF CreateAccount, PropTypeOK
  <1>3. CASE DeleteAccount
    BY <1>3 DEF DeleteAccount, PropTypeOK
  <1>4. ASSUME NEW d \in 0 .. today, NEW p \in Pnls, Import([day |-> d, pnl |-> p])
        PROVE  PropTypeOK'
    <2> DEFINE t == [day |-> d, pnl |-> p]
    <2>1. t \in Records(today)
      BY DEF Records
    <2>2. accountTrades' = InOrder(accountTrades, t) /\ UNCHANGED <<account, today>>
      BY <1>4 DEF Import
    <2>3. accountTrades' \in Seq(Records(today)) /\ ByDay(accountTrades')
      <3> HIDE DEF t
      <3> QED
        BY <1>1, <2>1, <2>2, DaysKept
    <2> QED
      BY <2>2, <2>3 DEF PropTypeOK, Records, ByDay
  <1>5. ASSUME NEW i \in DOMAIN accountTrades, DeleteTrade(i)
        PROVE  PropTypeOK'
    <2>1. accountTrades' = RemoveAt(accountTrades, i) /\ UNCHANGED <<account, today>>
      BY <1>5 DEF DeleteTrade
    <2>2. accountTrades' \in Seq(Records(today)) /\ ByDay(accountTrades')
      BY <1>1, <2>1, DaysKept
    <2> QED
      BY <2>1, <2>2 DEF PropTypeOK, Records, ByDay
  <1>6. CASE NextDay
    <2>1. today' = today + 1 /\ today < LastDay /\ UNCHANGED <<account, accountTrades>>
      BY <1>6 DEF NextDay
    <2>2. Records(today) \subseteq Records(today') /\ today' \in 0 .. LastDay
      BY <1>1, <2>1, AccountAssumption DEF Records
    <2>3. accountTrades' \in Seq(Records(today'))
      BY <1>1, <2>1, <2>2, SeqMonotonic
    <2> QED
      BY <1>1, <2>1, <2>2, <2>3 DEF PropTypeOK, Records, ByDay
  <1>7. CASE UNCHANGED propVars
    BY <1>7 DEF propVars, PropTypeOK
  <1> QED
    BY <1>2, <1>3, <1>4, <1>5, <1>6, <1>7 DEF PropNext

\* Type correctness of an account and its trades.
THEOREM PropTypeCorrect == PropSpec => []PropTypeOK
PROOF BY PropStarts, PropSteps, PTL DEF PropSpec

\* For any history the one pass over the trades finds the worst net loss over a run of
\* trades: any run for a trailing drawdown, a run from the first trade for a static
\* one (prop_rules.py:208-217).
THEOREM DrawdownExact == PropSpec => []DrawdownAgrees
PROOF
  <1>1. PropTypeOK => DrawdownAgrees
    BY TradesAreHistory, DrawdownIsWorstRun DEF DrawdownAgrees
  <1> QED
    BY <1>1, PropTypeCorrect, PTL

\* A drawdown violation stays on the report while the history grows at its end, for
\* every plan of every firm (prop_rules.py:208-257).
THEOREM DrawdownIsFinal == PropSpec => DrawdownSticks
PROOF
  <1>1. PropTypeOK /\ PropTypeOK' => Sticks
    <2> SUFFICES ASSUME PropTypeOK, PropTypeOK', NEW plan \in DOMAIN Presets,
                        IsPrefix(accountTrades, accountTrades'),
                        ComplianceReport(accountTrades, Presets[plan], today).drawdown = "violated"
                 PROVE  ComplianceReport(accountTrades', Presets[plan], today').drawdown = "violated"
      BY DEF Sticks
    <2> DEFINE rules == Presets[plan]
               used  == Drawdown(accountTrades, rules.type)
               later == Drawdown(accountTrades', rules.type)
               limit == Pct(rules.drawdown)
    <2>1. accountTrades \in Histories
      BY TradesAreHistory
    <2>2. accountTrades' \in Histories
      <3>1. today' \in Nat
        BY AccountAssumption DEF PropTypeOK
      <3>2. accountTrades' \in Seq(Records(today'))
        BY DEF PropTypeOK, Records
      <3> QED
        BY <3>1, <3>2, RecordsAreHistory
    <2>3. used <= later /\ used \in Int /\ later \in Int
      <3> HIDE DEF rules
      <3> QED
        BY <2>1, <2>2, DrawdownIsWorstRun, WorstRunGrows
    <2>4. limit \in Int
      <3>1. rules.drawdown \in {8, 10}
        BY DEF Presets, RuleSet
      <3>2. Balance * rules.drawdown \in Int
        BY <3>1, AccountAssumption
      <3> HIDE DEF rules
      <3> QED
        BY <3>2 DEF Pct
    <2>5. Status(used, limit) = "violated"
      BY DEF ComplianceReport
    <2>6. Status(later, limit) = "violated"
      <3> HIDE DEF used, later, limit
      <3>1. ~(limit <= 0) /\ used >= limit
        BY <2>3, <2>4, <2>5 DEF Status
      <3> QED
        BY <2>3, <2>4, <3>1 DEF Status
    <2> QED
      BY <2>6 DEF ComplianceReport
  <1> QED
    BY <1>1, PropTypeCorrect, PTL DEF DrawdownSticks

\* Where no day exceeds its share of the winning days' profit there are enough of them
\* (prop_rules.py:289-310).
THEOREM ConsistencyNeedsDays == PropSpec => []ConsistentNeedsDays
PROOF
  <1>1. PropTypeOK => ConsistentNeedsDays
    BY TradesAreHistory, ConsistentHistory DEF ConsistentNeedsDays
  <1> QED
    BY <1>1, PropTypeCorrect, PTL
=============================================================================
