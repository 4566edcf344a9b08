-------------------------------- MODULE Sums --------------------------------
(***************************************************************************)
(* Sums over finite sets: MapThenSumSet satisfies the equation it is       *)
(* defined by, and does not depend on the order of choice.  Induction is   *)
(* by the smallest counterexample.                                         *)
(***************************************************************************)
EXTENDS Integers, FiniteSets, FiniteSetsExt, FiniteSetTheorems, WellFoundedInduction, TLAPS

SumOf(V, S) == MapThenSumSet(LAMBDA n : V[n], S)

\* A set of finite subsets that is not empty has a smallest member.
LEMMA SmallestSubset ==
  ASSUME NEW S, IsFiniteSet(S), NEW Bad, Bad \subseteq SUBSET S, Bad # {}
  PROVE  \E T \in Bad : \A U \in Bad : ~(U \subseteq T /\ U # T)
<1>1. IsWellFoundedOn(StrictSubsetOrdering(S), SUBSET S)
  BY FS_StrictSubsetOrderingWellFounded, FS_FiniteSubsetsOfFinite
<1>2. PICK T \in Bad : \A U \in Bad : <<U, T>> \notin StrictSubsetOrdering(S)
  BY <1>1, WFMin
<1> QED
  BY <1>2 DEF StrictSubsetOrdering

Pick(s) == CHOOSE x \in s : TRUE
Recurs(V, f, D) ==
  f = [s \in D |-> IF s = {} THEN 0 ELSE V[Pick(s)] + f[s \ {Pick(s)}]]

LEMMA SumIsFold ==
  ASSUME NEW V, NEW S
  PROVE  SumOf(V, S) = (CHOOSE f : Recurs(V, f, SUBSET S))[S]
BY DEF SumOf, MapThenSumSet, MapThenFoldSet, Recurs, Pick

LEMMA PickIn == \A s : s # {} => Pick(s) \in s
BY DEF Pick

Sized(S, n) == {s \in SUBSET S : Cardinality(s) <= n}

LEMMA SmallFold ==
  ASSUME NEW V, NEW S, IsFiniteSet(S), NEW n \in Nat, NEW f, Recurs(V, f, Sized(S, n))
  PROVE  \E g : Recurs(V, g, Sized(S, n + 1))
<1> DEFINE g == [s \in Sized(S, n + 1) |-> IF s = {} THEN 0 ELSE V[Pick(s)] + f[s \ {Pick(s)}]]
<1>1. \A s \in SUBSET S : IsFiniteSet(s) /\ Cardinality(s) \in Nat
  BY FS_Subset, FS_CardinalityType
<1>2. \A s \in Sized(S, n) : s \in Sized(S, n + 1)
  BY <1>1 DEF Sized
<1>3. \A s \in Sized(S, n) : f[s] = IF s = {} THEN 0 ELSE V[Pick(s)] + f[s \ {Pick(s)}]
  BY DEF Recurs
<1>4. \A s \in Sized(S, n) : g[s] = f[s]
  BY <1>2, <1>3
<1>5. \A s \in Sized(S, n + 1) : s # {} => s \ {Pick(s)} \in Sized(S, n)
  <2> SUFFICES ASSUME NEW s \in Sized(S, n + 1), s # {} PROVE s \ {Pick(s)} \in Sized(S, n)
    OBVIOUS
  <2>1. s \in SUBSET S /\ Cardinality(s) <= n + 1
    BY DEF Sized
  <2>2. Cardinality(s \ {Pick(s)}) = Cardinality(s) - 1
    BY <1>1, <2>1, PickIn, FS_RemoveElement
  <2> QED
    BY <1>1, <2>1, <2>2 DEF Sized
<1>6. g = [s \in Sized(S, n + 1) |-> IF s = {} THEN 0 ELSE V[Pick(s)] + g[s \ {Pick(s)}]]
  BY <1>4, <1>5
<1> QED
  BY <1>6 DEF Recurs

LEMMA FoldExists ==
  ASSUME NEW V, NEW S, IsFiniteSet(S)
  PROVE  \E f : Recurs(V, f, SUBSET S)
<1> DEFINE Bad == {n \in Nat : ~ \E f : Recurs(V, f, Sized(S, n))}
<1>1. \A s \in SUBSET S : IsFiniteSet(s) /\ Cardinality(s) \in Nat
  BY FS_Subset, FS_CardinalityType
<1>2. \E f : Recurs(V, f, Sized(S, 0))
  <2>1. Sized(S, 0) = {{}}
    BY <1>1, FS_EmptySet DEF Sized
  <2>2. Recurs(V, [s \in {{}} |-> 0], {{}})
    BY DEF Recurs
  <2> QED
    BY <2>1, <2>2
<1>3. Bad = {}
  <2> SUFFICES ASSUME Bad # {} PROVE FALSE
    OBVIOUS
  <2>1. PICK m \in Bad : \A k \in Bad : <<k, m>> \notin OpToRel(<, Nat)
    <3> HIDE DEF Bad
    <3>1. Bad \subseteq Nat
      BY DEF Bad
    <3> QED
      BY <3>1, NatLessThanWellFounded, WFMin
  <2>2. \A k \in Bad : ~(k < m)
    BY <2>1 DEF OpToRel
  <2>3. m # 0 /\ m \in Nat
    BY <1>2
  <2>4. m - 1 \in Nat /\ m - 1 \notin Bad
    BY <2>2, <2>3
  <2>5. PICK f : Recurs(V, f, Sized(S, m - 1))
    BY <2>4
  <2>6. \E g : Recurs(V, g, Sized(S, (m - 1) + 1))
    BY <2>4, <2>5, SmallFold
  <2>7. (m - 1) + 1 = m
    BY <2>3
  <2> QED
    BY <2>6, <2>7
<1>4. Sized(S, Cardinality(S)) = SUBSET S
  BY <1>1, FS_Subset DEF Sized
<1>5. Cardinality(S) \in Nat
  BY FS_CardinalityType
<1>6. \E f : Recurs(V, f, Sized(S, Cardinality(S)))
  BY <1>3, <1>5
<1> QED
  BY <1>4, <1>6

\* Folds agree wherever both are defined.
LEMMA FoldUnique ==
  ASSUME NEW V, NEW S, IsFiniteSet(S), NEW T \in SUBSET S, NEW f, NEW g,
         Recurs(V, f, SUBSET S), Recurs(V, g, SUBSET T)
  PROVE  f[T] = g[T]
<1> DEFINE Bad == {s \in SUBSET T : f[s] # g[s]}
<1> SUFFICES ASSUME Bad # {} PROVE FALSE
  OBVIOUS
<1>1. Bad \subseteq SUBSET T /\ IsFiniteSet(T)
  BY FS_Subset
<1>2. PICK s \in Bad : \A u \in Bad : ~(u \subseteq s /\ u # s)
  <2> HIDE DEF Bad
  <2> QED
    BY <1>1, SmallestSubset
<1>3. /\ f[s] = IF s = {} THEN 0 ELSE V[Pick(s)] + f[s \ {Pick(s)}]
      /\ g[s] = IF s = {} THEN 0 ELSE V[Pick(s)] + g[s \ {Pick(s)}]
  BY DEF Recurs
<1>4. s # {} /\ f[s \ {Pick(s)}] # g[s \ {Pick(s)}]
  BY <1>3
<1>5. Pick(s) \in s
  BY <1>4, PickIn
<1> QED
  BY <1>2, <1>4, <1>5

\* What the fold does to one set.
LEMMA SumStep ==
  ASSUME NEW V, NEW S, IsFiniteSet(S)
  PROVE  /\ SumOf(V, {}) = 0
         /\ S # {} => SumOf(V, S) = V[Pick(S)] + SumOf(V, S \ {Pick(S)})
<1> DEFINE F(T) == CHOOSE f : Recurs(V, f, SUBSET T)
<1>1. ASSUME NEW T, IsFiniteSet(T) PROVE Recurs(V, F(T), SUBSET T) /\ SumOf(V, T) = F(T)[T]
  <2>1. \E f : Recurs(V, f, SUBSET T)
    BY <1>1, FoldExists
  <2> QED
    BY <2>1, SumIsFold
<1> HIDE DEF F
<1>2. SumOf(V, {}) = 0
  <2>1. Recurs(V, F({}), SUBSET {}) /\ SumOf(V, {}) = F({})[{}]
    BY <1>1, FS_EmptySet
  <2> QED
    BY <2>1 DEF Recurs
<1>3. ASSUME S # {} PROVE SumOf(V, S) = V[Pick(S)] + SumOf(V, S \ {Pick(S)})
  <2> DEFINE T == S \ {Pick(S)}
  <2>1. T \in SUBSET S /\ IsFiniteSet(T)
    BY FS_Subset
  <2> HIDE DEF T
  <2>2. Recurs(V, F(S), SUBSET S) /\ SumOf(V, S) = F(S)[S]
    BY <1>1
  <2>3. Recurs(V, F(T), SUBSET T) /\ SumOf(V, T) = F(T)[T]
    BY <1>1, <2>1
  <2>4. F(S)[T] = F(T)[T]
    BY <2>1, <2>2, <2>3, FoldUnique
  <2>5. F(S)[S] = V[Pick(S)] + F(S)[T]
    BY <1>3, <2>2 DEF Recurs, T
  <2> QED
    BY <2>2, <2>3, <2>4, <2>5 DEF T
<1> QED
  BY <1>2, <1>3

\* A sum of naturals is a natural.
LEMMA SumType ==
  ASSUME NEW V, NEW S, IsFiniteSet(S), \A x \in S : V[x] \in Nat
  PROVE  SumOf(V, S) \in Nat
<1> DEFINE Bad == {T \in SUBSET S : SumOf(V, T) \notin Nat}
<1> SUFFICES ASSUME Bad # {} PROVE FALSE
  OBVIOUS
<1>1. PICK T \in Bad : \A U \in Bad : ~(U \subseteq T /\ U # T)
  <2> HIDE DEF Bad
  <2>1. Bad \subseteq SUBSET S
    BY DEF Bad
  <2> QED
    BY <2>1, SmallestSubset
<1>2. IsFiniteSet(T)
  BY FS_Subset
<1>3. T # {} /\ SumOf(V, T) = V[Pick(T)] + SumOf(V, T \ {Pick(T)})
  BY <1>2, SumStep
<1>4. Pick(T) \in T /\ V[Pick(T)] \in Nat
  BY <1>3, PickIn
<1>5. SumOf(V, T \ {Pick(T)}) \in Nat
  BY <1>1, <1>4
<1> QED
  BY <1>3, <1>4, <1>5

\* Any element may be taken out first.
LEMMA SumRemove ==
  ASSUME NEW V, NEW S, IsFiniteSet(S), \A x \in S : V[x] \in Nat, NEW x \in S
  PROVE  SumOf(V, S) = V[x] + SumOf(V, S \ {x})
<1> DEFINE Bad == {T \in SUBSET S : \E z \in T : SumOf(V, T) # V[z] + SumOf(V, T \ {z})}
<1> SUFFICES ASSUME Bad # {} PROVE FALSE
  OBVIOUS
<1>1. PICK T \in Bad : \A U \in Bad : ~(U \subseteq T /\ U # T)
  <2> HIDE DEF Bad
  <2>1. Bad \subseteq SUBSET S
    BY DEF Bad
  <2> QED
    BY <2>1, SmallestSubset
<1>2. PICK z \in T : SumOf(V, T) # V[z] + SumOf(V, T \ {z})
  OBVIOUS
<1> DEFINE y == Pick(T)
           U == (T \ {y}) \ {z}
<1>3. IsFiniteSet(T) /\ T # {} /\ T \subseteq S
  BY FS_Subset
<1>4. y \in T /\ SumOf(V, T) = V[y] + SumOf(V, T \ {y})
  BY <1>3, SumStep, PickIn
<1> HIDE DEF y
<1>5. y # z
  BY <1>2, <1>4
<1>6. SumOf(V, T \ {y}) = V[z] + SumOf(V, U)
  <2>1. T \ {y} \notin Bad
    BY <1>1, <1>4
  <2> QED
    BY <1>3, <1>5, <2>1
<1>7. SumOf(V, T \ {z}) = V[y] + SumOf(V, U)
  <2>1. T \ {z} \notin Bad
    BY <1>1, <1>2
  <2>2. SumOf(V, T \ {z}) = V[y] + SumOf(V, (T \ {z}) \ {y})
    BY <1>3, <1>4, <1>5, <2>1
  <2>3. (T \ {z}) \ {y} = U
    OBVIOUS
  <2> QED
    BY <2>2, <2>3
<1>8. V[y] \in Nat /\ V[z] \in Nat /\ SumOf(V, U) \in Nat
  <2>1. IsFiniteSet(U) /\ \A u \in U : V[u] \in Nat
    BY <1>3, FS_Subset
  <2> QED
    BY <1>3, <1>4, <2>1, SumType
<1> QED
  BY <1>2, <1>4, <1>6, <1>7, <1>8

LEMMA SumEmpty == ASSUME NEW V PROVE SumOf(V, {}) = 0
BY SumStep, FS_EmptySet

LEMMA SumInsert ==
  ASSUME NEW V, NEW S, IsFiniteSet(S), NEW x, x \notin S, \A y \in S \cup {x} : V[y] \in Nat
  PROVE  SumOf(V, S \cup {x}) = SumOf(V, S) + V[x]
<1>1. IsFiniteSet(S \cup {x}) /\ (S \cup {x}) \ {x} = S
  BY FS_AddElement
<1>2. SumOf(V, S \cup {x}) = V[x] + SumOf(V, (S \cup {x}) \ {x})
  BY <1>1, SumRemove
<1>3. SumOf(V, S) \in Nat /\ V[x] \in Nat
  BY SumType
<1>4. SumOf(V, S \cup {x}) = V[x] + SumOf(V, S)
  BY <1>1, <1>2
<1> QED
  BY <1>3, <1>4

LEMMA SumOne ==
  ASSUME NEW V, NEW x, V[x] \in Nat
  PROVE  SumOf(V, {x}) = V[x]
<1>1. SumOf(V, {} \cup {x}) = SumOf(V, {}) + V[x]
  BY SumInsert, FS_EmptySet
<1> QED
  BY <1>1, SumEmpty

LEMMA SumTwo ==
  ASSUME NEW V, NEW x, NEW y, x # y, V[x] \in Nat, V[y] \in Nat
  PROVE  SumOf(V, {x, y}) = V[x] + V[y]
<1>1. SumOf(V, {x} \cup {y}) = SumOf(V, {x}) + V[y]
  BY SumInsert, FS_Singleton
<1> QED
  BY <1>1, SumOne

\* Disjoint parts are summed apart.
LEMMA SumUnion ==
  ASSUME NEW V, NEW S, IsFiniteSet(S), NEW T, IsFiniteSet(T), S \cap T = {},
         \A x \in S \cup T : V[x] \in Nat
  PROVE  SumOf(V, S \cup T) = SumOf(V, S) + SumOf(V, T)
<1> DEFINE Bad == {U \in SUBSET T : SumOf(V, S \cup U) # SumOf(V, S) + SumOf(V, U)}
<1> SUFFICES ASSUME Bad # {} PROVE FALSE
  OBVIOUS
<1>1. PICK U \in Bad : \A W \in Bad : ~(W \subseteq U /\ W # U)
  <2> HIDE DEF Bad
  <2>1. Bad \subseteq SUBSET T
    BY DEF Bad
  <2> QED
    BY <2>1, SmallestSubset
<1>2. SumOf(V, S) \in Nat
  BY SumType
<1>3. PICK x \in U : TRUE
  <2>1. S \cup {} = S
    OBVIOUS
  <2> QED
    BY <1>2, <2>1, SumEmpty
<1> DEFINE W == U \ {x}
<1>4. IsFiniteSet(W) /\ IsFiniteSet(S \cup W) /\ W \notin Bad /\ W \in SUBSET T
  BY <1>1, FS_Subset, FS_Union
<1>5. SumOf(V, S \cup W) = SumOf(V, S) + SumOf(V, W)
  BY <1>4
<1>6. U = W \cup {x} /\ S \cup U = (S \cup W) \cup {x} /\ x \notin W /\ x \notin S
  OBVIOUS
<1>7. V[x] \in Nat /\ \A y \in S \cup W : V[y] \in Nat
  OBVIOUS
<1> HIDE DEF W
<1>8. SumOf(V, W \cup {x}) = SumOf(V, W) + V[x]
  BY <1>4, <1>6, <1>7, SumInsert
<1>9. SumOf(V, (S \cup W) \cup {x}) = SumOf(V, S \cup W) + V[x]
  BY <1>4, <1>6, <1>7, SumInsert
<1>10. SumOf(V, W) \in Nat
  BY <1>4, <1>7, SumType
<1>11. SumOf(V, S \cup U) = SumOf(V, S) + SumOf(V, U)
  <2>1. SumOf(V, S \cup U) = SumOf(V, S \cup W) + V[x]
    BY <1>6, <1>9
  <2>2. SumOf(V, U) = SumOf(V, W) + V[x]
    BY <1>6, <1>8
  <2> QED
    BY <1>2, <1>5, <1>7, <1>10, <2>1, <2>2
<1> QED
  BY <1>11
=============================================================================
