----------------------- MODULE RefundDistribution_proof -----------------------
(***************************************************************************)
(* Proofs about RefundDistribution: the sums, the Largest Remainder Method *)
(* for any number of lines, and what the requests keep true of the lines   *)
(* and the refunds.                                                        *)
(***************************************************************************)
EXTENDS RefundDistribution, FiniteSetTheorems, WellFoundedInduction, TLAPS

-----------------------------------------------------------------------------
(* Induction over a finite set, with the facts it proves given as a set.   *)

\* Among subsets of a finite set there is one that contains no other of them.
LEMMA LeastSubset ==
  ASSUME NEW S, IsFiniteSet(S), NEW C, C \subseteq SUBSET S, C # {}
  PROVE  \E T \in C : \A U \in C : ~(U \subseteq T /\ U # T)
<1>1. IsWellFoundedOn(StrictSubsetOrdering(S), FiniteSubsetsOf(S))
  BY FS_StrictSubsetOrderingWellFounded
<1>2. FiniteSubsetsOf(S) = SUBSET S
  BY FS_FiniteSubsetsOfFinite
<1>3. \E T \in C : \A U \in C : <<U, T>> \notin StrictSubsetOrdering(S)
  BY <1>1, <1>2, WFMin
<1> QED BY <1>3 DEF StrictSubsetOrdering

\* What holds of the empty set and of a set with one element more holds of all.
LEMMA OneByOne ==
  ASSUME NEW S, IsFiniteSet(S), NEW C, {} \in C,
         \A T \in SUBSET S : \A x \in S \ T : T \in C => T \cup {x} \in C
  PROVE  S \in C
<1> DEFINE D == {T \in SUBSET S : T \notin C}
<1>1. SUFFICES ASSUME S \notin C PROVE FALSE
  OBVIOUS
<1>2. PICK T \in D : \A U \in D : ~(U \subseteq T /\ U # T)
  <2>1. D \subseteq SUBSET S /\ D # {}
    BY <1>1
  <2> HIDE DEF D
  <2> QED BY <2>1, LeastSubset
<1>3. PICK x \in T : TRUE
  OBVIOUS
<1>4. T \ {x} \in C
  BY <1>2, <1>3
<1>5. T = (T \ {x}) \cup {x} /\ x \in S \ (T \ {x}) /\ T \ {x} \in SUBSET S
  BY <1>3
<1> QED BY <1>4, <1>5

-----------------------------------------------------------------------------
(* Sums: the fold of the community modules, one element at a time.         *)

Pick(s) == CHOOSE x \in s : TRUE
Unfolds(it, S, f) ==
    it = [s \in SUBSET S |-> IF s = {} THEN 0 ELSE f[Pick(s)] + it[s \ {Pick(s)}]]
Unfolding(S, f) == CHOOSE it : Unfolds(it, S, f)

LEMMA PickIn == ASSUME NEW s, s # {} PROVE Pick(s) \in s
  BY DEF Pick

LEMMA OverUnfolding == ASSUME NEW S, NEW f PROVE Over(S, f) = Unfolding(S, f)[S]
  BY Zenon DEF Over, SumFunctionOnSet, FoldFunctionOnSet, MapThenFoldSet, Unfolding, Unfolds, Pick

LEMMA UnfoldsAgree ==
  ASSUME NEW f, NEW T, IsFiniteSet(T), NEW U, U \subseteq T,
         NEW g, Unfolds(g, T, f), NEW h, Unfolds(h, U, f)
  PROVE  g[U] = h[U]
<1> DEFINE C == {W \in SUBSET U : g[W] # h[W]}
<1>1. SUFFICES ASSUME C # {} PROVE FALSE
  OBVIOUS
<1>2. IsFiniteSet(U)
  BY FS_Subset
<1>3. PICK W \in C : \A V \in C : ~(V \subseteq W /\ V # W)
  <2> HIDE DEF C
  <2>1. C \subseteq SUBSET U
    BY DEF C
  <2> QED BY <1>1, <1>2, <2>1, LeastSubset
<1>4. W \in SUBSET U /\ W \in SUBSET T /\ g[W] # h[W]
  OBVIOUS
<1>5. W # {}
  BY <1>4, {} \in SUBSET U, {} \in SUBSET T DEF Unfolds
<1>6. Pick(W) \in W
  BY <1>5, PickIn
<1> DEFINE V == W \ {Pick(W)}
<1>7. V \in SUBSET U /\ V \in SUBSET T /\ V # W /\ V \subseteq W
  BY <1>4, <1>6
<1>8. g[V] = h[V]
  BY <1>3, <1>7
<1>9. g[W] = f[Pick(W)] + g[V] /\ h[W] = f[Pick(W)] + h[V]
  BY <1>4, <1>5 DEF Unfolds
<1> QED BY <1>4, <1>8, <1>9

LEMMA UnfoldingExists ==
  ASSUME NEW S, IsFiniteSet(S), NEW f
  PROVE  Unfolds(Unfolding(S, f), S, f)
<1> DEFINE C == {T \in SUBSET S : ~ \E g : Unfolds(g, T, f)}
<1>1. SUFFICES C = {}
  <2>1. ASSUME C = {} PROVE \E g : Unfolds(g, S, f)
    BY <2>1
  <2> QED BY <2>1 DEF Unfolding
<1>2. SUFFICES ASSUME C # {} PROVE FALSE
  OBVIOUS
<1>3. PICK T \in C : \A U \in C : ~(U \subseteq T /\ U # T)
  <2> HIDE DEF C
  <2>1. C \subseteq SUBSET S
    BY DEF C
  <2> QED BY <1>2, <2>1, LeastSubset
<1>4. T \in SUBSET S /\ ~ \E g : Unfolds(g, T, f)
  OBVIOUS
<1>5. ASSUME NEW U \in SUBSET T, U # T PROVE Unfolds(Unfolding(U, f), U, f)
  <2>1. U \in SUBSET S /\ U \notin C
    BY <1>3, <1>4, <1>5
  <2>2. \E g : Unfolds(g, U, f)
    BY <2>1
  <2> QED BY <2>2 DEF Unfolding
<1> DEFINE sub(s) == Unfolding(s \ {Pick(s)}, f)[s \ {Pick(s)}]
           g == [s \in SUBSET T |-> IF s = {} THEN 0 ELSE f[Pick(s)] + sub(s)]
<1>6. ASSUME NEW s \in SUBSET T, s # {} PROVE g[s \ {Pick(s)}] = sub(s)
  <2> DEFINE W == s \ {Pick(s)}
  <2>1. Pick(s) \in s
    BY <1>6, PickIn
  <2>2. W \in SUBSET T /\ W # T
    BY <2>1
  <2>3. Unfolds(Unfolding(W, f), W, f)
    BY <2>2, <1>5
  <2>4. CASE W = {}
    <3>1. g[W] = 0
      BY <2>4
    <3>2. Unfolding(W, f)[W] = 0
      BY <2>3, <2>4, W \in SUBSET W DEF Unfolds
    <3> QED BY <3>1, <3>2
  <2>5. CASE W # {}
    <3> DEFINE V == W \ {Pick(W)}
    <3>1. Pick(W) \in W
      BY <2>5, PickIn
    <3>2. g[W] = f[Pick(W)] + Unfolding(V, f)[V]
      BY <2>2, <2>5
    <3>3. Unfolding(W, f)[W] = f[Pick(W)] + Unfolding(W, f)[V]
      BY <2>3, <2>5, W \in SUBSET W DEF Unfolds
    <3>4. V \in SUBSET T /\ V # T /\ V \subseteq W
      BY <3>1, <2>2
    <3>5. Unfolds(Unfolding(V, f), V, f)
      BY <3>4, <1>5
    <3>6. IsFiniteSet(W)
      BY <1>4, <2>2, FS_Subset
    <3> HIDE DEF V, W, g
    <3>7. Unfolding(W, f)[V] = Unfolding(V, f)[V]
      BY <3>4, <3>5, <3>6, <2>3, UnfoldsAgree
    <3> QED BY <3>2, <3>3, <3>7 DEF W
  <2> QED BY <2>4, <2>5
<1>7. \A s \in SUBSET T : s # {} => g[s] = f[Pick(s)] + g[s \ {Pick(s)}]
  BY <1>6
<1>8. g = [s \in SUBSET T |-> IF s = {} THEN 0 ELSE f[Pick(s)] + g[s \ {Pick(s)}]]
  BY <1>6
<1>9. Unfolds(g, T, f)
  BY <1>8 DEF Unfolds
<1> QED BY <1>9, <1>4
LEMMA SumEmpty == \A f : Over({}, f) = 0
<1> TAKE f
<1>1. Unfolds(Unfolding({}, f), {}, f)
  BY UnfoldingExists, FS_EmptySet
<1> QED BY <1>1, OverUnfolding, {} \in SUBSET {} DEF Unfolds

LEMMA SumPick ==
  ASSUME NEW S, IsFiniteSet(S), S # {}, NEW f
  PROVE  Over(S, f) = f[Pick(S)] + Over(S \ {Pick(S)}, f)
<1> DEFINE U == S \ {Pick(S)}
<1>1. IsFiniteSet(U) /\ U \subseteq S
  BY FS_Subset
<1>2. Unfolds(Unfolding(S, f), S, f) /\ Unfolds(Unfolding(U, f), U, f)
  BY <1>1, UnfoldingExists
<1>3. Unfolding(S, f)[S] = f[Pick(S)] + Unfolding(S, f)[U]
  BY <1>2, S \in SUBSET S DEF Unfolds
<1>4. Unfolding(S, f)[U] = Unfolding(U, f)[U]
  <2> HIDE DEF U
  <2> QED BY <1>1, <1>2, UnfoldsAgree
<1> QED BY <1>3, <1>4, OverUnfolding

LEMMA SumType ==
  ASSUME NEW S, IsFiniteSet(S), NEW f, \A x \in S : f[x] \in Int
  PROVE  Over(S, f) \in Int
<1> DEFINE C == {T \in SUBSET S : Over(T, f) \notin Int}
<1>1. SUFFICES ASSUME C # {} PROVE FALSE
  OBVIOUS
<1>2. PICK T \in C : \A U \in C : ~(U \subseteq T /\ U # T)
  <2>1. C \subseteq SUBSET S
    OBVIOUS
  <2> HIDE DEF C
  <2> QED BY <1>1, <2>1, LeastSubset
<1>3. T # {}
  BY SumEmpty
<1>4. Pick(T) \in T /\ IsFiniteSet(T)
  BY <1>3, PickIn, FS_Subset
<1>5. Over(T \ {Pick(T)}, f) \in Int
  BY <1>2, <1>4
<1> QED BY <1>3, <1>4, <1>5, SumPick

\* Any element may be taken out first: the sum does not depend on the choice.
LEMMA SumRemove ==
  ASSUME NEW S, IsFiniteSet(S), NEW f, \A x \in S : f[x] \in Int
  PROVE  \A y \in S : Over(S, f) = f[y] + Over(S \ {y}, f)
<1> DEFINE C == {T \in SUBSET S : ~ \A y \in T : Over(T, f) = f[y] + Over(T \ {y}, f)}
<1>1. SUFFICES ASSUME C # {} PROVE FALSE
  OBVIOUS
<1>2. PICK T \in C : \A U \in C : ~(U \subseteq T /\ U # T)
  <2>1. C \subseteq SUBSET S
    OBVIOUS
  <2> HIDE DEF C
  <2> QED BY <1>1, <2>1, LeastSubset
<1>3. PICK y \in T : Over(T, f) # f[y] + Over(T \ {y}, f)
  OBVIOUS
<1> DEFINE p == Pick(T)
<1>4. p \in T /\ IsFiniteSet(T) /\ IsFiniteSet(T \ {p}) /\ IsFiniteSet((T \ {p}) \ {y})
  BY <1>3, PickIn, FS_Subset
<1>5. Over(T, f) = f[p] + Over(T \ {p}, f)
  BY <1>3, <1>4, SumPick
<1>6. p # y
  BY <1>3, <1>5
<1>7. Over(T \ {p}, f) = f[y] + Over((T \ {p}) \ {y}, f)
  BY <1>2, <1>4, <1>6
<1>8. Over(T \ {y}, f) = f[p] + Over((T \ {y}) \ {p}, f)
  BY <1>2, <1>3, <1>4, <1>6
<1>9. (T \ {y}) \ {p} = (T \ {p}) \ {y}
  OBVIOUS
<1>10. Over((T \ {p}) \ {y}, f) \in Int /\ f[p] \in Int /\ f[y] \in Int
  BY <1>4, SumType
<1>11. Over(T \ {y}, f) = f[p] + Over((T \ {p}) \ {y}, f)
  BY <1>8, <1>9
<1> HIDE DEF p, C
<1> QED BY <1>3, <1>5, <1>7, <1>10, <1>11

\* A sum over one element more.
LEMMA SumAdd ==
  ASSUME NEW T, IsFiniteSet(T), NEW x, x \notin T, NEW f, \A y \in T \cup {x} : f[y] \in Int
  PROVE  Over(T \cup {x}, f) = f[x] + Over(T, f)
<1>1. IsFiniteSet(T \cup {x}) /\ (T \cup {x}) \ {x} = T
  BY FS_AddElement
<1> QED BY <1>1, SumRemove

LEMMA SumSame ==
  ASSUME NEW S, IsFiniteSet(S), NEW f, NEW g, \A x \in S : f[x] \in Int /\ g[x] = f[x]
  PROVE  Over(S, g) = Over(S, f)
<1> DEFINE C == {T \in SUBSET S : Over(T, g) = Over(T, f)}
<1>1. {} \in C
  BY SumEmpty
<1>2. ASSUME NEW T \in SUBSET S, NEW x \in S \ T, T \in C PROVE T \cup {x} \in C
  <2>1. IsFiniteSet(T)
    BY FS_Subset
  <2>2. Over(T \cup {x}, f) = f[x] + Over(T, f) /\ Over(T \cup {x}, g) = g[x] + Over(T, g)
    BY <2>1, SumAdd
  <2> QED BY <1>2, <2>2
<1> HIDE DEF C
<1>3. S \in C
  BY <1>1, <1>2, OneByOne
<1> QED BY <1>3 DEF C

LEMMA SumPlus ==
  ASSUME NEW S, IsFiniteSet(S), NEW f, NEW g, NEW h,
         \A x \in S : f[x] \in Int /\ g[x] \in Int /\ h[x] = f[x] + g[x]
  PROVE  Over(S, h) = Over(S, f) + Over(S, g)
<1> DEFINE C == {T \in SUBSET S : Over(T, h) = Over(T, f) + Over(T, g)}
<1>1. {} \in C
  BY SumEmpty
<1>2. ASSUME NEW T \in SUBSET S, NEW x \in S \ T, T \in C PROVE T \cup {x} \in C
  <2>1. IsFiniteSet(T) /\ \A y \in S : h[y] \in Int
    BY FS_Subset
  <2>2. Over(T \cup {x}, h) = h[x] + Over(T, h)
    BY <2>1, SumAdd
  <2>3. Over(T \cup {x}, f) = f[x] + Over(T, f) /\ Over(T \cup {x}, g) = g[x] + Over(T, g)
    BY <2>1, SumAdd
  <2>4. Over(T, f) \in Int /\ Over(T, g) \in Int
    BY <2>1, SumType
  <2>5. Over(T, h) = Over(T, f) + Over(T, g) /\ T \cup {x} \in SUBSET S
    BY <1>2
  <2> QED BY <2>2, <2>3, <2>4, <2>5
<1> HIDE DEF C
<1>3. S \in C
  BY <1>1, <1>2, OneByOne
<1> QED BY <1>3 DEF C

LEMMA Distributes == \A a, b, c \in Int : a * (b + c) = a * b + a * c
  OBVIOUS

LEMMA SumTimes ==
  ASSUME NEW S, IsFiniteSet(S), NEW f, NEW h, NEW c \in Int,
         \A x \in S : f[x] \in Int /\ h[x] = c * f[x]
  PROVE  Over(S, h) = c * Over(S, f)
<1> DEFINE C == {T \in SUBSET S : Over(T, h) = c * Over(T, f)}
<1>1. {} \in C
  BY SumEmpty
<1>2. ASSUME NEW T \in SUBSET S, NEW x \in S \ T, T \in C PROVE T \cup {x} \in C
  <2>1. IsFiniteSet(T) /\ \A y \in S : h[y] \in Int
    BY FS_Subset
  <2>2. Over(T \cup {x}, h) = h[x] + Over(T, h)
    BY <2>1, SumAdd
  <2>3. Over(T \cup {x}, f) = f[x] + Over(T, f)
    BY <2>1, SumAdd
  <2>4. Over(T, f) \in Int
    BY <2>1, SumType
  <2>5. Over(T, h) = c * Over(T, f) /\ T \cup {x} \in SUBSET S
    BY <1>2
  <2>6. c * Over(T \cup {x}, f) = c * f[x] + c * Over(T, f)
    BY <2>3, <2>4, Distributes
  <2> QED BY <2>2, <2>5, <2>6
<1> HIDE DEF C
<1>3. S \in C
  BY <1>1, <1>2, OneByOne
<1> QED BY <1>3 DEF C

LEMMA SumAtMost ==
  ASSUME NEW S, IsFiniteSet(S), NEW f, NEW g,
         \A x \in S : f[x] \in Int /\ g[x] \in Int /\ f[x] <= g[x]
  PROVE  /\ Over(S, f) <= Over(S, g)
         /\ Over(S, f) = Over(S, g) => \A x \in S : f[x] = g[x]
<1> DEFINE C == {T \in SUBSET S : /\ Over(T, f) <= Over(T, g)
                                  /\ Over(T, f) = Over(T, g) => \A x \in T : f[x] = g[x]}
<1>1. {} \in C
  BY SumEmpty
<1>2. ASSUME NEW T \in SUBSET S, NEW x \in S \ T, T \in C PROVE T \cup {x} \in C
  <2>1. IsFiniteSet(T)
    BY FS_Subset
  <2>2. Over(T \cup {x}, f) = f[x] + Over(T, f) /\ Over(T \cup {x}, g) = g[x] + Over(T, g)
    BY <2>1, SumAdd
  <2>3. Over(T, f) \in Int /\ Over(T, g) \in Int
    BY <2>1, SumType
  <2> QED BY <1>2, <2>2, <2>3
<1> HIDE DEF C
<1>3. S \in C
  BY <1>1, <1>2, OneByOne
<1> QED BY <1>3 DEF C

\* A sum of natural numbers is one, and no part of it is greater.
LEMMA SumNat ==
  ASSUME NEW S, IsFiniteSet(S), NEW f, \A x \in S : f[x] \in Nat
  PROVE  Over(S, f) \in Nat /\ \A x \in S : f[x] <= Over(S, f)
<1> DEFINE C == {T \in SUBSET S : Over(T, f) \in Nat /\ \A x \in T : f[x] <= Over(T, f)}
<1>1. {} \in C
  BY SumEmpty
<1>2. ASSUME NEW T \in SUBSET S, NEW x \in S \ T, T \in C PROVE T \cup {x} \in C
  <2>1. IsFiniteSet(T) /\ \A y \in T \cup {x} : f[y] \in Int
    BY FS_Subset
  <2>2. Over(T \cup {x}, f) = f[x] + Over(T, f)
    BY <2>1, SumAdd
  <2> QED BY <1>2, <2>2
<1> HIDE DEF C
<1>3. S \in C
  BY <1>1, <1>2, OneByOne
<1> QED BY <1>3 DEF C

LEMMA SumUnion ==
  ASSUME NEW A, IsFiniteSet(A), NEW B, IsFiniteSet(B), A \cap B = {},
         NEW f, \A x \in A \cup B : f[x] \in Int
  PROVE  Over(A \cup B, f) = Over(A, f) + Over(B, f)
<1> DEFINE C == {T \in SUBSET A : Over(T \cup B, f) = Over(T, f) + Over(B, f)}
<1>0. Over(B, f) \in Int
  BY SumType
<1>1. {} \in C
  BY <1>0, SumEmpty, {} \cup B = B
<1>2. ASSUME NEW T \in SUBSET A, NEW x \in A \ T, T \in C PROVE T \cup {x} \in C
  <2>1. IsFiniteSet(T) /\ IsFiniteSet(T \cup B)
    BY FS_Subset, FS_Union
  <2>2. Over(T \cup {x}, f) = f[x] + Over(T, f)
    BY <2>1, SumAdd
  <2>3. (T \cup {x}) \cup B = (T \cup B) \cup {x} /\ x \notin T \cup B
    OBVIOUS
  <2>4. Over((T \cup B) \cup {x}, f) = f[x] + Over(T \cup B, f)
    BY <2>1, <2>3, SumAdd
  <2>5. Over(T, f) \in Int /\ f[x] \in Int
    BY <2>1, SumType
  <2>6. Over(T \cup B, f) = Over(T, f) + Over(B, f)
    BY <1>2
  <2>7. Over((T \cup {x}) \cup B, f) = f[x] + Over(T \cup B, f)
    BY <2>3, <2>4
  <2>8. Over((T \cup {x}) \cup B, f) = Over(T \cup {x}, f) + Over(B, f)
    BY <2>2, <2>5, <2>6, <2>7, <1>0
  <2> QED BY <2>8
<1> HIDE DEF C
<1>3. A \in C
  BY <1>1, <1>2, OneByOne
<1> QED BY <1>3 DEF C

\* The members of A, counted.
LEMMA SumCount ==
  ASSUME NEW S, IsFiniteSet(S), NEW A \in SUBSET S, NEW f,
         \A x \in S : f[x] = IF x \in A THEN 1 ELSE 0
  PROVE  Over(S, f) = Cardinality(A)
<1> DEFINE C == {T \in SUBSET S : Over(T, f) = Cardinality(A \cap T)}
<1>1. {} \in C
  BY SumEmpty, FS_EmptySet, A \cap {} = {}
<1>2. ASSUME NEW T \in SUBSET S, NEW x \in S \ T, T \in C PROVE T \cup {x} \in C
  <2>1. IsFiniteSet(T) /\ IsFiniteSet(A \cap T) /\ \A y \in T \cup {x} : f[y] \in Int
    BY FS_Subset, FS_Intersection
  <2>2. Over(T \cup {x}, f) = f[x] + Over(T, f)
    BY <2>1, SumAdd
  <2>3. Cardinality(A \cap T) \in Nat
    BY <2>1, FS_CardinalityType
  <2>4. Over(T, f) = Cardinality(A \cap T)
    BY <1>2
  <2>5. CASE x \in A
    <3>1. A \cap (T \cup {x}) = (A \cap T) \cup {x} /\ x \notin A \cap T
      BY <2>5
    <3>2. Cardinality((A \cap T) \cup {x}) = Cardinality(A \cap T) + 1
      BY <2>1, <3>1, FS_AddElement
    <3>3. Over(T \cup {x}, f) = Cardinality(A \cap T) + 1
      BY <2>2, <2>3, <2>4, <2>5
    <3>4. Cardinality(A \cap (T \cup {x})) = Cardinality(A \cap T) + 1
      BY <3>1, <3>2
    <3>5. Over(T \cup {x}, f) = Cardinality(A \cap (T \cup {x}))
      BY <3>3, <3>4
    <3> QED BY <3>5
  <2>6. CASE x \notin A
    <3>1. A \cap (T \cup {x}) = A \cap T
      BY <2>6
    <3>2. Over(T \cup {x}, f) = Cardinality(A \cap T)
      BY <2>2, <2>3, <2>4, <2>6
    <3>3. Over(T \cup {x}, f) = Cardinality(A \cap (T \cup {x}))
      BY <3>1, <3>2
    <3> QED BY <3>3
  <2> QED BY <2>5, <2>6
<1> HIDE DEF C
<1>3. S \in C
  BY <1>1, <1>2, OneByOne
<1>4. A \cap S = A
  OBVIOUS
<1> QED BY <1>3, <1>4 DEF C

\* Sums within the parts of a partition add up to the sum.
LEMMA SumOfParts ==
  ASSUME NEW f, \A l \in Lines : f[l] \in Int, NEW g, \A i \in Items : g[i] = Over(LinesOf(i), f)
  PROVE  Over(Items, g) = Over(Lines, f)
<1> DEFINE Part(J) == {l \in Lines : ItemOf[l] \in J}
           C == {J \in SUBSET Items : Over(J, g) = Over(Part(J), f)}
<1>0. IsFiniteSet(Lines) /\ IsFiniteSet(Items)
  BY LinesAssumption
<1>1. {} \in C
  BY SumEmpty, Part({}) = {}
<1>2. ASSUME NEW J \in SUBSET Items, NEW i \in Items \ J, J \in C PROVE J \cup {i} \in C
  <2>1. IsFiniteSet(J) /\ IsFiniteSet(Part(J)) /\ IsFiniteSet(LinesOf(i))
    BY <1>0, FS_Subset DEF LinesOf
  <2>2. Part(J \cup {i}) = LinesOf(i) \cup Part(J) /\ LinesOf(i) \cap Part(J) = {}
    BY DEF LinesOf
  <2>3. \A l \in LinesOf(i) \cup Part(J) : f[l] \in Int
    BY DEF LinesOf
  <2>4. \A j \in J \cup {i} : g[j] \in Int
    <3> TAKE j \in J \cup {i}
    <3>1. IsFiniteSet(LinesOf(j)) /\ \A l \in LinesOf(j) : f[l] \in Int
      BY <1>0, FS_Subset DEF LinesOf
    <3> QED BY <3>1, SumType
  <2>5. Over(J \cup {i}, g) = g[i] + Over(J, g)
    BY <2>1, <2>4, SumAdd
  <2> HIDE DEF Part
  <2>6. Over(LinesOf(i) \cup Part(J), f) = Over(LinesOf(i), f) + Over(Part(J), f)
    BY <2>1, <2>2, <2>3, SumUnion
  <2>7. Over(J, g) = Over(Part(J), f) /\ J \cup {i} \in SUBSET Items
    BY <1>2
  <2> QED BY <2>2, <2>5, <2>6, <2>7
<1>3. Part(Items) = Lines
  BY ItemOfAssumption
<1> HIDE DEF C, Part
<1>4. Items \in C
  BY <1>0, <1>1, <1>2, OneByOne
<1> QED BY <1>4, <1>3 DEF C

\* Two sums may change places.
Transposed(R, I, m, cell) == \A r \in R : \A i \in I : m[r][i] \in Int /\ cell[i][r] = m[r][i]

Totals(S, T, table, totals) == \A s \in S : totals[s] = Over(T, table[s])

LEMMA SumExchange ==
  ASSUME NEW R, IsFiniteSet(R), NEW I, IsFiniteSet(I),
         NEW m, NEW cell, Transposed(R, I, m, cell),
         NEW rows, Totals(R, I, m, rows), NEW columns, Totals(I, R, cell, columns)
  PROVE  Over(I, columns) = Over(R, rows)
<1> DEFINE below(T) == [i \in I |-> Over(T, cell[i])]
           C == {T \in SUBSET R : Over(I, below(T)) = Over(T, rows)}
<1>1. ASSUME NEW T \in SUBSET R
      PROVE  IsFiniteSet(T) /\ \A i \in I : Over(T, cell[i]) \in Int
  <2>1. IsFiniteSet(T) /\ \A i \in I : \A r \in T : cell[i][r] \in Int
    BY FS_Subset DEF Transposed
  <2> QED BY <2>1, SumType
<1>2. {} \in C
  <2> DEFINE zero == below({})
  <2>1. \A i \in I : zero[i] = 0 * zero[i] /\ zero[i] \in Int
    BY SumEmpty
  <2> HIDE DEF zero
  <2>2. Over(I, zero) = 0 * Over(I, zero) /\ Over(I, zero) \in Int
    BY <2>1, SumTimes, SumType
  <2> QED BY <2>2, SumEmpty DEF zero
<1>3. ASSUME NEW T \in SUBSET R, NEW x \in R \ T, T \in C PROVE T \cup {x} \in C
  <2> DEFINE row == m[x]
             before == below(T)
             after == below(T \cup {x})
  <2>0. IsFiniteSet(T) /\ x \notin T
    BY <1>1
  <2>1. \A r \in T \cup {x} : rows[r] \in Int
    <3>1. \A r \in R : \A i \in I : m[r][i] \in Int
      BY DEF Transposed
    <3>2. \A r \in R : Over(I, m[r]) \in Int
      BY <3>1, SumType
    <3> QED BY <3>2 DEF Totals
  <2>2. Over(T \cup {x}, rows) = rows[x] + Over(T, rows)
    BY <2>0, <2>1, SumAdd
  <2>3. ASSUME NEW i \in I
        PROVE  row[i] \in Int /\ before[i] \in Int /\ after[i] = row[i] + before[i]
    <3> DEFINE column == cell[i]
    <3>1. /\ \A r \in T \cup {x} : column[r] \in Int
          /\ row[i] \in Int /\ column[x] = row[i]
      BY DEF Transposed
    <3>2. before[i] = Over(T, column) /\ after[i] = Over(T \cup {x}, column) /\ Over(T, column) \in Int
      BY <1>1
    <3> HIDE DEF C, row, before, after, column
    <3>3. Over(T \cup {x}, column) = column[x] + Over(T, column)
      BY <2>0, <3>1, SumAdd
    <3> QED BY <3>1, <3>2, <3>3
  <2>4. Over(I, before) = Over(T, rows) /\ T \cup {x} \in SUBSET R
    BY <1>3
  <2>5. rows[x] = Over(I, row)
    BY DEF Totals
  <2> HIDE DEF row, before, after
  <2>6. Over(I, after) = Over(I, row) + Over(I, before)
    BY <2>3, SumPlus
  <2>7. Over(I, after) = Over(T \cup {x}, rows)
    BY <2>2, <2>4, <2>5, <2>6
  <2> QED BY <2>4, <2>7 DEF after
<1>4. R \in C
  <2> HIDE DEF C
  <2> QED BY <1>2, <1>3, OneByOne
<1> DEFINE all == below(R)
<1>5. \A i \in I : all[i] \in Int /\ columns[i] = all[i]
  BY <1>1 DEF Totals
<1>6. Over(I, all) = Over(R, rows)
  BY <1>4
<1> HIDE DEF all
<1> QED BY <1>5, <1>6, SumSame

-----------------------------------------------------------------------------
(* The Largest Remainder Method. Each line gets its quota, rounded down;   *)
(* the paise that are left go one by one by the order of the fractions.    *)

Quota(total, S, w) == [l \in S |-> (total * w[l]) \div Over(S, w)]
Fraction(total, S, w) == [l \in S |-> (total * w[l]) % Over(S, w)]
Spare(total, S, w) == total - Over(S, Quota(total, S, w))
Fractional(total, S, w) == {l \in S : Fraction(total, S, w)[l] > 0}

\* A division: weights that say something, for some of the lines.
Division(total, S, w) ==
    /\ S \in SUBSET Lines /\ total \in Nat
    /\ \A l \in S : w[l] \in Nat
    /\ Over(S, w) # 0

LEMMA DivMod ==
  ASSUME NEW a \in Nat, NEW b \in Nat \ {0}
  PROVE  a \div b \in Nat /\ a % b \in 0 .. b - 1 /\ a = b * (a \div b) + (a % b)
  OBVIOUS

LEMMA Product == \A a, b \in Nat : a * b \in Nat
  OBVIOUS

LEMMA Cancel == \A a \in Nat \ {0}, b, c \in Int : a * b <= a * c => b <= c
  OBVIOUS

LEMMA SubsetOfLines ==
  ASSUME NEW S \in SUBSET Lines PROVE IsFiniteSet(S) /\ S \subseteq Nat
  BY LinesAssumption, FS_Subset

LEMMA DivisionParts ==
  ASSUME NEW total, NEW S, NEW w, Division(total, S, w)
  PROVE  /\ IsFiniteSet(S) /\ Over(S, w) \in Nat \ {0}
         /\ Quota(total, S, w) \in [S -> Nat]
         /\ Fraction(total, S, w) \in [S -> 0 .. Over(S, w) - 1]
         /\ \A l \in S : total * w[l] = Over(S, w) * Quota(total, S, w)[l] + Fraction(total, S, w)[l]
         /\ Over(S, Quota(total, S, w)) \in Nat
         /\ Spare(total, S, w) \in Int
<1> DEFINE sum == Over(S, w)
<1>1. IsFiniteSet(S)
  BY SubsetOfLines DEF Division
<1>2. sum \in Nat \ {0}
  BY <1>1, SumNat DEF Division
<1>3. ASSUME NEW l \in S
      PROVE  /\ (total * w[l]) \div sum \in Nat
             /\ (total * w[l]) % sum \in 0 .. sum - 1
             /\ total * w[l] = sum * ((total * w[l]) \div sum) + ((total * w[l]) % sum)
  <2>1. total * w[l] \in Nat
    BY Product DEF Division
  <2> HIDE DEF sum
  <2> QED BY <2>1, <1>2, DivMod
<1>4. Quota(total, S, w) \in [S -> Nat] /\ Fraction(total, S, w) \in [S -> 0 .. sum - 1]
  BY <1>3 DEF Quota, Fraction
<1>5. \A l \in S : total * w[l] = sum * Quota(total, S, w)[l] + Fraction(total, S, w)[l]
  BY <1>3 DEF Quota, Fraction
<1>6. Over(S, Quota(total, S, w)) \in Nat
  BY <1>1, <1>4, SumNat
<1>7. Spare(total, S, w) \in Int
  BY <1>6 DEF Spare, Division
<1> QED BY <1>1, <1>2, <1>4, <1>5, <1>6, <1>7

\* What the fractions lack together is what is left over.
LEMMA FractionsAreTheSpare ==
  ASSUME NEW total, NEW S, NEW w, Division(total, S, w)
  PROVE  Over(S, Fraction(total, S, w)) = Over(S, w) * Spare(total, S, w)
<1> DEFINE sum == Over(S, w)
           quota == Quota(total, S, w)
           fraction == Fraction(total, S, w)
           product == [l \in S |-> total * w[l]]
           whole == [l \in S |-> sum * quota[l]]
<1>1. /\ IsFiniteSet(S) /\ sum \in Nat /\ total \in Nat
      /\ \A l \in S : w[l] \in Int /\ quota[l] \in Int /\ fraction[l] \in Int
      /\ \A l \in S : total * w[l] = sum * quota[l] + fraction[l]
      /\ Over(S, quota) \in Int
  BY DivisionParts DEF Division
<1>2. \A l \in S : /\ product[l] = total * w[l] /\ whole[l] = sum * quota[l]
                   /\ product[l] = whole[l] + fraction[l]
  BY <1>1
<1> HIDE DEF quota, fraction, product, whole
<1>3. Over(S, product) = total * sum
  BY <1>1, <1>2, SumTimes
<1>4. Over(S, whole) = sum * Over(S, quota)
  BY <1>1, <1>2, SumTimes
<1>5. \A l \in S : whole[l] \in Int
  BY <1>1, <1>2
<1>6. Over(S, product) = Over(S, whole) + Over(S, fraction)
  BY <1>1, <1>2, <1>5, SumPlus
<1>7. Over(S, fraction) \in Int
  BY <1>1, SumType
<1>8. sum * (total - Over(S, quota)) = total * sum - sum * Over(S, quota)
  BY <1>1
<1>9. Over(S, fraction) = sum * (total - Over(S, quota))
  BY <1>1, <1>3, <1>4, <1>6, <1>7, <1>8
<1> QED BY <1>9 DEF quota, fraction, Spare

\* There is a spare paisa for no line but those that lost a fraction.
LEMMA SpareIsEarned ==
  ASSUME NEW total, NEW S, NEW w, Division(total, S, w)
  PROVE  /\ Spare(total, S, w) \in Nat
         /\ Spare(total, S, w) <= Cardinality(Fractional(total, S, w))
         /\ Cardinality(Fractional(total, S, w)) <= Cardinality(S)
         /\ Cardinality(Fractional(total, S, w)) \in Nat /\ Cardinality(S) \in Nat
<1> DEFINE sum == Over(S, w)
           spare == Spare(total, S, w)
           fraction == Fraction(total, S, w)
           some == Fractional(total, S, w)
           one == [l \in S |-> IF l \in some THEN 1 ELSE 0]
           most == [l \in S |-> sum * one[l]]
<1>1. /\ IsFiniteSet(S) /\ sum \in Nat \ {0} /\ spare \in Int
      /\ \A l \in S : fraction[l] \in 0 .. sum - 1
  BY DivisionParts
<1>2. Over(S, fraction) = sum * spare
  BY FractionsAreTheSpare
<1>3. some \in SUBSET S /\ \A l \in S : l \in some <=> fraction[l] > 0
  BY DEF Fractional
<1>4. \A l \in S : /\ one[l] = (IF l \in some THEN 1 ELSE 0) /\ one[l] \in Int
                   /\ most[l] = sum * one[l]
  OBVIOUS
<1>5. \A l \in S : most[l] \in Int /\ fraction[l] \in Int /\ fraction[l] <= most[l]
  BY <1>1, <1>3, <1>4
<1>6. Cardinality(some) \in Nat /\ Cardinality(S) \in Nat /\ Cardinality(some) <= Cardinality(S)
  BY <1>1, <1>3, FS_Subset, FS_CardinalityType
<1> HIDE DEF one, most, fraction, some, spare
<1>7. Over(S, one) = Cardinality(some)
  BY <1>1, <1>3, <1>4, SumCount
<1>8. Over(S, most) = sum * Over(S, one)
  BY <1>1, <1>4, SumTimes
<1>9. Over(S, fraction) <= Over(S, most)
  BY <1>1, <1>5, SumAtMost
<1>10. sum * spare <= sum * Cardinality(some)
  BY <1>2, <1>7, <1>8, <1>9
<1>11. spare <= Cardinality(some)
  BY <1>1, <1>6, <1>10, Cancel
<1>12. sum * 0 <= sum * spare
  BY <1>1, <1>2, SumNat
<1>13. spare >= 0
  BY <1>1, <1>12, Cancel
<1> QED BY <1>1, <1>6, <1>11, <1>13 DEF spare, some

-----------------------------------------------------------------------------
(* The order in which the spare paise are given.                           *)

LEMMA RankRises ==
  ASSUME NEW S \in SUBSET Lines, NEW f \in [S -> Nat]
  PROVE  /\ \A l \in S : Rank(f, l) \in 0 .. Cardinality(S) - 1
         /\ \A k, l \in S : Before(f, k, l) => Rank(f, k) < Rank(f, l)
         /\ \A k, l \in S : k = l \/ Before(f, k, l) \/ Before(f, l, k)
<1> DEFINE ahead(l) == {k \in S : Before(f, k, l)}
<1>1. IsFiniteSet(S) /\ S \subseteq Nat /\ \A l \in S : KeyOf[l] \in Nat
  BY SubsetOfLines, KeyOfAssumption
<1>2. \A l \in S : ~Before(f, l, l)
  BY <1>1 DEF Before
<1>3. \A j, k, l \in S : Before(f, j, k) /\ Before(f, k, l) => Before(f, j, l)
  BY <1>1 DEF Before
<1>4. \A k, l \in S : k = l \/ Before(f, k, l) \/ Before(f, l, k)
  BY <1>1 DEF Before
<1>5. \A l \in S : Rank(f, l) = Cardinality(ahead(l))
  BY DEF Rank
<1>6. \A l \in S : IsFiniteSet(ahead(l)) /\ Cardinality(ahead(l)) \in Nat
  BY <1>1, FS_Subset, FS_CardinalityType
<1>7. ASSUME NEW l \in S PROVE Cardinality(ahead(l)) <= Cardinality(S) - 1
  <2>1. ahead(l) \in SUBSET (S \ {l})
    BY <1>2
  <2>2. IsFiniteSet(S \ {l}) /\ Cardinality(S \ {l}) = Cardinality(S) - 1
    BY <1>1, FS_RemoveElement
  <2> HIDE DEF ahead
  <2> QED BY <2>1, <2>2, FS_Subset
<1>8. ASSUME NEW k \in S, NEW l \in S, Before(f, k, l)
      PROVE  Cardinality(ahead(k)) < Cardinality(ahead(l))
  <2>1. ahead(k) \in SUBSET ahead(l) /\ k \in ahead(l) /\ k \notin ahead(k)
    BY <1>2, <1>3, <1>8
  <2> HIDE DEF ahead
  <2>2. /\ Cardinality(ahead(k)) <= Cardinality(ahead(l))
        /\ Cardinality(ahead(k)) = Cardinality(ahead(l)) => ahead(l) = ahead(k)
    BY <1>6, <2>1, FS_Subset
  <2> QED BY <1>6, <2>1, <2>2
<1>9. Cardinality(S) \in Nat
  BY <1>1, FS_CardinalityType
<1> HIDE DEF ahead
<1>10. \A l \in S : Rank(f, l) \in 0 .. Cardinality(S) - 1
  BY <1>5, <1>6, <1>7, <1>9
<1>11. \A k, l \in S : Before(f, k, l) => Rank(f, k) < Rank(f, l)
  BY <1>5, <1>8
<1> QED BY <1>4, <1>10, <1>11

\* Exactly n lines come first.
LEMMA RanksAreUsedUp ==
  ASSUME NEW S \in SUBSET Lines, NEW f \in [S -> Nat],
         NEW n \in Nat, n <= Cardinality(S)
  PROVE  Cardinality({l \in S : Rank(f, l) < n}) = n
<1> DEFINE size == Cardinality(S)
           rank == [l \in S |-> Rank(f, l)]
           first == {l \in S : Rank(f, l) < n}
           few == [l \in first |-> rank[l]]
<1>1. IsFiniteSet(S) /\ size \in Nat
  BY SubsetOfLines, FS_CardinalityType
<1>2. rank \in [S -> 0 .. size - 1] /\ \A k, l \in S : rank[k] = rank[l] => k = l
  BY RankRises
<1>3. rank \in Injection(S, 0 .. size - 1)
  BY <1>2 DEF Injection, IsInjective
<1>4. IsFiniteSet(0 .. size - 1) /\ Cardinality(0 .. size - 1) = size
  <2>1. 0 \in Int /\ size - 1 \in Int
    BY <1>1
  <2> HIDE DEF size
  <2>2. IsFiniteSet(0 .. size - 1) /\ Cardinality(0 .. size - 1) = IF 0 > size - 1 THEN 0 ELSE (size - 1) - 0 + 1
    BY <2>1, FS_Interval
  <2> QED BY <1>1, <2>2
<1>5. rank \in Surjection(S, 0 .. size - 1)
  <2> HIDE DEF rank
  <2> QED BY <1>3, <1>4, FS_Injection
<1>6. \A m \in 0 .. size - 1 : \E l \in S : rank[l] = m
  BY <1>5 DEF Surjection
<1>7. few \in [first -> 0 .. n - 1] /\ \A k, l \in first : few[k] = few[l] => k = l
  BY <1>2
<1>8. \A m \in 0 .. n - 1 : \E l \in first : few[l] = m
  <2> TAKE m \in 0 .. n - 1
  <2>1. PICK l \in S : rank[l] = m
    BY <1>1, <1>6
  <2>2. l \in first /\ few[l] = m
    BY <2>1
  <2> QED BY <2>2
<1>9. ExistsBijection(first, 0 .. n - 1)
  BY <1>7, <1>8 DEF ExistsBijection, Bijection, Injection, Surjection, IsInjective
<1>10. IsFiniteSet(first)
  BY <1>1, FS_Subset
<1>11. Cardinality(0 .. n - 1) = n
  BY FS_Interval
<1> HIDE DEF first
<1>12. Cardinality(first) = n
  BY <1>9, <1>10, <1>11, FS_Bijection
<1> QED BY <1>12 DEF first

-----------------------------------------------------------------------------
(* What a split gives.                                                     *)

LEMMA SplitIs ==
  ASSUME NEW total, NEW S, NEW w, Over(S, w) # 0
  PROVE  Split(total, S, w) =
           [l \in S |-> Quota(total, S, w)[l] +
                IF Rank(Fraction(total, S, w), l) < Spare(total, S, w) THEN 1 ELSE 0]
  BY DEF Split, EarnsSpare, Quota, Fraction, Spare

LEMMA SplitNothing ==
  ASSUME NEW total, NEW S, NEW w, Over(S, w) = 0
  PROVE  Split(total, S, w) = [l \in S |-> 0]
  BY DEF Split

\* Every line gets a whole number of paise and none owes any.
LEMMA SplitType ==
  ASSUME NEW total \in Nat, NEW S \in SUBSET Lines, NEW w, \A l \in S : w[l] \in Nat
  PROVE  Split(total, S, w) \in [S -> Nat]
<1>1. CASE Over(S, w) = 0
  BY <1>1, SplitNothing
<1>2. CASE Over(S, w) # 0
  <2>1. Quota(total, S, w) \in [S -> Nat]
    BY <1>2, DivisionParts DEF Division
  <2>2. Split(total, S, w) = [l \in S |-> Quota(total, S, w)[l] +
            IF Rank(Fraction(total, S, w), l) < Spare(total, S, w) THEN 1 ELSE 0]
    BY <1>2, SplitIs
  <2>3. \A l \in S : (Quota(total, S, w)[l] +
            IF Rank(Fraction(total, S, w), l) < Spare(total, S, w) THEN 1 ELSE 0) \in Nat
    BY <2>1
  <2> QED BY <2>2, <2>3
<1> QED BY <1>1, <1>2

\* The method is exact: whatever the weights, and however many lines share it, the
\* lines add up to the total to the paisa (splitByLargestRemainder).
THEOREM LargestRemainderIsExact ==
  ASSUME NEW total \in Nat, NEW S \in SUBSET Lines, NEW w, \A l \in S : w[l] \in Nat,
         Divides(total, S, w)
  PROVE  Over(S, Split(total, S, w)) = total
<1>1. CASE Over(S, w) = 0
  <2>1. total = 0
    BY <1>1 DEF Divides
  <2> DEFINE none == [l \in S |-> 0]
  <2>2. Split(total, S, w) = none
    BY <1>1, SplitNothing
  <2>3. \A l \in S : w[l] \in Int /\ none[l] = 0 * w[l]
    OBVIOUS
  <2>4. IsFiniteSet(S)
    BY SubsetOfLines
  <2> HIDE DEF none
  <2>5. Over(S, none) = 0 * Over(S, w)
    BY <2>3, <2>4, SumTimes
  <2> QED BY <1>1, <2>1, <2>2, <2>5
<1>2. CASE Over(S, w) # 0
  <2> DEFINE quota == Quota(total, S, w)
             fraction == Fraction(total, S, w)
             spare == Spare(total, S, w)
             lucky == {l \in S : Rank(fraction, l) < spare}
             extra == [l \in S |-> IF l \in lucky THEN 1 ELSE 0]
             split == Split(total, S, w)
  <2>1. Division(total, S, w)
    BY <1>2 DEF Division
  <2>2. IsFiniteSet(S) /\ quota \in [S -> Nat] /\ fraction \in [S -> Nat] /\ Over(S, quota) \in Nat
    <3>1. Over(S, w) \in Nat /\ fraction \in [S -> 0 .. Over(S, w) - 1]
      BY <2>1, DivisionParts
    <3>2. fraction \in [S -> Nat]
      BY <3>1
    <3> QED BY <2>1, <3>2, DivisionParts
  <2>3. spare \in Nat /\ spare <= Cardinality(S)
    BY <2>1, SpareIsEarned
  <2>4. split = [l \in S |-> quota[l] + IF Rank(fraction, l) < spare THEN 1 ELSE 0]
    BY <1>2, SplitIs
  <2>5. \A l \in S : extra[l] = IF l \in lucky THEN 1 ELSE 0
    OBVIOUS
  <2>6. \A l \in S : quota[l] \in Int /\ extra[l] \in Int /\ split[l] = quota[l] + extra[l]
    BY <2>2, <2>4
  <2>7. lucky \in SUBSET S
    OBVIOUS
  <2>8. spare = total - Over(S, quota)
    BY DEF Spare
  <2> HIDE DEF quota, fraction, spare, split
  <2>9. Cardinality(lucky) = spare
    BY <2>2, <2>3, RanksAreUsedUp
  <2> HIDE DEF lucky, extra
  <2>10. Over(S, extra) = spare
    BY <2>2, <2>5, <2>7, <2>9, SumCount
  <2>11. Over(S, split) = Over(S, quota) + Over(S, extra)
    BY <2>2, <2>6, SumPlus
  <2>12. Over(S, split) = total
    BY <2>2, <2>8, <2>10, <2>11
  <2> QED BY <2>12 DEF split
<1> QED BY <1>1, <1>2

\* A line whose quota was a whole number gets no spare paisa.
LEMMA WholeQuotasStay ==
  ASSUME NEW total, NEW S, NEW w, Division(total, S, w),
         NEW l \in S, Fraction(total, S, w)[l] = 0
  PROVE  Split(total, S, w)[l] = Quota(total, S, w)[l]
<1> DEFINE fraction == Fraction(total, S, w)
           some == Fractional(total, S, w)
           ahead == {k \in S : Before(fraction, k, l)}
<1>1. IsFiniteSet(S) /\ Over(S, w) \in Nat /\ Quota(total, S, w) \in [S -> Nat]
      /\ fraction \in [S -> 0 .. Over(S, w) - 1]
  BY DivisionParts
<1>2. some \in SUBSET ahead
  BY DEF Fractional, Before
<1>3. Rank(fraction, l) = Cardinality(ahead)
  BY <1>1 DEF Rank
<1>4. IsFiniteSet(ahead)
  BY <1>1, FS_Subset
<1> HIDE DEF ahead, some
<1>5. Cardinality(some) <= Cardinality(ahead) /\ Cardinality(ahead) \in Nat
  BY <1>2, <1>4, FS_Subset, FS_CardinalityType
<1>6. Spare(total, S, w) \in Nat /\ Spare(total, S, w) <= Cardinality(some) /\ Cardinality(some) \in Nat
  BY SpareIsEarned DEF some
<1>7. ~(Rank(fraction, l) < Spare(total, S, w))
  BY <1>3, <1>5, <1>6
<1>8. Split(total, S, w)[l] = Quota(total, S, w)[l] + 0
  BY <1>7, SplitIs DEF Division
<1> QED BY <1>1, <1>8

LEMMA QuotaBelow ==
  ASSUME NEW total \in Nat, NEW sum \in Nat \ {0}, total <= sum,
         NEW weight \in Nat, NEW quota \in Nat, NEW fraction \in Nat,
         total * weight = sum * quota + fraction
  PROVE  quota <= weight /\ (fraction > 0 => quota + 1 <= weight)
<1>1. total * weight <= sum * weight
  OBVIOUS
<1>2. sum * quota + fraction <= sum * weight /\ sum * quota \in Int /\ sum * weight \in Int
  BY <1>1
<1>3. quota <= weight
  <2>1. sum * quota <= sum * weight
    BY <1>2
  <2> QED BY <2>1, Cancel
<1>4. ASSUME fraction > 0, quota = weight PROVE FALSE
  BY <1>2, <1>4
<1> QED BY <1>3, <1>4

\* Shares taken off in proportion never exceed what they are taken off, for any line:
\* a default reduction is never clamped (buildDistributionLines, "never clamped").
THEOREM ReductionsFit ==
  ASSUME NEW total \in Nat, NEW S \in SUBSET Lines, NEW w, \A l \in S : w[l] \in Nat,
         total <= Over(S, w)
  PROVE  \A l \in S : Split(total, S, w)[l] <= w[l]
<1> TAKE l \in S
<1>1. CASE Over(S, w) = 0
  BY <1>1, SplitNothing
<1>2. CASE Over(S, w) # 0
  <2> DEFINE quota == Quota(total, S, w)[l]
             fraction == Fraction(total, S, w)[l]
             sum == Over(S, w)
  <2>1. Division(total, S, w)
    BY <1>2 DEF Division
  <2>2. /\ sum \in Nat \ {0} /\ quota \in Nat /\ fraction \in 0 .. sum - 1
        /\ total * w[l] = sum * quota + fraction
    BY <2>1, DivisionParts
  <2>3. quota <= w[l] /\ (fraction > 0 => quota + 1 <= w[l])
    <3> HIDE DEF quota, fraction, sum
    <3>1. fraction \in Nat
      BY <2>2
    <3> QED BY <2>2, <3>1, QuotaBelow DEF sum
  <2>4. CASE fraction = 0
    BY <2>1, <2>3, <2>4, WholeQuotasStay
  <2>5. CASE fraction > 0
    <3>1. Split(total, S, w)[l] = quota + IF Rank(Fraction(total, S, w), l) < Spare(total, S, w) THEN 1 ELSE 0
      BY <1>2, SplitIs
    <3> QED BY <2>2, <2>3, <2>5, <3>1
  <2> QED BY <2>2, <2>4, <2>5
<1> QED BY <1>1, <1>2

\* Shares that already have the total are left as they are, every one of them.
THEOREM ExactSharesStay ==
  ASSUME NEW S \in SUBSET Lines, NEW w, \A l \in S : w[l] \in Nat
  PROVE  \A l \in S : Split(Over(S, w), S, w)[l] = w[l]
<1> DEFINE total == Over(S, w)
           split == Split(total, S, w)
<1>1. IsFiniteSet(S)
  BY SubsetOfLines
<1>2. total \in Nat
  BY <1>1, SumNat
<1>3. split \in [S -> Nat] /\ \A l \in S : split[l] <= w[l]
  BY <1>2, SplitType, ReductionsFit
<1>4. Over(S, split) = total
  BY <1>2, LargestRemainderIsExact DEF Divides
<1>5. \A l \in S : split[l] \in Int /\ w[l] \in Int /\ split[l] <= w[l]
  BY <1>3
<1> HIDE DEF split
<1>6. \A l \in S : split[l] = w[l]
  BY <1>1, <1>4, <1>5, SumAtMost
<1> QED BY <1>6 DEF split

-----------------------------------------------------------------------------
(* The refunds, as rows.                                                   *)

RefundRows == [st : {"none", "active", "reversed"}, amount : Nat, of : [Items -> Nat]]
RecordedIn(rows) == {r \in Refunds : rows[r].st # "none"}
ActiveIn(rows) == {r \in Refunds : rows[r].st = "active"}
Amounts(rows) == [r \in Refunds |-> rows[r].amount]
Column(rows, i) == [r \in Refunds |-> rows[r].of[i]]

\* What the rows have to say together for the next refund to be judged rightly.
RowsAddUp(rows) ==
    /\ rows \in [Refunds -> RefundRows]
    /\ IsFiniteSet(RecordedIn(rows))
    /\ \A r \in RecordedIn(rows) : rows[r].amount > 0
    /\ \A r \in Refunds : rows[r].amount <= Gross
    /\ \A r \in Refunds : rows[r].of # Unattributed => rows[r].amount = Over(Items, rows[r].of)
    /\ \A i \in Items : Over(RecordedIn(rows), Column(rows, i)) <= GrossOf[i]
    /\ Over(ActiveIn(rows), Amounts(rows)) <= Gross

\* The inductive invariant: the rows add up, and before the first of them the lines
\* add up to what the purchase cost.
RefundInv ==
    /\ amount \in [Lines -> Nat]
    /\ RowsAddUp(refund)
    /\ RecordedIn(refund) = {} => Over(Lines, amount) = Gross

LEMMA GrossType == Gross \in Nat /\ IsFiniteSet(Items) /\ IsFiniteSet(Lines)
<1>1. IsFiniteSet(Items) /\ \A i \in Items : GrossOf[i] \in Nat
  BY LinesAssumption, GrossOfAssumption
<1> QED BY <1>1, SumNat, LinesAssumption DEF Gross

LEMMA RowsFinite ==
  ASSUME NEW rows, IsFiniteSet(RecordedIn(rows))
  PROVE  IsFiniteSet(ActiveIn(rows)) /\ ActiveIn(rows) \subseteq RecordedIn(rows)
<1>1. ActiveIn(rows) \in SUBSET RecordedIn(rows)
  BY DEF ActiveIn, RecordedIn
<1> QED BY <1>1, FS_Subset

\* The reductions of the two kinds are natural numbers and make up the net amount.
LEMMA NetAmountIs ==
  ASSUME RowsAddUp(refund)
  PROVE  /\ WholeReduction \in Nat /\ AttributedReduction \in Nat
         /\ WholeReduction + AttributedReduction = Over(ActiveIn(refund), Amounts(refund))
         /\ NetAmount = Gross - (WholeReduction + AttributedReduction)
         /\ NetAmount \in 0 .. Gross
<1> DEFINE A == Active(TRUE)
           B == Active(FALSE)
           amounts == Amounts(refund)
<1>1. IsFiniteSet(ActiveIn(refund)) /\ \A r \in Refunds : amounts[r] \in Nat
  BY RowsFinite DEF RowsAddUp, RefundRows, Amounts
<1>2. A \cup B = ActiveIn(refund) /\ A \cap B = {} /\ A \subseteq Refunds /\ B \subseteq Refunds
  BY DEF Active, ActiveIn
<1>3. IsFiniteSet(A) /\ IsFiniteSet(B)
  BY <1>1, <1>2, FS_Subset
<1>4. ASSUME NEW S, IsFiniteSet(S), S \subseteq Refunds
      PROVE  SumOf(S) = Over(S, amounts) /\ SumOf(S) \in Nat
  <2> DEFINE part == [r \in S |-> refund[r].amount]
  <2>1. \A r \in S : amounts[r] \in Int /\ amounts[r] \in Nat /\ part[r] = amounts[r]
    BY <1>1, <1>4 DEF Amounts
  <2> HIDE DEF part, amounts
  <2>2. Over(S, part) = Over(S, amounts)
    BY <1>4, <2>1, SumSame
  <2>3. Over(S, amounts) \in Nat
    BY <1>4, <2>1, SumNat
  <2> QED BY <2>2, <2>3 DEF part, SumOf
<1> HIDE DEF A, B, amounts
<1>5. \A r \in A \cup B : amounts[r] \in Int
  BY <1>1, <1>2
<1>6. Over(A \cup B, amounts) = Over(A, amounts) + Over(B, amounts)
  BY <1>2, <1>3, <1>5, SumUnion
<1>7. /\ WholeReduction = Over(A, amounts) /\ WholeReduction \in Nat
      /\ AttributedReduction = Over(B, amounts) /\ AttributedReduction \in Nat
  BY <1>2, <1>3, <1>4 DEF WholeReduction, AttributedReduction, A, B
<1>8. WholeReduction + AttributedReduction = Over(ActiveIn(refund), amounts)
  BY <1>2, <1>6, <1>7
<1>9. NetAmount = Gross - (WholeReduction + AttributedReduction)
  BY <1>7, GrossType DEF NetAmount
<1>10. WholeReduction + AttributedReduction <= Gross
  BY <1>8 DEF RowsAddUp, amounts
<1> QED BY <1>7, <1>8, <1>9, <1>10, GrossType DEF amounts

LEMMA AttributedToIs ==
  ASSUME RowsAddUp(refund), NEW i \in Items
  PROVE  /\ AttributedTo(i) = Over(RecordedIn(refund), Column(refund, i))
         /\ AttributedTo(i) \in Nat /\ ItemNet(i) \in Nat /\ AttributedTo(i) <= GrossOf[i]
<1> DEFINE R == RecordedIn(refund)
           part == [r \in R |-> refund[r].of[i]]
           column == Column(refund, i)
<1>1. IsFiniteSet(R) /\ \A r \in R : column[r] \in Int /\ column[r] \in Nat /\ part[r] = column[r]
  BY DEF RowsAddUp, RefundRows, RecordedIn, Column
<1>2. AttributedTo(i) = Over(R, part)
  BY DEF AttributedTo, RecordedIn
<1> HIDE DEF part, column, R
<1>3. Over(R, part) = Over(R, column) /\ Over(R, column) \in Nat
  BY <1>1, SumSame, SumNat
<1>4. Over(R, column) <= GrossOf[i] /\ GrossOf[i] \in Nat
  BY GrossOfAssumption DEF RowsAddUp, R, column
<1> QED BY <1>2, <1>3, <1>4 DEF ItemNet, R, column

-----------------------------------------------------------------------------
(* The lines.                                                              *)

LEMMA ItemHasLines ==
  ASSUME NEW i \in Items
  PROVE  LinesOf(i) \in SUBSET Lines /\ IsFiniteSet(LinesOf(i)) /\ \E l \in LinesOf(i) : TRUE
<1>1. LinesOf(i) \in SUBSET Lines
  BY DEF LinesOf
<1> QED BY <1>1, SubsetOfLines, ItemOfAssumption DEF LinesOf

\* A division by units loses nothing: the lines add up to the costs of the items.
LEMMA UnitsAreExact ==
  ASSUME NEW cost \in [Items -> Nat], NEW units \in UnitSplits
  PROVE  /\ ByUnits(cost, units) \in [Lines -> Nat]
         /\ Over(Lines, ByUnits(cost, units)) = Over(Items, cost)
<1> DEFINE lines == ByUnits(cost, units)
           part(i) == Split(cost[i], LinesOf(i), units)
<1>1. \A l \in Lines : units[l] \in Nat \ {0}
  BY UnitSplitsAssumption
<1>2. ASSUME NEW i \in Items
      PROVE  part(i) \in [LinesOf(i) -> Nat] /\ Over(LinesOf(i), part(i)) = cost[i]
  <2>1. LinesOf(i) \in SUBSET Lines /\ IsFiniteSet(LinesOf(i)) /\ \A l \in LinesOf(i) : units[l] \in Nat
    BY <1>1, ItemHasLines
  <2>2. PICK l \in LinesOf(i) : units[l] > 0
    BY <1>1, <2>1, ItemHasLines
  <2>3. Over(LinesOf(i), units) > 0
    BY <2>1, <2>2, SumNat
  <2> QED BY <2>1, <2>3, SplitType, LargestRemainderIsExact DEF Divides
<1>3. \A l \in Lines : ItemOf[l] \in Items /\ l \in LinesOf(ItemOf[l])
  BY ItemOfAssumption DEF LinesOf
<1>4. lines = [l \in Lines |-> part(ItemOf[l])[l]]
  BY DEF ByUnits
<1>5. lines \in [Lines -> Nat]
  <2> HIDE DEF part, lines
  <2>1. \A l \in Lines : part(ItemOf[l])[l] \in Nat
    BY <1>2, <1>3
  <2> QED BY <1>4, <2>1
<1>6. ASSUME NEW i \in Items PROVE Over(LinesOf(i), lines) = cost[i]
  <2> DEFINE mine == part(i)
  <2>1. IsFiniteSet(LinesOf(i)) /\ Over(LinesOf(i), mine) = cost[i] /\ mine \in [LinesOf(i) -> Nat]
    BY <1>2, ItemHasLines
  <2>2. \A l \in LinesOf(i) : l \in Lines /\ ItemOf[l] = i
    BY DEF LinesOf
  <2>3. \A l \in LinesOf(i) : lines[l] = mine[l]
    BY <1>4, <2>2
  <2>4. \A l \in LinesOf(i) : mine[l] \in Int
    BY <2>1
  <2> HIDE DEF mine, lines
  <2> QED BY <2>1, <2>3, <2>4, SumSame
<1>7. \A i \in Items : cost[i] = Over(LinesOf(i), lines)
  BY <1>6
<1>8. \A l \in Lines : lines[l] \in Int
  BY <1>5
<1> HIDE DEF lines, part
<1>9. Over(Items, cost) = Over(Lines, lines)
  BY <1>7, <1>8, SumOfParts
<1> QED BY <1>5, <1>9 DEF lines

-----------------------------------------------------------------------------
(* The requests keep the rows adding up.                                   *)

\* A row that is recorded weighs on the purchase, and on the items it names.
LEMMA RecordingAddsUp ==
  ASSUME RowsAddUp(refund), NEW r \in Refunds, refund[r].st = "none",
         NEW row \in RefundRows, row.st = "active", row.amount > 0, row.amount <= NetAmount,
         row.of # Unattributed => row.amount = Over(Items, row.of),
         \A i \in Items : AttributedTo(i) + row.of[i] <= GrossOf[i],
         refund' = [refund EXCEPT ![r] = row]
  PROVE  RowsAddUp(refund')
<1> DEFINE rows == refund'
           R == RecordedIn(refund)
           A == ActiveIn(refund)
<1>1. rows \in [Refunds -> RefundRows] /\ rows[r] = row /\ \A q \in Refunds \ {r} : rows[q] = refund[q]
  BY DEF RowsAddUp
<1>2. RecordedIn(rows) = R \cup {r} /\ ActiveIn(rows) = A \cup {r} /\ r \notin R /\ r \notin A
  BY <1>1 DEF RecordedIn, ActiveIn
<1>3. IsFiniteSet(R) /\ IsFiniteSet(A) /\ A \subseteq Refunds /\ R \subseteq Refunds
  BY RowsFinite DEF RowsAddUp, ActiveIn, RecordedIn
<1> HIDE DEF rows, R, A
<1>4. IsFiniteSet(RecordedIn(rows))
  BY <1>2, <1>3, FS_AddElement
<1>5. \A q \in Refunds : Amounts(rows)[q] \in Int /\ Amounts(refund)[q] \in Int
  BY <1>1 DEF Amounts, RowsAddUp, RefundRows
<1>6. \A q \in A : Amounts(rows)[q] = Amounts(refund)[q]
  BY <1>1, <1>2, <1>3 DEF Amounts
<1>7. Over(ActiveIn(rows), Amounts(rows)) = row.amount + Over(A, Amounts(refund))
  <2> DEFINE now == Amounts(rows)
             before == Amounts(refund)
  <2>1. now[r] = row.amount
    BY <1>1 DEF Amounts
  <2>2. \A q \in A \cup {r} : now[q] \in Int
    BY <1>3, <1>5
  <2>3. \A q \in A : before[q] \in Int /\ now[q] = before[q]
    BY <1>3, <1>5, <1>6
  <2> HIDE DEF now, before
  <2>4. Over(A \cup {r}, now) = now[r] + Over(A, now)
    BY <1>2, <1>3, <2>2, SumAdd
  <2>5. Over(A, now) = Over(A, before)
    BY <1>3, <2>3, SumSame
  <2> QED BY <1>2, <2>1, <2>4, <2>5 DEF now, before
<1>8. Over(ActiveIn(rows), Amounts(rows)) <= Gross /\ row.amount <= Gross
  <2>1. row.amount \in Nat
    BY DEF RefundRows
  <2> QED BY <1>7, <2>1, NetAmountIs, GrossType DEF A
<1>9. ASSUME NEW i \in Items PROVE Over(RecordedIn(rows), Column(rows, i)) <= GrossOf[i]
  <2> DEFINE now == Column(rows, i)
             before == Column(refund, i)
  <2>1. \A q \in Refunds : now[q] \in Int /\ before[q] \in Int
    <3>1. \A q \in Refunds : rows[q].of[i] \in Nat /\ refund[q].of[i] \in Nat
      BY <1>1 DEF RowsAddUp, RefundRows
    <3> QED BY <3>1 DEF Column
  <2>2. now[r] = row.of[i] /\ row.of[i] \in Nat
    BY <1>1 DEF Column, RefundRows
  <2>3. \A q \in R : now[q] = before[q]
    BY <1>1, <1>2, <1>3 DEF Column
  <2>4. AttributedTo(i) = Over(R, before) /\ AttributedTo(i) \in Nat
    BY AttributedToIs DEF R
  <2> HIDE DEF now, before
  <2>5. \A q \in R : before[q] \in Int /\ now[q] = before[q]
    BY <1>3, <2>1, <2>3
  <2>6. \A q \in R \cup {r} : now[q] \in Int
    BY <1>3, <2>1
  <2>7. Over(R \cup {r}, now) = now[r] + Over(R, now)
    BY <1>2, <1>3, <2>6, SumAdd
  <2>8. Over(R, now) = Over(R, before)
    BY <1>3, <2>5, SumSame
  <2>9. Over(RecordedIn(rows), now) = row.of[i] + AttributedTo(i)
    BY <1>2, <2>2, <2>4, <2>7, <2>8
  <2>10. Over(RecordedIn(rows), now) <= GrossOf[i]
    BY <2>2, <2>4, <2>9
  <2> QED BY <2>10 DEF now
<1>10. \A q \in RecordedIn(rows) : rows[q].amount > 0
  BY <1>1, <1>2 DEF RowsAddUp, RecordedIn, R
<1>11. \A q \in Refunds : /\ rows[q].amount <= Gross
                          /\ rows[q].of # Unattributed => rows[q].amount = Over(Items, rows[q].of)
  BY <1>1, <1>8 DEF RowsAddUp
<1> HIDE DEF rows
<1>12. RowsAddUp(rows)
  BY <1>1, <1>4, <1>8, <1>9, <1>10, <1>11 DEF RowsAddUp
<1> QED BY <1>12 DEF rows

LEMMA RecordWholeKeepsInv ==
  ASSUME RefundInv, NEW r \in Refunds, NEW size \in 1 .. Gross, RecordWhole(r, size)
  PROVE  RefundInv'
<1> DEFINE row == [st |-> "active", amount |-> size, of |-> Unattributed]
<1>1. Unattributed \in [Items -> Nat] /\ \A i \in Items : Unattributed[i] = 0
  BY DEF Unattributed
<1>2. row \in RefundRows /\ row.st = "active" /\ row.amount > 0 /\ row.of = Unattributed
  BY <1>1, GrossType DEF RefundRows
<1>3. RowsAddUp(refund) /\ refund[r].st = "none" /\ row.amount <= NetAmount /\ refund' = [refund EXCEPT ![r] = row]
  BY DEF RecordWhole, RefundInv
<1>4. \A i \in Items : AttributedTo(i) + row.of[i] <= GrossOf[i]
  BY <1>1, <1>2, <1>3, AttributedToIs
<1> HIDE DEF row
<1>5. RowsAddUp(refund')
  BY <1>2, <1>3, <1>4, RecordingAddsUp
<1>6. r \in RecordedIn(refund')
  BY <1>2, <1>3 DEF RecordedIn, RowsAddUp
<1>7. (RefundInv)'
  BY <1>5, <1>6 DEF RefundInv, RecordWhole
<1> QED BY <1>7

LEMMA RecordItemsKeepsInv ==
  ASSUME RefundInv, NEW r \in Refunds, NEW of \in Attributions, RecordItems(r, of)
  PROVE  RefundInv'
<1> DEFINE row == [st |-> "active", amount |-> Over(Items, of), of |-> of]
<1>1. of \in [Items -> Nat]
  BY GrossType DEF Attributions
<1>2. Over(Items, of) \in Nat /\ \A i \in Items : of[i] <= Over(Items, of)
  BY <1>1, GrossType, SumNat
<1>3. Over(Items, of) > 0
  <2>1. PICK i \in Items : of[i] # 0
    BY <1>1 DEF RecordItems, Unattributed
  <2> QED BY <1>1, <1>2, <2>1
<1>4. row \in RefundRows /\ row.st = "active" /\ row.amount > 0 /\ row.of = of /\ row.amount = Over(Items, row.of)
  BY <1>1, <1>2, <1>3 DEF RefundRows
<1>5. /\ RowsAddUp(refund) /\ refund[r].st = "none" /\ row.amount <= NetAmount
      /\ refund' = [refund EXCEPT ![r] = row]
      /\ \A i \in Items : AttributedTo(i) + row.of[i] <= GrossOf[i]
  BY DEF RecordItems, RefundInv
<1> HIDE DEF row
<1>6. RowsAddUp(refund')
  BY <1>4, <1>5, RecordingAddsUp
<1>7. r \in RecordedIn(refund')
  BY <1>4, <1>5 DEF RecordedIn, RowsAddUp
<1>8. (RefundInv)'
  BY <1>6, <1>7 DEF RefundInv, RecordItems
<1> QED BY <1>8

\* A reversed row no longer weighs on the purchase; on its items it still does.
LEMMA ReverseKeepsInv ==
  ASSUME RefundInv, NEW r \in Refunds, ReverseAdjustment(r)
  PROVE  RefundInv'
<1> DEFINE rows == refund'
           R == RecordedIn(refund)
           A == ActiveIn(refund)
<1>0. RowsAddUp(refund) /\ refund \in [Refunds -> RefundRows] /\ refund[r].st = "active"
  BY DEF RefundInv, RowsAddUp, ReverseAdjustment
<1>1. /\ rows \in [Refunds -> RefundRows] /\ rows[r].st = "reversed"
      /\ \A q \in Refunds : rows[q].amount = refund[q].amount /\ rows[q].of = refund[q].of
      /\ \A q \in Refunds \ {r} : rows[q].st = refund[q].st
  <2>1. rows[r] = [refund[r] EXCEPT !.st = "reversed"] /\ \A q \in Refunds \ {r} : rows[q] = refund[q]
    BY <1>0 DEF ReverseAdjustment
  <2>2. refund[r] \in RefundRows
    BY <1>0
  <2>3. /\ rows[r] \in RefundRows /\ rows[r].st = "reversed"
        /\ rows[r].amount = refund[r].amount /\ rows[r].of = refund[r].of
    BY <2>1, <2>2 DEF RefundRows
  <2>4. rows \in [Refunds -> RefundRows]
    BY <1>0, <2>1, <2>3 DEF ReverseAdjustment
  <2> QED BY <2>1, <2>3, <2>4
<1>2. RecordedIn(rows) = R /\ ActiveIn(rows) = A \ {r} /\ r \in A /\ r \in R
  BY <1>0, <1>1 DEF RecordedIn, ActiveIn
<1>3. Amounts(rows) = Amounts(refund) /\ \A i \in Items : Column(rows, i) = Column(refund, i)
  BY <1>1 DEF Amounts, Column
<1>4. IsFiniteSet(A) /\ \A q \in A : Amounts(refund)[q] \in Nat
  BY <1>0, RowsFinite DEF RowsAddUp, RefundRows, Amounts, ActiveIn
<1>5. Over(A \ {r}, Amounts(refund)) <= Gross
  <2>1. Over(A, Amounts(refund)) = Amounts(refund)[r] + Over(A \ {r}, Amounts(refund))
    <3>1. \A q \in A : Amounts(refund)[q] \in Int
      BY <1>4
    <3> QED BY <1>2, <1>4, <3>1, SumRemove
  <2>2. IsFiniteSet(A \ {r}) /\ \A q \in A \ {r} : Amounts(refund)[q] \in Nat
    BY <1>4, FS_Subset
  <2>3. Over(A \ {r}, Amounts(refund)) \in Nat
    BY <2>2, SumNat
  <2>4. Over(A, Amounts(refund)) <= Gross
    BY <1>0 DEF RowsAddUp
  <2> QED BY <1>2, <1>4, <2>1, <2>3, <2>4, GrossType
<1>6. RowsAddUp(rows)
  <2> HIDE DEF rows, R, A
  <2>1. IsFiniteSet(RecordedIn(rows)) /\ \A q \in RecordedIn(rows) : q \in Refunds /\ rows[q].amount > 0
    BY <1>0, <1>1, <1>2 DEF RowsAddUp, R, RecordedIn
  <2>2. \A q \in Refunds : /\ rows[q].amount <= Gross
                           /\ rows[q].of # Unattributed => rows[q].amount = Over(Items, rows[q].of)
    BY <1>0, <1>1 DEF RowsAddUp
  <2>3. \A i \in Items : Over(RecordedIn(rows), Column(rows, i)) <= GrossOf[i]
    BY <1>0, <1>2, <1>3 DEF RowsAddUp, R
  <2>4. Over(ActiveIn(rows), Amounts(rows)) <= Gross
    BY <1>2, <1>3, <1>5
  <2> QED BY <1>1, <2>1, <2>2, <2>3, <2>4 DEF RowsAddUp
<1>7. r \in RecordedIn(rows)
  BY <1>2
<1> HIDE DEF rows
<1>8. (RefundInv)'
  BY <1>6, <1>7 DEF RefundInv, ReverseAdjustment, rows
<1> QED BY <1>8

LEMMA ApproveKeepsInv ==
  ASSUME RefundInv, NEW units \in UnitSplits, ApproveAllocation(units)
  PROVE  RefundInv'
<1> DEFINE net == [i \in Items |-> ItemNet(i)]
<1>1. RowsAddUp(refund)
  BY DEF RefundInv
<1>2. net \in [Items -> Nat]
  BY <1>1, AttributedToIs
<1>3. amount' = ByUnits(net, units) /\ refund' = refund /\ Over(Lines, ByUnits(net, units)) = NetAmount
  BY DEF ApproveAllocation
<1> HIDE DEF net
<1>4. amount' \in [Lines -> Nat]
  BY <1>2, <1>3, UnitsAreExact
<1>5. ASSUME RecordedIn(refund) = {} PROVE NetAmount = Gross
  <2>1. ActiveIn(refund) = {}
    BY <1>5 DEF ActiveIn, RecordedIn
  <2>2. WholeReduction + AttributedReduction = 0
    BY <1>1, <2>1, NetAmountIs, SumEmpty
  <2> QED BY <1>1, <2>2, NetAmountIs, GrossType
<1> QED BY <1>1, <1>3, <1>4, <1>5 DEF RefundInv

-----------------------------------------------------------------------------
(* The ways to rebuild the lines, and the distribution that writes them.   *)

LEMMA ReducedType ==
  ASSUME NEW line \in [Lines -> Nat], NEW total \in Nat, NEW w, \A l \in Lines : w[l] \in Nat,
         NEW new \in Reduced(line, total, w)
  PROVE  new \in [Lines -> Nat]
<1> DEFINE cut == Split(total, Lines, w)
<1>1. cut \in [Lines -> Nat]
  BY SplitType
<1>2. new = [l \in Lines |-> line[l] - cut[l]] /\ \A l \in Lines : cut[l] <= line[l]
  BY DEF Reduced, Covers
<1> HIDE DEF cut
<1>3. \A l \in Lines : line[l] - cut[l] \in Nat
  BY <1>1, <1>2
<1> QED BY <1>2, <1>3

LEMMA StageType ==
  ASSUME RefundInv
  PROVE  [l \in Lines |-> ItemShare(l)] \in [Lines -> Nat]
<1> SUFFICES ASSUME NEW l \in Lines PROVE ItemShare(l) \in Nat
  OBVIOUS
<1> DEFINE i == ItemOf[l]
<1>1. i \in Items /\ l \in LinesOf(i)
  BY ItemOfAssumption DEF LinesOf
<1>2. ItemNet(i) \in Nat
  BY <1>1, AttributedToIs DEF RefundInv
<1>3. \A k \in LinesOf(i) : amount[k] \in Nat
  BY DEF RefundInv, LinesOf
<1>4. Split(ItemNet(i), LinesOf(i), amount) \in [LinesOf(i) -> Nat]
  BY <1>1, <1>2, <1>3, ItemHasLines, SplitType
<1> HIDE DEF i
<1>5. Split(ItemNet(i), LinesOf(i), amount)[l] \in Nat
  BY <1>1, <1>4
<1> QED BY <1>2, <1>5 DEF ItemShare, i

LEMMA RebuiltType ==
  ASSUME RefundInv, NEW w \in Weights \cup {NoWeights}, NEW new \in Rebuilt(w)
  PROVE  new \in [Lines -> Nat]
<1> DEFINE shares == IF w = NoWeights THEN amount ELSE w
           stage == [l \in Lines |-> ItemShare(l)]
<1>1. RowsAddUp(refund) /\ amount \in [Lines -> Nat] /\ stage \in [Lines -> Nat]
  BY StageType DEF RefundInv
<1>2. shares \in [Lines -> Nat] /\ (w # NoWeights => w \in [Lines -> Nat])
  BY <1>1, WeightsAssumption
<1>3. NetAmount \in Nat /\ WholeReduction \in Nat /\ Over(Lines, amount) \in Nat
  BY <1>1, NetAmountIs, GrossType, SumNat
<1>4. new \in IF ByTheItem THEN ItemAware(w)
              ELSE IF Pending > 0 THEN Reduced(amount, Pending, shares) ELSE Restored(shares)
  BY DEF Rebuilt
<1> HIDE DEF stage, shares
<1>5. CASE ByTheItem
  <2>1. new \in ItemAware(w)
    BY <1>4, <1>5
  <2>2. CASE WholeReduction = 0
    <3>1. new = stage
      BY <2>1, <2>2 DEF ItemAware, stage
    <3> QED BY <1>1, <3>1
  <2>3. CASE WholeReduction # 0
    <3> DEFINE by == IF w = NoWeights THEN stage ELSE w
    <3>1. new \in Reduced(stage, WholeReduction, by)
      BY <2>1, <2>3 DEF ItemAware, stage
    <3>2. \A l \in Lines : by[l] \in Nat
      BY <1>1, <1>2
    <3> HIDE DEF by
    <3> QED BY <1>1, <1>3, <3>1, <3>2, ReducedType
  <2> QED BY <2>2, <2>3
<1>6. CASE ~ByTheItem /\ Pending > 0
  <2>1. Pending \in Nat
    BY <1>3, <1>6 DEF Pending
  <2>2. new \in Reduced(amount, Pending, shares)
    BY <1>4, <1>6
  <2> QED BY <1>1, <1>2, <2>1, <2>2, ReducedType
<1>7. CASE ~ByTheItem /\ ~(Pending > 0)
  <2>1. new = Split(NetAmount, Lines, shares)
    BY <1>4, <1>7 DEF Restored
  <2> QED BY <1>2, <1>3, <2>1, SplitType
<1> QED BY <1>5, <1>6, <1>7

\* While nothing is recorded nothing is pending: a distribution changes no such state.
LEMMA NothingPending ==
  ASSUME RefundInv, RecordedIn(refund) = {}
  PROVE  Pending = 0
<1>1. RowsAddUp(refund) /\ Over(Lines, amount) = Gross
  BY DEF RefundInv
<1>2. ActiveIn(refund) = {}
  BY DEF ActiveIn, RecordedIn
<1>3. NetAmount = Gross
  BY <1>1, <1>2, NetAmountIs, SumEmpty, GrossType
<1> QED BY <1>1, <1>3, GrossType DEF Pending

LEMMA DistributeKeepsInv ==
  ASSUME RefundInv, NEW w \in Weights \cup {NoWeights}, DistributeAdjustment(w)
  PROVE  RefundInv'
<1>1. PICK new \in Rebuilt(w) : amount' = new
  BY DEF DistributeAdjustment
<1>2. amount' \in [Lines -> Nat]
  BY <1>1, RebuiltType
<1>3. refund' = refund /\ Pending # 0
  BY DEF DistributeAdjustment
<1>4. RecordedIn(refund) # {}
  BY <1>3, NothingPending
<1> QED BY <1>2, <1>3, <1>4 DEF RefundInv

LEMMA InitEstablishesInv == Init => RefundInv
<1> SUFFICES ASSUME Init PROVE RefundInv
  OBVIOUS
<1>1. PICK units \in UnitSplits : amount = ByUnits(GrossOf, units)
  BY DEF Init
<1>2. GrossOf \in [Items -> Nat]
  BY GrossOfAssumption
<1>3. amount \in [Lines -> Nat] /\ Over(Lines, amount) = Gross
  BY <1>1, <1>2, UnitsAreExact DEF Gross
<1>4. refund \in [Refunds -> RefundRows] /\ \A r \in Refunds : refund[r] = NoRefund
  BY DEF Init, NoRefund, RefundRows, Unattributed
<1>5. RecordedIn(refund) = {} /\ ActiveIn(refund) = {}
  BY <1>4 DEF RecordedIn, ActiveIn, NoRefund
<1>6. \A r \in Refunds : refund[r].amount <= Gross /\ refund[r].of = Unattributed
  BY <1>4, GrossType DEF NoRefund
<1>7. \A i \in Items : Over(RecordedIn(refund), Column(refund, i)) <= GrossOf[i]
  BY <1>2, <1>5, SumEmpty
<1>8. Over(ActiveIn(refund), Amounts(refund)) <= Gross
  BY <1>5, SumEmpty, GrossType
<1>9. IsFiniteSet(RecordedIn(refund))
  BY <1>5, FS_EmptySet
<1>10. RowsAddUp(refund)
  BY <1>4, <1>5, <1>6, <1>7, <1>8, <1>9 DEF RowsAddUp
<1> QED BY <1>3, <1>10 DEF RefundInv

LEMMA NextKeepsInv == RefundInv /\ [Next]_vars => RefundInv'
<1> SUFFICES ASSUME RefundInv, [Next]_vars PROVE RefundInv'
  OBVIOUS
<1>1. ASSUME NEW units \in UnitSplits, ApproveAllocation(units) PROVE RefundInv'
  BY <1>1, ApproveKeepsInv
<1>2. ASSUME NEW r \in Refunds, NEW size \in 1 .. Gross, RecordWhole(r, size) PROVE RefundInv'
  BY <1>2, RecordWholeKeepsInv
<1>3. ASSUME NEW r \in Refunds, NEW of \in Attributions, RecordItems(r, of) PROVE RefundInv'
  BY <1>3, RecordItemsKeepsInv
<1>4. ASSUME NEW r \in Refunds, ReverseAdjustment(r) PROVE RefundInv'
  BY <1>4, ReverseKeepsInv
<1>5. ASSUME NEW w \in Weights \cup {NoWeights}, DistributeAdjustment(w) PROVE RefundInv'
  BY <1>5, DistributeKeepsInv
<1>6. CASE UNCHANGED vars
  BY <1>6 DEF vars, RefundInv
<1> QED BY <1>1, <1>2, <1>3, <1>4, <1>5, <1>6 DEF Next

LEMMA InvHolds == Spec => []RefundInv
  BY InitEstablishesInv, NextKeepsInv, PTL DEF Spec

\* Every line holds a natural number of paise, whatever weights a person gave, and the
\* active refunds never exceed what the purchase cost.
THEOREM RefundsTypeCorrect == Spec => []RefundTypeOK
<1>1. RefundInv => RefundTypeOK
  <2> SUFFICES ASSUME RefundInv PROVE RefundTypeOK
    OBVIOUS
  <2>1. RowsAddUp(refund) /\ amount \in [Lines -> Nat]
    BY DEF RefundInv
  <2>2. \A r \in Refunds : /\ refund[r].st \in {"none", "active", "reversed"}
                           /\ refund[r].amount \in 0 .. Gross
    BY <2>1, GrossType DEF RowsAddUp, RefundRows
  <2> QED BY <2>1, <2>2, NetAmountIs DEF RefundTypeOK
<1> QED BY <1>1, InvHolds, PTL

-----------------------------------------------------------------------------
(* The arithmetic of a default distribution.                               *)

\* Apportioning a reduction over the lines themselves is never refused, and exact.
LEMMA ReducedIsExact ==
  ASSUME NEW line \in [Lines -> Nat], NEW total \in Nat \ {0}, total <= Over(Lines, line)
  PROVE  \E new \in Reduced(line, total, line) : Over(Lines, new) = Over(Lines, line) - total
<1> DEFINE cut == Split(total, Lines, line)
           new == [l \in Lines |-> line[l] - cut[l]]
<1>1. IsFiniteSet(Lines) /\ Over(Lines, line) \in Nat /\ Divides(total, Lines, line)
  BY GrossType, SumNat DEF Divides
<1>2. cut \in [Lines -> Nat] /\ Over(Lines, cut) = total /\ \A l \in Lines : cut[l] <= line[l]
  BY <1>1, SplitType, ReductionsFit, LargestRemainderIsExact
<1>3. new \in Reduced(line, total, line)
  BY <1>1, <1>2 DEF Reduced, Covers
<1>4. \A l \in Lines : new[l] \in Int /\ cut[l] \in Int /\ line[l] = new[l] + cut[l]
  BY <1>2
<1> HIDE DEF cut, new
<1>5. Over(Lines, line) = Over(Lines, new) + Over(Lines, cut) /\ Over(Lines, new) \in Int
  BY <1>1, <1>4, SumPlus, SumType
<1>6. Over(Lines, new) = Over(Lines, line) - total
  BY <1>2, <1>5
<1> QED BY <1>3, <1>6

\* The lines the item-level engine starts from carry the net cost of each item.
LEMMA StageIsExact ==
  ASSUME RefundInv, OwnershipKnown
  PROVE  \A i \in Items : Over(LinesOf(i), [l \in Lines |-> ItemShare(l)]) = ItemNet(i)
<1> DEFINE stage == [l \in Lines |-> ItemShare(l)]
<1> TAKE i \in Items
<1>1. LinesOf(i) \in SUBSET Lines /\ IsFiniteSet(LinesOf(i)) /\ ItemNet(i) \in Nat
  BY ItemHasLines, AttributedToIs DEF RefundInv
<1>2. \A l \in LinesOf(i) : l \in Lines /\ ItemOf[l] = i /\ amount[l] \in Nat
  BY DEF LinesOf, RefundInv
<1>3. CASE Cardinality(LinesOf(i)) = 1
  <2>1. PICK l : LinesOf(i) = {l}
    BY <1>1, <1>3, FS_Singleton
  <2>2. l \in Lines /\ stage[l] = ItemNet(i)
    BY <1>2, <1>3, <2>1 DEF ItemShare
  <2> HIDE DEF stage
  <2>3. Over({} \cup {l}, stage) = stage[l] + Over({}, stage)
    <3>1. IsFiniteSet({}) /\ l \notin {} /\ \A y \in {} \cup {l} : stage[y] \in Int
      BY <1>1, <2>2, FS_EmptySet
    <3> QED BY <3>1, SumAdd
  <2>4. LinesOf(i) = {} \cup {l}
    BY <2>1
  <2>5. Over(LinesOf(i), stage) = ItemNet(i)
    BY <1>1, <2>2, <2>3, <2>4, SumEmpty
  <2> QED BY <2>5 DEF stage
<1>4. CASE Cardinality(LinesOf(i)) # 1
  <2> DEFINE split == Split(ItemNet(i), LinesOf(i), amount)
  <2>1. \E l \in LinesOf(i) : TRUE
    BY ItemHasLines
  <2>2. Cardinality(LinesOf(i)) > 1
    <3>1. Cardinality(LinesOf(i)) \in Nat /\ Cardinality(LinesOf(i)) # 0
      BY <1>1, <2>1, FS_CardinalityType, FS_EmptySet
    <3> QED BY <1>4, <3>1
  <2>3. Divides(ItemNet(i), LinesOf(i), amount)
    BY <2>2 DEF OwnershipKnown
  <2>4. Over(LinesOf(i), split) = ItemNet(i) /\ split \in [LinesOf(i) -> Nat]
    BY <1>1, <1>2, <2>3, LargestRemainderIsExact, SplitType
  <2>5. \A l \in LinesOf(i) : split[l] \in Int /\ stage[l] = split[l]
    BY <1>2, <1>4, <2>4 DEF ItemShare
  <2> HIDE DEF split, stage
  <2>6. Over(LinesOf(i), stage) = Over(LinesOf(i), split)
    BY <1>1, <2>5, SumSame
  <2> QED BY <2>4, <2>6 DEF stage
<1> QED BY <1>3, <1>4

\* What was attributed to the items is what the attributed refunds took off, as long as
\* none of those was reversed.
LEMMA ItemNetsAddUp ==
  ASSUME RefundInv, ~ItemReversed
  PROVE  Over(Items, [i \in Items |-> ItemNet(i)]) = Gross - AttributedReduction
<1> DEFINE R == RecordedIn(refund)
           of == [r \in R |-> refund[r].of]
           rows == [r \in R |-> Over(Items, of[r])]
           cell == [i \in Items |-> [r \in R |-> refund[r].of[i]]]
           taken == [i \in Items |-> Over(R, cell[i])]
           net == [i \in Items |-> ItemNet(i)]
<1>1. RowsAddUp(refund) /\ IsFiniteSet(R) /\ IsFiniteSet(Items) /\ refund \in [Refunds -> RefundRows]
  BY GrossType DEF RefundInv, RowsAddUp
<1>2. \A r \in R : r \in Refunds /\ refund[r].of \in [Items -> Nat] /\ refund[r].amount \in Nat
  BY <1>1 DEF RecordedIn, RefundRows
<1>3. \A i \in Items : taken[i] = AttributedTo(i)
  BY DEF AttributedTo, RecordedIn
<1>4. Over(Items, taken) = Over(R, rows)
  <2>1. Transposed(R, Items, of, cell)
    BY <1>2 DEF Transposed
  <2>2. Totals(R, Items, of, rows) /\ Totals(Items, R, cell, taken)
    BY DEF Totals
  <2> HIDE DEF R, of, rows, cell, taken
  <2> QED BY <1>1, <2>1, <2>2, SumExchange
<1>5. Gross = Over(Items, net) + Over(Items, taken) /\ Over(Items, net) \in Int
  <2>1. \A i \in Items : /\ net[i] \in Int /\ taken[i] \in Int
                         /\ GrossOf[i] = net[i] + taken[i]
    <3> TAKE i \in Items
    <3>1. AttributedTo(i) \in Nat /\ GrossOf[i] \in Nat /\ ItemNet(i) = GrossOf[i] - AttributedTo(i)
      BY <1>1, AttributedToIs, GrossOfAssumption DEF ItemNet
    <3> QED BY <1>3, <3>1
  <2> HIDE DEF net, taken
  <2> QED BY <1>1, <2>1, SumPlus, SumType DEF Gross
\* The rows of whole-expense refunds attribute nothing; the others are all active.
<1> DEFINE A == Active(FALSE)
           B == R \ A
           amounts == [r \in A |-> refund[r].amount]
<1>6. A \subseteq R /\ IsFiniteSet(A) /\ IsFiniteSet(B) /\ A \cup B = R /\ A \cap B = {}
  <2>1. A \subseteq R
    BY DEF Active, RecordedIn
  <2> HIDE DEF A, R
  <2> QED BY <1>1, <2>1, FS_Subset
<1>7. \A r \in B : refund[r].of = Unattributed
  BY <1>1 DEF Active, RecordedIn, ItemReversed, RefundRows
<1>8. \A r \in A : rows[r] = amounts[r] /\ amounts[r] \in Int
  <2>1. \A r \in A : r \in R /\ refund[r].of # Unattributed
    BY <1>6 DEF Active
  <2>2. \A r \in A : rows[r] = Over(Items, refund[r].of) /\ amounts[r] = refund[r].amount
    BY <2>1
  <2> HIDE DEF A, R, rows, amounts
  <2> QED BY <1>1, <1>2, <2>1, <2>2 DEF RowsAddUp
<1>9. Over(Items, Unattributed) = 0
  <2>1. \A i \in Items : Unattributed[i] \in Nat /\ Unattributed[i] \in Int /\ Unattributed[i] = 0 * Unattributed[i]
    BY DEF Unattributed
  <2>2. Over(Items, Unattributed) = 0 * Over(Items, Unattributed) /\ Over(Items, Unattributed) \in Int
    BY <1>1, <2>1, SumTimes, SumType
  <2> QED BY <2>2
<1>10. \A r \in B : rows[r] = 0
  BY <1>7, <1>9
<1> HIDE DEF A, B, R, rows, amounts, of, cell, taken, net
<1>11. \A r \in A \cup B : rows[r] \in Int
  BY <1>8, <1>10
<1>12. Over(R, rows) = Over(A, rows) + Over(B, rows)
  BY <1>6, <1>11, SumUnion
<1>13. Over(B, rows) = 0
  <2>1. \A r \in B : rows[r] \in Int /\ rows[r] = 0 * rows[r]
    BY <1>10
  <2>2. Over(B, rows) = 0 * Over(B, rows) /\ Over(B, rows) \in Int
    BY <1>6, <2>1, SumTimes, SumType
  <2> QED BY <2>2
<1>14. Over(A, rows) = Over(A, amounts) /\ Over(A, rows) \in Int
  <2>1. \A r \in A : amounts[r] \in Int /\ rows[r] \in Int /\ rows[r] = amounts[r]
    BY <1>8
  <2> QED BY <1>6, <2>1, SumSame, SumType
<1>15. Over(A, amounts) = AttributedReduction
  BY DEF A, amounts, AttributedReduction, SumOf
<1> QED BY <1>4, <1>5, <1>12, <1>13, <1>14, <1>15, GrossType DEF net

\* Unless an attributed refund was reversed, a pending amount can be distributed by default
\* whenever the proportion to divide it by is still there: the division is exact, takes no
\* line below zero and passes the checks before the write (distributeAdjustment).
THEOREM DistributionIsPossible == Spec => []OnlyALostProportionRefuses
<1>1. RefundInv => OnlyALostProportionRefuses
  <2> SUFFICES ASSUME RefundInv, ~ItemReversed, Pending # 0, ~ProportionLost
               PROVE  \E new : new \in Rebuilt(NoWeights)
    BY DEF OnlyALostProportionRefuses, CanDistribute
  <2>1. /\ amount \in [Lines -> Nat] /\ RowsAddUp(refund) /\ IsFiniteSet(Lines)
        /\ Over(Lines, amount) \in Nat /\ \A l \in Lines : amount[l] <= Over(Lines, amount)
    BY GrossType, SumNat DEF RefundInv
  <2>2. /\ NetAmount \in Nat /\ WholeReduction \in Nat /\ AttributedReduction \in Nat
        /\ NetAmount = Gross - (WholeReduction + AttributedReduction)
    BY <2>1, NetAmountIs, GrossType
  <2>3. CASE ByTheItem
    <3> DEFINE stage == [l \in Lines |-> ItemShare(l)]
               net == [i \in Items |-> ItemNet(i)]
    <3>1. OwnershipKnown
      BY <2>3 DEF ProportionLost
    <3>2. stage \in [Lines -> Nat] /\ \A i \in Items : net[i] = Over(LinesOf(i), stage)
      BY <3>1, StageType, StageIsExact
    <3>3. Over(Items, net) = Gross - AttributedReduction
      BY ItemNetsAddUp
    <3>4. \A l \in Lines : stage[l] \in Int
      BY <3>2
    <3>5. \A i \in Items : net[i] = ItemNet(i)
      OBVIOUS
    <3>6. ItemAware(NoWeights) = IF WholeReduction = 0 THEN {stage} ELSE Reduced(stage, WholeReduction, stage)
      BY <3>1 DEF ItemAware
    <3> HIDE DEF stage, net
    <3>7. Over(Lines, stage) = Gross - AttributedReduction
      BY <3>2, <3>3, <3>4, SumOfParts
    <3>8. CASE WholeReduction = 0
      <4>1. stage \in ItemAware(NoWeights)
        BY <3>6, <3>8
      <4>2. \A i \in Items : Over(LinesOf(i), stage) = ItemNet(i)
        BY <3>2, <3>5
      <4>3. Over(Lines, stage) = NetAmount
        BY <2>2, <3>7, <3>8, GrossType
      <4> QED BY <2>3, <4>1, <4>2, <4>3 DEF Rebuilt
    <3>9. CASE WholeReduction # 0
      <4>1. WholeReduction <= Over(Lines, stage)
        BY <2>2, <3>7, GrossType
      <4>2. PICK new \in Reduced(stage, WholeReduction, stage) : Over(Lines, new) = Over(Lines, stage) - WholeReduction
        BY <2>2, <3>2, <3>9, <4>1, ReducedIsExact
      <4>3. Over(Lines, new) = NetAmount
        BY <2>2, <3>7, <4>2, GrossType
      <4>4. new \in ItemAware(NoWeights)
        BY <3>6, <3>9, <4>2
      <4> QED BY <2>3, <3>9, <4>3, <4>4 DEF Rebuilt
    <3> QED BY <3>8, <3>9
  <2>4. CASE ~ByTheItem /\ Pending > 0
    <3>1. Pending \in Nat \ {0} /\ Pending <= Over(Lines, amount) /\ Over(Lines, amount) - Pending = NetAmount
      BY <2>1, <2>2, <2>4 DEF Pending
    <3>2. PICK new \in Reduced(amount, Pending, amount) : Over(Lines, new) = Over(Lines, amount) - Pending
      BY <2>1, <3>1, ReducedIsExact
    <3> QED BY <2>4, <3>1, <3>2 DEF Rebuilt
  <2>5. CASE ~ByTheItem /\ ~(Pending > 0)
    <3> DEFINE new == Split(NetAmount, Lines, amount)
    <3>1. PICK l \in Lines : amount[l] # 0
      BY <2>5 DEF ProportionLost
    <3>2. Divides(NetAmount, Lines, amount)
      BY <2>1, <3>1 DEF Divides
    <3>3. Over(Lines, new) = NetAmount
      BY <2>1, <2>2, <3>2, LargestRemainderIsExact
    <3>4. new \in Restored(amount)
      BY <3>1 DEF Restored
    <3> HIDE DEF new
    <3> QED BY <2>5, <3>3, <3>4 DEF Rebuilt
  <2> QED BY <2>3, <2>4, <2>5
<1> QED BY <1>1, InvHolds, PTL

\* A refund of one item never moves a share of another: while every refund names its
\* items and none was reversed, a distribution leaves the lines of an item that already
\* carry its net cost as they are (buildItemAwareAllocationLines).
THEOREM OtherItemsAreLeftAlone == Spec => RefundsStayOnTheirItem
<1>1. ASSUME RefundInv, NEW w \in Weights \cup {NoWeights}, DistributeAdjustment(w),
             NothingReversed, WholeReduction = 0,
             NEW i \in Items, Over(LinesOf(i), amount) = ItemNet(i), NEW l \in LinesOf(i)
      PROVE  amount'[l] = amount[l]
  <2>1. /\ LinesOf(i) \in SUBSET Lines /\ IsFiniteSet(LinesOf(i))
        /\ l \in Lines /\ ItemOf[l] = i /\ \A k \in LinesOf(i) : amount[k] \in Nat
    BY <1>1, ItemHasLines DEF LinesOf, RefundInv
  <2>2. ByTheItem
    <3> SUFFICES ASSUME AttributedReduction = 0 PROVE FALSE
      BY DEF ByTheItem
    <3>1. RowsAddUp(refund) /\ Over(ActiveIn(refund), Amounts(refund)) = 0
      BY <1>1, NetAmountIs DEF RefundInv
    <3>2. PICK r \in RecordedIn(refund) : refund[r].amount > 0 /\ refund[r].st = "active" /\ r \in Refunds
      <4>1. RecordedIn(refund) # {}
        BY <1>1, NothingPending DEF DistributeAdjustment
      <4> QED BY <1>1, <3>1, <4>1 DEF RowsAddUp, RecordedIn, NothingReversed, RefundRows
    <3>3. r \in ActiveIn(refund) /\ Amounts(refund)[r] > 0
      BY <3>2 DEF ActiveIn, Amounts
    <3>4. IsFiniteSet(ActiveIn(refund)) /\ \A q \in ActiveIn(refund) : Amounts(refund)[q] \in Nat
      BY <3>1, RowsFinite DEF RowsAddUp, RefundRows, Amounts, ActiveIn
    <3>5. Amounts(refund)[r] <= 0
      BY <3>1, <3>3, <3>4, SumNat
    <3> QED BY <3>3, <3>4, <3>5
  <2>3. amount' = [k \in Lines |-> ItemShare(k)]
    BY <1>1, <2>2 DEF DistributeAdjustment, Rebuilt, ItemAware
  <2>4. amount'[l] = ItemShare(l)
    BY <2>1, <2>3
  <2>5. CASE Cardinality(LinesOf(i)) = 1
    <3>1. LinesOf(i) = {} \cup {l}
      BY <2>1, <2>5, FS_Singleton
    <3>2. Over({} \cup {l}, amount) = amount[l] + Over({}, amount)
      <4>1. IsFiniteSet({}) /\ l \notin {} /\ \A y \in {} \cup {l} : amount[y] \in Int
        BY <1>1, <2>1, FS_EmptySet
      <4> QED BY <4>1, SumAdd
    <3>3. Over(LinesOf(i), amount) = amount[l]
      BY <1>1, <2>1, <3>1, <3>2, SumEmpty
    <3> QED BY <1>1, <2>1, <2>4, <2>5, <3>3 DEF ItemShare
  <2>6. CASE Cardinality(LinesOf(i)) # 1
    <3>1. Split(Over(LinesOf(i), amount), LinesOf(i), amount)[l] = amount[l]
      BY <1>1, <2>1, ExactSharesStay
    <3> QED BY <1>1, <2>1, <2>4, <2>6, <3>1 DEF ItemShare
  <2> QED BY <2>5, <2>6
<1>2. RefundInv /\ [Next]_vars
        => [ Distribution /\ NothingReversed /\ WholeReduction = 0
               => \A i \in Items : Over(LinesOf(i), amount) = ItemNet(i)
                                      => \A l \in LinesOf(i) : amount'[l] = amount[l] ]_vars
  BY <1>1 DEF Distribution
<1> QED BY <1>2, InvHolds, PTL DEF Spec, RefundsStayOnTheirItem
=============================================================================
