----------------------------- MODULE FiniteSums -----------------------------
(***************************************************************************)
(* Laws of SumFunctionOnSet, the sum over a finite set with which the      *)
(* ledger adds up bills.  The sum picks its elements by CHOOSE and is      *)
(* defined by recursion over subsets; the laws say that neither matters.   *)
(* Induction goes by a least counterexample: a set of numbers has a least  *)
(* element, a set of finite sets a minimal one.                            *)
(***************************************************************************)
EXTENDS Integers, FiniteSets, FiniteSetsExt, FiniteSetTheorems, TLAPS

LEMMA LeastNumber ==
  ASSUME NEW S \in SUBSET Nat, S # {}
  PROVE  \E n \in S : \A m \in S : n <= m
<1>1. PICK n \in S : \A m \in S : ~ (<<m, n>> \in OpToRel(<, Nat))
  BY WFMin, NatLessThanWellFounded, Zenon
<1>2. \A i, j \in Nat : <<i, j>> \in OpToRel(<, Nat) <=> i < j
  BY Zenon DEF OpToRel
<1>3. n \in Nat /\ \A m \in S : m \in Nat /\ ~ (m < n)
  BY <1>1, <1>2, Zenon
<1> QED
  BY <1>3

Minimal(T, U) == T \in U /\ \A W \in U : W \subseteq T => W = T

LEMMA MinimalSet ==
  ASSUME NEW S, NEW U, U # {}, \A T \in U : T \in FiniteSubsetsOf(S)
  PROVE  \E T : Minimal(T, U)
<1>1. PICK T \in U : \A W \in U : ~ (<<W, T>> \in StrictSubsetOrdering(S))
  <2>1. U \subseteq FiniteSubsetsOf(S)
    OBVIOUS
  <2> QED
    BY <2>1, WFMin, FS_StrictSubsetOrderingWellFounded, Zenon
<1> QED
  BY <1>1 DEF StrictSubsetOrdering, FiniteSubsetsOf, Minimal

-----------------------------------------------------------------------------
(* The recursion behind the sum.                                            *)

Picked(T) == CHOOSE x \in T : TRUE

\* t adds up f over each set of the family U, one element after the other.
Tally(t, f, U) ==
  t = [T \in U |-> IF T = {} THEN 0 ELSE f[Picked(T)] + t[T \ {Picked(T)}]]

LEMMA PickedIn == ASSUME NEW T, T # {} PROVE Picked(T) \in T
  BY DEF Picked

Small(S, n) == {T \in SUBSET S : Cardinality(T) <= n}

LEMMA SmallTally ==
  ASSUME NEW f, NEW S, IsFiniteSet(S), NEW n \in Nat
  PROVE  \E t : Tally(t, f, Small(S, n))
<1> DEFINE Bad == {m \in Nat : ~ \E t : Tally(t, f, Small(S, m))}
<1> SUFFICES ASSUME Bad # {} PROVE FALSE
  OBVIOUS
<1>1. PICK m \in Bad : \A i \in Bad : m <= i
  <2> HIDE DEF Bad
  <2>1. Bad \subseteq Nat
    BY DEF Bad
  <2> QED
    BY <2>1, LeastNumber
<1>2. \A T \in SUBSET S : IsFiniteSet(T) /\ Cardinality(T) \in Nat
  BY FS_Subset, FS_CardinalityType
<1>3. CASE m = 0
  <2> DEFINE t == [T \in Small(S, 0) |-> 0]
  <2>1. \A T \in Small(S, 0) : T = {}
    BY <1>2, FS_EmptySet DEF Small
  <2>2. Tally(t, f, Small(S, 0))
    BY <2>1 DEF Tally
  <2> QED
    BY <1>3, <2>2
<1>4. CASE m # 0
  <2>1. m - 1 \in Nat /\ m - 1 \notin Bad
    BY <1>1, <1>4
  <2>2. PICK u : Tally(u, f, Small(S, m - 1))
    BY <2>1
  <2> DEFINE t == [T \in Small(S, m) |-> IF T = {} THEN 0 ELSE f[Picked(T)] + u[T \ {Picked(T)}]]
  <2>3. ASSUME NEW T \in Small(S, m), T # {}
        PROVE  t[T \ {Picked(T)}] = u[T \ {Picked(T)}]
    <3> DEFINE V == T \ {Picked(T)}
    <3>1. IsFiniteSet(T) /\ Cardinality(V) = Cardinality(T) - 1 /\ Cardinality(T) <= m
          /\ Cardinality(T) \in Nat
      BY <1>2, <2>3, PickedIn, FS_RemoveElement DEF Small
    <3>2. V \in Small(S, m - 1) /\ V \in Small(S, m)
      BY <3>1 DEF Small
    <3>3. u[V] = IF V = {} THEN 0 ELSE f[Picked(V)] + u[V \ {Picked(V)}]
      BY <2>2, <3>2 DEF Tally
    <3> QED
      BY <3>2, <3>3
  <2>4. Tally(t, f, Small(S, m))
    BY <2>3 DEF Tally
  <2> QED
    BY <2>4
<1> QED
  BY <1>3, <1>4

LEMMA SumIsTally ==
  ASSUME NEW f, NEW S, IsFiniteSet(S)
  PROVE  \E t : Tally(t, f, SUBSET S) /\ SumFunctionOnSet(f, S) = t[S]
<1>1. Small(S, Cardinality(S)) = SUBSET S /\ Cardinality(S) \in Nat
  BY FS_Subset, FS_CardinalityType DEF Small
<1>2. \E t : Tally(t, f, SUBSET S)
  <2>1. \E t : Tally(t, f, Small(S, Cardinality(S)))
    BY <1>1, SmallTally
  <2> QED
    BY <1>1, <2>1, Zenon
<1>3. SumFunctionOnSet(f, S) = (CHOOSE t : Tally(t, f, SUBSET S))[S]
  BY Zenon DEF SumFunctionOnSet, FoldFunctionOnSet, MapThenFoldSet, Tally, Picked
<1> QED
  BY <1>2, <1>3

\* Two tallies agree on every finite set that both know.
LEMMA TalliesAgree ==
  ASSUME NEW f, NEW g, NEW S, NEW R, NEW t, NEW u,
         Tally(t, f, SUBSET S), Tally(u, g, SUBSET R),
         NEW T, T \subseteq S, T \subseteq R, IsFiniteSet(T), \A x \in T : f[x] = g[x]
  PROVE  t[T] = u[T]
<1> DEFINE Bad == {V \in SUBSET T : t[V] # u[V]}
<1> SUFFICES ASSUME Bad # {} PROVE FALSE
  OBVIOUS
<1>1. PICK V : Minimal(V, Bad)
  <2>1. Bad # {} /\ \A W \in Bad : W \in FiniteSubsetsOf(T)
    BY FS_Subset DEF FiniteSubsetsOf
  <2> HIDE DEF Bad
  <2> QED
    BY ONLY <2>1, MinimalSet, Zenon
<1>2. V # {}
  BY <1>1 DEF Tally, Minimal
<1>3. Picked(V) \in V
  BY <1>2, PickedIn
<1>4. V \ {Picked(V)} \notin Bad /\ V \in Bad
  BY <1>1, <1>3 DEF Minimal
<1>5. t[V] = f[Picked(V)] + t[V \ {Picked(V)}] /\ u[V] = g[Picked(V)] + u[V \ {Picked(V)}]
  BY <1>2, <1>4 DEF Tally
<1> QED
  BY <1>3, <1>4, <1>5

-----------------------------------------------------------------------------
(* The laws.                                                                *)

Numbers(f, S) == \A x \in S : f[x] \in Int

\* The sum over two sets is the same when the functions agree there.
LEMMA SumSame ==
  ASSUME NEW f, NEW g, NEW S, IsFiniteSet(S), \A x \in S : f[x] = g[x]
  PROVE  SumFunctionOnSet(f, S) = SumFunctionOnSet(g, S)
<1>1. PICK t : Tally(t, f, SUBSET S) /\ SumFunctionOnSet(f, S) = t[S]
  BY SumIsTally
<1>2. PICK u : Tally(u, g, SUBSET S) /\ SumFunctionOnSet(g, S) = u[S]
  BY SumIsTally
<1> QED
  BY <1>1, <1>2, TalliesAgree

LEMMA SumEmpty == ASSUME NEW f PROVE SumFunctionOnSet(f, {}) = 0
<1>1. PICK t : Tally(t, f, SUBSET {}) /\ SumFunctionOnSet(f, {}) = t[{}]
  BY SumIsTally, FS_EmptySet
<1> QED
  BY <1>1 DEF Tally

\* The equation of the recursion, with the element it chooses.
LEMMA SumPicked ==
  ASSUME NEW f, NEW S, IsFiniteSet(S), S # {}
  PROVE  SumFunctionOnSet(f, S) = f[Picked(S)] + SumFunctionOnSet(f, S \ {Picked(S)})
<1> DEFINE R == S \ {Picked(S)}
<1>1. PICK t : Tally(t, f, SUBSET S) /\ SumFunctionOnSet(f, S) = t[S]
  BY SumIsTally
<1>2. IsFiniteSet(R) /\ R \subseteq S
  BY FS_RemoveElement
<1>3. PICK u : Tally(u, f, SUBSET R) /\ SumFunctionOnSet(f, R) = u[R]
  BY <1>2, SumIsTally
<1>4. t[R] = u[R]
  <2> HIDE DEF R
  <2>1. R \subseteq R /\ \A x \in R : f[x] = f[x]
    OBVIOUS
  <2> QED
    BY <1>1, <1>2, <1>3, <2>1, TalliesAgree
<1>5. t[S] = f[Picked(S)] + t[R]
  BY <1>1 DEF Tally
<1> QED
  BY <1>1, <1>3, <1>4, <1>5

LEMMA SumInteger ==
  ASSUME NEW f, NEW S, IsFiniteSet(S), Numbers(f, S)
  PROVE  SumFunctionOnSet(f, S) \in Int
<1> DEFINE Bad == {T \in SUBSET S : SumFunctionOnSet(f, T) \notin Int}
<1> SUFFICES ASSUME Bad # {} PROVE FALSE
  BY Zenon
<1>1. PICK T : Minimal(T, Bad)
  <2>1. Bad # {} /\ \A W \in Bad : W \in FiniteSubsetsOf(S)
    BY FS_Subset DEF FiniteSubsetsOf
  <2> HIDE DEF Bad
  <2> QED
    BY ONLY <2>1, MinimalSet, Zenon
<1>2. T \in Bad /\ IsFiniteSet(T) /\ T # {}
  <2>1. T \in Bad /\ T \in SUBSET S
    BY <1>1 DEF Minimal
  <2>2. IsFiniteSet(T)
    BY <2>1, FS_Subset
  <2>3. SumFunctionOnSet(f, {}) = 0
    BY SumEmpty
  <2>4. SumFunctionOnSet(f, T) \notin Int
    BY <2>1
  <2> HIDE DEF Bad
  <2>5. T # {}
    BY ONLY <2>3, <2>4
  <2> QED
    BY <2>1, <2>2, <2>5
<1>3. Picked(T) \in T /\ T \ {Picked(T)} \notin Bad
  BY <1>1, <1>2, PickedIn DEF Minimal
<1>4. SumFunctionOnSet(f, T \ {Picked(T)}) \in Int /\ f[Picked(T)] \in Int
  BY <1>2, <1>3 DEF Numbers
<1> QED
  BY <1>2, <1>4, SumPicked

\* Any element may be taken out first.
LEMMA SumWithout ==
  ASSUME NEW f, NEW S, IsFiniteSet(S), Numbers(f, S), NEW x \in S
  PROVE  SumFunctionOnSet(f, S) = f[x] + SumFunctionOnSet(f, S \ {x})
<1> DEFINE Bad == {T \in SUBSET S : \E y \in T :
                     SumFunctionOnSet(f, T) # f[y] + SumFunctionOnSet(f, T \ {y})}
<1> SUFFICES ASSUME Bad # {} PROVE FALSE
  BY Zenon
<1>1. PICK T : Minimal(T, Bad)
  <2>1. Bad # {} /\ \A W \in Bad : W \in FiniteSubsetsOf(S)
    BY FS_Subset DEF FiniteSubsetsOf
  <2> HIDE DEF Bad
  <2> QED
    BY ONLY <2>1, MinimalSet, Zenon
<1>2. T \in SUBSET S /\ IsFiniteSet(T)
  BY <1>1, FS_Subset DEF Minimal
<1>3. PICK y \in T : SumFunctionOnSet(f, T) # f[y] + SumFunctionOnSet(f, T \ {y})
  BY <1>1 DEF Minimal
<1> DEFINE c == Picked(T)
<1>4. c \in T /\ SumFunctionOnSet(f, T) = f[c] + SumFunctionOnSet(f, T \ {c})
  BY <1>2, <1>3, PickedIn, SumPicked
<1> HIDE DEF c
<1>5. y # c
  BY <1>3, <1>4
<1>6. T \ {c} \notin Bad /\ T \ {y} \notin Bad
  BY <1>1, <1>3, <1>4 DEF Minimal
<1> DEFINE R == (T \ {y}) \ {c}
<1>7. R = (T \ {c}) \ {y} /\ IsFiniteSet(R) /\ Numbers(f, R)
  BY <1>2, FS_RemoveElement DEF Numbers
<1>8. SumFunctionOnSet(f, T \ {c}) = f[y] + SumFunctionOnSet(f, (T \ {c}) \ {y})
  BY <1>2, <1>3, <1>5, <1>6
<1>9. SumFunctionOnSet(f, T \ {y}) = f[c] + SumFunctionOnSet(f, R)
  BY <1>2, <1>4, <1>5, <1>6
<1>10. SumFunctionOnSet(f, R) \in Int /\ f[c] \in Int /\ f[y] \in Int
  BY <1>2, <1>3, <1>4, <1>7, SumInteger DEF Numbers
<1>11. SumFunctionOnSet(f, T \ {c}) = f[y] + SumFunctionOnSet(f, R)
  BY <1>7, <1>8
<1> HIDE DEF R
<1>12. f[c] + (f[y] + SumFunctionOnSet(f, R)) = f[y] + (f[c] + SumFunctionOnSet(f, R))
  BY ONLY <1>10
<1> QED
  BY <1>3, <1>4, <1>9, <1>11, <1>12, Zenon

\* A set grows by an element.
LEMMA SumWith ==
  ASSUME NEW f, NEW S, IsFiniteSet(S), NEW x, x \notin S, Numbers(f, S \cup {x})
  PROVE  SumFunctionOnSet(f, S \cup {x}) = f[x] + SumFunctionOnSet(f, S)
<1>1. IsFiniteSet(S \cup {x}) /\ (S \cup {x}) \ {x} = S
  BY FS_AddElement
<1> QED
  BY <1>1, SumWithout

\* A sum grows with its terms.
LEMMA SumAtMost ==
  ASSUME NEW f, NEW g, NEW S, IsFiniteSet(S), Numbers(f, S), Numbers(g, S),
         \A x \in S : f[x] <= g[x]
  PROVE  SumFunctionOnSet(f, S) <= SumFunctionOnSet(g, S)
<1> DEFINE Bad == {T \in SUBSET S : ~ (SumFunctionOnSet(f, T) <= SumFunctionOnSet(g, T))}
<1> SUFFICES ASSUME Bad # {} PROVE FALSE
  BY Zenon
<1>1. PICK T : Minimal(T, Bad)
  <2>1. Bad # {} /\ \A W \in Bad : W \in FiniteSubsetsOf(S)
    BY FS_Subset DEF FiniteSubsetsOf
  <2> HIDE DEF Bad
  <2> QED
    BY ONLY <2>1, MinimalSet, Zenon
<1>2. T \in Bad /\ IsFiniteSet(T) /\ T # {}
  <2>1. T \in Bad /\ T \in SUBSET S
    BY <1>1 DEF Minimal
  <2>2. IsFiniteSet(T)
    BY <2>1, FS_Subset
  <2>3. SumFunctionOnSet(f, {}) = 0 /\ SumFunctionOnSet(g, {}) = 0
    BY SumEmpty
  <2>4. ~ (SumFunctionOnSet(f, T) <= SumFunctionOnSet(g, T))
    BY <2>1
  <2> HIDE DEF Bad
  <2>5. T # {}
    BY ONLY <2>3, <2>4
  <2> QED
    BY <2>1, <2>2, <2>5
<1> DEFINE c == Picked(T)
           R == T \ {c}
<1>3. c \in T /\ R \notin Bad /\ IsFiniteSet(R) /\ Numbers(f, R) /\ Numbers(g, R)
  BY <1>1, <1>2, PickedIn, FS_RemoveElement DEF Minimal, Numbers
<1>4. /\ SumFunctionOnSet(f, T) = f[c] + SumFunctionOnSet(f, R)
      /\ SumFunctionOnSet(g, T) = g[c] + SumFunctionOnSet(g, R)
  BY <1>2, SumPicked
<1>5. SumFunctionOnSet(f, R) \in Int /\ SumFunctionOnSet(g, R) \in Int
  BY <1>3, SumInteger
<1>6. SumFunctionOnSet(f, R) <= SumFunctionOnSet(g, R)
  BY <1>2, <1>3
<1>7. f[c] \in Int /\ g[c] \in Int /\ f[c] <= g[c]
  BY <1>2, <1>3 DEF Numbers
<1> HIDE DEF c, R
<1> QED
  BY <1>2, <1>4, <1>5, <1>6, <1>7

\* The sum over two disjoint sets.
LEMMA SumUnion ==
  ASSUME NEW f, NEW S, NEW R, IsFiniteSet(S), IsFiniteSet(R), S \cap R = {},
         Numbers(f, S \cup R)
  PROVE  SumFunctionOnSet(f, S \cup R) = SumFunctionOnSet(f, S) + SumFunctionOnSet(f, R)
<1> DEFINE Bad == {T \in SUBSET R :
                     SumFunctionOnSet(f, S \cup T) # SumFunctionOnSet(f, S) + SumFunctionOnSet(f, T)}
<1> SUFFICES ASSUME Bad # {} PROVE FALSE
  BY Zenon
<1>1. PICK T : Minimal(T, Bad)
  <2>1. Bad # {} /\ \A W \in Bad : W \in FiniteSubsetsOf(R)
    BY FS_Subset DEF FiniteSubsetsOf
  <2> HIDE DEF Bad
  <2> QED
    BY ONLY <2>1, MinimalSet, Zenon
<1>2. T \in SUBSET R /\ T \in Bad /\ IsFiniteSet(T)
  BY <1>1, FS_Subset DEF Minimal
<1>3. SumFunctionOnSet(f, S) \in Int
  BY SumInteger DEF Numbers
<1>4. T # {}
  <2>1. SumFunctionOnSet(f, {}) = 0 /\ S \cup {} = S
    BY SumEmpty
  <2>2. SumFunctionOnSet(f, S \cup T) # SumFunctionOnSet(f, S) + SumFunctionOnSet(f, T)
    BY <1>2
  <2>3. T = {} => SumFunctionOnSet(f, S \cup T) = SumFunctionOnSet(f, S)
                  /\ SumFunctionOnSet(f, T) = 0
    BY <2>1, Zenon
  <2>4. SumFunctionOnSet(f, S) + 0 = SumFunctionOnSet(f, S)
    BY <1>3
  <2> HIDE DEF Bad
  <2> QED
    BY ONLY <2>2, <2>3, <2>4, Zenon
<1> DEFINE c == Picked(T)
           W == T \ {c}
<1>5. c \in T /\ W \notin Bad /\ W \in SUBSET R
  BY <1>1, <1>2, <1>4, PickedIn DEF Minimal
<1>6. SumFunctionOnSet(f, S \cup W) = SumFunctionOnSet(f, S) + SumFunctionOnSet(f, W)
  BY <1>5
<1>7. SumFunctionOnSet(f, T) = f[c] + SumFunctionOnSet(f, W)
  BY <1>2, <1>4, SumPicked
<1>8. SumFunctionOnSet(f, S \cup T) = f[c] + SumFunctionOnSet(f, S \cup W)
  <2>1. IsFiniteSet(S \cup T) /\ c \in S \cup T /\ (S \cup T) \ {c} = S \cup W
    BY <1>2, <1>5, FS_Union
  <2>2. Numbers(f, S \cup T)
    BY <1>2 DEF Numbers
  <2> HIDE DEF c, W
  <2> QED
    BY <2>1, <2>2, SumWithout
<1>9. IsFiniteSet(W) /\ Numbers(f, W) /\ f[c] \in Int
  BY <1>2, <1>5, FS_RemoveElement DEF Numbers
<1>10. SumFunctionOnSet(f, W) \in Int
  BY <1>9, SumInteger
<1>11. SumFunctionOnSet(f, S \cup T) # SumFunctionOnSet(f, S) + SumFunctionOnSet(f, T)
  BY <1>2
<1> HIDE DEF c, W, Bad
<1> QED
  BY ONLY <1>3, <1>6, <1>7, <1>8, <1>9, <1>10, <1>11

\* The sum over a union of disjoint parts, one for each q of Q, is the sum of
\* the sums over the parts.
LEMMA SumByParts ==
  ASSUME NEW f, NEW Q, NEW Part, IsFiniteSet(Q),
         \A q \in Q : IsFiniteSet(Part[q]) /\ Numbers(f, Part[q]),
         \A p, q \in Q : p # q => Part[p] \cap Part[q] = {}
  PROVE  SumFunctionOnSet(f, UNION {Part[q] : q \in Q}) =
           SumFunctionOnSet([q \in Q |-> SumFunctionOnSet(f, Part[q])], Q)
<1> DEFINE g == [q \in Q |-> SumFunctionOnSet(f, Part[q])]
           All(T) == UNION {Part[q] : q \in T}
           Bad == {T \in SUBSET Q : SumFunctionOnSet(f, All(T)) # SumFunctionOnSet(g, T)}
<1> SUFFICES ASSUME Bad # {} PROVE FALSE
  BY Zenon
<1>1. PICK T : Minimal(T, Bad)
  <2>1. Bad # {} /\ \A W \in Bad : W \in FiniteSubsetsOf(Q)
    BY FS_Subset DEF FiniteSubsetsOf
  <2> HIDE DEF Bad
  <2> QED
    BY ONLY <2>1, MinimalSet, Zenon
<1>2. T \in SUBSET Q /\ T \in Bad /\ IsFiniteSet(T)
  BY <1>1, FS_Subset DEF Minimal
<1>3. T # {}
  <2>1. All({}) = {} /\ SumFunctionOnSet(f, {}) = SumFunctionOnSet(g, {})
    BY SumEmpty
  <2>2. SumFunctionOnSet(f, All(T)) # SumFunctionOnSet(g, T)
    BY <1>2
  <2> QED
    BY <2>1, <2>2
<1> DEFINE c == Picked(T)
           W == T \ {c}
<1>4. c \in T /\ W \notin Bad /\ W \in SUBSET Q /\ IsFiniteSet(W) /\ c \in Q
  BY <1>1, <1>2, <1>3, PickedIn, FS_RemoveElement DEF Minimal
<1>5. SumFunctionOnSet(f, All(W)) = SumFunctionOnSet(g, W)
  BY <1>4
<1>6. SumFunctionOnSet(g, T) = g[c] + SumFunctionOnSet(g, W)
  BY <1>2, <1>3, SumPicked
<1> HIDE DEF c, W
<1>7. All(T) = Part[c] \cup All(W)
  BY <1>4 DEF W
<1>8. Part[c] \cap All(W) = {}
  BY <1>4 DEF W
<1>9. IsFiniteSet(Part[c]) /\ IsFiniteSet(All(W))
  <2>1. IsFiniteSet(All(W))
    <3> DEFINE h == [q \in W |-> Part[q]]
               Parts == {Part[q] : q \in W}
    <3>1. h \in Surjection(W, Parts)
      BY DEF Surjection
    <3>2. IsFiniteSet(Parts) /\ \A V \in Parts : IsFiniteSet(V)
      BY <1>4, <3>1, FS_Surjection
    <3> HIDE DEF Parts
    <3>3. IsFiniteSet(UNION Parts)
      BY <3>2, FS_UNION
    <3> QED
      BY <3>3 DEF Parts
  <2> QED
    BY <1>4, <2>1
<1>10. Numbers(f, Part[c] \cup All(W))
  BY <1>4 DEF Numbers
<1> HIDE DEF All
<1>11. SumFunctionOnSet(f, All(T)) = SumFunctionOnSet(f, Part[c]) + SumFunctionOnSet(f, All(W))
  BY <1>7, <1>8, <1>9, <1>10, SumUnion
<1>12. g[c] = SumFunctionOnSet(f, Part[c])
  BY <1>4
<1>13. SumFunctionOnSet(f, All(T)) # SumFunctionOnSet(g, T)
  BY <1>2
<1> HIDE DEF g, Bad
<1> QED
  BY ONLY <1>5, <1>6, <1>11, <1>12, <1>13

=============================================================================
