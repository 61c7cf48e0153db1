----------------------------- MODULE SumProofs -----------------------------
(***************************************************************************)
(* What SumOver computes, for every finite set: the fold picks the         *)
(* elements in an order of its own, and the sum does not depend on it.     *)
(* Induction over finite sets is done by hand: among the subsets that      *)
(* violate a claim there would be a minimal one (MinimalSet).              *)
(***************************************************************************)
EXTENDS Sums, FiniteSetTheorems, TLAPS

\* The element that the fold takes next.
Pick(s) == CHOOSE x \in s : TRUE

\* g is the table of partial sums that MapThenFoldSet defines by recursion.
IsTable(g, f, S) ==
    g = [s \in SUBSET S |-> IF s = {} THEN 0 ELSE f[Pick(s)] + g[s \ {Pick(s)}]]

\* A set of subsets of a finite set has a minimal element.
LEMMA MinimalSet ==
    ASSUME NEW S, IsFiniteSet(S), NEW T, T \subseteq SUBSET S, T # {}
    PROVE  \E x \in T : \A y \in T : ~(y \subseteq x /\ y # x)
<1>1. FiniteSubsetsOf(S) = SUBSET S BY FS_FiniteSubsetsOfFinite
<1>2. IsWellFoundedOn(StrictSubsetOrdering(S), FiniteSubsetsOf(S))
  BY FS_StrictSubsetOrderingWellFounded
<1>3. PICK x \in T : \A y \in T : ~(<<y, x>> \in StrictSubsetOrdering(S))
  BY <1>1, <1>2, WFMin
<1> QED BY <1>3 DEF StrictSubsetOrdering

\* The element that the fold takes first is one of the set.
LEMMA PickInSet ==
    ASSUME NEW s, s # {}
    PROVE  Pick(s) \in s
BY DEF Pick

-----------------------------------------------------------------------------
(* The recursive table exists and is unique.                               *)

\* An entry of the table is the one the recursion asks for.
LEMMA TableEntry ==
    ASSUME NEW f, NEW S, NEW g, IsTable(g, f, S), NEW s \in SUBSET S
    PROVE  g[s] = IF s = {} THEN 0 ELSE f[Pick(s)] + g[s \ {Pick(s)}]
<1> DEFINE G == [t \in SUBSET S |-> IF t = {} THEN 0 ELSE f[Pick(t)] + g[t \ {Pick(t)}]]
<1>1. G[s] = IF s = {} THEN 0 ELSE f[Pick(s)] + g[s \ {Pick(s)}] OBVIOUS
<1>2. g = G BY DEF IsTable
<1> HIDE DEF G
<1> QED BY <1>1, <1>2

\* Tables for a set and for a subset of it agree.
LEMMA TablesAgree ==
    ASSUME NEW f, NEW S, IsFiniteSet(S), NEW R \in SUBSET S, NEW g, NEW h,
           IsTable(g, f, S), IsTable(h, f, R)
    PROVE  \A s \in SUBSET R : g[s] = h[s]
<1> DEFINE T == {s \in SUBSET R : g[s] # h[s]}
<1> SUFFICES ASSUME T # {} PROVE FALSE OBVIOUS
<1>1. PICK s \in T : \A y \in T : ~(y \subseteq s /\ y # s)
  <2>1. T \subseteq SUBSET S OBVIOUS
  <2> HIDE DEF T
  <2> QED BY <2>1, MinimalSet
<1>2. g[s] = IF s = {} THEN 0 ELSE f[Pick(s)] + g[s \ {Pick(s)}]
  <2>1. s \in SUBSET S OBVIOUS
  <2> QED BY <2>1, TableEntry
<1>3. h[s] = IF s = {} THEN 0 ELSE f[Pick(s)] + h[s \ {Pick(s)}] BY TableEntry
<1>4. s # {} BY <1>2, <1>3
<1>5. Pick(s) \in s BY <1>4, PickInSet
<1>6. g[s \ {Pick(s)}] = h[s \ {Pick(s)}] BY <1>1, <1>5
<1> QED BY <1>2, <1>3, <1>6

\* A minimal set without a table would get one from those of its subsets.
LEMMA TableExists ==
    ASSUME NEW f, NEW S, IsFiniteSet(S)
    PROVE  \E g : IsTable(g, f, S)
<1> DEFINE T == {s \in SUBSET S : ~\E g : IsTable(g, f, s)}
           Of(s) == CHOOSE g : IsTable(g, f, s)
<1> SUFFICES ASSUME T # {} PROVE FALSE OBVIOUS
<1>1. PICK s \in T : \A y \in T : ~(y \subseteq s /\ y # s)
  <2>1. T \subseteq SUBSET S OBVIOUS
  <2> HIDE DEF T
  <2> QED BY <2>1, MinimalSet
<1>2. \A u \in SUBSET s : u # s => IsTable(Of(u), f, u) BY <1>1
<1>3. \A u \in SUBSET s : IsFiniteSet(u) BY FS_Subset
<1>4. \A u \in SUBSET s : u # s => \A v \in SUBSET u : Of(u)[v] = Of(v)[v]
  <2> TAKE u \in SUBSET s
  <2> HAVE u # s
  <2> TAKE v \in SUBSET u
  <2>1. IsTable(Of(u), f, u) /\ IsTable(Of(v), f, v) BY <1>2
  <2> HIDE DEF Of
  <2> QED BY <2>1, <1>3, TablesAgree
<1> DEFINE F(u) == IF u = {} THEN 0 ELSE f[Pick(u)] + Of(u \ {Pick(u)})[u \ {Pick(u)}]
           h == [u \in SUBSET s |-> F(u)]
<1>5. \A u \in SUBSET s : u # s => h[u] = Of(u)[u]
  <2> TAKE u \in SUBSET s
  <2> HAVE u # s
  <2>1. IsTable(Of(u), f, u) BY <1>2
  <2> HIDE DEF Of
  <2>2. Of(u)[u] = IF u = {} THEN 0 ELSE f[Pick(u)] + Of(u)[u \ {Pick(u)}]
    BY <2>1, TableEntry
  <2>3. Of(u)[u \ {Pick(u)}] = Of(u \ {Pick(u)})[u \ {Pick(u)}] BY <1>4
  <2> QED BY <2>2, <2>3
<1>6. \A u \in SUBSET s : h[u] = IF u = {} THEN 0 ELSE f[Pick(u)] + h[u \ {Pick(u)}]
  <2> TAKE u \in SUBSET s
  <2>1. CASE u = {} BY <2>1
  <2>2. CASE u # {}
    <3>1. Pick(u) \in u BY <2>2, PickInSet
    <3>2. u \ {Pick(u)} \in SUBSET s /\ u \ {Pick(u)} # s BY <3>1
    <3>3. h[u \ {Pick(u)}] = Of(u \ {Pick(u)})[u \ {Pick(u)}] BY <3>2, <1>5
    <3> HIDE DEF Of
    <3> QED BY <3>3, <2>2
  <2> QED BY <2>1, <2>2
<1>7. IsTable(h, f, s)
  <2>1. h = [u \in SUBSET s |-> h[u]] OBVIOUS
  <2> HIDE DEF h
  <2> QED BY <1>6, <2>1 DEF IsTable
<1> QED BY <1>7

\* The fold's own recursion, as an equation.
LEMMA SumEquation ==
    ASSUME NEW f, NEW S, IsFiniteSet(S)
    PROVE  SumOver(f, S) = IF S = {} THEN 0 ELSE f[Pick(S)] + SumOver(f, S \ {Pick(S)})
<1> DEFINE Of(s) == CHOOSE g : IsTable(g, f, s)
<1>1. \A s \in SUBSET S : IsTable(Of(s), f, s)
  <2> TAKE s \in SUBSET S
  <2>1. IsFiniteSet(s) BY FS_Subset
  <2>2. \E g : IsTable(g, f, s) BY <2>1, TableExists
  <2> QED BY <2>2
<1>2. ASSUME NEW s PROVE SumOver(f, s) = Of(s)[s]
  BY DEF SumOver, MapThenSumSet, MapThenFoldSet, Pick, IsTable
<1> HIDE DEF Of
<1>3. Of(S)[S] = IF S = {} THEN 0 ELSE f[Pick(S)] + Of(S)[S \ {Pick(S)}]
  <2>1. IsTable(Of(S), f, S) BY <1>1
  <2> QED BY <2>1, TableEntry, S \in SUBSET S
<1>4. Of(S)[S \ {Pick(S)}] = Of(S \ {Pick(S)})[S \ {Pick(S)}]
  <2> DEFINE R == S \ {Pick(S)}
  <2>1. R \in SUBSET S /\ R \in SUBSET R OBVIOUS
  <2> HIDE DEF R
  <2>2. IsTable(Of(S), f, S) /\ IsTable(Of(R), f, R) BY <1>1, <2>1, S \in SUBSET S
  <2>3. Of(S)[R] = Of(R)[R] BY <2>1, <2>2, TablesAgree
  <2> QED BY <2>3 DEF R
<1> QED BY <1>2, <1>3, <1>4

-----------------------------------------------------------------------------
(* The laws of sums.                                                       *)

\* The sum of nothing is 0.
THEOREM SumEmpty ==
    ASSUME NEW f
    PROVE  SumOver(f, {}) = 0
BY SumEquation, FS_EmptySet

\* A sum of integers is an integer.
THEOREM SumType ==
    ASSUME NEW S, IsFiniteSet(S), NEW f, \A x \in S : f[x] \in Int
    PROVE  SumOver(f, S) \in Int
<1> DEFINE T == {s \in SUBSET S : SumOver(f, s) \notin Int}
<1> SUFFICES ASSUME T # {} PROVE FALSE OBVIOUS
<1>1. PICK s \in T : \A y \in T : ~(y \subseteq s /\ y # s)
  <2>1. T \subseteq SUBSET S OBVIOUS
  <2> HIDE DEF T
  <2> QED BY <2>1, MinimalSet
<1>2. IsFiniteSet(s) BY FS_Subset
<1>3. SumOver(f, s) = IF s = {} THEN 0 ELSE f[Pick(s)] + SumOver(f, s \ {Pick(s)})
  BY <1>2, SumEquation
<1>4. s # {} BY <1>3
<1>5. Pick(s) \in s BY <1>4, PickInSet
<1>6. SumOver(f, s \ {Pick(s)}) \in Int BY <1>1, <1>5
<1> QED BY <1>3, <1>4, <1>5, <1>6

\* Any element may be taken out first: the order of the fold does not matter.
THEOREM SumRemove ==
    ASSUME NEW S, IsFiniteSet(S), NEW f, \A x \in S : f[x] \in Int, NEW x \in S
    PROVE  SumOver(f, S) = f[x] + SumOver(f, S \ {x})
<1> DEFINE T == {s \in SUBSET S : \E y \in s : SumOver(f, s) # f[y] + SumOver(f, s \ {y})}
<1> SUFFICES ASSUME T # {} PROVE FALSE OBVIOUS
<1>1. PICK s \in T : \A y \in T : ~(y \subseteq s /\ y # s)
  <2>1. T \subseteq SUBSET S OBVIOUS
  <2> HIDE DEF T
  <2> QED BY <2>1, MinimalSet
<1>2. PICK y \in s : SumOver(f, s) # f[y] + SumOver(f, s \ {y}) OBVIOUS
<1>3. IsFiniteSet(s) BY FS_Subset
<1> DEFINE z == Pick(s)
<1>4. z \in s BY PickInSet
<1>5. SumOver(f, s) = f[z] + SumOver(f, s \ {z}) BY <1>3, <1>4, SumEquation
<1> HIDE DEF z
<1>6. y # z BY <1>2, <1>5
<1>7. s \ {z} \notin T /\ s \ {y} \notin T BY <1>1, <1>4, <1>6
<1> DEFINE rest == SumOver(f, (s \ {y}) \ {z})
<1>8. SumOver(f, s) = f[z] + (f[y] + rest)
  <2>1. SumOver(f, s \ {z}) = f[y] + SumOver(f, (s \ {z}) \ {y}) BY <1>7, <1>6
  <2>2. (s \ {z}) \ {y} = (s \ {y}) \ {z} OBVIOUS
  <2> QED BY <1>5, <2>1, <2>2
<1>9. SumOver(f, s \ {y}) = f[z] + rest BY <1>7, <1>6, <1>4
<1>10. rest \in Int
  <2>1. IsFiniteSet((s \ {y}) \ {z}) BY FS_Subset
  <2> QED BY <2>1, SumType
<1>11. f[y] \in Int /\ f[z] \in Int BY <1>4
<1> HIDE DEF rest, T
<1>12. f[y] + (f[z] + rest) = f[z] + (f[y] + rest) BY <1>10, <1>11
<1> QED BY <1>2, <1>8, <1>9, <1>12

\* A new element adds its value to the sum.
THEOREM SumInsert ==
    ASSUME NEW S, IsFiniteSet(S), NEW x, x \notin S, NEW f,
           \A y \in S \cup {x} : f[y] \in Int
    PROVE  SumOver(f, S \cup {x}) = f[x] + SumOver(f, S)
<1>1. IsFiniteSet(S \cup {x}) BY FS_AddElement
<1>2. (S \cup {x}) \ {x} = S OBVIOUS
<1> DEFINE U == S \cup {x}
<1>3. x \in U /\ \A y \in U : f[y] \in Int OBVIOUS
<1>4. IsFiniteSet(U) /\ U \ {x} = S BY <1>1, <1>2
<1> HIDE DEF U
<1>5. SumOver(f, U) = f[x] + SumOver(f, S) BY <1>3, <1>4, SumRemove
<1> QED BY <1>5 DEF U

\* Sums add up pointwise.
THEOREM SumPlus ==
    ASSUME NEW S, IsFiniteSet(S), NEW f, NEW g, NEW h,
           \A x \in S : f[x] \in Int /\ g[x] \in Int /\ h[x] = f[x] + g[x]
    PROVE  SumOver(h, S) = SumOver(f, S) + SumOver(g, S)
<1> DEFINE T == {s \in SUBSET S : SumOver(h, s) # SumOver(f, s) + SumOver(g, s)}
<1> SUFFICES ASSUME T # {} PROVE FALSE OBVIOUS
<1>1. PICK s \in T : \A y \in T : ~(y \subseteq s /\ y # s)
  <2>1. T \subseteq SUBSET S OBVIOUS
  <2> HIDE DEF T
  <2> QED BY <2>1, MinimalSet
<1>2. IsFiniteSet(s) BY FS_Subset
<1>3. s # {}
  <2>1. SumOver(f, {}) = 0 /\ SumOver(g, {}) = 0 /\ SumOver(h, {}) = 0 BY SumEmpty
  <2>2. SumOver(h, s) # SumOver(f, s) + SumOver(g, s) OBVIOUS
  <2> HIDE DEF T
  <2> QED BY <2>1, <2>2
<1> DEFINE z == Pick(s)
           r == s \ {z}
<1>4. z \in s BY <1>3, PickInSet
<1>5. r \subseteq s /\ r # s /\ r \in SUBSET S BY <1>4
<1>6. IsFiniteSet(r) BY <1>5, <1>2, FS_Subset
<1>7. SumOver(h, r) = SumOver(f, r) + SumOver(g, r) BY <1>1, <1>5
<1>8. /\ SumOver(f, s) = f[z] + SumOver(f, r)
      /\ SumOver(g, s) = g[z] + SumOver(g, r)
      /\ SumOver(h, s) = h[z] + SumOver(h, r)
  BY <1>2, <1>3, SumEquation
<1> HIDE DEF z, r
<1>9. SumOver(f, r) \in Int /\ SumOver(g, r) \in Int BY <1>5, <1>6, SumType
<1>10. f[z] \in Int /\ g[z] \in Int /\ h[z] = f[z] + g[z] BY <1>4
<1> QED BY <1>7, <1>8, <1>9, <1>10

\* Only the values on the set matter.
THEOREM SumSame ==
    ASSUME NEW S, IsFiniteSet(S), NEW f, NEW g, \A x \in S : f[x] = g[x]
    PROVE  SumOver(f, S) = SumOver(g, S)
<1> DEFINE T == {s \in SUBSET S : SumOver(f, s) # SumOver(g, s)}
<1> SUFFICES ASSUME T # {} PROVE FALSE OBVIOUS
<1>1. PICK s \in T : \A y \in T : ~(y \subseteq s /\ y # s)
  <2>1. T \subseteq SUBSET S OBVIOUS
  <2> HIDE DEF T
  <2> QED BY <2>1, MinimalSet
<1>2. IsFiniteSet(s) BY FS_Subset
<1>3. s # {} BY SumEmpty
<1>4. Pick(s) \in s BY <1>3, PickInSet
<1>5. SumOver(f, s \ {Pick(s)}) = SumOver(g, s \ {Pick(s)}) BY <1>1, <1>4
<1>6. /\ SumOver(f, s) = f[Pick(s)] + SumOver(f, s \ {Pick(s)})
      /\ SumOver(g, s) = g[Pick(s)] + SumOver(g, s \ {Pick(s)})
  BY <1>2, <1>3, SumEquation
<1> QED BY <1>4, <1>5, <1>6

\* One value changes.
THEOREM SumUpdate ==
    ASSUME NEW S, IsFiniteSet(S), NEW f, NEW g, NEW x \in S,
           \A y \in S : f[y] \in Int /\ g[y] \in Int,
           \A y \in S \ {x} : f[y] = g[y]
    PROVE  SumOver(g, S) = SumOver(f, S) - f[x] + g[x]
<1> DEFINE R == S \ {x}
<1>1. IsFiniteSet(R) BY FS_Subset
<1>2. SumOver(f, R) = SumOver(g, R) BY <1>1, SumSame
<1>3. SumOver(f, S) = f[x] + SumOver(f, R) /\ SumOver(g, S) = g[x] + SumOver(g, R) BY SumRemove
<1>4. SumOver(f, R) \in Int BY <1>1, SumType
<1> HIDE DEF R
<1> QED BY <1>2, <1>3, <1>4

\* A sum over integers grows by what one entry grows by.
THEOREM SumAdd ==
    ASSUME NEW S, IsFiniteSet(S), NEW f, \A y \in S : f[y] \in Int, NEW x \in S, NEW v \in Int,
           NEW g, g[x] = f[x] + v, \A y \in S \ {x} : g[y] = f[y]
    PROVE  SumOver(g, S) = SumOver(f, S) + v /\ SumOver(f, S) \in Int
<1>0. IsFiniteSet(S) /\ x \in S OBVIOUS
<1>1. \A y \in S : f[y] \in Int /\ g[y] \in Int OBVIOUS
<1>2. \A y \in S \ {x} : f[y] = g[y] OBVIOUS
<1>3. SumOver(g, S) = SumOver(f, S) - f[x] + g[x] BY ONLY <1>0, <1>1, <1>2, SumUpdate
<1>4. SumOver(f, S) \in Int BY <1>1, SumType
<1>5. f[x] \in Int BY <1>1
<1> QED BY <1>3, <1>4, <1>5

\* A sum of zeros is 0.
THEOREM SumZero ==
    ASSUME NEW S, IsFiniteSet(S), NEW f, \A x \in S : f[x] = 0
    PROVE  SumOver(f, S) = 0
<1> DEFINE T == {s \in SUBSET S : SumOver(f, s) # 0}
<1> SUFFICES ASSUME T # {} PROVE FALSE OBVIOUS
<1>1. PICK s \in T : \A y \in T : ~(y \subseteq s /\ y # s)
  <2>1. T \subseteq SUBSET S OBVIOUS
  <2> HIDE DEF T
  <2> QED BY <2>1, MinimalSet
<1>2. IsFiniteSet(s) BY FS_Subset
<1>3. s # {} BY SumEmpty
<1>4. Pick(s) \in s BY <1>3, PickInSet
<1>5. SumOver(f, s \ {Pick(s)}) = 0 BY <1>1, <1>4
<1>6. SumOver(f, s) = f[Pick(s)] + SumOver(f, s \ {Pick(s)}) BY <1>2, <1>3, SumEquation
<1> QED BY <1>4, <1>5, <1>6

\* The sum over disjoint sets is the sum of their sums.
THEOREM SumUnion ==
    ASSUME NEW A, IsFiniteSet(A), NEW S, IsFiniteSet(S), A \cap S = {}, NEW f,
           \A x \in A \cup S : f[x] \in Int
    PROVE  SumOver(f, A \cup S) = SumOver(f, A) + SumOver(f, S)
<1> DEFINE T == {s \in SUBSET S : SumOver(f, A \cup s) # SumOver(f, A) + SumOver(f, s)}
<1> SUFFICES ASSUME T # {} PROVE FALSE OBVIOUS
<1>1. PICK s \in T : \A y \in T : ~(y \subseteq s /\ y # s)
  <2>1. T \subseteq SUBSET S OBVIOUS
  <2> HIDE DEF T
  <2> QED BY <2>1, MinimalSet
<1>2. IsFiniteSet(s) BY FS_Subset
<1>3. SumOver(f, A) \in Int BY SumType
<1>4. s # {}
  <2>1. A \cup {} = A OBVIOUS
  <2> QED BY <1>3, <2>1, SumEmpty
<1> DEFINE z == Pick(s)
           r == s \ {z}
<1>5. z \in s BY <1>4, PickInSet
<1>6. r \subseteq s /\ r # s /\ r \in SUBSET S BY <1>5
<1>7. IsFiniteSet(r) BY <1>6, <1>2, FS_Subset
<1>8. SumOver(f, A \cup r) = SumOver(f, A) + SumOver(f, r) BY <1>1, <1>6
<1> HIDE DEF z
<1>9. SumOver(f, s) = f[z] + SumOver(f, r) BY <1>2, <1>5, SumRemove
<1>10. SumOver(f, A \cup s) = f[z] + SumOver(f, A \cup r)
  <2>1. IsFiniteSet(A \cup r) BY <1>7, FS_Union
  <2>2. z \notin A \cup r /\ A \cup s = (A \cup r) \cup {z} BY <1>5, <1>6
  <2>3. \A y \in (A \cup r) \cup {z} : f[y] \in Int BY <1>5, <1>6
  <2> HIDE DEF r, T
  <2> QED BY <2>1, <2>2, <2>3, SumInsert
<1>11. f[z] \in Int /\ SumOver(f, r) \in Int BY <1>5, <1>6, <1>7, SumType
<1> HIDE DEF r
<1> QED BY <1>3, <1>8, <1>9, <1>10, <1>11

-----------------------------------------------------------------------------
(* Images.                                                                 *)

\* The image of a finite set is finite.
LEMMA FiniteImage ==
    ASSUME NEW S, IsFiniteSet(S), NEW m
    PROVE  IsFiniteSet({m[x] : x \in S})
<1> DEFINE I == {m[x] : x \in S}
           h == [x \in S |-> m[x]]
<1>1. h \in Surjection(S, I) BY DEF Surjection
<1> HIDE DEF I, h
<1>2. IsFiniteSet(I) BY <1>1, FS_Surjection
<1> QED BY <1>2 DEF I

\* An injective renaming of the elements keeps the sum.
THEOREM SumReindex ==
    ASSUME NEW S, IsFiniteSet(S), NEW m, NEW f, NEW g,
           \A x \in S : f[x] \in Int /\ g[m[x]] = f[x],
           \A x, y \in S : m[x] = m[y] => x = y
    PROVE  SumOver(g, {m[x] : x \in S}) = SumOver(f, S)
<1> DEFINE I(s) == {m[x] : x \in s}
           T == {s \in SUBSET S : SumOver(g, I(s)) # SumOver(f, s)}
<1> SUFFICES ASSUME T # {} PROVE FALSE OBVIOUS
<1>1. PICK s \in T : \A y \in T : ~(y \subseteq s /\ y # s)
  <2>1. T \subseteq SUBSET S OBVIOUS
  <2> HIDE DEF T
  <2> QED BY <2>1, MinimalSet
<1>2. IsFiniteSet(s) BY FS_Subset
<1>3. s # {}
  <2>1. I({}) = {} OBVIOUS
  <2>2. SumOver(g, I({})) = 0 /\ SumOver(f, {}) = 0 BY <2>1, SumEmpty
  <2> QED BY <2>2
<1> DEFINE z == Pick(s)
           r == s \ {z}
<1>4. z \in s BY <1>3, PickInSet
<1>5. r \subseteq s /\ r # s /\ r \in SUBSET S BY <1>4
<1>6. IsFiniteSet(r) BY <1>5, <1>2, FS_Subset
<1>7. SumOver(g, I(r)) = SumOver(f, r) BY <1>1, <1>5
<1>8. SumOver(f, s) = f[z] + SumOver(f, r) BY <1>2, <1>3, SumEquation
<1> HIDE DEF z
<1>9. SumOver(g, I(s)) = g[m[z]] + SumOver(g, I(r))
  <2>1. IsFiniteSet(I(r)) BY <1>6, FiniteImage
  <2>2. m[z] \notin I(r) /\ I(s) = I(r) \cup {m[z]} BY <1>4, <1>5
  <2>3. \A y \in I(r) \cup {m[z]} : g[y] \in Int BY <1>4, <1>5
  <2> HIDE DEF r, I, T
  <2> QED BY <2>1, <2>2, <2>3, SumInsert
<1>10. g[m[z]] = f[z] BY <1>4
<1>11. SumOver(g, I(s)) = SumOver(f, s) BY <1>7, <1>8, <1>9, <1>10
<1> QED BY <1>11

\* Summing up by classes is summing up.
THEOREM SumFibres ==
    ASSUME NEW B, IsFiniteSet(B), NEW C, IsFiniteSet(C), NEW cell, NEW f,
           \A b \in B : f[b] \in Int
    PROVE  SumOver([c \in C |-> SumOver(f, {b \in B : cell[b] = c})], C)
             = SumOver(f, {b \in B : cell[b] \in C})
<1> DEFINE F == [c \in C |-> SumOver(f, {b \in B : cell[b] = c})]
           In(s) == {b \in B : cell[b] \in s}
           T == {s \in SUBSET C : SumOver(F, s) # SumOver(f, In(s))}
<1> SUFFICES ASSUME T # {} PROVE FALSE OBVIOUS
<1>1. PICK s \in T : \A y \in T : ~(y \subseteq s /\ y # s)
  <2>1. T \subseteq SUBSET C OBVIOUS
  <2> HIDE DEF T
  <2> QED BY <2>1, MinimalSet
<1>2. IsFiniteSet(s) BY FS_Subset
<1>3. s # {}
  <2>1. In({}) = {} OBVIOUS
  <2>2. SumOver(F, {}) = 0 /\ SumOver(f, In({})) = 0 BY <2>1, SumEmpty
  <2> QED BY <2>2
<1> DEFINE z == Pick(s)
           r == s \ {z}
           Z == {b \in B : cell[b] = z}
<1>4. z \in s BY <1>3, PickInSet
<1>5. r \subseteq s /\ r # s /\ r \in SUBSET C BY <1>4
<1>6. SumOver(F, r) = SumOver(f, In(r)) BY <1>1, <1>5
<1>7. SumOver(F, s) = F[z] + SumOver(F, r) BY <1>2, <1>3, SumEquation
<1>8. F[z] = SumOver(f, Z) BY <1>4
<1> HIDE DEF z
<1>9. In(s) = In(r) \cup Z /\ In(r) \cap Z = {} /\ In(r) \subseteq B /\ Z \subseteq B BY <1>4
<1>10. SumOver(f, In(s)) = SumOver(f, In(r)) + SumOver(f, Z)
  <2> HIDE DEF In, Z, r, T
  <2>1. IsFiniteSet(In(r)) /\ IsFiniteSet(Z) BY <1>9, FS_Subset
  <2> QED BY <2>1, <1>9, SumUnion
<1>11. SumOver(f, In(r)) \in Int /\ SumOver(f, Z) \in Int
  <2> HIDE DEF In, Z, r, T
  <2>1. IsFiniteSet(In(r)) /\ IsFiniteSet(Z) BY <1>9, FS_Subset
  <2> QED BY <2>1, <1>9, SumType
<1>12. SumOver(F, s) = SumOver(f, In(s))
  <2> HIDE DEF In, Z, r, T, F
  <2> QED BY <1>6, <1>7, <1>8, <1>10, <1>11
<1> QED BY <1>12

\* A finite set of integers that is not empty has a greatest element.
LEMMA MaxExists ==
    ASSUME NEW S, IsFiniteSet(S), S \subseteq Int, S # {}
    PROVE  \E x \in S : \A y \in S : x >= y
<1> DEFINE HasMax(s) == \E x \in s : \A y \in s : x >= y
           T == {s \in SUBSET S : s # {} /\ ~HasMax(s)}
<1> SUFFICES ASSUME T # {} PROVE FALSE OBVIOUS
<1>1. PICK s \in T : \A y \in T : ~(y \subseteq s /\ y # s)
  <2>1. IsFiniteSet(S) /\ T \subseteq SUBSET S /\ T # {} OBVIOUS
  <2> HIDE DEF T
  <2> QED BY ONLY <2>1, MinimalSet
<1>2. PICK x \in s : TRUE OBVIOUS
<1> DEFINE r == s \ {x}
<1>3. r = {} \/ HasMax(r)
  <2>1. r \subseteq s /\ r # s /\ r \in SUBSET S BY <1>2
  <2>2. r \notin T BY <1>1, <2>1
  <2> HIDE DEF r, HasMax
  <2> QED BY <2>1, <2>2
<1>4. x \in Int /\ \A y \in s : y \in Int /\ (y = x \/ y \in r) OBVIOUS
<1>5. CASE r = {} BY <1>4, <1>5
<1>6. CASE HasMax(r)
  <2>1. PICK m \in r : \A y \in r : m >= y BY <1>6
  <2>2. CASE m >= x BY <2>1, <2>2, <1>4
  <2>3. CASE x > m
    <3>1. \A y \in s : x >= y BY <2>1, <2>3, <1>4
    <3> QED BY <3>1
  <2> QED BY <1>4, <2>2, <2>3
<1> QED BY <1>3, <1>5, <1>6

\* A finite, non-empty set of integers has a greatest element.
THEOREM MaxInSet ==
    ASSUME NEW S, IsFiniteSet(S), S \subseteq Int, S # {}
    PROVE  Max(S) \in S /\ \A y \in S : Max(S) >= y
BY MaxExists DEF Max
=============================================================================
