----------------------------- MODULE SumTheorems ------------------------------
(***************************************************************************)
(* Sums over finite sets.  MapThenSumSet adds up by choosing one element   *)
(* after another: it defines a function on the subsets of S and applies it *)
(* to S.  That sum does not depend on what is chosen, adds up over parts,  *)
(* and changes by what one element changes.  A statement about all subsets *)
(* is proved by looking at a smallest subset of which it is false.         *)
(***************************************************************************)
EXTENDS Integers, FiniteSetsExt, FiniteSetTheorems, WellFoundedInduction, TLAPS

Pick(s) == CHOOSE x \in s : TRUE

AddsUp(it, f, S) ==
  it = [s \in SUBSET S |-> IF s = {} THEN 0 ELSE f[Pick(s)] + it[s \ {Pick(s)}]]

\* The partial sums of f, for every subset of S.
Sums(f, S) == CHOOSE it : AddsUp(it, f, S)

SumOf(f, S) == Sums(f, S)[S]

LEMMA PickIn == ASSUME NEW s, s # {} PROVE Pick(s) \in s
BY DEF Pick

LEMMA SmallestSubset ==
  ASSUME NEW S, IsFiniteSet(S), NEW T \in SUBSET (SUBSET S), T # {}
  PROVE  \E s \in T : \A u \in SUBSET s : u # s => u \notin T
<1>1. IsWellFoundedOn(StrictSubsetOrdering(S), SUBSET S)
  BY FS_FiniteSubsetsOfFinite, FS_StrictSubsetOrderingWellFounded
<1>2. PICK s \in T : \A u \in T : <<u, s>> \notin StrictSubsetOrdering(S)
  BY <1>1, WFMin
<1>3. ASSUME NEW u \in SUBSET s, u # s, u \in T PROVE FALSE
  <2>1. <<u, s>> \in (SUBSET S) \X (SUBSET S)
    BY <1>3
  <2> QED
    BY <1>2, <1>3, <2>1 DEF StrictSubsetOrdering
<1> QED
  BY <1>3

\* One step of the sum.
LEMMA AddsUpStep ==
  ASSUME NEW it, NEW f, NEW S, AddsUp(it, f, S), NEW s \in SUBSET S
  PROVE  it[s] = IF s = {} THEN 0 ELSE f[Pick(s)] + it[s \ {Pick(s)}]
BY DEF AddsUp

LEMMA SumsAgree ==
  ASSUME NEW S, IsFiniteSet(S), NEW f, NEW A \in SUBSET S, NEW B \in SUBSET S,
         NEW g, AddsUp(g, f, A), NEW h, AddsUp(h, f, B),
         NEW s \in SUBSET A, s \subseteq B
  PROVE  g[s] = h[s]
<1> DEFINE bad == {u \in SUBSET S : u \subseteq A /\ u \subseteq B /\ g[u] # h[u]}
<1>1. SUFFICES ASSUME bad # {} PROVE FALSE
  OBVIOUS
<1>2. PICK u \in bad : \A v \in SUBSET u : v # u => v \notin bad
  <2> HIDE DEF bad
  <2>1. bad \in SUBSET (SUBSET S)
    BY DEF bad
  <2> QED
    BY <1>1, <2>1, SmallestSubset
<1>3. CASE u = {}
  <2>1. u \in SUBSET A /\ u \in SUBSET B
    BY <1>2
  <2>2. g[u] = 0 /\ h[u] = 0
    BY <1>3, <2>1, AddsUpStep
  <2> QED
    BY <1>2, <2>2
<1>4. CASE u # {}
  <2> DEFINE v == u \ {Pick(u)}
  <2>1. v \in SUBSET u /\ v # u
    BY <1>4, PickIn
  <2>2. g[v] = h[v]
    BY <1>2, <2>1
  <2>3. g[u] = f[Pick(u)] + g[v] /\ h[u] = f[Pick(u)] + h[v]
    <3>1. u \in SUBSET A /\ u \in SUBSET B
      BY <1>2
    <3> HIDE DEF bad
    <3> QED
      BY <1>4, <3>1, AddsUpStep
  <2> QED
    BY <1>2, <2>2, <2>3
<1> QED
  BY <1>3, <1>4

LEMMA SumsExist ==
  ASSUME NEW S, IsFiniteSet(S), NEW f
  PROVE  AddsUp(Sums(f, S), f, S)
<1> DEFINE bad == {A \in SUBSET S : ~AddsUp(Sums(f, A), f, A)}
<1>1. SUFFICES ASSUME bad # {} PROVE FALSE
  OBVIOUS
<1>2. PICK A \in bad : \A B \in SUBSET A : B # A => B \notin bad
  <2> HIDE DEF bad
  <2>1. bad \in SUBSET (SUBSET S)
    BY DEF bad
  <2> QED
    BY <1>1, <2>1, SmallestSubset
<1> DEFINE own(s) == Sums(f, s)[s]
           it == [s \in SUBSET A |-> IF s = {} THEN 0 ELSE f[Pick(s)] + own(s \ {Pick(s)})]
<1>3. ASSUME NEW s \in SUBSET A, s # A PROVE AddsUp(Sums(f, s), f, s)
  BY <1>2, <1>3
<1>4. ASSUME NEW s \in SUBSET A, s # A PROVE it[s] = own(s)
  <2>1. AddsUp(Sums(f, s), f, s)
    BY <1>3, <1>4
  <2>2. CASE s = {}
    BY <2>1, <2>2, AddsUpStep
  <2>3. CASE s # {}
    <3> DEFINE u == s \ {Pick(s)}
    <3>1. u \in SUBSET s /\ u # A
      BY <1>4
    <3>2. AddsUp(Sums(f, u), f, u)
      BY <1>3, <3>1
    <3>3. Sums(f, s)[u] = own(u)
      BY <1>2, <2>1, <3>1, <3>2, SumsAgree
    <3>4. own(s) = f[Pick(s)] + Sums(f, s)[u]
      BY <2>1, <2>3, AddsUpStep
    <3> QED
      BY <2>3, <3>3, <3>4
  <2> QED
    BY <2>2, <2>3
<1>5. ASSUME NEW s \in SUBSET A, s # {}
      PROVE  own(s \ {Pick(s)}) = it[s \ {Pick(s)}]
  <2>1. s \ {Pick(s)} \in SUBSET A /\ s \ {Pick(s)} # A
    BY <1>5, PickIn
  <2> HIDE DEF own, it
  <2> QED
    BY <1>4, <2>1
<1>6. AddsUp(it, f, A)
  <2>1. it = [s \in SUBSET A |-> IF s = {} THEN 0 ELSE f[Pick(s)] + it[s \ {Pick(s)}]]
    BY <1>5
  <2> HIDE DEF it
  <2> QED
    BY <2>1 DEF AddsUp
<1>7. AddsUp(Sums(f, A), f, A)
  <2> HIDE DEF it
  <2> QED
    BY <1>6 DEF Sums
<1> QED
  BY <1>2, <1>7

LEMMA SumStep ==
  ASSUME NEW S, IsFiniteSet(S), NEW f, NEW s \in SUBSET S
  PROVE  Sums(f, S)[s] =
           IF s = {} THEN 0 ELSE f[Pick(s)] + Sums(f, S)[s \ {Pick(s)}]
BY SumsExist, AddsUpStep

\* A sum of integers is an integer.
LEMMA SumTyped ==
  ASSUME NEW S, IsFiniteSet(S), NEW f \in [S -> Int]
  PROVE  SumOf(f, S) \in Int
<1> DEFINE bad == {s \in SUBSET S : Sums(f, S)[s] \notin Int}
<1>1. SUFFICES ASSUME bad # {} PROVE FALSE
  BY DEF SumOf
<1>2. PICK s \in bad : \A u \in SUBSET s : u # s => u \notin bad
  <2> HIDE DEF bad
  <2>1. bad \in SUBSET (SUBSET S)
    BY DEF bad
  <2> QED
    BY <1>1, <2>1, SmallestSubset
<1>3. s # {}
  <2>1. s = {} => Sums(f, S)[s] = 0
    BY <1>2, SumStep
  <2> QED
    BY <1>2, <2>1
<1> DEFINE u == s \ {Pick(s)}
<1>4. u \in SUBSET s /\ u # s /\ Pick(s) \in S
  BY <1>2, <1>3, PickIn
<1>5. Sums(f, S)[u] \in Int
  BY <1>2, <1>4
<1>6. Sums(f, S)[s] = f[Pick(s)] + Sums(f, S)[u]
  BY <1>2, <1>3, SumStep
<1> QED
  BY <1>2, <1>4, <1>5, <1>6

\* Zeros add up to zero.
LEMMA SumOfZeros ==
  ASSUME NEW S, IsFiniteSet(S), NEW f, \A x \in S : f[x] = 0
  PROVE  SumOf(f, S) = 0
<1> DEFINE bad == {s \in SUBSET S : Sums(f, S)[s] # 0}
<1>1. SUFFICES ASSUME bad # {} PROVE FALSE
  BY DEF SumOf
<1>2. PICK s \in bad : \A u \in SUBSET s : u # s => u \notin bad
  <2> HIDE DEF bad
  <2>1. bad \in SUBSET (SUBSET S)
    BY DEF bad
  <2> QED
    BY <1>1, <2>1, SmallestSubset
<1>3. s # {}
  BY <1>2, SumStep
<1> DEFINE u == s \ {Pick(s)}
<1>4. u \in SUBSET s /\ u # s /\ Pick(s) \in S
  BY <1>2, <1>3, PickIn
<1>5. Sums(f, S)[u] = 0
  BY <1>2, <1>4
<1>6. Sums(f, S)[s] = f[Pick(s)] + Sums(f, S)[u]
  BY <1>2, <1>3, SumStep
<1> QED
  BY <1>2, <1>4, <1>5, <1>6

\* The library's sum is this one.
LEMMA LibrarySum ==
  ASSUME NEW S, IsFiniteSet(S), NEW f
  PROVE  MapThenSumSet(LAMBDA x : f[x], S) = SumOf(f, S)
BY DEF MapThenSumSet, MapThenFoldSet, SumOf, Sums, AddsUp, Pick

\* The partial sum at a subset is the sum of that subset.
LEMMA SumWithin ==
  ASSUME NEW S, IsFiniteSet(S), NEW f, NEW T \in SUBSET S
  PROVE  Sums(f, S)[T] = SumOf(f, T)
<1>1. IsFiniteSet(T)
  BY FS_Subset
<1>2. AddsUp(Sums(f, S), f, S) /\ AddsUp(Sums(f, T), f, T)
  BY <1>1, SumsExist
<1> QED
  BY <1>2, SumsAgree DEF SumOf

LEMMA SumOfNone == ASSUME NEW f PROVE SumOf(f, {}) = 0
BY FS_EmptySet, SumStep DEF SumOf

\* The sum of the set that is left when one element is chosen.
LEMMA SumPick ==
  ASSUME NEW S, IsFiniteSet(S), NEW f, S # {}
  PROVE  SumOf(f, S) = f[Pick(S)] + SumOf(f, S \ {Pick(S)})
<1>1. Sums(f, S)[S] = f[Pick(S)] + Sums(f, S)[S \ {Pick(S)}]
  BY SumStep
<1>2. Sums(f, S)[S \ {Pick(S)}] = SumOf(f, S \ {Pick(S)})
  BY SumWithin
<1> QED
  BY <1>1, <1>2 DEF SumOf

\* Functions that agree have one sum.
LEMMA SameSum ==
  ASSUME NEW S, IsFiniteSet(S), NEW f, NEW g, \A x \in S : f[x] = g[x]
  PROVE  SumOf(f, S) = SumOf(g, S)
<1> DEFINE bad == {s \in SUBSET S : SumOf(f, s) # SumOf(g, s)}
<1>1. SUFFICES ASSUME bad # {} PROVE FALSE
  OBVIOUS
<1>2. PICK s \in bad : \A u \in SUBSET s : u # s => u \notin bad
  <2> HIDE DEF bad
  <2>1. bad \in SUBSET (SUBSET S)
    BY DEF bad
  <2> QED
    BY <1>1, <2>1, SmallestSubset
<1>3. s # {}
  BY <1>2, SumOfNone
<1>4. s \in SUBSET S /\ IsFiniteSet(s) /\ Pick(s) \in s
  BY <1>2, <1>3, PickIn, FS_Subset
<1>5. SumOf(f, s \ {Pick(s)}) = SumOf(g, s \ {Pick(s)})
  <2>1. s \ {Pick(s)} \in SUBSET s /\ s \ {Pick(s)} # s
    BY <1>4
  <2> QED
    BY <1>2, <2>1
<1> QED
  BY <1>2, <1>3, <1>4, <1>5, SumPick

\* Any element may be taken out first.
LEMMA SumRemove ==
  ASSUME NEW S, IsFiniteSet(S), NEW f, \A y \in S : f[y] \in Int, NEW x \in S
  PROVE  SumOf(f, S) = f[x] + SumOf(f, S \ {x})
<1> DEFINE ok(s) == \A a \in s : SumOf(f, s) = f[a] + SumOf(f, s \ {a})
           bad == {s \in SUBSET S : ~ok(s)}
<1>1. SUFFICES ASSUME bad # {} PROVE FALSE
  OBVIOUS
<1>2. PICK s \in bad : \A u \in SUBSET s : u # s => u \notin bad
  <2> HIDE DEF bad
  <2>1. bad \in SUBSET (SUBSET S)
    BY DEF bad
  <2> QED
    BY <1>1, <2>1, SmallestSubset
<1>3. PICK a \in s : SumOf(f, s) # f[a] + SumOf(f, s \ {a})
  BY <1>2
<1>4. s \in SUBSET S /\ s # {}
  BY <1>2, <1>3
<1> DEFINE y == Pick(s)
           rest == SumOf(f, (s \ {y}) \ {a})
<1>5. y \in s /\ IsFiniteSet(s)
  BY <1>4, PickIn, FS_Subset
<1>6. SumOf(f, s) = f[y] + SumOf(f, s \ {y})
  BY <1>4, <1>5, SumPick
<1>7. a # y
  BY <1>3, <1>6
<1>8. a \in s \ {y} /\ y \in s \ {a} /\ (s \ {a}) \ {y} = (s \ {y}) \ {a}
  BY <1>3, <1>5, <1>7
<1>9. \A u \in SUBSET s : u # s => ok(u)
  <2> HIDE DEF ok
  <2> QED
    BY <1>2, <1>4
<1>10. SumOf(f, s \ {y}) = f[a] + rest
  <2>1. s \ {y} \in SUBSET s /\ s \ {y} # s
    BY <1>5
  <2> QED
    BY <1>8, <1>9, <2>1
<1>11. SumOf(f, s \ {a}) = f[y] + rest
  <2>1. s \ {a} \in SUBSET s /\ s \ {a} # s
    BY <1>3
  <2> QED
    BY <1>8, <1>9, <2>1
<1>12. f[a] \in Int /\ f[y] \in Int
  BY <1>3, <1>4, <1>5
<1>13. rest \in Int
  <2> DEFINE T == (s \ {y}) \ {a}
             g == [b \in T |-> f[b]]
  <2>1. IsFiniteSet(T) /\ T \in SUBSET S
    BY <1>4, <1>5, FS_Subset
  <2>2. g \in [T -> Int] /\ \A b \in T : f[b] = g[b]
    BY <2>1
  <2> HIDE DEF T, g
  <2>3. SumOf(g, T) \in Int /\ SumOf(f, T) = SumOf(g, T)
    BY <2>1, <2>2, SumTyped, SameSum
  <2> QED
    BY <2>3 DEF T
<1> HIDE DEF rest, y
<1> QED
  BY <1>3, <1>6, <1>10, <1>11, <1>12, <1>13

LEMMA SumIsInt ==
  ASSUME NEW S, IsFiniteSet(S), NEW f, \A x \in S : f[x] \in Int
  PROVE  SumOf(f, S) \in Int
<1> DEFINE g == [x \in S |-> f[x]]
<1>1. g \in [S -> Int] /\ \A x \in S : f[x] = g[x]
  OBVIOUS
<1> HIDE DEF g
<1> QED
  BY <1>1, SumTyped, SameSum

\* Adding d at one element adds d to the sum.
LEMMA SumMoves ==
  ASSUME NEW S, IsFiniteSet(S), NEW f \in [S -> Int], NEW g \in [S -> Int],
         NEW x \in S, NEW d \in Int, g[x] = f[x] + d,
         \A y \in S : y # x => g[y] = f[y]
  PROVE  SumOf(g, S) = SumOf(f, S) + d
<1> DEFINE T == S \ {x}
<1>1. IsFiniteSet(T) /\ \A y \in T : y \in S /\ g[y] = f[y] /\ f[y] \in Int
  BY FS_Subset
<1>2. SumOf(f, S) = f[x] + SumOf(f, T) /\ SumOf(g, S) = g[x] + SumOf(g, T)
  BY SumRemove
<1> HIDE DEF T
<1>3. SumOf(f, T) = SumOf(g, T) /\ SumOf(f, T) \in Int /\ f[x] \in Int
  BY <1>1, SameSum, SumIsInt
<1> QED
  BY <1>2, <1>3

\* Parts add up.
LEMMA SumOfParts ==
  ASSUME NEW S, IsFiniteSet(S), NEW f, \A x \in S : f[x] \in Int,
         NEW A \in SUBSET S, NEW B \in SUBSET S, A \cap B = {}
  PROVE  SumOf(f, A \cup B) = SumOf(f, A) + SumOf(f, B)
<1> DEFINE ok(s) == SumOf(f, A \cup s) = SumOf(f, A) + SumOf(f, s)
           bad == {s \in SUBSET B : ~ok(s)}
<1>0. IsFiniteSet(A) /\ IsFiniteSet(B)
  BY FS_Subset
<1>1. SUFFICES ASSUME bad # {} PROVE FALSE
  OBVIOUS
<1>2. PICK s \in bad : \A u \in SUBSET s : u # s => u \notin bad
  <2> HIDE DEF bad
  <2>1. bad \in SUBSET (SUBSET B)
    BY DEF bad
  <2> QED
    BY <1>0, <1>1, <2>1, SmallestSubset
<1>3. SumOf(f, A) \in Int
  BY <1>0, SumIsInt
<1>4. s # {}
  <2>1. A \cup {} = A /\ SumOf(f, {}) = 0
    BY SumOfNone
  <2>2. ok({})
    BY <1>3, <2>1
  <2> HIDE DEF ok
  <2> QED
    BY <1>2, <2>2
<1>5. PICK x \in s : TRUE
  BY <1>4
<1> DEFINE u == s \ {x}
           whole == A \cup s
<1>6. /\ s \in SUBSET S /\ whole \in SUBSET S /\ x \in whole /\ x \in S
      /\ u \in SUBSET s /\ u # s /\ whole \ {x} = A \cup u
  BY <1>2, <1>5
<1>7. IsFiniteSet(s) /\ IsFiniteSet(whole) /\ IsFiniteSet(u)
  BY <1>6, FS_Subset
<1>8. SumOf(f, s) = f[x] + SumOf(f, u)
  BY <1>5, <1>6, <1>7, SumRemove
<1>9. SumOf(f, whole) = f[x] + SumOf(f, whole \ {x})
  <2> HIDE DEF whole
  <2> QED
    BY <1>6, <1>7, SumRemove
<1>10. ok(u) /\ ~ok(s)
  <2>1. u \in SUBSET B
    BY <1>2, <1>6
  <2> HIDE DEF ok, u
  <2> QED
    BY <1>2, <1>6, <2>1
<1>11. f[x] \in Int /\ SumOf(f, u) \in Int
  <2>1. \A y \in u : f[y] \in Int
    BY <1>6
  <2> HIDE DEF u
  <2> QED
    BY <1>6, <1>7, <2>1, SumIsInt
<1>12. SumOf(f, whole) = f[x] + (SumOf(f, A) + SumOf(f, u))
  BY <1>6, <1>9, <1>10
<1>13. SumOf(f, whole) # SumOf(f, A) + (f[x] + SumOf(f, u))
  BY <1>8, <1>10
<1> HIDE DEF u, whole
<1> QED
  BY <1>3, <1>11, <1>12, <1>13

\* Two sets that share nothing, whatever they are part of.
LEMMA SumOfTwo ==
  ASSUME NEW A, IsFiniteSet(A), NEW B, IsFiniteSet(B), A \cap B = {},
         NEW f, \A x \in A \cup B : f[x] \in Int
  PROVE  SumOf(f, A \cup B) = SumOf(f, A) + SumOf(f, B)
<1> DEFINE S == A \cup B
<1>1. A \in SUBSET S /\ B \in SUBSET S /\ A \cup B = S
  OBVIOUS
<1>2. IsFiniteSet(S)
  BY FS_Union
<1>3. \A x \in S : f[x] \in Int
  OBVIOUS
<1> HIDE DEF S
<1>4. SumOf(f, A \cup B) = SumOf(f, A) + SumOf(f, B)
  BY <1>1, <1>2, <1>3, SumOfParts
<1> QED
  BY <1>4

LEMMA SumOfNats ==
  ASSUME NEW S, IsFiniteSet(S), NEW f, \A x \in S : f[x] \in Nat
  PROVE  SumOf(f, S) \in Nat
<1> DEFINE bad == {s \in SUBSET S : SumOf(f, s) \notin Nat}
<1>1. SUFFICES ASSUME bad # {} PROVE FALSE
  OBVIOUS
<1>2. PICK s \in bad : \A u \in SUBSET s : u # s => u \notin bad
  <2> HIDE DEF bad
  <2>1. bad \in SUBSET (SUBSET S)
    BY DEF bad
  <2> QED
    BY <1>1, <2>1, SmallestSubset
<1>3. s # {}
  <2>1. SumOf(f, {}) \in Nat
    BY SumOfNone
  <2> QED
    BY <1>2, <2>1
<1>4. s \in SUBSET S /\ IsFiniteSet(s) /\ Pick(s) \in s
  BY <1>2, <1>3, PickIn, FS_Subset
<1>5. SumOf(f, s \ {Pick(s)}) \in Nat
  <2>1. s \ {Pick(s)} \in SUBSET s /\ s \ {Pick(s)} # s
    BY <1>4
  <2> QED
    BY <1>2, <2>1
<1>6. SumOf(f, s) = f[Pick(s)] + SumOf(f, s \ {Pick(s)})
  BY <1>3, <1>4, SumPick
<1> QED
  BY <1>2, <1>4, <1>5, <1>6

\* A part of a sum of naturals is no more than the whole.
LEMMA SumGrows ==
  ASSUME NEW S, IsFiniteSet(S), NEW f, \A x \in S : f[x] \in Nat, NEW T \in SUBSET S
  PROVE  SumOf(f, T) <= SumOf(f, S)
<1> DEFINE U == S \ T
<1>1. T \in SUBSET S /\ U \in SUBSET S /\ T \cap U = {} /\ T \cup U = S
  OBVIOUS
<1>2. IsFiniteSet(T) /\ IsFiniteSet(U)
  BY <1>1, FS_Subset
<1> HIDE DEF U
<1>3. SumOf(f, T) \in Nat /\ SumOf(f, U) \in Nat
  BY <1>1, <1>2, SumOfNats
<1>4. SumOf(f, T \cup U) = SumOf(f, T) + SumOf(f, U)
  BY <1>1, SumOfParts
<1>5. SumOf(f, S) = SumOf(f, T) + SumOf(f, U)
  BY <1>1, <1>4
<1> QED
  BY <1>3, <1>5

\* Grouped by h, a sum is the sum of its groups.
GroupOf(h, k, S) == {x \in S : h[x] = k}
GroupSums(f, h, K, S) == [k \in K |-> SumOf(f, GroupOf(h, k, S))]

LEMMA SumOfGroups ==
  ASSUME NEW S, IsFiniteSet(S), NEW f, \A x \in S : f[x] \in Int,
         NEW K, IsFiniteSet(K), NEW h, \A x \in S : h[x] \in K
  PROVE  SumOf(GroupSums(f, h, K, S), K) = SumOf(f, S)
<1> DEFINE sums(s) == GroupSums(f, h, K, s)
           ok(s) == SumOf(sums(s), K) = SumOf(f, s)
           bad == {s \in SUBSET S : ~ok(s)}
<1>1. SUFFICES ASSUME bad # {} PROVE FALSE
  OBVIOUS
<1>2. PICK s \in bad : \A u \in SUBSET s : u # s => u \notin bad
  <2> HIDE DEF bad
  <2>1. bad \in SUBSET (SUBSET S)
    BY DEF bad
  <2> QED
    BY <1>1, <2>1, SmallestSubset
<1>3. ok({})
  <2>1. \A k \in K : sums({})[k] = 0
    <3>1. \A k \in K : GroupOf(h, k, {}) = {}
      BY DEF GroupOf
    <3> QED
      BY <3>1, SumOfNone DEF GroupSums
  <2> HIDE DEF sums
  <2> QED
    BY <2>1, SumOfZeros, SumOfNone
<1>4. s # {}
  <2> HIDE DEF ok
  <2> QED
    BY <1>2, <1>3
<1>5. PICK x \in s : TRUE
  BY <1>4
<1> DEFINE u == s \ {x}
<1>6. /\ s \in SUBSET S /\ IsFiniteSet(s) /\ x \in S /\ f[x] \in Int /\ h[x] \in K
      /\ u \in SUBSET s /\ u # s
  BY <1>2, <1>5, FS_Subset
<1>7. ok(u) /\ ~ok(s)
  <2>1. u \in SUBSET S
    BY <1>6
  <2> HIDE DEF ok, u
  <2> QED
    BY <1>2, <1>6, <2>1
<1>8. ASSUME NEW t \in SUBSET S, NEW k \in K
      PROVE  sums(t)[k] \in Int /\ sums(t)[k] = SumOf(f, GroupOf(h, k, t))
  <2>1. IsFiniteSet(GroupOf(h, k, t)) /\ \A y \in GroupOf(h, k, t) : f[y] \in Int
    BY FS_Subset DEF GroupOf
  <2> QED
    BY <2>1, SumIsInt DEF GroupSums
<1>9. sums(s) \in [K -> Int] /\ sums(u) \in [K -> Int]
  <2>1. u \in SUBSET S
    BY <1>6
  <2> HIDE DEF u
  <2>2. \A k \in K : sums(s)[k] \in Int /\ sums(u)[k] \in Int
    BY <1>6, <1>8, <2>1
  <2> QED
    BY <2>2 DEF GroupSums
<1>10. \A k \in K : k # h[x] => sums(s)[k] = sums(u)[k]
  <2>1. \A k \in K : k # h[x] => GroupOf(h, k, s) = GroupOf(h, k, u)
    BY DEF GroupOf
  <2> QED
    BY <2>1 DEF GroupSums
<1>11. sums(s)[h[x]] = sums(u)[h[x]] + f[x]
  <2> DEFINE G == GroupOf(h, h[x], s)
  <2>1. /\ G \in SUBSET s /\ x \in G /\ G \ {x} = GroupOf(h, h[x], u) /\ G \in SUBSET S
    BY <1>5, <1>6 DEF GroupOf
  <2>2. IsFiniteSet(G)
    BY <1>6, <2>1, FS_Subset
  <2>3. SumOf(f, G) = f[x] + SumOf(f, G \ {x})
    <3> HIDE DEF G
    <3> QED
      BY <2>1, <2>2, SumRemove
  <2>4. sums(s)[h[x]] = SumOf(f, G) /\ sums(u)[h[x]] = SumOf(f, G \ {x})
    BY <1>6, <2>1 DEF GroupSums
  <2>5. sums(u)[h[x]] \in Int
    BY <1>6, <1>9
  <2> QED
    BY <1>6, <2>3, <2>4, <2>5
<1>12. SumOf(sums(s), K) = SumOf(sums(u), K) + f[x]
  <2> HIDE DEF sums, u
  <2> QED
    BY <1>6, <1>9, <1>10, <1>11, SumMoves
<1>13. SumOf(f, s) = f[x] + SumOf(f, u)
  BY <1>5, <1>6, SumRemove
<1>14. SumOf(f, u) \in Int
  <2>1. IsFiniteSet(u) /\ \A y \in u : f[y] \in Int
    BY <1>6, FS_Subset
  <2> HIDE DEF u
  <2> QED
    BY <2>1, SumIsInt
<1>15. SumOf(sums(u), K) = SumOf(f, u) /\ SumOf(sums(s), K) # SumOf(f, s)
  BY <1>7
<1> HIDE DEF sums, u
<1> QED
  BY <1>6, <1>12, <1>13, <1>14, <1>15

\* Counting is adding ones.
LEMMA SumOfOnes ==
  ASSUME NEW S, IsFiniteSet(S), NEW f, \A x \in S : f[x] = 1
  PROVE  SumOf(f, S) = Cardinality(S)
<1> DEFINE bad == {s \in SUBSET S : SumOf(f, s) # Cardinality(s)}
<1>1. SUFFICES ASSUME bad # {} PROVE FALSE
  OBVIOUS
<1>2. PICK s \in bad : \A u \in SUBSET s : u # s => u \notin bad
  <2> HIDE DEF bad
  <2>1. bad \in SUBSET (SUBSET S)
    BY DEF bad
  <2> QED
    BY <1>1, <2>1, SmallestSubset
<1>3. s # {}
  BY <1>2, SumOfNone, FS_EmptySet
<1>4. s \in SUBSET S /\ IsFiniteSet(s) /\ Pick(s) \in s
  BY <1>2, <1>3, PickIn, FS_Subset
<1>5. SumOf(f, s \ {Pick(s)}) = Cardinality(s \ {Pick(s)})
  <2>1. s \ {Pick(s)} \in SUBSET s /\ s \ {Pick(s)} # s
    BY <1>4
  <2> QED
    BY <1>2, <2>1
<1>6. Cardinality(s \ {Pick(s)}) = Cardinality(s) - 1 /\ Cardinality(s) \in Nat
  BY <1>4, FS_RemoveElement, FS_CardinalityType
<1>7. SumOf(f, s) = f[Pick(s)] + SumOf(f, s \ {Pick(s)}) /\ f[Pick(s)] = 1
  BY <1>3, <1>4, SumPick
<1> QED
  BY <1>2, <1>5, <1>6, <1>7
=============================================================================
