---------------------------- MODULE SumTheorems ----------------------------
(***************************************************************************)
(* Facts about SumFunctionOnSet(g, S), the sum of g[x] over the elements x *)
(* of a finite set S.  The library defines it by a recursion that picks an *)
(* element of S.  Induction over finite sets is used in the form of        *)
(* MinimalSet: a set of subsets of a finite set has a minimal element.     *)
(***************************************************************************)
EXTENDS FiniteSetTheorems, TLAPS

\* Of any subsets of a finite set, one has none of the others below it.
LEMMA MinimalSet ==
  ASSUME NEW S, IsFiniteSet(S), NEW Bad, Bad \subseteq SUBSET S, Bad # {}
  PROVE  \E T \in Bad : \A U \in Bad : U \subseteq T => U = T
<1>1. IsWellFoundedOn(StrictSubsetOrdering(S), SUBSET S)
  BY FS_FiniteSubsetsOfFinite, FS_StrictSubsetOrderingWellFounded
<1>2. PICK T \in Bad : \A U \in Bad : ~(<<U, T>> \in StrictSubsetOrdering(S))
  BY <1>1, WFMin
<1>3. ASSUME NEW U \in Bad, U \subseteq T PROVE U = T
  <2>1. U \in SUBSET S /\ T \in SUBSET S OBVIOUS
  <2>2. U # T => <<U, T>> \in StrictSubsetOrdering(S)
    BY <1>3, <2>1 DEF StrictSubsetOrdering
  <2> QED BY <1>2, <2>2
<1> QED BY <1>3

-----------------------------------------------------------------------------
\* The recursion.

Pick(s) == CHOOSE x \in s : TRUE

Unfolds(it, g, S) ==
  it = [s \in SUBSET S |-> IF s = {} THEN 0 ELSE g[Pick(s)] + it[s \ {Pick(s)}]]

LEMMA SumChosen ==
  ASSUME NEW g, NEW S
  PROVE  SumFunctionOnSet(g, S) = (CHOOSE it : Unfolds(it, g, S))[S]
BY DEF SumFunctionOnSet, FoldFunctionOnSet, MapThenFoldSet, Unfolds, Pick

LEMMA PickIn == ASSUME NEW s, s # {} PROVE Pick(s) \in s
BY DEF Pick

LEMMA UnfoldsAt ==
  ASSUME NEW g, NEW S, NEW it, Unfolds(it, g, S), NEW s, s \subseteq S
  PROVE  it[s] = IF s = {} THEN 0 ELSE g[Pick(s)] + it[s \ {Pick(s)}]
BY DEF Unfolds

\* Two solutions, possibly of different sets, agree where both are defined.
LEMMA UnfoldsUnique ==
  ASSUME NEW g, NEW A, NEW a, Unfolds(a, g, A), NEW B, NEW b, Unfolds(b, g, B),
         NEW S, IsFiniteSet(S), S \subseteq A, S \subseteq B
  PROVE  a[S] = b[S]
<1> DEFINE Bad == {s \in SUBSET S : a[s] # b[s]}
<1>1. SUFFICES Bad = {}
  <2>1. S \in SUBSET S OBVIOUS
  <2> QED BY <2>1
<1>2. SUFFICES ASSUME Bad # {} PROVE FALSE
  OBVIOUS
<1>3. PICK s \in Bad : \A u \in Bad : u \subseteq s => u = s
  <2>1. Bad \subseteq SUBSET S OBVIOUS
  <2> HIDE DEF Bad
  <2> QED BY <1>2, <2>1, MinimalSet
<1> DEFINE x == Pick(s)
<1>4. s \subseteq A /\ s \subseteq B /\ a[s] # b[s] OBVIOUS
<1>5. CASE s = {} BY <1>4, <1>5, UnfoldsAt
<1>6. CASE s # {}
  <2>1. x \in s BY <1>6, PickIn
  <2>2. s \ {x} \in SUBSET S /\ s \ {x} \subseteq s /\ s \ {x} # s BY <2>1
  <2>3. s \ {x} \notin Bad BY <1>3, <2>2
  <2>4. a[s \ {x}] = b[s \ {x}] BY <2>2, <2>3
  <2>5. a[s] = g[x] + a[s \ {x}] BY <1>4, <1>6, UnfoldsAt
  <2>6. b[s] = g[x] + b[s \ {x}] BY <1>4, <1>6, UnfoldsAt
  <2> QED BY <1>4, <2>4, <2>5, <2>6
<1> QED BY <1>5, <1>6

LEMMA UnfoldsExists ==
  ASSUME NEW g, NEW S, IsFiniteSet(S)
  PROVE  \E it : Unfolds(it, g, S)
<1> DEFINE Bad == {T \in SUBSET S : ~ \E it : Unfolds(it, g, T)}
<1>1. SUFFICES Bad = {}
  <2>1. S \in SUBSET S OBVIOUS
  <2> QED BY <2>1
<1>2. SUFFICES ASSUME Bad # {} PROVE FALSE
  OBVIOUS
<1>3. PICK T \in Bad : \A U \in Bad : U \subseteq T => U = T
  <2>1. Bad \subseteq SUBSET S OBVIOUS
  <2> HIDE DEF Bad
  <2> QED BY <1>2, <2>1, MinimalSet
<1> DEFINE It(U)  == CHOOSE it : Unfolds(it, g, U)
           Val(s) == IF s = {} THEN 0 ELSE g[Pick(s)] + It(s \ {Pick(s)})[s \ {Pick(s)}]
           f      == [s \in SUBSET T |-> Val(s)]
<1>4. ASSUME NEW U, U \subseteq T, U # T PROVE Unfolds(It(U), g, U)
  <2>1. U \in (SUBSET S) \ Bad BY <1>3, <1>4
  <2>2. \E it : Unfolds(it, g, U) BY <2>1
  <2> HIDE DEF Unfolds
  <2> QED BY <2>2
<1>5. ASSUME NEW s, s \subseteq T, s # {}
      PROVE  It(s \ {Pick(s)})[s \ {Pick(s)}] = f[s \ {Pick(s)}]
  <2> DEFINE u == s \ {Pick(s)}
             v == u \ {Pick(u)}
  <2>1. u \subseteq T /\ u # T /\ u \subseteq S BY <1>5, PickIn
  <2>2. f[u] = Val(u) BY <2>1
  <2>3. Unfolds(It(u), g, u) BY <1>4, <2>1
  <2> HIDE DEF It, f, u
  <2>4. It(u)[u] = IF u = {} THEN 0 ELSE g[Pick(u)] + It(u)[v] BY <2>3, UnfoldsAt
  <2>5. CASE u = {} BY <2>2, <2>4, <2>5 DEF u
  <2>6. CASE u # {}
    <3>1. v \subseteq u /\ v \subseteq T /\ v # T BY <2>1, <2>6, PickIn
    <3>2. Unfolds(It(v), g, v) BY <1>4, <3>1
    <3>3. IsFiniteSet(v) BY <2>1, <3>1, FS_Subset
    <3>4. It(u)[v] = It(v)[v] BY <2>3, <3>1, <3>2, <3>3, UnfoldsUnique
    <3> QED BY <2>2, <2>4, <2>6, <3>4 DEF u
  <2> QED BY <2>5, <2>6
<1>6. Unfolds(f, g, T)
  <2>1. ASSUME NEW s \in SUBSET T
        PROVE  Val(s) = IF s = {} THEN 0 ELSE g[Pick(s)] + f[s \ {Pick(s)}]
    <3> HIDE DEF f, It
    <3> QED BY <1>5
  <2> HIDE DEF Val
  <2> QED BY <2>1 DEF Unfolds
<1> QED BY <1>6

LEMMA SumUnfolds ==
  ASSUME NEW g, NEW S, IsFiniteSet(S), NEW it, Unfolds(it, g, S), NEW s, s \subseteq S
  PROVE  SumFunctionOnSet(g, s) = it[s]
<1>1. IsFiniteSet(s) BY FS_Subset
<1>2. Unfolds(CHOOSE i : Unfolds(i, g, s), g, s) BY <1>1, UnfoldsExists
<1> QED BY <1>1, <1>2, SumChosen, UnfoldsUnique

\* What remains is the sum without the element picked.
LEMMA SumPicked ==
  ASSUME NEW g, NEW S, IsFiniteSet(S), S # {}
  PROVE  SumFunctionOnSet(g, S) = g[Pick(S)] + SumFunctionOnSet(g, S \ {Pick(S)})
<1>1. PICK it : Unfolds(it, g, S) BY UnfoldsExists
<1>2. it[S] = g[Pick(S)] + it[S \ {Pick(S)}] BY <1>1, UnfoldsAt
<1> QED BY <1>1, <1>2, SumUnfolds

-----------------------------------------------------------------------------
\* What is used of sums.

LEMMA SumEmpty == ASSUME NEW g PROVE SumFunctionOnSet(g, {}) = 0
<1>1. IsFiniteSet({}) BY FS_EmptySet
<1>2. PICK it : Unfolds(it, g, {}) BY <1>1, UnfoldsExists
<1>3. it[{}] = 0 BY <1>2, UnfoldsAt
<1> QED BY <1>1, <1>2, <1>3, SumUnfolds

\* The sum is an integer, and a natural number if its terms are.
LEMMA SumType ==
  ASSUME NEW S, IsFiniteSet(S), NEW g, \A x \in S : g[x] \in Int
  PROVE  /\ SumFunctionOnSet(g, S) \in Int
         /\ (\A x \in S : g[x] \in Nat) => SumFunctionOnSet(g, S) \in Nat
<1> DEFINE Good(s) == /\ SumFunctionOnSet(g, s) \in Int
                      /\ (\A x \in s : g[x] \in Nat) => SumFunctionOnSet(g, s) \in Nat
           Bad == {s \in SUBSET S : ~Good(s)}
<1>1. SUFFICES ASSUME Bad # {} PROVE FALSE
  <2>1. S \in SUBSET S OBVIOUS
  <2> QED BY <2>1
<1>2. PICK s \in Bad : \A u \in Bad : u \subseteq s => u = s
  <2>1. Bad \subseteq SUBSET S OBVIOUS
  <2> HIDE DEF Bad
  <2> QED BY <1>1, <2>1, MinimalSet
<1>3. CASE s = {} BY <1>3, SumEmpty
<1>4. CASE s # {}
  <2> DEFINE x == Pick(s)
  <2>1. x \in s BY <1>4, PickIn
  <2>2. s \subseteq S /\ IsFiniteSet(s) BY FS_Subset
  <2>3. Good(s \ {x})
    <3>1. s \ {x} \in SUBSET S /\ s \ {x} \subseteq s /\ s \ {x} # s BY <2>1, <2>2
    <3> HIDE DEF Good
    <3> QED BY <1>2, <3>1
  <2>4. SumFunctionOnSet(g, s) = g[x] + SumFunctionOnSet(g, s \ {x})
    BY <1>4, <2>2, SumPicked
  <2>5. g[x] \in Int BY <2>1, <2>2
  <2> HIDE DEF x
  <2>6. Good(s) BY <2>1, <2>3, <2>4, <2>5
  <2> QED BY <2>6
<1> QED BY <1>3, <1>4

\* Any element may be taken out first.
LEMMA SumRemove ==
  ASSUME NEW S, IsFiniteSet(S), NEW g, \A x \in S : g[x] \in Int, NEW x \in S
  PROVE  SumFunctionOnSet(g, S) = g[x] + SumFunctionOnSet(g, S \ {x})
<1> DEFINE Sum(s) == SumFunctionOnSet(g, s)
           Good(s) == \A y \in s : Sum(s) = g[y] + Sum(s \ {y})
           Bad == {s \in SUBSET S : ~Good(s)}
<1>1. SUFFICES ASSUME Bad # {} PROVE FALSE
  <2>1. S \in SUBSET S OBVIOUS
  <2> QED BY <2>1
<1>2. PICK s \in Bad : \A u \in Bad : u \subseteq s => u = s
  <2>1. Bad \subseteq SUBSET S OBVIOUS
  <2> HIDE DEF Bad
  <2> QED BY <1>1, <2>1, MinimalSet
<1>3. PICK y \in s : Sum(s) # g[y] + Sum(s \ {y}) OBVIOUS
<1> DEFINE c == Pick(s)
<1>4. c \in s /\ s \subseteq S /\ IsFiniteSet(s) BY PickIn, FS_Subset
<1>5. Sum(s) = g[c] + Sum(s \ {c}) BY <1>4, SumPicked
<1> HIDE DEF c
<1>6. ASSUME NEW z \in s PROVE Good(s \ {z})
  <2>1. s \ {z} \in SUBSET S /\ s \ {z} \subseteq s /\ s \ {z} # s BY <1>4
  <2> HIDE DEF Good
  <2> QED BY <1>2, <2>1
<1>7. CASE c = y BY <1>3, <1>5, <1>7
<1>8. CASE c # y
  <2>1. Sum(s \ {c}) = g[y] + Sum((s \ {c}) \ {y})
    <3>1. y \in s \ {c} BY <1>8
    <3> QED BY <1>4, <1>6, <3>1
  <2>2. Sum(s \ {y}) = g[c] + Sum((s \ {y}) \ {c})
    <3>1. c \in s \ {y} BY <1>4, <1>8
    <3> QED BY <1>6, <3>1
  <2>3. (s \ {c}) \ {y} = (s \ {y}) \ {c} OBVIOUS
  <2>4. g[c] \in Int /\ g[y] \in Int BY <1>4
  <2>5. Sum((s \ {y}) \ {c}) \in Int
    <3>1. (s \ {y}) \ {c} \subseteq S BY <1>4
    <3>2. IsFiniteSet((s \ {y}) \ {c}) BY <3>1, FS_Subset
    <3>3. \A z \in (s \ {y}) \ {c} : g[z] \in Int BY <3>1
    <3> QED BY <3>2, <3>3, SumType
  <2> DEFINE r == Sum((s \ {y}) \ {c})
  <2>6. Sum(s) = g[c] + (g[y] + r) BY <1>5, <2>1, <2>3
  <2>7. g[y] + Sum(s \ {y}) = g[y] + (g[c] + r) BY <2>2
  <2>8. r \in Int BY <2>5
  <2> HIDE DEF r, Sum
  <2>9. g[c] + (g[y] + r) = g[y] + (g[c] + r) BY <2>4, <2>8
  <2> QED BY <1>3, <2>6, <2>7, <2>9
<1> QED BY <1>7, <1>8

\* One element more.
LEMMA SumAdd ==
  ASSUME NEW S, IsFiniteSet(S), NEW x, x \notin S, NEW g, \A y \in S \cup {x} : g[y] \in Int
  PROVE  SumFunctionOnSet(g, S \cup {x}) = g[x] + SumFunctionOnSet(g, S)
<1>1. IsFiniteSet(S \cup {x}) BY FS_AddElement
<1>2. (S \cup {x}) \ {x} = S OBVIOUS
<1>3. x \in S \cup {x} OBVIOUS
<1> QED BY <1>1, <1>2, <1>3, SumRemove

\* Fewer natural numbers have no larger sum.
LEMMA SumSubset ==
  ASSUME NEW T, IsFiniteSet(T), NEW S, S \subseteq T, NEW g, \A x \in T : g[x] \in Nat
  PROVE  SumFunctionOnSet(g, S) <= SumFunctionOnSet(g, T)
<1> DEFINE Sum(s) == SumFunctionOnSet(g, s)
           Bad == {s \in SUBSET T : S \subseteq s /\ ~(Sum(S) <= Sum(s))}
<1>1. SUFFICES ASSUME Bad # {} PROVE FALSE
  <2>1. T \in SUBSET T OBVIOUS
  <2> QED BY <2>1
<1>2. PICK s \in Bad : \A u \in Bad : u \subseteq s => u = s
  <2>1. Bad \subseteq SUBSET T OBVIOUS
  <2> HIDE DEF Bad
  <2> QED BY <1>1, <2>1, MinimalSet
<1>3. ASSUME NEW u \in SUBSET T PROVE Sum(u) \in Nat /\ IsFiniteSet(u)
  <2>1. IsFiniteSet(u) BY FS_Subset
  <2> QED BY <2>1, SumType
<1>4. CASE s = S BY <1>3, <1>4
<1>5. CASE s # S
  <2>1. PICK x \in s : x \notin S BY <1>5
  <2>2. s \ {x} \in SUBSET T /\ S \subseteq s \ {x} /\ s \ {x} \subseteq s /\ s \ {x} # s
    BY <2>1
  <2>3. Sum(S) <= Sum(s \ {x}) BY <1>2, <2>2
  <2>4. Sum(s) = g[x] + Sum(s \ {x}) BY <1>3, <2>1, SumRemove
  <2>5. Sum(S) \in Nat /\ Sum(s \ {x}) \in Nat /\ g[x] \in Nat BY <1>3, <2>1, <2>2
  <2>6. ~(Sum(S) <= Sum(s)) OBVIOUS
  <2> HIDE DEF Sum
  <2> QED BY <2>3, <2>4, <2>5, <2>6
<1> QED BY <1>4, <1>5

\* Terms that can be mapped one to one to others at least as large have no larger sum.
LEMMA SumInjection ==
  ASSUME NEW T, IsFiniteSet(T), NEW g, \A y \in T : g[y] \in Nat,
         NEW S, NEW h, \A x \in S : h[x] \in Nat,
         NEW m \in [S -> T], \A x, y \in S : m[x] = m[y] => x = y,
         \A x \in S : h[x] <= g[m[x]]
  PROVE  /\ IsFiniteSet(S) /\ Cardinality(S) <= Cardinality(T)
         /\ SumFunctionOnSet(h, S) <= SumFunctionOnSet(g, T)
<1>1. IsFiniteSet(S) /\ Cardinality(S) <= Cardinality(T)
  <2>1. m \in Injection(S, T) BY DEF Injection, IsInjective
  <2> QED BY <2>1, FS_Injection
<1> DEFINE Image(s) == {m[x] : x \in s}
           H(s) == SumFunctionOnSet(h, s)
           G(s) == SumFunctionOnSet(g, s)
           Bad == {s \in SUBSET S : ~(H(s) <= G(Image(s)))}
<1>2. ASSUME NEW s \in SUBSET S
      PROVE  /\ IsFiniteSet(s) /\ H(s) \in Nat
             /\ Image(s) \subseteq T /\ IsFiniteSet(Image(s)) /\ G(Image(s)) \in Nat
  <2>1. IsFiniteSet(s) BY <1>1, FS_Subset
  <2>2. Image(s) \subseteq T OBVIOUS
  <2>3. IsFiniteSet(Image(s)) BY <2>2, FS_Subset
  <2> QED BY <2>1, <2>2, <2>3, SumType
<1>3. Bad = {}
  <2>1. SUFFICES ASSUME Bad # {} PROVE FALSE
    OBVIOUS
  <2>2. PICK s \in Bad : \A u \in Bad : u \subseteq s => u = s
    <3>1. Bad \subseteq SUBSET S OBVIOUS
    <3> HIDE DEF Bad
    <3> QED BY <1>1, <2>1, <3>1, MinimalSet
  <2>3. CASE s = {}
    <3>1. H(s) = 0 BY <2>3, SumEmpty
    <3>2. G(Image(s)) \in Nat BY <1>2
    <3>3. ~(H(s) <= G(Image(s))) OBVIOUS
    <3> HIDE DEF H, G, Image
    <3> QED BY <3>1, <3>2, <3>3
  <2>4. CASE s # {}
    <3>1. PICK x \in s : TRUE BY <2>4
    <3>2. s \ {x} \in SUBSET S /\ s \ {x} \subseteq s /\ s \ {x} # s OBVIOUS
    <3>3. H(s \ {x}) <= G(Image(s \ {x})) BY <2>2, <3>2
    <3>4. H(s) = h[x] + H(s \ {x})
      <4>1. \A y \in s : h[y] \in Int OBVIOUS
      <4>2. IsFiniteSet(s) BY <1>2
      <4> QED BY <4>1, <4>2, SumRemove
    <3>5. G(Image(s)) = g[m[x]] + G(Image(s \ {x}))
      <4> DEFINE I == Image(s)
      <4>1. I \ {m[x]} = Image(s \ {x}) OBVIOUS
      <4>2. m[x] \in I OBVIOUS
      <4>3. IsFiniteSet(I) /\ \A y \in I : g[y] \in Int BY <1>2
      <4> HIDE DEF Image, I
      <4>4. G(I) = g[m[x]] + G(I \ {m[x]}) BY <4>2, <4>3, SumRemove
      <4> QED BY <4>1, <4>4 DEF I
    <3>6. /\ h[x] \in Nat /\ g[m[x]] \in Nat /\ h[x] <= g[m[x]]
          /\ H(s \ {x}) \in Nat /\ G(Image(s \ {x})) \in Nat
      BY <1>2, <3>2
    <3>7. ~(H(s) <= G(Image(s))) OBVIOUS
    <3> HIDE DEF H, G, Image
    <3> QED BY <3>3, <3>4, <3>5, <3>6, <3>7
  <2> QED BY <2>3, <2>4
<1>4. H(S) <= G(Image(S))
  <2>1. S \in SUBSET S OBVIOUS
  <2> QED BY <1>3, <2>1
<1>5. G(Image(S)) <= G(T) BY <1>2, SumSubset
<1>6. H(S) \in Nat /\ G(Image(S)) \in Nat /\ G(T) \in Nat
  <2>1. S \in SUBSET S OBVIOUS
  <2>2. G(T) \in Nat BY SumType
  <2> QED BY <1>2, <2>1, <2>2
<1> HIDE DEF H, G
<1>7. H(S) <= G(T) BY <1>4, <1>5, <1>6
<1> QED BY <1>1, <1>7 DEF H, G

\* Renaming the indices does not change the sum.
LEMMA SumRenamed ==
  ASSUME NEW T, IsFiniteSet(T), NEW g, \A y \in T : g[y] \in Nat,
         NEW S, NEW h, NEW m \in [S -> T], \A x, y \in S : m[x] = m[y] => x = y,
         \A y \in T : \E x \in S : m[x] = y,
         \A x \in S : h[x] = g[m[x]]
  PROVE  SumFunctionOnSet(h, S) = SumFunctionOnSet(g, T)
<1>1. \A x \in S : h[x] \in Nat /\ h[x] <= g[m[x]] OBVIOUS
<1>2. IsFiniteSet(S) /\ SumFunctionOnSet(h, S) <= SumFunctionOnSet(g, T)
  BY <1>1, SumInjection
<1> DEFINE n == [y \in T |-> CHOOSE x \in S : m[x] = y]
<1>3. \A y \in T : n[y] \in S /\ m[n[y]] = y OBVIOUS
<1>4. n \in [T -> S] BY <1>3
<1>5. \A x, y \in T : n[x] = n[y] => x = y BY <1>3
<1>6. \A y \in T : g[y] <= h[n[y]] BY <1>3
<1> HIDE DEF n
<1>7. SumFunctionOnSet(g, T) <= SumFunctionOnSet(h, S)
  BY <1>1, <1>2, <1>4, <1>5, <1>6, SumInjection
<1>8. SumFunctionOnSet(h, S) \in Nat /\ SumFunctionOnSet(g, T) \in Nat BY <1>1, <1>2, SumType
<1> QED BY <1>2, <1>7, <1>8

LEMMA SumSame ==
  ASSUME NEW S, IsFiniteSet(S), NEW g, NEW h, \A x \in S : g[x] \in Nat /\ h[x] = g[x]
  PROVE  SumFunctionOnSet(h, S) = SumFunctionOnSet(g, S)
<1> DEFINE m == [x \in S |-> x]
<1>1. /\ m \in [S -> S] /\ \A x, y \in S : m[x] = m[y] => x = y
      /\ \A y \in S : \E x \in S : m[x] = y
      /\ \A x \in S : h[x] = g[m[x]]
  OBVIOUS
<1> HIDE DEF m
<1> QED BY <1>1, SumRenamed

\* A single term changes.
LEMMA SumChange ==
  ASSUME NEW S, IsFiniteSet(S), NEW x \in S, NEW g, NEW h,
         \A y \in S : g[y] \in Nat /\ h[y] \in Nat,
         \A y \in S \ {x} : h[y] = g[y]
  PROVE  SumFunctionOnSet(h, S) = SumFunctionOnSet(g, S) - g[x] + h[x]
<1> DEFINE G == SumFunctionOnSet(g, S \ {x})
           H == SumFunctionOnSet(h, S \ {x})
<1>1. IsFiniteSet(S \ {x}) BY FS_RemoveElement
<1>2. H = G BY <1>1, SumSame
<1>3. G \in Nat BY <1>1, SumType
<1>4. SumFunctionOnSet(g, S) = g[x] + G BY SumRemove
<1>5. SumFunctionOnSet(h, S) = h[x] + H BY SumRemove
<1>6. g[x] \in Nat /\ h[x] \in Nat OBVIOUS
<1> HIDE DEF G, H
<1> QED BY <1>2, <1>3, <1>4, <1>5, <1>6

LEMMA SumUnion ==
  ASSUME NEW S, IsFiniteSet(S), NEW T, IsFiniteSet(T), NEW g, \A x \in S \cup T : g[x] \in Nat
  PROVE  SumFunctionOnSet(g, S \cup T) <= SumFunctionOnSet(g, S) + SumFunctionOnSet(g, T)
<1> DEFINE Sum(s) == SumFunctionOnSet(g, s)
           Bad == {t \in SUBSET T : ~(Sum(S \cup t) <= Sum(S) + Sum(t))}
<1>1. SUFFICES ASSUME Bad # {} PROVE FALSE
  <2>1. T \in SUBSET T OBVIOUS
  <2> QED BY <2>1
<1>2. PICK t \in Bad : \A u \in Bad : u \subseteq t => u = t
  <2>1. Bad \subseteq SUBSET T OBVIOUS
  <2> HIDE DEF Bad
  <2> QED BY <1>1, <2>1, MinimalSet
<1>3. IsFiniteSet(S \cup T) BY FS_Union
<1>4. ASSUME NEW u \in SUBSET (S \cup T) PROVE Sum(u) \in Nat /\ IsFiniteSet(u)
  <2>1. IsFiniteSet(u) BY <1>3, FS_Subset
  <2> QED BY <2>1, SumType
<1>5. CASE t = {}
  <2>1. S \cup t = S /\ Sum(t) = 0 BY <1>5, SumEmpty
  <2>2. Sum(S) \in Nat BY <1>4
  <2>3. ~(Sum(S \cup t) <= Sum(S) + Sum(t)) OBVIOUS
  <2> HIDE DEF Sum
  <2> QED BY <2>1, <2>2, <2>3
<1>6. CASE t # {}
  <2>1. PICK x \in t : TRUE BY <1>6
  <2> DEFINE u == t \ {x}
  <2>2. u \in SUBSET T /\ u \subseteq t /\ u # t OBVIOUS
  <2>3. Sum(S \cup u) <= Sum(S) + Sum(u)
    <3> HIDE DEF u
    <3> QED BY <1>2, <2>2
  <2>4. Sum(t) = g[x] + Sum(u)
    <3>1. IsFiniteSet(t) /\ \A y \in t : g[y] \in Int BY <1>4
    <3> QED BY <3>1, SumRemove
  <2>5. Sum(S \cup t) <= g[x] + Sum(S \cup u)
    <3>1. CASE x \in S
      <4>1. S \cup t = S \cup u BY <2>1, <3>1
      <4>2. Sum(S \cup t) = Sum(S \cup u) BY <4>1
      <4>3. g[x] \in Nat /\ Sum(S \cup u) \in Nat BY <1>4
      <4> HIDE DEF Sum, u
      <4> QED BY <4>2, <4>3
    <3>2. CASE x \notin S
      <4>1. S \cup t = (S \cup u) \cup {x} /\ x \notin S \cup u BY <3>2
      <4>2. IsFiniteSet(S \cup u) BY <1>4
      <4>3. \A y \in (S \cup u) \cup {x} : g[y] \in Int OBVIOUS
      <4> HIDE DEF u
      <4>4. Sum(S \cup t) = g[x] + Sum(S \cup u) BY <4>1, <4>2, <4>3, SumAdd
      <4>5. g[x] \in Nat /\ Sum(S \cup u) \in Nat BY <1>4 DEF u
      <4> HIDE DEF Sum
      <4> QED BY <4>4, <4>5
    <3> QED BY <3>1, <3>2
  <2>6. /\ g[x] \in Nat /\ Sum(S) \in Nat /\ Sum(u) \in Nat
        /\ Sum(S \cup u) \in Nat /\ Sum(S \cup t) \in Nat
    BY <1>4
  <2>7. ~(Sum(S \cup t) <= Sum(S) + Sum(t)) OBVIOUS
  <2> HIDE DEF Sum, u
  <2> QED BY <2>3, <2>4, <2>5, <2>6, <2>7
<1> QED BY <1>5, <1>6

\* Equal terms.
LEMMA SumConstant ==
  ASSUME NEW S, IsFiniteSet(S), NEW n \in Nat, NEW g, \A x \in S : g[x] = n
  PROVE  SumFunctionOnSet(g, S) = n * Cardinality(S)
<1> DEFINE Good(s) == SumFunctionOnSet(g, s) = n * Cardinality(s)
           Bad == {s \in SUBSET S : ~Good(s)}
<1>1. SUFFICES ASSUME Bad # {} PROVE FALSE
  <2>1. S \in SUBSET S OBVIOUS
  <2> QED BY <2>1
<1>2. PICK s \in Bad : \A u \in Bad : u \subseteq s => u = s
  <2>1. Bad \subseteq SUBSET S OBVIOUS
  <2> HIDE DEF Bad
  <2> QED BY <1>1, <2>1, MinimalSet
<1>3. CASE s = {} BY <1>3, SumEmpty, FS_EmptySet
<1>4. CASE s # {}
  <2>1. PICK x \in s : TRUE BY <1>4
  <2>2. s \ {x} \in SUBSET S /\ s \ {x} \subseteq s /\ s \ {x} # s OBVIOUS
  <2>3. Good(s \ {x})
    <3> HIDE DEF Good
    <3> QED BY <1>2, <2>2
  <2>4. IsFiniteSet(s) /\ \A y \in s : g[y] \in Int BY FS_Subset
  <2>5. SumFunctionOnSet(g, s) = n + SumFunctionOnSet(g, s \ {x}) BY <2>4, SumRemove
  <2> DEFINE k == Cardinality(s \ {x})
  <2>6. k \in Nat /\ Cardinality(s) = k + 1
    <3>1. x \in s /\ IsFiniteSet(s) BY <2>1, <2>4
    <3>2. IsFiniteSet(s \ {x}) /\ Cardinality(s \ {x}) = Cardinality(s) - 1
      BY <3>1, FS_RemoveElement
    <3>3. Cardinality(s) \in Nat /\ k \in Nat BY <3>1, <3>2, FS_CardinalityType
    <3> QED BY <3>2, <3>3
  <2>7. n * (k + 1) = n + n * k
    <3> HIDE DEF k
    <3> QED BY <2>6
  <2> QED BY <2>3, <2>5, <2>6, <2>7
<1> QED BY <1>3, <1>4

\* Counting is summing.
LEMMA SumCounts ==
  ASSUME NEW S, IsFiniteSet(S), NEW g, \A x \in S : g[x] \in {0, 1}
  PROVE  Cardinality({x \in S : g[x] = 1}) = SumFunctionOnSet(g, S)
<1> DEFINE Ones(s) == {x \in s : g[x] = 1}
           Good(s) == Cardinality(Ones(s)) = SumFunctionOnSet(g, s)
           Bad == {s \in SUBSET S : ~Good(s)}
<1>1. SUFFICES ASSUME Bad # {} PROVE FALSE
  <2>1. S \in SUBSET S OBVIOUS
  <2> QED BY <2>1
<1>2. PICK s \in Bad : \A u \in Bad : u \subseteq s => u = s
  <2>1. Bad \subseteq SUBSET S OBVIOUS
  <2> HIDE DEF Bad
  <2> QED BY <1>1, <2>1, MinimalSet
<1>3. CASE s = {}
  <2>1. Ones(s) = {} BY <1>3
  <2> QED BY <1>3, <2>1, SumEmpty, FS_EmptySet
<1>4. CASE s # {}
  <2>1. PICK x \in s : TRUE BY <1>4
  <2>2. s \ {x} \in SUBSET S /\ s \ {x} \subseteq s /\ s \ {x} # s OBVIOUS
  <2>3. Good(s \ {x})
    <3> HIDE DEF Good
    <3> QED BY <1>2, <2>2
  <2>4. IsFiniteSet(s) /\ (\A y \in s : g[y] \in Int) /\ g[x] \in {0, 1} BY FS_Subset
  <2>5. SumFunctionOnSet(g, s) = g[x] + SumFunctionOnSet(g, s \ {x}) BY <2>4, SumRemove
  <2>6. IsFiniteSet(Ones(s \ {x})) /\ IsFiniteSet(Ones(s))
    <3>1. Ones(s) \subseteq s /\ Ones(s \ {x}) \subseteq s OBVIOUS
    <3> QED BY <2>4, <3>1, FS_Subset
  <2>7. Cardinality(Ones(s)) = g[x] + Cardinality(Ones(s \ {x}))
    <3>1. Cardinality(Ones(s \ {x})) \in Nat BY <2>6, FS_CardinalityType
    <3>2. CASE g[x] = 0
      <4>1. Ones(s) = Ones(s \ {x}) BY <3>2
      <4> HIDE DEF Ones
      <4>2. Cardinality(Ones(s)) = Cardinality(Ones(s \ {x})) BY <4>1
      <4> QED BY <3>1, <3>2, <4>2
    <3>3. CASE g[x] = 1
      <4>1. Ones(s) = Ones(s \ {x}) \cup {x} /\ x \notin Ones(s \ {x}) BY <3>3
      <4> HIDE DEF Ones
      <4>2. Cardinality(Ones(s)) = Cardinality(Ones(s \ {x})) + 1
        BY <2>6, <4>1, FS_AddElement
      <4> QED BY <3>1, <3>3, <4>2
    <3> QED BY <2>4, <3>2, <3>3
  <2> QED BY <2>3, <2>5, <2>7
<1> QED BY <1>3, <1>4
=============================================================================
