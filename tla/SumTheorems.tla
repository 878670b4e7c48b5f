---------------------------- MODULE SumTheorems ----------------------------
(* Sums over finite sets.  The stored balances and totals of the program    *)
(* are relative updates of one row; the models compare them with the sum of *)
(* the rows they stand for, computed with the folds of the community        *)
(* modules.  Here is what those sums are: independent of the order in which *)
(* the fold takes the elements, one term more for one element more, and so  *)
(* on.                                                                      *)
(*                                                                          *)
(* A fold is a function defined by recursion on the subsets of a set, so    *)
(* the facts need an induction over finite sets.  It is had without an      *)
(* operator as parameter, from the theorem that strict inclusion is a well- *)
(* founded relation: of the subsets outside a set I there is a minimal one. *)
EXTENDS Integers, FiniteSets, Functions, FiniteSetTheorems, TLAPS

\* The sum of f[x] over the elements x of S.
SumOver(f, S) == SumFunctionOnSet(f, S)

\* One step of the fold: what it returns on s, given its values g on smaller sets.
FoldStep(f, g, s) ==
    IF s = {} THEN 0 ELSE LET x == CHOOSE x \in s : TRUE IN f[x] + g[s \ {x}]

\* The functions that do what the fold does on the subsets of T.
FoldsOn(f, T) == {g \in [SUBSET T -> Int] : \A s \in SUBSET T : g[s] = FoldStep(f, g, s)}

-----------------------------------------------------------------------------
\* The fold is the function its recursive definition chooses.
LEMMA FoldUnfolded ==
    ASSUME NEW f, NEW S
    PROVE  SumOver(f, S) = (CHOOSE g : g = [s \in SUBSET S |-> FoldStep(f, g, s)])[S]
BY DEF SumOver, SumFunctionOnSet, FoldFunctionOnSet, MapThenFoldSet, FoldStep

\* Induction: a set that contains every T whose strict subsets it contains
\* contains every subset of a finite set.
LEMMA SubsetInduction ==
    ASSUME NEW S, IsFiniteSet(S), NEW I,
           \A T \in SUBSET S : (\A U \in SUBSET T : U # T => U \in I) => T \in I
    PROVE  SUBSET S \subseteq I
<1> DEFINE R == StrictSubsetOrdering(S)
           Bad == {T \in SUBSET S : T \notin I}
<1>1. IsWellFoundedOn(R, SUBSET S)
  BY FS_StrictSubsetOrderingWellFounded, FS_FiniteSubsetsOfFinite
<1>2. SUFFICES ASSUME Bad # {} PROVE FALSE
  OBVIOUS
<1>3. Bad \subseteq SUBSET S
  OBVIOUS
<1>4. PICK T \in Bad : \A U \in Bad : ~ (<<U, T>> \in R)
  <2> HIDE DEF Bad, R
  <2> QED
    BY <1>1, <1>2, <1>3, WFMin
<1>5. \A U \in SUBSET T : U # T => U \in I
  BY <1>4 DEF StrictSubsetOrdering
<1> QED
  BY <1>4, <1>5

\* What the fold returns on a set does not depend on the set it started from.
LEMMA FoldsAgree ==
    ASSUME NEW S, IsFiniteSet(S), NEW f
    PROVE  \A s, T1, T2 \in SUBSET S : \A g \in FoldsOn(f, T1), h \in FoldsOn(f, T2) :
              s \subseteq T1 /\ s \subseteq T2 => g[s] = h[s]
<1> DEFINE Same(s) == \A T1, T2 \in SUBSET S : \A g \in FoldsOn(f, T1), h \in FoldsOn(f, T2) :
                         s \subseteq T1 /\ s \subseteq T2 => g[s] = h[s]
           I == {s \in SUBSET S : Same(s)}
<1>1. ASSUME NEW s \in SUBSET S, \A u \in SUBSET s : u # s => u \in I
      PROVE  s \in I
  <2> SUFFICES ASSUME NEW T1 \in SUBSET S, NEW T2 \in SUBSET S,
                      NEW g \in FoldsOn(f, T1), NEW h \in FoldsOn(f, T2),
                      s \subseteq T1, s \subseteq T2
               PROVE  g[s] = h[s]
    OBVIOUS
  <2>1. g[s] = FoldStep(f, g, s) /\ h[s] = FoldStep(f, h, s)
    BY DEF FoldsOn
  <2>2. CASE s = {}
    BY <2>1, <2>2 DEF FoldStep
  <2>3. CASE s # {}
    <3> DEFINE x == CHOOSE x \in s : TRUE
    <3>1. x \in s
      BY <2>3
    <3>2. s \ {x} \in I
      BY <1>1, <3>1
    <3>3. g[s \ {x}] = h[s \ {x}]
      BY <3>2
    <3> QED
      BY <2>1, <2>3, <3>3 DEF FoldStep
  <2> QED
    BY <2>2, <2>3
<1>2. SUBSET S \subseteq I
  <2> HIDE DEF I
  <2> QED
    BY <1>1, SubsetInduction
<1> QED
  BY <1>2

\* There is such a function: on the whole of T, one step from the smaller sets.
LEMMA FoldExists ==
    ASSUME NEW S, IsFiniteSet(S), NEW f, \A x \in S : f[x] \in Int
    PROVE  \A T \in SUBSET S : FoldsOn(f, T) # {}
<1> DEFINE I == {T \in SUBSET S : FoldsOn(f, T) # {}}
<1>1. ASSUME NEW T \in SUBSET S, \A U \in SUBSET T : U # T => U \in I
      PROVE  T \in I
  <2> DEFINE G(U) == CHOOSE g \in FoldsOn(f, U) : TRUE
             x == CHOOSE x \in T : TRUE
             h == [s \in SUBSET T |-> IF s # T THEN G(s)[s]
                                      ELSE IF T = {} THEN 0 ELSE f[x] + G(T \ {x})[T \ {x}]]
  <2>0. ASSUME NEW U \in SUBSET T, U # T
        PROVE  G(U) \in FoldsOn(f, U)
    BY <1>1, <2>0
  <2>1. ASSUME NEW U \in SUBSET T, U # T
        PROVE  h[U] = G(U)[U] /\ G(U)[U] \in Int /\ G(U)[U] = FoldStep(f, G(U), U)
    <3> HIDE DEF G
    <3> QED
      BY <2>1, <2>0 DEF FoldsOn
  <2>2. T # {} => x \in T /\ x \in S
    OBVIOUS
  <2>3. h \in [SUBSET T -> Int]
    <3>1. ASSUME NEW s \in SUBSET T PROVE h[s] \in Int
      <4>1. CASE s # T
        BY <4>1, <2>1
      <4>2. CASE s = T /\ T # {}
        <5>1. G(T \ {x})[T \ {x}] \in Int /\ f[x] \in Int
          BY <4>2, <2>1, <2>2
        <5> HIDE DEF G, x
        <5> QED
          BY <4>2, <5>1
      <4>3. CASE s = T /\ T = {}
        BY <4>3
      <4> QED
        BY <4>1, <4>2, <4>3
    <3> HIDE DEF G, x
    <3> QED
      BY <3>1
  <2>4. ASSUME NEW s \in SUBSET T PROVE h[s] = FoldStep(f, h, s)
    <3>1. CASE s = {}
      <4>1. CASE T = {}
        BY <3>1, <4>1 DEF FoldStep
      <4>2. CASE T # {}
        <5>1. h[s] = FoldStep(f, G(s), s)
          BY <3>1, <4>2, <2>1
        <5> QED
          BY <5>1, <3>1 DEF FoldStep
      <4> QED
        BY <4>1, <4>2
    <3>2. CASE s # {} /\ s # T
      <4> DEFINE y == CHOOSE y \in s : TRUE
                 V == s \ {y}
      <4>1. y \in s
        BY <3>2
      <4>2. h[s] = f[y] + G(s)[V]
        <5>1. h[s] = FoldStep(f, G(s), s)
          BY <3>2, <2>1
        <5> HIDE DEF G, h
        <5> QED
          BY <5>1, <3>2 DEF FoldStep
      <4>3. V \in SUBSET T /\ V # T /\ V \in SUBSET S /\ s \in SUBSET S
        BY <4>1
      <4>4. G(s)[V] = G(V)[V]
        <5>1. G(s) \in FoldsOn(f, s) /\ G(V) \in FoldsOn(f, V)
          BY <4>3, <3>2, <2>0
        <5> HIDE DEF G, V
        <5> QED
          BY <5>1, <4>3, FoldsAgree DEF V
      <4>5. h[V] = G(V)[V]
        BY <4>3, <2>1
      <4> HIDE DEF G, h
      <4> QED
        BY <4>2, <4>4, <4>5, <3>2 DEF FoldStep
    <3>3. CASE s # {} /\ s = T
      <4>1. h[s] = f[x] + G(T \ {x})[T \ {x}]
        BY <3>3
      <4>2. h[T \ {x}] = G(T \ {x})[T \ {x}]
        BY <3>3, <2>1, <2>2
      <4> HIDE DEF G, h
      <4> QED
        BY <3>3, <4>1, <4>2 DEF FoldStep
    <3> QED
      BY <3>1, <3>2, <3>3
  <2>5. h \in FoldsOn(f, T)
    <3> HIDE DEF h
    <3> QED
      BY <2>3, <2>4 DEF FoldsOn
  <2> HIDE DEF h
  <2> QED
    BY <2>5
<1>2. SUBSET S \subseteq I
  <2> HIDE DEF I
  <2> QED
    BY <1>1, SubsetInduction
<1> QED
  BY <1>2

\* The sum is what any function does that does what the fold does.
LEMMA SumIsFold ==
    ASSUME NEW S, IsFiniteSet(S), NEW f, NEW g \in FoldsOn(f, S)
    PROVE  SumOver(f, S) = g[S]
<1>1. ASSUME NEW h, h = [s \in SUBSET S |-> FoldStep(f, h, s)]
      PROVE  h = g
  <2> DEFINE I == {s \in SUBSET S : h[s] = g[s]}
  <2>1. ASSUME NEW s \in SUBSET S, \A u \in SUBSET s : u # s => u \in I
        PROVE  s \in I
    <3>1. h[s] = FoldStep(f, h, s) /\ g[s] = FoldStep(f, g, s)
      BY <1>1 DEF FoldsOn
    <3>2. s # {} => LET x == CHOOSE x \in s : TRUE IN h[s \ {x}] = g[s \ {x}]
      BY <2>1
    <3> QED
      BY <3>1, <3>2 DEF FoldStep
  <2>2. SUBSET S \subseteq I
    <3> HIDE DEF I
    <3> QED
      BY <2>1, SubsetInduction
  <2>3. h = [s \in SUBSET S |-> h[s]] /\ g = [s \in SUBSET S |-> g[s]]
    BY <1>1 DEF FoldsOn
  <2> QED
    BY <2>2, <2>3
<1>2. g = [s \in SUBSET S |-> FoldStep(f, g, s)]
  BY DEF FoldsOn
<1>3. (CHOOSE h : h = [s \in SUBSET S |-> FoldStep(f, h, s)]) = g
  BY <1>1, <1>2
<1> QED
  BY <1>3, FoldUnfolded

-----------------------------------------------------------------------------
(* What a sum is.                                                          *)

\* Nothing adds up to nothing.
THEOREM SumOfNothing == \A f : SumOver(f, {}) = 0
<1> SUFFICES ASSUME NEW f PROVE SumOver(f, {}) = 0
  OBVIOUS
<1>1. IsFiniteSet({})
  BY FS_EmptySet
<1>2. PICK g : g \in FoldsOn(f, {})
  BY <1>1, FoldExists
<1>3. SumOver(f, {}) = g[{}]
  BY <1>1, <1>2, SumIsFold
<1>4. g[{}] = 0
  BY <1>2 DEF FoldsOn, FoldStep
<1> QED
  BY <1>3, <1>4

\* Integers add up to an integer.
THEOREM SumIsInt ==
    ASSUME NEW S, IsFiniteSet(S), NEW f, \A x \in S : f[x] \in Int
    PROVE  SumOver(f, S) \in Int
<1>1. PICK g : g \in FoldsOn(f, S)
  BY FoldExists
<1>2. SumOver(f, S) = g[S]
  BY <1>1, SumIsFold
<1> QED
  BY <1>1, <1>2 DEF FoldsOn

\* Any element can be taken out first: the order of the fold does not matter.
THEOREM SumWithout ==
    ASSUME NEW S, IsFiniteSet(S), NEW f, \A x \in S : f[x] \in Int, NEW x \in S
    PROVE  SumOver(f, S) = f[x] + SumOver(f, S \ {x})
<1>1. PICK g : g \in FoldsOn(f, S)
  BY FoldExists
<1> DEFINE I == {s \in SUBSET S : \A y \in s : g[s] = f[y] + g[s \ {y}]}
<1>2. ASSUME NEW s \in SUBSET S, \A u \in SUBSET s : u # s => u \in I
      PROVE  s \in I
  <2> SUFFICES ASSUME NEW y \in s PROVE g[s] = f[y] + g[s \ {y}]
    OBVIOUS
  <2> DEFINE z == CHOOSE z \in s : TRUE
  <2>1. z \in s /\ g[s] = f[z] + g[s \ {z}]
    BY <1>1 DEF FoldsOn, FoldStep
  <2> HIDE DEF z
  <2>2. CASE z # y
    <3> DEFINE w == s \ {y, z}
    <3>1. g[s \ {z}] = f[y] + g[w]
      <4>1. s \ {z} \in I /\ (s \ {z}) \ {y} = w
        BY <1>2, <2>1
      <4> QED
        BY <4>1, <2>2
    <3>2. g[s \ {y}] = f[z] + g[w]
      <4>1. s \ {y} \in I /\ (s \ {y}) \ {z} = w
        BY <1>2
      <4> QED
        BY <4>1, <2>1, <2>2
    <3>3. f[y] \in Int /\ f[z] \in Int /\ g[w] \in Int
      BY <1>1, <2>1 DEF FoldsOn
    <3> HIDE DEF w
    <3> QED
      BY <2>1, <3>1, <3>2, <3>3
  <2> QED
    BY <2>1, <2>2
<1>3. SUBSET S \subseteq I
  <2> HIDE DEF I
  <2> QED
    BY <1>2, SubsetInduction
<1>4. g[S] = f[x] + g[S \ {x}]
  BY <1>3
<1>5. PICK h : h \in FoldsOn(f, S \ {x})
  BY FoldExists
<1>6. g[S \ {x}] = h[S \ {x}]
  BY <1>1, <1>5, FoldsAgree
<1>7. SumOver(f, S) = g[S]
  BY <1>1, SumIsFold
<1>8. SumOver(f, S \ {x}) = h[S \ {x}]
  <2>1. IsFiniteSet(S \ {x})
    BY FS_RemoveElement
  <2> QED
    BY <1>5, <2>1, SumIsFold
<1> QED
  BY <1>4, <1>6, <1>7, <1>8

\* One element more, one term more.
LEMMA SumWith ==
    ASSUME NEW S, IsFiniteSet(S), NEW x, x \notin S, NEW f, \A y \in S \cup {x} : f[y] \in Int
    PROVE  SumOver(f, S \cup {x}) = SumOver(f, S) + f[x]
<1>1. IsFiniteSet(S \cup {x}) /\ (S \cup {x}) \ {x} = S
  BY FS_AddElement
<1>2. SumOver(f, S \cup {x}) = f[x] + SumOver(f, S)
  BY <1>1, SumWithout
<1>3. SumOver(f, S) \in Int /\ f[x] \in Int
  BY SumIsInt
<1> QED
  BY <1>2, <1>3

\* Equal terms, equal sums.
LEMMA SumSame ==
    ASSUME NEW S, IsFiniteSet(S), NEW f, NEW g, \A x \in S : f[x] = g[x] /\ f[x] \in Int
    PROVE  SumOver(f, S) = SumOver(g, S)
<1>1. PICK h : h \in FoldsOn(f, S)
  BY FoldExists
<1>2. h \in FoldsOn(g, S)
  <2>1. ASSUME NEW s \in SUBSET S PROVE FoldStep(f, h, s) = FoldStep(g, h, s)
    BY DEF FoldStep
  <2> QED
    BY <1>1, <2>1 DEF FoldsOn
<1> QED
  BY <1>1, <1>2, SumIsFold

\* One term changes, and the sum with it.
LEMMA SumChanged ==
    ASSUME NEW S, IsFiniteSet(S), NEW x \in S, NEW f, NEW g,
           \A y \in S : f[y] \in Int /\ g[y] \in Int,
           \A y \in S \ {x} : f[y] = g[y]
    PROVE  SumOver(g, S) = SumOver(f, S) + (g[x] - f[x])
<1> DEFINE R == S \ {x}
<1>1. IsFiniteSet(R)
  BY FS_RemoveElement
<1>2. SumOver(f, R) = SumOver(g, R)
  <2>1. \A y \in R : f[y] = g[y] /\ f[y] \in Int
    OBVIOUS
  <2> HIDE DEF R
  <2> QED
    BY <1>1, <2>1, SumSame
<1>3. SumOver(f, R) \in Int /\ f[x] \in Int /\ g[x] \in Int
  <2>1. \A y \in R : f[y] \in Int
    OBVIOUS
  <2> QED
    BY <1>1, <2>1, SumIsInt
<1>4. SumOver(f, S) = f[x] + SumOver(f, R) /\ SumOver(g, S) = g[x] + SumOver(g, R)
  BY SumWithout
<1> HIDE DEF R
<1> QED
  BY <1>2, <1>3, <1>4

\* Terms that are all zero add up to zero.
LEMMA SumOfZeros ==
    ASSUME NEW S, IsFiniteSet(S), NEW f, \A x \in S : f[x] = 0
    PROVE  SumOver(f, S) = 0
<1> DEFINE I == {s \in SUBSET S : SumOver(f, s) = 0}
<1>1. ASSUME NEW s \in SUBSET S, \A u \in SUBSET s : u # s => u \in I
      PROVE  s \in I
  <2>1. CASE s = {}
    BY <2>1, SumOfNothing
  <2>2. ASSUME NEW x \in s PROVE s \in I
    <3>1. SumOver(f, s) = f[x] + SumOver(f, s \ {x})
      BY FS_Subset, SumWithout
    <3>2. s \ {x} \in I
      BY <1>1
    <3> QED
      BY <3>1, <3>2
  <2> QED
    BY <2>1, <2>2
<1>2. SUBSET S \subseteq I
  <2> HIDE DEF I
  <2> QED
    BY <1>1, SubsetInduction
<1> QED
  BY <1>2

\* The sum over two sets that share nothing is the sum of their sums.
LEMMA SumOfUnion ==
    ASSUME NEW S, IsFiniteSet(S), NEW T, IsFiniteSet(T), S \cap T = {},
           NEW f, \A x \in S \cup T : f[x] \in Int
    PROVE  SumOver(f, S \cup T) = SumOver(f, S) + SumOver(f, T)
<1> DEFINE I == {u \in SUBSET T : SumOver(f, S \cup u) = SumOver(f, S) + SumOver(f, u)}
<1>0. SumOver(f, S) \in Int
  BY SumIsInt
<1>1. ASSUME NEW u \in SUBSET T, \A v \in SUBSET u : v # u => v \in I
      PROVE  u \in I
  <2>1. CASE u = {}
    BY <1>0, <2>1, SumOfNothing
  <2>2. ASSUME NEW x \in u PROVE u \in I
    <3> DEFINE v == u \ {x}
    <3>1. IsFiniteSet(u) /\ IsFiniteSet(S \cup u) /\ IsFiniteSet(v)
      BY FS_Subset, FS_Union
    <3>2. SumOver(f, u) = f[x] + SumOver(f, v)
      BY <3>1, SumWithout
    <3>3. SumOver(f, S \cup u) = f[x] + SumOver(f, S \cup v)
      <4>1. (S \cup u) \ {x} = S \cup v /\ x \in S \cup u
        OBVIOUS
      <4>2. \A y \in S \cup u : f[y] \in Int
        OBVIOUS
      <4> HIDE DEF v
      <4> QED
        BY <3>1, <4>1, <4>2, SumWithout
    <3>4. v \in I
      BY <1>1
    <3>5. f[x] \in Int /\ SumOver(f, v) \in Int
      BY <3>1, SumIsInt
    <3> HIDE DEF v
    <3> QED
      BY <1>0, <3>2, <3>3, <3>4, <3>5
  <2> QED
    BY <2>1, <2>2
<1>2. SUBSET T \subseteq I
  <2> HIDE DEF I
  <2> QED
    BY <1>1, SubsetInduction
<1> QED
  BY <1>2

\* Sums are added term by term.
LEMMA SumOfSums ==
    ASSUME NEW S, IsFiniteSet(S), NEW f, NEW g, NEW h,
           \A x \in S : f[x] \in Int /\ g[x] \in Int /\ h[x] = f[x] + g[x]
    PROVE  SumOver(h, S) = SumOver(f, S) + SumOver(g, S)
<1> DEFINE I == {s \in SUBSET S : SumOver(h, s) = SumOver(f, s) + SumOver(g, s)}
<1>1. ASSUME NEW s \in SUBSET S, \A u \in SUBSET s : u # s => u \in I
      PROVE  s \in I
  <2>1. CASE s = {}
    BY <2>1, SumOfNothing
  <2>2. ASSUME NEW x \in s PROVE s \in I
    <3> DEFINE r == s \ {x}
    <3>1. IsFiniteSet(s) /\ IsFiniteSet(r)
      BY FS_Subset
    <3>2. /\ SumOver(f, s) = f[x] + SumOver(f, r)
          /\ SumOver(g, s) = g[x] + SumOver(g, r)
          /\ SumOver(h, s) = h[x] + SumOver(h, r)
      BY <3>1, SumWithout
    <3>3. SumOver(f, r) \in Int /\ SumOver(g, r) \in Int
      BY <3>1, SumIsInt
    <3>4. r \in I
      BY <1>1
    <3> HIDE DEF r
    <3> QED
      BY <3>2, <3>3, <3>4
  <2> QED
    BY <2>1, <2>2
<1>2. SUBSET S \subseteq I
  <2> HIDE DEF I
  <2> QED
    BY <1>1, SubsetInduction
<1> QED
  BY <1>2

\* The sum of a function is the sum over its domain.
LEMMA SumOfFunction == \A f : SumFunction(f) = SumOver(f, DOMAIN f)
BY DEF SumFunction, SumOver

\* A table added up by rows or by columns: m row by row, c the same column by column.
Table(S, T, m, c, rows, cols) ==
    /\ \A x \in S : \A y \in T : m[x][y] \in Int /\ c[y][x] = m[x][y]
    /\ \A x \in S : rows[x] = SumOver(m[x], T)
    /\ \A y \in T : cols[y] = SumOver(c[y], S)

\* A table of numbers adds up to the same by rows and by columns.
LEMMA SumsExchange ==
    ASSUME NEW S, IsFiniteSet(S), NEW T, IsFiniteSet(T), NEW m, NEW c, NEW rows, NEW cols,
           Table(S, T, m, c, rows, cols)
    PROVE  SumOver(cols, T) = SumOver(rows, S)
<1>0. /\ \A x \in S : \A y \in T : m[x][y] \in Int /\ c[y][x] = m[x][y]
      /\ \A x \in S : rows[x] = SumOver(m[x], T)
      /\ \A y \in T : cols[y] = SumOver(c[y], S)
  BY DEF Table
<1> DEFINE part(s) == [y \in T |-> SumOver(c[y], s)]
           I == {s \in SUBSET S : SumOver(part(s), T) = SumOver(rows, s)}
<1>1. ASSUME NEW s \in SUBSET S PROVE IsFiniteSet(s) /\ \A y \in T : SumOver(c[y], s) \in Int
  <2>1. IsFiniteSet(s)
    BY FS_Subset
  <2> QED
    BY <1>0, <2>1, SumIsInt
<1>2. \A x \in S : rows[x] \in Int
  BY <1>0, SumIsInt
<1>3. ASSUME NEW s \in SUBSET S, \A u \in SUBSET s : u # s => u \in I
      PROVE  s \in I
  <2>1. CASE s = {}
    <3>1. \A y \in T : part(s)[y] = 0
      BY <2>1, SumOfNothing
    <3>2. SumOver(part(s), T) = 0
      <4> HIDE DEF part
      <4> QED
        BY <3>1, SumOfZeros
    <3>3. SumOver(rows, s) = 0
      BY <2>1, SumOfNothing
    <3> QED
      BY <3>2, <3>3
  <2>2. ASSUME NEW x \in s PROVE s \in I
    <3> DEFINE r == s \ {x}
    <3>1. r \in SUBSET S /\ r \in I
      BY <1>3
    <3>2. IsFiniteSet(s) /\ IsFiniteSet(r)
      BY <1>1, <3>1
    <3>3. SumOver(rows, s) = rows[x] + SumOver(rows, r)
      BY <1>2, <3>2, SumWithout
    <3>4. \A y \in T : SumOver(c[y], s) = m[x][y] + SumOver(c[y], r)
      BY <1>0, <3>2, SumWithout
    <3>5. \A y \in T : m[x][y] \in Int /\ part(r)[y] \in Int /\ part(s)[y] = m[x][y] + part(r)[y]
      BY <1>0, <1>1, <3>1, <3>4
    <3>6. SumOver(part(s), T) = SumOver(m[x], T) + SumOver(part(r), T)
      <4> HIDE DEF part, r
      <4> QED
        BY <3>5, SumOfSums
    <3>7. SumOver(part(r), T) = SumOver(rows, r)
      BY <3>1
    <3> HIDE DEF part, r
    <3> QED
      BY <1>0, <3>3, <3>6, <3>7
  <2> QED
    BY <2>1, <2>2
<1>4. SUBSET S \subseteq I
  <2> HIDE DEF I
  <2> QED
    BY <1>3, SubsetInduction
<1>5. SumOver(part(S), T) = SumOver(rows, S)
  BY <1>4
<1>6. \A y \in T : part(S)[y] = cols[y] /\ part(S)[y] \in Int
  BY <1>0, <1>1
<1>7. SumOver(part(S), T) = SumOver(cols, T)
  <2> HIDE DEF part
  <2> QED
    BY <1>6, SumSame
<1> QED
  BY <1>5, <1>7

\* Terms that are no smaller add up to a sum that is no smaller.
LEMMA SumAtMost ==
    ASSUME NEW S, IsFiniteSet(S), NEW f, NEW g,
           \A x \in S : f[x] \in Int /\ g[x] \in Int /\ f[x] <= g[x]
    PROVE  SumOver(f, S) <= SumOver(g, S)
<1> DEFINE I == {s \in SUBSET S : SumOver(f, s) <= SumOver(g, s)}
<1>1. ASSUME NEW s \in SUBSET S, \A u \in SUBSET s : u # s => u \in I
      PROVE  s \in I
  <2>1. CASE s = {}
    BY <2>1, SumOfNothing
  <2>2. ASSUME NEW x \in s PROVE s \in I
    <3> DEFINE r == s \ {x}
    <3>1. IsFiniteSet(s) /\ IsFiniteSet(r)
      BY FS_Subset
    <3>2. SumOver(f, s) = f[x] + SumOver(f, r) /\ SumOver(g, s) = g[x] + SumOver(g, r)
      BY <3>1, SumWithout
    <3>3. SumOver(f, r) \in Int /\ SumOver(g, r) \in Int
      BY <3>1, SumIsInt
    <3>4. r \in I
      BY <1>1
    <3> HIDE DEF r
    <3> QED
      BY <3>2, <3>3, <3>4
  <2> QED
    BY <2>1, <2>2
<1>2. SUBSET S \subseteq I
  <2> HIDE DEF I
  <2> QED
    BY <1>1, SubsetInduction
<1> QED
  BY <1>2

-----------------------------------------------------------------------------
(* The other folds.                                                        *)

\* A fold that takes the elements in whatever order c tells gives the sum.
LEMMA AnyOrder ==
    ASSUME NEW S, IsFiniteSet(S), NEW f, \A x \in S : f[x] \in Int, NEW g, NEW c,
           \A s \in SUBSET S : s # {} => c[s] \in s,
           \A s \in SUBSET S : g[s] = IF s = {} THEN 0 ELSE f[c[s]] + g[s \ {c[s]}]
    PROVE  \A s \in SUBSET S : g[s] = SumOver(f, s)
<1> DEFINE I == {s \in SUBSET S : g[s] = SumOver(f, s)}
<1>1. ASSUME NEW s \in SUBSET S, \A u \in SUBSET s : u # s => u \in I
      PROVE  s \in I
  <2>1. CASE s = {}
    BY <2>1, SumOfNothing
  <2>2. CASE s # {}
    <3> DEFINE x == c[s]
    <3>1. x \in s /\ g[s] = f[x] + g[s \ {x}]
      BY <2>2
    <3> HIDE DEF x
    <3>2. SumOver(f, s) = f[x] + SumOver(f, s \ {x})
      BY <3>1, FS_Subset, SumWithout
    <3>3. s \ {x} \in I
      BY <1>1, <3>1
    <3> QED
      BY <3>1, <3>2, <3>3
  <2> QED
    BY <2>1, <2>2
<1>2. SUBSET S \subseteq I
  <2> HIDE DEF I
  <2> QED
    BY <1>1, SubsetInduction
<1> QED
  BY <1>2

\* The sums over the subsets are such a fold, so a fold in that order exists.
LEMMA SumsFold ==
    ASSUME NEW S, IsFiniteSet(S), NEW f, \A x \in S : f[x] \in Int, NEW s \in SUBSET S
    PROVE  /\ SumOver(f, {}) = 0
           /\ \A x \in s : SumOver(f, s) = f[x] + SumOver(f, s \ {x})
           /\ SumOver(f, s) \in Int
<1>1. IsFiniteSet(s)
  BY FS_Subset
<1> QED
  BY <1>1, SumOfNothing, SumWithout, SumIsInt

-----------------------------------------------------------------------------
(* Finite sets of numbers, and more of their sums.                          *)

\* A finite set of numbers has a greatest and a least element.
LEMMA HasGreatest ==
    ASSUME NEW S, IsFiniteSet(S), S # {}, S \subseteq Nat
    PROVE  \E x \in S : \A y \in S : y <= x
<1> DEFINE Has(T) == \E x \in T : \A y \in T : y <= x
           I == {T \in SUBSET S : T # {} => Has(T)}
<1>1. ASSUME NEW T \in SUBSET S, \A U \in SUBSET T : U # T => U \in I
      PROVE  T \in I
  <2> SUFFICES ASSUME T # {} PROVE Has(T)
    OBVIOUS
  <2>1. PICK x \in T : TRUE
    OBVIOUS
  <2>2. CASE T = {x}
    <3>1. x <= x
      BY <2>1
    <3> QED
      BY <2>2, <3>1
  <2>3. CASE T # {x}
    <3> DEFINE U == T \ {x}
    <3>1. U \in SUBSET T /\ U # T /\ U # {}
      BY <2>1, <2>3
    <3>2. Has(U)
      BY <1>1, <3>1
    <3>3. PICK y \in U : \A z \in U : z <= y
      BY <3>2
    <3>4. x \in Nat /\ y \in Nat /\ y \in T /\ \A z \in T : z \in Nat /\ (z = x \/ z <= y)
      BY <2>1, <3>3
    <3>5. CASE x <= y
      BY <3>4, <3>5
    <3>6. CASE y <= x
      <4>1. \A z \in T : z <= x
        BY <3>4, <3>6
      <4> QED
        BY <2>1, <4>1
    <3> QED
      BY <3>4, <3>5, <3>6
  <2> QED
    BY <2>2, <2>3
<1>2. S \in I
  <2> HIDE DEF I
  <2> QED
    BY <1>1, SubsetInduction
<1> QED
  BY <1>2

LEMMA HasLeast ==
    ASSUME NEW S, IsFiniteSet(S), S # {}, S \subseteq Nat
    PROVE  \E x \in S : \A y \in S : x <= y
<1> DEFINE Has(T) == \E x \in T : \A y \in T : x <= y
           I == {T \in SUBSET S : T # {} => Has(T)}
<1>1. ASSUME NEW T \in SUBSET S, \A U \in SUBSET T : U # T => U \in I
      PROVE  T \in I
  <2> SUFFICES ASSUME T # {} PROVE Has(T)
    OBVIOUS
  <2>1. PICK x \in T : TRUE
    OBVIOUS
  <2>2. CASE T = {x}
    <3>1. x <= x
      BY <2>1
    <3> QED
      BY <2>2, <3>1
  <2>3. CASE T # {x}
    <3> DEFINE U == T \ {x}
    <3>1. U \in SUBSET T /\ U # T /\ U # {}
      BY <2>1, <2>3
    <3>2. Has(U)
      BY <1>1, <3>1
    <3>3. PICK y \in U : \A z \in U : y <= z
      BY <3>2
    <3>4. x \in Nat /\ y \in Nat /\ y \in T /\ \A z \in T : z \in Nat /\ (z = x \/ y <= z)
      BY <2>1, <3>3
    <3>5. CASE y <= x
      BY <3>4, <3>5
    <3>6. CASE x <= y
      <4>1. \A z \in T : x <= z
        BY <3>4, <3>6
      <4> QED
        BY <2>1, <4>1
    <3> QED
      BY <3>4, <3>5, <3>6
  <2> QED
    BY <2>2, <2>3
<1>2. S \in I
  <2> HIDE DEF I
  <2> QED
    BY <1>1, SubsetInduction
<1> QED
  BY <1>2

\* Terms that are zero may be left out.
LEMMA SumOfPart ==
    ASSUME NEW S, IsFiniteSet(S), NEW T \in SUBSET S, NEW f, \A x \in S : f[x] \in Int,
           \A x \in S \ T : f[x] = 0
    PROVE  SumOver(f, S) = SumOver(f, T)
<1> DEFINE U == S \ T
<1>1. IsFiniteSet(T) /\ IsFiniteSet(U)
  BY FS_Subset
<1>2. T \cap U = {} /\ T \cup U = S
  OBVIOUS
<1>3. (\A x \in T \cup U : f[x] \in Int) /\ (\A x \in U : f[x] = 0)
  OBVIOUS
<1> HIDE DEF U
<1>4. SumOver(f, T \cup U) = SumOver(f, T) + SumOver(f, U)
  BY <1>1, <1>2, <1>3, SumOfUnion
<1>5. SumOver(f, U) = 0
  BY <1>1, <1>3, SumOfZeros
<1>6. SumOver(f, T) \in Int
  BY <1>1, <1>3, SumIsInt
<1>7. SumOver(f, S) = SumOver(f, T) + SumOver(f, U)
  BY <1>2, <1>4
<1> QED
  BY <1>5, <1>6, <1>7

LEMMA SumOfOne ==
    ASSUME NEW f, NEW x, f[x] \in Int
    PROVE  SumOver(f, {x}) = f[x]
<1>1. IsFiniteSet({}) /\ x \notin {} /\ \A y \in {} \cup {x} : f[y] \in Int
  BY FS_EmptySet
<1>2. SumOver(f, {} \cup {x}) = SumOver(f, {}) + f[x]
  BY <1>1, SumWith
<1>3. {} \cup {x} = {x} /\ SumOver(f, {}) = 0
  BY SumOfNothing
<1> QED
  BY <1>2, <1>3

LEMMA SumNotNegative ==
    ASSUME NEW S, IsFiniteSet(S), NEW f, \A x \in S : f[x] \in Int /\ f[x] >= 0
    PROVE  SumOver(f, S) \in Int /\ SumOver(f, S) >= 0
<1> DEFINE z == [x \in S |-> 0]
<1>1. \A x \in S : z[x] = 0 /\ z[x] \in Int /\ z[x] <= f[x]
  OBVIOUS
<1> HIDE DEF z
<1>2. SumOver(z, S) = 0
  BY <1>1, SumOfZeros
<1>3. SumOver(z, S) <= SumOver(f, S)
  BY <1>1, SumAtMost
<1>4. SumOver(f, S) \in Int
  BY SumIsInt
<1> QED
  BY <1>2, <1>3, <1>4

\* On T, g has what f has of the pairs that begin with x.
RowOf(T, x, f, g) == \A y \in T : f[<<x, y>>] \in Int /\ g[y] = f[<<x, y>>]

\* The sum over the pairs that begin with x is the sum over what follows x.
LEMMA SumOfRow ==
    ASSUME NEW T, IsFiniteSet(T), NEW x, NEW f, NEW g, RowOf(T, x, f, g)
    PROVE  SumOver(f, {x} \X T) = SumOver(g, T)
<1>0. \A y \in T : f[<<x, y>>] \in Int /\ g[y] = f[<<x, y>>]
  BY DEF RowOf
<1> DEFINE I == {u \in SUBSET T : SumOver(f, {x} \X u) = SumOver(g, u)}
<1>1. ASSUME NEW u \in SUBSET T, \A v \in SUBSET u : v # u => v \in I
      PROVE  u \in I
  <2>1. CASE u = {}
    <3>1. {x} \X u = {}
      BY <2>1
    <3> QED
      BY <2>1, <3>1, SumOfNothing
  <2>2. ASSUME NEW y \in u PROVE u \in I
    <3> DEFINE v == u \ {y}
    <3>1. IsFiniteSet(u) /\ IsFiniteSet(v)
      BY FS_Subset
    <3>2. SumOver(g, u) = g[y] + SumOver(g, v)
      BY <1>0, <3>1, SumWithout
    <3>3. SumOver(f, {x} \X u) = f[<<x, y>>] + SumOver(f, {x} \X v)
      <4>1. IsFiniteSet({x} \X u)
        <5>1. IsFiniteSet({x})
          BY FS_Singleton
        <5> QED
          BY <3>1, <5>1, FS_Product
      <4>2. ({x} \X u) \ {<<x, y>>} = {x} \X v
        OBVIOUS
      <4>3. <<x, y>> \in {x} \X u /\ \A p \in {x} \X u : f[p] \in Int
        BY <1>0
      <4>4. SumOver(f, {x} \X u) = f[<<x, y>>] + SumOver(f, ({x} \X u) \ {<<x, y>>})
        BY <4>1, <4>3, SumWithout
      <4> QED
        BY <4>2, <4>4
    <3>4. v \in I
      BY <1>1
    <3> HIDE DEF v
    <3> QED
      BY <1>0, <3>2, <3>3, <3>4
  <2> QED
    BY <2>1, <2>2
<1>2. SUBSET T \subseteq I
  <2> HIDE DEF I
  <2> QED
    BY <1>1, SubsetInduction
<1> QED
  BY <1>2

\* f by pairs is m row by row.
PairsOf(S, T, f, m) == \A x \in S : \A y \in T : f[<<x, y>>] \in Int /\ m[x][y] = f[<<x, y>>]

\* The sum over pairs is the sum of the sums of the rows.
LEMMA SumOfPairs ==
    ASSUME NEW S, IsFiniteSet(S), NEW T, IsFiniteSet(T), NEW f, NEW m, NEW rows,
           PairsOf(S, T, f, m), \A x \in S : rows[x] = SumOver(m[x], T)
    PROVE  SumOver(f, S \X T) = SumOver(rows, S)
<1>0. \A x \in S : \A y \in T : f[<<x, y>>] \in Int /\ m[x][y] = f[<<x, y>>]
  BY DEF PairsOf
<1> DEFINE I == {u \in SUBSET S : SumOver(f, u \X T) = SumOver(rows, u)}
<1>1. ASSUME NEW u \in SUBSET S, \A v \in SUBSET u : v # u => v \in I
      PROVE  u \in I
  <2>1. CASE u = {}
    <3>1. u \X T = {}
      BY <2>1
    <3> QED
      BY <2>1, <3>1, SumOfNothing
  <2>2. ASSUME NEW x \in u PROVE u \in I
    <3> DEFINE v == u \ {x}
    <3>1. IsFiniteSet(u) /\ IsFiniteSet(v) /\ IsFiniteSet({x})
      BY FS_Subset, FS_Singleton
    <3>2. \A z \in S : SumOver(m[z], T) \in Int
      <4>1. ASSUME NEW z \in S PROVE SumOver(m[z], T) \in Int
        <5>1. \A y \in T : m[z][y] \in Int
          BY <1>0
        <5> QED
          BY <5>1, SumIsInt
      <4> QED
        BY <4>1
    <3>3. \A z \in u : rows[z] \in Int
      BY <3>2
    <3>4. SumOver(rows, u) = rows[x] + SumOver(rows, v)
      BY <3>1, <3>3, SumWithout
    <3>5. SumOver(f, {x} \X T) = rows[x]
      <4>1. RowOf(T, x, f, m[x])
        BY <1>0 DEF RowOf
      <4>2. SumOver(f, {x} \X T) = SumOver(m[x], T)
        BY <4>1, SumOfRow
      <4> QED
        BY <4>2
    <3>6. SumOver(f, u \X T) = SumOver(f, v \X T) + SumOver(f, {x} \X T)
      <4>1. IsFiniteSet(v \X T) /\ IsFiniteSet({x} \X T)
        BY <3>1, FS_Product
      <4>2. u \X T = (v \X T) \cup ({x} \X T) /\ (v \X T) \cap ({x} \X T) = {}
        OBVIOUS
      <4>3. \A p \in (v \X T) \cup ({x} \X T) : f[p] \in Int
        BY <1>0
      <4>4. SumOver(f, (v \X T) \cup ({x} \X T)) = SumOver(f, v \X T) + SumOver(f, {x} \X T)
        BY <4>1, <4>2, <4>3, SumOfUnion
      <4> QED
        BY <4>2, <4>4
    <3>7. v \in I
      BY <1>1
    <3>8. rows[x] \in Int /\ SumOver(rows, v) \in Int
      BY <3>1, <3>3, SumIsInt
    <3> HIDE DEF v
    <3> QED
      BY <3>4, <3>5, <3>6, <3>7, <3>8
  <2> QED
    BY <2>1, <2>2
<1>2. SUBSET S \subseteq I
  <2> HIDE DEF I
  <2> QED
    BY <1>1, SubsetInduction
<1> QED
  BY <1>2
=============================================================================
