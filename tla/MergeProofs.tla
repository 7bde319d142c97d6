----------------------------- MODULE MergeProofs -----------------------------
(***************************************************************************)
(* What mergeWorkspaceText computes, for texts of any length: a text, the  *)
(* same whichever side is in the workspace, that loses no line and invents *)
(* none.                                                                   *)
(*                                                                         *)
(* The definitions are recursive functions.  Each is the CHOICE of a       *)
(* function that solves an equation, so nothing is known of it before the  *)
(* equation is shown to have a solution (Recursion).  Then, in turn:       *)
(*                                                                         *)
(*   the walk    a path through both texts (WalkIsPath); a hunk is a       *)
(*               stretch of it (HunksAre), and hunks of one side lie apart *)
(*   the splice  all hunks of a side give its text (SpliceOfHunks); hunks  *)
(*               of two sides add up (HunksAdd)                            *)
(*   the join    whole lines are kept as they are (JoinWhole), and a text  *)
(*               in which no line ran into another too (JoinWithoutRun)    *)
(*   the merge   its cases (MergeIs), and the theorems                     *)
(***************************************************************************)
EXTENDS ThreeWayMerge, TLAPS, WellFoundedInduction, SequenceTheorems, FiniteSetTheorems

-----------------------------------------------------------------------------
(* Induction and recursion. *)

\* Induction, over sets of naturals.
LEMMA Induction ==
    ASSUME NEW S, \A n \in Nat : (\A m \in Nat : m < n => m \in S) => n \in S
    PROVE  Nat \subseteq S
<1> DEFINE Less == {ss \in Nat \X Nat : ss[1] < ss[2]}
<1>1. OpToRel(<, Nat) = Less
  BY Zenon DEF OpToRel
<1>2. IsWellFoundedOn(Less, Nat)
  BY <1>1, NatLessThanWellFounded, Zenon
<1> DEFINE T == Nat \ S
<1>3. ASSUME T # {} PROVE FALSE
  <2>1. \E x \in T : \A y \in T : <<y, x>> \notin Less
    <3> HIDE DEF Less
    <3>1. T \subseteq Nat
      OBVIOUS
    <3> HIDE DEF T
    <3> QED BY <1>2, <1>3, <3>1, WFMin
  <2>2. PICK x \in T : \A y \in T : <<y, x>> \notin Less
    BY <2>1
  <2>3. ASSUME NEW m \in Nat, m < x PROVE m \in S
    <3>1. <<m, x>> \in Less
      BY <2>3
    <3> HIDE DEF Less
    <3> QED BY <2>2, <3>1
  <2> QED BY <2>2, <2>3
<1> QED BY <1>3

-----------------------------------------------------------------------------
(* Splice: what follows each line of the base. *)

\* The recursive function of Splice, and its equation.
Rest(base, hunks) ==
    LET rest[i \in 0..Len(base)] ==
            LET at == {h \in hunks : h.start = i}
                Line(j) == IF j = Len(base) THEN <<>> ELSE <<base[j + 1]>> \o rest[j + 1]
            IN  IF at = {} THEN Line(i)
                ELSE LET h == CHOOSE h \in at : TRUE
                     IN  h.replacement \o (IF h.end = i THEN Line(i) ELSE rest[h.end])
    IN rest

StepOf(base, hunks, rest, i) ==
            LET at == {h \in hunks : h.start = i}
                Line(j) == IF j = Len(base) THEN <<>> ELSE <<base[j + 1]>> \o rest[j + 1]
            IN  IF at = {} THEN Line(i)
                ELSE LET h == CHOOSE h \in at : TRUE
                     IN  h.replacement \o (IF h.end = i THEN Line(i) ELSE rest[h.end])

\* Splice is its value at the start, and where the equation has a solution it is one.
LEMMA SpliceIs ==
    ASSUME NEW base, NEW hunks
    PROVE  Splice(base, hunks) = Rest(base, hunks)[0]
BY DEF Splice, Rest

LEMMA RestIs ==
    ASSUME NEW base, NEW hunks, \E f : f = [i \in 0 .. Len(base) |-> StepOf(base, hunks, f, i)]
    PROVE  Rest(base, hunks) = [i \in 0 .. Len(base) |-> StepOf(base, hunks, Rest(base, hunks), i)]
<1>1. Rest(base, hunks) = CHOOSE f : f = [i \in 0 .. Len(base) |-> StepOf(base, hunks, f, i)]
  BY DEF Rest, StepOf
<1> QED BY <1>1, Zenon

\* A recursive definition: the value at x is G[<<x, f>>], which looks at f only
\* where the measure mu is smaller.
WellDefined(G, I, D, mu, bound) ==
    /\ D # {}
    /\ mu \in [I -> Nat]
    /\ bound \in Nat
    /\ \A x \in I : mu[x] < bound
    /\ G \in [I \X [I -> D] -> D]
    /\ \A x \in I : \A f, g \in [I -> D] :
           (\A y \in I : mu[y] < mu[x] => f[y] = g[y]) => G[<<x, f>>] = G[<<x, g>>]

\* Some function solves it.
Solvable(G, I, D) == \E f \in [I -> D] : f = [x \in I |-> G[<<x, f>>]]

\* Such a definition has a solution.
LEMMA Recursion ==
    ASSUME NEW G, NEW I, NEW D, NEW mu, NEW bound, WellDefined(G, I, D, mu, bound)
    PROVE  Solvable(G, I, D)
<1> PICK d0 \in D : TRUE
  BY DEF WellDefined
<1> USE DEF WellDefined
<1> DEFINE Solves(f, n) == \A x \in I : mu[x] < n => f[x] = G[<<x, f>>]
           S == {n \in Nat : \E f \in [I -> D] : Solves(f, n)}
<1>1. ASSUME NEW n \in Nat, \A m \in Nat : m < n => m \in S PROVE n \in S
  <2>1. CASE n = 0
    <3> DEFINE f == [x \in I |-> d0]
    <3>1. f \in [I -> D] /\ Solves(f, 0)
      OBVIOUS
    <3> QED BY <2>1, <3>1
  <2>2. CASE n # 0
    <3>1. n - 1 \in Nat /\ n - 1 < n
      BY ONLY <2>2, n \in Nat
    <3>2. n - 1 \in S
      BY <1>1, <3>1
    <3>3. PICK f \in [I -> D] : Solves(f, n - 1)
      BY <3>2
    <3> DEFINE g == [x \in I |-> IF mu[x] < n - 1 THEN f[x] ELSE G[<<x, f>>]]
    <3>4. g \in [I -> D]
      OBVIOUS
    <3>5. ASSUME NEW x \in I, mu[x] < n PROVE g[x] = G[<<x, g>>]
      <4>1. \A y \in I : mu[y] < mu[x] => f[y] = g[y]
        BY <3>5, <3>1
      <4>2. G[<<x, f>>] = G[<<x, g>>]
        <5> HIDE DEF g
        <5> QED BY <4>1, <3>4
      <4>3. g[x] = G[<<x, f>>]
        BY <3>3
      <4> QED BY <4>2, <4>3
    <3> HIDE DEF g
    <3> QED BY <3>4, <3>5
  <2> QED BY <2>1, <2>2
<1>2. bound \in S
  <2> HIDE DEF S
  <2>1. Nat \subseteq S
    BY <1>1, Induction
  <2> QED BY <2>1
<1>3. PICK f \in [I -> D] : Solves(f, bound)
  BY <1>2
<1>4. \A x \in I : f[x] = G[<<x, f>>]
  BY <1>3
<1>5. f = [x \in I |-> f[x]]
  OBVIOUS
<1>6. f = [x \in I |-> G[<<x, f>>]]
  BY <1>4, <1>5
<1> QED BY <1>6 DEF Solvable

\* Hunks that fit a base, their lines taken from S.
HunksFit(S, base, hunks) ==
    \A h \in hunks : /\ h.start \in 0..Len(base)
                     /\ h.end \in h.start..Len(base)
                     /\ h.replacement \in Seq(S)

\* What is put after the first i lines depends on what is put after more of them.
LEMMA StepLocal ==
    ASSUME NEW S, NEW base \in Seq(S), NEW hunks, HunksFit(S, base, hunks),
           NEW i \in 0..Len(base), NEW f, NEW g, \A y \in 0..Len(base) : i < y => f[y] = g[y]
    PROVE  StepOf(base, hunks, f, i) = StepOf(base, hunks, g, i)
<1> DEFINE n == Len(base)
           at == {h \in hunks : h.start = i}
           Line(k, j) == IF j = Len(base) THEN <<>> ELSE <<base[j + 1]>> \o k[j + 1]
<1>0. n \in Nat
  BY LenProperties
<1>1. Line(f, i) = Line(g, i)
  <2>1. CASE i = n
    BY <2>1
  <2>2. CASE i # n
    <3>1. i + 1 \in 0..Len(base) /\ i < i + 1
      BY <1>0, <2>2
    <3>2. f[i + 1] = g[i + 1]
      BY <3>1
    <3> QED BY <2>2, <3>2
  <2> QED BY <2>1, <2>2
<1>2. ASSUME NEW h \in hunks, h.start = i
      PROVE  (IF h.end = i THEN Line(f, i) ELSE f[h.end]) = (IF h.end = i THEN Line(g, i) ELSE g[h.end])
  <2>1. h.end = i \/ (h.end \in 0..Len(base) /\ i < h.end)
    BY <1>2, <1>0 DEF HunksFit
  <2> HIDE DEF Line
  <2> QED BY <1>1, <2>1
<1>3. CASE at = {}
  BY <1>1, <1>3 DEF StepOf
<1>4. CASE at # {}
  <2> DEFINE h == CHOOSE h \in at : TRUE
  <2>1. h \in hunks /\ h.start = i
    BY <1>4
  <2>2. StepOf(base, hunks, f, i) = h.replacement \o (IF h.end = i THEN Line(f, i) ELSE f[h.end])
    BY <1>4 DEF StepOf
  <2>3. StepOf(base, hunks, g, i) = h.replacement \o (IF h.end = i THEN Line(g, i) ELSE g[h.end])
    BY <1>4 DEF StepOf
  <2> HIDE DEF h, Line
  <2> QED BY <1>2, <2>1, <2>2, <2>3
<1> QED BY <1>3, <1>4

\* What Splice puts after the first i lines of the base.
LEMMA RestStep ==
    ASSUME NEW S, NEW base \in Seq(S), NEW hunks, HunksFit(S, base, hunks)
    PROVE  /\ Rest(base, hunks) \in [0..Len(base) -> Seq(S)]
           /\ \A i \in 0..Len(base) : Rest(base, hunks)[i] = StepOf(base, hunks, Rest(base, hunks), i)
<1> DEFINE n == Len(base)
           I == 0..n
           D == Seq(S)
           mu == [i \in I |-> n - i]
           G == [xf \in I \X [I -> D] |-> StepOf(base, hunks, xf[2], xf[1])]
<1>0. n \in Nat
  BY LenProperties
<1>1. n \in Nat /\ DOMAIN base = 1..n /\ \A i \in 1..n : base[i] \in S
  BY LenProperties
<1>2. mu \in [I -> Nat] /\ \A x \in I : mu[x] < n + 1
  BY <1>1
<1>3. <<>> \in D
  BY EmptySeq
<1>4. ASSUME NEW i \in I, NEW f \in [I -> D] PROVE StepOf(base, hunks, f, i) \in D
  <2> DEFINE at == {h \in hunks : h.start = i}
             Line(j) == IF j = Len(base) THEN <<>> ELSE <<base[j + 1]>> \o f[j + 1]
  <2>1. Line(i) \in D
    <3>1. CASE i = n
      BY <1>3, <3>1
    <3>2. CASE i # n
      <4>1. i + 1 \in I /\ i + 1 \in 1..n
        BY ONLY <1>0, <3>2, i \in I
      <4>2. f[i + 1] \in Seq(S) /\ <<base[i + 1]>> \in Seq(S)
        BY <1>1, <4>1
      <4> QED BY <3>2, <4>2, ConcatProperties
    <3> QED BY <3>1, <3>2
  <2>2. ASSUME NEW h \in hunks, h.start = i
        PROVE  h.replacement \o (IF h.end = i THEN Line(i) ELSE f[h.end]) \in D
    <3>1. h.replacement \in Seq(S) /\ h.end \in I
      BY <2>2, <1>1 DEF HunksFit
    <3>2. (IF h.end = i THEN Line(i) ELSE f[h.end]) \in Seq(S)
      <4> HIDE DEF Line
      <4> QED BY <2>1, <3>1
    <3> HIDE DEF Line
    <3> QED BY <3>1, <3>2, ConcatProperties
  <2>3. CASE at = {}
    <3>1. StepOf(base, hunks, f, i) = Line(i)
      BY <2>3 DEF StepOf
    <3> QED BY <2>1, <3>1
  <2>4. CASE at # {}
    <3> DEFINE h == CHOOSE h \in at : TRUE
    <3>1. h \in at
      BY <2>4
    <3>2. h \in hunks /\ h.start = i
      BY <3>1
    <3>3. StepOf(base, hunks, f, i) = h.replacement \o (IF h.end = i THEN Line(i) ELSE f[h.end])
      BY <2>4 DEF StepOf
    <3> HIDE DEF h, Line
    <3> QED BY <2>2, <3>2, <3>3
  <2> QED BY <2>3, <2>4
<1>5. G \in [I \X [I -> D] -> D]
  <2>1. \A xf \in I \X [I -> D] : StepOf(base, hunks, xf[2], xf[1]) \in D
    BY <1>4
  <2> QED BY <2>1
<1>6. ASSUME NEW i \in I, NEW f \in [I -> D], NEW g \in [I -> D], \A y \in I : mu[y] < mu[i] => f[y] = g[y]
      PROVE  G[<<i, f>>] = G[<<i, g>>]
  <2>0. \A y \in I : i < y => f[y] = g[y]
    BY <1>1, <1>6
  <2>3. StepOf(base, hunks, f, i) = StepOf(base, hunks, g, i)
    BY <2>0, StepLocal
  <2>4. <<i, f>> \in I \X [I -> D] /\ <<i, g>> \in I \X [I -> D]
    OBVIOUS
  <2> QED BY <2>3, <2>4
<1>7. \E f \in [I -> D] : f = [x \in I |-> G[<<x, f>>]]
  <2>1. n + 1 \in Nat
    BY <1>0
  <2>2. WellDefined(G, I, D, mu, n + 1)
    <3> HIDE DEF G, mu, D, I, n
    <3> QED BY <1>2, <1>3, <1>5, <1>6, <2>1 DEF WellDefined
  <2>3. Solvable(G, I, D)
    BY <2>2, Recursion
  <2> QED BY <2>3 DEF Solvable
<1>8. PICK f \in [I -> D] : f = [x \in I |-> G[<<x, f>>]]
  BY <1>7
<1>9. f = [i \in I |-> StepOf(base, hunks, f, i)]
  <2>1. \A x \in I : G[<<x, f>>] = StepOf(base, hunks, f, x)
    OBVIOUS
  <2> HIDE DEF G, I, D
  <2> QED BY <1>8, <2>1
<1>10. Rest(base, hunks) = [i \in I |-> StepOf(base, hunks, Rest(base, hunks), i)]
  BY <1>9, RestIs
<1> DEFINE R == Rest(base, hunks)
<1>11. \A i \in I : R[i] = StepOf(base, hunks, R, i)
  <2> HIDE DEF R
  <2>1. R = [i \in I |-> StepOf(base, hunks, R, i)]
    BY <1>10 DEF R
  <2> QED BY <2>1
\* Of the right type, by induction from the end.
<1> DEFINE Good == {k \in Nat : k <= n => R[n - k] \in D}
<1>12. ASSUME NEW k \in Nat, \A m \in Nat : m < k => m \in Good PROVE k \in Good
  <2> SUFFICES ASSUME k <= n PROVE R[n - k] \in D
    OBVIOUS
  <2> DEFINE i == n - k
             g == [x \in I |-> IF i < x THEN R[x] ELSE <<>>]
  <2>1. i \in I
    BY <1>1
  <2>2. ASSUME NEW x \in I, i < x PROVE R[x] \in D
    <3>1. n - x \in Nat /\ n - x < k /\ n - x <= n /\ n - (n - x) = x
      BY <1>1, <2>2
    <3>2. n - x \in Good
      BY <1>12, <3>1
    <3> HIDE DEF R
    <3> QED BY <3>1, <3>2
  <2>3. g \in [I -> D]
    BY <1>3, <2>2
  <2>4. StepOf(base, hunks, R, i) = StepOf(base, hunks, g, i)
    <3>0. \A y \in I : i < y => R[y] = g[y]
      OBVIOUS
    <3> HIDE DEF g, R, i
    <3> QED BY <2>1, <3>0, StepLocal
  <2> HIDE DEF g, R, D, I, i
  <2>5. R[i] \in D
    BY <1>4, <1>11, <2>1, <2>3, <2>4
  <2> QED BY <2>5 DEF i
<1>13. Nat \subseteq Good
  <2> HIDE DEF Good
  <2> QED BY <1>12, Induction
<1>14. ASSUME NEW i \in I PROVE R[i] \in D
  <2>1. n - i \in Nat /\ n - i <= n /\ n - (n - i) = i
    BY <1>1
  <2>2. n - i \in Good
    BY <2>1, <1>13
  <2> HIDE DEF R
  <2> QED BY <2>1, <2>2
<1>15. R \in [I -> D]
  <2>1. R = [i \in I |-> R[i]]
    <3> HIDE DEF R
    <3>1. R = [i \in I |-> StepOf(base, hunks, R, i)]
      BY <1>10 DEF R
    <3> QED BY <3>1
  <2> HIDE DEF R
  <2> QED BY <1>14, <2>1
<1> QED BY <1>11, <1>15

-----------------------------------------------------------------------------
(* The walk of diffHunks. *)

\* The recursive function of Walk.
Walked(base, target) ==
    LET table == Table(base, target)
        Inserts(i, j) == j <= Len(target) /\ (i > Len(base) \/ table[i, j + 1] >= table[i + 1, j])
        walk[at \in (1..Len(base) + 1) \X (1..Len(target) + 1)] ==
            LET i == at[1]
                j == at[2]
            IN  IF i > Len(base) /\ j > Len(target) THEN <<>>
                ELSE IF i <= Len(base) /\ j <= Len(target) /\ base[i] = target[j]
                THEN <<"keep">> \o walk[<<i + 1, j + 1>>]
                ELSE IF Inserts(i, j) THEN <<"insert">> \o walk[<<i, j + 1>>]
                ELSE <<"drop">> \o walk[<<i + 1, j>>]
    IN  walk

\* Whether the walk inserts at i, j; what it does there.
InsertsAt(base, target, i, j) ==
    j <= Len(target) /\ (i > Len(base) \/ Table(base, target)[i, j + 1] >= Table(base, target)[i + 1, j])

WalkStep(base, target, walk, i, j) ==
            IF i > Len(base) /\ j > Len(target) THEN <<>>
            ELSE IF i <= Len(base) /\ j <= Len(target) /\ base[i] = target[j]
            THEN <<"keep">> \o walk[<<i + 1, j + 1>>]
            ELSE IF InsertsAt(base, target, i, j) THEN <<"insert">> \o walk[<<i, j + 1>>]
            ELSE <<"drop">> \o walk[<<i + 1, j>>]

\* Walk is its value at the start of both texts, and where the equation has a solution it is one.
LEMMA WalkIs ==
    ASSUME NEW base, NEW target
    PROVE  Walk(base, target) = Walked(base, target)[<<1, 1>>]
BY DEF Walk, Walked

\* The positions in both texts.
Cells(base, target) == (1..Len(base) + 1) \X (1..Len(target) + 1)

LEMMA WalkedIs ==
    ASSUME NEW base, NEW target,
           \E f : f = [at \in Cells(base, target) |-> WalkStep(base, target, f, at[1], at[2])]
    PROVE  Walked(base, target) = [at \in Cells(base, target) |-> WalkStep(base, target, Walked(base, target), at[1], at[2])]
<1>1. Walked(base, target) = CHOOSE f : f = [at \in Cells(base, target) |-> WalkStep(base, target, f, at[1], at[2])]
  BY DEF Walked, WalkStep, InsertsAt, Cells
<1> QED BY <1>1, Zenon

\* What the walk does at a step.
Kinds == {"keep", "insert", "drop"}

\* One step of the walk, from i, j to i2, j2.
StepsTo(base, target, kind, i, j, i2, j2) ==
    \/ kind = "keep" /\ i2 = i + 1 /\ j2 = j + 1 /\ base[i] = target[j]
    \/ kind = "insert" /\ i2 = i /\ j2 = j + 1
    \/ kind = "drop" /\ i2 = i + 1 /\ j2 = j

\* Whatever follows, the walk takes this step at i, j.
Leads(base, target, kind, i, j, i2, j2) ==
    /\ StepsTo(base, target, kind, i, j, i2, j2)
    /\ \A walk : WalkStep(base, target, walk, i, j) = <<kind>> \o walk[<<i2, j2>>]

\* The walk goes on from i, j until both texts are at their ends.
LEMMA WalkStepIs ==
    ASSUME NEW S, NEW base \in Seq(S), NEW target \in Seq(S),
           NEW i \in 1..Len(base) + 1, NEW j \in 1..Len(target) + 1, ~(i > Len(base) /\ j > Len(target))
    PROVE  \E kind \in Kinds, i2 \in 1..Len(base) + 1, j2 \in 1..Len(target) + 1 :
               Leads(base, target, kind, i, j, i2, j2)
<1> DEFINE n == Len(base)
           m == Len(target)
           Inserts == InsertsAt(base, target, i, j)
<1>0. n \in Nat /\ m \in Nat
  BY LenProperties
<1>1. CASE i <= n /\ j <= m /\ base[i] = target[j]
  <2>1. \A walk : WalkStep(base, target, walk, i, j) = <<"keep">> \o walk[<<i + 1, j + 1>>]
    BY <1>1 DEF WalkStep
  <2>2. StepsTo(base, target, "keep", i, j, i + 1, j + 1)
    BY <1>1 DEF StepsTo
  <2>3. "keep" \in Kinds /\ i + 1 \in 1..n + 1 /\ j + 1 \in 1..m + 1
    BY <1>0, <1>1 DEF Kinds
  <2>4. Leads(base, target, "keep", i, j, i + 1, j + 1)
    BY <2>1, <2>2, Zenon DEF Leads
  <2> QED BY <2>3, <2>4
<1>2. CASE ~(i <= n /\ j <= m /\ base[i] = target[j]) /\ Inserts
  <2>1. \A walk : WalkStep(base, target, walk, i, j) = <<"insert">> \o walk[<<i, j + 1>>]
    BY <1>2 DEF WalkStep
  <2>2. StepsTo(base, target, "insert", i, j, i, j + 1)
    BY DEF StepsTo
  <2>3. j <= m
    BY <1>2 DEF InsertsAt
  <2>4. "insert" \in Kinds /\ i \in 1..n + 1 /\ j + 1 \in 1..m + 1
    BY <1>0, <2>3 DEF Kinds
  <2>6. Leads(base, target, "insert", i, j, i, j + 1)
    BY <2>1, <2>2, Zenon DEF Leads
  <2> QED BY <2>4, <2>6
<1>3. CASE ~(i <= n /\ j <= m /\ base[i] = target[j]) /\ ~Inserts
  <2>1. \A walk : WalkStep(base, target, walk, i, j) = <<"drop">> \o walk[<<i + 1, j>>]
    BY <1>3 DEF WalkStep
  <2>2. StepsTo(base, target, "drop", i, j, i + 1, j)
    BY DEF StepsTo
  <2>5. ~(j <= m) \/ ~(i > n)
    BY <1>3, Zenon DEF InsertsAt
  <2>3. j > m \/ ~(i > n)
    BY ONLY <1>0, <2>5, i \in 1..n + 1, j \in 1..m + 1
  <2>4. "drop" \in Kinds /\ i + 1 \in 1..n + 1 /\ j \in 1..m + 1
    BY <1>0, <2>3 DEF Kinds
  <2>6. Leads(base, target, "drop", i, j, i + 1, j)
    BY <2>1, <2>2, Zenon DEF Leads
  <2> QED BY <2>4, <2>6
<1> QED BY <1>1, <1>2, <1>3

\* The walk of every cell, a sequence of steps.
LEMMA WalkedStep ==
    ASSUME NEW S, NEW base \in Seq(S), NEW target \in Seq(S)
    PROVE  \A i \in 1..Len(base) + 1, j \in 1..Len(target) + 1 :
               Walked(base, target)[<<i, j>>] = WalkStep(base, target, Walked(base, target), i, j)
<1> DEFINE n == Len(base)
           m == Len(target)
           I == Cells(base, target)
           D == Seq(Kinds)
           mu == [at \in I |-> (n + 1 - at[1]) + (m + 1 - at[2])]
           G == [xf \in I \X [I -> D] |-> WalkStep(base, target, xf[2], xf[1][1], xf[1][2])]
<1>0. n \in Nat /\ m \in Nat
  BY LenProperties
<1>1. I = (1..n + 1) \X (1..m + 1)
  BY DEF Cells
<1>2. ASSUME NEW i \in 1..n + 1, NEW j \in 1..m + 1
      PROVE  <<i, j>> \in I /\ mu[<<i, j>>] = (n + 1 - i) + (m + 1 - j)
  <2>1. <<i, j>> \in I
    BY <1>1
  <2> QED BY <2>1
<1>3. mu \in [I -> Nat] /\ \A at \in I : mu[at] < n + m + 1
  <2>1. ASSUME NEW at \in I
        PROVE  mu[at] \in Nat /\ mu[at] < n + m + 1
    <3> DEFINE i == at[1]
               j == at[2]
    <3>1. i \in 1..n + 1 /\ j \in 1..m + 1
      BY <1>1
    <3>2. mu[at] = (n + 1 - i) + (m + 1 - j)
      OBVIOUS
    <3>3. (n + 1 - i) + (m + 1 - j) \in Nat /\ (n + 1 - i) + (m + 1 - j) < n + m + 1
      <4> HIDE DEF i, j, n, m
      <4> QED BY ONLY <1>0, <3>1
    <3> QED BY <3>2, <3>3
  <2> QED BY <2>1
<1>4. ASSUME NEW at \in I
      PROVE  \/ \A w : WalkStep(base, target, w, at[1], at[2]) = <<>>
             \/ \E kind \in Kinds, c \in I : /\ mu[c] < mu[at]
                                             /\ \A w : WalkStep(base, target, w, at[1], at[2]) = <<kind>> \o w[c]
  <2> DEFINE i == at[1]
             j == at[2]
  <2>0. i \in 1..n + 1 /\ j \in 1..m + 1 /\ at = <<i, j>>
    BY <1>1
  <2>1. CASE i > n /\ j > m
    BY <2>1 DEF WalkStep
  <2>2. CASE ~(i > n /\ j > m)
    <3>1. PICK kind \in Kinds, i2 \in 1..n + 1, j2 \in 1..m + 1 : Leads(base, target, kind, i, j, i2, j2)
      <4> HIDE DEF i, j
      <4> QED BY <2>0, <2>2, WalkStepIs
    <3>2. (i2 = i /\ j2 = j + 1) \/ (i2 = i + 1 /\ j2 = j) \/ (i2 = i + 1 /\ j2 = j + 1)
      BY <3>1 DEF Leads, StepsTo
    <3>3. (n + 1 - i2) + (m + 1 - j2) < (n + 1 - i) + (m + 1 - j)
      <4> HIDE DEF i, j, n, m
      <4> QED BY ONLY <1>0, <2>0, <3>2, i2 \in 1..n + 1, j2 \in 1..m + 1
    <3>4. <<i2, j2>> \in I /\ mu[<<i2, j2>>] < mu[at]
      <4> HIDE DEF mu, i, j, n, m
      <4> QED BY <1>2, <2>0, <3>3
    <3>5. \A w : WalkStep(base, target, w, i, j) = <<kind>> \o w[<<i2, j2>>]
      BY <3>1 DEF Leads
    <3> HIDE DEF mu, I
    <3> QED BY <3>4, <3>5
  <2> QED BY <2>1, <2>2
<1>5. <<>> \in D /\ \A kind \in Kinds, w \in D : <<kind>> \o w \in D
  <2>1. ASSUME NEW kind \in Kinds, NEW w \in D PROVE <<kind>> \o w \in D
    BY ConcatProperties
  <2> QED BY <2>1, EmptySeq
<1>6. G \in [I \X [I -> D] -> D]
  <2>1. ASSUME NEW at \in I, NEW f \in [I -> D] PROVE WalkStep(base, target, f, at[1], at[2]) \in D
    <3> HIDE DEF I, D, mu
    <3>1. CASE \A w : WalkStep(base, target, w, at[1], at[2]) = <<>>
      BY <1>5, <3>1
    <3>2. CASE \E kind \in Kinds, c \in I : /\ mu[c] < mu[at]
                                            /\ \A w : WalkStep(base, target, w, at[1], at[2]) = <<kind>> \o w[c]
      <4>1. PICK kind \in Kinds, c \in I : \A w : WalkStep(base, target, w, at[1], at[2]) = <<kind>> \o w[c]
        BY <3>2
      <4>2. f[c] \in D
        OBVIOUS
      <4> QED BY <1>5, <4>1, <4>2
    <3> QED BY <1>4, <3>1, <3>2
  <2> HIDE DEF I, D, mu
  <2> QED BY <2>1
<1>7. ASSUME NEW at \in I, NEW f \in [I -> D], NEW g \in [I -> D], \A y \in I : mu[y] < mu[at] => f[y] = g[y]
      PROVE  G[<<at, f>>] = G[<<at, g>>]
  <2>1. WalkStep(base, target, f, at[1], at[2]) = WalkStep(base, target, g, at[1], at[2])
    <3> HIDE DEF I, D, mu
    <3>1. CASE \A w : WalkStep(base, target, w, at[1], at[2]) = <<>>
      BY <3>1
    <3>2. CASE \E kind \in Kinds, c \in I : /\ mu[c] < mu[at]
                                            /\ \A w : WalkStep(base, target, w, at[1], at[2]) = <<kind>> \o w[c]
      BY <1>7, <3>2
    <3> QED BY <1>4, <3>1, <3>2
  <2> HIDE DEF I, D, mu
  <2>2. <<at, f>> \in I \X [I -> D] /\ <<at, g>> \in I \X [I -> D]
    OBVIOUS
  <2> QED BY <2>1, <2>2
<1>8. WellDefined(G, I, D, mu, n + m + 1)
  <2>1. n + m + 1 \in Nat
    BY <1>0
  <2>2. D # {}
    BY <1>5
  <2> HIDE DEF G, I, D, mu, n, m
  <2> QED BY <1>3, <1>6, <1>7, <2>1, <2>2 DEF WellDefined
<1>9. Solvable(G, I, D)
  BY <1>8, Recursion
<1>10. PICK f \in [I -> D] : f = [x \in I |-> G[<<x, f>>]]
  BY <1>9 DEF Solvable
<1>11. f = [at \in I |-> WalkStep(base, target, f, at[1], at[2])]
  <2>1. \A x \in I : G[<<x, f>>] = WalkStep(base, target, f, x[1], x[2])
    <3> HIDE DEF I, D
    <3> QED OBVIOUS
  <2> HIDE DEF G, I, D
  <2> QED BY <1>10, <2>1
<1>12. Walked(base, target) = [at \in I |-> WalkStep(base, target, Walked(base, target), at[1], at[2])]
  BY <1>11, WalkedIs
<1> DEFINE W == Walked(base, target)
<1>13. ASSUME NEW i \in 1..n + 1, NEW j \in 1..m + 1
       PROVE  W[<<i, j>>] = WalkStep(base, target, W, i, j)
  <2> HIDE DEF W, I
  <2>1. W = [at \in I |-> WalkStep(base, target, W, at[1], at[2])]
    BY <1>12 DEF W
  <2>2. <<i, j>> \in I
    BY <1>2
  <2>3. \A at \in I : W[at] = WalkStep(base, target, W, at[1], at[2])
    BY <2>1
  <2>4. <<i, j>>[1] = i /\ <<i, j>>[2] = j
    OBVIOUS
  <2> QED BY <2>2, <2>3, <2>4
<1> HIDE DEF W
<1> QED BY <1>13 DEF W

\* A walk from i, j to the ends of both texts; b and t count the lines of the
\* base and of the target behind it.
Path(base, target, i, j, w, b, t) ==
    /\ w \in Seq(Kinds)
    /\ b \in [0..Len(w) -> Nat]
    /\ t \in [0..Len(w) -> Nat]
    /\ b[0] = i - 1
    /\ t[0] = j - 1
    /\ b[Len(w)] = Len(base)
    /\ t[Len(w)] = Len(target)
    /\ \A k \in 1..Len(w) : StepsTo(base, target, w[k], b[k - 1] + 1, t[k - 1] + 1, b[k] + 1, t[k] + 1)

\* A step in front of a walk.
LEMMA PathFront ==
    ASSUME NEW base, NEW target, NEW kind \in Kinds, NEW i \in Nat \ {0}, NEW j \in Nat \ {0}, NEW i2, NEW j2,
           StepsTo(base, target, kind, i, j, i2, j2),
           NEW w, NEW b, NEW t, Path(base, target, i2, j2, w, b, t)
    PROVE  \E b2, t2 : Path(base, target, i, j, <<kind>> \o w, b2, t2)
<1> DEFINE n == Len(w)
           v == <<kind>> \o w
           b2 == [k \in 0..n + 1 |-> IF k = 0 THEN i - 1 ELSE b[k - 1]]
           t2 == [k \in 0..n + 1 |-> IF k = 0 THEN j - 1 ELSE t[k - 1]]
<1>1. w \in Seq(Kinds) /\ b \in [0..n -> Nat] /\ t \in [0..n -> Nat]
  BY DEF Path
<1>2. n \in Nat
  BY <1>1, LenProperties
<1>3. <<kind>> \in Seq(Kinds) /\ Len(<<kind>>) = 1 /\ <<kind>>[1] = kind
  OBVIOUS
<1>4. v \in Seq(Kinds) /\ Len(v) = n + 1 /\ \A k \in 1..n + 1 : v[k] = IF k = 1 THEN kind ELSE w[k - 1]
  <2>1. /\ v \in Seq(Kinds)
        /\ Len(v) = 1 + n
        /\ \A k \in 1..1 + n : v[k] = IF k <= 1 THEN <<kind>>[k] ELSE w[k - 1]
    BY <1>1, <1>3, ConcatProperties
  <2> HIDE DEF v, n
  <2> QED BY <1>2, <1>3, <2>1
<1>5. b2 \in [0..n + 1 -> Nat] /\ t2 \in [0..n + 1 -> Nat]
  <2>1. ASSUME NEW k \in 0..n + 1 PROVE /\ (IF k = 0 THEN i - 1 ELSE b[k - 1]) \in Nat
                                        /\ (IF k = 0 THEN j - 1 ELSE t[k - 1]) \in Nat
    <3>1. CASE k = 0
      BY ONLY <3>1, i \in Nat \ {0}, j \in Nat \ {0}
    <3>2. CASE k # 0
      <4>1. k - 1 \in 0..n
        BY ONLY <1>2, <3>2, k \in 0..n + 1
      <4> QED BY <1>1, <3>2, <4>1
    <3> QED BY <3>1, <3>2
  <2> QED BY <2>1
<1>6. /\ b2[0] = i - 1 /\ t2[0] = j - 1
      /\ \A k \in 1..n + 1 : b2[k] = b[k - 1] /\ t2[k] = t[k - 1]
  <2>1. 0 \in 0..n + 1 /\ \A k \in 1..n + 1 : k \in 0..n + 1 /\ k # 0
    BY <1>2
  <2> HIDE DEF n
  <2> QED BY <2>1
<1>7. n + 1 \in 1..n + 1 /\ (n + 1) - 1 = n
  BY <1>2
<1> HIDE DEF b2, t2, v, n
<1>8. b2[n + 1] = Len(base) /\ t2[n + 1] = Len(target)
  BY <1>6, <1>7 DEF Path, n
<1>9. ASSUME NEW k \in 1..n + 1
      PROVE  StepsTo(base, target, v[k], b2[k - 1] + 1, t2[k - 1] + 1, b2[k] + 1, t2[k] + 1)
  <2>1. CASE k = 1
    <3>1. b[0] = i2 - 1 /\ t[0] = j2 - 1
      BY DEF Path
    <3>2. i2 \in Nat /\ j2 \in Nat
      BY DEF StepsTo
    <3>3. b2[k] + 1 = i2 /\ t2[k] + 1 = j2
      <4>1. b2[1] = b[0] /\ t2[1] = t[0]
        BY <1>2, <1>6, <2>1
      <4> QED BY <2>1, <3>1, <3>2, <4>1
    <3>4. b2[k - 1] + 1 = i /\ t2[k - 1] + 1 = j
      BY <1>6, <2>1
    <3>5. v[k] = kind
      BY <1>4, <2>1
    <3> QED BY ONLY <3>3, <3>4, <3>5, StepsTo(base, target, kind, i, j, i2, j2)
  <2>2. CASE k # 1
    <3>1. k - 1 \in 1..n /\ k - 1 \in 1..n + 1
      BY ONLY <1>2, <2>2, k \in 1..n + 1
    <3>2. StepsTo(base, target, w[k - 1], b[(k - 1) - 1] + 1, t[(k - 1) - 1] + 1, b[k - 1] + 1, t[k - 1] + 1)
      BY <3>1 DEF Path, n
    <3>3. b2[k] = b[k - 1] /\ t2[k] = t[k - 1]
      BY <1>6
    <3>4. b2[k - 1] = b[(k - 1) - 1] /\ t2[k - 1] = t[(k - 1) - 1]
      BY <1>6, <3>1
    <3>5. v[k] = w[k - 1]
      BY <1>4, <2>2
    <3> QED BY ONLY <3>2, <3>3, <3>4, <3>5
  <2> QED BY <2>1, <2>2
<1>10. Path(base, target, i, j, v, b2, t2)
  BY <1>4, <1>5, <1>6, <1>8, <1>9 DEF Path
<1> QED BY <1>10 DEF v

\* The walk of diffHunks goes through both texts, line by line.
LEMMA WalkIsPath ==
    ASSUME NEW S, NEW base \in Seq(S), NEW target \in Seq(S)
    PROVE  \E b, t : Path(base, target, 1, 1, Walk(base, target), b, t)
<1> DEFINE n == Len(base)
           m == Len(target)
           W == Walked(base, target)
           Reaches(i, j) == \E b, t : Path(base, target, i, j, W[<<i, j>>], b, t)
           Good == {k \in Nat : \A i \in 1..n + 1, j \in 1..m + 1 : (n + 1 - i) + (m + 1 - j) = k => Reaches(i, j)}
<1>0. n \in Nat /\ m \in Nat
  BY LenProperties
<1>1. ASSUME NEW k \in Nat, \A l \in Nat : l < k => l \in Good PROVE k \in Good
  <2> SUFFICES ASSUME NEW i \in 1..n + 1, NEW j \in 1..m + 1, (n + 1 - i) + (m + 1 - j) = k PROVE Reaches(i, j)
    OBVIOUS
  <2>0. W[<<i, j>>] = WalkStep(base, target, W, i, j)
    BY WalkedStep
  <2>1. CASE i > n /\ j > m
    <3>1. W[<<i, j>>] = <<>>
      BY <2>0, <2>1 DEF WalkStep
    <3>2. i - 1 = n /\ j - 1 = m
      BY ONLY <1>0, <2>1, i \in 1..n + 1, j \in 1..m + 1
    <3> DEFINE b == [l \in 0..0 |-> n]
               t == [l \in 0..0 |-> m]
    <3>3. b \in [0..0 -> Nat] /\ t \in [0..0 -> Nat] /\ b[0] = n /\ t[0] = m
      BY <1>0
    <3> HIDE DEF b, t
    <3>4. <<>> \in Seq(Kinds) /\ Len(<<>>) = 0
      BY EmptySeq
    <3>5. Path(base, target, i, j, <<>>, b, t)
      BY <3>2, <3>3, <3>4 DEF Path
    <3> HIDE DEF W
    <3> QED BY <3>1, <3>5
  <2>2. CASE ~(i > n /\ j > m)
    <3>1. PICK kind \in Kinds, i2 \in 1..n + 1, j2 \in 1..m + 1 : Leads(base, target, kind, i, j, i2, j2)
      BY <2>2, WalkStepIs
    <3>2. StepsTo(base, target, kind, i, j, i2, j2)
      BY <3>1 DEF Leads
    <3>3. WalkStep(base, target, W, i, j) = <<kind>> \o W[<<i2, j2>>]
      BY <3>1 DEF Leads
    <3>4. (i2 = i /\ j2 = j + 1) \/ (i2 = i + 1 /\ j2 = j) \/ (i2 = i + 1 /\ j2 = j + 1)
      BY <3>2 DEF StepsTo
    <3> DEFINE l == (n + 1 - i2) + (m + 1 - j2)
    <3>5. l \in Nat /\ l < k
      <4> HIDE DEF n, m
      <4> QED BY ONLY <1>0, <3>4, k = (n + 1 - i) + (m + 1 - j), i \in 1..n + 1, j \in 1..m + 1, i2 \in 1..n + 1, j2 \in 1..m + 1
    <3>6. l \in Good
      BY <1>1, <3>5
    <3>7. Reaches(i2, j2)
      <4> HIDE DEF Reaches, n, m
      <4> QED BY <3>6
    <3>8. PICK b, t : Path(base, target, i2, j2, W[<<i2, j2>>], b, t)
      BY <3>7
    <3>9. i \in Nat \ {0} /\ j \in Nat \ {0}
      OBVIOUS
    <3>10. \E b2, t2 : Path(base, target, i, j, <<kind>> \o W[<<i2, j2>>], b2, t2)
      <4> HIDE DEF W
      <4> QED BY <3>2, <3>8, <3>9, PathFront
    <3> HIDE DEF W
    <3> QED BY <2>0, <3>3, <3>10
  <2> QED BY <2>1, <2>2
<1>2. Nat \subseteq Good
  <2> HIDE DEF Good
  <2> QED BY <1>1, Induction
<1>3. Reaches(1, 1)
  <2>1. 1 \in 1..n + 1 /\ 1 \in 1..m + 1 /\ (n + 1 - 1) + (m + 1 - 1) \in Nat
    BY <1>0
  <2>2. (n + 1 - 1) + (m + 1 - 1) \in Good
    BY <1>2, <2>1
  <2> HIDE DEF Reaches, n, m
  <2> QED BY <2>1, <2>2
<1> QED BY <1>3, WalkIs

\* f counts the steps of some kinds among the first of w.
Counts(w, kinds, n, f) ==
    /\ n \in Nat
    /\ f \in [0..n -> Nat]
    /\ f[0] = 0
    /\ \A k \in 1..n : f[k] = IF w[k] \in kinds THEN f[k - 1] + 1 ELSE f[k - 1]

LEMMA CountIs ==
    ASSUME NEW w, NEW kinds, NEW n, NEW f, Counts(w, kinds, n, f)
    PROVE  \A k \in 0..n : Cardinality({m \in 1..k : w[m] \in kinds}) = f[k]
<1> DEFINE Of(k) == {m \in 1..k : w[m] \in kinds}
           Good == {k \in Nat : k <= n => IsFiniteSet(Of(k)) /\ Cardinality(Of(k)) = f[k]}
<1>0. n \in Nat /\ f \in [0..n -> Nat] /\ f[0] = 0
  BY DEF Counts
<1>1. ASSUME NEW k \in Nat, \A l \in Nat : l < k => l \in Good PROVE k \in Good
  <2> SUFFICES ASSUME k <= n PROVE IsFiniteSet(Of(k)) /\ Cardinality(Of(k)) = f[k]
    OBVIOUS
  <2>1. CASE k = 0
    <3>1. Of(0) = {}
      OBVIOUS
    <3> HIDE DEF Of
    <3> QED BY <1>0, <2>1, <3>1, FS_EmptySet
  <2>2. CASE k # 0
    <3>1. k \in 1..n /\ k - 1 \in Nat /\ k - 1 < k /\ k - 1 <= n /\ k - 1 \in 0..n
      BY ONLY <1>0, <2>2, k \in Nat, k <= n
    <3>2. k - 1 \in Good
      BY <1>1, <3>1
    <3>3. IsFiniteSet(Of(k - 1)) /\ Cardinality(Of(k - 1)) = f[k - 1]
      <4> HIDE DEF Of
      <4> QED BY <3>1, <3>2
    <3>4. f[k] = IF w[k] \in kinds THEN f[k - 1] + 1 ELSE f[k - 1]
      BY <3>1 DEF Counts
    <3>5. k \notin Of(k - 1)
      BY ONLY k \in Nat
    <3>6. CASE w[k] \in kinds
      <4>1. Of(k) = Of(k - 1) \cup {k}
        BY <3>1, <3>6
      <4> DEFINE T == Of(k - 1)
      <4> HIDE DEF T
      <4>2. IsFiniteSet(T) /\ k \notin T
        BY <3>3, <3>5 DEF T
      <4>3. IsFiniteSet(T \cup {k}) /\ Cardinality(T \cup {k}) = Cardinality(T) + 1
        BY ONLY <4>2, FS_AddElement
      <4> QED BY <3>3, <3>4, <3>6, <4>1, <4>3 DEF T
    <3>7. CASE w[k] \notin kinds
      <4>1. Of(k) = Of(k - 1)
        BY <3>1, <3>7
      <4> HIDE DEF Of
      <4> QED BY <3>3, <3>4, <3>7, <4>1
    <3> QED BY <3>6, <3>7
  <2> QED BY <2>1, <2>2
<1>2. Nat \subseteq Good
  <2> HIDE DEF Good
  <2> QED BY <1>1, Induction
<1>3. ASSUME NEW k \in 0..n PROVE Cardinality(Of(k)) = f[k]
  <2>1. k \in Nat /\ k <= n
    BY <1>0
  <2>2. k \in Good
    BY <1>2, <2>1
  <2> HIDE DEF Of
  <2> QED BY <2>1, <2>2
<1> QED BY <1>3

\* A stretch of the walk w without a kept line, and the hunk it makes.
IsStretch(w, k, m) ==
    /\ k \in 1..Len(w) /\ m \in k..Len(w)
    /\ \A i \in k..m : w[i] # "keep"
    /\ k = 1 \/ w[k - 1] = "keep"
    /\ m = Len(w) \/ w[m + 1] = "keep"

HunkOf(target, b, t, k, m) ==
    [ start |-> b[k - 1], end |-> b[m], replacement |-> SubSeq(target, t[k - 1] + 1, t[m]) ]

\* Hunks, by the lines behind each step of the walk.
LEMMA HunksAre ==
    ASSUME NEW base, NEW target, NEW b, NEW t, Path(base, target, 1, 1, Walk(base, target), b, t), NEW h
    PROVE  h \in Hunks(base, target) <=>
               \E k, m \in Nat : IsStretch(Walk(base, target), k, m) /\ h = HunkOf(target, b, t, k, m)
<1> DEFINE w == Walk(base, target)
           n == Len(w)
           Count(k, kinds) == Cardinality({m \in 1..k : w[m] \in kinds})
           Edit(k) == w[k] # "keep"
           Hunk(k, m) == [ start |-> Count(k - 1, {"keep", "drop"}), end |-> Count(m, {"keep", "drop"}),
                           replacement |-> SubSeq(target, Count(k - 1, {"keep", "insert"}) + 1, Count(m, {"keep", "insert"})) ]
           Stretch(k, m) == /\ k <= m
                            /\ \A i \in k..m : Edit(i)
                            /\ k = 1 \/ ~Edit(k - 1)
                            /\ m = Len(w) \/ ~Edit(m + 1)
           stretches == {km \in (DOMAIN w) \X (DOMAIN w) : Stretch(km[1], km[2])}
<1>1. w \in Seq(Kinds) /\ b \in [0..n -> Nat] /\ t \in [0..n -> Nat] /\ b[0] = 0 /\ t[0] = 0
  BY DEF Path
<1>2. n \in Nat /\ DOMAIN w = 1..n
  BY <1>1, LenProperties
<1>3. ASSUME NEW k \in 1..n
      PROVE  /\ b[k] = IF w[k] \in {"keep", "drop"} THEN b[k - 1] + 1 ELSE b[k - 1]
             /\ t[k] = IF w[k] \in {"keep", "insert"} THEN t[k - 1] + 1 ELSE t[k - 1]
  <2>1. StepsTo(base, target, w[k], b[k - 1] + 1, t[k - 1] + 1, b[k] + 1, t[k] + 1)
    BY DEF Path
  <2>2. k \in 0..n /\ k - 1 \in 0..n
    BY ONLY <1>2, k \in 1..n
  <2>3. b[k] \in Nat /\ b[k - 1] \in Nat /\ t[k] \in Nat /\ t[k - 1] \in Nat
    BY <1>1, <2>2
  <2> HIDE DEF w, n
  <2> QED BY <2>1, <2>3 DEF StepsTo
<1>4. ASSUME NEW k \in 0..n
      PROVE  Count(k, {"keep", "drop"}) = b[k] /\ Count(k, {"keep", "insert"}) = t[k]
  <2> HIDE DEF w, n
  <2>1. \A l \in 1..n : b[l] = IF w[l] \in {"keep", "drop"} THEN b[l - 1] + 1 ELSE b[l - 1]
    BY <1>3
  <2>2. \A l \in 1..n : t[l] = IF w[l] \in {"keep", "insert"} THEN t[l - 1] + 1 ELSE t[l - 1]
    BY <1>3
  <2>3. Counts(w, {"keep", "drop"}, n, b) /\ Counts(w, {"keep", "insert"}, n, t)
    BY ONLY <1>1, <1>2, <2>1, <2>2 DEF Counts
  <2>4. \A l \in 0..n : Count(l, {"keep", "drop"}) = b[l] /\ Count(l, {"keep", "insert"}) = t[l]
    BY <2>3, CountIs
  <2> QED BY <2>3, <2>4
<1>5. ASSUME NEW k \in 1..n, NEW m \in 1..n PROVE Hunk(k, m) = HunkOf(target, b, t, k, m)
  <2>1. k - 1 \in 0..n /\ m \in 0..n
    BY ONLY <1>2, k \in 1..n, m \in 1..n
  <2>2. Count(k - 1, {"keep", "drop"}) = b[k - 1] /\ Count(k - 1, {"keep", "insert"}) = t[k - 1]
    BY ONLY <1>4, <2>1
  <2>3. Count(m, {"keep", "drop"}) = b[m] /\ Count(m, {"keep", "insert"}) = t[m]
    BY ONLY <1>4, <2>1
  <2> HIDE DEF Count
  <2> QED BY <2>2, <2>3 DEF HunkOf
<1>6. ASSUME NEW k \in 1..n, NEW m \in 1..n PROVE Stretch(k, m) <=> IsStretch(w, k, m)
  <2>1. k <= m <=> m \in k..n
    BY ONLY <1>2, k \in 1..n, m \in 1..n
  <2> HIDE DEF w
  <2> QED BY ONLY <2>1, k \in 1..n, Zenon DEF IsStretch, Stretch, Edit, n
<1>7. Hunks(base, target) = {Hunk(km[1], km[2]) : km \in stretches}
  BY DEF Hunks
<1>8. ASSUME NEW k, NEW m, IsStretch(w, k, m) PROVE k \in 1..n /\ m \in 1..n
  <2>1. k \in 1..n /\ m \in k..n
    BY <1>8 DEF IsStretch
  <2> QED BY ONLY <1>2, <2>1
<1> HIDE DEF Hunk, Stretch, w, n
<1>9. ASSUME h \in Hunks(base, target) PROVE \E k, m \in Nat : IsStretch(w, k, m) /\ h = HunkOf(target, b, t, k, m)
  <2>1. PICK km \in stretches : h = Hunk(km[1], km[2])
    BY <1>7, <1>9
  <2> DEFINE k == km[1]
             m == km[2]
  <2>2. k \in 1..n /\ m \in 1..n /\ Stretch(k, m)
    BY <1>2
  <2> HIDE DEF k, m
  <2> QED BY <1>5, <1>6, <2>1, <2>2 DEF k, m
<1>10. ASSUME NEW k \in Nat, NEW m \in Nat, IsStretch(w, k, m), h = HunkOf(target, b, t, k, m)
       PROVE  h \in Hunks(base, target)
  <2>1. k \in 1..n /\ m \in 1..n
    BY <1>8, <1>10
  <2>2. <<k, m>> \in stretches
    BY <1>2, <1>6, <1>10, <2>1
  <2>3. h = Hunk(<<k, m>>[1], <<k, m>>[2])
    BY <1>5, <1>10, <2>1
  <2> HIDE DEF stretches
  <2> QED BY <1>7, <2>2, <2>3
<1> QED BY <1>9, <1>10 DEF w

\* What is behind a step of the walk only grows, across a kept line in both texts.
LEMMA PathGrows ==
    ASSUME NEW base, NEW target, NEW i, NEW j, NEW w, NEW b, NEW t, Path(base, target, i, j, w, b, t)
    PROVE  /\ \A m \in 0..Len(w) : \A k \in 0..m : b[k] <= b[m] /\ t[k] <= t[m]
           /\ \A k \in 1..Len(w) : w[k] = "keep" => /\ b[k] = b[k - 1] + 1
                                                    /\ t[k] = t[k - 1] + 1
                                                    /\ base[b[k]] = target[t[k]]
<1> DEFINE n == Len(w)
           Good == {m \in Nat : m <= n => \A k \in 0..m : b[k] <= b[m] /\ t[k] <= t[m]}
<1>1. w \in Seq(Kinds) /\ b \in [0..n -> Nat] /\ t \in [0..n -> Nat]
  BY DEF Path
<1>2. n \in Nat
  BY <1>1, LenProperties
<1>3. ASSUME NEW k \in 1..n
      PROVE  /\ StepsTo(base, target, w[k], b[k - 1] + 1, t[k - 1] + 1, b[k] + 1, t[k] + 1)
             /\ b[k] \in Nat /\ b[k - 1] \in Nat /\ t[k] \in Nat /\ t[k - 1] \in Nat
  <2>1. k \in 0..n /\ k - 1 \in 0..n
    BY ONLY <1>2, k \in 1..n
  <2> QED BY <1>1, <2>1 DEF Path
<1>4. ASSUME NEW k \in 1..n PROVE b[k - 1] <= b[k] /\ t[k - 1] <= t[k]
  <2>1. b[k] \in Nat /\ b[k - 1] \in Nat /\ t[k] \in Nat /\ t[k - 1] \in Nat
    BY <1>3
  <2>2. /\ b[k] + 1 = b[k - 1] + 1 \/ b[k] + 1 = (b[k - 1] + 1) + 1
        /\ t[k] + 1 = t[k - 1] + 1 \/ t[k] + 1 = (t[k - 1] + 1) + 1
    BY <1>3 DEF StepsTo
  <2> QED BY ONLY <2>1, <2>2
<1>5. ASSUME NEW m \in Nat, \A l \in Nat : l < m => l \in Good PROVE m \in Good
  <2> SUFFICES ASSUME m <= n, NEW k \in 0..m PROVE b[k] <= b[m] /\ t[k] <= t[m]
    OBVIOUS
  <2>1. CASE k = m
    <3>1. m \in 0..n
      BY ONLY <1>2, m \in Nat, m <= n
    <3> QED BY <1>1, <2>1, <3>1
  <2>2. CASE k # m
    <3>1. m \in 1..n /\ m - 1 \in Nat /\ m - 1 < m /\ m - 1 <= n /\ k \in 0..m - 1 /\ k \in 0..n
      BY ONLY <1>2, m \in Nat, m <= n, k \in 0..m, <2>2
    <3>2. m - 1 \in Good
      BY <1>5, <3>1
    <3>3. b[k] <= b[m - 1] /\ t[k] <= t[m - 1]
      BY <3>1, <3>2
    <3>4. b[k] \in Nat /\ t[k] \in Nat
      BY <1>1, <3>1
    <3>5. b[m - 1] <= b[m] /\ t[m - 1] <= t[m]
      BY <1>4, <3>1
    <3>6. b[m] \in Nat /\ b[m - 1] \in Nat /\ t[m] \in Nat /\ t[m - 1] \in Nat
      BY <1>3, <3>1
    <3> QED BY ONLY <3>3, <3>4, <3>5, <3>6
  <2> QED BY <2>1, <2>2
<1>6. Nat \subseteq Good
  <2> HIDE DEF Good
  <2> QED BY <1>5, Induction
<1>7. ASSUME NEW m \in 0..n, NEW k \in 0..m PROVE b[k] <= b[m] /\ t[k] <= t[m]
  <2>1. m \in Nat /\ m <= n
    BY ONLY <1>2, m \in 0..n
  <2>2. m \in Good
    BY <1>6, <2>1
  <2> QED BY <2>1, <2>2
<1>8. ASSUME NEW k \in 1..n, w[k] = "keep"
      PROVE  b[k] = b[k - 1] + 1 /\ t[k] = t[k - 1] + 1 /\ base[b[k]] = target[t[k]]
  <2>1. b[k] + 1 = (b[k - 1] + 1) + 1 /\ t[k] + 1 = (t[k - 1] + 1) + 1 /\ base[b[k - 1] + 1] = target[t[k - 1] + 1]
    BY <1>3, <1>8 DEF StepsTo
  <2>2. b[k] = b[k - 1] + 1 /\ t[k] = t[k - 1] + 1
    BY ONLY <1>3, k \in 1..n, <2>1
  <2> QED BY <2>1, <2>2
<1> QED BY <1>7, <1>8

\* The hunks of one side fit the base, and a kept line is between any two of them.
LEMMA HunksSeparate ==
    ASSUME NEW S, NEW base \in Seq(S), NEW target \in Seq(S)
    PROVE  /\ HunksFit(S, base, Hunks(base, target))
           /\ \A g, h \in Hunks(base, target) : g = h \/ g.end < h.start \/ h.end < g.start
<1> DEFINE w == Walk(base, target)
           n == Len(w)
<1>1. PICK b, t : Path(base, target, 1, 1, w, b, t)
  BY WalkIsPath
<1>2. w \in Seq(Kinds) /\ b \in [0..n -> Nat] /\ t \in [0..n -> Nat] /\ b[n] = Len(base) /\ t[n] = Len(target)
  BY <1>1 DEF Path
<1>3. n \in Nat
  BY <1>2, LenProperties
<1>4. /\ \A m \in 0..n : \A k \in 0..m : b[k] <= b[m] /\ t[k] <= t[m]
      /\ \A k \in 1..n : w[k] = "keep" => b[k] = b[k - 1] + 1
  BY <1>1, PathGrows
<1>5. ASSUME NEW h
      PROVE  h \in Hunks(base, target) <=> \E k, m \in Nat : IsStretch(w, k, m) /\ h = HunkOf(target, b, t, k, m)
  BY <1>1, HunksAre
<1> HIDE DEF w
<1>6. ASSUME NEW k \in Nat, NEW m \in Nat, IsStretch(w, k, m)
      PROVE  /\ k \in 1..n /\ m \in k..n
             /\ \A i \in k..m : w[i] # "keep"
             /\ k = 1 \/ w[k - 1] = "keep"
             /\ m = n \/ w[m + 1] = "keep"
  BY <1>6 DEF IsStretch
<1>7. ASSUME NEW k \in Nat, NEW m \in Nat, IsStretch(w, k, m), NEW h, h = HunkOf(target, b, t, k, m)
      PROVE  h.start \in 0..Len(base) /\ h.end \in h.start..Len(base) /\ h.replacement \in Seq(S)
  <2>1. k - 1 \in 0..n /\ k - 1 \in 0..m /\ m \in 0..n /\ n \in 0..n
    BY ONLY <1>3, <1>6, <1>7
  <2>2. b[k - 1] \in Nat /\ b[m] \in Nat /\ t[k - 1] \in Nat /\ t[m] \in Nat /\ b[n] \in Nat /\ t[n] \in Nat
    BY ONLY <1>2, <2>1
  <2>3. b[k - 1] <= b[m] /\ b[m] <= b[n] /\ t[m] <= t[n]
    BY ONLY <1>4, <2>1
  <2>4. h.start = b[k - 1] /\ h.end = b[m] /\ h.replacement = SubSeq(target, t[k - 1] + 1, t[m])
    BY <1>7 DEF HunkOf
  <2>5. \A i \in t[k - 1] + 1..t[m] : i \in 1..Len(target)
    BY ONLY <1>2, <2>2, <2>3
  <2>6. \A i \in t[k - 1] + 1..t[m] : target[i] \in S
    BY <2>5, ElementOfSeq
  <2>7. t[k - 1] + 1 \in Int /\ t[m] \in Int
    BY ONLY <2>2
  <2>8. SubSeq(target, t[k - 1] + 1, t[m]) \in Seq(S)
    BY ONLY <2>6, <2>7, SubSeqProperties
  <2>9. b[k - 1] \in 0..b[n] /\ b[m] \in b[k - 1]..b[n]
    BY ONLY <2>2, <2>3
  <2>10. b[n] = Len(base)
    BY <1>2
  <2> QED BY ONLY <2>4, <2>8, <2>9, <2>10
<1>8. HunksFit(S, base, Hunks(base, target))
  BY <1>5, <1>7 DEF HunksFit
<1>9. ASSUME NEW k1 \in Nat, NEW m1 \in Nat, IsStretch(w, k1, m1), NEW k2 \in Nat, NEW m2 \in Nat, IsStretch(w, k2, m2), k1 < k2
      PROVE  b[m1] < b[k2 - 1]
  <2>1. k1 \in 1..n /\ k2 \in 1..n /\ m1 \in k1..n
    BY ONLY <1>6, <1>9
  <2>2. k2 # 1
    BY ONLY <1>9, <2>1
  <2>3. w[k2 - 1] = "keep"
    BY ONLY <1>6, <1>9, <2>2
  <2>4. ~(k2 - 1 \in k1..m1)
    BY ONLY <1>6, <1>9, <2>3
  <2>5. m1 \in 0..(k2 - 1) - 1 /\ (k2 - 1) - 1 \in 0..n /\ k2 - 1 \in 1..n /\ k2 - 1 \in 0..n /\ m1 \in 0..n
    BY ONLY <1>3, <2>1, <2>2, <2>4, k1 < k2
  <2>6. b[m1] <= b[(k2 - 1) - 1] /\ b[k2 - 1] = b[(k2 - 1) - 1] + 1
    BY ONLY <1>4, <2>3, <2>5
  <2>7. b[m1] \in Nat /\ b[(k2 - 1) - 1] \in Nat /\ b[k2 - 1] \in Nat
    BY ONLY <1>2, <2>5
  <2> QED BY ONLY <2>6, <2>7
<1>10. ASSUME NEW k \in Nat, NEW m1 \in Nat, IsStretch(w, k, m1), NEW m2 \in Nat, IsStretch(w, k, m2)
       PROVE  ~(m1 < m2)
  <2> SUFFICES ASSUME m1 < m2 PROVE FALSE
    OBVIOUS
  <2>1. k \in 1..n /\ m1 \in k..n /\ m2 \in k..n
    BY ONLY <1>6, <1>10
  <2>2. m1 # n /\ m1 + 1 \in k..m2
    BY ONLY <1>3, <2>1, m1 < m2
  <2>3. w[m1 + 1] = "keep"
    BY ONLY <1>6, <1>10, <2>2
  <2> QED BY ONLY <1>6, <1>10, <2>2, <2>3
<1>11. ASSUME NEW g \in Hunks(base, target), NEW h \in Hunks(base, target)
       PROVE  g = h \/ g.end < h.start \/ h.end < g.start
  <2>1. PICK k1 \in Nat, m1 \in Nat : IsStretch(w, k1, m1) /\ g = HunkOf(target, b, t, k1, m1)
    BY <1>5
  <2>2. PICK k2 \in Nat, m2 \in Nat : IsStretch(w, k2, m2) /\ h = HunkOf(target, b, t, k2, m2)
    BY <1>5
  <2>3. g.start = b[k1 - 1] /\ g.end = b[m1] /\ h.start = b[k2 - 1] /\ h.end = b[m2]
    BY <2>1, <2>2 DEF HunkOf
  <2>4. CASE k1 < k2
    BY ONLY <1>9, <2>1, <2>2, <2>3, <2>4
  <2>5. CASE k2 < k1
    BY ONLY <1>9, <2>1, <2>2, <2>3, <2>5
  <2>6. CASE k1 = k2
    <3>1. m1 = m2
      <4>1. ~(m1 < m2) /\ ~(m2 < m1)
        BY <1>10, <2>1, <2>2, <2>6
      <4> QED BY ONLY <4>1, m1 \in Nat, m2 \in Nat
    <3> QED BY ONLY <2>1, <2>2, <2>6, <3>1
  <2> QED BY ONLY <2>4, <2>5, <2>6, k1 \in Nat, k2 \in Nat
<1> QED BY <1>8, <1>11

\* A hunk as far as its place in the base goes.
Placed(h) == h.start \in Nat /\ h.end \in Nat /\ h.start <= h.end

\* Of two numbers.
LEMMA MaxOfTwo == ASSUME NEW x \in Nat, NEW y \in Nat PROVE Max({x, y}) = IF x >= y THEN x ELSE y
<1> DEFINE z == IF x >= y THEN x ELSE y
<1>1. z \in {x, y} /\ \A v \in {x, y} : z >= v
  OBVIOUS
<1>2. \A u \in {x, y} : (\A v \in {x, y} : u >= v) => u = z
  OBVIOUS
<1> HIDE DEF z
<1>3. Max({x, y}) \in {x, y} /\ \A v \in {x, y} : Max({x, y}) >= v
  BY <1>1 DEF Max
<1> QED BY <1>2, <1>3 DEF z

LEMMA MinOfTwo == ASSUME NEW x \in Nat, NEW y \in Nat PROVE Min({x, y}) = IF x <= y THEN x ELSE y
<1> DEFINE z == IF x <= y THEN x ELSE y
<1>1. z \in {x, y} /\ \A v \in {x, y} : z <= v
  OBVIOUS
<1>2. \A u \in {x, y} : (\A v \in {x, y} : u <= v) => u = z
  OBVIOUS
<1> HIDE DEF z
<1>3. Min({x, y}) \in {x, y} /\ \A v \in {x, y} : Min({x, y}) <= v
  BY <1>1 DEF Min
<1> QED BY <1>2, <1>3 DEF z

\* Two hunks overlap exactly when they start at the same place or one starts
\* inside the other: the rule does not depend on the side.
LEMMA OverlapsIs ==
    ASSUME NEW g, Placed(g), NEW h, Placed(h)
    PROVE  Overlaps(g, h) <=> \/ g.start = h.start
                              \/ g.start < h.start /\ h.start < g.end
                              \/ h.start < g.start /\ g.start < h.end
<1> DEFINE gs == g.start
           ge == g.end
           hs == h.start
           he == h.end
<1>1. gs \in Nat /\ ge \in Nat /\ gs <= ge /\ hs \in Nat /\ he \in Nat /\ hs <= he
  BY DEF Placed
<1>3. Max({gs, hs}) = IF gs >= hs THEN gs ELSE hs
  BY <1>1, MaxOfTwo
<1>4. Min({ge, he}) = IF ge <= he THEN ge ELSE he
  BY <1>1, MinOfTwo
<1>5. CASE gs = ge /\ hs = he
  <2>1. Overlaps(g, h) <=> gs = hs
    BY <1>5, Zenon DEF Overlaps
  <2> QED BY <1>1, <1>5, <2>1
<1>6. CASE gs = ge /\ hs # he
  <2>1. Overlaps(g, h) <=> hs <= gs /\ gs < he
    BY <1>6 DEF Overlaps
  <2> QED BY <1>1, <1>6, <2>1
<1>7. CASE gs # ge /\ hs = he
  <2>1. Overlaps(g, h) <=> gs <= hs /\ hs < ge
    BY <1>7 DEF Overlaps
  <2> QED BY <1>1, <1>7, <2>1
<1>8. CASE gs # ge /\ hs # he
  <2>1. Overlaps(g, h) <=> Max({gs, hs}) < Min({ge, he})
    BY <1>8 DEF Overlaps
  <2> QED BY <1>1, <1>3, <1>4, <1>8, <2>1
<1> QED BY <1>5, <1>6, <1>7, <1>8

\* No two hunks overlap.
Apart(hunks) == \A g, h \in hunks : g = h \/ ~Overlaps(g, h)

\* Before the rest of the base from line i on.
LineThen(base, rest, i) == IF i = Len(base) THEN <<>> ELSE <<base[i + 1]>> \o rest[i + 1]

\* Where no hunk starts the next line of the base follows, where one starts its
\* replacement and then what is behind it.
LEMMA RestIsLine ==
    ASSUME NEW S, NEW base \in Seq(S), NEW hunks, HunksFit(S, base, hunks),
           NEW i \in 0..Len(base), \A h \in hunks : h.start # i
    PROVE  Rest(base, hunks)[i] = LineThen(base, Rest(base, hunks), i)
<1>1. Rest(base, hunks)[i] = StepOf(base, hunks, Rest(base, hunks), i)
  BY RestStep
<1>2. {h \in hunks : h.start = i} = {}
  OBVIOUS
<1>3. StepOf(base, hunks, Rest(base, hunks), i) = LineThen(base, Rest(base, hunks), i)
  BY <1>2 DEF StepOf, LineThen
<1> QED BY <1>1, <1>3

\* What is behind a hunk: an insertion is followed by the line it stands before.
Behind(base, rest, h) == IF h.end = h.start THEN LineThen(base, rest, h.start) ELSE rest[h.end]

\* A hunk puts its replacement before what is behind it: no other starts there.
LEMMA RestIsHunk ==
    ASSUME NEW S, NEW base \in Seq(S), NEW hunks, HunksFit(S, base, hunks), Apart(hunks), NEW h \in hunks
    PROVE  Rest(base, hunks)[h.start] = h.replacement \o Behind(base, Rest(base, hunks), h)
<1> DEFINE R == Rest(base, hunks)
           i == h.start
           at == {g \in hunks : g.start = i}
           c == CHOOSE g \in at : TRUE
<1>1. i \in 0..Len(base)
  BY DEF HunksFit
<1>2. R[i] = StepOf(base, hunks, R, i)
  BY <1>1, RestStep
<1>3. ASSUME NEW g \in hunks PROVE Placed(g)
  <2>1. Len(base) \in Nat
    BY LenProperties
  <2>2. g.start \in 0..Len(base) /\ g.end \in g.start..Len(base)
    BY DEF HunksFit
  <2> QED BY ONLY <2>1, <2>2 DEF Placed
<1>4. at = {h}
  <2>1. ASSUME NEW g \in at PROVE g = h
    <3>1. Placed(g) /\ Placed(h) /\ g.start = h.start
      BY <1>3
    <3>2. Overlaps(g, h)
      BY ONLY <3>1, OverlapsIs
    <3> QED BY <3>2 DEF Apart
  <2> QED BY <2>1
<1>5. c = h
  BY <1>4
<1>6. StepOf(base, hunks, R, i) = c.replacement \o (IF c.end = i THEN LineThen(base, R, i) ELSE R[c.end])
  <2>1. at # {}
    BY <1>4
  <2> HIDE DEF R
  <2> QED BY <2>1 DEF StepOf, LineThen
<1> HIDE DEF c, R
<1> QED BY <1>2, <1>5, <1>6 DEF Behind, R

\* A set of naturals has a least element.
LEMMA Least ==
    ASSUME NEW T, T \subseteq Nat, T # {}
    PROVE  \E x \in T : \A y \in T : x <= y
<1> SUFFICES ASSUME \A x \in T : ~(\A y \in T : x <= y) PROVE FALSE
  OBVIOUS
<1> DEFINE S == Nat \ T
<1>1. ASSUME NEW n \in Nat, \A m \in Nat : m < n => m \in S PROVE n \in S
  BY <1>1
<1>2. Nat \subseteq S
  <2> HIDE DEF S
  <2> QED BY <1>1, Induction
<1> QED BY <1>2

\* The hunks of one side neither overlap.
LEMMA HunksApart ==
    ASSUME NEW S, NEW base \in Seq(S), NEW target \in Seq(S)
    PROVE  /\ Apart(Hunks(base, target))
           /\ \A h \in Hunks(base, target) : Placed(h)
<1>1. Len(base) \in Nat
  BY LenProperties
<1>2. ASSUME NEW h \in Hunks(base, target) PROVE Placed(h)
  <2>1. h.start \in 0..Len(base) /\ h.end \in h.start..Len(base)
    BY HunksSeparate DEF HunksFit
  <2> QED BY ONLY <1>1, <2>1 DEF Placed
<1>3. ASSUME NEW g \in Hunks(base, target), NEW h \in Hunks(base, target), g # h PROVE ~Overlaps(g, h)
  <2>1. g.end < h.start \/ h.end < g.start
    BY <1>3, HunksSeparate
  <2>2. Placed(g) /\ Placed(h)
    BY <1>2
  <2>3. Overlaps(g, h) <=> \/ g.start = h.start
                           \/ g.start < h.start /\ h.start < g.end
                           \/ h.start < g.start /\ g.start < h.end
    BY ONLY <2>2, OverlapsIs
  <2> QED BY ONLY <2>1, <2>2, <2>3 DEF Placed
<1> QED BY <1>2, <1>3 DEF Apart

\* Putting all hunks of a side into the base gives its text.
LEMMA SpliceOfHunks ==
    ASSUME NEW S, NEW base \in Seq(S), NEW target \in Seq(S)
    PROVE  Splice(base, Hunks(base, target)) = target
<1> DEFINE w == Walk(base, target)
           n == Len(w)
           L == Len(target)
           H == Hunks(base, target)
           R == Rest(base, H)
           TargetFrom(k) == SubSeq(target, k + 1, L)
           Boundary(k) == k = 1 \/ w[k - 1] = "keep"
<1>1. PICK b, t : Path(base, target, 1, 1, w, b, t)
  BY WalkIsPath
<1>2. /\ w \in Seq(Kinds) /\ b \in [0..n -> Nat] /\ t \in [0..n -> Nat]
      /\ b[0] = 0 /\ t[0] = 0 /\ b[n] = Len(base) /\ t[n] = L
  BY <1>1 DEF Path
<1>3. n \in Nat /\ L \in Nat /\ Len(base) \in Nat
  BY <1>2, LenProperties
<1>4. \A m \in 0..n : \A k \in 0..m : b[k] <= b[m] /\ t[k] <= t[m]
  BY <1>1, PathGrows
<1>5. \A k \in 1..n : w[k] = "keep" => b[k] = b[k - 1] + 1 /\ t[k] = t[k - 1] + 1 /\ base[b[k]] = target[t[k]]
  BY <1>1, PathGrows
<1>6. ASSUME NEW h
      PROVE  h \in H <=> \E k, m \in Nat : IsStretch(w, k, m) /\ h = HunkOf(target, b, t, k, m)
  BY <1>1, HunksAre
<1>7. HunksFit(S, base, H) /\ Apart(H)
  BY HunksSeparate, HunksApart
<1> HIDE DEF w, H
<1>8. ASSUME NEW k \in Nat, NEW m \in Nat, IsStretch(w, k, m)
      PROVE  /\ k \in 1..n /\ m \in k..n
             /\ \A i \in k..m : w[i] # "keep"
             /\ k = 1 \/ w[k - 1] = "keep"
             /\ m = n \/ w[m + 1] = "keep"
  BY <1>8 DEF IsStretch
\* Two places of the walk that are behind a kept line are apart in the base.
<1>9. ASSUME NEW k1 \in 1..n + 1, NEW k2 \in 1..n + 1, Boundary(k2), k1 < k2 PROVE b[k1 - 1] < b[k2 - 1]
  <2>1. k2 # 1 /\ k2 - 1 \in 1..n /\ k1 - 1 \in 0..(k2 - 1) - 1 /\ (k2 - 1) - 1 \in 0..n /\ k1 - 1 \in 0..n
    BY ONLY <1>3, <1>9
  <2>2. b[k2 - 1] = b[(k2 - 1) - 1] + 1
    BY <1>5, <1>9, <2>1
  <2>3. b[k1 - 1] <= b[(k2 - 1) - 1]
    BY <1>4, <2>1
  <2>4. b[k1 - 1] \in Nat /\ b[(k2 - 1) - 1] \in Nat
    BY <1>2, <2>1
  <2> QED BY ONLY <2>2, <2>3, <2>4
<1>10. ASSUME NEW k \in 1..n + 1, Boundary(k), k = n + 1 \/ w[k] = "keep", NEW h \in H PROVE h.start # b[k - 1]
  <2>1. PICK k1 \in Nat, m1 \in Nat : IsStretch(w, k1, m1) /\ h = HunkOf(target, b, t, k1, m1)
    BY <1>6
  <2>2. h.start = b[k1 - 1]
    BY <2>1 DEF HunkOf
  <2>3. k1 \in 1..n /\ k1 \in 1..n + 1 /\ Boundary(k1)
    BY <1>3, <1>8, <2>1
  <2>4. k1 # k
    <3>1. k1 \in k1..m1
      BY ONLY <1>3, <1>8, <2>1
    <3>2. w[k1] # "keep"
      BY <1>8, <2>1, <3>1
    <3>3. k1 # n + 1
      BY ONLY <1>3, <2>3
    <3> QED BY <1>10, <3>2, <3>3
  <2>5. b[k1 - 1] \in Nat /\ b[k - 1] \in Nat
    <3>1. k1 - 1 \in 0..n /\ k - 1 \in 0..n
      BY ONLY <1>3, <2>3, k \in 1..n + 1
    <3> QED BY <1>2, <3>1
  <2>6. k1 < k \/ k < k1
    BY ONLY <1>3, <2>3, <2>4, k \in 1..n + 1
  <2>7. b[k1 - 1] < b[k - 1] \/ b[k - 1] < b[k1 - 1]
    BY <1>9, <1>10, <2>3, <2>6
  <2> QED BY ONLY <2>2, <2>5, <2>7
<1>11. ASSUME NEW k \in Nat, NEW m \in Nat, IsStretch(w, k, m), b[k - 1] < b[m], NEW h \in H PROVE h.start # b[m]
  <2>1. PICK k1 \in Nat, m1 \in Nat : IsStretch(w, k1, m1) /\ h = HunkOf(target, b, t, k1, m1)
    BY <1>6
  <2>2. h.start = b[k1 - 1]
    BY <2>1 DEF HunkOf
  <2>3. k1 \in 1..n /\ Boundary(k1) /\ k \in 1..n /\ m \in k..n
    BY <1>8, <1>11, <2>1
  <2>4. CASE k1 <= k
    <3>1. k1 - 1 \in 0..k - 1 /\ k - 1 \in 0..n /\ k1 - 1 \in 0..n /\ m \in 0..n
      BY ONLY <1>3, <2>3, <2>4
    <3>2. b[k1 - 1] <= b[k - 1]
      BY <1>4, <3>1
    <3>3. b[k1 - 1] \in Nat /\ b[k - 1] \in Nat /\ b[m] \in Nat
      BY <1>2, <3>1
    <3> QED BY ONLY <1>11, <2>2, <3>2, <3>3
  <2>5. CASE k < k1 /\ k1 <= m + 1
    <3>1. k1 - 1 \in k..m /\ k1 # 1
      BY ONLY <1>3, <2>3, <2>5
    <3>2. w[k1 - 1] # "keep"
      BY <1>8, <1>11, <3>1
    <3> QED BY <2>3, <3>1, <3>2
  <2>6. CASE m + 1 < k1
    <3>1. k1 # 1 /\ k1 - 1 \in 1..n /\ (k1 - 1) - 1 \in 0..n /\ m \in 0..(k1 - 1) - 1 /\ m \in 0..n
      BY ONLY <1>3, <2>3, <2>6
    <3>2. b[k1 - 1] = b[(k1 - 1) - 1] + 1
      BY <1>5, <2>3, <3>1
    <3>3. b[m] <= b[(k1 - 1) - 1]
      BY <1>4, <3>1
    <3>4. b[m] \in Nat /\ b[(k1 - 1) - 1] \in Nat
      BY <1>2, <3>1
    <3> QED BY ONLY <2>2, <3>2, <3>3, <3>4
  <2> QED BY ONLY <1>3, <2>3, <2>4, <2>5, <2>6
\* The line behind a place where the walk keeps one, or the end.
<1>12. ASSUME NEW k \in 0..n, k = n \/ w[k + 1] = "keep",
              k # n => R[b[k + 1]] = TargetFrom(t[k + 1])
       PROVE  LineThen(base, R, b[k]) = TargetFrom(t[k])
  <2>1. CASE k = n
    <3>1. LineThen(base, R, b[k]) = <<>>
      BY <1>2, <2>1 DEF LineThen
    <3>2. TargetFrom(t[k]) = <<>>
      <4>1. t[k] = L /\ L \in Int /\ L + 1 \in Int /\ L < L + 1
        BY <1>2, <1>3, <2>1
      <4> HIDE DEF L
      <4> QED BY ONLY <4>1, SubSeqEmpty
    <3> QED BY <3>1, <3>2
  <2>2. CASE k # n
    <3>1. k + 1 \in 1..n /\ k + 1 \in 0..n /\ (k + 1) - 1 = k /\ k \in 0..n /\ n \in 0..n /\ k + 1 \in 0..n
      BY ONLY <1>3, <2>2, k \in 0..n
    <3>2. b[k + 1] = b[k] + 1 /\ t[k + 1] = t[k] + 1 /\ base[b[k + 1]] = target[t[k + 1]]
      BY <1>5, <1>12, <2>2, <3>1
    <3>3. b[k] \in Nat /\ b[k + 1] \in Nat /\ t[k] \in Nat /\ t[k + 1] \in Nat
      BY <1>2, <3>1
    <3>4. b[k + 1] <= Len(base) /\ t[k + 1] <= L
      BY <1>2, <1>4, <3>1
    <3>5. b[k] # Len(base) /\ t[k + 1] \in 1..L /\ L \in t[k + 1]..L
      BY ONLY <1>3, <3>2, <3>3, <3>4
    <3>6. LineThen(base, R, b[k]) = <<base[b[k] + 1]>> \o R[b[k] + 1]
      BY <3>5 DEF LineThen
    <3>7. LineThen(base, R, b[k]) = <<target[t[k + 1]]>> \o TargetFrom(t[k + 1])
      <4> HIDE DEF R, TargetFrom
      <4> QED BY <1>12, <2>2, <3>2, <3>6
    <3>8. SubSeq(target, t[k + 1], L) = <<target[t[k + 1]]>> \o SubSeq(target, t[k + 1] + 1, L)
      BY <3>5, SubSeqRecursiveFirst
    <3> HIDE DEF R, L
    <3> QED BY <3>2, <3>7, <3>8
  <2> QED BY <2>1, <2>2
<1> DEFINE Right == {l \in Nat : \A k \in 1..n + 1 : n + 1 - k = l /\ Boundary(k) => R[b[k - 1]] = TargetFrom(t[k - 1])}
<1>13. ASSUME NEW l \in Nat, \A x \in Nat : x < l => x \in Right PROVE l \in Right
  <2> SUFFICES ASSUME NEW k \in 1..n + 1, n + 1 - k = l, Boundary(k) PROVE R[b[k - 1]] = TargetFrom(t[k - 1])
    OBVIOUS
  <2> HIDE DEF R, TargetFrom, L
  <2>0. ASSUME NEW k2 \in 1..n + 1, Boundary(k2), k < k2 PROVE R[b[k2 - 1]] = TargetFrom(t[k2 - 1])
    <3>1. n + 1 - k2 \in Nat /\ n + 1 - k2 < l
      BY ONLY <1>3, <2>0, n + 1 - k = l, k \in 1..n + 1
    <3>2. n + 1 - k2 \in Right
      BY <1>13, <3>1
    <3> QED BY <2>0, <3>2
  <2>00. k - 1 \in 0..n
    BY ONLY <1>3, k \in 1..n + 1
  <2>1. CASE k = n + 1 \/ w[k] = "keep"
    <3>1. \A h \in H : h.start # b[k - 1]
      BY <1>10, <2>1
    <3>2. b[k - 1] \in 0..Len(base)
      <4>1. n \in 0..n /\ k - 1 \in 0..n
        BY ONLY <1>3, <2>00
      <4>2. b[k - 1] \in Nat /\ b[k - 1] <= b[n] /\ b[n] = Len(base)
        BY <1>2, <1>4, <4>1
      <4> QED BY ONLY <1>3, <4>2
    <3>3. R[b[k - 1]] = LineThen(base, R, b[k - 1])
      BY <1>7, <3>1, <3>2, RestIsLine DEF R
    <3>4. k - 1 # n => R[b[(k - 1) + 1]] = TargetFrom(t[(k - 1) + 1])
      <4> SUFFICES ASSUME k - 1 # n PROVE R[b[(k - 1) + 1]] = TargetFrom(t[(k - 1) + 1])
        OBVIOUS
      <4>1. k + 1 \in 1..n + 1 /\ k < k + 1 /\ (k + 1) - 1 = k /\ (k - 1) + 1 = k /\ k # n + 1
        BY ONLY <1>3, k \in 1..n + 1, k - 1 # n
      <4>2. Boundary(k + 1)
        BY <2>1, <4>1
      <4>3. R[b[(k + 1) - 1]] = TargetFrom(t[(k + 1) - 1])
        BY <2>0, <4>1, <4>2
      <4> QED BY <4>1, <4>3
    <3>5. k - 1 = n \/ w[(k - 1) + 1] = "keep"
      <4>1. (k - 1) + 1 = k /\ (k = n + 1 => k - 1 = n)
        BY ONLY <1>3, k \in 1..n + 1
      <4> QED BY <2>1, <4>1
    <3>6. LineThen(base, R, b[k - 1]) = TargetFrom(t[k - 1])
      BY <1>12, <2>00, <3>4, <3>5
    <3> QED BY <3>3, <3>6
  <2>2. CASE k # n + 1 /\ w[k] # "keep"
    <3>0. k \in 1..n
      BY ONLY <1>3, <2>2, k \in 1..n + 1
    <3> DEFINE Ends == {m \in k..n : m = n \/ w[m + 1] = "keep"}
    <3>1. PICK m \in Ends : \A y \in Ends : m <= y
      <4>1. n \in Ends
        BY ONLY <1>3, <3>0
      <4>2. Ends \subseteq Nat
        BY ONLY <1>3, <3>0
      <4> HIDE DEF Ends
      <4> QED BY <4>1, <4>2, Least
    <3>2. m \in k..n /\ m \in Nat /\ (m = n \/ w[m + 1] = "keep")
      BY <3>0, <3>1
    <3>3. ASSUME NEW i \in k..m PROVE w[i] # "keep"
      <4>1. CASE i = k
        BY <2>2, <4>1
      <4>2. CASE i # k
        <5>1. i - 1 \in k..n /\ ~(m <= i - 1) /\ (i - 1) + 1 = i
          BY ONLY <1>3, <3>0, <3>2, <4>2, i \in k..m
        <5>2. i - 1 \notin Ends
          BY <3>1, <5>1
        <5> QED BY <5>1, <5>2
      <4> QED BY <4>1, <4>2
    <3>4. IsStretch(w, k, m) /\ k \in Nat
      BY <3>0, <3>2, <3>3 DEF IsStretch
    <3> DEFINE h == HunkOf(target, b, t, k, m)
    <3>5. h \in H
      BY <1>6, <3>2, <3>4
    <3>6. h.start = b[k - 1] /\ h.end = b[m] /\ h.replacement = SubSeq(target, t[k - 1] + 1, t[m])
      BY DEF HunkOf
    <3> HIDE DEF h
    <3>7. R[h.start] = h.replacement \o Behind(base, R, h)
      BY <1>7, <3>5, RestIsHunk DEF R
    <3>8. Behind(base, R, h) = LineThen(base, R, b[m])
      <4>1. CASE h.end = h.start
        BY <3>6, <4>1 DEF Behind
      <4>2. CASE h.end # h.start
        <5>1. k - 1 \in 0..m /\ m \in 0..n /\ k - 1 \in 0..n /\ n \in 0..n
          BY ONLY <1>3, <3>0, <3>2
        <5>2. b[k - 1] <= b[m] /\ b[k - 1] \in Nat /\ b[m] \in Nat /\ b[m] <= b[n]
          BY <1>2, <1>4, <5>1
        <5>3. b[k - 1] < b[m]
          BY ONLY <3>6, <4>2, <5>2
        <5>4. \A g \in H : g.start # b[m]
          BY <1>11, <3>2, <3>4, <5>3
        <5>5. b[m] \in 0..Len(base)
          BY ONLY <1>2, <1>3, <5>2
        <5>6. R[b[m]] = LineThen(base, R, b[m])
          BY <1>7, <5>4, <5>5, RestIsLine DEF R
        <5> QED BY <3>6, <4>2, <5>6 DEF Behind
      <4> QED BY <4>1, <4>2
    <3>9. LineThen(base, R, b[m]) = TargetFrom(t[m])
      <4>1. m # n => R[b[m + 1]] = TargetFrom(t[m + 1])
        <5> SUFFICES ASSUME m # n PROVE R[b[m + 1]] = TargetFrom(t[m + 1])
          OBVIOUS
        <5>1. m + 2 \in 1..n + 1 /\ k < m + 2 /\ (m + 2) - 1 = m + 1
          BY ONLY <1>3, <3>0, <3>2, m # n
        <5>2. Boundary(m + 2)
          BY <3>2, <5>1
        <5>3. R[b[(m + 2) - 1]] = TargetFrom(t[(m + 2) - 1])
          BY <2>0, <5>1, <5>2
        <5> QED BY <5>1, <5>3
      <4>2. m \in 0..n
        BY ONLY <1>3, <3>0, <3>2
      <4> QED BY <1>12, <3>2, <4>1, <4>2
    <3>10. SubSeq(target, t[k - 1] + 1, t[m]) \o SubSeq(target, t[m] + 1, L) = SubSeq(target, t[k - 1] + 1, L)
      <4>1. k - 1 \in 0..m /\ m \in 0..n /\ k - 1 \in 0..n /\ n \in 0..n
        BY ONLY <1>3, <3>0, <3>2
      <4>2. t[k - 1] <= t[m] /\ t[k - 1] \in Nat /\ t[m] \in Nat /\ t[m] <= t[n] /\ t[n] = L
        BY <1>2, <1>4, <4>1
      <4> DEFINE x == t[k - 1]
                 y == t[m]
      <4>3. x \in Nat /\ y \in Nat /\ L \in Nat /\ x <= y /\ y <= L
        BY <4>2, LenProperties DEF L
      <4>4. target \in Seq(S) /\ L = Len(target)
        BY DEF L
      <4> HIDE DEF x, y, L
      <4>5. x + 1 \in 1..L + 1 /\ y \in (x + 1) - 1..L /\ L \in y..L
        BY ONLY <4>3
      <4>6. SubSeq(target, x + 1, y) \o SubSeq(target, y + 1, L) = SubSeq(target, x + 1, L)
        BY ONLY <4>4, <4>5, ConcatAdjacentSubSeq
      <4> QED BY <4>6 DEF x, y
    <3> QED BY <3>6, <3>7, <3>8, <3>9, <3>10 DEF TargetFrom
  <2> QED BY <2>1, <2>2
<1>14. Nat \subseteq Right
  <2> HIDE DEF Right
  <2> QED BY <1>13, Induction
<1>15. R[0] = TargetFrom(0)
  <2>1. 1 \in 1..n + 1 /\ n + 1 - 1 \in Nat /\ 1 - 1 = 0
    BY <1>3
  <2>2. n + 1 - 1 \in Right
    BY <1>14, <2>1
  <2>3. R[b[1 - 1]] = TargetFrom(t[1 - 1])
    <3> HIDE DEF R, TargetFrom
    <3> QED BY <2>1, <2>2
  <2> HIDE DEF R, TargetFrom
  <2> QED BY <1>2, <2>1, <2>3
<1>16. TargetFrom(0) = target
  BY SubSeqFull
<1> QED BY <1>15, <1>16, SpliceIs DEF H

\* Lines are counted text by text.
LEMMA TimesConcat ==
    ASSUME NEW S, NEW s \in Seq(S), NEW t \in Seq(S), NEW line
    PROVE  /\ Times(s, line) \in Nat /\ Times(t, line) \in Nat
           /\ Times(s \o t, line) = Times(s, line) + Times(t, line)
<1> DEFINE m == Len(s)
           n == Len(t)
           A == {i \in 1..m : s[i] = line}
           B == {i \in m + 1..m + n : t[i - m] = line}
           C == {i \in 1..n : t[i] = line}
           f == [i \in C |-> i + m]
<1>1. m \in Nat /\ n \in Nat /\ DOMAIN s = 1..m /\ DOMAIN t = 1..n
  BY LenProperties
<1>2. s \o t \in Seq(S) /\ Len(s \o t) = m + n /\ \A i \in 1..m + n : (s \o t)[i] = IF i <= m THEN s[i] ELSE t[i - m]
  BY ConcatProperties
<1>3. DOMAIN (s \o t) = 1..m + n
  BY <1>2, LenProperties
<1>4. Times(s, line) = Cardinality(A) /\ Times(t, line) = Cardinality(C)
  BY <1>1 DEF Times
<1>5. {i \in DOMAIN (s \o t) : (s \o t)[i] = line} = A \cup B
  <2> DEFINE st == s \o t
  <2> HIDE DEF m, n, st
  <2>1. ASSUME NEW i \in 1..m + n PROVE st[i] = line <=> i \in A \cup B
    <3>1. CASE i <= m
      <4>1. i \in 1..m /\ i \notin m + 1..m + n /\ st[i] = s[i]
        BY <1>1, <1>2, <3>1 DEF st
      <4> QED BY <4>1
    <3>2. CASE ~(i <= m)
      <4>1. i \notin 1..m /\ i \in m + 1..m + n /\ st[i] = t[i - m]
        BY <1>1, <1>2, <3>2 DEF st
      <4> QED BY <4>1
    <3> QED BY <3>1, <3>2
  <2>2. A \cup B \subseteq 1..m + n
    BY <1>1
  <2>3. DOMAIN st = 1..m + n
    BY <1>3 DEF st
  <2> HIDE DEF A, B
  <2>4. {i \in DOMAIN st : st[i] = line} = A \cup B
    BY <2>1, <2>2, <2>3
  <2> QED BY <2>4 DEF st
<1> HIDE DEF m, n
<1>6. IsFiniteSet(A) /\ IsFiniteSet(C)
  <2>1. IsFiniteSet(1..m) /\ IsFiniteSet(1..n)
    BY <1>1, FS_Interval
  <2>2. A \in SUBSET (1..m) /\ C \in SUBSET (1..n)
    OBVIOUS
  <2> QED BY <2>1, <2>2, FS_Subset
<1>7. f \in Bijection(C, B)
  <2>1. f \in [C -> B]
    <3>1. ASSUME NEW i \in C PROVE i + m \in B
      <4>1. i \in 1..n /\ t[i] = line
        OBVIOUS
      <4>2. i + m \in m + 1..m + n /\ (i + m) - m = i
        BY <1>1, <4>1
      <4> QED BY <4>1, <4>2
    <3> QED BY <3>1
  <2>2. ASSUME NEW i \in C, NEW j \in C, f[i] = f[j] PROVE i = j
    <3>1. i + m = j + m /\ i \in Nat /\ j \in Nat
      BY <1>1, <2>2
    <3> QED BY <1>1, <3>1
  <2>3. ASSUME NEW j \in B PROVE \E i \in C : f[i] = j
    <3>1. j \in m + 1..m + n /\ t[j - m] = line
      OBVIOUS
    <3>2. j - m \in 1..n /\ (j - m) + m = j
      BY <1>1, <3>1
    <3>3. j - m \in C
      BY <3>1, <3>2
    <3> QED BY <3>2, <3>3
  <2> HIDE DEF f, C, B
  <2> QED BY <2>1, <2>2, <2>3 DEF Bijection, Injection, Surjection, IsInjective
<1>8. IsFiniteSet(B) /\ Cardinality(B) = Cardinality(C)
  <2>1. ExistsBijection(C, B)
    BY <1>7 DEF ExistsBijection
  <2> HIDE DEF B, C
  <2> QED BY <1>6, <2>1, FS_Bijection
<1>9. A \cap B = {}
  BY <1>1
<1>10. Cardinality(A) \in Nat /\ Cardinality(C) \in Nat
  <2> HIDE DEF A, C
  <2> QED BY <1>6, FS_CardinalityType
<1>11. Cardinality(A \cup B) = Cardinality(A) + Cardinality(B)
  <2> HIDE DEF A, B, C
  <2>1. Cardinality(A \cup B) = Cardinality(A) + Cardinality(B) - Cardinality(A \cap B)
    BY <1>6, <1>8, FS_Union
  <2>2. Cardinality(A \cap B) = 0
    BY <1>9, FS_EmptySet
  <2> QED BY <1>8, <1>10, <2>1, <2>2
<1> HIDE DEF A, B, C
<1>12. Times(s \o t, line) = Cardinality(A \cup B)
  BY <1>5 DEF Times
<1> QED BY <1>4, <1>8, <1>10, <1>11, <1>12

\* Nothing occurs in an empty text.
LEMMA TimesEmpty == \A line : Times(<<>>, line) = 0
<1>1. \A line : {i \in DOMAIN <<>> : <<>>[i] = line} = {}
  OBVIOUS
<1> QED BY <1>1, FS_EmptySet DEF Times

\* Fewer hunks still fit and stay apart.
LEMMA SubsetOfHunks ==
    ASSUME NEW S, NEW base, NEW U, HunksFit(S, base, U), Apart(U), NEW H, H \subseteq U
    PROVE  HunksFit(S, base, H) /\ Apart(H)
BY DEF HunksFit, Apart

\* How often a line occurs in what follows the first i lines of the base.
TimesFrom(base, hunks, i, line) == Times(Rest(base, hunks)[i], line)
TimesThen(base, hunks, i, line) == Times(LineThen(base, Rest(base, hunks), i), line)

\* The same, line by line of the base and hunk by hunk.
RestCounts(base, hunks, line) ==
    /\ \A i \in 0..Len(base) : TimesFrom(base, hunks, i, line) \in Nat /\ TimesThen(base, hunks, i, line) \in Nat
    /\ TimesThen(base, hunks, Len(base), line) = 0
    /\ \A i \in 0..Len(base) : i # Len(base) =>
           /\ Times(<<base[i + 1]>>, line) \in Nat
           /\ TimesThen(base, hunks, i, line) = Times(<<base[i + 1]>>, line) + TimesFrom(base, hunks, i + 1, line)
    /\ \A i \in 0..Len(base) : (\A h \in hunks : h.start # i) =>
           TimesFrom(base, hunks, i, line) = TimesThen(base, hunks, i, line)
    /\ \A h \in hunks :
           /\ Times(h.replacement, line) \in Nat
           /\ TimesFrom(base, hunks, h.start, line) =
                  Times(h.replacement, line) + (IF h.end = h.start THEN TimesThen(base, hunks, h.start, line)
                                                ELSE TimesFrom(base, hunks, h.end, line))

\* These counts are right for hunks that lie apart.
LEMMA TimesOfRest ==
    ASSUME NEW S, NEW base \in Seq(S), NEW hunks, HunksFit(S, base, hunks), Apart(hunks), NEW line
    PROVE  RestCounts(base, hunks, line)
<1> DEFINE n == Len(base)
           R == Rest(base, hunks)
<1>1. n \in Nat
  BY LenProperties
<1>2. R \in [0..n -> Seq(S)]
  BY RestStep
<1>3. ASSUME NEW i \in 0..n, i # n
      PROVE  /\ i + 1 \in 0..n /\ <<base[i + 1]>> \in Seq(S) /\ R[i + 1] \in Seq(S)
             /\ LineThen(base, R, i) = <<base[i + 1]>> \o R[i + 1]
  <2>1. i + 1 \in 0..n /\ i + 1 \in 1..n
    BY ONLY <1>1, <1>3
  <2>2. base[i + 1] \in S
    BY <2>1, ElementOfSeq
  <2>3. R[i + 1] \in Seq(S)
    BY ONLY <1>2, <2>1
  <2> HIDE DEF R
  <2> QED BY <1>3, <2>1, <2>2, <2>3 DEF LineThen
<1>4. ASSUME NEW i \in 0..n PROVE LineThen(base, R, i) \in Seq(S)
  <2>1. CASE i = n
    BY <2>1, EmptySeq DEF LineThen
  <2>2. CASE i # n
    <3> HIDE DEF R
    <3> QED BY <1>3, <2>2, ConcatProperties
  <2> QED BY <2>1, <2>2
<1>5. \A s \in Seq(S) : Times(s, line) \in Nat
  BY TimesConcat
<1>6. ASSUME NEW i \in 0..n PROVE TimesFrom(base, hunks, i, line) \in Nat /\ TimesThen(base, hunks, i, line) \in Nat
  <2>1. R[i] \in Seq(S) /\ LineThen(base, R, i) \in Seq(S)
    BY <1>2, <1>4
  <2> QED BY <1>5, <2>1 DEF TimesFrom, TimesThen
<1>7. TimesThen(base, hunks, n, line) = 0
  BY TimesEmpty DEF TimesThen, LineThen
<1>8. ASSUME NEW i \in 0..n, i # n
      PROVE  /\ Times(<<base[i + 1]>>, line) \in Nat
             /\ TimesThen(base, hunks, i, line) = Times(<<base[i + 1]>>, line) + TimesFrom(base, hunks, i + 1, line)
  <2> HIDE DEF R
  <2> DEFINE s == <<base[i + 1]>>
             u == R[i + 1]
  <2>1. Times(s \o u, line) = Times(s, line) + Times(u, line)
    <3>1. s \in Seq(S) /\ u \in Seq(S)
      BY <1>3, <1>8
    <3> HIDE DEF s, u
    <3> QED BY <3>1, TimesConcat
  <2> QED BY <1>3, <1>5, <1>8, <2>1 DEF TimesThen, TimesFrom, R
<1>9. ASSUME NEW i \in 0..n, \A h \in hunks : h.start # i
      PROVE  TimesFrom(base, hunks, i, line) = TimesThen(base, hunks, i, line)
  BY <1>9, RestIsLine DEF TimesFrom, TimesThen
<1>10. ASSUME NEW h \in hunks
       PROVE  /\ Times(h.replacement, line) \in Nat
              /\ TimesFrom(base, hunks, h.start, line) =
                     Times(h.replacement, line) + (IF h.end = h.start THEN TimesThen(base, hunks, h.start, line)
                                                   ELSE TimesFrom(base, hunks, h.end, line))
  <2>1. h.start \in 0..n /\ h.end \in 0..n /\ h.replacement \in Seq(S)
    <3>1. h.start \in 0..n /\ h.end \in h.start..n /\ h.replacement \in Seq(S)
      BY DEF HunksFit
    <3> QED BY <1>1, <3>1
  <2>2. R[h.start] = h.replacement \o Behind(base, R, h)
    BY RestIsHunk
  <2>3. Behind(base, R, h) \in Seq(S)
    BY <1>2, <1>4, <2>1 DEF Behind
  <2>4. Times(R[h.start], line) = Times(h.replacement, line) + Times(Behind(base, R, h), line)
    BY <2>1, <2>2, <2>3, TimesConcat
  <2> HIDE DEF R
  <2> QED BY <1>5, <2>1, <2>4 DEF Behind, TimesFrom, TimesThen, R
<1> HIDE DEF R
<1> QED BY <1>6, <1>7, <1>8, <1>9, <1>10 DEF RestCounts

\* The hunks of A and those of B put into the base together, and those they
\* share: each line occurs as often as with A and with B one by one.
LEMMA HunksAdd ==
    ASSUME NEW S, NEW base \in Seq(S), NEW A, NEW B, HunksFit(S, base, A \cup B), Apart(A \cup B), NEW line
    PROVE  Times(Splice(base, A \cup B), line) + Times(Splice(base, A \cap B), line) =
               Times(Splice(base, A), line) + Times(Splice(base, B), line)
<1> DEFINE n == Len(base)
           U == A \cup B
           C == A \cap B
           T(H, i) == TimesFrom(base, H, i, line)
           L(H, i) == TimesThen(base, H, i, line)
           One(i) == Times(<<base[i + 1]>>, line)
           Rep(h) == Times(h.replacement, line)
           Clear(H, i, j) == \A h \in H : ~(i <= h.start /\ h.start < j)
<1>1. n \in Nat
  BY LenProperties
<1>2. ASSUME NEW H \in SUBSET U PROVE RestCounts(base, H, line)
  <2>1. HunksFit(S, base, H) /\ Apart(H)
    BY SubsetOfHunks
  <2> QED BY <2>1, TimesOfRest
<1>21. ASSUME NEW H \in SUBSET U, NEW i \in 0..n PROVE T(H, i) \in Nat /\ L(H, i) \in Nat
  BY <1>2 DEF RestCounts
<1>22. ASSUME NEW H \in SUBSET U PROVE L(H, n) = 0
  BY <1>2 DEF RestCounts
<1>23. ASSUME NEW H \in SUBSET U, NEW i \in 0..n, i # n PROVE One(i) \in Nat /\ L(H, i) = One(i) + T(H, i + 1)
  BY <1>2, <1>23 DEF RestCounts
<1>24. ASSUME NEW H \in SUBSET U, NEW i \in 0..n, \A h \in H : h.start # i PROVE T(H, i) = L(H, i)
  BY <1>2, <1>24 DEF RestCounts
<1>25. ASSUME NEW H \in SUBSET U, NEW h \in H
       PROVE  Rep(h) \in Nat /\ T(H, h.start) = Rep(h) + (IF h.end = h.start THEN L(H, h.start) ELSE T(H, h.end))
  BY <1>2 DEF RestCounts
<1>3. \A h \in U : h.start \in 0..n /\ h.end \in h.start..n /\ Placed(h)
  <2>1. \A h \in U : h.start \in 0..n /\ h.end \in h.start..n
    BY DEF HunksFit
  <2> HIDE DEF U
  <2> QED BY <1>1, <2>1 DEF Placed
<1>4. A \in SUBSET U /\ B \in SUBSET U /\ C \in SUBSET U /\ U \in SUBSET U
  OBVIOUS
<1>41. \A h : (h \in U <=> h \in A \/ h \in B) /\ (h \in C <=> h \in A /\ h \in B)
  OBVIOUS
<1>42. Apart(U)
  OBVIOUS
<1> HIDE DEF T, L, One, Rep, n, U, C
\* Where neither has a hunk they go on with the same lines.
<1>5. ASSUME NEW X \in SUBSET U, NEW Y \in SUBSET U, NEW i \in 0..n, NEW j \in i..n, Clear(X, i, j), Clear(Y, i, j)
      PROVE  T(X, i) + T(Y, j) = T(Y, i) + T(X, j)
  <2> DEFINE Good == {k \in Nat : k <= j - i => T(X, j - k) + T(Y, j) = T(Y, j - k) + T(X, j)}
  <2>1. ASSUME NEW k \in Nat, \A m \in Nat : m < k => m \in Good PROVE k \in Good
    <3> SUFFICES ASSUME k <= j - i PROVE T(X, j - k) + T(Y, j) = T(Y, j - k) + T(X, j)
      OBVIOUS
    <3>1. CASE k = 0
      <4>1. j - k = j /\ j \in 0..n
        BY ONLY <1>1, <3>1, i \in 0..n, j \in i..n
      <4>2. T(X, j) \in Nat /\ T(Y, j) \in Nat
        BY <1>21, <1>22, <1>23, <1>24, <1>25, <4>1
      <4> QED BY ONLY <4>1, <4>2
    <3>2. CASE k # 0
      <4> DEFINE l == j - k
      <4>1. l \in 0..n /\ l # n /\ i <= l /\ l < j /\ l + 1 = j - (k - 1) /\ k - 1 \in Nat /\ k - 1 < k /\ k - 1 <= j - i /\ l + 1 \in 0..n /\ j \in 0..n
        BY ONLY <1>1, <3>2, i \in 0..n, j \in i..n, k \in Nat, k <= j - i
      <4>2. k - 1 \in Good
        BY <2>1, <4>1
      <4> HIDE DEF l
      <4>3. T(X, l + 1) + T(Y, j) = T(Y, l + 1) + T(X, j)
        BY <4>1, <4>2
      <4>4. (\A h \in X : h.start # l) /\ (\A h \in Y : h.start # l)
        BY <1>5, <4>1
      <4>5. T(X, l) = One(l) + T(X, l + 1) /\ T(Y, l) = One(l) + T(Y, l + 1) /\ One(l) \in Nat
        BY <1>21, <1>22, <1>23, <1>24, <1>25, <4>1, <4>4
      <4>6. T(X, l + 1) \in Nat /\ T(Y, l + 1) \in Nat /\ T(X, j) \in Nat /\ T(Y, j) \in Nat
        BY <1>21, <1>22, <1>23, <1>24, <1>25, <4>1
      <4>7. T(X, l) + T(Y, j) = T(Y, l) + T(X, j)
        BY ONLY <4>3, <4>5, <4>6
      <4> QED BY <4>7 DEF l
    <3> QED BY <3>1, <3>2
  <2>2. Nat \subseteq Good
    <3> HIDE DEF Good
    <3> QED BY <2>1, Induction
  <2>3. j - i \in Nat /\ j - (j - i) = i
    BY ONLY <1>1, i \in 0..n, j \in i..n
  <2>4. j - i \in Good
    BY <2>2, <2>3
  <2> QED BY <2>3, <2>4
<1> DEFINE Adds(i) == T(U, i) + T(C, i) = T(A, i) + T(B, i)
           Good == {k \in Nat : k <= n => Adds(n - k)}
\* A hunk of X that is not in Y.
<1>6. ASSUME NEW X \in SUBSET U, NEW Y \in SUBSET U, NEW h \in X, h \notin Y, h.end # h.start
      PROVE  Clear(Y, h.start, h.end)
  <2> SUFFICES ASSUME NEW g \in Y, h.start <= g.start, g.start < h.end PROVE FALSE
    OBVIOUS
  <2>1. g \in U /\ h \in U /\ g # h /\ Placed(g) /\ Placed(h)
    BY <1>3, <1>6
  <2>2. Overlaps(g, h)
    <3>1. Overlaps(g, h) <=> \/ g.start = h.start
                             \/ g.start < h.start /\ h.start < g.end
                             \/ h.start < g.start /\ g.start < h.end
      BY ONLY <2>1, OverlapsIs
    <3> QED BY <2>1, <3>1 DEF Placed
  <2> QED BY <1>42, <2>1, <2>2 DEF Apart
<1>7. ASSUME NEW X \in SUBSET U, NEW Y \in SUBSET U, NEW h \in X, h \notin Y
      PROVE  \A g \in Y : g.start # h.start
  <2> SUFFICES ASSUME NEW g \in Y, g.start = h.start PROVE FALSE
    OBVIOUS
  <2>1. g \in U /\ h \in U /\ g # h /\ Placed(g) /\ Placed(h)
    BY <1>3, <1>7
  <2>2. Overlaps(g, h)
    BY <2>1, OverlapsIs
  <2> QED BY <1>42, <2>1, <2>2 DEF Apart
\* X has a hunk at i that Y does not have, and U has it as well.
<1>8. ASSUME NEW i \in 0..n, \A j \in 0..n : i < j => Adds(j),
             NEW X \in SUBSET U, NEW Y \in SUBSET U, \A j \in 0..n : Adds(j) <=> T(U, j) + T(C, j) = T(X, j) + T(Y, j),
             C \subseteq Y, NEW h \in X, h \notin Y, h.start = i
      PROVE  Adds(i)
  <2>0. h \in U /\ h \notin C
    BY <1>8
  <2>00. ASSUME NEW j \in 0..n
         PROVE  /\ T(U, j) \in Nat /\ T(C, j) \in Nat /\ T(X, j) \in Nat /\ T(Y, j) \in Nat
                /\ L(U, j) \in Nat /\ L(C, j) \in Nat /\ L(X, j) \in Nat /\ L(Y, j) \in Nat
    BY <1>4, <1>21
  <2>1. h.end \in i..n
    BY <1>3, <1>8, <2>0
  <2>2. CASE h.end = i
    <3>1. T(U, i) = Rep(h) + L(U, i) /\ T(X, i) = Rep(h) + L(X, i) /\ Rep(h) \in Nat
      BY <1>4, <1>25, <1>8, <2>0, <2>2
    <3>2. T(Y, i) = L(Y, i) /\ T(C, i) = L(C, i)
      <4>1. (\A g \in Y : g.start # i) /\ (\A g \in C : g.start # i)
        BY <1>4, <1>7, <1>8, <2>0
      <4> QED BY <1>4, <1>24, <4>1
    <3>3. L(U, i) + L(C, i) = L(X, i) + L(Y, i)
      <4>1. CASE i = n
        BY <1>22, <1>4, <4>1
      <4>2. CASE i # n
        <5>1. i + 1 \in 0..n /\ i < i + 1
          BY ONLY <1>1, <4>2, i \in 0..n
        <5>2. T(U, i + 1) + T(C, i + 1) = T(X, i + 1) + T(Y, i + 1)
          BY <1>8, <5>1
        <5>3. One(i) \in Nat /\ L(U, i) = One(i) + T(U, i + 1) /\ L(C, i) = One(i) + T(C, i + 1)
              /\ L(X, i) = One(i) + T(X, i + 1) /\ L(Y, i) = One(i) + T(Y, i + 1)
          BY <1>21, <1>22, <1>23, <1>24, <1>25, <1>4, <4>2
        <5>4. T(U, i + 1) \in Nat /\ T(C, i + 1) \in Nat /\ T(X, i + 1) \in Nat /\ T(Y, i + 1) \in Nat
          BY <1>21, <1>22, <1>23, <1>24, <1>25, <1>4, <5>1
        <5> DEFINE o == One(i)
                   u == T(U, i + 1)
                   c == T(C, i + 1)
                   x == T(X, i + 1)
                   y == T(Y, i + 1)
        <5>5. o \in Nat /\ u \in Nat /\ c \in Nat /\ x \in Nat /\ y \in Nat /\ u + c = x + y
          BY <5>2, <5>3, <5>4
        <5>6. L(U, i) = o + u /\ L(C, i) = o + c /\ L(X, i) = o + x /\ L(Y, i) = o + y
          BY <5>3
        <5> HIDE DEF o, u, c, x, y
        <5>7. (o + u) + (o + c) = (o + x) + (o + y)
          BY ONLY <5>5
        <5> QED BY ONLY <5>6, <5>7
      <4> QED BY <4>1, <4>2
    <3>4. T(U, i) + T(C, i) = T(X, i) + T(Y, i)
      <4>1. L(U, i) \in Nat /\ L(C, i) \in Nat /\ L(X, i) \in Nat /\ L(Y, i) \in Nat
        BY <2>00
      <4>2. (Rep(h) + L(U, i)) + L(C, i) = (Rep(h) + L(X, i)) + L(Y, i)
        <5> DEFINE r == Rep(h)
                   u == L(U, i)
                   c == L(C, i)
                   x == L(X, i)
                   y == L(Y, i)
        <5>1. r \in Nat /\ u \in Nat /\ c \in Nat /\ x \in Nat /\ y \in Nat /\ u + c = x + y
          BY <3>1, <3>3, <4>1
        <5> HIDE DEF r, u, c, x, y
        <5>2. (r + u) + c = (r + x) + y
          BY ONLY <5>1
        <5> QED BY <5>2 DEF r, u, c, x, y
      <4> QED BY <3>1, <3>2, <4>2
    <3> QED BY <1>8, <3>4
  <2>3. CASE h.end # i
    <3> DEFINE j == h.end
    <3>1. j \in 0..n /\ i < j /\ j \in i..n
      BY ONLY <1>1, <2>1, <2>3, i \in 0..n
    <3>2. T(U, i) = Rep(h) + T(U, j) /\ T(X, i) = Rep(h) + T(X, j) /\ Rep(h) \in Nat
      BY <1>21, <1>22, <1>23, <1>24, <1>25, <1>4, <1>8, <2>0, <2>3
    <3>3. Clear(Y, i, j) /\ Clear(C, i, j)
      <4>1. Clear(Y, i, j)
        BY <1>6, <1>8, <2>3
      <4> QED BY <1>8, <4>1
    <3> HIDE DEF j
    <3>4. T(Y, i) + T(C, j) = T(C, i) + T(Y, j)
      BY ONLY <1>4, <1>5, <3>1, <3>3, Y \in SUBSET U, i \in 0..n
    <3>5. T(U, j) + T(C, j) = T(X, j) + T(Y, j)
      BY <1>8, <3>1
    <3>6. T(U, j) \in Nat /\ T(C, j) \in Nat /\ T(X, j) \in Nat /\ T(Y, j) \in Nat /\ T(Y, i) \in Nat /\ T(C, i) \in Nat
      BY <1>21, <1>22, <1>23, <1>24, <1>25, <1>4, <3>1
    <3>7. T(U, i) + T(C, i) = T(X, i) + T(Y, i)
      <4>1. (Rep(h) + T(U, j)) + T(C, i) = (Rep(h) + T(X, j)) + T(Y, i)
        <5> DEFINE r == Rep(h)
                   u == T(U, j)
                   c == T(C, j)
                   x == T(X, j)
                   y == T(Y, j)
                   c2 == T(C, i)
                   y2 == T(Y, i)
        <5>1. /\ r \in Nat /\ u \in Nat /\ c \in Nat /\ x \in Nat /\ y \in Nat /\ c2 \in Nat /\ y2 \in Nat
              /\ u + c = x + y /\ y2 + c = c2 + y
          BY <3>2, <3>4, <3>5, <3>6
        <5> HIDE DEF r, u, c, x, y, c2, y2
        <5>2. (r + u) + c2 = (r + x) + y2
          BY ONLY <5>1
        <5> QED BY <5>2 DEF r, u, c, x, y, c2, y2
      <4> QED BY <3>2, <4>1
    <3> QED BY <1>8, <3>7
  <2> QED BY <2>2, <2>3
<1>9. ASSUME NEW i \in 0..n, \A j \in 0..n : i < j => Adds(j) PROVE Adds(i)
  <2>0. ASSUME NEW j \in 0..n
        PROVE  /\ T(U, j) \in Nat /\ T(C, j) \in Nat /\ T(A, j) \in Nat /\ T(B, j) \in Nat
               /\ L(U, j) \in Nat /\ L(C, j) \in Nat /\ L(A, j) \in Nat /\ L(B, j) \in Nat
    BY <1>21, <1>4
  <2>1. L(U, i) + L(C, i) = L(A, i) + L(B, i)
    <3>1. CASE i = n
      BY <1>22, <1>4, <3>1
    <3>2. CASE i # n
      <4>1. i + 1 \in 0..n /\ i < i + 1
        BY ONLY <1>1, <3>2, i \in 0..n
      <4>2. T(U, i + 1) + T(C, i + 1) = T(A, i + 1) + T(B, i + 1)
        BY <1>9, <4>1
      <4>3. One(i) \in Nat /\ L(U, i) = One(i) + T(U, i + 1) /\ L(C, i) = One(i) + T(C, i + 1)
            /\ L(A, i) = One(i) + T(A, i + 1) /\ L(B, i) = One(i) + T(B, i + 1)
        BY <1>21, <1>22, <1>23, <1>24, <1>25, <1>4, <3>2
      <4>4. T(U, i + 1) \in Nat /\ T(C, i + 1) \in Nat /\ T(A, i + 1) \in Nat /\ T(B, i + 1) \in Nat
        BY <2>0, <4>1
      <4> DEFINE o == One(i)
                 u == T(U, i + 1)
                 c == T(C, i + 1)
                 x == T(A, i + 1)
                 y == T(B, i + 1)
      <4>5. o \in Nat /\ u \in Nat /\ c \in Nat /\ x \in Nat /\ y \in Nat /\ u + c = x + y
        BY <4>2, <4>3, <4>4
      <4>6. L(U, i) = o + u /\ L(C, i) = o + c /\ L(A, i) = o + x /\ L(B, i) = o + y
        BY <4>2, <4>3, <4>4
      <4> HIDE DEF o, u, c, x, y
      <4>7. (o + u) + (o + c) = (o + x) + (o + y)
        BY ONLY <4>5
      <4> QED BY ONLY <4>6, <4>7
    <3> QED BY <3>1, <3>2
  <2>2. CASE \A h \in U : h.start # i
    <3>1. T(U, i) = L(U, i) /\ T(C, i) = L(C, i) /\ T(A, i) = L(A, i) /\ T(B, i) = L(B, i)
      BY <1>21, <1>22, <1>23, <1>24, <1>25, <1>4, <2>2
    <3> QED BY <2>1, <3>1
  <2>3. ASSUME NEW h \in C, h.start = i PROVE Adds(i)
    <3>1. h.end \in i..n /\ h \in U /\ h \in A /\ h \in B
      BY <1>3, <1>41, <2>3
    <3>2. CASE h.end = i
      <4>1. T(U, i) = Rep(h) + L(U, i) /\ T(C, i) = Rep(h) + L(C, i)
            /\ T(A, i) = Rep(h) + L(A, i) /\ T(B, i) = Rep(h) + L(B, i) /\ Rep(h) \in Nat
        BY <1>21, <1>22, <1>23, <1>24, <1>25, <1>4, <2>3, <3>1, <3>2
      <4>2. L(U, i) \in Nat /\ L(C, i) \in Nat /\ L(A, i) \in Nat /\ L(B, i) \in Nat
        BY <2>0
      <4> DEFINE o == Rep(h)
                 u == L(U, i)
                 c == L(C, i)
                 x == L(A, i)
                 y == L(B, i)
      <4>3. o \in Nat /\ u \in Nat /\ c \in Nat /\ x \in Nat /\ y \in Nat /\ u + c = x + y
        BY <2>1, <4>1, <4>2
      <4>4. T(U, i) = o + u /\ T(C, i) = o + c /\ T(A, i) = o + x /\ T(B, i) = o + y
        BY <2>1, <4>1, <4>2
      <4> HIDE DEF o, u, c, x, y
      <4>5. (o + u) + (o + c) = (o + x) + (o + y)
        BY ONLY <4>3
      <4>6. T(U, i) + T(C, i) = T(A, i) + T(B, i)
        BY ONLY <4>4, <4>5
      <4> QED BY <4>6
    <3>3. CASE h.end # i
      <4> DEFINE j == h.end
      <4>1. j \in 0..n /\ i < j
        BY ONLY <1>1, <3>1, <3>3, i \in 0..n
      <4>2. T(U, i) = Rep(h) + T(U, j) /\ T(C, i) = Rep(h) + T(C, j)
            /\ T(A, i) = Rep(h) + T(A, j) /\ T(B, i) = Rep(h) + T(B, j) /\ Rep(h) \in Nat
        BY <1>21, <1>22, <1>23, <1>24, <1>25, <1>4, <2>3, <3>1, <3>3
      <4> HIDE DEF j
      <4>3. Adds(j)
        BY <1>9, <4>1
      <4>4. T(U, j) \in Nat /\ T(C, j) \in Nat /\ T(A, j) \in Nat /\ T(B, j) \in Nat
        BY <2>0, <4>1
      <4>5. T(U, j) + T(C, j) = T(A, j) + T(B, j)
        BY <4>3
      <4> DEFINE o == Rep(h)
                 u == T(U, j)
                 c == T(C, j)
                 x == T(A, j)
                 y == T(B, j)
      <4>6. o \in Nat /\ u \in Nat /\ c \in Nat /\ x \in Nat /\ y \in Nat /\ u + c = x + y
        BY <4>2, <4>4, <4>5
      <4>7. T(U, i) = o + u /\ T(C, i) = o + c /\ T(A, i) = o + x /\ T(B, i) = o + y
        BY <4>2, <4>4, <4>5
      <4> HIDE DEF o, u, c, x, y
      <4>8. (o + u) + (o + c) = (o + x) + (o + y)
        BY ONLY <4>6
      <4>9. T(U, i) + T(C, i) = T(A, i) + T(B, i)
        BY ONLY <4>7, <4>8
      <4> QED BY <4>9
    <3> QED BY <3>2, <3>3
  <2>4. ASSUME NEW h \in A, h \notin B, h.start = i PROVE Adds(i)
    <3>1. C \subseteq B
      BY <1>41
    <3>2. \A j \in 0..n : Adds(j) <=> T(U, j) + T(C, j) = T(A, j) + T(B, j)
      OBVIOUS
    <3> HIDE DEF Adds
    <3> QED BY <1>4, <1>8, <1>9, <2>4, <3>1, <3>2
  <2>5. ASSUME NEW h \in B, h \notin A, h.start = i PROVE Adds(i)
    <3>1. C \subseteq A
      BY <1>41
    <3>2. \A j \in 0..n : Adds(j) <=> T(U, j) + T(C, j) = T(B, j) + T(A, j)
      <4> TAKE j \in 0..n
      <4>1. T(A, j) \in Nat /\ T(B, j) \in Nat
        BY <2>0
      <4>2. T(A, j) + T(B, j) = T(B, j) + T(A, j)
        BY ONLY <4>1
      <4> QED BY ONLY <4>2
    <3> HIDE DEF Adds
    <3> QED BY <1>4, <1>8, <1>9, <2>5, <3>1, <3>2
  <2> HIDE DEF Adds
  <2> QED BY <1>41, <2>2, <2>3, <2>4, <2>5
<1>10. ASSUME NEW k \in Nat, \A m \in Nat : m < k => m \in Good PROVE k \in Good
  <2> SUFFICES ASSUME k <= n PROVE Adds(n - k)
    OBVIOUS
  <2>1. n - k \in 0..n
    BY ONLY <1>1, k \in Nat, k <= n
  <2>2. ASSUME NEW j \in 0..n, n - k < j PROVE Adds(j)
    <3>1. n - j \in Nat /\ n - j < k /\ n - j <= n /\ n - (n - j) = j
      BY ONLY <1>1, <2>2, k \in Nat
    <3>2. n - j \in Good
      BY <1>10, <3>1
    <3> HIDE DEF Adds
    <3> QED BY <3>1, <3>2
  <2> HIDE DEF Adds
  <2> QED BY <1>9, <2>1, <2>2
<1>11. Nat \subseteq Good
  <2> HIDE DEF Good
  <2> QED BY <1>10, Induction
<1>12. Adds(0)
  <2>1. n \in Nat /\ n <= n /\ n - n = 0
    BY <1>1
  <2>2. n \in Good
    BY <1>11, <2>1
  <2> HIDE DEF Adds
  <2> QED BY <2>1, <2>2
<1> QED BY <1>12, SpliceIs DEF T, TimesFrom, U, C

-----------------------------------------------------------------------------
(* Join. *)

\* Lines of words from W.
LinesFrom(W) == [ words : Seq(W), newline : BOOLEAN ]

\* The parts of Join: a text whose end runs on, the line put behind it, one step.
RunsInto(text) == text # <<>> /\ ~Last(text).newline

RunOn(text, line) ==
    Append(Front(text), [ words |-> Last(text).words \o line.words, newline |-> line.newline ])

JoinedStep(lines, joined, n) ==
    IF n = 0 THEN <<>>
    ELSE IF RunsInto(joined[n - 1]) THEN RunOn(joined[n - 1], lines[n])
    ELSE Append(joined[n - 1], lines[n])

Joined(lines) ==
    LET RunsIntoNext(text) == text # <<>> /\ ~Last(text).newline
        joined[n \in 0..Len(lines)] ==
            IF n = 0 THEN <<>>
            ELSE LET text == joined[n - 1]
                     line == lines[n]
                 IN  IF RunsIntoNext(text)
                     THEN Append(Front(text), [ words |-> Last(text).words \o line.words, newline |-> line.newline ])
                     ELSE Append(text, line)
    IN  joined

\* Join is the last value of a recursive function that solves its equation.
LEMMA JoinIs == ASSUME NEW lines PROVE Join(lines) = Joined(lines)[Len(lines)]
BY DEF Join, Joined

LEMMA JoinedIs ==
    ASSUME NEW lines, \E f : f = [n \in 0..Len(lines) |-> JoinedStep(lines, f, n)]
    PROVE  Joined(lines) = [n \in 0..Len(lines) |-> JoinedStep(lines, Joined(lines), n)]
<1>1. Joined(lines) = CHOOSE f : f = [n \in 0..Len(lines) |-> JoinedStep(lines, f, n)]
  BY DEF Joined, JoinedStep, RunsInto, RunOn
<1> QED BY <1>1, Zenon

\* One more line gives a text.
LEMMA RunOnType ==
    ASSUME NEW W, NEW text \in Seq(LinesFrom(W)), text # <<>>, NEW line \in LinesFrom(W)
    PROVE  /\ RunOn(text, line) \in Seq(LinesFrom(W))
           /\ Len(RunOn(text, line)) = Len(text)
           /\ \A i \in 1..Len(text) : i # Len(text) => RunOn(text, line)[i] = text[i]
           /\ Len(RunOn(text, line)[Len(text)].words) = Len(text[Len(text)].words) + Len(line.words)
<1> DEFINE S == LinesFrom(W)
           n == Len(text)
           front == Front(text)
           last == [ words |-> Last(text).words \o line.words, newline |-> line.newline ]
<1>1. n \in Nat /\ n # 0
  BY EmptySeq
<1>2. text[n] \in S /\ Last(text) = text[n]
  <2>1. n \in 1..n
    BY ONLY <1>1
  <2> QED BY <2>1, ElementOfSeq DEF Last
<1>3. text[n].words \in Seq(W) /\ line.words \in Seq(W) /\ line.newline \in BOOLEAN
  BY <1>2 DEF LinesFrom
<1>4. Last(text).words \o line.words \in Seq(W) /\ Len(Last(text).words \o line.words) = Len(text[n].words) + Len(line.words)
  BY <1>2, <1>3, ConcatProperties
<1>5. last \in S
  BY <1>3, <1>4 DEF LinesFrom
<1>6. front \in Seq(S) /\ Len(front) = n - 1 /\ \A i \in 1..n - 1 : front[i] = text[i]
  <2>1. front = SubSeq(text, 1, n - 1)
    BY DEF Front
  <2>2. \A i \in 1..n - 1 : i \in 1..n
    BY ONLY <1>1
  <2>3. \A i \in 1..n - 1 : text[i] \in S
    BY <2>2, ElementOfSeq
  <2>4. 1 \in Int /\ n - 1 \in Int
    BY ONLY <1>1
  <2> DEFINE m == n - 1
  <2>5. \A i \in 1..m : text[i] \in S
    BY <2>3
  <2>6. m \in Int
    BY <2>4
  <2> HIDE DEF m, n, S
  <2>7. /\ SubSeq(text, 1, m) \in Seq(S)
        /\ Len(SubSeq(text, 1, m)) = (IF 1 <= m THEN m - 1 + 1 ELSE 0)
        /\ \A i \in 1..m - 1 + 1 : SubSeq(text, 1, m)[i] = text[1 + i - 1]
    BY ONLY <2>4, <2>5, <2>6, SubSeqProperties
  <2>8. m \in Nat /\ m - 1 + 1 = m /\ (\A i \in 1..m : 1 + i - 1 = i) /\ (IF 1 <= m THEN m - 1 + 1 ELSE 0) = m
    <3>1. m \in Nat
      BY ONLY <1>1 DEF m
    <3> QED BY ONLY <3>1
  <2>9. SubSeq(text, 1, m) \in Seq(S) /\ Len(SubSeq(text, 1, m)) = m /\ \A i \in 1..m : SubSeq(text, 1, m)[i] = text[i]
    BY ONLY <2>7, <2>8
  <2> QED BY <2>1, <2>9 DEF m
<1> HIDE DEF front, last, S, n
<1>7. RunOn(text, line) = Append(front, last)
  BY DEF RunOn, front, last
<1>8. /\ Append(front, last) \in Seq(S)
      /\ Len(Append(front, last)) = Len(front) + 1
      /\ \A i \in 1..Len(front) : Append(front, last)[i] = front[i]
      /\ Append(front, last)[Len(front) + 1] = last
  BY ONLY <1>5, <1>6, AppendProperties
<1>9. Len(front) + 1 = n /\ \A i \in 1..n : i # n => i \in 1..Len(front) /\ i \in 1..n - 1
  BY ONLY <1>1, <1>6
<1>10. Len(last.words) = Len(text[n].words) + Len(line.words)
  BY <1>4 DEF last
<1> QED BY <1>6, <1>7, <1>8, <1>9, <1>10 DEF S, n

\* The lines joined so far.
LEMMA JoinedStepIs ==
    ASSUME NEW W, NEW lines \in Seq(LinesFrom(W))
    PROVE  /\ Joined(lines) \in [0..Len(lines) -> Seq(LinesFrom(W))]
           /\ \A n \in 0..Len(lines) : Joined(lines)[n] = JoinedStep(lines, Joined(lines), n)
<1> DEFINE L == Len(lines)
           S == LinesFrom(W)
           I == 0..L
           D == Seq(S)
           mu == [n \in I |-> n]
           G == [xf \in I \X [I -> D] |-> JoinedStep(lines, xf[2], xf[1])]
<1>0. L \in Nat
  BY LenProperties
<1>1. ASSUME NEW n \in I, n # 0 PROVE n - 1 \in I /\ n - 1 < n /\ lines[n] \in S
  <2>1. n \in 1..L /\ n - 1 \in I /\ n - 1 < n
    BY ONLY <1>0, <1>1
  <2> QED BY <2>1, ElementOfSeq
<1>2. <<>> \in D
  BY EmptySeq
<1>3. ASSUME NEW n \in I, NEW f, n # 0 => f[n - 1] \in D PROVE JoinedStep(lines, f, n) \in D
  <2>1. CASE n = 0
    BY <1>2, <2>1 DEF JoinedStep
  <2>2. CASE n # 0
    <3>1. f[n - 1] \in D /\ lines[n] \in S
      BY <1>1, <1>3, <2>2
    <3>2. RunsInto(f[n - 1]) => RunOn(f[n - 1], lines[n]) \in D
      BY <3>1, RunOnType DEF RunsInto
    <3>3. Append(f[n - 1], lines[n]) \in D
      BY <3>1, AppendProperties
    <3> HIDE DEF D
    <3> QED BY <2>2, <3>2, <3>3 DEF JoinedStep
  <2> QED BY <2>1, <2>2
<1>4. ASSUME NEW n \in I, NEW f, NEW g, n # 0 => f[n - 1] = g[n - 1] PROVE JoinedStep(lines, f, n) = JoinedStep(lines, g, n)
  BY <1>4 DEF JoinedStep
<1>5. WellDefined(G, I, D, mu, L + 1)
  <2>1. mu \in [I -> Nat] /\ L + 1 \in Nat /\ \A n \in I : mu[n] < L + 1
    BY <1>0
  <2>2. G \in [I \X [I -> D] -> D]
    <3>1. ASSUME NEW n \in I, NEW f \in [I -> D] PROVE JoinedStep(lines, f, n) \in D
      <4>1. n # 0 => f[n - 1] \in D
        BY <1>1
      <4> HIDE DEF I, D
      <4> QED BY <1>3, <4>1
    <3> HIDE DEF I, D
    <3> QED BY <3>1
  <2>3. ASSUME NEW n \in I, NEW f \in [I -> D], NEW g \in [I -> D], \A y \in I : mu[y] < mu[n] => f[y] = g[y]
        PROVE  G[<<n, f>>] = G[<<n, g>>]
    <3>1. n # 0 => f[n - 1] = g[n - 1]
      BY <1>1, <2>3
    <3>2. JoinedStep(lines, f, n) = JoinedStep(lines, g, n)
      BY <1>4, <3>1
    <3> HIDE DEF I, D
    <3> QED BY <3>2
  <2>4. D # {}
    BY <1>2
  <2> HIDE DEF G, I, D, mu, L
  <2> QED BY <2>1, <2>2, <2>3, <2>4 DEF WellDefined
<1>6. Solvable(G, I, D)
  BY <1>5, Recursion
<1>7. PICK f \in [I -> D] : f = [x \in I |-> G[<<x, f>>]]
  BY <1>6 DEF Solvable
<1>8. f = [n \in I |-> JoinedStep(lines, f, n)]
  <2>1. \A x \in I : G[<<x, f>>] = JoinedStep(lines, f, x)
    <3> HIDE DEF I, D
    <3> QED OBVIOUS
  <2> HIDE DEF G, I, D
  <2> QED BY <1>7, <2>1
<1> DEFINE J == Joined(lines)
<1>9. J = [n \in I |-> JoinedStep(lines, J, n)]
  BY <1>8, JoinedIs
<1> HIDE DEF J
<1>10. \A n \in I : J[n] = JoinedStep(lines, J, n)
  BY <1>9
<1> DEFINE Good == {n \in Nat : n <= L => J[n] \in D}
<1>11. ASSUME NEW n \in Nat, \A m \in Nat : m < n => m \in Good PROVE n \in Good
  <2> SUFFICES ASSUME n <= L PROVE J[n] \in D
    OBVIOUS
  <2>1. n \in I
    BY ONLY <1>0, n \in Nat, n <= L
  <2>2. ASSUME n # 0 PROVE J[n - 1] \in D
    <3>1. n - 1 \in Nat /\ n - 1 < n /\ n - 1 <= L
      BY ONLY <1>0, <2>2, n \in Nat, n <= L
    <3>2. n - 1 \in Good
      BY <1>11, <3>1
    <3> QED BY <3>1, <3>2
  <2> HIDE DEF D, I
  <2> QED BY <1>3, <1>10, <2>1, <2>2
<1>12. Nat \subseteq Good
  <2> HIDE DEF Good
  <2> QED BY <1>11, Induction
<1>13. ASSUME NEW n \in I PROVE J[n] \in D
  <2>1. n \in Nat /\ n <= L
    BY <1>0
  <2>2. n \in Good
    BY <1>12, <2>1
  <2> QED BY <2>1, <2>2
<1>14. J \in [I -> D]
  <2> HIDE DEF I, D
  <2> QED BY <1>9, <1>13
<1> QED BY <1>10, <1>14 DEF J

\* A joined text is a text.
LEMMA JoinType ==
    ASSUME NEW W, NEW lines \in Seq(LinesFrom(W))
    PROVE  Join(lines) \in Seq(LinesFrom(W))
<1>1. Len(lines) \in 0..Len(lines)
  <2>1. Len(lines) \in Nat
    BY LenProperties
  <2> QED BY <2>1
<1> QED BY <1>1, JoinIs, JoinedStepIs

\* One more line, as long as none ran into the next.
LEMMA JoinedGrows ==
    ASSUME NEW W, NEW lines \in Seq(LinesFrom(W)), NEW n \in 1..Len(lines),
           Joined(lines)[n - 1] = SubSeq(lines, 1, n - 1),
           ~RunsInto(SubSeq(lines, 1, n - 1))
    PROVE  Joined(lines)[n] = SubSeq(lines, 1, n)
<1> DEFINE S == LinesFrom(W)
           L == Len(lines)
<1>1. L \in Nat
  BY LenProperties
<1>2. n \in 0..L /\ n # 0 /\ 1 \in 1..L /\ n \in 1..n /\ n \in 1..L
  BY ONLY <1>1, n \in 1..L
<1>3. Joined(lines)[n] = Append(SubSeq(lines, 1, n - 1), lines[n])
  BY <1>2, JoinedStepIs DEF JoinedStep
<1>4. SubSeq(lines, 1, n) = SubSeq(lines, 1, n - 1) \o <<lines[n]>>
  BY <1>2, SubSeqRecursiveSecond
<1>5. SubSeq(lines, 1, n - 1) \in Seq(S) /\ lines[n] \in S
  <2>1. \A i \in 1..n - 1 : i \in 1..L
    BY ONLY <1>1, n \in 1..L
  <2>2. \A i \in 1..n - 1 : lines[i] \in S
    BY <2>1, ElementOfSeq
  <2>3. 1 \in Int /\ n - 1 \in Int
    BY ONLY <1>1, n \in 1..L
  <2>4. SubSeq(lines, 1, n - 1) \in Seq(S)
    BY ONLY <2>2, <2>3, SubSeqProperties
  <2> QED BY <1>2, <2>4, ElementOfSeq
<1>6. Append(SubSeq(lines, 1, n - 1), lines[n]) = SubSeq(lines, 1, n - 1) \o <<lines[n]>>
  BY <1>5, AppendIsConcat
<1> QED BY <1>3, <1>4, <1>6

\* The last line of a prefix.
LEMMA LastOfPrefix ==
    ASSUME NEW S, NEW s \in Seq(S), NEW n \in 1..Len(s)
    PROVE  SubSeq(s, 1, n) # <<>> /\ Last(SubSeq(s, 1, n)) = s[n] /\ Len(SubSeq(s, 1, n)) = n
<1>1. Len(s) \in Nat
  BY LenProperties
<1>2. \A i \in 1..n : i \in 1..Len(s)
  BY ONLY <1>1, n \in 1..Len(s)
<1>3. \A i \in 1..n : s[i] \in S
  BY <1>2, ElementOfSeq
<1>4. 1 \in Int /\ n \in Int /\ 1 <= n
  BY ONLY <1>1, n \in 1..Len(s)
<1>5. /\ SubSeq(s, 1, n) \in Seq(S)
      /\ Len(SubSeq(s, 1, n)) = (IF 1 <= n THEN n - 1 + 1 ELSE 0)
      /\ \A i \in 1..n - 1 + 1 : SubSeq(s, 1, n)[i] = s[1 + i - 1]
  BY ONLY <1>3, <1>4, SubSeqProperties
<1>6. Len(SubSeq(s, 1, n)) = n /\ SubSeq(s, 1, n)[n] = s[n]
  <2>1. n - 1 + 1 = n /\ n \in 1..n - 1 + 1 /\ 1 + n - 1 = n
    BY ONLY <1>4
  <2> QED BY <1>4, <1>5, <2>1
<1>7. SubSeq(s, 1, n) # <<>>
  <2>1. n # 0
    BY ONLY <1>4
  <2> QED BY <1>6, <2>1, EmptySeq
<1> QED BY <1>6, <1>7 DEF Last

\* Where each line ends with a newline joining them changes nothing.
LEMMA JoinWhole ==
    ASSUME NEW W, NEW lines \in Seq(LinesFrom(W)), \A i \in 1..Len(lines) : lines[i].newline
    PROVE  Join(lines) = lines
<1> DEFINE L == Len(lines)
           J == Joined(lines)
           Good == {n \in Nat : n <= L => J[n] = SubSeq(lines, 1, n)}
<1>1. L \in Nat
  BY LenProperties
<1>2. ASSUME NEW n \in Nat, \A m \in Nat : m < n => m \in Good PROVE n \in Good
  <2> SUFFICES ASSUME n <= L PROVE J[n] = SubSeq(lines, 1, n)
    OBVIOUS
  <2>1. CASE n = 0
    <3>1. 0 \in 0..L
      BY ONLY <1>1
    <3>2. J[0] = <<>>
      BY <3>1, JoinedStepIs DEF JoinedStep
    <3>3. SubSeq(lines, 1, 0) = <<>>
      BY SubSeqEmpty
    <3> QED BY <2>1, <3>2, <3>3
  <2>2. CASE n # 0
    <3>1. n \in 1..L /\ n - 1 \in Nat /\ n - 1 < n /\ n - 1 <= L
      BY ONLY <1>1, <2>2, n \in Nat, n <= L
    <3>2. n - 1 \in Good
      BY <1>2, <3>1
    <3>3. J[n - 1] = SubSeq(lines, 1, n - 1)
      <4> HIDE DEF J
      <4> QED BY <3>1, <3>2
    <3>4. ~RunsInto(SubSeq(lines, 1, n - 1))
      <4>1. CASE n = 1
        <5>1. SubSeq(lines, 1, n - 1) = <<>>
          BY <4>1, SubSeqEmpty
        <5> QED BY <5>1 DEF RunsInto
      <4>2. CASE n # 1
        <5>1. n - 1 \in 1..L
          BY ONLY <1>1, <3>1, <4>2
        <5>2. Last(SubSeq(lines, 1, n - 1)) = lines[n - 1]
          BY <5>1, LastOfPrefix
        <5> QED BY <5>1, <5>2 DEF RunsInto
      <4> QED BY <4>1, <4>2
    <3> QED BY <3>1, <3>3, <3>4, JoinedGrows
  <2> QED BY <2>1, <2>2
<1>3. Nat \subseteq Good
  <2> HIDE DEF Good
  <2> QED BY <1>2, Induction
<1>4. J[L] = SubSeq(lines, 1, L)
  <2>1. L \in Good /\ L <= L
    BY <1>1, <1>3
  <2> HIDE DEF J, L
  <2> QED BY <2>1
<1> QED BY <1>4, JoinIs, SubSeqFull

\* A line of more than one word.
HasRun(text) == \E i \in 1..Len(text) : Len(text[i].words) > 1

\* Where no line of the joined text has more words than one, none ran into another.
LEMMA JoinWithoutRun ==
    ASSUME NEW W, NEW lines \in Seq(LinesFrom(W)), \A i \in 1..Len(lines) : lines[i].words # <<>>,
           ~HasRun(Join(lines))
    PROVE  Join(lines) = lines
<1> DEFINE S == LinesFrom(W)
           L == Len(lines)
           J == Joined(lines)
           Right(n) == J[n] = SubSeq(lines, 1, n) \/ HasRun(J[n])
           Good == {n \in Nat : n <= L => Right(n)}
<1>1. L \in Nat
  BY LenProperties
<1>2. ASSUME NEW i \in 1..L PROVE lines[i] \in S /\ Len(lines[i].words) \in Nat /\ Len(lines[i].words) >= 1
  <2>1. lines[i] \in S
    BY ElementOfSeq
  <2>2. lines[i].words \in Seq(W)
    BY <2>1 DEF LinesFrom
  <2>3. Len(lines[i].words) \in Nat \ {0}
    BY <2>2, EmptySeq
  <2> QED BY <2>1, <2>3
<1>3. J \in [0..L -> Seq(S)] /\ \A n \in 0..L : J[n] = JoinedStep(lines, J, n)
  BY JoinedStepIs
<1> HIDE DEF J
<1>4. ASSUME NEW n \in Nat, \A m \in Nat : m < n => m \in Good PROVE n \in Good
  <2> SUFFICES ASSUME n <= L PROVE Right(n)
    OBVIOUS
  <2>1. CASE n = 0
    <3>1. 0 \in 0..L
      BY ONLY <1>1
    <3>2. J[0] = <<>>
      BY <1>3, <3>1 DEF JoinedStep
    <3>3. SubSeq(lines, 1, 0) = <<>>
      BY SubSeqEmpty
    <3> QED BY <2>1, <3>2, <3>3
  <2>2. CASE n # 0
    <3>1. n \in 1..L /\ n - 1 \in Nat /\ n - 1 < n /\ n - 1 <= L /\ n \in 0..L /\ n - 1 \in 0..L
      BY ONLY <1>1, <2>2, n \in Nat, n <= L
    <3>2. n - 1 \in Good
      BY <1>4, <3>1
    <3>3. Right(n - 1)
      <4> HIDE DEF Right
      <4> QED BY <3>1, <3>2
    <3>4. J[n] = IF RunsInto(J[n - 1]) THEN RunOn(J[n - 1], lines[n]) ELSE Append(J[n - 1], lines[n])
      BY <1>3, <2>2, <3>1 DEF JoinedStep
    <3> DEFINE text == J[n - 1]
    <3>5. text \in Seq(S)
      BY <1>3, <3>1
    <3>6. CASE RunsInto(text)
      <4>1. text # <<>>
        BY <3>6 DEF RunsInto
      <4>2. Len(text) \in Nat /\ Len(text) # 0
        BY <3>5, <4>1, EmptySeq
      <4>3. /\ Len(J[n]) = Len(text)
            /\ \A i \in 1..Len(text) : i # Len(text) => J[n][i] = text[i]
            /\ Len(J[n][Len(text)].words) = Len(text[Len(text)].words) + Len(lines[n].words)
        <5>1. lines[n] \in LinesFrom(W)
          BY <1>2, <3>1
        <5> HIDE DEF text
        <5>2. J[n] = RunOn(text, lines[n])
          BY <3>4, <3>6 DEF text
        <5>3. /\ Len(RunOn(text, lines[n])) = Len(text)
              /\ \A i \in 1..Len(text) : i # Len(text) => RunOn(text, lines[n])[i] = text[i]
              /\ Len(RunOn(text, lines[n])[Len(text)].words) = Len(text[Len(text)].words) + Len(lines[n].words)
          BY <3>5, <4>1, <5>1, RunOnType
        <5> QED BY ONLY <5>2, <5>3, Zenon
      <4>4. Len(text) \in 1..Len(text)
        BY ONLY <4>2
      <4>5. Len(text[Len(text)].words) \in Nat
        <5>1. text[Len(text)] \in S
          BY <3>5, <4>4, ElementOfSeq
        <5>2. text[Len(text)].words \in Seq(W)
          BY <5>1 DEF LinesFrom
        <5> QED BY <5>2, LenProperties
      <4>6. Len(lines[n].words) \in Nat /\ Len(lines[n].words) >= 1
        BY <1>2, <3>1
      <4> HIDE DEF text
      <4>7. CASE HasRun(text)
        <5>1. PICK i \in 1..Len(text) : Len(text[i].words) > 1
          BY <4>7 DEF HasRun
        <5>2. CASE i = Len(text)
          <6>1. Len(J[n][Len(text)].words) > 1
            <7> DEFINE x == Len(J[n][Len(text)].words)
                       y == Len(text[Len(text)].words)
                       z == Len(lines[n].words)
            <7>1. x = y + z /\ y \in Nat /\ z \in Nat /\ z >= 1 /\ y > 1
              BY <4>3, <4>5, <4>6, <5>1, <5>2
            <7> HIDE DEF x, y, z
            <7>2. x > 1
              BY ONLY <7>1
            <7> QED BY <7>2 DEF x
          <6> QED BY <4>3, <4>4, <6>1 DEF HasRun
        <5>3. CASE i # Len(text)
          BY <4>3, <5>1, <5>3 DEF HasRun
        <5> QED BY <5>2, <5>3
      <4>8. CASE text = SubSeq(lines, 1, n - 1)
        <5>1. n # 1
          <6> SUFFICES ASSUME n = 1 PROVE FALSE
            OBVIOUS
          <6>1. text = <<>>
            BY <4>8, SubSeqEmpty
          <6> QED BY <4>1, <6>1
        <5>2. n - 1 \in 1..L
          BY ONLY <1>1, <3>1, <5>1
        <5>3. Len(text) = n - 1 /\ Last(text) = lines[n - 1]
          BY <4>8, <5>2, LastOfPrefix
        <5>4. text[Len(text)] = lines[n - 1]
          BY <5>3 DEF Last
        <5>5. Len(text[Len(text)].words) >= 1
          BY <1>2, <5>2, <5>4
        <5>6. Len(J[n][Len(text)].words) > 1
          <6> DEFINE x == Len(J[n][Len(text)].words)
                     y == Len(text[Len(text)].words)
                     z == Len(lines[n].words)
          <6>1. x = y + z /\ y \in Nat /\ z \in Nat /\ z >= 1 /\ y >= 1
            BY <4>3, <4>5, <4>6, <5>5
          <6> HIDE DEF x, y, z
          <6>2. x > 1
            BY ONLY <6>1
          <6> QED BY <6>2 DEF x
        <5> QED BY <4>3, <4>4, <5>6 DEF HasRun
      <4> QED BY <3>3, <4>7, <4>8 DEF text
    <3>7. CASE ~RunsInto(text)
      <4>1. CASE HasRun(text)
        <5>1. lines[n] \in S
          BY <1>2, <3>1
        <5> HIDE DEF text
        <5>2. J[n] = Append(text, lines[n])
          BY <3>4, <3>7 DEF text
        <5>3. Len(J[n]) = Len(text) + 1 /\ \A i \in 1..Len(text) : J[n][i] = text[i]
          BY <3>5, <5>1, <5>2, AppendProperties
        <5>4. PICK i \in 1..Len(text) : Len(text[i].words) > 1
          BY <4>1 DEF HasRun
        <5>5. i \in 1..Len(J[n])
          <6>1. Len(text) \in Nat
            BY <3>5, LenProperties
          <6> QED BY ONLY <5>3, <6>1, i \in 1..Len(text)
        <5>6. HasRun(J[n])
          BY <5>3, <5>4, <5>5 DEF HasRun
        <5> QED BY <5>6
      <4>2. CASE text = SubSeq(lines, 1, n - 1)
        <5>1. J[n] = SubSeq(lines, 1, n)
          BY <3>1, <3>7, <4>2, JoinedGrows DEF J
        <5> QED BY <5>1
      <4> QED BY <3>3, <4>1, <4>2
    <3> QED BY <3>6, <3>7
  <2> QED BY <2>1, <2>2
<1>5. Nat \subseteq Good
  <2> HIDE DEF Good
  <2> QED BY <1>4, Induction
<1>6. Right(L)
  <2>1. L \in Good /\ L <= L
    BY <1>1, <1>5
  <2> HIDE DEF Right, L
  <2> QED BY <2>1
<1>7. Join(lines) = J[L]
  BY JoinIs DEF J
<1>8. SubSeq(lines, 1, L) = lines
  BY SubSeqFull
<1> QED BY <1>6, <1>7, <1>8

-----------------------------------------------------------------------------
(* mergeWorkspaceText. *)

\* The hunks of two sides, neither overlapping the other.
LEMMA HunksTogether ==
    ASSUME NEW S, NEW base \in Seq(S), NEW current \in Seq(S), NEW candidate \in Seq(S)
    PROVE  LET ours == Hunks(base, current)
               theirs == Hunks(base, candidate)
           IN  /\ HunksFit(S, base, ours \cup theirs)
               /\ (\E h \in theirs \ ours, g \in ours : Overlaps(g, h)) <=> ~Apart(ours \cup theirs)
<1> DEFINE ours == Hunks(base, current)
           theirs == Hunks(base, candidate)
<1>1. HunksFit(S, base, ours) /\ HunksFit(S, base, theirs)
  BY HunksSeparate
<1>2. Apart(ours) /\ Apart(theirs) /\ (\A h \in ours : Placed(h)) /\ (\A h \in theirs : Placed(h))
  BY HunksApart
<1> HIDE DEF ours, theirs
<1>3. HunksFit(S, base, ours \cup theirs)
  BY <1>1 DEF HunksFit
<1>4. ASSUME NEW g \in ours \cup theirs, NEW h \in ours \cup theirs PROVE Overlaps(g, h) <=> Overlaps(h, g)
  <2>1. Placed(g) /\ Placed(h)
    BY <1>2
  <2>2. Overlaps(g, h) <=> \/ g.start = h.start
                           \/ g.start < h.start /\ h.start < g.end
                           \/ h.start < g.start /\ g.start < h.end
    BY <2>1, OverlapsIs
  <2>3. Overlaps(h, g) <=> \/ h.start = g.start
                           \/ h.start < g.start /\ g.start < h.end
                           \/ g.start < h.start /\ h.start < g.end
    BY <2>1, OverlapsIs
  <2> QED BY <2>2, <2>3
<1>5. ASSUME NEW h \in theirs \ ours, NEW g \in ours, Overlaps(g, h) PROVE ~Apart(ours \cup theirs)
  BY <1>5 DEF Apart
<1>6. ASSUME ~Apart(ours \cup theirs) PROVE \E h \in theirs \ ours, g \in ours : Overlaps(g, h)
  <2>1. PICK g \in ours \cup theirs, h \in ours \cup theirs : g # h /\ Overlaps(g, h)
    BY <1>6 DEF Apart
  <2>2. ~(g \in ours /\ h \in ours) /\ ~(g \in theirs /\ h \in theirs)
    BY <1>2, <2>1 DEF Apart
  <2>3. Overlaps(h, g)
    BY <1>4, <2>1
  <2> QED BY <2>1, <2>2, <2>3
<1>7. (\E h \in theirs \ ours, g \in ours : Overlaps(g, h)) <=> ~Apart(ours \cup theirs)
  BY <1>5, <1>6
<1> QED BY <1>3, <1>7 DEF ours, theirs

\* What is spliced into the base, where anything is.
Together(base, current, candidate) == Hunks(base, current) \cup Hunks(base, candidate)
Spliced(base, current, candidate) == Splice(base, Together(base, current, candidate))

\* A merge by cases.
LEMMA MergeIs ==
    ASSUME NEW S, NEW base \in Seq(S), NEW current \in Seq(S), NEW candidate \in Seq(S)
    PROVE  /\ current = candidate \/ candidate = base
                  => mergeWorkspaceText(base, current, candidate) = Merged(current)
           /\ current # candidate /\ candidate # base /\ current = base
                  => mergeWorkspaceText(base, current, candidate) = Merged(candidate)
           /\ current # candidate /\ candidate # base /\ current # base
              /\ (TooLarge(base, current) \/ TooLarge(base, candidate) \/ ~Apart(Together(base, current, candidate)))
                  => mergeWorkspaceText(base, current, candidate) = Refused
           /\ current # candidate /\ candidate # base /\ current # base
              /\ ~(TooLarge(base, current) \/ TooLarge(base, candidate) \/ ~Apart(Together(base, current, candidate)))
                  => mergeWorkspaceText(base, current, candidate) = Merged(Join(Spliced(base, current, candidate)))
<1> DEFINE ours == Hunks(base, current)
           theirs == Hunks(base, candidate)
           Clash == \E h \in theirs \ ours, g \in ours : Overlaps(g, h)
           Large == TooLarge(base, current) \/ TooLarge(base, candidate)
<1>1. Clash <=> ~Apart(Together(base, current, candidate))
  BY HunksTogether DEF Together
<1>2. mergeWorkspaceText(base, current, candidate) =
          IF current = candidate \/ candidate = base THEN Merged(current)
          ELSE IF current = base THEN Merged(candidate)
          ELSE IF Large THEN Refused
          ELSE IF Clash THEN Refused
          ELSE Merged(Join(Spliced(base, current, candidate)))
  BY DEF mergeWorkspaceText, Spliced, Together
<1> HIDE DEF Clash
<1> QED BY <1>1, <1>2

\* What is spliced is made of the lines of the three texts.
LEMMA SplicedType ==
    ASSUME NEW S, NEW base \in Seq(S), NEW current \in Seq(S), NEW candidate \in Seq(S)
    PROVE  Spliced(base, current, candidate) \in Seq(S)
<1> DEFINE H == Together(base, current, candidate)
<1>1. HunksFit(S, base, H)
  BY HunksTogether DEF Together
<1>2. 0 \in 0..Len(base)
  <2>1. Len(base) \in Nat
    BY LenProperties
  <2> QED BY <2>1
<1> HIDE DEF H
<1>3. Rest(base, H)[0] \in Seq(S)
  BY <1>1, <1>2, RestStep
<1> QED BY <1>3, SpliceIs DEF Spliced, H

\* What a merge may return.
MergeResults(S) == [ ok : BOOLEAN, content : Seq(S) ]

\* Texts merge into a text.
THEOREM MergeType ==
    ASSUME NEW W, NEW base \in Seq(LinesFrom(W)), NEW current \in Seq(LinesFrom(W)), NEW candidate \in Seq(LinesFrom(W))
    PROVE  mergeWorkspaceText(base, current, candidate) \in MergeResults(LinesFrom(W))
<1> DEFINE S == LinesFrom(W)
           result == mergeWorkspaceText(base, current, candidate)
<1>1. \/ result = Merged(current)
      \/ result = Merged(candidate)
      \/ result = Refused
      \/ result = Merged(Join(Spliced(base, current, candidate)))
  <2> HIDE DEF S
  <2> QED BY MergeIs DEF S
<1>2. Join(Spliced(base, current, candidate)) \in Seq(S)
  BY SplicedType, JoinType
<1>3. \A text \in Seq(S) : Merged(text) \in MergeResults(S)
  BY DEF Merged, MergeResults
<1>4. Refused \in MergeResults(S)
  BY EmptySeq DEF Refused, MergeResults
<1> HIDE DEF S, result
<1> QED BY <1>1, <1>2, <1>3, <1>4 DEF S, result

\* Which of the two texts is in the workspace does not matter.
THEOREM MergeSymmetric ==
    ASSUME NEW S, NEW base \in Seq(S), NEW current \in Seq(S), NEW candidate \in Seq(S)
    PROVE  mergeWorkspaceText(base, candidate, current) = mergeWorkspaceText(base, current, candidate)
<1>1. Together(base, current, candidate) = Together(base, candidate, current)
  BY DEF Together
<1>2. Spliced(base, current, candidate) = Spliced(base, candidate, current)
  BY <1>1 DEF Spliced
<1>3. CASE current = candidate
  BY <1>3
<1>4. CASE current # candidate /\ candidate = base
  <2>1. mergeWorkspaceText(base, current, candidate) = Merged(current)
    BY <1>4, MergeIs
  <2>2. mergeWorkspaceText(base, candidate, current) = Merged(current)
    BY <1>4, MergeIs
  <2> QED BY <2>1, <2>2
<1>5. CASE current # candidate /\ current = base
  <2>1. mergeWorkspaceText(base, current, candidate) = Merged(candidate)
    BY <1>5, MergeIs
  <2>2. mergeWorkspaceText(base, candidate, current) = Merged(candidate)
    BY <1>5, MergeIs
  <2> QED BY <2>1, <2>2
<1>6. CASE current # candidate /\ candidate # base /\ current # base
  <2>1. CASE TooLarge(base, current) \/ TooLarge(base, candidate) \/ ~Apart(Together(base, current, candidate))
    <3>1. mergeWorkspaceText(base, current, candidate) = Refused
      BY <1>6, <2>1, MergeIs
    <3>2. mergeWorkspaceText(base, candidate, current) = Refused
      BY <1>1, <1>6, <2>1, MergeIs
    <3> QED BY <3>1, <3>2
  <2>2. CASE ~(TooLarge(base, current) \/ TooLarge(base, candidate) \/ ~Apart(Together(base, current, candidate)))
    <3>1. mergeWorkspaceText(base, current, candidate) = Merged(Join(Spliced(base, current, candidate)))
      BY <1>6, <2>2, MergeIs
    <3>2. mergeWorkspaceText(base, candidate, current) = Merged(Join(Spliced(base, candidate, current)))
      BY <1>1, <1>6, <2>2, MergeIs
    <3> QED BY <1>2, <3>1, <3>2
  <2> QED BY <2>1, <2>2
<1> QED BY <1>3, <1>4, <1>5, <1>6

\* A text is no edit of itself.
LEMMA HunksOfBase ==
    ASSUME NEW S, NEW base \in Seq(S)
    PROVE  Hunks(base, base) = {}
<1> DEFINE n == Len(base)
           W == Walked(base, base)
           Keeps == Seq({"keep"})
           Good == {k \in Nat : \A i \in 1..n + 1 : n + 1 - i = k => W[<<i, i>>] \in Keeps}
<1>0. n \in Nat
  BY LenProperties
<1>1. ASSUME NEW k \in Nat, \A l \in Nat : l < k => l \in Good PROVE k \in Good
  <2> SUFFICES ASSUME NEW i \in 1..n + 1, n + 1 - i = k PROVE W[<<i, i>>] \in Keeps
    OBVIOUS
  <2>1. W[<<i, i>>] = WalkStep(base, base, W, i, i)
    BY WalkedStep
  <2>2. CASE i = n + 1
    <3>1. i > n
      BY ONLY <1>0, <2>2
    <3>2. WalkStep(base, base, W, i, i) = <<>>
      BY <3>1 DEF WalkStep
    <3>3. <<>> \in Keeps
      BY EmptySeq
    <3> HIDE DEF W, Keeps
    <3> QED BY <2>1, <3>2, <3>3
  <2>3. CASE i # n + 1
    <3>1. i <= n /\ ~(i > n) /\ i + 1 \in 1..n + 1 /\ n + 1 - (i + 1) \in Nat /\ n + 1 - (i + 1) < k
      BY ONLY <1>0, <2>3, n + 1 - i = k, i \in 1..n + 1
    <3>2. WalkStep(base, base, W, i, i) = <<"keep">> \o W[<<i + 1, i + 1>>]
      BY <3>1 DEF WalkStep
    <3>3. n + 1 - (i + 1) \in Good
      <4> HIDE DEF Good
      <4> QED BY <1>1, <3>1
    <3>4. W[<<i + 1, i + 1>>] \in Keeps
      <4> HIDE DEF W, Keeps, n
      <4> QED BY <3>1, <3>3
    <3>5. <<"keep">> \in Keeps
      OBVIOUS
    <3>6. <<"keep">> \o W[<<i + 1, i + 1>>] \in Keeps
      BY <3>4, <3>5, ConcatProperties
    <3> HIDE DEF W, Keeps
    <3> QED BY <2>1, <3>2, <3>6
  <2> QED BY <2>2, <2>3
<1>2. Nat \subseteq Good
  <2> HIDE DEF Good
  <2> QED BY <1>1, Induction
<1>3. W[<<1, 1>>] \in Keeps
  <2>1. n \in Good /\ 1 \in 1..n + 1 /\ n + 1 - 1 = n
    BY <1>0, <1>2
  <2> HIDE DEF W, Keeps, n
  <2> QED BY <2>1
<1> DEFINE w == Walk(base, base)
<1>4. w \in Keeps
  BY <1>3, WalkIs
<1>5. PICK b, t : Path(base, base, 1, 1, w, b, t)
  BY WalkIsPath
<1>6. ASSUME NEW h \in Hunks(base, base) PROVE FALSE
  <2>1. PICK k \in Nat, m \in Nat : IsStretch(w, k, m)
    BY <1>5, HunksAre
  <2>2. k \in 1..Len(w) /\ m \in k..Len(w) /\ \A i \in k..m : w[i] # "keep"
    BY <2>1 DEF IsStretch
  <2>3. w[k] \in {"keep"}
    <3> HIDE DEF w
    <3> QED BY <1>4, <2>2, ElementOfSeq
  <2>4. k \in k..m
    BY ONLY <2>2, k \in Nat, m \in Nat
  <2> QED BY <2>2, <2>3, <2>4
<1> QED BY <1>6

\* No hunk, no edit.
LEMMA SpliceOfNothing ==
    ASSUME NEW S, NEW base \in Seq(S)
    PROVE  Splice(base, {}) = base
BY HunksOfBase, SpliceOfHunks

\* What both sides change.
Shared(base, current, candidate) == Hunks(base, current) \cap Hunks(base, candidate)

\* A text of lines that say something.
Worded(W) == { line \in LinesFrom(W) : line.words # <<>> }

\* What is spliced holds the edits of both sides, and once those they share.
LEMMA SplicedAdds ==
    ASSUME NEW S, NEW base \in Seq(S), NEW current \in Seq(S), NEW candidate \in Seq(S),
           Apart(Together(base, current, candidate)), NEW line
    PROVE  Times(Spliced(base, current, candidate), line) + Times(Splice(base, Shared(base, current, candidate)), line) =
               Times(current, line) + Times(candidate, line)
<1> DEFINE A == Hunks(base, current)
           B == Hunks(base, candidate)
<1>1. HunksFit(S, base, A \cup B)
  BY HunksTogether
<1>2. Apart(A \cup B)
  BY DEF Together
<1>3. Splice(base, A) = current /\ Splice(base, B) = candidate
  BY SpliceOfHunks
<1>4. Times(Splice(base, A \cup B), line) + Times(Splice(base, A \cap B), line) =
          Times(Splice(base, A), line) + Times(Splice(base, B), line)
  <2> HIDE DEF A, B
  <2> QED BY <1>1, <1>2, HunksAdd
<1> QED BY <1>3, <1>4 DEF Spliced, Together, Shared

\* A merge loses no line and invents none: each line occurs as often as in the
\* two texts together, less what the base and the edits they share have of it.
THEOREM MergeAdds ==
    ASSUME NEW W, NEW base \in Seq(Worded(W)), NEW current \in Seq(Worded(W)), NEW candidate \in Seq(Worded(W)),
           mergeWorkspaceText(base, current, candidate).ok,
           ~HasRun(mergeWorkspaceText(base, current, candidate).content), NEW line
    PROVE  Times(mergeWorkspaceText(base, current, candidate).content, line)
             + Times(Splice(base, Shared(base, current, candidate)), line) =
               Times(current, line) + Times(candidate, line)
<1> DEFINE S == Worded(W)
           result == mergeWorkspaceText(base, current, candidate)
<1>1. \A text \in Seq(S) : Times(text, line) \in Nat
  BY TimesConcat
<1>2. \A text : Merged(text).content = text
  BY DEF Merged
<1> HIDE DEF S
<1>3. CASE current = candidate
  <2>1. result = Merged(current)
    BY <1>3, MergeIs
  <2>2. Shared(base, current, candidate) = Hunks(base, candidate)
    BY <1>3 DEF Shared
  <2>3. Splice(base, Shared(base, current, candidate)) = candidate
    BY <2>2, SpliceOfHunks DEF S
  <2> QED BY <1>2, <2>1, <2>3
<1>4. CASE current # candidate /\ candidate = base
  <2>1. result = Merged(current)
    BY <1>4, MergeIs
  <2>2. Shared(base, current, candidate) = {}
    BY <1>4, HunksOfBase DEF Shared
  <2>3. Splice(base, Shared(base, current, candidate)) = candidate
    BY <1>4, <2>2, SpliceOfNothing DEF S
  <2> QED BY <1>2, <2>1, <2>3
<1>5. CASE current # candidate /\ candidate # base /\ current = base
  <2>1. result = Merged(candidate)
    BY <1>5, MergeIs
  <2>2. Shared(base, current, candidate) = {}
    BY <1>5, HunksOfBase DEF Shared
  <2>3. Splice(base, Shared(base, current, candidate)) = current
    BY <1>5, <2>2, SpliceOfNothing DEF S
  <2>4. Times(current, line) \in Nat /\ Times(candidate, line) \in Nat
    BY <1>1 DEF S
  <2>5. Times(result.content, line) = Times(candidate, line)
    BY <1>2, <2>1
  <2> QED BY <2>3, <2>4, <2>5
<1>6. CASE current # candidate /\ candidate # base /\ current # base
  <2> DEFINE spliced == Spliced(base, current, candidate)
  <2>1. result = Merged(Join(spliced)) /\ Apart(Together(base, current, candidate))
    <3>1. result # Refused
      BY DEF Refused
    <3> QED BY <1>6, <3>1, MergeIs
  <2>2. spliced \in Seq(Worded(W))
    BY SplicedType
  <2>3. Join(spliced) = spliced
    <3>1. ~HasRun(Join(spliced))
      BY <1>2, <2>1
    <3>2. spliced \in Seq(LinesFrom(W)) /\ \A i \in 1..Len(spliced) : spliced[i].words # <<>>
      <4> HIDE DEF spliced
      <4>1. \A i \in 1..Len(spliced) : spliced[i] \in Worded(W)
        BY <2>2, ElementOfSeq
      <4>2. Worded(W) \subseteq LinesFrom(W)
        BY DEF Worded
      <4>3. spliced \in Seq(LinesFrom(W))
        BY <2>2, <4>2
      <4> QED BY <4>1, <4>3 DEF Worded
    <3> HIDE DEF spliced
    <3> QED BY <3>1, <3>2, JoinWithoutRun
  <2>4. result.content = spliced
    BY <1>2, <2>1, <2>3
  <2>5. Times(spliced, line) + Times(Splice(base, Shared(base, current, candidate)), line) =
            Times(current, line) + Times(candidate, line)
    BY <2>1, SplicedAdds
  <2> HIDE DEF spliced
  <2> QED BY <2>4, <2>5
<1> QED BY <1>3, <1>4, <1>5, <1>6

\* A line is in a text where it occurs at all.
LEMMA TimesOfMember ==
    ASSUME NEW S, NEW text \in Seq(S), NEW line
    PROVE  Times(text, line) \in Nat /\ (line \in ToSet(text) <=> Times(text, line) # 0)
<1> DEFINE At == {i \in DOMAIN text : text[i] = line}
<1>1. Times(text, line) \in Nat
  BY TimesConcat
<1>2. Len(text) \in Nat /\ DOMAIN text = 1..Len(text)
  BY LenProperties
<1>3. IsFiniteSet(At)
  <2>1. IsFiniteSet(1..Len(text))
    BY <1>2, FS_Interval
  <2> QED BY <1>2, <2>1, FS_Subset
<1>4. At = {} <=> Cardinality(At) = 0
  <2> HIDE DEF At
  <2> QED BY <1>3, FS_EmptySet
<1>5. line \in ToSet(text) <=> At # {}
  BY DEF ToSet
<1> QED BY <1>1, <1>4, <1>5 DEF Times

\* A line that a hunk puts in is in what is spliced.
LEMMA HunkStays ==
    ASSUME NEW S, NEW base \in Seq(S), NEW H, HunksFit(S, base, H), Apart(H), NEW h \in H, NEW line \in ToSet(h.replacement)
    PROVE  line \in ToSet(Splice(base, H))
<1> DEFINE n == Len(base)
           s == h.start
           T(i) == TimesFrom(base, H, i, line)
           L(i) == TimesThen(base, H, i, line)
           One(i) == Times(<<base[i + 1]>>, line)
           Rep(g) == Times(g.replacement, line)
           Good == {k \in Nat : \A i \in 0..n : i <= s /\ s - i = k => T(i) # 0}
<1>1. n \in Nat
  BY LenProperties
<1>2. RestCounts(base, H, line)
  BY TimesOfRest
<1>3. \A i \in 0..n : T(i) \in Nat /\ L(i) \in Nat
  BY <1>2 DEF RestCounts
<1>4. ASSUME NEW i \in 0..n, i # n PROVE One(i) \in Nat /\ L(i) = One(i) + T(i + 1)
  BY <1>2, <1>4 DEF RestCounts
<1>5. ASSUME NEW i \in 0..n, \A g \in H : g.start # i PROVE T(i) = L(i)
  BY <1>2, <1>5 DEF RestCounts
<1>6. ASSUME NEW g \in H
      PROVE  Rep(g) \in Nat /\ T(g.start) = Rep(g) + (IF g.end = g.start THEN L(g.start) ELSE T(g.end))
  BY <1>2 DEF RestCounts
<1>7. ASSUME NEW g \in H PROVE g.start \in 0..n /\ g.end \in 0..n /\ Placed(g)
  <2>1. g.start \in 0..n /\ g.end \in g.start..n
    BY DEF HunksFit
  <2> QED BY ONLY <1>1, <2>1 DEF Placed
<1>8. Rep(h) # 0
  <2>1. h.replacement \in Seq(S)
    BY DEF HunksFit
  <2> QED BY <2>1, TimesOfMember
<1>9. ASSUME NEW k \in Nat, \A l \in Nat : l < k => l \in Good PROVE k \in Good
  <2> SUFFICES ASSUME NEW i \in 0..n, i <= s, s - i = k PROVE T(i) # 0
    OBVIOUS
  <2> HIDE DEF T, L, One, Rep
  <2>1. s \in 0..n
    BY <1>7
  <2>2. CASE i = s
    <3> DEFINE more == IF h.end = s THEN L(s) ELSE T(h.end)
    <3>1. more \in Nat
      BY <1>3, <1>7
    <3>2. T(s) = Rep(h) + more /\ Rep(h) \in Nat
      BY <1>6
    <3> HIDE DEF more
    <3> QED BY <1>8, <2>2, <3>1, <3>2
  <2>3. CASE i # s
    <3>1. i < s /\ i # n /\ i + 1 \in 0..n /\ i + 1 <= s /\ s - (i + 1) \in Nat /\ s - (i + 1) < k
      BY ONLY <1>1, <2>1, <2>3, i \in 0..n, i <= s, s - i = k
    <3>2. T(i + 1) # 0
      <4>1. s - (i + 1) \in Good
        <5> HIDE DEF Good
        <5> QED BY <1>9, <3>1
      <4> HIDE DEF s
      <4> QED BY <3>1, <4>1
    <3>3. L(i) # 0
      <4>1. One(i) \in Nat /\ L(i) = One(i) + T(i + 1)
        BY <1>4, <3>1
      <4>2. T(i + 1) \in Nat
        BY <1>3, <3>1
      <4> DEFINE a == One(i)
                 c == T(i + 1)
                 e == L(i)
      <4>3. a \in Nat /\ c \in Nat /\ c # 0 /\ e = a + c
        BY <3>2, <4>1, <4>2
      <4> HIDE DEF a, c, e
      <4>4. e # 0
        BY <4>3
      <4> QED BY <4>4 DEF e
    <3>4. CASE \A g \in H : g.start # i
      <4>1. T(i) = L(i)
        BY <1>5, <3>4
      <4> QED BY <3>3, <4>1
    <3>5. CASE \E g \in H : g.start = i
      <4>1. PICK g \in H : g.start = i
        BY <3>5
      <4>2. g # h
        BY <2>3, <4>1
      <4>3. ~Overlaps(g, h) /\ Placed(g) /\ Placed(h)
        BY <1>7, <4>2 DEF Apart
      <4>4. Overlaps(g, h) <=> \/ g.start = h.start
                               \/ g.start < h.start /\ h.start < g.end
                               \/ h.start < g.start /\ g.start < h.end
        BY ONLY <4>3, OverlapsIs
      <4>5. g.end \in Nat /\ i <= g.end /\ g.end <= s
        <5>1. ~(s < g.end)
          BY <3>1, <4>1, <4>3, <4>4
        <5>2. g.end \in Nat /\ i <= g.end /\ s \in Nat
          BY <4>1, <4>3 DEF Placed
        <5> QED BY ONLY <5>1, <5>2
      <4> DEFINE more == IF g.end = i THEN L(i) ELSE T(g.end)
      <4>6. T(i) = Rep(g) + more /\ Rep(g) \in Nat
        BY <1>6, <4>1
      <4>7. more # 0 /\ more \in Nat
        <5>1. CASE g.end = i
          BY <1>3, <3>3, <5>1
        <5>2. CASE g.end # i
          <6> DEFINE e == g.end
          <6>1. e \in 0..n /\ e # i
            BY <1>7, <5>2
          <6>11. e \in Nat /\ i <= e /\ e <= s
            BY <4>5
          <6>2. s - e \in Nat /\ s - e < k
            <7> HIDE DEF s, e
            <7> QED BY ONLY <1>1, <2>1, <6>1, <6>11, s - i = k, i \in 0..n
          <6>3. s - e \in Good
            <7> HIDE DEF Good, e
            <7> QED BY <1>9, <6>2
          <6>4. T(e) # 0
            <7> HIDE DEF s, e
            <7> QED BY <4>5, <6>1, <6>3 DEF e
          <6> QED BY <1>3, <5>2, <6>1, <6>4
        <5> QED BY <5>1, <5>2
      <4> DEFINE a == Rep(g)
                 e == T(i)
      <4>8. e = a + more /\ a \in Nat
        BY <4>6
      <4> HIDE DEF more, a, e
      <4>9. e # 0
        BY <4>7, <4>8
      <4> QED BY <4>9 DEF e
    <3> QED BY <3>4, <3>5
  <2> QED BY <2>2, <2>3
<1>10. Nat \subseteq Good
  <2> HIDE DEF Good
  <2> QED BY <1>9, Induction
<1>11. T(0) # 0
  <2>1. s \in Nat /\ 0 \in 0..n /\ 0 <= s /\ s - 0 = s
    BY <1>1, <1>7 DEF Placed
  <2>2. s \in Good
    <3> HIDE DEF Good
    <3> QED BY <1>10, <2>1
  <2> HIDE DEF s, T, n
  <2> QED BY <2>1, <2>2
<1>12. Splice(base, H) = Rest(base, H)[0] /\ Splice(base, H) \in Seq(S)
  <2>1. 0 \in 0..n
    BY <1>1
  <2> QED BY <2>1, SpliceIs, RestStep
<1> QED BY <1>11, <1>12, TimesOfMember DEF TimesFrom

\* A line the base does not have is put in by a hunk.
LEMMA EditIsHunk ==
    ASSUME NEW S, NEW base \in Seq(S), NEW target \in Seq(S), NEW line \in ToSet(target) \ ToSet(base)
    PROVE  \E h \in Hunks(base, target) : line \in ToSet(h.replacement)
<1> SUFFICES ASSUME \A h \in Hunks(base, target) : line \notin ToSet(h.replacement) PROVE FALSE
  OBVIOUS
<1> DEFINE T == S \ {line}
           H == Hunks(base, target)
<1>1. ASSUME NEW text \in Seq(S), line \notin ToSet(text) PROVE text \in Seq(T)
  <2>1. Len(text) \in Nat /\ text \in [1..Len(text) -> S] /\ DOMAIN text = 1..Len(text)
    BY LenProperties
  <2>2. ASSUME NEW i \in 1..Len(text) PROVE text[i] \in T
    BY <1>1, <2>1 DEF ToSet
  <2>3. text \in [1..Len(text) -> T]
    BY <2>1, <2>2
  <2> QED BY <2>1, <2>3, SeqDef
<1>2. base \in Seq(T)
  BY <1>1
<1>3. HunksFit(T, base, H)
  <2>1. HunksFit(S, base, H)
    BY HunksSeparate
  <2> HIDE DEF T, H
  <2> QED BY <1>1, <2>1 DEF HunksFit, H
<1>4. Splice(base, H) \in Seq(T)
  <2>1. 0 \in 0..Len(base)
    <3>1. Len(base) \in Nat
      BY LenProperties
    <3> QED BY <3>1
  <2> HIDE DEF T, H
  <2> QED BY <1>2, <1>3, <2>1, SpliceIs, RestStep
<1>5. target \in Seq(T)
  BY <1>4, SpliceOfHunks
<1>6. Len(target) \in Nat /\ DOMAIN target = 1..Len(target) /\ \A i \in 1..Len(target) : target[i] \in T
  BY <1>5, LenProperties
<1> QED BY <1>6 DEF ToSet

\* A text whose every line ends with a newline.
EndsLines(text) == \A i \in 1..Len(text) : text[i].newline

\* What merges where every line ends with a newline.
LEMMA MergeOfWhole ==
    ASSUME NEW W, NEW base \in Seq(LinesFrom(W)), NEW current \in Seq(LinesFrom(W)), NEW candidate \in Seq(LinesFrom(W)),
           EndsLines(base), EndsLines(current), EndsLines(candidate),
           mergeWorkspaceText(base, current, candidate).ok
    PROVE  LET content == mergeWorkspaceText(base, current, candidate).content
           IN  \/ (current = candidate \/ candidate = base) /\ content = current
               \/ current = base /\ content = candidate
               \/ Apart(Together(base, current, candidate)) /\ content = Spliced(base, current, candidate)
<1> DEFINE S == LinesFrom(W)
           N == {line \in S : line.newline}
           result == mergeWorkspaceText(base, current, candidate)
           spliced == Spliced(base, current, candidate)
<1>1. \A text : Merged(text).content = text
  BY DEF Merged
<1>2. Refused.ok = FALSE
  BY DEF Refused
<1>3. ASSUME NEW text \in Seq(S), EndsLines(text) PROVE text \in Seq(N)
  <2> HIDE DEF S
  <2>1. Len(text) \in Nat /\ text \in [1..Len(text) -> S] /\ DOMAIN text = 1..Len(text)
    BY LenProperties
  <2>2. text \in [1..Len(text) -> N]
    BY <1>3, <2>1 DEF EndsLines
  <2> HIDE DEF N
  <2> QED BY <2>1, <2>2, SeqDef
<1>4. spliced \in Seq(N)
  <2>1. base \in Seq(N) /\ current \in Seq(N) /\ candidate \in Seq(N)
    BY <1>3
  <2> HIDE DEF N
  <2> QED BY <2>1, SplicedType
<1>5. Join(spliced) = spliced
  <2> HIDE DEF spliced
  <2>1. \A i \in 1..Len(spliced) : spliced[i] \in N
    BY <1>4, ElementOfSeq
  <2>2. N \subseteq S
    OBVIOUS
  <2>3. spliced \in Seq(S)
    <3> HIDE DEF S, N
    <3> QED BY <1>4, <2>2
  <2> QED BY <2>1, <2>3, JoinWhole
<1> HIDE DEF S, N
<1>6. result # Refused
  BY <1>2
<1>7. CASE current = candidate \/ candidate = base
  BY <1>1, <1>7, MergeIs
<1>8. CASE current # candidate /\ candidate # base /\ current = base
  BY <1>1, <1>8, MergeIs
<1>9. CASE current # candidate /\ candidate # base /\ current # base
  <2>1. result = Merged(Join(spliced)) /\ Apart(Together(base, current, candidate))
    BY <1>6, <1>9, MergeIs
  <2>2. result.content = spliced
    BY <1>1, <1>5, <2>1
  <2> QED BY <2>1, <2>2
<1> QED BY <1>7, <1>8, <1>9

\* Where every line ends with a newline a merge keeps the lines that either side
\* has added, and takes every line from one of the three texts.
THEOREM MergeKeepsEdits ==
    ASSUME NEW W, NEW base \in Seq(LinesFrom(W)), NEW current \in Seq(LinesFrom(W)), NEW candidate \in Seq(LinesFrom(W)),
           EndsLines(base), EndsLines(current), EndsLines(candidate),
           mergeWorkspaceText(base, current, candidate).ok
    PROVE  LET content == mergeWorkspaceText(base, current, candidate).content
           IN  /\ (ToSet(current) \cup ToSet(candidate)) \ ToSet(base) \subseteq ToSet(content)
               /\ ToSet(content) \subseteq ToSet(base) \cup ToSet(current) \cup ToSet(candidate)
<1> DEFINE S == LinesFrom(W)
           content == mergeWorkspaceText(base, current, candidate).content
           U == Together(base, current, candidate)
<1>1. \/ (current = candidate \/ candidate = base) /\ content = current
      \/ current = base /\ content = candidate
      \/ Apart(U) /\ content = Splice(base, U)
  BY MergeOfWhole DEF Spliced
<1> HIDE DEF S, content, U
<1>2. CASE (current = candidate \/ candidate = base) /\ content = current
  BY <1>2 DEF content
<1>3. CASE current = base /\ content = candidate
  BY <1>3 DEF content
<1>4. CASE Apart(U) /\ content = Splice(base, U)
  <2>1. HunksFit(S, base, U)
    BY HunksTogether DEF Together, S, U
  <2>2. ASSUME NEW line \in (ToSet(current) \cup ToSet(candidate)) \ ToSet(base) PROVE line \in ToSet(content)
    <3>1. \E h \in U : line \in ToSet(h.replacement)
      <4>1. CASE line \in ToSet(current)
        BY <4>1, EditIsHunk DEF Together, U
      <4>2. CASE line \in ToSet(candidate)
        BY <4>2, EditIsHunk DEF Together, U
      <4> QED BY <4>1, <4>2
    <3>2. PICK h \in U : line \in ToSet(h.replacement)
      BY <3>1
    <3> QED BY <1>4, <2>1, <3>2, HunkStays DEF S
  <2>3. ToSet(content) \subseteq ToSet(base) \cup ToSet(current) \cup ToSet(candidate)
    <3> DEFINE T == ToSet(base) \cup ToSet(current) \cup ToSet(candidate)
    <3>1. ASSUME NEW text \in Seq(S), ToSet(text) \subseteq T PROVE text \in Seq(T)
      <4>1. Len(text) \in Nat /\ text \in [1..Len(text) -> S] /\ DOMAIN text = 1..Len(text)
        BY LenProperties
      <4>2. \A i \in 1..Len(text) : text[i] \in ToSet(text)
        BY <4>1 DEF ToSet
      <4> HIDE DEF T
      <4>3. text \in [1..Len(text) -> T]
        BY <3>1, <4>1, <4>2
      <4> QED BY <4>1, <4>3, SeqDef
    <3>2. base \in Seq(T) /\ current \in Seq(T) /\ candidate \in Seq(T)
      <4>1. ToSet(base) \subseteq T /\ ToSet(current) \subseteq T /\ ToSet(candidate) \subseteq T
        OBVIOUS
      <4> HIDE DEF T
      <4> QED BY <3>1, <4>1 DEF S
    <3> HIDE DEF T
    <3>3. content \in Seq(T)
      BY <1>4, <3>2, SplicedType DEF Spliced, U
    <3>4. Len(content) \in Nat /\ DOMAIN content = 1..Len(content) /\ \A i \in 1..Len(content) : content[i] \in T
      BY <3>3, LenProperties
    <3> QED BY <3>4 DEF ToSet, T
  <2> QED BY <2>2, <2>3 DEF content
<1> QED BY <1>1, <1>2, <1>3, <1>4
=============================================================================
