----------------------------- MODULE FoldTheorems -----------------------------
(***************************************************************************)
(* Folds over finite sets, and sums: what the recursive functions behind    *)
(* MapThenFoldSet and MapThenSumSet compute, whatever order they take the   *)
(* elements in.                                                             *)
(*                                                                          *)
(* The induction theorems of the library take an operator, which the        *)
(* provers cannot instantiate.  Inductions here go by a smallest            *)
(* counterexample instead (SmallestSet), and the operators that are folded  *)
(* are given as functions.                                                  *)
(***************************************************************************)
EXTENDS Integers, FiniteSetsExt, FiniteSetTheorems, WellFoundedInduction, TLAPS

\* Some set of a family of subsets of a finite set has no other below it: what
\* an induction over finite sets uses, without a predicate.
LEMMA SmallestSet ==
  ASSUME NEW S, IsFiniteSet(S), NEW F \in SUBSET (SUBSET S), F # {}
  PROVE  \E T \in F : \A U \in F : ~ (U \subseteq T /\ U # T)
<1> DEFINE R == StrictSubsetOrdering(S)
<1>1. IsWellFoundedOn(R, FiniteSubsetsOf(S)) BY FS_StrictSubsetOrderingWellFounded
<1>2. FiniteSubsetsOf(S) = SUBSET S BY FS_FiniteSubsetsOfFinite
<1>3. F \subseteq FiniteSubsetsOf(S) BY <1>2
<1> HIDE DEF R
<1>4. \E T \in F : \A U \in F : ~ (<<U, T>> \in R) BY <1>1, <1>3, WFMin
<1>5. ASSUME NEW T \in F, NEW U \in F, U \subseteq T, U # T
      PROVE  <<U, T>> \in R
  BY <1>5 DEF R, StrictSubsetOrdering
<1> QED BY <1>4, <1>5

----------------------------------------------------------------------------
(* Folds *)

\* g is a fold over the subsets of S: step[x][a] takes the element x into a, and
\* pick says which element comes last.
IsFold(g, base, step, pick, S) ==
    \A s \in SUBSET S :
      g[s] = IF s = {} THEN base ELSE step[pick[s]][g[s \ {pick[s]}]]

Picks(pick, S) == \A s \in SUBSET S : s # {} => pick[s] \in s

\* Two folds agree wherever both are defined.
LEMMA FoldUnique ==
  ASSUME NEW S, IsFiniteSet(S), NEW T \in SUBSET S, NEW base, NEW step, NEW pick,
         Picks(pick, S), NEW g, IsFold(g, base, step, pick, S),
         NEW h, IsFold(h, base, step, pick, T)
  PROVE  \A s \in SUBSET T : g[s] = h[s]
<1> DEFINE F == {s \in SUBSET T : g[s] # h[s]}
<1>1. SUFFICES ASSUME F # {} PROVE FALSE OBVIOUS
<1>2. IsFiniteSet(T) BY FS_Subset
<1>3. PICK s \in F : \A u \in F : ~ (u \subseteq s /\ u # s)
  <2> HIDE DEF F
  <2>1. F \in SUBSET SUBSET T BY DEF F
  <2> QED BY <1>1, <1>2, <2>1, SmallestSet
<1>4. s # {} BY <1>3 DEF IsFold
<1>5. pick[s] \in s /\ s \ {pick[s]} \subseteq s /\ s \ {pick[s]} # s BY <1>4 DEF Picks
<1>6. g[s \ {pick[s]}] = h[s \ {pick[s]}] BY <1>3, <1>5
<1>7. /\ g[s] = step[pick[s]][g[s \ {pick[s]}]]
      /\ h[s] = step[pick[s]][h[s \ {pick[s]}]]
  BY <1>4 DEF IsFold
<1> QED BY <1>6, <1>7

\* There is a fold, and it stays among the values A that step stays in.
LEMMA FoldExists ==
  ASSUME NEW S, IsFiniteSet(S), NEW A, NEW base \in A, NEW step \in [S -> [A -> A]],
         NEW pick, Picks(pick, S)
  PROVE  \E g \in [SUBSET S -> A] : IsFold(g, base, step, pick, S)
<1> DEFINE Has(T) == \E g \in [SUBSET T -> A] : IsFold(g, base, step, pick, T)
           F == {T \in SUBSET S : ~ Has(T)}
<1>1. SUFFICES ASSUME F # {} PROVE FALSE OBVIOUS
<1> HIDE DEF F
<1>2. F \in SUBSET SUBSET S BY DEF F
<1>3. PICK T \in F : \A U \in F : ~ (U \subseteq T /\ U # T) BY <1>1, <1>2, SmallestSet
<1>4. T \subseteq S /\ ~ Has(T) BY DEF F
<1> DEFINE G(U) == CHOOSE g \in [SUBSET U -> A] : IsFold(g, base, step, pick, U)
<1>5. ASSUME NEW U \in SUBSET T, U # T
      PROVE  G(U) \in [SUBSET U -> A] /\ IsFold(G(U), base, step, pick, U)
  <2>1. Has(U) BY <1>3, <1>4, <1>5 DEF F
  <2> QED BY <2>1
<1> DEFINE Of(U) == IF U = {} THEN base ELSE step[pick[U]][G(U \ {pick[U]})[U \ {pick[U]}]]
           g == [U \in SUBSET T |-> Of(U)]
<1> HIDE DEF G
<1>6. ASSUME NEW U \in SUBSET T, U # {}
      PROVE  /\ pick[U] \in U
             /\ U \ {pick[U]} \in SUBSET T
             /\ U \ {pick[U]} # T
  BY <1>4, <1>6 DEF Picks
<1>7. ASSUME NEW U \in SUBSET T
      PROVE  Of(U) \in A
  <2>1. CASE U = {} BY <2>1
  <2>2. CASE U # {}
    <3>1. pick[U] \in S BY <1>4, <1>6, <2>2
    <3>2. G(U \ {pick[U]}) \in [SUBSET (U \ {pick[U]}) -> A] BY <1>5, <1>6, <2>2
    <3>3. G(U \ {pick[U]})[U \ {pick[U]}] \in A BY <3>2
    <3> QED BY <2>2, <3>1, <3>3
  <2> QED BY <2>1, <2>2
<1>8. ASSUME NEW U \in SUBSET T, U # T
      PROVE  g[U] = G(U)[U]
  <2>1. CASE U = {} BY <1>5, <1>8, <2>1 DEF IsFold
  <2>2. CASE U # {}
    <3> DEFINE V == U \ {pick[U]}
    <3>1. V \in SUBSET T /\ V # T /\ V \in SUBSET U BY <1>6, <2>2
    <3>2. IsFold(G(U), base, step, pick, U) /\ IsFold(G(V), base, step, pick, V)
      BY <1>5, <1>8, <3>1
    <3>3. IsFiniteSet(U) /\ Picks(pick, U) BY <1>4, FS_Subset DEF Picks
    <3> HIDE DEF V
    <3>4. G(U)[V] = G(V)[V] BY <3>1, <3>2, <3>3, FoldUnique
    <3>5. G(U)[U] = step[pick[U]][G(U)[V]] BY <3>2, <2>2 DEF IsFold, V
    <3> QED BY <3>4, <3>5, <2>2 DEF V
  <2> QED BY <2>1, <2>2
<1>9. g \in [SUBSET T -> A] BY <1>7
<1>10. ASSUME NEW U \in SUBSET T
       PROVE  g[U] = IF U = {} THEN base ELSE step[pick[U]][g[U \ {pick[U]}]]
  <2>1. CASE U = {} BY <2>1
  <2>2. CASE U # {}
    <3>1. g[U \ {pick[U]}] = G(U \ {pick[U]})[U \ {pick[U]}] BY <1>6, <1>8, <2>2
    <3> QED BY <2>2, <3>1
  <2> QED BY <2>1, <2>2
<1>11. IsFold(g, base, step, pick, T)
  <2> HIDE DEF g
  <2> QED BY <1>10 DEF IsFold
<1> QED
  <2> HIDE DEF g
  <2> QED BY <1>4, <1>9, <1>11

----------------------------------------------------------------------------
(* Sums *)

\* The element MapThenSumSet takes next.
Picked(s) == CHOOSE x \in s : TRUE

\* g is the recursive function of a sum of f over the subsets of S.
Adds(g, f, S) ==
    g = [s \in SUBSET S |-> IF s = {} THEN 0 ELSE f[Picked(s)] + g[s \ {Picked(s)}]]

\* The sum of the values of f over S.
Sum(f, S) == MapThenSumSet(LAMBDA x : f[x], S)

Ints(f, S) == \A x \in S : f[x] \in Int

\* Such a function is a fold.
LEMMA AddsIsFold ==
  ASSUME NEW S, NEW f, Ints(f, S), NEW g \in [SUBSET S -> Int]
  PROVE  LET step == [x \in S |-> [a \in Int |-> f[x] + a]]
             pick == [s \in SUBSET S |-> Picked(s)]
         IN  IsFold(g, 0, step, pick, S) <=> Adds(g, f, S)
<1> DEFINE step == [x \in S |-> [a \in Int |-> f[x] + a]]
           pick == [s \in SUBSET S |-> Picked(s)]
           At(s) == IF s = {} THEN 0 ELSE f[Picked(s)] + g[s \ {Picked(s)}]
<1>1. ASSUME NEW s \in SUBSET S, s # {}
      PROVE  step[pick[s]][g[s \ {pick[s]}]] = f[Picked(s)] + g[s \ {Picked(s)}]
  <2>1. pick[s] = Picked(s) /\ Picked(s) \in S BY <1>1 DEF Picked
  <2>2. g[s \ {Picked(s)}] \in Int OBVIOUS
  <2> QED BY <2>1, <2>2
<1>2. IsFold(g, 0, step, pick, S) <=> \A s \in SUBSET S : g[s] = At(s) BY <1>1 DEF IsFold
<1>3. (\A s \in SUBSET S : g[s] = At(s)) <=> g = [s \in SUBSET S |-> At(s)]
  <2> HIDE DEF At
  <2> QED OBVIOUS
<1> QED BY <1>2, <1>3 DEF Adds

\* There is one.
LEMMA AddsExists ==
  ASSUME NEW S, IsFiniteSet(S), NEW f, Ints(f, S)
  PROVE  \E g \in [SUBSET S -> Int] : Adds(g, f, S)
<1> DEFINE step == [x \in S |-> [a \in Int |-> f[x] + a]]
           pick == [s \in SUBSET S |-> Picked(s)]
<1>1. step \in [S -> [Int -> Int]] BY DEF Ints
<1>2. Picks(pick, S) BY DEF Picks, Picked
<1>3. 0 \in Int OBVIOUS
<1> HIDE DEF step, pick
<1>4. PICK g \in [SUBSET S -> Int] : IsFold(g, 0, step, pick, S) BY <1>1, <1>2, <1>3, FoldExists
<1>5. IsFold(g, 0, step, pick, S) <=> Adds(g, f, S) BY AddsIsFold DEF step, pick
<1> QED BY <1>4, <1>5

\* It is the only one.
LEMMA AddsUnique ==
  ASSUME NEW S, IsFiniteSet(S), NEW T \in SUBSET S, NEW f, Ints(f, S),
         NEW g, Adds(g, f, S), NEW h, Adds(h, f, T)
  PROVE  \A s \in SUBSET T : g[s] = h[s]
<1> DEFINE F == {s \in SUBSET T : g[s] # h[s]}
<1>1. SUFFICES ASSUME F # {} PROVE FALSE OBVIOUS
<1> HIDE DEF F
<1>2. F \in SUBSET SUBSET S BY DEF F
<1>3. PICK s \in F : \A u \in F : ~ (u \subseteq s /\ u # s) BY <1>1, <1>2, SmallestSet
<1>4. s \in SUBSET T /\ g[s] # h[s] BY DEF F
<1>5. /\ g[s] = IF s = {} THEN 0 ELSE f[Picked(s)] + g[s \ {Picked(s)}]
      /\ h[s] = IF s = {} THEN 0 ELSE f[Picked(s)] + h[s \ {Picked(s)}]
  BY <1>4 DEF Adds
<1>6. s # {} BY <1>4, <1>5
<1>7. Picked(s) \in s BY <1>6 DEF Picked
<1>8. g[s \ {Picked(s)}] = h[s \ {Picked(s)}] BY <1>3, <1>4, <1>7 DEF F
<1> QED BY <1>4, <1>5, <1>6, <1>8

\* The sum is its value.
LEMMA SumIs ==
  ASSUME NEW S, IsFiniteSet(S), NEW f, Ints(f, S), NEW g, Adds(g, f, S),
         NEW T \in SUBSET S
  PROVE  Sum(f, T) = g[T]
<1>1. IsFiniteSet(T) /\ Ints(f, T) BY FS_Subset DEF Ints
<1>2. \E h : Adds(h, f, T) BY <1>1, AddsExists
<1> DEFINE P(h) == h = [s \in SUBSET T |-> IF s = {} THEN 0
                          ELSE f[CHOOSE x \in s : TRUE] + h[s \ {CHOOSE x \in s : TRUE}]]
<1>3. Sum(f, T) = (CHOOSE h : P(h))[T] BY DEF Sum, MapThenSumSet, MapThenFoldSet
<1>4. \E h : P(h) BY <1>2 DEF Adds, Picked
<1> DEFINE hh == CHOOSE h : P(h)
<1>5. P(hh)
  <2> HIDE DEF P
  <2> QED BY <1>4
<1>6. Adds(hh, f, T)
  <2> HIDE DEF hh
  <2> QED BY <1>5 DEF Adds, Picked
<1> HIDE DEF hh
<1>7. g[T] = hh[T] BY <1>6, AddsUnique
<1> QED BY <1>3, <1>7 DEF hh

\* Nothing adds up to zero.
LEMMA SumEmpty ==
  ASSUME NEW f
  PROVE  Sum(f, {}) = 0
<1>1. Ints(f, {}) /\ IsFiniteSet({}) BY FS_EmptySet DEF Ints
<1>2. PICK g \in [SUBSET {} -> Int] : Adds(g, f, {}) BY <1>1, AddsExists
<1>3. Sum(f, {}) = g[{}] BY <1>1, <1>2, SumIs
<1> QED BY <1>2, <1>3 DEF Adds

\* Integers add up to an integer.
LEMMA SumInt ==
  ASSUME NEW S, IsFiniteSet(S), NEW f, Ints(f, S)
  PROVE  Sum(f, S) \in Int
<1>1. PICK g \in [SUBSET S -> Int] : Adds(g, f, S) BY AddsExists
<1>2. Sum(f, S) = g[S] BY <1>1, SumIs
<1> QED BY <1>2

\* Any element may be taken out first.
LEMMA SumRemove ==
  ASSUME NEW S, IsFiniteSet(S), NEW f, Ints(f, S), NEW x \in S
  PROVE  Sum(f, S) = f[x] + Sum(f, S \ {x})
<1>1. PICK g \in [SUBSET S -> Int] : Adds(g, f, S) BY AddsExists
<1>2. \A T \in SUBSET S : Sum(f, T) = g[T] BY <1>1, SumIs
<1> DEFINE F == {T \in SUBSET S : \E y \in T : g[T] # f[y] + g[T \ {y}]}
<1>3. SUFFICES ASSUME F # {} PROVE FALSE
  <2>1. F = {} => g[S] = f[x] + g[S \ {x}] OBVIOUS
  <2>2. Sum(f, S) = g[S] /\ Sum(f, S \ {x}) = g[S \ {x}] BY <1>2
  <2> QED BY <2>1, <2>2
<1> HIDE DEF F
<1>4. F \in SUBSET SUBSET S BY DEF F
<1>5. PICK T \in F : \A U \in F : ~ (U \subseteq T /\ U # T) BY <1>3, <1>4, SmallestSet
<1>6. PICK y \in T : g[T] # f[y] + g[T \ {y}] BY DEF F
<1>7. T \in SUBSET S /\ T # {} BY <1>6 DEF F
<1> DEFINE c == Picked(T)
<1>8. c \in T /\ c \in S /\ y \in S BY <1>7 DEF Picked
<1> HIDE DEF c
<1>9. g[T] = f[c] + g[T \ {c}] BY <1>1, <1>7 DEF Adds, c
<1>10. c # y BY <1>6, <1>9
<1> DEFINE R == (T \ {c}) \ {y}
<1>11. R = (T \ {y}) \ {c} OBVIOUS
<1>12. g[T \ {c}] = f[y] + g[R]
  <2>1. T \ {c} \notin F /\ T \ {c} \in SUBSET S /\ y \in T \ {c} BY <1>5, <1>7, <1>8, <1>10
  <2> QED BY <2>1 DEF F
<1>13. g[T \ {y}] = f[c] + g[R]
  <2>1. T \ {y} \notin F /\ T \ {y} \in SUBSET S /\ c \in T \ {y} BY <1>5, <1>7, <1>8, <1>10
  <2>2. g[T \ {y}] = f[c] + g[(T \ {y}) \ {c}] BY <2>1 DEF F
  <2> QED BY <2>2, <1>11
<1>14. f[c] \in Int /\ f[y] \in Int /\ g[R] \in Int BY <1>7, <1>8 DEF Ints
<1> HIDE DEF R
<1> QED BY <1>6, <1>9, <1>12, <1>13, <1>14

\* An element more adds its value.
LEMMA SumAdd ==
  ASSUME NEW S, IsFiniteSet(S), NEW f, NEW x, x \notin S, Ints(f, S \cup {x})
  PROVE  Sum(f, S \cup {x}) = f[x] + Sum(f, S)
<1>1. IsFiniteSet(S \cup {x}) /\ x \in S \cup {x} /\ (S \cup {x}) \ {x} = S BY FS_AddElement
<1> QED BY <1>1, SumRemove

\* The sum over one element.
LEMMA SumSingle ==
  ASSUME NEW f, NEW x, f[x] \in Int
  PROVE  Sum(f, {x}) = f[x]
<1>1. IsFiniteSet({}) /\ {} \cup {x} = {x} BY FS_EmptySet
<1>2. Ints(f, {} \cup {x}) BY DEF Ints
<1>3. Sum(f, {} \cup {x}) = f[x] + Sum(f, {}) BY <1>1, <1>2, SumAdd
<1> QED BY <1>1, <1>3, SumEmpty

\* The sum depends on the values on S alone.
LEMMA SumSame ==
  ASSUME NEW S, IsFiniteSet(S), NEW f, Ints(f, S), NEW g,
         \A x \in S : f[x] = g[x]
  PROVE  Sum(f, S) = Sum(g, S)
<1>1. Ints(g, S) BY DEF Ints
<1> DEFINE F == {T \in SUBSET S : Sum(f, T) # Sum(g, T)}
<1>2. SUFFICES ASSUME F # {} PROVE FALSE OBVIOUS
<1> HIDE DEF F
<1>3. F \in SUBSET SUBSET S BY DEF F
<1>4. PICK T \in F : \A U \in F : ~ (U \subseteq T /\ U # T) BY <1>2, <1>3, SmallestSet
<1>5. T \in SUBSET S /\ Sum(f, T) # Sum(g, T) BY DEF F
<1>6. IsFiniteSet(T) /\ Ints(f, T) /\ Ints(g, T) BY <1>1, <1>5, FS_Subset DEF Ints
<1>7. T # {} BY <1>5, SumEmpty
<1>8. PICK x : x \in T BY <1>7
<1>9. Sum(f, T) = f[x] + Sum(f, T \ {x}) BY <1>6, <1>8, SumRemove
<1>10. Sum(g, T) = g[x] + Sum(g, T \ {x}) BY <1>6, <1>8, SumRemove
<1>11. Sum(f, T \ {x}) = Sum(g, T \ {x}) BY <1>4, <1>5, <1>8 DEF F
<1> QED BY <1>5, <1>8, <1>9, <1>10, <1>11

\* The sum over two sets that have nothing in common.
LEMMA SumUnion ==
  ASSUME NEW S, IsFiniteSet(S), NEW R, IsFiniteSet(R), S \cap R = {},
         NEW f, Ints(f, S), Ints(f, R)
  PROVE  Sum(f, S \cup R) = Sum(f, S) + Sum(f, R)
<1> DEFINE F == {T \in SUBSET R : Sum(f, S \cup T) # Sum(f, S) + Sum(f, T)}
<1>1. SUFFICES ASSUME F # {} PROVE FALSE OBVIOUS
<1> HIDE DEF F
<1>2. F \in SUBSET SUBSET R BY DEF F
<1>3. PICK T \in F : \A U \in F : ~ (U \subseteq T /\ U # T) BY <1>1, <1>2, SmallestSet
<1>4. T \in SUBSET R /\ Sum(f, S \cup T) # Sum(f, S) + Sum(f, T) BY DEF F
<1>5. Sum(f, S) \in Int BY SumInt
<1>6. T # {}
  <2>1. ASSUME T = {} PROVE FALSE
    <3>1. S \cup T = S BY <2>1
    <3>2. Sum(f, T) = 0 BY <2>1, SumEmpty
    <3>3. \A a \in Int : a = a + 0 OBVIOUS
    <3> QED BY <1>4, <1>5, <3>1, <3>2, <3>3
  <2> QED BY <2>1
<1>7. PICK x : x \in T BY <1>6
<1> DEFINE U == T \ {x}
<1>8. U \in SUBSET R /\ U \notin F /\ IsFiniteSet(U) /\ x \notin U /\ T = U \cup {x}
  BY <1>3, <1>4, <1>7, FS_Subset
<1> HIDE DEF U
<1>9. Sum(f, S \cup U) = Sum(f, S) + Sum(f, U) BY <1>8 DEF F
<1>10. Sum(f, T) = f[x] + Sum(f, U) BY <1>4, <1>8, SumAdd DEF Ints
<1>11. /\ IsFiniteSet(S \cup U)
       /\ x \notin S \cup U
       /\ Ints(f, (S \cup U) \cup {x})
       /\ S \cup T = (S \cup U) \cup {x}
  BY <1>4, <1>7, <1>8, FS_Union DEF Ints
<1>12. Sum(f, S \cup T) = f[x] + Sum(f, S \cup U) BY <1>11, SumAdd
<1>13. f[x] \in Int /\ Sum(f, U) \in Int BY <1>4, <1>7, <1>8, SumInt DEF Ints
<1> QED BY <1>4, <1>5, <1>9, <1>10, <1>12, <1>13

\* The sum of a sum of functions.
LEMMA SumPlus ==
  ASSUME NEW S, IsFiniteSet(S), NEW f, Ints(f, S), NEW g, Ints(g, S), NEW h,
         \A x \in S : h[x] = f[x] + g[x]
  PROVE  Sum(h, S) = Sum(f, S) + Sum(g, S)
<1> DEFINE F == {T \in SUBSET S : Sum(h, T) # Sum(f, T) + Sum(g, T)}
<1>1. SUFFICES ASSUME F # {} PROVE FALSE OBVIOUS
<1> HIDE DEF F
<1>2. F \in SUBSET SUBSET S BY DEF F
<1>3. PICK T \in F : \A U \in F : ~ (U \subseteq T /\ U # T) BY <1>1, <1>2, SmallestSet
<1>4. T \in SUBSET S /\ Sum(h, T) # Sum(f, T) + Sum(g, T) BY DEF F
<1>5. IsFiniteSet(T) /\ Ints(f, T) /\ Ints(g, T) /\ Ints(h, T) BY <1>4, FS_Subset DEF Ints
<1>6. T # {}
  <2>1. ASSUME T = {} PROVE FALSE
    <3>1. Sum(f, T) = 0 /\ Sum(g, T) = 0 /\ Sum(h, T) = 0 BY <2>1, SumEmpty
    <3> QED BY <1>4, <3>1
  <2> QED BY <2>1
<1>7. PICK x : x \in T BY <1>6
<1>8. Sum(f, T) = f[x] + Sum(f, T \ {x}) BY <1>5, <1>7, SumRemove
<1>9. Sum(g, T) = g[x] + Sum(g, T \ {x}) BY <1>5, <1>7, SumRemove
<1>10. Sum(h, T) = h[x] + Sum(h, T \ {x}) BY <1>5, <1>7, SumRemove
<1>11. Sum(h, T \ {x}) = Sum(f, T \ {x}) + Sum(g, T \ {x}) BY <1>3, <1>4, <1>7 DEF F
<1>12. IsFiniteSet(T \ {x}) /\ Ints(f, T \ {x}) /\ Ints(g, T \ {x}) BY <1>5, FS_Subset DEF Ints
<1>13. Sum(f, T \ {x}) \in Int /\ Sum(g, T \ {x}) \in Int BY <1>12, SumInt
<1>14. f[x] \in Int /\ g[x] \in Int /\ h[x] = f[x] + g[x] BY <1>4, <1>7 DEF Ints
<1> QED BY <1>4, <1>8, <1>9, <1>10, <1>11, <1>13, <1>14

\* Zeros add up to zero.
LEMMA SumZero ==
  ASSUME NEW S, IsFiniteSet(S), NEW f, \A x \in S : f[x] = 0
  PROVE  Sum(f, S) = 0
<1>1. Ints(f, S) BY DEF Ints
<1>2. Sum(f, S) = Sum(f, S) + Sum(f, S) BY <1>1, SumPlus
<1>3. Sum(f, S) \in Int BY <1>1, SumInt
<1>4. \A a \in Int : a = a + a => a = 0 OBVIOUS
<1> QED BY <1>2, <1>3, <1>4

\* A sum of naturals is a natural, and bounds each of them.
LEMMA SumAtLeast ==
  ASSUME NEW S, IsFiniteSet(S), NEW f, \A x \in S : f[x] \in Nat
  PROVE  /\ Sum(f, S) \in Nat
         /\ \A x \in S : f[x] <= Sum(f, S)
<1> DEFINE F == {T \in SUBSET S : Sum(f, T) \notin Nat}
<1>1. F = {}
  <2>1. SUFFICES ASSUME F # {} PROVE FALSE OBVIOUS
  <2> HIDE DEF F
  <2>2. F \in SUBSET SUBSET S BY DEF F
  <2>3. PICK T \in F : \A U \in F : ~ (U \subseteq T /\ U # T) BY <2>1, <2>2, SmallestSet
  <2>4. T \in SUBSET S /\ Sum(f, T) \notin Nat BY DEF F
  <2>5. IsFiniteSet(T) /\ Ints(f, T) BY <2>4, FS_Subset DEF Ints
  <2>6. PICK x : x \in T
    <3>1. Sum(f, {}) \in Nat BY SumEmpty
    <3> QED BY <2>4, <3>1
  <2>7. Sum(f, T) = f[x] + Sum(f, T \ {x}) BY <2>5, <2>6, SumRemove
  <2>8. Sum(f, T \ {x}) \in Nat BY <2>3, <2>4, <2>6 DEF F
  <2> QED BY <2>4, <2>6, <2>7, <2>8
<1>2. \A T \in SUBSET S : Sum(f, T) \in Nat BY <1>1
<1>3. ASSUME NEW x \in S PROVE f[x] <= Sum(f, S)
  <2>1. Sum(f, S) = f[x] + Sum(f, S \ {x}) BY SumRemove DEF Ints
  <2>2. Sum(f, S \ {x}) \in Nat BY <1>2
  <2> QED BY <2>1, <2>2
<1>4. S \in SUBSET S OBVIOUS
<1> QED BY <1>2, <1>3, <1>4

\* A function that is nowhere above another has no larger sum.
LEMMA SumAtMost ==
  ASSUME NEW S, IsFiniteSet(S), NEW f, Ints(f, S), NEW g, Ints(g, S),
         \A x \in S : f[x] <= g[x]
  PROVE  Sum(f, S) <= Sum(g, S)
<1> DEFINE h == [x \in S |-> g[x] - f[x]]
<1>1. \A x \in S : h[x] \in Nat /\ g[x] = f[x] + h[x] BY DEF Ints
<1>2. Ints(h, S) BY <1>1 DEF Ints
<1> HIDE DEF h
<1>3. Sum(g, S) = Sum(f, S) + Sum(h, S) BY <1>1, <1>2, SumPlus
<1>4. Sum(h, S) \in Nat BY <1>1, SumAtLeast
<1>5. Sum(f, S) \in Int BY SumInt
<1> QED BY <1>3, <1>4, <1>5

\* The elements that f puts into part i.
Fiber(f, V, i) == {v \in V : f[v] = i}

\* A finite set counted part by part.
LEMMA CountByParts ==
  ASSUME NEW V, IsFiniteSet(V), NEW I, IsFiniteSet(I), NEW f, \A v \in V : f[v] \in I,
         NEW g, \A i \in I : g[i] = Cardinality(Fiber(f, V, i))
  PROVE  Sum(g, I) = Cardinality(V)
<1> DEFINE In(T) == {v \in V : f[v] \in T}
           F == {T \in SUBSET I : Sum(g, T) # Cardinality(In(T))}
<1>1. \A T : IsFiniteSet(In(T)) /\ Cardinality(In(T)) \in Nat
  <2> TAKE T
  <2>1. IsFiniteSet(In(T)) BY FS_Subset
  <2> QED BY <2>1, FS_CardinalityType
<1>2. Ints(g, I)
  <2> SUFFICES ASSUME NEW i \in I
               PROVE  g[i] \in Int
    BY DEF Ints
  <2>1. Fiber(f, V, i) = In({i}) BY DEF Fiber
  <2> HIDE DEF In
  <2> QED BY <1>1, <2>1
<1>3. F = {}
  <2>1. SUFFICES ASSUME F # {} PROVE FALSE OBVIOUS
  <2> HIDE DEF F
  <2>2. F \in SUBSET SUBSET I BY DEF F
  <2>3. PICK T \in F : \A U \in F : ~ (U \subseteq T /\ U # T) BY <2>1, <2>2, SmallestSet
  <2>4. T \in SUBSET I /\ Sum(g, T) # Cardinality(In(T)) BY DEF F
  <2>5. IsFiniteSet(T) /\ Ints(g, T) BY <1>2, <2>4, FS_Subset DEF Ints
  <2>6. PICK x : x \in T
    <3>1. In({}) = {} OBVIOUS
    <3>2. Sum(g, {}) = 0 /\ Cardinality({}) = 0 BY SumEmpty, FS_EmptySet
    <3> QED BY <2>4, <3>1, <3>2
  <2> DEFINE U == T \ {x}
             A == Fiber(f, V, x)
  <2>7. Sum(g, T) = g[x] + Sum(g, U) BY <2>5, <2>6, SumRemove
  <2>8. Sum(g, U) = Cardinality(In(U))
    <3>1. U \in SUBSET I /\ U \subseteq T /\ U # T BY <2>4, <2>6
    <3> QED BY <2>3, <3>1 DEF F
  <2>9. g[x] = Cardinality(A) BY <2>4, <2>6
  <2>10. In(T) = In(U) \cup A /\ In(U) \cap A = {} /\ A = In({x}) BY <2>6 DEF Fiber
  <2> HIDE DEF In, A, U
  <2>11. Cardinality(In(T)) = Cardinality(In(U)) + Cardinality(A) - Cardinality(In(U) \cap A)
    BY <1>1, <2>10, FS_Union
  <2>12. Cardinality(In(U) \cap A) = 0 BY <2>10, FS_EmptySet
  <2> QED BY <1>1, <2>4, <2>7, <2>8, <2>9, <2>10, <2>11, <2>12
<1>4. Sum(g, I) = Cardinality(In(I)) /\ In(I) = V BY <1>3
<1> QED BY <1>4

ImageOf(b, S) == {b[x] : x \in S}

\* The image of a finite set is finite.
LEMMA ImageFinite ==
  ASSUME NEW S, IsFiniteSet(S), NEW b
  PROVE  IsFiniteSet(ImageOf(b, S))
<1> DEFINE B == ImageOf(b, S)
<1>1. [x \in S |-> b[x]] \in Surjection(S, B) BY DEF Surjection, ImageOf
<1> HIDE DEF B
<1>2. IsFiniteSet(B) BY <1>1, FS_Surjection
<1> QED BY <1>2 DEF B

\* The sum over the image of S under an injection b.
LEMMA SumMoved ==
  ASSUME NEW S, IsFiniteSet(S), NEW b, NEW f, Ints(f, S), NEW g,
         \A x, y \in S : b[x] = b[y] => x = y,
         \A x \in S : g[b[x]] = f[x]
  PROVE  Sum(g, ImageOf(b, S)) = Sum(f, S)
<1> DEFINE F == {T \in SUBSET S : Sum(g, ImageOf(b, T)) # Sum(f, T)}
<1>1. SUFFICES ASSUME F # {} PROVE FALSE OBVIOUS
<1> HIDE DEF F
<1>2. F \in SUBSET SUBSET S BY DEF F
<1>3. PICK T \in F : \A U \in F : ~ (U \subseteq T /\ U # T) BY <1>1, <1>2, SmallestSet
<1>4. T \in SUBSET S /\ Sum(g, ImageOf(b, T)) # Sum(f, T) BY DEF F
<1>5. IsFiniteSet(T) /\ Ints(f, T) BY <1>4, FS_Subset DEF Ints
<1>6. T # {}
  <2>1. ASSUME T = {} PROVE FALSE
    <3>1. ImageOf(b, T) = {} BY <2>1 DEF ImageOf
    <3>2. Sum(f, T) = 0 /\ Sum(g, ImageOf(b, T)) = 0 BY <2>1, <3>1, SumEmpty
    <3> QED BY <1>4, <3>2
  <2> QED BY <2>1
<1>7. PICK x : x \in T BY <1>6
<1> DEFINE U == T \ {x}
           B == ImageOf(b, U)
<1>8. U \in SUBSET S /\ U \notin F /\ U \in SUBSET T BY <1>3, <1>4, <1>7
<1>9. Sum(g, B) = Sum(f, U) BY <1>8 DEF F
<1>10. ImageOf(b, T) = B \cup {b[x]} /\ b[x] \notin B BY <1>4, <1>7 DEF ImageOf
<1>11. IsFiniteSet(B) BY <1>5, FS_Subset, ImageFinite
<1>12. Ints(g, B \cup {b[x]}) BY <1>4, <1>7 DEF Ints, ImageOf
<1> HIDE DEF B
<1>13. Sum(g, B \cup {b[x]}) = g[b[x]] + Sum(g, B) BY <1>10, <1>11, <1>12, SumAdd
<1>14. Sum(f, T) = f[x] + Sum(f, U) BY <1>5, <1>7, SumRemove
<1>15. g[b[x]] = f[x] BY <1>4, <1>7
<1> QED BY <1>4, <1>9, <1>10, <1>13, <1>14, <1>15
----------------------------------------------------------------------------
(* Ranks *)

\* A set of integers; a definition, so that the provers see it only where it counts.
AreInts(K) == K \subseteq Int

\* A finite set of integers has a greatest element.
LEMMA Greatest ==
    ASSUME NEW K, AreInts(K), IsFiniteSet(K), K # {}
    PROVE  \E m \in K : \A k \in K : k <= m
<1> DEFINE Has(T) == \E m \in T : \A k \in T : k <= m
           F == {T \in SUBSET K : T # {} /\ ~ Has(T)}
<1>1. SUFFICES ASSUME F # {} PROVE FALSE
  <2>1. K \in SUBSET K OBVIOUS
  <2> QED BY <1>1, <2>1
<1> HIDE DEF F
<1>a. F \in SUBSET SUBSET K
  BY DEF F
<1>2. PICK T \in F : \A U \in F : ~ (U \subseteq T /\ U # T) BY <1>1, <1>a, SmallestSet
<1> USE DEF F
<1>3. PICK x \in T : TRUE OBVIOUS
<1>4. T \in SUBSET Int /\ ~ Has(T) /\ x \in Int BY DEF AreInts
<1>5. CASE T \ {x} = {}
  <2>1. \A k \in T : k = x BY <1>5
  <2> QED BY <1>3, <1>4, <2>1
<1>6. CASE T \ {x} # {}
  <2>1. Has(T \ {x})
    <3>1. T \ {x} \subseteq T /\ T \ {x} # T /\ T \ {x} \in SUBSET K BY <1>3
    <3> HIDE DEF Has
    <3> QED BY <1>2, <1>6, <3>1
  <2>2. PICK y \in T \ {x} : \A k \in T \ {x} : k <= y BY <2>1
  <2>3. y \in Int BY <1>4
  <2>4. CASE x <= y BY <1>4, <2>2, <2>3, <2>4
  <2>5. CASE y <= x
    <3>1. ASSUME NEW k \in T PROVE k <= x BY <1>4, <2>2, <2>3, <2>5
    <3> QED BY <1>3, <1>4, <3>1
  <2> QED BY <1>4, <2>3, <2>4, <2>5
<1> QED BY <1>5, <1>6

\* The elements of a finite set of integers are ranked from 1 on.
LEMMA Ranks ==
    ASSUME NEW K, AreInts(K), IsFiniteSet(K)
    PROVE  \A n \in 1..Cardinality(K) : \E i \in K : Cardinality({j \in K : j <= i}) = n
<1> DEFINE Has(T) == \A n \in 1..Cardinality(T) :
                        \E i \in T : Cardinality({j \in T : j <= i}) = n
           F == {T \in SUBSET K : ~ Has(T)}
<1>1. SUFFICES ASSUME F # {} PROVE FALSE
  <2>1. K \in SUBSET K OBVIOUS
  <2> QED BY <1>1, <2>1
<1> HIDE DEF F
<1>a. F \in SUBSET SUBSET K
  BY DEF F
<1>2. PICK T \in F : \A U \in F : ~ (U \subseteq T /\ U # T) BY <1>1, <1>a, SmallestSet
<1> USE DEF F
<1>3. T \in SUBSET Int /\ ~ Has(T) /\ T \subseteq K BY DEF AreInts
<1>4. IsFiniteSet(T) /\ Cardinality(T) \in Nat BY <1>3, FS_Subset, FS_CardinalityType
<1>5. PICK n \in 1..Cardinality(T) : ~ \E i \in T : Cardinality({j \in T : j <= i}) = n
  BY <1>3
<1>6. T # {} BY <1>4, <1>5, FS_EmptySet
<1>7. PICK m \in T : \A k \in T : k <= m BY <1>3, <1>4, <1>6, Greatest DEF AreInts
<1>8. CASE n = Cardinality(T)
  <2>1. {j \in T : j <= m} = T BY <1>7
  <2> QED BY <1>5, <1>8, <2>1
<1>9. CASE n # Cardinality(T)
  <2> DEFINE U == T \ {m}
  <2>1. Cardinality(U) = Cardinality(T) - 1 BY <1>4, FS_RemoveElement
  <2>2. Has(U)
    <3>1. U \in SUBSET K /\ U \subseteq T /\ U # T BY <1>3
    <3> HIDE DEF U, Has
    <3> QED BY <1>2, <3>1
  <2>3. n \in 1..Cardinality(U) BY <1>4, <1>5, <1>9, <2>1
  <2>4. PICK i \in U : Cardinality({j \in U : j <= i}) = n BY <2>2, <2>3
  <2>5. {j \in U : j <= i} = {j \in T : j <= i}
    <3>1. i \in Int /\ m \in Int /\ i <= m /\ i # m BY <1>3, <1>7
    <3>2. ~ (m <= i) BY <3>1
    <3> QED BY <3>2
  <2> QED BY <1>5, <2>4, <2>5
<1> QED BY <1>8, <1>9

\* The element of rank n.
Nth(K, n) == CHOOSE i \in K : Cardinality({j \in K : j <= i}) = n

LEMMA NthOf ==
    ASSUME NEW K, AreInts(K), IsFiniteSet(K), NEW n \in 1..Cardinality(K)
    PROVE  Nth(K, n) \in K /\ Cardinality({j \in K : j <= Nth(K, n)}) = n
<1>1. \E i \in K : Cardinality({j \in K : j <= i}) = n BY Ranks
<1> QED BY <1>1 DEF Nth

===============================================================================
