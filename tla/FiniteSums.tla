----------------------------- MODULE FiniteSums -----------------------------
(***************************************************************************)
(* Facts about SumFunction (module Functions) over a finite domain: what   *)
(* the sum becomes when one value changes.                                 *)
(*                                                                         *)
(* SumFunction is a fold, defined by recursion over the subsets of the     *)
(* domain and an arbitrary choice of the next element.  The proofs are by  *)
(* induction over those subsets, in the form that has no operator for a    *)
(* parameter: a set of counterexamples would have a smallest one.          *)
(***************************************************************************)
EXTENDS Integers, FiniteSets, Functions, FiniteSetTheorems, TLAPS

\* A set of subsets of a finite set has a member no other is strictly within.
LEMMA SmallestSubset ==
    ASSUME NEW S, IsFiniteSet(S), NEW T \in SUBSET (SUBSET S), T # {}
    PROVE  \E U \in T : \A V \in SUBSET U : V # U => V \notin T
<1>1. \A U \in SUBSET S : IsFiniteSet(U)
  BY FS_Subset
<1>2. T \subseteq FiniteSubsetsOf(S)
  BY <1>1 DEF FiniteSubsetsOf
<1>3. IsWellFoundedOn(StrictSubsetOrdering(S), FiniteSubsetsOf(S))
  BY FS_StrictSubsetOrderingWellFounded
<1>4. PICK U \in T : \A V \in T : <<V, U>> \notin StrictSubsetOrdering(S)
  BY <1>2, <1>3, WFMin
<1>5. \A V \in SUBSET U : V # U /\ V \in T => FALSE
  BY <1>4 DEF StrictSubsetOrdering
<1> QED BY <1>5

\* The next element of the fold, and the recursion it obeys on the subsets of S.
Next1(U) == CHOOSE x \in U : TRUE
Sums(f, S, g) ==
    g = [U \in SUBSET S |-> IF U = {} THEN 0 ELSE f[Next1(U)] + g[U \ {Next1(U)}]]
TheSums(f, S) == CHOOSE g : Sums(f, S, g)

LEMMA NextOne == ASSUME NEW U, U # {} PROVE Next1(U) \in U
<1> QED BY DEF Next1

LEMMA SumUnfold ==
    ASSUME NEW f
    PROVE  SumFunction(f) = TheSums(f, DOMAIN f)[DOMAIN f]
<1> QED BY DEF SumFunction, SumFunctionOnSet, FoldFunctionOnSet, MapThenFoldSet,
               TheSums, Sums, Next1

LEMMA SumsAt ==
    ASSUME NEW f, NEW S, NEW g, Sums(f, S, g), NEW U \in SUBSET S
    PROVE  g[U] = IF U = {} THEN 0 ELSE f[Next1(U)] + g[U \ {Next1(U)}]
<1> QED BY DEF Sums

\* At most one function obeys the recursion.
LEMMA SumsUnique ==
    ASSUME NEW f, NEW S, IsFiniteSet(S), NEW g, NEW h, Sums(f, S, g), Sums(f, S, h)
    PROVE  g = h
<1> DEFINE T == {U \in SUBSET S : g[U] # h[U]}
<1>t. T \in SUBSET (SUBSET S)
  OBVIOUS
<1> HIDE DEF T
<1>1. CASE T # {}
  <2>1. PICK U \in T : \A V \in SUBSET U : V # U => V \notin T
    BY <1>1, <1>t, SmallestSubset
  <2>2. U \in SUBSET S /\ g[U] # h[U]
    BY DEF T
  <2>3. U # {}
    BY <2>2, SumsAt
  <2>4. U \ {Next1(U)} \in SUBSET U /\ U \ {Next1(U)} # U
    BY <2>3, NextOne
  <2>5. g[U \ {Next1(U)}] = h[U \ {Next1(U)}]
    BY <2>1, <2>2, <2>4 DEF T
  <2> QED BY <2>2, <2>3, <2>5, SumsAt
<1>2. CASE T = {}
  <2>1. \A U \in SUBSET S : g[U] = h[U]
    BY <1>2 DEF T
  <2>2. /\ g = [U \in SUBSET S |-> g[U]]
        /\ h = [U \in SUBSET S |-> h[U]]
    BY DEF Sums
  <2> QED BY <2>1, <2>2
<1> QED BY <1>1, <1>2

\* The recursion holds on the subsets of a subset.
LEMMA SumsBelow ==
    ASSUME NEW f, NEW S, NEW g, Sums(f, S, g), NEW V \in SUBSET S
    PROVE  Sums(f, V, [U \in SUBSET V |-> g[U]])
<1> DEFINE h == [U \in SUBSET V |-> g[U]]
<1>1. ASSUME NEW U \in SUBSET V
      PROVE  h[U] = IF U = {} THEN 0 ELSE f[Next1(U)] + h[U \ {Next1(U)}]
  <2>1. U \in SUBSET S /\ U \ {Next1(U)} \in SUBSET V
    OBVIOUS
  <2>2. g[U] = IF U = {} THEN 0 ELSE f[Next1(U)] + g[U \ {Next1(U)}]
    BY <2>1, SumsAt
  <2> QED BY <2>1, <2>2
<1>2. h = [U \in SUBSET V |-> IF U = {} THEN 0 ELSE f[Next1(U)] + h[U \ {Next1(U)}]]
  BY <1>1
<1> QED BY <1>2 DEF Sums

\* What the sum of a set is, once one exists for it.
LEMMA TheSumsStep ==
    ASSUME NEW f, NEW S, IsFiniteSet(S), S # {}, \E g : Sums(f, S, g)
    PROVE  TheSums(f, S)[S]
             = f[Next1(S)] + TheSums(f, S \ {Next1(S)})[S \ {Next1(S)}]
<1> DEFINE g == TheSums(f, S)
           V == S \ {Next1(S)}
           h == [U \in SUBSET V |-> g[U]]
<1>1. Sums(f, S, g)
  BY DEF TheSums
<1>2. Sums(f, V, h)
  BY <1>1, SumsBelow
<1>3. Sums(f, V, TheSums(f, V))
  BY <1>2 DEF TheSums
<1>4. IsFiniteSet(V)
  BY FS_Subset
<1>5. h = TheSums(f, V)
  BY <1>2, <1>3, <1>4, SumsUnique
<1>6. h[V] = g[V]
  OBVIOUS
<1>7. g[S] = f[Next1(S)] + g[V]
  BY <1>1, SumsAt
<1> QED BY <1>5, <1>6, <1>7

\* The recursion has a solution.
LEMMA SumsExist ==
    ASSUME NEW f, NEW S, IsFiniteSet(S)
    PROVE  Sums(f, S, TheSums(f, S))
<1> DEFINE T == {U \in SUBSET S : ~\E g : Sums(f, U, g)}
<1>t. T \in SUBSET (SUBSET S)
  OBVIOUS
<1> HIDE DEF T
<1>1. CASE T # {}
  <2>1. PICK U \in T : \A V \in SUBSET U : V # U => V \notin T
    BY <1>1, <1>t, SmallestSubset
  <2>2. U \in SUBSET S /\ ~\E g : Sums(f, U, g)
    BY DEF T
  <2>3. \A V \in SUBSET U : V # U => \E g : Sums(f, V, g)
    BY <2>1, <2>2 DEF T
  <2> DEFINE At(V) == TheSums(f, V)[V]
             Last == IF U = {} THEN 0 ELSE f[Next1(U)] + At(U \ {Next1(U)})
             h == [V \in SUBSET U |-> IF V = U THEN Last ELSE At(V)]
  <2>4. ASSUME NEW V \in SUBSET U
        PROVE  h[V] = IF V = {} THEN 0 ELSE f[Next1(V)] + h[V \ {Next1(V)}]
    <3>1. CASE V = {} /\ V # U
      <4>1. Sums(f, V, TheSums(f, V))
        BY <2>3, <3>1 DEF TheSums
      <4>2. At(V) = 0
        BY <3>1, <4>1, SumsAt
      <4> QED BY <3>1, <4>2
    <3>2. CASE V = {} /\ V = U
      BY <3>2
    <3>3. CASE V # {}
      <4>1. V \ {Next1(V)} \in SUBSET U /\ V \ {Next1(V)} # U
        BY <3>3, NextOne
      <4>2. h[V \ {Next1(V)}] = At(V \ {Next1(V)})
        BY <4>1
      <4>3. CASE V = U
        BY <3>3, <4>2, <4>3
      <4>4. CASE V # U
        <5>1. \E g : Sums(f, V, g)
          BY <2>3, <4>4
        <5>2. IsFiniteSet(V)
          BY <2>2, FS_Subset
        <5>3. At(V) = f[Next1(V)] + At(V \ {Next1(V)})
          BY <3>3, <5>1, <5>2, TheSumsStep
        <5> QED BY <3>3, <4>2, <4>4, <5>3
      <4> QED BY <4>3, <4>4
    <3> QED BY <3>1, <3>2, <3>3
  <2>5. h = [V \in SUBSET U |-> IF V = {} THEN 0 ELSE f[Next1(V)] + h[V \ {Next1(V)}]]
    <3> HIDE DEF Last, At
    <3> QED BY <2>4
  <2>6. Sums(f, U, h)
    BY <2>5 DEF Sums
  <2> QED BY <2>2, <2>6
<1>2. CASE T = {}
  <2>1. \E g : Sums(f, S, g)
    BY <1>2 DEF T
  <2> QED BY <2>1 DEF TheSums
<1> QED BY <1>1, <1>2

-----------------------------------------------------------------------------
\* Sums of natural numbers are natural numbers.
LEMMA SumsNat ==
    ASSUME NEW S, IsFiniteSet(S), NEW f \in [S -> Nat], NEW g, Sums(f, S, g)
    PROVE  \A U \in SUBSET S : g[U] \in Nat
<1> DEFINE T == {U \in SUBSET S : g[U] \notin Nat}
<1> SUFFICES ASSUME T # {} PROVE FALSE
  OBVIOUS
<1>t. T \in SUBSET (SUBSET S)
  OBVIOUS
<1> HIDE DEF T
<1>1. PICK U \in T : \A V \in SUBSET U : V # U => V \notin T
  BY <1>t, SmallestSubset
<1>2. U \in SUBSET S /\ g[U] \notin Nat
  BY DEF T
<1>3. U # {}
  BY <1>2, SumsAt
<1>4. Next1(U) \in U /\ U \ {Next1(U)} \in SUBSET U /\ U \ {Next1(U)} # U
  BY <1>3, NextOne
<1>5. g[U \ {Next1(U)}] \in Nat /\ f[Next1(U)] \in Nat
  BY <1>1, <1>2, <1>4 DEF T
<1>6. g[U] = f[Next1(U)] + g[U \ {Next1(U)}]
  <2>1. g[U] = IF U = {} THEN 0 ELSE f[Next1(U)] + g[U \ {Next1(U)}]
    BY <1>2, SumsAt
  <2> QED BY <1>3, <2>1
<1> QED BY <1>2, <1>5, <1>6

\* Any element may be taken first.
LEMMA SumsAny ==
    ASSUME NEW S, IsFiniteSet(S), NEW f \in [S -> Nat], NEW g, Sums(f, S, g)
    PROVE  \A U \in SUBSET S : \A x \in U : g[U] = f[x] + g[U \ {x}]
<1> DEFINE T == {U \in SUBSET S : \E x \in U : g[U] # f[x] + g[U \ {x}]}
<1> SUFFICES ASSUME T # {} PROVE FALSE
  OBVIOUS
<1>t. T \in SUBSET (SUBSET S)
  OBVIOUS
<1> HIDE DEF T
<1>1. PICK U \in T : \A V \in SUBSET U : V # U => V \notin T
  BY <1>t, SmallestSubset
<1>2. PICK x \in U : g[U] # f[x] + g[U \ {x}]
  BY DEF T
<1> DEFINE c == Next1(U)
<1>3. U \in SUBSET S /\ c \in U
  BY <1>2, NextOne DEF T
<1>4. g[U] = f[c] + g[U \ {c}]
  BY <1>2, <1>3, SumsAt
<1> HIDE DEF c
<1>5. x # c
  BY <1>2, <1>4
<1>6. g[U \ {c}] = f[x] + g[(U \ {c}) \ {x}]
  <2>1. U \ {c} \in SUBSET U /\ U \ {c} # U /\ U \ {c} \in SUBSET S /\ x \in U \ {c}
    BY <1>2, <1>3, <1>5
  <2>2. U \ {c} \notin T
    BY <1>1, <2>1
  <2> QED BY <2>1, <2>2 DEF T
<1>7. g[U \ {x}] = f[c] + g[(U \ {x}) \ {c}]
  <2>1. U \ {x} \in SUBSET U /\ U \ {x} # U /\ U \ {x} \in SUBSET S /\ c \in U \ {x}
    BY <1>2, <1>3, <1>5
  <2>2. U \ {x} \notin T
    BY <1>1, <2>1
  <2> QED BY <2>1, <2>2 DEF T
<1>8. (U \ {c}) \ {x} = (U \ {x}) \ {c}
  OBVIOUS
<1>9. f[x] \in Nat /\ f[c] \in Nat /\ g[(U \ {x}) \ {c}] \in Nat
  BY <1>2, <1>3, SumsNat
<1> DEFINE rest == g[(U \ {x}) \ {c}]
<1>10. g[U] = f[c] + (f[x] + rest) /\ g[U \ {x}] = f[c] + rest
  BY <1>4, <1>6, <1>7, <1>8
<1>11. rest \in Nat
  BY <1>9
<1> HIDE DEF rest
<1>12. f[c] + (f[x] + rest) = f[x] + (f[c] + rest)
  BY <1>9, <1>11
<1> QED BY <1>2, <1>10, <1>12

\* Functions that agree have the same sums.
LEMMA SumsAgree ==
    ASSUME NEW S, IsFiniteSet(S), NEW e, NEW f, NEW g, NEW h, Sums(e, S, g), Sums(f, S, h),
           NEW V \in SUBSET S, \A x \in V : e[x] = f[x]
    PROVE  g[V] = h[V]
<1> DEFINE T == {U \in SUBSET V : g[U] # h[U]}
<1> SUFFICES ASSUME T # {} PROVE FALSE
  OBVIOUS
<1>t. T \in SUBSET (SUBSET V)
  OBVIOUS
<1> HIDE DEF T
<1>1. PICK U \in T : \A W \in SUBSET U : W # U => W \notin T
  <2>1. IsFiniteSet(V)
    BY FS_Subset
  <2> QED BY <2>1, <1>t, SmallestSubset
<1>2. U \in SUBSET V /\ U \in SUBSET S /\ g[U] # h[U]
  BY DEF T
<1>3. U # {}
  BY <1>2, SumsAt
<1>4. Next1(U) \in U /\ U \ {Next1(U)} \in SUBSET U /\ U \ {Next1(U)} # U
  BY <1>3, NextOne
<1>5. g[U \ {Next1(U)}] = h[U \ {Next1(U)}] /\ e[Next1(U)] = f[Next1(U)]
  BY <1>1, <1>2, <1>4 DEF T
<1> QED BY <1>2, <1>3, <1>5, SumsAt

-----------------------------------------------------------------------------
\* The sum of natural numbers over a finite domain, when one of them changes.
THEOREM SumChanged ==
    ASSUME NEW S, IsFiniteSet(S), NEW f \in [S -> Nat], NEW g \in [S -> Nat],
           NEW s \in S, \A x \in S : x # s => g[x] = f[x]
    PROVE  /\ SumFunction(f) \in Nat /\ SumFunction(g) \in Nat
           /\ f[s] <= SumFunction(f)
           /\ SumFunction(g) = (SumFunction(f) - f[s]) + g[s]
<1> DEFINE F == TheSums(f, S)
           G == TheSums(g, S)
<1>1. SumFunction(f) = F[S] /\ SumFunction(g) = G[S]
  BY SumUnfold
<1>2. Sums(f, S, F) /\ Sums(g, S, G)
  BY SumsExist
<1> HIDE DEF F, G
<1>3. S \in SUBSET S /\ S \ {s} \in SUBSET S
  OBVIOUS
<1>4. F[S] = f[s] + F[S \ {s}] /\ G[S] = g[s] + G[S \ {s}]
  BY <1>2, <1>3, SumsAny
<1>5. F[S \ {s}] = G[S \ {s}]
  BY <1>2, <1>3, SumsAgree
<1>6. F[S \ {s}] \in Nat /\ f[s] \in Nat /\ g[s] \in Nat
  BY <1>2, <1>3, SumsNat
<1> QED BY <1>1, <1>4, <1>5, <1>6

\* The sum of nothing but zeros.
THEOREM SumZero ==
    ASSUME NEW S, IsFiniteSet(S), NEW f, f = [x \in S |-> 0]
    PROVE  SumFunction(f) = 0
<1> DEFINE F == TheSums(f, S)
           g == [U \in SUBSET S |-> 0]
<1>1. SumFunction(f) = F[S]
  BY SumUnfold
<1>2. Sums(f, S, F)
  BY SumsExist
<1>3. Sums(f, S, g)
  <2>1. ASSUME NEW U \in SUBSET S
        PROVE  0 = IF U = {} THEN 0 ELSE f[Next1(U)] + g[U \ {Next1(U)}]
    <3>1. CASE U # {}
      <4>1. Next1(U) \in S
        BY <3>1, NextOne
      <4> QED BY <3>1, <4>1
    <3> QED BY <3>1
  <2>2. g = [U \in SUBSET S |-> IF U = {} THEN 0 ELSE f[Next1(U)] + g[U \ {Next1(U)}]]
    BY <2>1
  <2> HIDE DEF g
  <2> QED BY <2>2 DEF Sums
<1> HIDE DEF F
<1>4. F = g
  BY <1>2, <1>3, SumsUnique
<1> QED BY <1>1, <1>4

-----------------------------------------------------------------------------
(* Folds in general: a step F from <<result so far, element>> to a result, and a choice P   *)
(* of the element a set has last.                                                           *)

FoldOn(F, base, P, S, g) ==
    g = [U \in SUBSET S |-> IF U = {} THEN base ELSE F[<<g[U \ {P[U]}], P[U]>>]]
TheFold(F, base, P, S) == CHOOSE g : FoldOn(F, base, P, S, g)

LEMMA FoldAt ==
    ASSUME NEW F, NEW base, NEW P, NEW S, NEW g, FoldOn(F, base, P, S, g), NEW U \in SUBSET S
    PROVE  g[U] = IF U = {} THEN base ELSE F[<<g[U \ {P[U]}], P[U]>>]
<1> QED BY DEF FoldOn

LEMMA FoldUnique ==
    ASSUME NEW F, NEW base, NEW P, NEW S, IsFiniteSet(S), \A U \in SUBSET S : U # {} => P[U] \in U,
           NEW g, NEW h, FoldOn(F, base, P, S, g), FoldOn(F, base, P, S, h)
    PROVE  g = h
<1> DEFINE T == {U \in SUBSET S : g[U] # h[U]}
<1>t. T \in SUBSET (SUBSET S)
  OBVIOUS
<1> HIDE DEF T
<1>1. CASE T # {}
  <2>1. PICK U \in T : \A V \in SUBSET U : V # U => V \notin T
    BY <1>1, <1>t, SmallestSubset
  <2>2. U \in SUBSET S /\ g[U] # h[U]
    BY DEF T
  <2>3. U # {}
    <3>1. g[U] = IF U = {} THEN base ELSE F[<<g[U \ {P[U]}], P[U]>>]
      BY <2>2, FoldAt
    <3>2. h[U] = IF U = {} THEN base ELSE F[<<h[U \ {P[U]}], P[U]>>]
      BY <2>2, FoldAt
    <3> QED BY <2>2, <3>1, <3>2
  <2>4. U \ {P[U]} \in SUBSET U /\ U \ {P[U]} # U
    BY <2>2, <2>3
  <2>5. g[U \ {P[U]}] = h[U \ {P[U]}]
    BY <2>1, <2>2, <2>4 DEF T
  <2>6. g[U] = F[<<g[U \ {P[U]}], P[U]>>] /\ h[U] = F[<<h[U \ {P[U]}], P[U]>>]
    BY <2>2, <2>3, FoldAt
  <2> QED BY <2>2, <2>5, <2>6
<1>2. CASE T = {}
  <2>1. \A U \in SUBSET S : g[U] = h[U]
    BY <1>2 DEF T
  <2>2. /\ g = [U \in SUBSET S |-> g[U]]
        /\ h = [U \in SUBSET S |-> h[U]]
    BY DEF FoldOn
  <2> QED BY <2>1, <2>2
<1> QED BY <1>1, <1>2

LEMMA FoldBelow ==
    ASSUME NEW F, NEW base, NEW P, NEW S, NEW g, FoldOn(F, base, P, S, g), NEW V \in SUBSET S,
           NEW h, h = [U \in SUBSET V |-> g[U]]
    PROVE  FoldOn(F, base, P, V, h)
<1>1. ASSUME NEW U \in SUBSET V
      PROVE  h[U] = IF U = {} THEN base ELSE F[<<h[U \ {P[U]}], P[U]>>]
  <2>1. U \in SUBSET S /\ U \ {P[U]} \in SUBSET V
    OBVIOUS
  <2>2. g[U] = IF U = {} THEN base ELSE F[<<g[U \ {P[U]}], P[U]>>]
    BY <2>1, FoldAt
  <2> QED BY <2>1, <2>2
<1>2. h = [U \in SUBSET V |-> IF U = {} THEN base ELSE F[<<h[U \ {P[U]}], P[U]>>]]
  BY <1>1
<1> QED BY <1>2 DEF FoldOn

LEMMA TheFoldStep ==
    ASSUME NEW F, NEW base, NEW P, NEW S, IsFiniteSet(S), \A U \in SUBSET S : U # {} => P[U] \in U,
           S # {}, \E g : FoldOn(F, base, P, S, g)
    PROVE  TheFold(F, base, P, S)[S]
             = F[<<TheFold(F, base, P, S \ {P[S]})[S \ {P[S]}], P[S]>>]
<1> DEFINE g == TheFold(F, base, P, S)
           V == S \ {P[S]}
           h == [U \in SUBSET V |-> g[U]]
<1>1. FoldOn(F, base, P, S, g)
  BY DEF TheFold
<1>2. FoldOn(F, base, P, V, h)
  <2>1. V \in SUBSET S
    OBVIOUS
  <2>2. h = [U \in SUBSET V |-> g[U]]
    OBVIOUS
  <2> HIDE DEF g, V, h
  <2> QED BY <1>1, <2>1, <2>2, FoldBelow
<1>3. FoldOn(F, base, P, V, TheFold(F, base, P, V))
  BY <1>2 DEF TheFold
<1>4. IsFiniteSet(V)
  BY FS_Subset
<1>5. h = TheFold(F, base, P, V)
  <2>1. \A U \in SUBSET V : U # {} => P[U] \in U
    OBVIOUS
  <2> HIDE DEF h, V
  <2> QED BY <1>2, <1>3, <1>4, <2>1, FoldUnique
<1>6. h[V] = g[V]
  OBVIOUS
<1>7. g[S] = F[<<g[V], P[S]>>]
  BY <1>1, FoldAt
<1> QED BY <1>5, <1>6, <1>7

\* A fold over a finite set is well defined.
THEOREM FoldExists ==
    ASSUME NEW F, NEW base, NEW P, NEW S, IsFiniteSet(S), \A U \in SUBSET S : U # {} => P[U] \in U
    PROVE  FoldOn(F, base, P, S, TheFold(F, base, P, S))
<1> DEFINE T == {U \in SUBSET S : ~\E g : FoldOn(F, base, P, U, g)}
<1>t. T \in SUBSET (SUBSET S)
  OBVIOUS
<1> HIDE DEF T
<1>1. CASE T # {}
  <2>1. PICK U \in T : \A V \in SUBSET U : V # U => V \notin T
    BY <1>1, <1>t, SmallestSubset
  <2>2. U \in SUBSET S /\ ~\E g : FoldOn(F, base, P, U, g)
    BY DEF T
  <2>3. \A V \in SUBSET U : V # U => \E g : FoldOn(F, base, P, V, g)
    BY <2>1, <2>2 DEF T
  <2> DEFINE At(V) == TheFold(F, base, P, V)[V]
             Final == IF U = {} THEN base ELSE F[<<At(U \ {P[U]}), P[U]>>]
             h == [V \in SUBSET U |-> IF V = U THEN Final ELSE At(V)]
  <2>4. ASSUME NEW V \in SUBSET U
        PROVE  h[V] = IF V = {} THEN base ELSE F[<<h[V \ {P[V]}], P[V]>>]
    <3>1. CASE V = {} /\ V # U
      <4>1. FoldOn(F, base, P, V, TheFold(F, base, P, V))
        BY <2>3, <3>1 DEF TheFold
      <4>2. At(V) = base
        <5> DEFINE g == TheFold(F, base, P, V)
        <5>1. FoldOn(F, base, P, V, g) /\ V \in SUBSET V
          BY <4>1
        <5> HIDE DEF g
        <5>2. g[V] = IF V = {} THEN base ELSE F[<<g[V \ {P[V]}], P[V]>>]
          BY <5>1, FoldAt
        <5>3. g[V] = base
          BY <3>1, <5>2
        <5> QED BY <5>3 DEF g
      <4> QED BY <3>1, <4>2
    <3>2. CASE V = {} /\ V = U
      BY <3>2
    <3>3. CASE V # {}
      <4>1. V \ {P[V]} \in SUBSET U /\ V \ {P[V]} # U
        BY <2>2, <3>3
      <4>2. h[V \ {P[V]}] = At(V \ {P[V]})
        BY <4>1
      <4>3. CASE V = U
        BY <3>3, <4>2, <4>3
      <4>4. CASE V # U
        <5>1. \E g : FoldOn(F, base, P, V, g)
          BY <2>3, <4>4
        <5>2. IsFiniteSet(V)
          BY <2>2, FS_Subset
        <5>4. \A W \in SUBSET V : W # {} => P[W] \in W
          BY <2>2
        <5>3. At(V) = F[<<At(V \ {P[V]}), P[V]>>]
          BY <3>3, <5>1, <5>2, <5>4, TheFoldStep
        <5> QED BY <3>3, <4>2, <4>4, <5>3
      <4> QED BY <4>3, <4>4
    <3> QED BY <3>1, <3>2, <3>3
  <2>5. h = [V \in SUBSET U |-> IF V = {} THEN base ELSE F[<<h[V \ {P[V]}], P[V]>>]]
    <3> HIDE DEF Final, At
    <3> QED BY <2>4
  <2>6. FoldOn(F, base, P, U, h)
    BY <2>5 DEF FoldOn
  <2> QED BY <2>2, <2>6
<1>2. CASE T = {}
  <2>1. \E g : FoldOn(F, base, P, S, g)
    BY <1>2 DEF T
  <2> QED BY <2>1 DEF TheFold
<1> QED BY <1>1, <1>2

\* A non-empty finite set of numbers has a largest.
THEOREM LargestOf ==
    ASSUME NEW S \in SUBSET Nat, IsFiniteSet(S), S # {}
    PROVE  \E x \in S : \A y \in S : x >= y
<1> DEFINE T == {U \in SUBSET S : U # {} /\ ~\E x \in U : \A y \in U : x >= y}
<1>t. T \in SUBSET (SUBSET S)
  OBVIOUS
<1> SUFFICES ASSUME T # {} PROVE FALSE
  OBVIOUS
<1> HIDE DEF T
<1>1. PICK U \in T : \A V \in SUBSET U : V # U => V \notin T
  BY <1>t, SmallestSubset
<1>2. U \in SUBSET S /\ U # {} /\ ~\E x \in U : \A y \in U : x >= y
  BY DEF T
<1>3. PICK z \in U : TRUE
  BY <1>2
<1>4. CASE U = {z}
  BY <1>2, <1>4
<1>5. CASE U # {z}
  <2>1. U \ {z} \in SUBSET U /\ U \ {z} # U /\ U \ {z} # {}
    BY <1>3, <1>5
  <2>2. \E x \in U \ {z} : \A y \in U \ {z} : x >= y
    BY <1>1, <1>2, <2>1 DEF T
  <2>3. PICK x \in U \ {z} : \A y \in U \ {z} : x >= y
    BY <2>2
  <2>4. x \in Nat /\ z \in Nat
    BY <1>2, <1>3, <2>3
  <2>5. CASE x >= z
    BY <1>2, <2>3, <2>4, <2>5
  <2>6. CASE ~(x >= z)
    <3>1. \A y \in U : z >= y
      BY <1>2, <2>3, <2>4, <2>6
    <3> QED BY <1>2, <1>3, <3>1
  <2> QED BY <2>5, <2>6
<1> QED BY <1>4, <1>5

-----------------------------------------------------------------------------
(* Totals: the sum of f over a finite set, which may be a part of its domain. *)

Total(f, S) == TheSums(f, S)[S]

\* The values that are added are natural numbers.
NatOn(f, S) == \A x \in S : f[x] \in Nat

LEMMA TotalNone == ASSUME NEW f PROVE Total(f, {}) = 0
<1>1. IsFiniteSet({})
  BY FS_EmptySet
<1>2. Sums(f, {}, TheSums(f, {}))
  BY <1>1, SumsExist
<1> QED BY <1>2, SumsAt DEF Total

\* Functions that agree on a set have the same total over it.
LEMMA TotalSame ==
    ASSUME NEW S, IsFiniteSet(S), NEW f, NEW g, \A x \in S : f[x] = g[x]
    PROVE  Total(f, S) = Total(g, S)
<1>1. Sums(f, S, TheSums(f, S)) /\ Sums(g, S, TheSums(g, S))
  BY SumsExist
<1> QED BY <1>1, SumsAgree DEF Total

\* What is within a set is part of its sums.
LEMMA TotalWithin ==
    ASSUME NEW S, IsFiniteSet(S), NEW f, NEW U \in SUBSET S
    PROVE  TheSums(f, S)[U] = Total(f, U)
<1> DEFINE g == TheSums(f, S)
           h == [V \in SUBSET U |-> g[V]]
<1>1. Sums(f, S, g)
  BY SumsExist
<1> HIDE DEF g
<1>2. Sums(f, U, h)
  BY <1>1, SumsBelow
<1>3. IsFiniteSet(U)
  BY FS_Subset
<1>4. Sums(f, U, TheSums(f, U))
  BY <1>3, SumsExist
<1>5. h = TheSums(f, U)
  <2> HIDE DEF h
  <2> QED BY <1>2, <1>3, <1>4, SumsUnique
<1>6. h[U] = g[U]
  OBVIOUS
<1>7. TheSums(f, U)[U] = g[U]
  BY <1>5, <1>6
<1> QED BY <1>7 DEF Total, g

LEMMA TotalNat ==
    ASSUME NEW S, IsFiniteSet(S), NEW f, NatOn(f, S)
    PROVE  Total(f, S) \in Nat
<1> DEFINE g == [x \in S |-> f[x]]
<1>1. g \in [S -> Nat] /\ \A x \in S : f[x] = g[x]
  BY DEF NatOn
<1> HIDE DEF g
<1>2. Sums(g, S, TheSums(g, S))
  BY SumsExist
<1>3. Total(g, S) \in Nat
  BY <1>1, <1>2, SumsNat DEF Total
<1>4. Total(f, S) = Total(g, S)
  BY <1>1, TotalSame
<1> QED BY <1>3, <1>4

\* Any element of the set may be taken apart.
LEMMA TotalApart ==
    ASSUME NEW S, IsFiniteSet(S), NEW f, NatOn(f, S), NEW x \in S
    PROVE  Total(f, S) = f[x] + Total(f, S \ {x})
<1> DEFINE g == [y \in S |-> f[y]]
<1>1. g \in [S -> Nat] /\ \A y \in S : f[y] = g[y]
  BY DEF NatOn
<1> HIDE DEF g
<1>2. Sums(g, S, TheSums(g, S))
  BY SumsExist
<1>3. TheSums(g, S)[S] = g[x] + TheSums(g, S)[S \ {x}]
  BY <1>1, <1>2, SumsAny
<1>4. TheSums(g, S)[S \ {x}] = Total(g, S \ {x})
  BY TotalWithin
<1>5. Total(f, S) = Total(g, S)
  BY <1>1, TotalSame
<1>6. IsFiniteSet(S \ {x})
  BY FS_Subset
<1>7. Total(f, S \ {x}) = Total(g, S \ {x})
  BY <1>1, <1>6, TotalSame
<1>8. Total(g, S) = TheSums(g, S)[S]
  BY DEF Total
<1> QED BY <1>1, <1>3, <1>4, <1>5, <1>7, <1>8

LEMMA TotalPlus ==
    ASSUME NEW S, IsFiniteSet(S), NEW f, NEW x, x \notin S, NatOn(f, S \cup {x})
    PROVE  Total(f, S \cup {x}) = f[x] + Total(f, S)
<1> DEFINE T == S \cup {x}
<1>1. IsFiniteSet(T) /\ x \in T /\ T \ {x} = S
  BY FS_AddElement
<1> HIDE DEF T
<1>2. NatOn(f, T)
  BY DEF T
<1>3. Total(f, T) = f[x] + Total(f, T \ {x})
  BY <1>1, <1>2, TotalApart
<1> QED BY <1>1, <1>3 DEF T

LEMMA TotalMore ==
    ASSUME NEW S, IsFiniteSet(S), NEW f, NEW x, x \notin S, NEW R, R = S \cup {x}, NatOn(f, R)
    PROVE  Total(f, R) = f[x] + Total(f, S)
<1> QED BY TotalPlus

\* The totals of two functions, and of two sets that have nothing in common, are added.
LEMMA TotalAdded ==
    ASSUME NEW S, IsFiniteSet(S), NEW f, NEW g, NEW h, NatOn(f, S), NatOn(g, S),
           \A x \in S : h[x] = f[x] + g[x]
    PROVE  Total(h, S) = Total(f, S) + Total(g, S)
<1> DEFINE T == {U \in SUBSET S : Total(h, U) # Total(f, U) + Total(g, U)}
<1> SUFFICES ASSUME T # {} PROVE FALSE
  BY DEF Total
<1>t. T \in SUBSET (SUBSET S)
  OBVIOUS
<1> HIDE DEF T
<1>1. PICK U \in T : \A V \in SUBSET U : V # U => V \notin T
  BY <1>t, SmallestSubset
<1>2. U \in SUBSET S /\ Total(h, U) # Total(f, U) + Total(g, U)
  BY DEF T
<1>3. U # {}
  BY <1>2, TotalNone
<1>4. PICK x \in U : TRUE
  BY <1>3
<1>5. Total(h, U \ {x}) = Total(f, U \ {x}) + Total(g, U \ {x})
  <2>1. U \ {x} \in SUBSET U /\ U \ {x} # U /\ U \ {x} \in SUBSET S
    BY <1>2, <1>4
  <2> QED BY <1>1, <2>1 DEF T
<1>6. IsFiniteSet(U) /\ NatOn(f, U) /\ NatOn(g, U) /\ NatOn(h, U)
  <2>1. IsFiniteSet(U)
    BY <1>2, FS_Subset
  <2>2. \A y \in S : h[y] \in Nat
    BY DEF NatOn
  <2> QED BY <1>2, <2>1, <2>2 DEF NatOn
<1>7. /\ Total(h, U) = h[x] + Total(h, U \ {x})
      /\ Total(f, U) = f[x] + Total(f, U \ {x})
      /\ Total(g, U) = g[x] + Total(g, U \ {x})
  BY <1>4, <1>6, TotalApart
<1>8. Total(f, U \ {x}) \in Nat /\ Total(g, U \ {x}) \in Nat
  <2>1. IsFiniteSet(U \ {x}) /\ NatOn(f, U \ {x}) /\ NatOn(g, U \ {x})
    BY <1>6, FS_Subset DEF NatOn
  <2> QED BY <2>1, TotalNat
<1>9. h[x] = f[x] + g[x] /\ f[x] \in Nat /\ g[x] \in Nat
  BY <1>2, <1>4, <1>6 DEF NatOn
<1> QED BY <1>2, <1>5, <1>7, <1>8, <1>9

LEMMA TotalUnion ==
    ASSUME NEW S, NEW R, IsFiniteSet(S), IsFiniteSet(R), S \cap R = {}, NEW f, NatOn(f, S \cup R)
    PROVE  Total(f, S \cup R) = Total(f, S) + Total(f, R)
<1> DEFINE T == {U \in SUBSET S : Total(f, U \cup R) # Total(f, U) + Total(f, R)}
<1> SUFFICES ASSUME T # {} PROVE FALSE
  OBVIOUS
<1>t. T \in SUBSET (SUBSET S)
  OBVIOUS
<1> HIDE DEF T
<1>1. PICK U \in T : \A V \in SUBSET U : V # U => V \notin T
  BY <1>t, SmallestSubset
<1>2. U \in SUBSET S /\ Total(f, U \cup R) # Total(f, U) + Total(f, R)
  BY DEF T
<1>0. Total(f, R) \in Nat
  <2>1. NatOn(f, R)
    BY DEF NatOn
  <2> QED BY <2>1, TotalNat
<1>3. U # {}
  <2>1. CASE U = {}
    <3>1. U \cup R = R
      BY <2>1
    <3> QED BY <1>0, <1>2, <2>1, <3>1, TotalNone
  <2> QED BY <2>1
<1>4. PICK x \in U : TRUE
  BY <1>3
<1> DEFINE V == U \ {x}
<1>v. V \in SUBSET U /\ V # U /\ V \in SUBSET S /\ IsFiniteSet(U) /\ IsFiniteSet(V) /\ IsFiniteSet(V \cup R)
      /\ x \notin V /\ x \notin V \cup R
  <2>1. IsFiniteSet(U)
    BY <1>2, FS_Subset
  <2>2. IsFiniteSet(V)
    BY <2>1, FS_Subset
  <2>3. IsFiniteSet(V \cup R)
    BY <2>2, FS_Union
  <2> QED BY <1>2, <1>4, <2>1, <2>2, <2>3
<1>5. Total(f, V \cup R) = Total(f, V) + Total(f, R)
  BY <1>1, <1>v DEF T
<1>6. U = V \cup {x} /\ U \cup R = (V \cup R) \cup {x}
  BY <1>4
<1> HIDE DEF V
<1>7. NatOn(f, V \cup {x}) /\ NatOn(f, (V \cup R) \cup {x}) /\ NatOn(f, V)
  BY <1>2, <1>6, <1>v DEF NatOn
<1>8. /\ Total(f, V \cup {x}) = f[x] + Total(f, V)
      /\ Total(f, (V \cup R) \cup {x}) = f[x] + Total(f, V \cup R)
  BY <1>7, <1>v, TotalPlus
<1>9. f[x] \in Nat /\ Total(f, V) \in Nat
  BY <1>7, <1>v, TotalNat DEF NatOn
<1>10. Total(f, U) = f[x] + Total(f, V)
  BY <1>6, <1>8
<1>11. Total(f, U \cup R) = f[x] + Total(f, V \cup R)
  BY <1>6, <1>8
<1>12. Total(f, U \cup R) = Total(f, U) + Total(f, R)
  BY <1>0, <1>5, <1>9, <1>10, <1>11
<1> QED BY <1>2, <1>12

\* Less of each, and fewer of them, is less in all.
LEMMA TotalLess ==
    ASSUME NEW S, IsFiniteSet(S), NEW f, NEW g, NatOn(f, S), NatOn(g, S), \A x \in S : f[x] <= g[x]
    PROVE  Total(f, S) <= Total(g, S)
<1> DEFINE d == [x \in S |-> g[x] - f[x]]
<1>1. NatOn(d, S) /\ \A x \in S : g[x] = f[x] + d[x]
  BY DEF NatOn
<1> HIDE DEF d
<1>2. Total(g, S) = Total(f, S) + Total(d, S)
  BY <1>1, TotalAdded
<1>3. Total(f, S) \in Nat /\ Total(d, S) \in Nat
  BY <1>1, TotalNat
<1> QED BY <1>2, <1>3

LEMMA TotalFewer ==
    ASSUME NEW S, IsFiniteSet(S), NEW f, NatOn(f, S), NEW R \in SUBSET S
    PROVE  Total(f, R) <= Total(f, S)
<1>1. IsFiniteSet(R) /\ IsFiniteSet(S \ R) /\ R \cap (S \ R) = {} /\ R \cup (S \ R) = S
  BY FS_Subset
<1>2. Total(f, S) = Total(f, R) + Total(f, S \ R)
  <2> DEFINE Q == S \ R
  <2>1. IsFiniteSet(R) /\ IsFiniteSet(Q) /\ R \cap Q = {} /\ R \cup Q = S
    BY <1>1
  <2> HIDE DEF Q
  <2>2. Total(f, R \cup Q) = Total(f, R) + Total(f, Q)
    BY <2>1, TotalUnion
  <2> QED BY <2>1, <2>2 DEF Q
<1>3. Total(f, R) \in Nat /\ Total(f, S \ R) \in Nat
  BY <1>1, TotalNat DEF NatOn
<1> QED BY <1>2, <1>3

\* A total that is not zero has a value that is not.
LEMMA TotalOfZeros ==
    ASSUME NEW S, IsFiniteSet(S), NEW f, \A x \in S : f[x] = 0
    PROVE  Total(f, S) = 0
<1>1. NatOn(f, S) /\ \A x \in S : f[x] = f[x] + f[x]
  BY DEF NatOn
<1>2. Total(f, S) = Total(f, S) + Total(f, S)
  BY <1>1, TotalAdded
<1>3. Total(f, S) \in Nat
  BY <1>1, TotalNat
<1> DEFINE n == Total(f, S)
<1> HIDE DEF n
<1>4. n = n + n /\ n \in Nat
  BY <1>2, <1>3 DEF n
<1>5. n = 0
  BY <1>4
<1> QED BY <1>5 DEF n

\* The image of a finite set is finite.
LEMMA ImageFinite ==
    ASSUME NEW S, IsFiniteSet(S), NEW h
    PROVE  IsFiniteSet({h[x] : x \in S}) /\ Cardinality({h[x] : x \in S}) <= Cardinality(S)
<1> DEFINE T == {h[x] : x \in S}
           g == [x \in S |-> h[x]]
<1>1. g \in Surjection(S, T)
  BY DEF Surjection
<1> HIDE DEF g, T
<1>2. IsFiniteSet(T) /\ Cardinality(T) <= Cardinality(S)
  BY <1>1, FS_Surjection
<1> QED BY <1>2 DEF T

\* The same values under other names have the same total.
LEMMA TotalRenamed ==
    ASSUME NEW S, IsFiniteSet(S), NEW f, NEW g, NEW h, NatOn(f, S),
           \A x \in S : g[h[x]] = f[x],
           \A x \in S : \A y \in S : h[x] = h[y] => x = y
    PROVE  Total(g, {h[x] : x \in S}) = Total(f, S)
<1> DEFINE Image(U) == {h[x] : x \in U}
           T == {U \in SUBSET S : Total(g, Image(U)) # Total(f, U)}
<1> SUFFICES ASSUME T # {} PROVE FALSE
  OBVIOUS
<1>t. T \in SUBSET (SUBSET S)
  OBVIOUS
<1> HIDE DEF T
<1>1. PICK U \in T : \A V \in SUBSET U : V # U => V \notin T
  BY <1>t, SmallestSubset
<1>2. U \in SUBSET S /\ Total(g, Image(U)) # Total(f, U)
  BY DEF T
<1>3. U # {}
  <2>1. CASE U = {}
    <3>1. Image(U) = {}
      BY <2>1
    <3> QED BY <1>2, <2>1, <3>1, TotalNone
  <2> QED BY <2>1
<1>4. PICK x \in U : TRUE
  BY <1>3
<1> DEFINE V == U \ {x}
<1>v. V \in SUBSET U /\ V # U /\ V \in SUBSET S /\ IsFiniteSet(V) /\ x \notin V
  <2>1. IsFiniteSet(V)
    BY <1>2, FS_Subset
  <2> QED BY <1>2, <1>4, <2>1
<1>5. Total(g, Image(V)) = Total(f, V)
  BY <1>1, <1>v DEF T
<1>6. U = V \cup {x} /\ Image(U) = Image(V) \cup {h[x]} /\ h[x] \notin Image(V)
  BY <1>2, <1>4
<1>7. IsFiniteSet(Image(V))
  BY <1>v, ImageFinite
<1> DEFINE W == Image(V)
<1>8. NatOn(g, W \cup {h[x]}) /\ NatOn(f, V \cup {x})
  BY <1>2, <1>4 DEF NatOn
<1> HIDE DEF W, V
<1>9. Total(f, V \cup {x}) = f[x] + Total(f, V)
  BY <1>8, <1>v, TotalPlus
<1>10. Total(g, W \cup {h[x]}) = g[h[x]] + Total(g, W)
  BY <1>6, <1>7, <1>8, TotalPlus DEF W
<1>11. g[h[x]] = f[x]
  BY <1>2, <1>4
<1> QED BY <1>2, <1>5, <1>6, <1>9, <1>10, <1>11 DEF W

\* What is added up by parts is added up.
PartOf(h, S, p) == {x \in S : h[x] = p}
PartsOf(h, S, P) == {x \in S : h[x] \in P}
LEMMA TotalByParts ==
    ASSUME NEW S, IsFiniteSet(S), NEW P, IsFiniteSet(P), NEW f, NatOn(f, S), NEW h, NEW g,
           \A p \in P : g[p] = Total(f, PartOf(h, S, p))
    PROVE  Total(g, P) = Total(f, PartsOf(h, S, P))
<1> DEFINE Of(Q) == PartsOf(h, S, Q)
           One(p) == PartOf(h, S, p)
           Bad == {Q \in SUBSET P : Total(g, Q) # Total(f, Of(Q))}
<1>1. \A Q : /\ Of(Q) \subseteq S /\ IsFiniteSet(Of(Q)) /\ NatOn(f, Of(Q))
  BY FS_Subset DEF NatOn, PartsOf
<1>2. \A p : /\ One(p) \subseteq S /\ IsFiniteSet(One(p)) /\ NatOn(f, One(p))
  BY FS_Subset DEF NatOn, PartOf
<1>3. \A p \in P : g[p] = Total(f, One(p)) /\ g[p] \in Nat
  <2> SUFFICES ASSUME NEW p \in P PROVE g[p] = Total(f, One(p)) /\ g[p] \in Nat
    OBVIOUS
  <2>1. g[p] = Total(f, One(p))
    OBVIOUS
  <2>2. IsFiniteSet(One(p)) /\ NatOn(f, One(p))
    BY <1>2
  <2> HIDE DEF One
  <2>3. Total(f, One(p)) \in Nat
    BY <2>2, TotalNat
  <2> QED BY <2>1, <2>3
<1>4. ASSUME NEW U \in Bad, \A V \in SUBSET U : V # U => V \notin Bad PROVE FALSE
  <2>1. U \subseteq P /\ Total(g, U) # Total(f, Of(U))
    OBVIOUS
  <2>2. U # {}
    <3>1. Of({}) = {}
      BY DEF PartsOf
    <3> HIDE DEF Of
    <3> QED BY <2>1, <3>1, TotalNone
  <2>3. PICK p \in U : TRUE
    BY <2>2
  <2> DEFINE V == U \ {p}
  <2>4. Total(g, V) = Total(f, Of(V))
    BY <1>4, <2>1, <2>3
  <2>5. IsFiniteSet(U) /\ NatOn(g, U)
    BY <1>3, <2>1, FS_Subset DEF NatOn
  <2>6. Total(g, U) = g[p] + Total(g, V)
    <3> HIDE DEF Bad
    <3> QED BY <2>3, <2>5, TotalApart
  <2>7. Of(U) = One(p) \cup Of(V) /\ One(p) \cap Of(V) = {}
    BY <2>3 DEF PartOf, PartsOf
  <2>8. NatOn(f, One(p) \cup Of(V))
    BY <1>1, <2>7
  <2> HIDE DEF Of, One, V, Bad
  <2>9. Total(f, One(p) \cup Of(V)) = Total(f, One(p)) + Total(f, Of(V))
    BY <1>1, <1>2, <2>7, <2>8, TotalUnion
  <2> QED BY <1>3, <2>1, <2>3, <2>4, <2>6, <2>7, <2>9
<1>5. Bad = {}
  <2>1. Bad \in SUBSET (SUBSET P)
    OBVIOUS
  <2> HIDE DEF Bad
  <2> SUFFICES ASSUME Bad # {} PROVE FALSE
    OBVIOUS
  <2>2. PICK U \in Bad : \A V \in SUBSET U : V # U => V \notin Bad
    BY <2>1, SmallestSubset
  <2> QED BY <1>4, <2>2
<1> QED BY <1>5
==============================================================================
