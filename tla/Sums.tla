---------------------------------- MODULE Sums ----------------------------------
(***************************************************************************)
(* What the sums of the models are: sales per variant, francs reserved by  *)
(* refunds, units merged into a cart.  SumFunctionOnSet(w, S) of the       *)
(* community modules is the sum of w[x] over the x of S, computed by a     *)
(* recursive function that takes the elements in the order CHOOSE has.     *)
(*                                                                         *)
(* The induction over finite sets is done by minimal counterexample: a     *)
(* family of subsets of a finite set has a member none of whose proper     *)
(* subsets is in the family (SubsetMinimal).  What the lemmas give is      *)
(* independent of the order: the sum is an integer, taking an element out  *)
(* takes its weight out, and changing one weight changes the sum by the    *)
(* difference.                                                             *)
(***************************************************************************)
EXTENDS Integers, FiniteSetsExt, FiniteSetTheorems, WellFoundedInduction, TLAPS

\* The element SumFunctionOnSet takes first.
Chosen(s) == CHOOSE x \in s : TRUE
\* One unfolding of the sum of w over the subsets of S.
Unfolded(w, S, g) == [s \in SUBSET S |->
                   IF s = {} THEN 0 ELSE w[Chosen(s)] + g[s \ {Chosen(s)}]]
\* The sums over the subsets of S.
Partial(w, S) == CHOOSE g : g = Unfolded(w, S, g)

\* The sum over S is what the recursive function of S gives for S.
LEMMA SumIsPartial ==
  ASSUME NEW w, NEW S
  PROVE  SumFunctionOnSet(w, S) = Partial(w, S)[S]
BY DEF SumFunctionOnSet, FoldFunctionOnSet, MapThenFoldSet, Partial, Unfolded, Chosen

\* A non-empty family of subsets of a finite set has a minimal member.
LEMMA SubsetMinimal ==
  ASSUME NEW S, IsFiniteSet(S), NEW T \in SUBSET SUBSET S, T # {}
  PROVE  \E A \in T : \A B \in SUBSET A : B # A => B \notin T
<1>1. IsWellFoundedOn(StrictSubsetOrdering(S), FiniteSubsetsOf(S))
  BY FS_StrictSubsetOrderingWellFounded
<1>2. FiniteSubsetsOf(S) = SUBSET S
  BY FS_FiniteSubsetsOfFinite
<1>3. IsWellFoundedOn(StrictSubsetOrdering(S), SUBSET S)
  BY <1>1, <1>2
<1>4. PICK A \in T : \A B \in T : ~ (<<B, A>> \in StrictSubsetOrdering(S))
  BY <1>3, WFMin
<1>5. ASSUME NEW B \in SUBSET A, B # A, B \in T PROVE FALSE
  BY <1>4, <1>5 DEF StrictSubsetOrdering
<1>. QED  BY <1>4, <1>5

\* g gives the sums over the subsets of S.
IsPartial(w, S, g) == g = Unfolded(w, S, g)

\* The element taken first is one of the set.
LEMMA ChosenIn == ASSUME NEW s, s # {} PROVE Chosen(s) \in s
BY DEF Chosen

\* Two functions that unfold alike agree where both are defined.
LEMMA PartialUnique ==
  ASSUME NEW w, NEW S, IsFiniteSet(S), NEW A \in SUBSET S, NEW g, NEW h,
         IsPartial(w, S, g), IsPartial(w, A, h), NEW s \in SUBSET A
  PROVE  g[s] = h[s]
<1>. DEFINE T == {t \in SUBSET A : g[t] # h[t]}
<1>1. SUFFICES ASSUME T # {} PROVE FALSE
  OBVIOUS
<1>2. IsFiniteSet(A)
  BY FS_Subset
<1>3. PICK t \in T : \A u \in SUBSET t : u # t => u \notin T
  BY <1>1, <1>2, SubsetMinimal
<1>4. \A u \in SUBSET A :
        /\ g[u] = IF u = {} THEN 0 ELSE w[Chosen(u)] + g[u \ {Chosen(u)}]
        /\ h[u] = IF u = {} THEN 0 ELSE w[Chosen(u)] + h[u \ {Chosen(u)}]
  <2>. TAKE u \in SUBSET A
  <2>1. g[u] = Unfolded(w, S, g)[u] /\ h[u] = Unfolded(w, A, h)[u]
    BY DEF IsPartial
  <2>. QED
    BY <2>1 DEF Unfolded
<1>5. t # {}
  BY <1>3, <1>4
<1>6. g[t \ {Chosen(t)}] = h[t \ {Chosen(t)}]
  BY <1>3, <1>5, ChosenIn
<1>. QED  BY <1>3, <1>4, <1>5, <1>6

\* The recursive function of a finite set exists, and so do those of its subsets.
LEMMA PartialExists ==
  ASSUME NEW w, NEW S, IsFiniteSet(S)
  PROVE  \A A \in SUBSET S : IsPartial(w, A, Partial(w, A))
<1>. DEFINE T == {A \in SUBSET S : ~ IsPartial(w, A, Partial(w, A))}
<1>1. SUFFICES ASSUME T # {} PROVE FALSE
  OBVIOUS
<1>2. PICK A \in T : \A B \in SUBSET A : B # A => B \notin T
  <2>1. T \in SUBSET SUBSET S
    OBVIOUS
  <2>. HIDE DEF T
  <2>. QED
    BY <1>1, <2>1, SubsetMinimal
<1>3. \A B \in SUBSET A : B # A => IsPartial(w, B, Partial(w, B))
  BY <1>2
<1>. DEFINE Rest(s) == s \ {Chosen(s)}
            G == [s \in SUBSET A |->
                   IF s = {} THEN 0 ELSE w[Chosen(s)] + Partial(w, Rest(s))[Rest(s)]]
<1>4. \A s \in SUBSET A : s # {} => Rest(s) \in SUBSET A /\ Rest(s) # A /\ Rest(s) \in SUBSET s
  BY ChosenIn
<1>5. \A s \in SUBSET A : s # {} => G[Rest(s)] = Partial(w, Rest(s))[Rest(s)]
  <2>. SUFFICES ASSUME NEW s \in SUBSET A, s # {}
                PROVE  G[Rest(s)] = Partial(w, Rest(s))[Rest(s)]
    OBVIOUS
  <2>. DEFINE t == Rest(s)
  <2>1. t \in SUBSET A /\ t # A
    BY <1>4
  <2>2. IsPartial(w, t, Partial(w, t))
    BY <2>1, <1>3
  <2>3. Partial(w, t)[t] = IF t = {} THEN 0 ELSE w[Chosen(t)] + Partial(w, t)[Rest(t)]
    <3>1. Partial(w, t)[t] = Unfolded(w, t, Partial(w, t))[t]
      BY <2>2 DEF IsPartial
    <3>. HIDE DEF t
    <3>. QED
      BY <3>1 DEF Unfolded
  <2>4. CASE t = {}
    BY <2>1, <2>3, <2>4
  <2>5. CASE t # {}
    <3>1. Rest(t) \in SUBSET A /\ Rest(t) # A /\ Rest(t) \in SUBSET t
      BY <2>1, <2>5, <1>4
    <3>2. IsPartial(w, Rest(t), Partial(w, Rest(t)))
      BY <3>1, <1>3
    <3>3. IsFiniteSet(t)
      BY <2>1, FS_Subset
    <3>4. Partial(w, t)[Rest(t)] = Partial(w, Rest(t))[Rest(t)]
      <4>. DEFINE v == Rest(t)
      <4>1. v \in SUBSET t /\ IsPartial(w, v, Partial(w, v)) /\ v \in SUBSET v
        BY <3>1, <3>2
      <4>. HIDE DEF t, v
      <4>2. Partial(w, t)[v] = Partial(w, v)[v]
        BY <4>1, <2>2, <3>3, PartialUnique
      <4>. QED
        BY <4>2 DEF v
    <3>. QED
      BY <2>1, <2>3, <2>5, <3>4
  <2>. QED
    BY <2>4, <2>5
<1>6. G = Unfolded(w, A, G)
  BY <1>5 DEF Unfolded
<1>7. Partial(w, A) = Unfolded(w, A, Partial(w, A))
  <2>. HIDE DEF G
  <2>. QED
    BY <1>6 DEF Partial
<1>. QED  BY <1>2, <1>7 DEF IsPartial

\* A sum is the weight of the element taken first and the sum of the others.
LEMMA SumUnfolds ==
  ASSUME NEW w, NEW S, IsFiniteSet(S), S # {}
  PROVE  SumFunctionOnSet(w, S) = w[Chosen(S)] + SumFunctionOnSet(w, S \ {Chosen(S)})
<1>. DEFINE R == S \ {Chosen(S)}
<1>1. IsPartial(w, S, Partial(w, S)) /\ IsPartial(w, R, Partial(w, R))
  BY PartialExists
<1>2. Partial(w, S)[S] = Unfolded(w, S, Partial(w, S))[S]
  BY <1>1 DEF IsPartial
<1>3. Partial(w, S)[S] = w[Chosen(S)] + Partial(w, S)[R]
  BY <1>2 DEF Unfolded
<1>4. Partial(w, S)[R] = Partial(w, R)[R]
  <2>1. R \in SUBSET S /\ R \in SUBSET R
    OBVIOUS
  <2>. HIDE DEF R
  <2>. QED
    BY <1>1, <2>1, PartialUnique
<1>5. /\ SumFunctionOnSet(w, S) = Partial(w, S)[S]
      /\ SumFunctionOnSet(w, R) = Partial(w, R)[R]
  BY SumIsPartial
<1>. HIDE DEF R
<1>6. SumFunctionOnSet(w, S) = w[Chosen(S)] + SumFunctionOnSet(w, R)
  BY <1>3, <1>4, <1>5
<1>. QED  BY <1>6 DEF R

\* The sum over nothing is 0.
LEMMA SumEmpty ==
  ASSUME NEW w
  PROVE  SumFunctionOnSet(w, {}) = 0
<1>1. IsPartial(w, {}, Partial(w, {}))
  BY PartialExists, FS_EmptySet
<1>2. Partial(w, {})[{}] = Unfolded(w, {}, Partial(w, {}))[{}]
  BY <1>1 DEF IsPartial
<1>. QED  BY <1>2, SumIsPartial DEF Unfolded

\* A sum of integers is an integer.
LEMMA SumInt ==
  ASSUME NEW w, NEW S, IsFiniteSet(S), \A x \in S : w[x] \in Int
  PROVE  SumFunctionOnSet(w, S) \in Int
<1>. DEFINE T == {A \in SUBSET S : SumFunctionOnSet(w, A) \notin Int}
<1>1. SUFFICES ASSUME T # {} PROVE FALSE
  OBVIOUS
<1>2. PICK A \in T : \A B \in SUBSET A : B # A => B \notin T
  <2>1. T \in SUBSET SUBSET S
    OBVIOUS
  <2>. HIDE DEF T
  <2>. QED
    BY <1>1, <2>1, SubsetMinimal
<1>3. IsFiniteSet(A)
  BY FS_Subset
<1>4. CASE A = {}
  BY <1>2, <1>4, SumEmpty
<1>5. CASE A # {}
  <2>. DEFINE c == Chosen(A)
  <2>1. c \in A
    BY <1>5, ChosenIn
  <2>2. A \ {c} \notin T
    BY <1>2, <2>1
  <2>3. SumFunctionOnSet(w, A \ {c}) \in Int
    BY <2>2
  <2>4. SumFunctionOnSet(w, A) = w[c] + SumFunctionOnSet(w, A \ {c})
    BY <1>3, <1>5, SumUnfolds
  <2>. QED
    BY <2>1, <2>3, <2>4, <1>2
<1>. QED  BY <1>4, <1>5

\* Any element may be taken first.
LEMMA SumRemove ==
  ASSUME NEW w, NEW S, IsFiniteSet(S), \A y \in S : w[y] \in Int, NEW x \in S
  PROVE  SumFunctionOnSet(w, S) = w[x] + SumFunctionOnSet(w, S \ {x})
<1>. DEFINE Sum(A) == SumFunctionOnSet(w, A)
            T == {A \in SUBSET S : \E y \in A : Sum(A) # w[y] + Sum(A \ {y})}
<1>1. SUFFICES ASSUME T # {} PROVE FALSE
  OBVIOUS
<1>2. PICK A \in T : \A B \in SUBSET A : B # A => B \notin T
  <2>1. T \in SUBSET SUBSET S
    OBVIOUS
  <2>. HIDE DEF T
  <2>. QED
    BY <1>1, <2>1, SubsetMinimal
<1>3. PICK y \in A : Sum(A) # w[y] + Sum(A \ {y})
  BY <1>2
<1>. DEFINE c == Chosen(A)
<1>4. c \in A /\ IsFiniteSet(A)
  BY <1>3, ChosenIn, FS_Subset
<1>5. Sum(A) = w[c] + Sum(A \ {c})
  BY <1>3, <1>4, SumUnfolds
<1>6. c # y
  BY <1>3, <1>5
<1>7. Sum(A \ {c}) = w[y] + Sum((A \ {c}) \ {y})
  <2>1. A \ {c} \notin T /\ A \ {c} \in SUBSET S /\ y \in A \ {c}
    BY <1>2, <1>4, <1>6
  <2>. HIDE DEF c, Sum
  <2>. QED
    BY <2>1
<1>8. Sum(A \ {y}) = w[c] + Sum((A \ {y}) \ {c})
  <2>1. A \ {y} \notin T /\ A \ {y} \in SUBSET S /\ c \in A \ {y}
    BY <1>2, <1>4, <1>6
  <2>. HIDE DEF c, Sum
  <2>. QED
    BY <2>1
<1>9. (A \ {c}) \ {y} = (A \ {y}) \ {c}
  OBVIOUS
<1>10. Sum((A \ {y}) \ {c}) \in Int /\ w[c] \in Int /\ w[y] \in Int
  <2>1. IsFiniteSet((A \ {y}) \ {c}) /\ \A z \in (A \ {y}) \ {c} : w[z] \in Int
    BY <1>4, FS_Subset
  <2>. QED
    BY <2>1, <1>4, SumInt
<1>11. Sum(A) = w[c] + (w[y] + Sum((A \ {y}) \ {c}))
  BY <1>5, <1>7, <1>9
<1>12. w[y] + Sum(A \ {y}) = w[y] + (w[c] + Sum((A \ {y}) \ {c}))
  BY <1>8
<1>. HIDE DEF Sum, c, T
<1>. QED  BY <1>3, <1>10, <1>11, <1>12

\* Equal weights have equal sums.
LEMMA SumAgrees ==
  ASSUME NEW w, NEW v, NEW S, IsFiniteSet(S), \A x \in S : w[x] = v[x]
  PROVE  SumFunctionOnSet(w, S) = SumFunctionOnSet(v, S)
<1>. DEFINE T == {A \in SUBSET S : SumFunctionOnSet(w, A) # SumFunctionOnSet(v, A)}
<1>1. SUFFICES ASSUME T # {} PROVE FALSE
  OBVIOUS
<1>2. PICK A \in T : \A B \in SUBSET A : B # A => B \notin T
  <2>1. T \in SUBSET SUBSET S
    OBVIOUS
  <2>. HIDE DEF T
  <2>. QED
    BY <1>1, <2>1, SubsetMinimal
<1>3. IsFiniteSet(A)
  BY FS_Subset
<1>4. CASE A = {}
  BY <1>2, <1>4, SumEmpty
<1>5. CASE A # {}
  <2>. DEFINE c == Chosen(A)
  <2>1. c \in A
    BY <1>5, ChosenIn
  <2>2. A \ {c} \notin T
    BY <1>2, <2>1
  <2>3. SumFunctionOnSet(w, A \ {c}) = SumFunctionOnSet(v, A \ {c})
    BY <2>2
  <2>4. /\ SumFunctionOnSet(w, A) = w[c] + SumFunctionOnSet(w, A \ {c})
        /\ SumFunctionOnSet(v, A) = v[c] + SumFunctionOnSet(v, A \ {c})
    BY <1>3, <1>5, SumUnfolds
  <2>. QED
    BY <2>1, <2>3, <2>4, <1>2
<1>. QED  BY <1>4, <1>5

\* Changing one weight changes the sum by the difference.
LEMMA SumUpdate ==
  ASSUME NEW w, NEW v, NEW S, IsFiniteSet(S), NEW x \in S,
         \A y \in S : w[y] \in Int, v[x] \in Int,
         \A y \in S \ {x} : v[y] = w[y]
  PROVE  SumFunctionOnSet(v, S) = SumFunctionOnSet(w, S) + v[x] - w[x]
<1>1. IsFiniteSet(S \ {x})
  BY FS_Subset
<1>2. SumFunctionOnSet(v, S \ {x}) = SumFunctionOnSet(w, S \ {x})
  BY <1>1, SumAgrees
<1>3. SumFunctionOnSet(w, S) = w[x] + SumFunctionOnSet(w, S \ {x})
  BY SumRemove
<1>4. SumFunctionOnSet(v, S) = v[x] + SumFunctionOnSet(v, S \ {x})
  BY SumRemove
<1>5. SumFunctionOnSet(w, S \ {x}) \in Int
  BY <1>1, SumInt
<1>. QED  BY <1>2, <1>3, <1>4, <1>5

\* A sum of naturals is a natural.
LEMMA SumNat ==
  ASSUME NEW w, NEW S, IsFiniteSet(S), \A x \in S : w[x] \in Nat
  PROVE  SumFunctionOnSet(w, S) \in Nat
<1>. DEFINE T == {A \in SUBSET S : SumFunctionOnSet(w, A) \notin Nat}
<1>1. SUFFICES ASSUME T # {} PROVE FALSE
  OBVIOUS
<1>2. PICK A \in T : \A B \in SUBSET A : B # A => B \notin T
  <2>1. T \in SUBSET SUBSET S
    OBVIOUS
  <2>. HIDE DEF T
  <2>. QED
    BY <1>1, <2>1, SubsetMinimal
<1>3. IsFiniteSet(A)
  BY FS_Subset
<1>4. CASE A = {}
  BY <1>2, <1>4, SumEmpty
<1>5. CASE A # {}
  <2>. DEFINE c == Chosen(A)
  <2>1. c \in A
    BY <1>5, ChosenIn
  <2>2. A \ {c} \notin T
    BY <1>2, <2>1
  <2>3. SumFunctionOnSet(w, A \ {c}) \in Nat
    BY <2>2
  <2>4. SumFunctionOnSet(w, A) = w[c] + SumFunctionOnSet(w, A \ {c})
    BY <1>3, <1>5, SumUnfolds
  <2>. QED
    BY <2>1, <2>3, <2>4, <1>2
<1>. QED  BY <1>4, <1>5

\* A sum of zeros is 0.
LEMMA SumZero ==
  ASSUME NEW w, NEW S, IsFiniteSet(S), \A x \in S : w[x] = 0
  PROVE  SumFunctionOnSet(w, S) = 0
<1>. DEFINE T == {A \in SUBSET S : SumFunctionOnSet(w, A) # 0}
<1>1. SUFFICES ASSUME T # {} PROVE FALSE
  OBVIOUS
<1>2. PICK A \in T : \A B \in SUBSET A : B # A => B \notin T
  <2>1. T \in SUBSET SUBSET S
    OBVIOUS
  <2>. HIDE DEF T
  <2>. QED
    BY <1>1, <2>1, SubsetMinimal
<1>3. IsFiniteSet(A)
  BY FS_Subset
<1>4. A # {}
  BY <1>2, SumEmpty
<1>. DEFINE c == Chosen(A)
<1>5. c \in A
  BY <1>4, ChosenIn
<1>6. A \ {c} \notin T
  BY <1>2, <1>5
<1>7. SumFunctionOnSet(w, A \ {c}) = 0
  BY <1>6
<1>8. SumFunctionOnSet(w, A) = w[c] + SumFunctionOnSet(w, A \ {c})
  BY <1>3, <1>4, SumUnfolds
<1>. QED  BY <1>2, <1>5, <1>7, <1>8
\* A part of a sum of naturals is no greater than the whole.
LEMMA SumSubset ==
  ASSUME NEW w, NEW S, IsFiniteSet(S), \A x \in S : w[x] \in Nat, NEW A \in SUBSET S
  PROVE  SumFunctionOnSet(w, A) <= SumFunctionOnSet(w, S)
<1>. DEFINE T == {B \in SUBSET S : A \subseteq B
                                   /\ ~(SumFunctionOnSet(w, A) <= SumFunctionOnSet(w, B))}
<1>1. SUFFICES ASSUME T # {} PROVE FALSE
  OBVIOUS
<1>2. PICK B \in T : \A C \in SUBSET B : C # B => C \notin T
  <2>1. T \in SUBSET SUBSET S
    OBVIOUS
  <2>. HIDE DEF T
  <2>. QED
    BY <1>1, <2>1, SubsetMinimal
<1>3. IsFiniteSet(B) /\ IsFiniteSet(A) /\ A \subseteq B
  BY FS_Subset
<1>4. SumFunctionOnSet(w, A) \in Nat
  BY <1>3, SumNat
<1>5. CASE A = B
  BY <1>2, <1>4, <1>5
<1>6. CASE A # B
  <2>1. PICK x \in B : x \notin A
    BY <1>3, <1>6
  <2>2. B \ {x} \notin T
    BY <1>2, <2>1
  <2>3. SumFunctionOnSet(w, A) <= SumFunctionOnSet(w, B \ {x})
    BY <1>2, <1>3, <2>1, <2>2
  <2>4. SumFunctionOnSet(w, B) = w[x] + SumFunctionOnSet(w, B \ {x})
    <3>1. \A y \in B : w[y] \in Int
      OBVIOUS
    <3>. QED  BY <1>3, <2>1, <3>1, SumRemove
  <2>5. SumFunctionOnSet(w, B \ {x}) \in Nat
    <3>1. IsFiniteSet(B \ {x}) /\ \A y \in B \ {x} : w[y] \in Nat
      BY <1>3, FS_Subset
    <3>. QED  BY <3>1, SumNat
  <2>. QED
    BY <1>2, <1>4, <2>1, <2>3, <2>4, <2>5
<1>. QED  BY <1>5, <1>6
=================================================================================
