-------------------------------- MODULE Sums --------------------------------
(***************************************************************************)
(* Induction over finite sets and what it shows of SumFunctionOnSet.       *)
(* A property is given as the set G of the sets that have it: the          *)
(* induction theorems of the library take an operator in its place.        *)
(***************************************************************************)
EXTENDS Integers, Functions, FiniteSetTheorems, TLAPS

\* What a finite set has as soon as its proper subsets have it, all have.
LEMMA FiniteInduction ==
  ASSUME NEW S, IsFiniteSet(S), NEW G,
         \A T \in SUBSET S :
           (\A U \in SUBSET T : U # T => U \in G) => T \in G
  PROVE  \A T \in SUBSET S : T \in G
<1> DEFINE Bad == {T \in FiniteSubsetsOf(S) : T \notin G}
<1>1. FiniteSubsetsOf(S) = SUBSET S
  BY FS_FiniteSubsetsOfFinite
<1> SUFFICES ASSUME Bad # {} PROVE FALSE
  BY <1>1
<1>2. Bad \subseteq FiniteSubsetsOf(S)
  OBVIOUS
<1>3. IsWellFoundedOn(StrictSubsetOrdering(S), FiniteSubsetsOf(S))
  BY FS_StrictSubsetOrderingWellFounded
<1>4. PICK T \in Bad : \A U \in Bad : ~(<<U, T>> \in StrictSubsetOrdering(S))
  <2> HIDE DEF Bad
  <2> QED BY <1>2, <1>3, WFMin
<1>5. ASSUME NEW U \in SUBSET T, U # T PROVE U \in G
  BY <1>1, <1>4, <1>5 DEF StrictSubsetOrdering
<1> QED
  BY <1>1, <1>4, <1>5

-----------------------------------------------------------------------------
(* The sum picks an element and goes on with the rest.                     *)

Chosen(s) == CHOOSE x \in s : TRUE
Rest(s) == s \ {Chosen(s)}

Picks(f, S, iter) ==
  iter = [s \in SUBSET S |->
            IF s = {} THEN 0 ELSE f[Chosen(s)] + iter[Rest(s)]]

LEMMA SumIsIter ==
  ASSUME NEW f, NEW S
  PROVE  SumFunctionOnSet(f, S) = (CHOOSE iter : Picks(f, S, iter))[S]
BY DEF SumFunctionOnSet, FoldFunctionOnSet, MapThenFoldSet, Picks, Rest, Chosen

LEMMA RestSmaller ==
  ASSUME NEW s, s # {}
  PROVE  Chosen(s) \in s /\ Rest(s) \in SUBSET s /\ Rest(s) # s
BY DEF Chosen, Rest

\* There is one way to do so.
LEMMA IterUnique ==
  ASSUME NEW f, NEW S, IsFiniteSet(S), NEW i, NEW j,
         Picks(f, S, i), Picks(f, S, j)
  PROVE  \A s \in SUBSET S : i[s] = j[s]
<1> DEFINE G == {s \in SUBSET S : i[s] = j[s]}
<1>1. ASSUME NEW T \in SUBSET S, \A U \in SUBSET T : U # T => U \in G
      PROVE  T \in G
  <2>1. CASE T = {}
    BY <2>1 DEF Picks
  <2>2. CASE T # {}
    <3>1. Rest(T) \in G
      BY <1>1, <2>2, RestSmaller
    <3>2. QED
      BY <2>2, <3>1 DEF Picks
  <2>3. QED
    BY <2>1, <2>2
<1> HIDE DEF G
<1>2. \A T \in SUBSET S : T \in G
  BY <1>1, FiniteInduction
<1>3. QED
  BY <1>2 DEF G

Unfolds(f, s) ==
  SumFunctionOnSet(f, s) =
    IF s = {} THEN 0 ELSE f[Chosen(s)] + SumFunctionOnSet(f, Rest(s))

\* The recursion of the sum is the one it is defined by.
LEMMA SumUnfolds ==
  ASSUME NEW f, NEW S, IsFiniteSet(S)
  PROVE  Unfolds(f, S)
<1> DEFINE G == {s \in SUBSET S : Unfolds(f, s)}
<1>1. ASSUME NEW T \in SUBSET S, \A U \in SUBSET T : U # T => U \in G
      PROVE  T \in G
  <2> DEFINE it == [s \in SUBSET T |->
                      IF s = {} THEN 0
                        ELSE f[Chosen(s)] + SumFunctionOnSet(f, Rest(s))]
             chosen == CHOOSE iter : Picks(f, T, iter)
  <2>1. ASSUME NEW s \in SUBSET T, s # {}
        PROVE  it[s] = f[Chosen(s)] + it[Rest(s)]
    <3>1. Rest(s) \in SUBSET T /\ Rest(s) # T
      BY <2>1, RestSmaller
    <3>2. Unfolds(f, Rest(s))
      BY <1>1, <3>1
    <3>3. it[Rest(s)] = SumFunctionOnSet(f, Rest(s))
      BY <3>1, <3>2 DEF Unfolds
    <3>4. QED
      BY <2>1, <3>3
  <2>2. Picks(f, T, it)
    BY <2>1 DEF Picks
  <2>3. Picks(f, T, chosen)
    BY <2>2
  <2>4. SumFunctionOnSet(f, T) = chosen[T]
    BY SumIsIter
  <2>5. IsFiniteSet(T)
    BY FS_Subset
  <2>6. chosen[T] = it[T]
    <3> HIDE DEF it, chosen
    <3> QED BY <2>2, <2>3, <2>5, IterUnique
  <2>7. QED
    BY <2>4, <2>6 DEF Unfolds
<1> HIDE DEF G
<1>2. \A T \in SUBSET S : T \in G
  BY <1>1, FiniteInduction
<1>3. QED
  BY <1>2 DEF G

-----------------------------------------------------------------------------
(* What follows of the sum.                                                *)

LEMMA SumEmpty == \A f : SumFunctionOnSet(f, {}) = 0
BY SumUnfolds, FS_EmptySet DEF Unfolds

\* A sum of integers is one.
LEMMA SumInt ==
  ASSUME NEW f, NEW S, IsFiniteSet(S), \A x \in S : f[x] \in Int
  PROVE  SumFunctionOnSet(f, S) \in Int
<1> DEFINE G == {s \in SUBSET S : SumFunctionOnSet(f, s) \in Int}
<1>1. ASSUME NEW T \in SUBSET S, \A U \in SUBSET T : U # T => U \in G
      PROVE  T \in G
  <2>1. Unfolds(f, T)
    BY SumUnfolds, FS_Subset
  <2>2. CASE T = {}
    BY <2>1, <2>2 DEF Unfolds
  <2>3. CASE T # {}
    <3>1. Chosen(T) \in T /\ Rest(T) \in G
      BY <1>1, <2>3, RestSmaller
    <3>2. QED
      BY <2>1, <2>3, <3>1 DEF Unfolds
  <2>4. QED
    BY <2>2, <2>3
<1> HIDE DEF G
<1>2. \A T \in SUBSET S : T \in G
  BY <1>1, FiniteInduction
<1>3. QED
  BY <1>2 DEF G

\* A sum of naturals is one.
LEMMA SumNat ==
  ASSUME NEW f, NEW S, IsFiniteSet(S), \A x \in S : f[x] \in Nat
  PROVE  SumFunctionOnSet(f, S) \in Nat
<1> DEFINE G == {s \in SUBSET S : SumFunctionOnSet(f, s) \in Nat}
<1>1. ASSUME NEW T \in SUBSET S, \A U \in SUBSET T : U # T => U \in G
      PROVE  T \in G
  <2>1. Unfolds(f, T)
    BY SumUnfolds, FS_Subset
  <2>2. CASE T = {}
    BY <2>1, <2>2 DEF Unfolds
  <2>3. CASE T # {}
    <3>1. Chosen(T) \in T /\ Rest(T) \in G
      BY <1>1, <2>3, RestSmaller
    <3>2. QED
      BY <2>1, <2>3, <3>1 DEF Unfolds
  <2>4. QED
    BY <2>2, <2>3
<1> HIDE DEF G
<1>2. \A T \in SUBSET S : T \in G
  BY <1>1, FiniteInduction
<1>3. QED
  BY <1>2 DEF G

\* Only the values on the set count.
LEMMA SumSame ==
  ASSUME NEW f, NEW g, NEW S, IsFiniteSet(S), \A x \in S : f[x] = g[x]
  PROVE  SumFunctionOnSet(f, S) = SumFunctionOnSet(g, S)
<1> DEFINE G == {s \in SUBSET S :
                   SumFunctionOnSet(f, s) = SumFunctionOnSet(g, s)}
<1>1. ASSUME NEW T \in SUBSET S, \A U \in SUBSET T : U # T => U \in G
      PROVE  T \in G
  <2>1. Unfolds(f, T) /\ Unfolds(g, T)
    BY SumUnfolds, FS_Subset
  <2>2. CASE T = {}
    BY <2>1, <2>2 DEF Unfolds
  <2>3. CASE T # {}
    <3>1. Chosen(T) \in T /\ Rest(T) \in G
      BY <1>1, <2>3, RestSmaller
    <3>2. QED
      BY <2>1, <2>3, <3>1 DEF Unfolds
  <2>4. QED
    BY <2>2, <2>3
<1> HIDE DEF G
<1>2. \A T \in SUBSET S : T \in G
  BY <1>1, FiniteInduction
<1>3. QED
  BY <1>2 DEF G

\* Any element may be taken out first.
LEMMA SumTakesOut ==
  ASSUME NEW f, NEW S, IsFiniteSet(S), \A y \in S : f[y] \in Int, NEW x \in S
  PROVE  SumFunctionOnSet(f, S) = f[x] + SumFunctionOnSet(f, S \ {x})
<1> DEFINE Out(s, y) ==
             SumFunctionOnSet(f, s) = f[y] + SumFunctionOnSet(f, s \ {y})
           G == {s \in SUBSET S : \A y \in s : Out(s, y)}
<1>1. ASSUME NEW T \in SUBSET S, \A U \in SUBSET T : U # T => U \in G
      PROVE  T \in G
  <2> SUFFICES ASSUME NEW y \in T PROVE Out(T, y)
    OBVIOUS
  <2> DEFINE c == Chosen(T)
  <2>1. c \in T /\ Rest(T) = T \ {c}
    BY RestSmaller DEF Rest
  <2>2. SumFunctionOnSet(f, T) = f[c] + SumFunctionOnSet(f, T \ {c})
    BY <2>1, SumUnfolds, FS_Subset DEF Unfolds
  <2> HIDE DEF c
  <2>3. CASE y = c
    BY <2>2, <2>3
  <2>4. CASE y # c
    <3>1. T \ {c} \in G /\ T \ {y} \in G
      BY <1>1, <2>1
    <3>2. /\ SumFunctionOnSet(f, T \ {c}) =
               f[y] + SumFunctionOnSet(f, (T \ {c}) \ {y})
          /\ SumFunctionOnSet(f, T \ {y}) =
               f[c] + SumFunctionOnSet(f, (T \ {y}) \ {c})
      BY <2>1, <2>4, <3>1
    <3>3. (T \ {c}) \ {y} = (T \ {y}) \ {c}
      OBVIOUS
    <3>4. /\ IsFiniteSet((T \ {y}) \ {c})
          /\ \A z \in (T \ {y}) \ {c} : f[z] \in Int
      BY FS_Subset
    <3>5. SumFunctionOnSet(f, (T \ {y}) \ {c}) \in Int
      BY <3>4, SumInt
    <3>6. f[y] \in Int /\ f[c] \in Int
      BY <2>1
    <3> DEFINE r == SumFunctionOnSet(f, (T \ {y}) \ {c})
    <3>7. SumFunctionOnSet(f, T) = f[c] + (f[y] + r)
      BY <2>2, <3>2, <3>3
    <3>8. SumFunctionOnSet(f, T \ {y}) = f[c] + r
      BY <3>2
    <3>9. r \in Int
      BY <3>5
    <3> HIDE DEF r
    <3>10. SumFunctionOnSet(f, T) = f[y] + SumFunctionOnSet(f, T \ {y})
      BY <3>6, <3>7, <3>8, <3>9
    <3>11. QED
      BY <3>10
  <2>5. QED
    BY <2>3, <2>4
<1> HIDE DEF G
<1>2. \A T \in SUBSET S : T \in G
  BY <1>1, FiniteInduction
<1>3. QED
  BY <1>2 DEF G

\* A sum over a single element.
LEMMA SumOne ==
  ASSUME NEW f, NEW x, NEW S, S = {x}, f[x] \in Int
  PROVE  SumFunctionOnSet(f, S) = f[x]
<1>1. IsFiniteSet(S)
  BY FS_Singleton
<1>2. \A y \in S : f[y] \in Int
  OBVIOUS
<1>3. x \in S /\ S \ {x} = {}
  OBVIOUS
<1>4. SumFunctionOnSet(f, S) = f[x] + SumFunctionOnSet(f, {})
  BY <1>1, <1>2, <1>3, SumTakesOut
<1>5. QED
  BY <1>4, SumEmpty

\* A sum over one element more.
LEMMA SumAdds ==
  ASSUME NEW f, NEW g, NEW S, NEW x, NEW T, T = S \cup {x}, x \notin S,
         IsFiniteSet(S), \A y \in T : g[y] \in Int, \A y \in S : f[y] = g[y]
  PROVE  /\ SumFunctionOnSet(f, S) \in Int
         /\ SumFunctionOnSet(g, T) = SumFunctionOnSet(f, S) + g[x]
<1>1. IsFiniteSet(T) /\ x \in T
  BY FS_AddElement
<1>2. T \ {x} = S
  OBVIOUS
<1>3. SumFunctionOnSet(g, T) = g[x] + SumFunctionOnSet(g, S)
  BY <1>1, <1>2, SumTakesOut
<1>4. SumFunctionOnSet(g, S) = SumFunctionOnSet(f, S)
  BY SumSame
<1>5. \A y \in S : f[y] \in Int
  OBVIOUS
<1>6. SumFunctionOnSet(f, S) \in Int
  BY <1>5, SumInt
<1>7. g[x] \in Int
  BY <1>1
<1>8. QED
  BY <1>3, <1>4, <1>6, <1>7

\* A sum of naturals over fewer elements is no larger.
LEMMA SumGrows ==
  ASSUME NEW f, NEW T, IsFiniteSet(T), \A x \in T : f[x] \in Nat,
         NEW S \in SUBSET T
  PROVE  SumFunctionOnSet(f, S) <= SumFunctionOnSet(f, T)
<1> DEFINE sum(s) == SumFunctionOnSet(f, s)
           G == {s \in SUBSET T : \A u \in SUBSET s : sum(u) <= sum(s)}
<1>1. ASSUME NEW s \in SUBSET T PROVE sum(s) \in Nat
  BY FS_Subset, SumNat
<1>2. ASSUME NEW s \in SUBSET T, \A u \in SUBSET s : u # s => u \in G
      PROVE  s \in G
  <2> SUFFICES ASSUME NEW u \in SUBSET s, u # s PROVE sum(u) <= sum(s)
    BY <1>1
  <2>1. PICK x \in s : x \notin u
    OBVIOUS
  <2> DEFINE r == s \ {x}
  <2>2. sum(s) = f[x] + sum(r)
    <3>1. IsFiniteSet(s) /\ \A y \in s : f[y] \in Int
      BY FS_Subset
    <3>2. QED
      BY <3>1, SumTakesOut
  <2>3. r \in G /\ u \in SUBSET r
    BY <1>2, <2>1
  <2>4. sum(u) <= sum(r) /\ sum(r) \in Nat /\ sum(u) \in Nat
    BY <1>1, <2>3
  <2>5. f[x] \in Nat
    OBVIOUS
  <2> HIDE DEF sum, r
  <2>6. QED
    BY <2>2, <2>4, <2>5
<1> HIDE DEF G
<1>3. \A s \in SUBSET T : s \in G
  BY <1>2, FiniteInduction
<1>4. QED
  BY <1>3 DEF G
=============================================================================
