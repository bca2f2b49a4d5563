----------------------------- MODULE Sums_proofs -----------------------------
(***************************************************************************)
(* Lemmas about SumOver for every finite set: it is the recursion it looks *)
(* like, it is an integer, it depends only on the values over S, and       *)
(* changing the function at one point changes the sum by that difference.  *)
(* A few facts about products and quotients of integers come last.         *)
(*                                                                         *)
(* Induction over data is done with sets: the least element of a set of    *)
(* naturals that would contain a counterexample.                           *)
(***************************************************************************)
EXTENDS Sums, FiniteSets, FiniteSetTheorems, WellFoundedInduction, TLAPS

Below == {p \in Nat \X Nat : p[1] < p[2]}

\* The order of the naturals, as a set of pairs, is well founded.
LEMMA BelowWellFounded == IsWellFoundedOn(Below, Nat)
  BY NatLessThanWellFounded, Zenon DEF OpToRel, Below

\* Every non-empty set of naturals has a least element.
LEMMA LeastNat ==
  ASSUME NEW T \in SUBSET Nat, T # {}
  PROVE  \E m \in T : \A k \in T : m <= k
<1>1. PICK m \in T : \A k \in T : <<k, m>> \notin Below
  BY BelowWellFounded, WFMin
<1>2. ASSUME NEW k \in T PROVE m <= k
  <2>1. m \in Nat /\ k \in Nat
    OBVIOUS
  <2>2. ~ (k < m)
    BY <1>1, <2>1 DEF Below
  <2>3. QED
    BY <2>1, <2>2
<1>3. QED
  BY <1>2

\* A set of naturals that contains 0 and is closed under successor is Nat.
LEMMA SetInduction ==
  ASSUME NEW T \in SUBSET Nat, 0 \in T, \A n \in Nat : n \in T => n + 1 \in T
  PROVE  T = Nat
<1> DEFINE F == Nat \ T
<1>1. CASE F = {}
  BY <1>1
<1>2. CASE F # {}
  <2>1. PICK m \in F : \A k \in F : m <= k
    BY <1>2, LeastNat
  <2>2. m # 0
    OBVIOUS
  <2>3. m - 1 \in Nat /\ m - 1 \notin F
    BY <2>1, <2>2
  <2>4. QED
    BY <2>3
<1>3. QED
  BY <1>1, <1>2
-----------------------------------------------------------------------------
\* One unfolding of the recursion, for a candidate g instead of SumOver's own.
Unfold(f, g, T) ==
    IF T = {} THEN 0
              ELSE f[CHOOSE y \in T : TRUE] + g[T \ {CHOOSE y \in T : TRUE}]

\* g follows the recursion on the subsets of S of at most n elements.
SumsUpTo(f, S, n, g) ==
    \A T \in SUBSET S : Cardinality(T) <= n => g[T] = Unfold(f, g, T)

\* Removing the chosen element makes a finite set one smaller.
LEMMA ChosenRemoved ==
  ASSUME NEW S, IsFiniteSet(S), NEW T \in SUBSET S, T # {}
  PROVE  LET x == CHOOSE y \in T : TRUE
         IN  /\ x \in T
             /\ T \ {x} \in SUBSET S
             /\ IsFiniteSet(T)
             /\ Cardinality(T) \in Nat \ {0}
             /\ Cardinality(T \ {x}) = Cardinality(T) - 1
<1> DEFINE x == CHOOSE y \in T : TRUE
<1>1. x \in T
  OBVIOUS
<1>2. IsFiniteSet(T)
  BY FS_Subset
<1>3. Cardinality(T \ {x}) = Cardinality(T) - 1
  BY <1>1, <1>2, FS_RemoveElement
<1>4. Cardinality(T) \in Nat \ {0}
  BY <1>2, FS_CardinalityType, FS_EmptySet
<1>5. QED
  BY <1>1, <1>2, <1>3, <1>4
\* For every n some function follows the recursion up to n elements.
LEMMA SumsUpToExists ==
  ASSUME NEW S, IsFiniteSet(S), NEW f, \A x \in S : f[x] \in Int
  PROVE  \A n \in Nat : \E g \in [SUBSET S -> Int] : SumsUpTo(f, S, n, g)
<1> DEFINE Good == {n \in Nat : \E g \in [SUBSET S -> Int] : SumsUpTo(f, S, n, g)}
<1>1. 0 \in Good
  <2> DEFINE g == [T \in SUBSET S |-> 0]
  <2>1. g \in [SUBSET S -> Int]
    OBVIOUS
  <2>2. ASSUME NEW T \in SUBSET S, Cardinality(T) <= 0
        PROVE  g[T] = Unfold(f, g, T)
    <3>1. T = {}
      <4> SUFFICES ASSUME T # {} PROVE FALSE
        OBVIOUS
      <4>1. Cardinality(T) \in Nat \ {0}
        BY ChosenRemoved
      <4>2. QED
        BY <2>2, <4>1
    <3>2. QED
      BY <3>1 DEF Unfold
  <2>3. SumsUpTo(f, S, 0, g)
    BY <2>2 DEF SumsUpTo
  <2>4. QED
    BY <2>1, <2>3
<1>2. ASSUME NEW n \in Nat, n \in Good
      PROVE  n + 1 \in Good
  <2>1. PICK g \in [SUBSET S -> Int] : SumsUpTo(f, S, n, g)
    BY <1>2
  <2> DEFINE h == [T \in SUBSET S |-> IF Cardinality(T) <= n THEN g[T] ELSE Unfold(f, g, T)]
  <2>2. h \in [SUBSET S -> Int]
    <3>1. ASSUME NEW T \in SUBSET S PROVE Unfold(f, g, T) \in Int
      <4>1. CASE T = {}
        BY <4>1 DEF Unfold
      <4>2. CASE T # {}
        BY <4>2, ChosenRemoved DEF Unfold
      <4>3. QED
        BY <4>1, <4>2
    <3>2. QED
      BY <3>1
  <2>3. ASSUME NEW T \in SUBSET S, Cardinality(T) <= n + 1
        PROVE  h[T] = Unfold(f, h, T)
    <3>1. CASE T = {}
      <4>1. Cardinality(T) = 0
        BY <3>1, FS_EmptySet
      <4>2. h[T] = g[T] /\ g[T] = Unfold(f, g, T)
        BY <2>1, <4>1 DEF SumsUpTo
      <4>3. QED
        BY <3>1, <4>2 DEF Unfold
    <3>2. CASE T # {}
      <4> DEFINE x == CHOOSE y \in T : TRUE
      <4>1. /\ x \in T
            /\ T \ {x} \in SUBSET S
            /\ Cardinality(T) \in Nat \ {0}
            /\ Cardinality(T \ {x}) = Cardinality(T) - 1
        BY <3>2, ChosenRemoved
      <4>2. Cardinality(T \ {x}) <= n
        BY <2>3, <4>1
      <4>3. h[T \ {x}] = g[T \ {x}]
        BY <4>1, <4>2
      <4>4. Unfold(f, h, T) = Unfold(f, g, T)
        BY <3>2, <4>3 DEF Unfold
      <4>5. h[T] = Unfold(f, g, T)
        BY <2>1 DEF SumsUpTo
      <4>6. QED
        BY <4>4, <4>5
    <3>3. QED
      BY <3>1, <3>2
  <2>4. SumsUpTo(f, S, n + 1, h)
    BY <2>3 DEF SumsUpTo
  <2>5. QED
    BY <2>2, <2>4
<1>3. Good = Nat
  <2>1. Good \in SUBSET Nat
    OBVIOUS
  <2> HIDE DEF Good
  <2>2. QED
    BY <1>1, <1>2, <2>1, SetInduction
<1>4. QED
  BY <1>3

\* g is the recursive function of SumOver(f, S).
Recursion(f, S, g) == g = [T \in SUBSET S |-> Unfold(f, g, T)]

\* SumOver's own recursive function exists on every finite set.
LEMMA RecursionExists ==
  ASSUME NEW S, IsFiniteSet(S), NEW f, \A x \in S : f[x] \in Int
  PROVE  \E g : Recursion(f, S, g)
<1>1. Cardinality(S) \in Nat
  BY FS_CardinalityType
<1>2. PICK g \in [SUBSET S -> Int] : SumsUpTo(f, S, Cardinality(S), g)
  BY <1>1, SumsUpToExists
<1>3. \A T \in SUBSET S : g[T] = Unfold(f, g, T)
  BY <1>2, FS_Subset DEF SumsUpTo
<1>4. Recursion(f, S, g)
  BY <1>3 DEF Recursion
<1>5. QED
  BY <1>4

\* The function SumOver picks: TotalsOf(f, S)[T] is the sum of f over T.
TotalsOf(f, S) == CHOOSE g : Recursion(f, S, g)

\* The recursion SumOver is defined by does what its equation says.
LEMMA TotalsOfUnfolds ==
  ASSUME NEW S, IsFiniteSet(S), NEW f, \A x \in S : f[x] \in Int
  PROVE  \A T \in SUBSET S : TotalsOf(f, S)[T] = Unfold(f, TotalsOf(f, S), T)
<1>1. \E g : Recursion(f, S, g)
  BY RecursionExists
<1>2. Recursion(f, S, TotalsOf(f, S))
  BY <1>1, Zenon DEF TotalsOf
<1>3. QED
  BY <1>2 DEF Recursion

\* SumOver is the value of that recursion at the whole set.
LEMMA SumOverIsTotalsOf ==
  ASSUME NEW S, NEW f
  PROVE  SumOver(f, S) = TotalsOf(f, S)[S]
  BY Zenon DEF SumOver, TotalsOf, Recursion, Unfold
-----------------------------------------------------------------------------
\* Two functions that differ at most at a have totals that differ by the
\* difference at a, over every subset that holds a, and are equal elsewhere.
LEMMA TotalsChange ==
  ASSUME NEW S, IsFiniteSet(S), NEW a \in S,
         NEW f, \A x \in S : f[x] \in Int,
         NEW h, \A x \in S : h[x] \in Int,
         \A x \in S \ {a} : f[x] = h[x]
  PROVE  \A T \in SUBSET S :
            /\ TotalsOf(f, S)[T] \in Int
            /\ TotalsOf(h, S)[T] = TotalsOf(f, S)[T] + (IF a \in T THEN h[a] - f[a] ELSE 0)
<1> DEFINE F == TotalsOf(f, S)
           H == TotalsOf(h, S)
           Claim(T) == F[T] \in Int /\ H[T] = F[T] + (IF a \in T THEN h[a] - f[a] ELSE 0)
           Good == {n \in Nat : \A T \in SUBSET S : Cardinality(T) = n => Claim(T)}
<1>1. \A T \in SUBSET S : F[T] = Unfold(f, F, T) /\ H[T] = Unfold(h, H, T)
  BY TotalsOfUnfolds
<1> HIDE DEF F, H
<1>2. 0 \in Good
  <2> SUFFICES ASSUME NEW T \in SUBSET S, Cardinality(T) = 0 PROVE Claim(T)
    OBVIOUS
  <2>1. T = {}
    <3> SUFFICES ASSUME T # {} PROVE FALSE
      OBVIOUS
    <3>1. QED
      BY ChosenRemoved
  <2>2. F[T] = 0 /\ H[T] = 0
    BY <1>1, <2>1 DEF Unfold
  <2>3. QED
    BY <2>1, <2>2
<1>3. ASSUME NEW n \in Nat, n \in Good PROVE n + 1 \in Good
  <2> SUFFICES ASSUME NEW T \in SUBSET S, Cardinality(T) = n + 1 PROVE Claim(T)
    OBVIOUS
  <2>1. T # {}
    <3>1. Cardinality({}) = 0 /\ n + 1 # 0
      BY FS_EmptySet
    <3>2. QED
      BY <3>1
  <2> DEFINE x == CHOOSE y \in T : TRUE
  <2>2. x \in T /\ T \ {x} \in SUBSET S /\ Cardinality(T \ {x}) = n
    BY <2>1, ChosenRemoved
  <2>3. F[T] = f[x] + F[T \ {x}] /\ H[T] = h[x] + H[T \ {x}]
    BY <1>1, <2>1 DEF Unfold
  <2> HIDE DEF x
  <2>4. Claim(T \ {x})
    BY <1>3, <2>2
  <2>5. f[x] \in Int /\ h[x] \in Int /\ f[a] \in Int /\ h[a] \in Int
    BY <2>2
  <2>6. CASE x = a
    BY <2>2, <2>3, <2>4, <2>5, <2>6
  <2>7. CASE x # a
    <3>1. f[x] = h[x]
      BY <2>2, <2>7
    <3>2. a \in T <=> a \in T \ {x}
      BY <2>7
    <3>3. QED
      BY <2>3, <2>4, <2>5, <3>1, <3>2
  <2>8. QED
    BY <2>6, <2>7
<1>4. Good = Nat
  <2>1. Good \in SUBSET Nat
    OBVIOUS
  <2> HIDE DEF Good
  <2>2. QED
    BY <1>2, <1>3, <2>1, SetInduction
<1>5. ASSUME NEW T \in SUBSET S PROVE Claim(T)
  <2>1. Cardinality(T) \in Nat
    BY FS_Subset, FS_CardinalityType
  <2>2. QED
    BY <1>4, <2>1
<1>6. QED
  BY <1>5 DEF F, H
-----------------------------------------------------------------------------
\* There is nothing to add up in the empty set.
LEMMA SumOverEmpty ==
  ASSUME NEW f
  PROVE  SumOver(f, {}) = 0
<1>1. IsFiniteSet({}) /\ {} \in SUBSET {} /\ \A x \in {} : f[x] \in Int
  BY FS_EmptySet
<1>2. TotalsOf(f, {})[{}] = Unfold(f, TotalsOf(f, {}), {})
  BY <1>1, TotalsOfUnfolds
<1>3. QED
  BY <1>2, SumOverIsTotalsOf DEF Unfold

\* A sum of integers is an integer.
LEMMA SumOverType ==
  ASSUME NEW S, IsFiniteSet(S), NEW f, \A x \in S : f[x] \in Int
  PROVE  SumOver(f, S) \in Int
<1>1. CASE S = {}
  BY <1>1, SumOverEmpty
<1>2. CASE S # {}
  <2>1. PICK a \in S : TRUE
    BY <1>2
  <2>2. \A T \in SUBSET S : TotalsOf(f, S)[T] \in Int
    BY <2>1, TotalsChange
  <2>3. S \in SUBSET S
    OBVIOUS
  <2>4. QED
    BY <2>2, <2>3, SumOverIsTotalsOf
<1>3. QED
  BY <1>1, <1>2

\* Changing a function at one point changes its sum by the same difference.
LEMMA SumOverChange ==
  ASSUME NEW S, IsFiniteSet(S), NEW a \in S,
         NEW f, \A x \in S : f[x] \in Int,
         NEW h, \A x \in S : h[x] \in Int,
         \A x \in S \ {a} : f[x] = h[x]
  PROVE  SumOver(h, S) = SumOver(f, S) + h[a] - f[a]
<1>1. S \in SUBSET S /\ a \in S /\ f[a] \in Int /\ h[a] \in Int
  OBVIOUS
<1>2. /\ TotalsOf(f, S)[S] \in Int
      /\ TotalsOf(h, S)[S] = TotalsOf(f, S)[S] + (IF a \in S THEN h[a] - f[a] ELSE 0)
  BY <1>1, TotalsChange
<1>3. QED
  BY <1>1, <1>2, SumOverIsTotalsOf

\* Functions that agree on S have the same sum over S.
LEMMA SumOverAgree ==
  ASSUME NEW S, IsFiniteSet(S),
         NEW f, \A x \in S : f[x] \in Int,
         NEW h, \A x \in S : h[x] = f[x]
  PROVE  SumOver(h, S) = SumOver(f, S)
<1>1. CASE S = {}
  BY <1>1, SumOverEmpty
<1>2. CASE S # {}
  <2>1. PICK a \in S : TRUE
    BY <1>2
  <2>2. /\ \A x \in S : h[x] \in Int
        /\ \A x \in S \ {a} : f[x] = h[x]
    OBVIOUS
  <2>3. SumOver(h, S) = SumOver(f, S) + h[a] - f[a]
    BY <2>1, <2>2, SumOverChange
  <2>4. QED
    BY <2>1, <2>3, SumOverType
<1>3. QED
  BY <1>1, <1>2

\* Moving q from a to b leaves the sum alone: the law of a transfer.
LEMMA SumOverMove ==
  ASSUME NEW S, IsFiniteSet(S), NEW a \in S, NEW b \in S, a # b, NEW q \in Int,
         NEW f, \A x \in S : f[x] \in Int,
         NEW h, \A x \in S \ {a, b} : h[x] = f[x],
         h[a] = f[a] - q, h[b] = f[b] + q
  PROVE  SumOver(h, S) = SumOver(f, S)
<1> DEFINE m == [x \in S |-> IF x = a THEN f[a] - q ELSE f[x]]
<1>1. \A x \in S : m[x] \in Int /\ h[x] \in Int
  OBVIOUS
<1>2. SumOver(m, S) = SumOver(f, S) + m[a] - f[a]
  <2>1. \A x \in S \ {a} : f[x] = m[x]
    OBVIOUS
  <2> HIDE DEF m
  <2>2. QED
    BY <1>1, <2>1, SumOverChange
<1>3. SumOver(h, S) = SumOver(m, S) + h[b] - m[b]
  <2>1. \A x \in S \ {b} : m[x] = h[x]
    OBVIOUS
  <2> HIDE DEF m
  <2>2. QED
    BY <1>1, <2>1, SumOverChange
<1>4. m[a] = f[a] - q /\ m[b] = f[b] /\ f[a] \in Int /\ f[b] \in Int
  OBVIOUS
<1>5. SumOver(f, S) \in Int
  BY SumOverType
<1> HIDE DEF m
<1>6. QED
  BY <1>2, <1>3, <1>4, <1>5

\* A sum of naturals is a natural, and it is 0 when every term is.
LEMMA SumOverNat ==
  ASSUME NEW S, IsFiniteSet(S), NEW f, \A x \in S : f[x] \in Nat
  PROVE  /\ SumOver(f, S) \in Nat
         /\ (\A x \in S : f[x] = 0) => SumOver(f, S) = 0
<1> DEFINE F == TotalsOf(f, S)
           Claim(T) == F[T] \in Nat /\ ((\A x \in S : f[x] = 0) => F[T] = 0)
           Good == {n \in Nat : \A T \in SUBSET S : Cardinality(T) = n => Claim(T)}
<1>1. \A T \in SUBSET S : F[T] = Unfold(f, F, T)
  <2>1. \A x \in S : f[x] \in Int
    OBVIOUS
  <2>2. QED
    BY <2>1, TotalsOfUnfolds
<1> HIDE DEF F
<1>2. 0 \in Good
  <2> SUFFICES ASSUME NEW T \in SUBSET S, Cardinality(T) = 0 PROVE Claim(T)
    OBVIOUS
  <2>1. T = {}
    <3> SUFFICES ASSUME T # {} PROVE FALSE
      OBVIOUS
    <3>1. QED
      BY ChosenRemoved
  <2>2. F[T] = 0
    BY <1>1, <2>1 DEF Unfold
  <2>3. QED
    BY <2>2
<1>3. ASSUME NEW n \in Nat, n \in Good PROVE n + 1 \in Good
  <2> SUFFICES ASSUME NEW T \in SUBSET S, Cardinality(T) = n + 1 PROVE Claim(T)
    OBVIOUS
  <2>1. T # {}
    <3>1. Cardinality({}) = 0 /\ n + 1 # 0
      BY FS_EmptySet
    <3>2. QED
      BY <3>1
  <2> DEFINE x == CHOOSE y \in T : TRUE
  <2>2. x \in T /\ T \ {x} \in SUBSET S /\ Cardinality(T \ {x}) = n
    BY <2>1, ChosenRemoved
  <2>3. F[T] = f[x] + F[T \ {x}]
    BY <1>1, <2>1 DEF Unfold
  <2> HIDE DEF x
  <2>4. Claim(T \ {x})
    BY <1>3, <2>2
  <2>5. f[x] \in Nat /\ x \in S
    BY <2>2
  <2>6. QED
    BY <2>3, <2>4, <2>5
<1>4. Good = Nat
  <2>1. Good \in SUBSET Nat
    OBVIOUS
  <2> HIDE DEF Good
  <2>2. QED
    BY <1>2, <1>3, <2>1, SetInduction
<1>5. Cardinality(S) \in Nat /\ S \in SUBSET S
  BY FS_CardinalityType
<1>6. Claim(S)
  BY <1>4, <1>5
<1>7. QED
  BY <1>6, SumOverIsTotalsOf DEF F

\* No term of a sum of naturals exceeds the sum.
LEMMA SumOverBound ==
  ASSUME NEW S, IsFiniteSet(S), NEW f, \A x \in S : f[x] \in Nat, NEW a \in S
  PROVE  f[a] <= SumOver(f, S)
<1> DEFINE m == [x \in S |-> IF x = a THEN 0 ELSE f[x]]
<1>1. \A x \in S : m[x] \in Nat /\ m[x] \in Int /\ f[x] \in Int
  OBVIOUS
<1>2. (\A x \in S \ {a} : f[x] = m[x]) /\ m[a] = 0
  OBVIOUS
<1> HIDE DEF m
<1>3. SumOver(m, S) = SumOver(f, S) + m[a] - f[a]
  BY <1>1, <1>2, SumOverChange
<1>4. SumOver(m, S) \in Nat /\ SumOver(f, S) \in Nat
  BY <1>1, SumOverNat
<1>5. QED
  BY <1>2, <1>3, <1>4

\* A function that changes on an injective image of R, by d there, has a total
\* that changes by the total of d: a row of a table, seen within the table.
LEMMA SumOverSlice ==
  ASSUME NEW S, IsFiniteSet(S), NEW R, IsFiniteSet(R),
         NEW e \in [R -> S], \A x, y \in R : e[x] = e[y] => x = y,
         NEW d, \A r \in R : d[r] \in Int,
         NEW f, \A s \in S : f[s] \in Int,
         NEW h, \A r \in R : h[e[r]] = f[e[r]] + d[r],
         \A s \in S : (\A r \in R : e[r] # s) => h[s] = f[s]
  PROVE  SumOver(h, S) = SumOver(f, S) + SumOver(d, R)
<1> DEFINE mid(T) == [s \in S |-> IF \E r \in T : e[r] = s THEN h[s] ELSE f[s]]
           D == TotalsOf(d, R)
           Claim(T) == SumOver(mid(T), S) = SumOver(f, S) + D[T]
           Good == {n \in Nat : \A T \in SUBSET R : Cardinality(T) = n => Claim(T)}
<1>1. \A T \in SUBSET R : D[T] = Unfold(d, D, T)
  BY TotalsOfUnfolds
<1>2. \A T \in SUBSET R : D[T] \in Int
  <2>1. CASE R = {}
    <3> SUFFICES ASSUME NEW T \in SUBSET R PROVE D[T] \in Int
      OBVIOUS
    <3>1. T = {}
      BY <2>1
    <3>2. Unfold(d, D, T) = 0
      BY <3>1 DEF Unfold
    <3> HIDE DEF D
    <3>3. QED
      BY <1>1, <3>2
  <2>2. CASE R # {}
    <3>1. PICK a \in R : TRUE
      BY <2>2
    <3>2. QED
      BY <3>1, TotalsChange
  <2>3. QED
    BY <2>1, <2>2
<1>3. \A s \in S : h[s] \in Int
  <2> SUFFICES ASSUME NEW s \in S PROVE h[s] \in Int
    OBVIOUS
  <2>1. CASE \E r \in R : e[r] = s
    BY <2>1
  <2>2. CASE \A r \in R : e[r] # s
    BY <2>2
  <2>3. QED
    BY <2>1, <2>2
<1>4. ASSUME NEW T PROVE \A s \in S : mid(T)[s] \in Int
  BY <1>3
<1>5. SumOver(f, S) \in Int
  BY SumOverType
<1> HIDE DEF D
<1>6. 0 \in Good
  <2> SUFFICES ASSUME NEW T \in SUBSET R, Cardinality(T) = 0 PROVE Claim(T)
    OBVIOUS
  <2>1. T = {}
    <3> SUFFICES ASSUME T # {} PROVE FALSE
      OBVIOUS
    <3>1. QED
      BY ChosenRemoved
  <2>2. D[T] = 0
    BY <1>1, <2>1 DEF Unfold
  <2>3. \A s \in S : mid(T)[s] = f[s]
    BY <2>1
  <2> HIDE DEF mid
  <2>4. SumOver(mid(T), S) = SumOver(f, S)
    BY <2>3, SumOverAgree
  <2>5. QED
    BY <1>5, <2>2, <2>4
<1>7. ASSUME NEW n \in Nat, n \in Good PROVE n + 1 \in Good
  <2> SUFFICES ASSUME NEW T \in SUBSET R, Cardinality(T) = n + 1 PROVE Claim(T)
    OBVIOUS
  <2>1. T # {}
    <3>1. Cardinality({}) # n + 1
      BY FS_EmptySet
    <3>2. QED
      BY <3>1, Zenon
  <2> DEFINE x == CHOOSE y \in T : TRUE
  <2>2. x \in T /\ T \ {x} \in SUBSET R /\ Cardinality(T \ {x}) = n
    <3>1. /\ x \in T
          /\ T \ {x} \in SUBSET R
          /\ Cardinality(T \ {x}) = Cardinality(T) - 1
      BY <2>1, ChosenRemoved, Zenon
    <3> HIDE DEF x
    <3>2. QED
      BY <3>1
  <2>3. D[T] = d[x] + D[T \ {x}]
    BY <1>1, <2>1 DEF Unfold
  <2> HIDE DEF x
  <2>4. Claim(T \ {x})
    BY <1>7, <2>2
  <2>5. x \in R /\ e[x] \in S /\ d[x] \in Int /\ f[e[x]] \in Int /\ D[T \ {x}] \in Int
    BY <1>2, <2>2
  <2>6. mid(T)[e[x]] = f[e[x]] + d[x]
    <3>1. \E r \in T : e[r] = e[x]
      BY <2>2
    <3>2. mid(T)[e[x]] = h[e[x]]
      BY <2>5, <3>1
    <3>3. QED
      BY <2>5, <3>2
  <2>7. mid(T \ {x})[e[x]] = f[e[x]]
    <3>1. ~ \E r \in T \ {x} : e[r] = e[x]
      BY <2>2
    <3>2. QED
      BY <2>5, <3>1
  <2>8. \A s \in S \ {e[x]} : mid(T \ {x})[s] = mid(T)[s]
    BY <2>2
  <2>9. \A s \in S : mid(T)[s] \in Int /\ mid(T \ {x})[s] \in Int
    BY <1>4
  <2> DEFINE g == mid(T \ {x})
             k == mid(T)
  <2> HIDE DEF mid
  <2>10. SumOver(k, S) = SumOver(g, S) + k[e[x]] - g[e[x]]
    <3>1. (\A s \in S : g[s] \in Int /\ k[s] \in Int) /\ \A s \in S \ {e[x]} : g[s] = k[s]
      BY <2>8, <2>9
    <3> HIDE DEF g, k
    <3>2. QED
      BY <2>5, <3>1, SumOverChange
  <2>11. SumOver(g, S) = SumOver(f, S) + D[T \ {x}]
    BY <2>4
  <2>12. QED
    BY <1>5, <2>3, <2>5, <2>6, <2>7, <2>10, <2>11
<1>8. Good = Nat
  <2>1. Good \in SUBSET Nat
    OBVIOUS
  <2> HIDE DEF Good
  <2>2. QED
    BY <1>6, <1>7, <2>1, SetInduction
<1>9. Claim(R)
  <2>1. Cardinality(R) \in Nat /\ R \in SUBSET R
    BY FS_CardinalityType
  <2>2. QED
    BY <1>8, <2>1
<1>10. \A s \in S : h[s] = mid(R)[s]
  OBVIOUS
<1>11. SumOver(mid(R), S) = SumOver(h, S)
  <2> DEFINE k == mid(R)
  <2>1. (\A s \in S : k[s] = h[s])
    BY <1>10
  <2> HIDE DEF k
  <2>2. QED
    BY <1>3, <2>1, SumOverAgree
<1>12. QED
  BY <1>9, <1>11, SumOverIsTotalsOf DEF D

\* A total of sums is the sum of the totals.
LEMMA SumOverAdd ==
  ASSUME NEW R, IsFiniteSet(R),
         NEW f, \A r \in R : f[r] \in Int,
         NEW d, \A r \in R : d[r] \in Int,
         NEW h, \A r \in R : h[r] = f[r] + d[r]
  PROVE  SumOver(h, R) = SumOver(f, R) + SumOver(d, R)
<1> DEFINE e == [r \in R |-> r]
<1>1. /\ e \in [R -> R]
      /\ \A x, y \in R : e[x] = e[y] => x = y
      /\ \A r \in R : h[e[r]] = f[e[r]] + d[r]
      /\ \A s \in R : (\A r \in R : e[r] # s) => h[s] = f[s]
  OBVIOUS
<1> HIDE DEF e
<1>2. QED
  BY <1>1, SumOverSlice

\* A sum over the part of a set outside of which there is nothing to add.
LEMMA SumOverPart ==
  ASSUME NEW S, IsFiniteSet(S), NEW R \in SUBSET S,
         NEW h, \A x \in S : h[x] \in Int, \A x \in S \ R : h[x] = 0,
         NEW d, \A x \in R : d[x] = h[x]
  PROVE  SumOver(d, R) = SumOver(h, S)
<1> DEFINE z == [y \in S |-> 0]
           e == [y \in R |-> y]
<1>1. IsFiniteSet(R)
  BY FS_Subset
<1>2. \A y \in S : z[y] = 0 /\ z[y] \in Nat /\ z[y] \in Int
  OBVIOUS
<1>3. e \in [R -> S] /\ \A y \in R : e[y] = y
  OBVIOUS
<1> HIDE DEF z, e
<1>4. SumOver(z, S) = 0
  BY <1>2, SumOverNat
<1>5. \A x, y \in R : e[x] = e[y] => x = y
  BY <1>3
<1>6. \A y \in R : h[e[y]] = z[e[y]] + d[y] /\ d[y] \in Int
  BY <1>2, <1>3
<1>7. \A s \in S : (\A y \in R : e[y] # s) => h[s] = z[s]
  BY <1>2, <1>3
<1>8. SumOver(h, S) = SumOver(z, S) + SumOver(d, R)
  BY <1>1, <1>2, <1>3, <1>5, <1>6, <1>7, SumOverSlice
<1>9. SumOver(d, R) \in Int
  BY <1>1, <1>6, SumOverType
<1>10. QED
  BY <1>4, <1>8, <1>9

\* A sum of ones counts.
LEMMA SumOverOnes ==
  ASSUME NEW S, IsFiniteSet(S), NEW f, \A x \in S : f[x] = 1
  PROVE  SumOver(f, S) = Cardinality(S)
<1> DEFINE F == TotalsOf(f, S)
           Good == {n \in Nat : \A T \in SUBSET S : Cardinality(T) = n => F[T] = n}
<1>1. \A T \in SUBSET S : F[T] = Unfold(f, F, T)
  <2>1. \A x \in S : f[x] \in Int
    OBVIOUS
  <2>2. QED
    BY <2>1, TotalsOfUnfolds
<1> HIDE DEF F
<1>2. 0 \in Good
  <2> SUFFICES ASSUME NEW T \in SUBSET S, Cardinality(T) = 0 PROVE F[T] = 0
    OBVIOUS
  <2>1. T = {}
    <3> SUFFICES ASSUME T # {} PROVE FALSE
      OBVIOUS
    <3>1. QED
      BY ChosenRemoved
  <2>2. QED
    BY <1>1, <2>1 DEF Unfold
<1>3. ASSUME NEW n \in Nat, n \in Good PROVE n + 1 \in Good
  <2> SUFFICES ASSUME NEW T \in SUBSET S, Cardinality(T) = n + 1 PROVE F[T] = n + 1
    OBVIOUS
  <2>1. T # {}
    <3>1. Cardinality({}) = 0 /\ n + 1 # 0
      BY FS_EmptySet
    <3>2. QED
      BY <3>1
  <2> DEFINE x == CHOOSE y \in T : TRUE
  <2>2. x \in T /\ T \ {x} \in SUBSET S /\ Cardinality(T \ {x}) = n
    BY <2>1, ChosenRemoved
  <2>3. F[T] = f[x] + F[T \ {x}]
    BY <1>1, <2>1 DEF Unfold
  <2> HIDE DEF x
  <2>4. F[T \ {x}] = n
    BY <1>3, <2>2
  <2>5. f[x] = 1
    BY <2>2
  <2>6. QED
    BY <2>3, <2>4, <2>5
<1>4. Good = Nat
  <2>1. Good \in SUBSET Nat
    OBVIOUS
  <2> HIDE DEF Good
  <2>2. QED
    BY <1>2, <1>3, <2>1, SetInduction
<1>5. Cardinality(S) \in Nat /\ S \in SUBSET S
  BY FS_CardinalityType
<1>6. F[S] = Cardinality(S)
  BY <1>4, <1>5
<1>7. QED
  BY <1>6, SumOverIsTotalsOf DEF F
-----------------------------------------------------------------------------
(* Products and quotients, for the ledgers that round                      *)

LEMMA TimesMonotone ==
  ASSUME NEW a \in Int, NEW b \in Int, NEW c \in Nat, a <= b
  PROVE  a * c <= b * c
  OBVIOUS

LEMMA TimesCancels ==
  ASSUME NEW a \in Int, NEW b \in Int, NEW c \in Nat \ {0}, c * a <= c * b
  PROVE  a <= b
  OBVIOUS

LEMMA QuotientBound ==
  ASSUME NEW n \in Nat, NEW d \in Nat \ {0}
  PROVE  n \div d \in Nat /\ d * (n \div d) <= n
  OBVIOUS

\* A product of naturals is a natural.
LEMMA TimesNat ==
  ASSUME NEW a \in Nat, NEW b \in Nat
  PROVE  a * b \in Nat
  OBVIOUS
=============================================================================
