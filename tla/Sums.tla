-------------------------------- MODULE Sums --------------------------------
(***************************************************************************)
(* Facts about finite sums, for the theorems about money: wallets, the     *)
(* bank account and reports are sums over rows.  SumFunctionOnSet of the   *)
(* community module Functions is a fold that picks one element after the   *)
(* other; here the fold is shown to exist on every finite set and not to   *)
(* depend on the order.                                                    *)
(*                                                                         *)
(* Induction is over sets: the induction theorems of the library take an   *)
(* operator, which the provers do not instantiate, so NatSetInduction is   *)
(* derived from the well-foundedness of < on the naturals.                 *)
(***************************************************************************)
EXTENDS Integers, FiniteSets, Functions, FiniteSetTheorems, WellFoundedInduction, TLAPS

\* A set of naturals that has 0 and with every n the next has them all.
LEMMA NatSetInduction ==
  ASSUME NEW S, 0 \in S, \A n \in Nat : n \in S => n + 1 \in S
  PROVE  Nat \subseteq S
<1> SUFFICES ASSUME Nat \ S # {} PROVE FALSE
  OBVIOUS
<1>1. PICK m \in Nat \ S : \A y \in Nat \ S : ~(<<y, m>> \in OpToRel(<, Nat))
  <2>1. Nat \ S \subseteq Nat
    OBVIOUS
  <2> QED
    BY <2>1, NatLessThanWellFounded, WFMin
<1>2. \A y \in Nat \ S : ~(y < m)
  BY <1>1 DEF OpToRel
<1>3. m # 0 /\ m - 1 \in Nat
  OBVIOUS
<1>4. m - 1 \in S
  BY <1>2, <1>3
<1>5. (m - 1) + 1 \in S
  BY <1>3, <1>4
<1> QED
  BY <1>5

-----------------------------------------------------------------------------
(* The fold of the library *)

Chosen(s) == CHOOSE x \in s : TRUE

\* What the library's definition asks of the function it folds with.
Folds(g, f, D) ==
  g = [s \in D |-> IF s = {} THEN 0 ELSE f[Chosen(s)] + g[s \ {Chosen(s)}]]

UpTo(S, n) == {s \in SUBSET S : Cardinality(s) <= n}

LEMMA ChosenIn == ASSUME NEW s, s # {} PROVE Chosen(s) \in s
  BY DEF Chosen

LEMMA OneLess ==
  ASSUME NEW n \in Nat, NEW s, IsFiniteSet(s), Cardinality(s) = n + 1, NEW x \in s
  PROVE  Cardinality(s \ {x}) = n
<1>1. Cardinality(s \ {x}) = Cardinality(s) - 1
  BY FS_RemoveElement
<1> QED
  BY <1>1

LEMMA Smaller ==
  ASSUME NEW S, IsFiniteSet(S), NEW s \in SUBSET S, s # {}
  PROVE  /\ IsFiniteSet(s) /\ Cardinality(s) \in Nat
         /\ s \ {Chosen(s)} \in SUBSET S
         /\ Cardinality(s \ {Chosen(s)}) = Cardinality(s) - 1
<1>1. IsFiniteSet(s)
  BY FS_Subset
<1> QED
  BY <1>1, ChosenIn, FS_RemoveElement, FS_CardinalityType

\* The function the library folds with exists: it is built up by cardinality.
LEMMA FoldsExist ==
  ASSUME NEW S, IsFiniteSet(S), NEW f
  PROVE  \E g : Folds(g, f, SUBSET S)
<1> DEFINE N == {n \in Nat : \E g : Folds(g, f, UpTo(S, n))}
<1>1. 0 \in N
  <2> DEFINE g == [s \in UpTo(S, 0) |-> 0]
  <2>1. ASSUME NEW s \in UpTo(S, 0) PROVE s = {}
    <3>1. IsFiniteSet(s) /\ Cardinality(s) = 0
      BY <2>1, FS_Subset, FS_CardinalityType DEF UpTo
    <3> QED
      BY <3>1, FS_EmptySet
  <2>2. Folds(g, f, UpTo(S, 0))
    BY <2>1 DEF Folds
  <2> QED
    BY <2>2
<1>2. ASSUME NEW n \in Nat, n \in N PROVE n + 1 \in N
  <2>1. PICK g : Folds(g, f, UpTo(S, n))
    BY <1>2
  <2> DEFINE h == [s \in UpTo(S, n + 1) |-> IF s = {} THEN 0 ELSE f[Chosen(s)] + g[s \ {Chosen(s)}]]
  <2>2. ASSUME NEW s \in UpTo(S, n + 1), s # {}
        PROVE  h[s \ {Chosen(s)}] = g[s \ {Chosen(s)}]
    <3> DEFINE r == s \ {Chosen(s)}
    <3>1. r \in UpTo(S, n) /\ r \in UpTo(S, n + 1)
      <4>1. r \in SUBSET S /\ Cardinality(r) = Cardinality(s) - 1 /\ Cardinality(s) \in Nat /\ Cardinality(s) <= n + 1
        BY <2>2, Smaller DEF UpTo
      <4> QED
        BY <4>1 DEF UpTo
    <3> HIDE DEF r
    <3>2. g[r] = IF r = {} THEN 0 ELSE f[Chosen(r)] + g[r \ {Chosen(r)}]
      BY <2>1, <3>1 DEF Folds
    <3>3. h[r] = IF r = {} THEN 0 ELSE f[Chosen(r)] + g[r \ {Chosen(r)}]
      BY <3>1
    <3>4. h[r] = g[r]
      BY <3>2, <3>3
    <3> QED
      BY <3>4 DEF r
  <2>3. Folds(h, f, UpTo(S, n + 1))
    BY <2>2 DEF Folds
  <2> HIDE DEF h
  <2> QED
    BY <2>3
<1>3. Cardinality(S) \in N
  BY <1>1, <1>2, NatSetInduction, FS_CardinalityType
<1>4. UpTo(S, Cardinality(S)) = SUBSET S
  BY FS_Subset DEF UpTo
<1> QED
  BY <1>3, <1>4

\* So the library's CHOOSE picks one.
LEMMA SumIsFold ==
  ASSUME NEW S, IsFiniteSet(S), NEW f
  PROVE  \E g : Folds(g, f, SUBSET S) /\ SumFunctionOnSet(f, S) = g[S]
<1> DEFINE iter == CHOOSE g : Folds(g, f, SUBSET S)
<1>1. Folds(iter, f, SUBSET S)
  BY FoldsExist, Zenon
<1>2. SumFunctionOnSet(f, S) = iter[S]
  BY DEF SumFunctionOnSet, FoldFunctionOnSet, MapThenFoldSet, Folds, Chosen
<1> HIDE DEF iter
<1> QED
  BY <1>1, <1>2

\* What {} has, and a set has when it has it less one element, a finite set has.
LEMMA SubsetInduction ==
  ASSUME NEW S, IsFiniteSet(S), NEW P, {} \in P,
         \A s \in SUBSET S : \A x \in s : s \ {x} \in P => s \in P
  PROVE  S \in P
<1> DEFINE N == {n \in Nat : \A s \in SUBSET S : Cardinality(s) = n => s \in P}
<1>1. 0 \in N
  <2>1. ASSUME NEW s \in SUBSET S, Cardinality(s) = 0 PROVE s = {}
    BY <2>1, FS_Subset, FS_EmptySet
  <2> QED
    BY <2>1
<1>2. ASSUME NEW n \in Nat, n \in N PROVE n + 1 \in N
  <2> SUFFICES ASSUME NEW s \in SUBSET S, Cardinality(s) = n + 1 PROVE s \in P
    OBVIOUS
  <2>1. IsFiniteSet(s) /\ s # {}
    BY FS_Subset, FS_EmptySet
  <2>2. PICK x \in s : TRUE
    BY <2>1
  <2>3. Cardinality(s \ {x}) = n
    BY <2>1, <2>2, OneLess
  <2>4. s \ {x} \in P
    BY <1>2, <2>3
  <2> QED
    BY <2>4
<1>3. Cardinality(S) \in N
  BY <1>1, <1>2, NatSetInduction, FS_CardinalityType
<1> QED
  BY <1>3

\* A fold over the subsets of S and one over those of T agree on T.
LEMMA FoldsAgree ==
  ASSUME NEW S, IsFiniteSet(S), NEW T \in SUBSET S, NEW f, NEW g, NEW h,
         Folds(g, f, SUBSET S), Folds(h, f, SUBSET T)
  PROVE  g[T] = h[T]
<1> DEFINE N == {n \in Nat : \A s \in SUBSET T : Cardinality(s) = n => g[s] = h[s]}
<1>1. IsFiniteSet(T)
  BY FS_Subset
<1>2. 0 \in N
  <2>1. ASSUME NEW s \in SUBSET T, Cardinality(s) = 0 PROVE g[s] = h[s]
    <3>1. s = {}
      BY <1>1, <2>1, FS_Subset, FS_EmptySet
    <3> QED
      BY <3>1 DEF Folds
  <2> QED
    BY <2>1
<1>3. ASSUME NEW n \in Nat, n \in N PROVE n + 1 \in N
  <2> SUFFICES ASSUME NEW s \in SUBSET T, Cardinality(s) = n + 1 PROVE g[s] = h[s]
    OBVIOUS
  <2>1. s # {}
    BY FS_EmptySet
  <2>2. s \ {Chosen(s)} \in SUBSET T /\ Cardinality(s \ {Chosen(s)}) = n
    BY <1>1, <2>1, FS_Subset, ChosenIn, OneLess
  <2>3. g[s \ {Chosen(s)}] = h[s \ {Chosen(s)}]
    BY <1>3, <2>2
  <2>4. g[s] = f[Chosen(s)] + g[s \ {Chosen(s)}] /\ h[s] = f[Chosen(s)] + h[s \ {Chosen(s)}]
    BY <2>1 DEF Folds
  <2> QED
    BY <2>3, <2>4
<1>4. Cardinality(T) \in N
  BY <1>1, <1>2, <1>3, NatSetInduction, FS_CardinalityType
<1> QED
  BY <1>4

-----------------------------------------------------------------------------
(* Sums *)

LEMMA SumEmpty == \A f : SumFunctionOnSet(f, {}) = 0
<1> SUFFICES ASSUME NEW f PROVE SumFunctionOnSet(f, {}) = 0
  OBVIOUS
<1>1. PICK g : Folds(g, f, SUBSET {}) /\ SumFunctionOnSet(f, {}) = g[{}]
  BY SumIsFold, FS_EmptySet
<1> QED
  BY <1>1 DEF Folds

\* The sum is its first summand and the sum of the others.
LEMMA SumChosen ==
  ASSUME NEW S, IsFiniteSet(S), S # {}, NEW f
  PROVE  SumFunctionOnSet(f, S) = f[Chosen(S)] + SumFunctionOnSet(f, S \ {Chosen(S)})
<1>t. PICK T : T = S \ {Chosen(S)}
  OBVIOUS
<1>1. IsFiniteSet(T) /\ T \in SUBSET S
  BY <1>t, FS_Subset
<1>2. PICK g : Folds(g, f, SUBSET S) /\ SumFunctionOnSet(f, S) = g[S]
  BY SumIsFold
<1>3. PICK h : Folds(h, f, SUBSET T) /\ SumFunctionOnSet(f, T) = h[T]
  BY <1>1, SumIsFold
<1>4. g[T] = h[T]
  BY <1>1, <1>2, <1>3, FoldsAgree
<1>5. g[S] = f[Chosen(S)] + g[T]
  BY <1>t, <1>2 DEF Folds
<1> QED
  BY <1>t, <1>2, <1>3, <1>4, <1>5

\* A finite sum of integers is an integer.
LEMMA SumType ==
  ASSUME NEW S, IsFiniteSet(S), NEW f, \A x \in S : f[x] \in Int
  PROVE  SumFunctionOnSet(f, S) \in Int
<1> DEFINE N == {n \in Nat : \A s \in SUBSET S : Cardinality(s) = n => SumFunctionOnSet(f, s) \in Int}
<1>1. 0 \in N
  <2>1. ASSUME NEW s \in SUBSET S, Cardinality(s) = 0 PROVE SumFunctionOnSet(f, s) \in Int
    <3>1. s = {}
      BY <2>1, FS_Subset, FS_EmptySet
    <3> QED
      BY <3>1, SumEmpty
  <2> QED
    BY <2>1
<1>2. ASSUME NEW n \in Nat, n \in N PROVE n + 1 \in N
  <2> SUFFICES ASSUME NEW s \in SUBSET S, Cardinality(s) = n + 1 PROVE SumFunctionOnSet(f, s) \in Int
    OBVIOUS
  <2>1. s # {} /\ IsFiniteSet(s)
    BY FS_EmptySet, FS_Subset
  <2>2. s \ {Chosen(s)} \in SUBSET S /\ Cardinality(s \ {Chosen(s)}) = n /\ Chosen(s) \in S
    BY <2>1, OneLess, ChosenIn
  <2>3. SumFunctionOnSet(f, s \ {Chosen(s)}) \in Int
    BY <1>2, <2>2
  <2>4. SumFunctionOnSet(f, s) = f[Chosen(s)] + SumFunctionOnSet(f, s \ {Chosen(s)})
    BY <2>1, SumChosen
  <2>5. f[Chosen(s)] \in Int
    BY <2>2
  <2> QED
    BY <2>3, <2>4, <2>5
<1>3. Cardinality(S) \in N
  BY <1>1, <1>2, NatSetInduction, FS_CardinalityType
<1> QED
  BY <1>3

\* Any summand can be taken out: the order in which the library adds is immaterial.
LEMMA SumRemove ==
  ASSUME NEW S, IsFiniteSet(S), NEW f, \A x \in S : f[x] \in Int, NEW x \in S
  PROVE  SumFunctionOnSet(f, S) = f[x] + SumFunctionOnSet(f, S \ {x})
<1> DEFINE OK(s) == \A y \in s : SumFunctionOnSet(f, s) = f[y] + SumFunctionOnSet(f, s \ {y})
           N == {n \in Nat : \A s \in SUBSET S : Cardinality(s) = n => OK(s)}
<1>1. 0 \in N
  <2>1. ASSUME NEW s \in SUBSET S, Cardinality(s) = 0 PROVE OK(s)
    BY <2>1, FS_Subset, FS_EmptySet
  <2> QED
    BY <2>1
<1>2. ASSUME NEW n \in Nat, n \in N PROVE n + 1 \in N
  <2> SUFFICES ASSUME NEW s \in SUBSET S, Cardinality(s) = n + 1, NEW y \in s
               PROVE  SumFunctionOnSet(f, s) = f[y] + SumFunctionOnSet(f, s \ {y})
    OBVIOUS
  <2> DEFINE c == Chosen(s)
  <2>1. s # {} /\ IsFiniteSet(s) /\ c \in s
    BY ChosenIn, FS_Subset
  <2>2. s \ {c} \in SUBSET S /\ Cardinality(s \ {c}) = n
    BY <2>1, OneLess
  <2>3. SumFunctionOnSet(f, s) = f[c] + SumFunctionOnSet(f, s \ {c})
    BY <2>1, SumChosen
  <2> HIDE DEF c
  <2>4. CASE y = c
    BY <2>3, <2>4
  <2>5. CASE y # c
    <3>1. Cardinality(s \ {y}) = n /\ s \ {y} \in SUBSET S
      BY <2>1, OneLess
    <3>2. SumFunctionOnSet(f, s \ {c}) = f[y] + SumFunctionOnSet(f, (s \ {c}) \ {y})
      BY <1>2, <2>2, <2>5
    <3>3. SumFunctionOnSet(f, s \ {y}) = f[c] + SumFunctionOnSet(f, (s \ {y}) \ {c})
      BY <1>2, <2>1, <2>5, <3>1
    <3>4. (s \ {c}) \ {y} = (s \ {y}) \ {c}
      OBVIOUS
    <3>5. SumFunctionOnSet(f, (s \ {c}) \ {y}) \in Int
      <4> DEFINE r == (s \ {c}) \ {y}
      <4>1. IsFiniteSet(r) /\ \A z \in r : f[z] \in Int
        BY <2>1, FS_Subset
      <4> HIDE DEF r
      <4>2. SumFunctionOnSet(f, r) \in Int
        BY <4>1, SumType
      <4> QED
        BY <4>2 DEF r
    <3>6. SumFunctionOnSet(f, (s \ {y}) \ {c}) = SumFunctionOnSet(f, (s \ {c}) \ {y})
      BY <3>4
    <3>7. f[c] \in Int /\ f[y] \in Int
      BY <2>1
    <3> QED
      BY <2>3, <3>2, <3>3, <3>5, <3>6, <3>7
  <2> QED
    BY <2>4, <2>5
<1>3. Cardinality(S) \in N
  BY <1>1, <1>2, NatSetInduction, FS_CardinalityType
<1> QED
  BY <1>3

\* Equal summands give equal sums.
LEMMA SumSame ==
  ASSUME NEW S, IsFiniteSet(S), NEW f, NEW g, \A x \in S : f[x] \in Int /\ g[x] = f[x]
  PROVE  SumFunctionOnSet(g, S) = SumFunctionOnSet(f, S)
<1> DEFINE P == {s \in SUBSET S : SumFunctionOnSet(g, s) = SumFunctionOnSet(f, s)}
<1>1. {} \in P
  BY SumEmpty
<1>2. ASSUME NEW s \in SUBSET S, NEW x \in s, s \ {x} \in P PROVE s \in P
  <2>1. IsFiniteSet(s) /\ \A y \in s : f[y] \in Int /\ g[y] \in Int
    BY FS_Subset
  <2>2. SumFunctionOnSet(f, s) = f[x] + SumFunctionOnSet(f, s \ {x})
    BY <2>1, SumRemove
  <2>3. SumFunctionOnSet(g, s) = g[x] + SumFunctionOnSet(g, s \ {x})
    BY <2>1, SumRemove
  <2>4. g[x] = f[x]
    OBVIOUS
  <2> QED
    BY <1>2, <2>2, <2>3, <2>4
<1> HIDE DEF P
<1>3. S \in P
  BY <1>1, <1>2, SubsetInduction
<1> QED
  BY <1>3 DEF P

\* Smaller summands give a smaller sum.
LEMMA SumLeq ==
  ASSUME NEW S, IsFiniteSet(S), NEW f, NEW g, \A x \in S : f[x] \in Int /\ g[x] \in Int /\ f[x] <= g[x]
  PROVE  SumFunctionOnSet(f, S) <= SumFunctionOnSet(g, S)
<1> DEFINE P == {s \in SUBSET S : SumFunctionOnSet(f, s) <= SumFunctionOnSet(g, s)}
<1>1. {} \in P
  BY SumEmpty
<1>2. ASSUME NEW s \in SUBSET S, NEW x \in s, s \ {x} \in P PROVE s \in P
  <2>1. IsFiniteSet(s) /\ IsFiniteSet(s \ {x}) /\ \A y \in s : f[y] \in Int /\ g[y] \in Int
    BY FS_Subset
  <2>2. SumFunctionOnSet(f, s) = f[x] + SumFunctionOnSet(f, s \ {x})
    BY <2>1, SumRemove
  <2>3. SumFunctionOnSet(g, s) = g[x] + SumFunctionOnSet(g, s \ {x})
    BY <2>1, SumRemove
  <2>4. SumFunctionOnSet(f, s \ {x}) <= SumFunctionOnSet(g, s \ {x})
    BY <1>2
  <2>5. SumFunctionOnSet(f, s \ {x}) \in Int /\ SumFunctionOnSet(g, s \ {x}) \in Int
    BY <2>1, SumType
  <2>6. f[x] \in Int /\ g[x] \in Int /\ f[x] <= g[x]
    OBVIOUS
  <2> QED
    BY <2>2, <2>3, <2>4, <2>5, <2>6
<1> HIDE DEF P
<1>3. S \in P
  BY <1>1, <1>2, SubsetInduction
<1> QED
  BY <1>3 DEF P

\* The sum of sums.
LEMMA SumPlus ==
  ASSUME NEW S, IsFiniteSet(S), NEW f, NEW g, NEW h,
         \A x \in S : f[x] \in Int /\ g[x] \in Int /\ h[x] = f[x] + g[x]
  PROVE  SumFunctionOnSet(h, S) = SumFunctionOnSet(f, S) + SumFunctionOnSet(g, S)
<1> DEFINE P == {s \in SUBSET S : SumFunctionOnSet(h, s) = SumFunctionOnSet(f, s) + SumFunctionOnSet(g, s)}
<1>1. {} \in P
  BY SumEmpty
<1>2. ASSUME NEW s \in SUBSET S, NEW x \in s, s \ {x} \in P PROVE s \in P
  <2>1. IsFiniteSet(s) /\ IsFiniteSet(s \ {x}) /\ \A y \in s : f[y] \in Int /\ g[y] \in Int /\ h[y] \in Int
    BY FS_Subset
  <2>2. SumFunctionOnSet(f, s) = f[x] + SumFunctionOnSet(f, s \ {x})
    BY <2>1, SumRemove
  <2>3. SumFunctionOnSet(g, s) = g[x] + SumFunctionOnSet(g, s \ {x})
    BY <2>1, SumRemove
  <2>4. SumFunctionOnSet(h, s) = h[x] + SumFunctionOnSet(h, s \ {x})
    BY <2>1, SumRemove
  <2>5. SumFunctionOnSet(h, s \ {x}) = SumFunctionOnSet(f, s \ {x}) + SumFunctionOnSet(g, s \ {x})
    BY <1>2
  <2>6. SumFunctionOnSet(f, s \ {x}) \in Int /\ SumFunctionOnSet(g, s \ {x}) \in Int
    BY <2>1, SumType
  <2>7. f[x] \in Int /\ g[x] \in Int /\ h[x] = f[x] + g[x]
    OBVIOUS
  <2> QED
    BY <2>2, <2>3, <2>4, <2>5, <2>6, <2>7
<1> HIDE DEF P
<1>3. S \in P
  BY <1>1, <1>2, SubsetInduction
<1> QED
  BY <1>3 DEF P

\* The same, named with all it is about so that the provers can instantiate it.
AddsUp(S, f, g, h) ==
  IsFiniteSet(S) /\ \A x \in S : f[x] \in Int /\ g[x] \in Int /\ h[x] = f[x] + g[x]

LEMMA SumAdds ==
  ASSUME NEW S, NEW f, NEW g, NEW h, AddsUp(S, f, g, h)
  PROVE  SumFunctionOnSet(h, S) = SumFunctionOnSet(f, S) + SumFunctionOnSet(g, S)
BY SumPlus DEF AddsUp

\* Changing one summand changes the sum by as much.
LEMMA SumChange ==
  ASSUME NEW S, IsFiniteSet(S), NEW f, NEW g, NEW x \in S, \A y \in S : f[y] \in Int, g[x] \in Int,
         \A y \in S : y # x => g[y] = f[y]
  PROVE  /\ SumFunctionOnSet(g, S) - g[x] = SumFunctionOnSet(f, S) - f[x]
         /\ SumFunctionOnSet(f, S) \in Int /\ SumFunctionOnSet(g, S) \in Int
<1>1. SumFunctionOnSet(f, S) = f[x] + SumFunctionOnSet(f, S \ {x})
  BY SumRemove
<1>2. SumFunctionOnSet(g, S) = g[x] + SumFunctionOnSet(g, S \ {x})
  <2>1. \A y \in S : g[y] \in Int
    OBVIOUS
  <2> QED
    BY <2>1, SumRemove
<1>3. IsFiniteSet(S \ {x})
  BY FS_Subset
<1>4. SumFunctionOnSet(g, S \ {x}) = SumFunctionOnSet(f, S \ {x})
  BY <1>3, SumSame
<1>5. SumFunctionOnSet(f, S \ {x}) \in Int
  BY <1>3, SumType
<1> QED
  BY <1>1, <1>2, <1>4, <1>5

\* Nothing adds up to nothing.
LEMMA SumZero ==
  ASSUME NEW S, IsFiniteSet(S), NEW f, \A x \in S : f[x] = 0
  PROVE  SumFunctionOnSet(f, S) = 0
<1> DEFINE P == {s \in SUBSET S : SumFunctionOnSet(f, s) = 0}
<1>1. {} \in P
  BY SumEmpty
<1>2. ASSUME NEW s \in SUBSET S, NEW x \in s, s \ {x} \in P PROVE s \in P
  <2>1. IsFiniteSet(s) /\ \A y \in s : f[y] \in Int
    BY FS_Subset
  <2>2. SumFunctionOnSet(f, s) = f[x] + SumFunctionOnSet(f, s \ {x})
    BY <2>1, SumRemove
  <2> QED
    BY <1>2, <2>2
<1> HIDE DEF P
<1>3. S \in P
  BY <1>1, <1>2, SubsetInduction
<1> QED
  BY <1>3 DEF P

\* One summand at most is not zero.
LEMMA SumSingle ==
  ASSUME NEW S, IsFiniteSet(S), NEW f, NEW x \in S, f[x] \in Int,
         \A y \in S : y # x => f[y] = 0
  PROVE  SumFunctionOnSet(f, S) = f[x]
<1>1. \A y \in S : f[y] \in Int
  OBVIOUS
<1>2. SumFunctionOnSet(f, S) = f[x] + SumFunctionOnSet(f, S \ {x})
  BY <1>1, SumRemove
<1>3. IsFiniteSet(S \ {x})
  BY FS_Subset
<1>4. SumFunctionOnSet(f, S \ {x}) = 0
  BY <1>3, SumZero
<1> QED
  BY <1>2, <1>4

\* One summand grows by no more than c, and no other grows.
LEMMA SumLeqBut ==
  ASSUME NEW S, IsFiniteSet(S), NEW f, NEW g, NEW c \in Int, NEW x \in S,
         \A y \in S : f[y] \in Int /\ g[y] \in Int,
         \A y \in S : y # x => f[y] <= g[y],
         f[x] <= g[x] + c
  PROVE  SumFunctionOnSet(f, S) <= SumFunctionOnSet(g, S) + c
<1>1. SumFunctionOnSet(f, S) = f[x] + SumFunctionOnSet(f, S \ {x})
  BY SumRemove
<1>2. SumFunctionOnSet(g, S) = g[x] + SumFunctionOnSet(g, S \ {x})
  BY SumRemove
<1>3. IsFiniteSet(S \ {x})
  BY FS_Subset
<1>4. SumFunctionOnSet(f, S \ {x}) <= SumFunctionOnSet(g, S \ {x})
  BY <1>3, SumLeq
<1>5. SumFunctionOnSet(f, S \ {x}) \in Int /\ SumFunctionOnSet(g, S \ {x}) \in Int
  BY <1>3, SumType
<1> QED
  BY <1>1, <1>2, <1>4, <1>5

\* When no summand is negative, none is more than the sum.
LEMMA SumCovers ==
  ASSUME NEW S, IsFiniteSet(S), NEW f, \A x \in S : f[x] \in Int /\ f[x] >= 0
  PROVE  SumFunctionOnSet(f, S) >= 0 /\ \A x \in S : f[x] <= SumFunctionOnSet(f, S)
<1> DEFINE z == [x \in S |-> 0]
<1>1. ASSUME NEW s \in SUBSET S PROVE SumFunctionOnSet(f, s) \in Int /\ SumFunctionOnSet(f, s) >= 0
  <2>1. IsFiniteSet(s) /\ \A x \in s : f[x] \in Int /\ z[x] = 0 /\ z[x] \in Int /\ z[x] <= f[x]
    BY FS_Subset
  <2> HIDE DEF z
  <2>2. SumFunctionOnSet(z, s) = 0
    BY <2>1, SumZero
  <2>3. SumFunctionOnSet(z, s) <= SumFunctionOnSet(f, s)
    BY <2>1, SumLeq
  <2>4. SumFunctionOnSet(f, s) \in Int
    BY <2>1, SumType
  <2> QED
    BY <2>2, <2>3, <2>4
<1>2. ASSUME NEW x \in S PROVE f[x] <= SumFunctionOnSet(f, S)
  <2>1. SumFunctionOnSet(f, S) = f[x] + SumFunctionOnSet(f, S \ {x})
    BY SumRemove
  <2>2. SumFunctionOnSet(f, S \ {x}) \in Int /\ SumFunctionOnSet(f, S \ {x}) >= 0
    BY <1>1
  <2> QED
    BY <2>1, <2>2
<1>3. SumFunctionOnSet(f, S) >= 0
  BY <1>1
<1> QED
  BY <1>2, <1>3

LEMMA OneMore == ASSUME NEW n \in Nat, NEW c \in Int PROVE c * (n + 1) = c + c * n
  OBVIOUS

\* Equal summands.
LEMMA SumConst ==
  ASSUME NEW S, IsFiniteSet(S), NEW c \in Int, NEW f, \A x \in S : f[x] = c
  PROVE  SumFunctionOnSet(f, S) = c * Cardinality(S)
<1> DEFINE N == {n \in Nat : \A s \in SUBSET S : Cardinality(s) = n => SumFunctionOnSet(f, s) = c * n}
<1>1. 0 \in N
  <2>1. ASSUME NEW s \in SUBSET S, Cardinality(s) = 0 PROVE SumFunctionOnSet(f, s) = 0
    <3>1. s = {}
      BY <2>1, FS_Subset, FS_EmptySet
    <3> QED
      BY <3>1, SumEmpty
  <2>2. c * 0 = 0
    OBVIOUS
  <2> QED
    BY <2>1, <2>2
<1>2. ASSUME NEW n \in Nat, n \in N PROVE n + 1 \in N
  <2> SUFFICES ASSUME NEW s \in SUBSET S, Cardinality(s) = n + 1
               PROVE  SumFunctionOnSet(f, s) = c * (n + 1)
    OBVIOUS
  <2>1. IsFiniteSet(s) /\ s # {}
    BY FS_Subset, FS_EmptySet
  <2>2. PICK x \in s : TRUE
    BY <2>1
  <2>3. Cardinality(s \ {x}) = n /\ s \ {x} \in SUBSET S
    BY <2>1, <2>2, OneLess
  <2>4. SumFunctionOnSet(f, s \ {x}) = c * n
    BY <1>2, <2>3
  <2>5. SumFunctionOnSet(f, s) = f[x] + SumFunctionOnSet(f, s \ {x})
    <3>1. \A y \in s : f[y] \in Int
      OBVIOUS
    <3> QED
      BY <2>1, <2>2, <3>1, SumRemove
  <2>6. f[x] = c
    BY <2>2
  <2> QED
    BY <2>4, <2>5, <2>6, OneMore
<1>3. Cardinality(S) \in N
  BY <1>1, <1>2, NatSetInduction, FS_CardinalityType
<1> QED
  BY <1>3

\* A finite set of integers that is not empty has a largest member.
LEMMA LargestExists ==
  ASSUME NEW S, IsFiniteSet(S), S # {}, S \subseteq Int
  PROVE  \E m \in S : \A n \in S : n <= m
<1> DEFINE P == {s \in SUBSET S : s = {} \/ \E m \in s : \A n \in s : n <= m}
<1>1. {} \in P
  OBVIOUS
<1>2. ASSUME NEW s \in SUBSET S, NEW x \in s, s \ {x} \in P PROVE s \in P
  <2>1. CASE s \ {x} = {}
    <3>1. \A n \in s : n <= x
      BY <2>1
    <3> QED
      BY <3>1
  <2>2. CASE s \ {x} # {}
    <3>1. PICK m \in s \ {x} : \A n \in s \ {x} : n <= m
      BY <1>2, <2>2
    <3>2. CASE x <= m
      <4>1. m \in s /\ \A n \in s : n <= m
        BY <3>1, <3>2
      <4> QED
        BY <4>1
    <3>3. CASE ~(x <= m)
      <4>1. \A n \in s : n <= x
        BY <3>1, <3>3
      <4> QED
        BY <4>1
    <3> QED
      BY <3>2, <3>3
  <2> QED
    BY <2>1, <2>2
<1> HIDE DEF P
<1>3. S \in P
  BY <1>1, <1>2, SubsetInduction
<1> QED
  BY <1>3 DEF P

\* Every entry x of S has one owner; mine[u] has what u owns of f, part[u] adds it
\* up, and all has what anyone in U owns.
SharedOut(S, U, f, owner, mine, part, all) ==
  /\ IsFiniteSet(S) /\ IsFiniteSet(U) /\ \A x \in S : f[x] \in Int
  /\ \A u \in U : part[u] = SumFunctionOnSet(mine[u], S)
  /\ \A u \in U : \A x \in S : mine[u][x] = IF owner[x] = u THEN f[x] ELSE 0
  /\ \A x \in S : all[x] = IF owner[x] \in U THEN f[x] ELSE 0

\* Adding up per owner and then over the owners adds up every entry once: the
\* balances of all users together are the effects of all their rows.
LEMMA SumPerOwner ==
  ASSUME NEW S, NEW U, NEW f, NEW owner, NEW mine, NEW part, NEW all,
         SharedOut(S, U, f, owner, mine, part, all)
  PROVE  SumFunctionOnSet(part, U) = SumFunctionOnSet(all, S)
<1> USE DEF SharedOut
<1> DEFINE Of(V) == [x \in S |-> IF owner[x] \in V THEN f[x] ELSE 0]
           P == {V \in SUBSET U : SumFunctionOnSet(part, V) = SumFunctionOnSet(Of(V), S)}
<1>0. \A V : \A x \in S : Of(V)[x] \in Int
  OBVIOUS
<1>1. {} \in P
  <2>1. \A x \in S : Of({})[x] = 0
    OBVIOUS
  <2> HIDE DEF Of
  <2>2. SumFunctionOnSet(Of({}), S) = 0
    BY <2>1, SumZero
  <2>3. SumFunctionOnSet(part, {}) = 0
    BY SumEmpty
  <2> QED
    BY <2>2, <2>3
<1>2. ASSUME NEW V \in SUBSET U, NEW u \in V, V \ {u} \in P PROVE V \in P
  <2> DEFINE rest == Of(V \ {u})
             both == Of(V)
  <2>1. part[u] = SumFunctionOnSet(mine[u], S)
    OBVIOUS
  <2>2. \A x \in S : mine[u][x] \in Int /\ rest[x] \in Int /\ both[x] = mine[u][x] + rest[x]
    OBVIOUS
  <2>3. SumFunctionOnSet(part, V \ {u}) = SumFunctionOnSet(rest, S)
    BY <1>2
  <2>4. \A v \in V : part[v] \in Int
    <3> SUFFICES ASSUME NEW v \in V PROVE part[v] \in Int
      OBVIOUS
    <3>1. part[v] = SumFunctionOnSet(mine[v], S) /\ \A x \in S : mine[v][x] \in Int
      OBVIOUS
    <3> QED
      BY <3>1, SumType
  <2>5. SumFunctionOnSet(part, V) = part[u] + SumFunctionOnSet(part, V \ {u})
    BY <2>4, SumRemove, FS_Subset
  <2> HIDE DEF rest, both
  <2>6. SumFunctionOnSet(both, S) = SumFunctionOnSet(mine[u], S) + SumFunctionOnSet(rest, S)
    BY <2>2, SumPlus
  <2>7. SumFunctionOnSet(part, V) = SumFunctionOnSet(both, S)
    BY <2>1, <2>3, <2>5, <2>6
  <2> QED
    BY <2>7 DEF both
<1> HIDE DEF P
<1>3. U \in P
  BY <1>1, <1>2, SubsetInduction
<1>4. SumFunctionOnSet(part, U) = SumFunctionOnSet(Of(U), S)
  BY <1>3 DEF P
<1>5. \A x \in S : Of(U)[x] \in Int /\ all[x] = Of(U)[x]
  OBVIOUS
<1> HIDE DEF Of
<1>6. SumFunctionOnSet(all, S) = SumFunctionOnSet(Of(U), S)
  BY <1>5, SumSame
<1> QED
  BY <1>4, <1>6

\* g is f on a part A of S and nothing elsewhere.
PartOf(A, S, f, g) ==
  IsFiniteSet(S) /\ A \in SUBSET S /\ \A x \in S : g[x] \in Int /\ g[x] = IF x \in A THEN f[x] ELSE 0

\* Adding up over a part of a set, or over the set with nothing outside the part.
LEMMA SumOverPart ==
  ASSUME NEW A, NEW S, NEW f, NEW g, PartOf(A, S, f, g)
  PROVE  SumFunctionOnSet(f, A) = SumFunctionOnSet(g, S)
<1> DEFINE P == {s \in SUBSET S : SumFunctionOnSet(f, s \cap A) = SumFunctionOnSet(g, s)}
<1>0. IsFiniteSet(S) /\ A \in SUBSET S /\ \A x \in S : g[x] \in Int /\ g[x] = IF x \in A THEN f[x] ELSE 0
  BY DEF PartOf
<1>1. {} \in P
  <2>1. {} \cap A = {}
    OBVIOUS
  <2> QED
    BY <2>1, SumEmpty
<1>2. ASSUME NEW s \in SUBSET S, NEW x \in s, s \ {x} \in P PROVE s \in P
  <2>1. IsFiniteSet(s) /\ \A y \in s : g[y] \in Int
    BY <1>0, FS_Subset
  <2>2. SumFunctionOnSet(g, s) = g[x] + SumFunctionOnSet(g, s \ {x})
    BY <2>1, SumRemove
  <2>3. SumFunctionOnSet(g, s \ {x}) \in Int
    <3>1. IsFiniteSet(s \ {x}) /\ \A y \in s \ {x} : g[y] \in Int
      BY <2>1, FS_Subset
    <3> QED
      BY <3>1, SumType
  <2>4. SumFunctionOnSet(f, (s \ {x}) \cap A) = SumFunctionOnSet(g, s \ {x})
    BY <1>2
  <2>5. CASE x \in A
    <3>1. IsFiniteSet(s \cap A) /\ x \in s \cap A
      BY <2>1, <2>5, FS_Subset
    <3>2. \A y \in s \cap A : f[y] \in Int
      BY <1>0
    <3>3. SumFunctionOnSet(f, s \cap A) = f[x] + SumFunctionOnSet(f, (s \cap A) \ {x})
      BY <3>1, <3>2, SumRemove
    <3>4. (s \cap A) \ {x} = (s \ {x}) \cap A
      OBVIOUS
    <3>5. g[x] = f[x]
      BY <1>0, <2>5
    <3>6. SumFunctionOnSet(f, s \cap A) = f[x] + SumFunctionOnSet(g, s \ {x})
      BY <2>4, <3>3, <3>4, Zenon
    <3> QED
      BY <2>2, <3>5, <3>6
  <2>6. CASE x \notin A
    <3>1. (s \ {x}) \cap A = s \cap A
      BY <2>6
    <3>2. g[x] = 0
      BY <1>0, <2>6
    <3>3. SumFunctionOnSet(f, s \cap A) = SumFunctionOnSet(g, s \ {x})
      BY <2>4, <3>1, Zenon
    <3> QED
      BY <2>2, <2>3, <3>2, <3>3
  <2> QED
    BY <2>5, <2>6
<1> HIDE DEF P
<1>3. S \in P
  BY <1>0, <1>1, <1>2, SubsetInduction
<1>4. S \cap A = A
  BY <1>0
<1>5. SumFunctionOnSet(f, S \cap A) = SumFunctionOnSet(g, S)
  BY <1>3 DEF P
<1> QED
  BY <1>4, <1>5, Zenon
=============================================================================
