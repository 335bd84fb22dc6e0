------------------------------ MODULE Recursion ------------------------------
(***************************************************************************)
(* Induction over numbers and over the subsets of 1..N, and the existence  *)
(* of the functions that the folds of the community modules define by      *)
(* recursion over such subsets. An induction hypothesis is a set here, the *)
(* set of the values it holds of, so that the provers can instantiate it.  *)
(***************************************************************************)
EXTENDS Naturals, FiniteSets, FiniteSetsExt, FiniteSetTheorems, WellFoundedInduction, TLAPS

NatLess == {ss \in Nat \X Nat : ss[1] < ss[2]}

\* Less-than on the naturals is well founded.
LEMMA NatLessWellFounded == IsWellFoundedOn(NatLess, Nat)
<1>1. IsWellFoundedOn({ss \in Nat \X Nat : ss[1] < ss[2]}, Nat)
  BY NatLessThanWellFounded, Zenon DEF OpToRel
<1> QED
  BY <1>1, Zenon DEF NatLess

\* A set with 0 and every successor of its members has every natural number.
LEMMA SetInduction ==
  ASSUME NEW S, 0 \in S, \A n \in Nat : n \in S => n + 1 \in S
  PROVE  \A n \in Nat : n \in S
<1> SUFFICES ASSUME Nat \ S # {} PROVE FALSE
  OBVIOUS
<1>1. PICK x \in Nat \ S : \A y \in Nat \ S : ~ (<<y, x>> \in NatLess)
  BY NatLessWellFounded, WFMin
<1>2. x \in Nat /\ x \notin S /\ x # 0
  OBVIOUS
<1>3. x - 1 \in Nat /\ (x - 1) + 1 = x
  BY <1>2
<1>4. x - 1 \notin S
  BY <1>2, <1>3
<1>5. <<x - 1, x>> \in NatLess
  BY <1>2, <1>3 DEF NatLess
<1> QED
  BY <1>1, <1>3, <1>4, <1>5

-----------------------------------------------------------------------------
\* A subset of 1..N has a size; without one of its members it is one smaller.
LEMMA SubsetSize ==
  ASSUME NEW N \in Nat, NEW A \in SUBSET (1..N)
  PROVE  /\ Cardinality(A) \in Nat
         /\ Cardinality(A) = 0 <=> A = {}
         /\ \A x \in A : Cardinality(A \ {x}) = Cardinality(A) - 1
<1>1. IsFiniteSet(1..N)
  BY FS_Interval
<1>2. IsFiniteSet(A)
  BY <1>1, FS_Subset
<1>3. Cardinality(A) \in Nat
  BY <1>2, FS_CardinalityType
<1>4. Cardinality(A) = 0 <=> A = {}
  BY <1>2, FS_EmptySet
<1>5. \A x \in A : Cardinality(A \ {x}) = Cardinality(A) - 1
  BY <1>2, FS_RemoveElement
<1> QED
  BY <1>3, <1>4, <1>5

\* Induction over the subsets of 1..N, when each is built from the one without
\* one of its elements.
LEMMA SubsetInduction ==
  ASSUME NEW N \in Nat, NEW Q, {} \in Q,
         \A A \in SUBSET (1..N) : A # {} => \E x \in A : A \ {x} \in Q => A \in Q
  PROVE  \A A \in SUBSET (1..N) : A \in Q
<1> DEFINE S == {n \in Nat : \A A \in SUBSET (1..N) : Cardinality(A) = n => A \in Q}
<1>1. 0 \in S
  BY SubsetSize
<1>2. ASSUME NEW n \in Nat, n \in S PROVE n + 1 \in S
  <2> SUFFICES ASSUME NEW A \in SUBSET (1..N), Cardinality(A) = n + 1 PROVE A \in Q
    OBVIOUS
  <2>1. A # {}
    BY SubsetSize
  <2>2. PICK x \in A : A \ {x} \in Q => A \in Q
    BY <2>1
  <2>3. A \ {x} \in SUBSET (1..N)
    OBVIOUS
  <2>4. Cardinality(A \ {x}) = n
    <3>1. Cardinality(A \ {x}) = Cardinality(A) - 1
      BY SubsetSize
    <3> QED  BY <3>1
  <2>5. A \ {x} \in Q
    BY <1>2, <2>3, <2>4
  <2> QED
    BY <2>2, <2>5
<1>3. \A n \in Nat : n \in S
  <2> HIDE DEF S
  <2> QED  BY <1>1, <1>2, SetInduction
<1> QED
  BY <1>3, SubsetSize

\* pick chooses an element of every set, step combines it with what the rest
\* gave, and f is the fold of the two over the subsets of 1..N.
Picks(pick, N) == \A A \in SUBSET (1..N) : A # {} => pick[A] \in A

Combines(step, N, T) == \A x \in 1..N, t \in T : step[x][t] \in T

Folds(f, base, pick, step, N) ==
  /\ f[{}] = base
  /\ \A A \in SUBSET (1..N) : A # {} => f[A] = step[pick[A]][f[A \ {pick[A]}]]

\* The recursion of a fold over 1..N has a solution, with values in T.
LEMMA FoldExists ==
  ASSUME NEW N \in Nat, NEW T, NEW base \in T, NEW pick, NEW step,
         Picks(pick, N), Combines(step, N, T)
  PROVE  \E f \in [SUBSET (1..N) -> T] : Folds(f, base, pick, step, N)
<1> DEFINE Small(n) == {A \in SUBSET (1..N) : Cardinality(A) <= n}
           Rest(f, A) == step[pick[A]][f[A \ {pick[A]}]]
           Fold(f, n) == /\ f[{}] = base
                         /\ \A A \in Small(n) : A # {} => f[A] = Rest(f, A)
           S == {n \in Nat : \E f \in [Small(n) -> T] : Fold(f, n)}
<1>1. \A n \in Nat : {} \in Small(n)
  BY SubsetSize
<1>2. 0 \in S
  <2>1. Small(0) = {{}}
    <3>1. \A c \in Nat : c <= 0 <=> c = 0
      OBVIOUS
    <3>2. \A A \in SUBSET (1..N) : Cardinality(A) <= 0 <=> A = {}
      BY <3>1, SubsetSize
    <3> QED  BY <3>2
  <2> HIDE DEF Small, Rest
  <2>2. PICK z : z = [A \in Small(0) |-> base]
    OBVIOUS
  <2>3. z \in [Small(0) -> T] /\ z[{}] = base
    BY <1>1, <2>2
  <2>4. Fold(z, 0)
    BY <2>1, <2>3
  <2> QED  BY <2>3, <2>4
<1>3. ASSUME NEW n \in Nat, n \in S PROVE n + 1 \in S
  <2>1. PICK f \in [Small(n) -> T] : Fold(f, n)
    BY <1>3
  <2>2. ASSUME NEW A \in Small(n + 1), A # {}
        PROVE  pick[A] \in 1..N /\ A \ {pick[A]} \in Small(n)
    <3>1. A \in SUBSET (1..N) /\ pick[A] \in A
      BY <2>2 DEF Picks
    <3>2. A \ {pick[A]} \in SUBSET (1..N)
      BY <3>1
    <3>3. Cardinality(A \ {pick[A]}) = Cardinality(A) - 1 /\ Cardinality(A) \in Nat
      BY <3>1, SubsetSize
    <3>4. Cardinality(A) <= n + 1
      BY <2>2
    <3>5. \A c \in Nat : c <= n + 1 => c - 1 <= n
      OBVIOUS
    <3>6. Cardinality(A \ {pick[A]}) <= n
      BY <3>3, <3>4, <3>5
    <3> QED  BY <3>1, <3>2, <3>6
  <2>3. \A A \in Small(n) : A \in Small(n + 1)
    <3>1. \A c \in Nat : c <= n => c <= n + 1
      OBVIOUS
    <3> QED  BY <3>1, SubsetSize
  <2> DEFINE h == [A \in Small(n + 1) |-> IF A = {} THEN base ELSE Rest(f, A)]
  <2>4. h \in [Small(n + 1) -> T]
    BY <2>2 DEF Combines
  <2>5. \A A \in Small(n) : h[A] = f[A]
    BY <2>1, <2>3
  <2>6. Fold(h, n + 1)
    <3>1. h[{}] = base
      BY <1>1
    <3>2. ASSUME NEW A \in Small(n + 1), A # {} PROVE h[A] = Rest(h, A)
      BY <2>2, <2>5, <3>2
    <3> QED  BY <3>1, <3>2
  <2> HIDE DEF h, Small, Fold
  <2> QED  BY <2>4, <2>6
<1>4. \A n \in Nat : n \in S
  <2> HIDE DEF S
  <2> QED  BY <1>2, <1>3, SetInduction
<1>5. PICK f \in [Small(N) -> T] : Fold(f, N)
  BY <1>4
<1>6. Small(N) = SUBSET (1..N)
  <2>1. ASSUME NEW A \in SUBSET (1..N) PROVE Cardinality(A) <= N
    <3>1. IsFiniteSet(1..N) /\ Cardinality(1..N) = N
      BY FS_Interval
    <3>2. Cardinality(A) <= Cardinality(1..N)
      BY <3>1, FS_Subset
    <3> QED  BY <3>1, <3>2
  <2> QED  BY <2>1
<1>7. f \in [SUBSET (1..N) -> T]
  BY <1>6
<1>8. Folds(f, base, pick, step, N)
  BY <1>5, <1>6 DEF Folds
<1> QED
  BY <1>7, <1>8

-----------------------------------------------------------------------------
\* Every set of positions but the empty one has a greatest element.
LEMMA MaxIn ==
  ASSUME NEW N \in Nat, NEW A \in SUBSET (1..N), A # {}
  PROVE  Max(A) \in A /\ \A y \in A : Max(A) >= y
<1> DEFINE Has(B) == B # {} => \E x \in B : \A y \in B : x >= y
           S == {n \in Nat : \A B \in SUBSET (1..n) : Has(B)}
<1>1. 0 \in S
  <2>1. 1..0 = {}
    OBVIOUS
  <2> QED  BY <2>1
<1>2. ASSUME NEW n \in Nat, n \in S PROVE n + 1 \in S
  <2> SUFFICES ASSUME NEW B \in SUBSET (1..(n + 1)), B # {}
               PROVE  \E x \in B : \A y \in B : x >= y
    OBVIOUS
  <2>1. CASE n + 1 \in B
    BY <2>1
  <2>2. CASE n + 1 \notin B
    <3>1. B \in SUBSET (1..n)
      BY <2>2
    <3> QED  BY <1>2, <3>1
  <2> QED  BY <2>1, <2>2
<1>3. \A n \in Nat : n \in S
  <2> HIDE DEF S
  <2> QED  BY <1>1, <1>2, SetInduction
<1>4. \E x \in A : \A y \in A : x >= y
  BY <1>3
<1> QED  BY <1>4 DEF Max

\* The greatest of 1..k + 1 is the last, and 1..k is left without it.
LEMMA MaxOfInterval ==
  ASSUME NEW k \in Nat
  PROVE  Max(1..(k + 1)) = k + 1 /\ (1..(k + 1)) \ {k + 1} = 1..k
<1>1. PICK g : g = Max(1..(k + 1))
  OBVIOUS
<1>2. g \in 1..(k + 1) /\ \A y \in 1..(k + 1) : g >= y
  <2> DEFINE I == 1..(k + 1)
  <2>1. k + 1 \in Nat /\ I \in SUBSET (1..(k + 1)) /\ I # {}
    OBVIOUS
  <2> HIDE DEF I
  <2>2. Max(I) \in I /\ \A y \in I : Max(I) >= y
    BY <2>1, MaxIn, Zenon
  <2> QED  BY <1>1, <2>2 DEF I
<1>3. g = k + 1
  BY <1>2
<1> QED  BY <1>1, <1>3

\* g starts with base and goes from one position to the next.
Runs(g, base, step, N) ==
  /\ g[0] = base
  /\ \A i \in 1..N : g[i] = step[i][g[i - 1]]

\* A recursion that goes from one position to the next has a solution.
LEMMA RunExists ==
  ASSUME NEW N \in Nat, NEW T, NEW base \in T, NEW step, Combines(step, N, T)
  PROVE  \E g \in [0..N -> T] : Runs(g, base, step, N)
<1> DEFINE pick == [A \in SUBSET (1..N) |-> Max(A)]
<1>1. Picks(pick, N)
  BY MaxIn DEF Picks
<1>2. PICK f \in [SUBSET (1..N) -> T] : Folds(f, base, pick, step, N)
  <2> HIDE DEF pick
  <2> QED  BY <1>1, FoldExists
<1>3. PICK g : g = [i \in 0..N |-> f[1..i]]
  OBVIOUS
<1>4. \A i \in 0..N : g[i] = f[1..i] /\ 1..i \in SUBSET (1..N)
  BY <1>3
<1>5. g \in [0..N -> T]
  BY <1>3, <1>4
<1>6. g[0] = base
  <2>1. 1..0 = {}
    OBVIOUS
  <2>2. f[{}] = base
    BY <1>2 DEF Folds
  <2> QED  BY <1>4, <2>1, <2>2
<1>7. ASSUME NEW i \in 1..N PROVE g[i] = step[i][g[i - 1]]
  <2>1. i - 1 \in Nat /\ (i - 1) + 1 = i /\ i \in 0..N /\ i - 1 \in 0..N
    OBVIOUS
  <2>2. Max(1..i) = i /\ (1..i) \ {i} = 1..(i - 1)
    BY <2>1, MaxOfInterval
  <2>3. 1..i \in SUBSET (1..N) /\ 1..i # {}
    OBVIOUS
  <2>4. pick[1..i] = i
    BY <2>2, <2>3
  <2>5. f[1..i] = step[pick[1..i]][f[(1..i) \ {pick[1..i]}]]
    <3> HIDE DEF pick
    <3> QED  BY <1>2, <2>3 DEF Folds
  <2> QED  BY <1>4, <2>1, <2>2, <2>4, <2>5
<1>8. Runs(g, base, step, N)
  BY <1>6, <1>7 DEF Runs
<1> QED  BY <1>5, <1>8
=============================================================================
