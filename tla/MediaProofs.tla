----------------------------- MODULE MediaProofs -----------------------------
(***************************************************************************)
(* More proofs about module Track: the chunks of a track and its buffer    *)
(* hold the bytes of all its samples, each once and in order               *)
(* (MediaInOrder), and after MP4Close the chunks alone do                  *)
(* (ClosedHoldsAll); and no chunk lasts longer than its last sample made   *)
(* it (ChunksFlushedWhenFull).                                             *)
(*                                                                         *)
(* What happens to the media of a track in a step of any action is one of  *)
(* four things; EveryStep says so once for all invariants about it.        *)
(*                                                                         *)
(* First come facts about the sums and the concatenations the sample       *)
(* tables are defined with: SumFunction of module Functions and FlattenSeq *)
(* of module SequencesExt.                                                 *)
(***************************************************************************)
EXTENDS TrackProofs, FiniteSetTheorems, WellFoundedInduction

-----------------------------------------------------------------------------
(* Sums and concatenations.  Both are defined by a recursive function, so  *)
(* a value of theirs can be computed only once such a function is known to *)
(* exist.  It is reached by applying the definition again and again: after *)
(* n rounds it is right for all sets of up to n elements (all indices up   *)
(* to n).                                                                  *)

LEMMA SmallerNumbers == OpToRel(<, Nat) = {p \in Nat \X Nat : p[1] < p[2]}
BY DEF OpToRel

\* Induction on numbers, for the set of those a claim holds for.
LEMMA AllNumbers ==
    ASSUME NEW A, 0 \in A, \A n \in Nat : n \in A => n + 1 \in A
    PROVE  Nat \subseteq A
<1> DEFINE R == {p \in Nat \X Nat : p[1] < p[2]}
           B == Nat \ A
<1>1. IsWellFoundedOn(R, Nat)
  BY NatLessThanWellFounded, SmallerNumbers
<1>2. SUFFICES ASSUME B # {} PROVE FALSE
  OBVIOUS
<1>3. B \subseteq Nat
  OBVIOUS
<1> HIDE DEF R, B
<1>4. PICK b \in B : \A y \in B : ~ (<< y, b >> \in R)
  BY <1>1, <1>2, <1>3, WFMin
<1>5. b \in Nat /\ b # 0
  BY <1>3 DEF B
<1>6. b - 1 \in Nat /\ << b - 1, b >> \in R
  BY <1>5 DEF R
<1>7. b - 1 \in A
  BY <1>4, <1>6 DEF B
<1>8. b \in A
  <2>1. (b - 1) + 1 = b
    BY <1>5
  <2> QED
    BY <2>1, <1>6, <1>7
<1> QED
  BY <1>8 DEF B

-----------------------------------------------------------------------------
(* Sums.                                                                   *)

One(s) == CHOOSE x \in s : TRUE

\* What the definition of a sum over s makes of the sums g over smaller sets.
Adding(f, g, s) == IF s = {} THEN 0 ELSE f[One(s)] + g[s \ {One(s)}]

\* g gives the sums of f over the subsets of S.
Sums(f, S, g) == g = [s \in SUBSET S |-> Adding(f, g, s)]

LEMMA SumIsOneOfSums ==
    ASSUME NEW f, NEW S
    PROVE  SumFunctionOnSet(f, S) = (CHOOSE g : Sums(f, S, g))[S]
BY DEF SumFunctionOnSet, FoldFunctionOnSet, MapThenFoldSet, Sums, Adding, One

LEMMA OneIsIn ==
    ASSUME NEW s, s # {}
    PROVE  One(s) \in s
BY DEF One

\* After n rounds, g is right for the subsets of S of at most n elements.
RightUpTo(f, S, g, n) ==
    \A s \in SUBSET S : Cardinality(s) <= n => g[s] = Adding(f, g, s)

LEMMA OneRoundMore ==
    ASSUME NEW f, NEW S, IsFiniteSet(S), \A x \in S : f[x] \in Int,
           NEW n \in Nat, NEW g \in [SUBSET S -> Int], RightUpTo(f, S, g, n)
    PROVE  LET h == [s \in SUBSET S |-> Adding(f, g, s)]
           IN  h \in [SUBSET S -> Int] /\ RightUpTo(f, S, h, n + 1)
<1> DEFINE h == [s \in SUBSET S |-> Adding(f, g, s)]
<1>1. ASSUME NEW s \in SUBSET S, s # {}
      PROVE  /\ One(s) \in s /\ s \ {One(s)} \in SUBSET S
             /\ Cardinality(s) \in Nat
             /\ Cardinality(s \ {One(s)}) = Cardinality(s) - 1
  <2>1. IsFiniteSet(s) /\ One(s) \in s
    BY <1>1, OneIsIn, FS_Subset
  <2> QED
    BY <2>1, FS_RemoveElement, FS_CardinalityType
<1>2. ASSUME NEW s \in SUBSET S
      PROVE  Adding(f, g, s) \in Int
  <2>1. CASE s = {}
    BY <2>1 DEF Adding
  <2>2. CASE s # {}
    <3>1. f[One(s)] \in Int /\ g[s \ {One(s)}] \in Int
      BY <1>1, <2>2
    <3> QED
      BY <2>2, <3>1 DEF Adding
  <2> QED
    BY <2>1, <2>2
<1>3. h \in [SUBSET S -> Int]
  BY <1>2
<1>4. ASSUME NEW s \in SUBSET S, Cardinality(s) <= n + 1
      PROVE  h[s] = Adding(f, h, s)
  <2>1. CASE s = {}
    BY <2>1 DEF Adding
  <2>2. CASE s # {}
    <3> DEFINE r == s \ {One(s)}
    <3>1. r \in SUBSET S /\ Cardinality(r) <= n
      BY <1>1, <1>4, <2>2
    <3>2. h[r] = g[r]
      BY <3>1 DEF RightUpTo
    <3> QED
      BY <2>2, <3>2 DEF Adding
  <2> QED
    BY <2>1, <2>2
<1> QED
  BY <1>3, <1>4 DEF RightUpTo

LEMMA SumsExist ==
    ASSUME NEW f, NEW S, IsFiniteSet(S), \A x \in S : f[x] \in Int
    PROVE  \E g \in [SUBSET S -> Int] : Sums(f, S, g)
<1> DEFINE A == {n \in Nat : \E g \in [SUBSET S -> Int] : RightUpTo(f, S, g, n)}
<1>1. 0 \in A
  <2> DEFINE g == [s \in SUBSET S |-> 0]
  <2>1. ASSUME NEW s \in SUBSET S, Cardinality(s) <= 0
        PROVE  g[s] = Adding(f, g, s)
    <3>1. IsFiniteSet(s) /\ Cardinality(s) = 0
      BY <2>1, FS_Subset, FS_CardinalityType
    <3>2. s = {}
      BY <3>1, FS_EmptySet
    <3> QED
      BY <3>2 DEF Adding
  <2>2. g \in [SUBSET S -> Int]
    OBVIOUS
  <2>3. RightUpTo(f, S, g, 0)
    BY <2>1 DEF RightUpTo
  <2> QED
    BY <2>2, <2>3
<1>2. ASSUME NEW n \in Nat, n \in A
      PROVE  n + 1 \in A
  <2>1. PICK g \in [SUBSET S -> Int] : RightUpTo(f, S, g, n)
    BY <1>2
  <2> DEFINE h == [s \in SUBSET S |-> Adding(f, g, s)]
  <2>2. h \in [SUBSET S -> Int] /\ RightUpTo(f, S, h, n + 1)
    BY <2>1, OneRoundMore
  <2> QED
    BY <2>2
<1>3. Cardinality(S) \in Nat
  BY FS_CardinalityType
<1> HIDE DEF A
<1>4. Cardinality(S) \in A
  BY <1>1, <1>2, <1>3, AllNumbers
<1> USE DEF A
<1>5. PICK g \in [SUBSET S -> Int] : RightUpTo(f, S, g, Cardinality(S))
  BY <1>4
<1>6. \A s \in SUBSET S : g[s] = Adding(f, g, s)
  BY <1>5, FS_Subset DEF RightUpTo
<1>7. Sums(f, S, g)
  BY <1>6 DEF Sums
<1> QED
  BY <1>7

\* There is only one such g.
LEMMA SumsAgree ==
    ASSUME NEW f, NEW S, IsFiniteSet(S), NEW T \in SUBSET S,
           NEW g, Sums(f, S, g), NEW h, Sums(f, T, h)
    PROVE  \A s \in SUBSET T : g[s] = h[s]
<1> DEFINE A == {n \in Nat : \A s \in SUBSET T : Cardinality(s) = n => g[s] = h[s]}
<1>1. \A s \in SUBSET T : IsFiniteSet(s) /\ Cardinality(s) \in Nat
  BY FS_Subset, FS_CardinalityType
<1>2. \A s \in SUBSET T : g[s] = Adding(f, g, s) /\ h[s] = Adding(f, h, s)
  BY DEF Sums
<1>3. 0 \in A
  <2>1. \A s \in SUBSET T : Cardinality(s) = 0 => s = {}
    BY <1>1, FS_EmptySet
  <2> QED
    BY <1>2, <2>1 DEF Adding
<1>4. ASSUME NEW n \in Nat, n \in A
      PROVE  n + 1 \in A
  <2> SUFFICES ASSUME NEW s \in SUBSET T, Cardinality(s) = n + 1
               PROVE  g[s] = h[s]
    OBVIOUS
  <2>1. s # {}
    BY FS_EmptySet
  <2> DEFINE r == s \ {One(s)}
  <2>2. r \in SUBSET T /\ Cardinality(r) = n
    <3>1. IsFiniteSet(s) /\ One(s) \in s
      BY <1>1, <2>1, OneIsIn
    <3>2. Cardinality(r) = Cardinality(s) - 1
      BY <3>1, FS_RemoveElement
    <3> QED
      BY <3>2
  <2>3. g[r] = h[r]
    BY <1>4, <2>2
  <2> QED
    BY <1>2, <2>1, <2>3 DEF Adding
<1> HIDE DEF A
<1>5. Nat \subseteq A
  BY <1>3, <1>4, AllNumbers
<1> QED
  BY <1>1, <1>5 DEF A

\* The sum over S, through any function that gives the sums over its subsets.
LEMMA SumIs ==
    ASSUME NEW f, NEW S, IsFiniteSet(S), \A x \in S : f[x] \in Int
    PROVE  \E g \in [SUBSET S -> Int] :
              Sums(f, S, g) /\ \A T \in SUBSET S : SumFunctionOnSet(f, T) = g[T]
<1>1. PICK g \in [SUBSET S -> Int] : Sums(f, S, g)
  BY SumsExist
<1>2. ASSUME NEW T \in SUBSET S
      PROVE  SumFunctionOnSet(f, T) = g[T]
  <2>1. IsFiniteSet(T)
    BY FS_Subset
  <2>2. \E h : Sums(f, T, h)
    BY <2>1, SumsExist
  <2>3. PICK h : h = (CHOOSE k : Sums(f, T, k)) /\ Sums(f, T, h)
    BY <2>2
  <2>4. SumFunctionOnSet(f, T) = h[T]
    BY <2>3, SumIsOneOfSums
  <2> QED
    BY <1>1, <2>3, <2>4, SumsAgree
<1> QED
  BY <1>1, <1>2

LEMMA SumType ==
    ASSUME NEW f, NEW S, IsFiniteSet(S), \A x \in S : f[x] \in Int
    PROVE  SumFunctionOnSet(f, S) \in Int
<1>1. PICK g \in [SUBSET S -> Int] : SumFunctionOnSet(f, S) = g[S]
  BY SumIs
<1> QED
  BY <1>1

LEMMA SumOfNone ==
    ASSUME NEW f
    PROVE  SumFunctionOnSet(f, {}) = 0
<1>1. IsFiniteSet({})
  BY FS_EmptySet
<1>2. PICK g : Sums(f, {}, g) /\ SumFunctionOnSet(f, {}) = g[{}]
  BY <1>1, SumIs
<1> QED
  BY <1>2 DEF Sums, Adding

\* The values of f in S are integers.
Ints(f, S) == \A x \in S : f[x] \in Int

\* It does not matter which element is taken out.
LEMMA SumWithout ==
    ASSUME NEW f, NEW S, IsFiniteSet(S), Ints(f, S), NEW e \in S
    PROVE  SumFunctionOnSet(f, S) = f[e] + SumFunctionOnSet(f, S \ {e})
<1>0. \A x \in S : f[x] \in Int
  BY DEF Ints
<1>1. PICK g \in [SUBSET S -> Int] :
          Sums(f, S, g) /\ \A T \in SUBSET S : SumFunctionOnSet(f, T) = g[T]
  BY <1>0, SumIs
<1> DEFINE A == {n \in Nat : \A s \in SUBSET S : \A x \in s :
                    Cardinality(s) = n => g[s] = f[x] + g[s \ {x}]}
<1>2. \A s \in SUBSET S : IsFiniteSet(s) /\ Cardinality(s) \in Nat
  BY FS_Subset, FS_CardinalityType
<1>3. 0 \in A
  <2>1. \A s \in SUBSET S : Cardinality(s) = 0 => s = {}
    BY <1>2, FS_EmptySet
  <2> QED
    BY <2>1
<1>4. ASSUME NEW n \in Nat, n \in A
      PROVE  n + 1 \in A
  <2> SUFFICES ASSUME NEW s \in SUBSET S, NEW x \in s, Cardinality(s) = n + 1
               PROVE  g[s] = f[x] + g[s \ {x}]
    OBVIOUS
  <2> DEFINE c == One(s)
  <2>1. c \in s
    BY OneIsIn
  <2>2. g[s] = f[c] + g[s \ {c}]
    BY <1>1 DEF Sums, Adding
  <2> HIDE DEF c
  <2>3. CASE x = c
    BY <2>2, <2>3
  <2>4. CASE x # c
    <3>1. x \in s \ {c} /\ c \in s \ {x}
      BY <2>1, <2>4
    <3>2. Cardinality(s \ {c}) = n /\ Cardinality(s \ {x}) = n
      <4>1. IsFiniteSet(s)
        BY <1>2
      <4>2. /\ Cardinality(s \ {c}) = Cardinality(s) - 1
            /\ Cardinality(s \ {x}) = Cardinality(s) - 1
        BY <4>1, <2>1, FS_RemoveElement
      <4> QED
        BY <4>2
    <3>3. g[s \ {c}] = f[x] + g[(s \ {c}) \ {x}]
      BY <1>4, <3>1, <3>2
    <3>4. g[s \ {x}] = f[c] + g[(s \ {x}) \ {c}]
      BY <1>4, <3>1, <3>2
    <3>5. (s \ {c}) \ {x} = (s \ {x}) \ {c}
      OBVIOUS
    <3>6. PICK rest \in Int : rest = g[(s \ {x}) \ {c}]
      OBVIOUS
    <3>7. PICK fc \in Int, fx \in Int : fc = f[c] /\ fx = f[x]
      BY <1>0, <2>1
    <3>8. g[s \ {c}] = fx + rest /\ g[s \ {x}] = fc + rest
      BY <3>3, <3>4, <3>5, <3>6, <3>7
    <3>9. g[s] = fc + (fx + rest)
      BY <2>2, <3>7, <3>8
    <3>10. fc + (fx + rest) = fx + (fc + rest)
      OBVIOUS
    <3> QED
      BY <3>7, <3>8, <3>9, <3>10
  <2> QED
    BY <2>3, <2>4
<1> HIDE DEF A
<1>5. Nat \subseteq A
  BY <1>3, <1>4, AllNumbers
<1>6. g[S] = f[e] + g[S \ {e}]
  BY <1>2, <1>5 DEF A
<1> QED
  BY <1>1, <1>6

\* The sum depends on the values summed only.
LEMMA SumOfEqual ==
    ASSUME NEW f, NEW h, NEW S, IsFiniteSet(S), \A x \in S : f[x] \in Int,
           \A x \in S : h[x] = f[x]
    PROVE  SumFunctionOnSet(h, S) = SumFunctionOnSet(f, S)
<1>1. PICK g \in [SUBSET S -> Int] : Sums(f, S, g) /\ SumFunctionOnSet(f, S) = g[S]
  BY SumIs
<1>2. PICK k \in [SUBSET S -> Int] : Sums(h, S, k) /\ SumFunctionOnSet(h, S) = k[S]
  <2>1. \A x \in S : h[x] \in Int
    OBVIOUS
  <2>2. PICK k \in [SUBSET S -> Int] :
            Sums(h, S, k) /\ \A T \in SUBSET S : SumFunctionOnSet(h, T) = k[T]
    BY <2>1, SumIs
  <2>3. SumFunctionOnSet(h, S) = k[S]
    BY <2>2
  <2> QED
    BY <2>2, <2>3
<1>3. \A s \in SUBSET S : Adding(f, g, s) = Adding(h, g, s)
  <2>1. \A s \in SUBSET S : s # {} => One(s) \in S
    BY OneIsIn
  <2> QED
    BY <2>1 DEF Adding
<1>4. Sums(h, S, g)
  BY <1>1, <1>3 DEF Sums
<1> QED
  BY <1>1, <1>2, <1>4, SumsAgree

\* A sum of natural numbers is one, and at least each of them.
LEMMA SumOfNats ==
    ASSUME NEW f, NEW S, IsFiniteSet(S), \A x \in S : f[x] \in Nat
    PROVE  SumFunctionOnSet(f, S) \in Nat
<1>1. \A x \in S : f[x] \in Int
  OBVIOUS
<1>2. PICK g \in [SUBSET S -> Int] : Sums(f, S, g) /\ SumFunctionOnSet(f, S) = g[S]
  BY <1>1, SumIs
<1> DEFINE A == {n \in Nat : \A s \in SUBSET S : Cardinality(s) = n => g[s] \in Nat}
<1>3. \A s \in SUBSET S : IsFiniteSet(s) /\ Cardinality(s) \in Nat
  BY FS_Subset, FS_CardinalityType
<1>4. 0 \in A
  <2>1. \A s \in SUBSET S : Cardinality(s) = 0 => s = {}
    BY <1>3, FS_EmptySet
  <2> QED
    BY <1>2, <2>1 DEF Sums, Adding
<1>5. ASSUME NEW n \in Nat, n \in A
      PROVE  n + 1 \in A
  <2> SUFFICES ASSUME NEW s \in SUBSET S, Cardinality(s) = n + 1
               PROVE  g[s] \in Nat
    OBVIOUS
  <2>1. IsFiniteSet(s) /\ s # {}
    BY <1>3, FS_EmptySet
  <2>2. One(s) \in s
    BY <2>1, OneIsIn
  <2> DEFINE r == s \ {One(s)}
  <2>3. Cardinality(r) = n
    <3>1. Cardinality(r) = Cardinality(s) - 1
      BY <2>1, <2>2, FS_RemoveElement
    <3> QED
      BY <3>1
  <2>4. g[r] \in Nat /\ f[One(s)] \in Nat
    BY <1>5, <2>2, <2>3
  <2>5. g[s] = f[One(s)] + g[r]
    BY <1>2, <2>1 DEF Sums, Adding
  <2> QED
    BY <2>4, <2>5
<1> HIDE DEF A
<1>6. Nat \subseteq A
  BY <1>4, <1>5, AllNumbers
<1> QED
  BY <1>2, <1>3, <1>6 DEF A

-----------------------------------------------------------------------------
(* Sums over intervals.                                                    *)

LEMMA IntervalFinite ==
    ASSUME NEW i \in Int, NEW j \in Int
    PROVE  IsFiniteSet(i..j)
BY FS_Interval

LEMMA SumOfEmptyInterval ==
    ASSUME NEW f, NEW i \in Int, NEW j \in Int, j < i
    PROVE  SumFunctionOnSet(f, i..j) = 0
<1>1. i..j = {}
  OBVIOUS
<1> QED
  BY <1>1, SumOfNone

LEMMA SumToNext ==
    ASSUME NEW f, NEW i \in Int, NEW j \in Int, i <= j + 1,
           \A x \in i..(j + 1) : f[x] \in Int
    PROVE  /\ SumFunctionOnSet(f, i..j) \in Int
           /\ SumFunctionOnSet(f, i..(j + 1)) = SumFunctionOnSet(f, i..j) + f[j + 1]
<1>1. (i..(j + 1)) \ {j + 1} = i..j /\ j + 1 \in i..(j + 1) /\ j + 1 \in Int
  OBVIOUS
<1>2. IsFiniteSet(i..j) /\ IsFiniteSet(i..(j + 1))
  BY <1>1, IntervalFinite
<1>3. SumFunctionOnSet(f, i..(j + 1)) = f[j + 1] + SumFunctionOnSet(f, i..j)
  <2>1. SumFunctionOnSet(f, i..(j + 1))
        = f[j + 1] + SumFunctionOnSet(f, (i..(j + 1)) \ {j + 1})
    BY <1>1, <1>2, SumWithout DEF Ints
  <2> QED
    BY <1>1, <2>1
<1>4. SumFunctionOnSet(f, i..j) \in Int
  BY <1>2, SumType
<1> QED
  BY <1>1, <1>3, <1>4

\* Sums over adjacent intervals.
LEMMA SumOfParts ==
    ASSUME NEW f, NEW i \in Int, NEW k \in Int, NEW j \in Int, i <= k + 1, k <= j,
           \A x \in i..j : f[x] \in Int
    PROVE  /\ SumFunctionOnSet(f, i..k) \in Int
           /\ SumFunctionOnSet(f, (k + 1)..j) \in Int
           /\ SumFunctionOnSet(f, i..j)
              = SumFunctionOnSet(f, i..k) + SumFunctionOnSet(f, (k + 1)..j)
<1> DEFINE part(m) == SumFunctionOnSet(f, (k + 1)..m)
           all(m)  == SumFunctionOnSet(f, i..m)
           A == {n \in Nat : k + n <= j =>
                    /\ all(k) \in Int /\ part(k + n) \in Int
                    /\ all(k + n) = all(k) + part(k + n)}
<1>1. 0 \in A
  <2>1. IsFiniteSet(i..k) /\ \A x \in i..k : f[x] \in Int
    BY IntervalFinite
  <2>2. all(k) \in Int
    BY <2>1, SumType
  <2>3. k + 0 = k
    OBVIOUS
  <2>4. part(k) = 0
    BY SumOfEmptyInterval
  <2> HIDE DEF all, part
  <2> QED
    BY <2>2, <2>3, <2>4
<1>2. ASSUME NEW n \in Nat, n \in A
      PROVE  n + 1 \in A
  <2> SUFFICES ASSUME k + (n + 1) <= j
               PROVE  /\ all(k) \in Int /\ part(k + (n + 1)) \in Int
                      /\ all(k + (n + 1)) = all(k) + part(k + (n + 1))
    OBVIOUS
  <2>1. /\ k + n \in Int /\ i <= (k + n) + 1 /\ k + 1 <= (k + n) + 1 /\ k + 1 \in Int
        /\ \A x \in i..((k + n) + 1) : f[x] \in Int
        /\ \A x \in (k + 1)..((k + n) + 1) : f[x] \in Int
        /\ (k + n) + 1 = k + (n + 1) /\ k + n <= j
    OBVIOUS
  <2>2. all((k + n) + 1) = all(k + n) + f[(k + n) + 1]
    BY <2>1, SumToNext
  <2>3. part((k + n) + 1) = part(k + n) + f[(k + n) + 1]
    BY <2>1, SumToNext
  <2>4. f[(k + n) + 1] \in Int
    <3>1. (k + n) + 1 \in i..((k + n) + 1)
      BY <2>1
    <3> QED
      BY <2>1, <3>1
  <2>5. /\ all(k) \in Int /\ part(k + n) \in Int
        /\ all(k + n) = all(k) + part(k + n)
    BY <1>2, <2>1
  <2> HIDE DEF all, part
  <2> QED
    BY <2>1, <2>2, <2>3, <2>4, <2>5
<1> HIDE DEF A
<1>3. j - k \in A /\ j - k \in Nat /\ k + (j - k) = j
  BY <1>1, <1>2, AllNumbers
<1> QED
  BY <1>3 DEF A

\* A sum of natural numbers over a longer interval is not smaller.
LEMMA SumGrows ==
    ASSUME NEW f, NEW i \in Int, NEW k \in Int, NEW j \in Int, k <= j,
           \A x \in i..j : f[x] \in Nat
    PROVE  /\ SumFunctionOnSet(f, i..k) \in Nat /\ SumFunctionOnSet(f, i..j) \in Nat
           /\ SumFunctionOnSet(f, i..k) <= SumFunctionOnSet(f, i..j)
<1>1. IsFiniteSet(i..k) /\ IsFiniteSet(i..j) /\ IsFiniteSet((k + 1)..j)
  BY IntervalFinite
<1>2. SumFunctionOnSet(f, i..k) \in Nat /\ SumFunctionOnSet(f, i..j) \in Nat
  BY <1>1, SumOfNats
<1>3. CASE k + 1 < i
  <2>1. SumFunctionOnSet(f, i..k) = 0
    BY <1>3, SumOfEmptyInterval
  <2> QED
    BY <1>2, <2>1
<1>4. CASE i <= k + 1
  <2>1. SumFunctionOnSet(f, (k + 1)..j) \in Nat
    BY <1>1, <1>4, SumOfNats
  <2>2. SumFunctionOnSet(f, i..j)
        = SumFunctionOnSet(f, i..k) + SumFunctionOnSet(f, (k + 1)..j)
    BY <1>4, SumOfParts
  <2> QED
    BY <1>2, <2>1, <2>2
<1> QED
  BY <1>2, <1>3, <1>4

-----------------------------------------------------------------------------
(* Concatenations.                                                         *)

\* What the definition of a concatenation makes of shorter ones.
Joining(s, g, i) == IF i = 1 THEN s[i] ELSE g[i - 1] \o s[i]

\* g gives the concatenations of the first sequences of s.
Joins(s, g) == g = [i \in 1..Len(s) |-> Joining(s, g, i)]

LEMMA FlattenIsOneOfJoins ==
    ASSUME NEW s, Len(s) # 0
    PROVE  FlattenSeq(s) = (CHOOSE g : Joins(s, g))[Len(s)]
BY DEF FlattenSeq, Joins, Joining

LEMMA JoinsExist ==
    ASSUME NEW T, NEW s \in Seq(Seq(T))
    PROVE  \E g \in [1..Len(s) -> Seq(T)] : Joins(s, g)
<1> DEFINE Right(g, n) == \A i \in 1..Len(s) : i <= n => g[i] = Joining(s, g, i)
           A == {n \in Nat : \E g \in [1..Len(s) -> Seq(T)] : Right(g, n)}
<1>1. Len(s) \in Nat /\ \A i \in 1..Len(s) : s[i] \in Seq(T)
  BY LenProperties, ElementOfSeq
<1>2. 0 \in A
  <2> DEFINE g == [i \in 1..Len(s) |-> << >>]
  <2>1. g \in [1..Len(s) -> Seq(T)]
    BY EmptySeq
  <2>2. Right(g, 0)
    OBVIOUS
  <2> HIDE DEF g
  <2> QED
    BY <2>1, <2>2
<1>3. ASSUME NEW n \in Nat, n \in A
      PROVE  n + 1 \in A
  <2>1. PICK g \in [1..Len(s) -> Seq(T)] : Right(g, n)
    BY <1>3
  <2> DEFINE h == [i \in 1..Len(s) |-> Joining(s, g, i)]
  <2>2. ASSUME NEW i \in 1..Len(s)
        PROVE  Joining(s, g, i) \in Seq(T)
    <3>1. CASE i = 1
      BY <1>1, <3>1 DEF Joining
    <3>2. CASE i # 1
      <4>1. i - 1 \in 1..Len(s)
        BY <1>1, <3>2
      <4>2. g[i - 1] \in Seq(T)
        BY <4>1
      <4> QED
        BY <1>1, <3>2, <4>2, ConcatProperties DEF Joining
    <3> QED
      BY <3>1, <3>2
  <2>3. h \in [1..Len(s) -> Seq(T)]
    BY <2>2
  <2>4. ASSUME NEW i \in 1..Len(s), i <= n + 1
        PROVE  h[i] = Joining(s, h, i)
    <3>1. CASE i = 1
      BY <3>1 DEF Joining
    <3>2. CASE i # 1
      <4>1. i - 1 \in 1..Len(s) /\ i - 1 <= n
        BY <1>1, <2>4, <3>2
      <4>2. h[i - 1] = g[i - 1]
        BY <2>1, <4>1
      <4> QED
        BY <3>2, <4>2 DEF Joining
    <3> QED
      BY <3>1, <3>2
  <2>5. Right(h, n + 1)
    BY <2>4
  <2> HIDE DEF h, Right
  <2> QED
    BY <2>3, <2>5
<1> HIDE DEF A
<1>4. Len(s) \in A
  BY <1>1, <1>2, <1>3, AllNumbers
<1>5. PICK g \in [1..Len(s) -> Seq(T)] : Right(g, Len(s))
  BY <1>4 DEF A
<1>6. \A i \in 1..Len(s) : g[i] = Joining(s, g, i)
  BY <1>1, <1>5
<1> QED
  BY <1>6 DEF Joins

\* The concatenations of the first sequences of s and of u, which goes on
\* after them, are the same.
LEMMA JoinsAgree ==
    ASSUME NEW s, Len(s) \in Nat, NEW u, Len(u) \in Nat, Len(s) <= Len(u),
           \A i \in 1..Len(s) : u[i] = s[i],
           NEW g, Joins(s, g), NEW h, Joins(u, h)
    PROVE  \A i \in 1..Len(s) : g[i] = h[i]
<1> DEFINE A == {n \in Nat : n + 1 <= Len(s) => g[n + 1] = h[n + 1]}
<1>1. \A i \in 1..Len(s) : g[i] = Joining(s, g, i) /\ h[i] = Joining(u, h, i)
  <2>1. \A i \in 1..Len(s) : g[i] = Joining(s, g, i)
    BY DEF Joins
  <2>2. \A i \in 1..Len(u) : h[i] = Joining(u, h, i)
    BY DEF Joins
  <2>3. \A i \in 1..Len(s) : i \in 1..Len(u)
    OBVIOUS
  <2> QED
    BY <2>1, <2>2, <2>3
<1>2. 0 \in A
  BY <1>1 DEF Joining
<1>3. ASSUME NEW n \in Nat, n \in A
      PROVE  n + 1 \in A
  <2> SUFFICES ASSUME (n + 1) + 1 <= Len(s)
               PROVE  g[(n + 1) + 1] = h[(n + 1) + 1]
    OBVIOUS
  <2>1. (n + 1) + 1 \in 1..Len(s) /\ ((n + 1) + 1) - 1 = n + 1 /\ (n + 1) + 1 # 1
    OBVIOUS
  <2>2. g[n + 1] = h[n + 1]
    BY <1>3, <2>1
  <2>3. /\ g[(n + 1) + 1] = g[n + 1] \o s[(n + 1) + 1]
        /\ h[(n + 1) + 1] = h[n + 1] \o u[(n + 1) + 1]
    BY <1>1, <2>1 DEF Joining
  <2> QED
    BY <2>1, <2>2, <2>3
<1> HIDE DEF A
<1>4. Nat \subseteq A
  BY <1>2, <1>3, AllNumbers
<1> SUFFICES ASSUME NEW i \in 1..Len(s)
             PROVE  g[i] = h[i]
  OBVIOUS
<1>5. i - 1 \in A /\ (i - 1) + 1 = i /\ i <= Len(s)
  BY <1>4
<1> QED
  BY <1>5 DEF A

LEMMA FlattenIs ==
    ASSUME NEW T, NEW s \in Seq(Seq(T)), NEW g, Joins(s, g), s # << >>
    PROVE  FlattenSeq(s) = g[Len(s)]
<1>1. Len(s) \in Nat \ {0}
  BY EmptySeq
<1>2. PICK h : h = (CHOOSE k : Joins(s, k)) /\ Joins(s, h)
  BY JoinsExist
<1>3. \A i \in 1..Len(s) : g[i] = h[i]
  BY <1>1, <1>2, JoinsAgree
<1> QED
  BY <1>1, <1>2, <1>3, FlattenIsOneOfJoins

LEMMA FlattenOfNone == FlattenSeq(<< >>) = << >>
BY DEF FlattenSeq

LEMMA FlattenType ==
    ASSUME NEW T, NEW s \in Seq(Seq(T))
    PROVE  FlattenSeq(s) \in Seq(T)
<1>1. CASE s = << >>
  BY <1>1, FlattenOfNone, EmptySeq
<1>2. CASE s # << >>
  <2>1. PICK g \in [1..Len(s) -> Seq(T)] : Joins(s, g)
    BY JoinsExist
  <2>2. Len(s) \in 1..Len(s)
    BY <1>2, EmptySeq
  <2>3. FlattenSeq(s) = g[Len(s)]
    BY <1>2, <2>1, FlattenIs
  <2> QED
    BY <2>1, <2>2, <2>3
<1> QED
  BY <1>1, <1>2

LEMMA FlattenOfAppend ==
    ASSUME NEW T, NEW s \in Seq(Seq(T)), NEW e \in Seq(T)
    PROVE  FlattenSeq(Append(s, e)) = FlattenSeq(s) \o e
<1>1. PICK u :
          /\ u = Append(s, e) /\ u \in Seq(Seq(T)) /\ u # << >>
          /\ Len(u) = Len(s) + 1 /\ Len(s) \in Nat
          /\ \A i \in 1..Len(s) : u[i] = s[i]
          /\ u[Len(s) + 1] = e
  BY AppendProperties, LenProperties, ZenonT(30)
<1>2. PICK g : Joins(s, g)
  BY JoinsExist
<1>3. PICK h : Joins(u, h)
  BY <1>1, JoinsExist
<1>4. FlattenSeq(u) = h[Len(s) + 1]
  BY <1>1, <1>3, FlattenIs
<1>5. h[Len(s) + 1] = Joining(u, h, Len(s) + 1)
  <2>1. Len(s) + 1 \in 1..Len(u)
    BY <1>1
  <2>2. \A i \in 1..Len(u) : h[i] = Joining(u, h, i)
    BY <1>3 DEF Joins
  <2> QED
    BY <2>1, <2>2
<1>6. CASE s = << >>
  <2>1. Len(s) = 0
    BY <1>6, EmptySeq
  <2>2. FlattenSeq(u) = e
    BY <1>1, <1>4, <1>5, <2>1 DEF Joining
  <2> QED
    BY <1>1, <1>6, <2>2, FlattenOfNone, ConcatEmptySeq
<1>7. CASE s # << >>
  <2>1. Len(s) \in 1..Len(s) /\ Len(s) + 1 # 1 /\ (Len(s) + 1) - 1 = Len(s)
    BY <1>1, <1>7, EmptySeq
  <2>2. h[Len(s)] = g[Len(s)]
    <3>1. Len(s) \in Nat
      BY <1>1
    <3>2. Len(u) \in Nat
      BY <1>1
    <3>3. Len(s) <= Len(u)
      BY <1>1
    <3>4. \A i \in 1..Len(s) : u[i] = s[i]
      BY <1>1
    <3>5. \A i \in 1..Len(s) : g[i] = h[i]
      BY <1>2, <1>3, <3>1, <3>2, <3>3, <3>4, JoinsAgree
    <3> QED
      BY <2>1, <3>5
  <2>3. FlattenSeq(s) = g[Len(s)]
    BY <1>2, <1>7, FlattenIs
  <2> QED
    BY <1>1, <1>4, <1>5, <2>1, <2>2, <2>3 DEF Joining
<1> QED
  BY <1>6, <1>7

-----------------------------------------------------------------------------
(* What a step does to one track's media.                                  *)

\* Chunks, buffer and flushed chunks of track t become those of media m.
Became(t, m) ==
    chunks'[t] = m.chunks /\ buffer'[t] = m.buffer /\ flushed'[t] = m.flushed

\* Histories that differ in rendering offsets only.
SameButOffsets(h, g) ==
    /\ Len(g) = Len(h)
    /\ \A k \in 1..Len(h) : /\ g[k].size = h[k].size
                            /\ g[k].duration = h[k].duration
                            /\ g[k].mode = h[k].mode /\ g[k].sync = h[k].sync

SampleOf(t, s) == [s EXCEPT !.duration = Duration(t, s)]

Stays(t) == Became(t, Media(t)) /\ SameButOffsets(hist[t], hist'[t])

Flushes(t) ==
    Became(t, WriteChunkBuffer(Media(t), writeId[t])) /\ hist'[t] = hist[t]

Writes(t, s) ==
    /\ hist'[t] = Append(hist[t], SampleOf(t, s))
    /\ \/ Became(t, Buffered(t, s))
       \/ Became(t, WriteChunkBuffer(Buffered(t, s), writeId[t]))

Reopens(t) ==
    /\ phase = "closed" /\ hist'[t] = hist[t]
    /\ chunks'[t] = Reread(chunks[t]) /\ buffer'[t] = EmptyBuffer
    /\ flushed'[t] = flushed[t]

MediaStep(t) ==
    \/ Stays(t) \/ Flushes(t) \/ Reopens(t)
    \/ \E s \in Written(t) : Writes(t, s)

LEMMA SameItself ==
    ASSUME NEW h
    PROVE  SameButOffsets(h, h)
BY DEF SameButOffsets

\* A call that leaves the media of all tracks and the history alone.
LEMMA AllStay ==
    ASSUME UNCHANGED << chunks, buffer, flushed, hist >>, NEW u \in Tracks
    PROVE  MediaStep(u)
BY SameItself DEF MediaStep, Stays, Became, Media

\* A call that sets the media of one track to n.
LEMMA OneBecomes ==
    ASSUME IInv, NEW t \in Tracks, NEW n, SetMedia(t, n), NEW u \in Tracks,
           u # t => hist'[u] = hist[u]
    PROVE  /\ Became(t, n)
           /\ u # t => Stays(u)
<1>1. /\ DOMAIN chunks = Tracks /\ DOMAIN buffer = Tracks /\ DOMAIN flushed = Tracks
  BY DEF IInv, StateType, MediaType
<1>2. Became(t, n)
  BY <1>1 DEF SetMedia, Became
<1>3. u # t => Became(u, Media(u))
  BY <1>1 DEF SetMedia, Became, Media
<1> QED
  BY <1>2, <1>3, SameItself DEF Stays

LEMMA FailsStays ==
    ASSUME IInv, NEW m, IsMedia(m), NEW k, NEW t, Became(t, WriteChunkBufferFails(m, k))
    PROVE  Became(t, m)
<1>1. /\ WriteChunkBufferFails(m, k).chunks = m.chunks
      /\ WriteChunkBufferFails(m, k).buffer = m.buffer
      /\ WriteChunkBufferFails(m, k).flushed = m.flushed
  BY DEF IsMedia, WriteChunkBufferFails
<1> QED
  BY <1>1 DEF Became

\* A call that flushes the buffer of track t, tries to, or reads from chunks.
LEMMA FlushStep ==
    ASSUME IInv, NEW t \in Tracks, NEW n, SetMedia(t, n), UNCHANGED hist,
           \/ n = Media(t)
           \/ n = WriteChunkBuffer(Media(t), writeId[t])
           \/ \E k \in 0..(Len(buffer[t].bytes) - 1) : n = WriteChunkBufferFails(Media(t), k),
           NEW u \in Tracks
    PROVE  MediaStep(u)
<1>1. Became(t, n) /\ (u # t => Stays(u))
  BY OneBecomes
<1>2. IsMedia(Media(t))
  BY MediaIsMedia DEF IInv, StateType
<1>3. \/ Became(t, Media(t)) \/ Became(t, WriteChunkBuffer(Media(t), writeId[t]))
  BY <1>1, <1>2, FailsStays
<1>4. Stays(t) \/ Flushes(t)
  BY <1>3, SameItself DEF Stays, Flushes
<1> QED
  BY <1>1, <1>4 DEF MediaStep

LEMMA WriteStep ==
    ASSUME IInv, NEW t \in Tracks, NEW s \in Written(t),
           WriteSample(t, s) \/ WriteSampleThrows(t, s), NEW u \in Tracks
    PROVE  MediaStep(u)
<1> DEFINE b == Buffered(t, s)
<1>1. MediaType /\ WriterType
  BY DEF IInv, StateType
<1>2. hist' = [hist EXCEPT ![t] = Append(@, SampleOf(t, s))]
  BY DEF WriteSample, WriteSampleThrows, RecordSample, SampleOf
<1>3. hist'[t] = Append(hist[t], SampleOf(t, s)) /\ (u # t => hist'[u] = hist[u])
  BY <1>1, <1>2 DEF WriterType
<1>4. PICK n : /\ SetMedia(t, n)
               /\ \/ n = b \/ n = WriteChunkBuffer(b, writeId[t])
                  \/ \E k \in 0..(Len(b.buffer.bytes) - 1) : n = WriteChunkBufferFails(b, k)
  BY DEF WriteSample, WriteSampleThrows
<1>5. IsMedia(b)
  BY <1>1, BufferedFollows DEF Follows
<1>6. Became(t, n) /\ (u # t => Stays(u))
  BY <1>3, <1>4, OneBecomes
<1>7. Became(t, b) \/ Became(t, WriteChunkBuffer(b, writeId[t]))
  BY <1>4, <1>5, <1>6, FailsStays
<1>8. Writes(t, s)
  BY <1>3, <1>7 DEF Writes
<1> QED
  BY <1>6, <1>8 DEF MediaStep

LEMMA SetOffsetStays ==
    ASSUME IInv, NEW t \in Tracks, NEW sampleId, NEW offset, SetOffset(t, sampleId, offset),
           NEW u \in Tracks
    PROVE  Stays(u)
<1>1. /\ UNCHANGED << chunks, buffer, flushed >> /\ hist \in [Tracks -> Seq(SampleType)]
      /\ hist' = [hist EXCEPT ![t][sampleId].offset = offset]
  BY DEF SetOffset, IInv, StateType, WriterType
<1> DEFINE h == hist[u]
           g == [h EXCEPT ![sampleId].offset = offset]
<1>2. h \in Seq(SampleType) /\ Len(h) \in Nat /\ DOMAIN h = 1..Len(h)
  BY <1>1, LenProperties
<1>3. hist'[u] = h \/ hist'[u] = g
  BY <1>1
<1>4. \A i \in 1..Len(h) : h[i] \in SampleType
  BY <1>2, ElementOfSeq
<1> HIDE DEF h
<1>5. Len(g) = Len(h)
  BY <1>2, LenProperties
<1>6. ASSUME NEW i \in 1..Len(h)
      PROVE  /\ g[i].size = h[i].size /\ g[i].duration = h[i].duration
             /\ g[i].mode = h[i].mode /\ g[i].sync = h[i].sync
  <2>1. g[i] = IF i = sampleId THEN [h[i] EXCEPT !.offset = offset] ELSE h[i]
    BY <1>2
  <2>2. /\ [h[i] EXCEPT !.offset = offset].size = h[i].size
        /\ [h[i] EXCEPT !.offset = offset].duration = h[i].duration
        /\ [h[i] EXCEPT !.offset = offset].mode = h[i].mode
        /\ [h[i] EXCEPT !.offset = offset].sync = h[i].sync
    BY <1>4 DEF SampleType
  <2> QED
    BY <2>1, <2>2
<1> HIDE DEF g
<1>7. SameButOffsets(h, g) /\ SameButOffsets(h, h)
  BY <1>5, <1>6 DEF SameButOffsets
<1>8. Stays(u)
  BY <1>1, <1>3, <1>7 DEF Stays, Became, Media, h
<1> QED
  BY <1>8

LEMMA EveryStep ==
    ASSUME IInv, [Next]_vars, NEW u \in Tracks
    PROVE  MediaStep(u)
<1>1. ASSUME NEW t \in Tracks, NEW s \in Written(t),
             WriteSample(t, s) \/ WriteSampleThrows(t, s)
      PROVE  MediaStep(u)
  BY <1>1, WriteStep
<1>2. ASSUME NEW t \in Tracks, NEW s \in Written(t), ModeFlushThrows(t, s)
      PROVE  MediaStep(u)
  BY <1>2, FlushStep DEF ModeFlushThrows
<1>3. ASSUME NEW t \in Tracks, NEW d \in ChunkDurations, SetDurationPerChunk(t, d)
      PROVE  MediaStep(u)
  BY <1>3, AllStay DEF SetDurationPerChunk
<1>4. ASSUME NEW t \in Tracks, NEW sampleId \in SampleIds(t), ReadSample(t, sampleId)
      PROVE  MediaStep(u)
  <2> DEFINE m == ReadMedia(t, sampleId)
  <2>1. m = Media(t) \/ m = WriteChunkBuffer(Media(t), writeId[t])
    BY DEF ReadMedia
  <2>2. IsMedia(Media(t))
    BY MediaIsMedia DEF IInv, StateType
  <2>3. IsMedia(m)
    BY <2>1, <2>2, WriteChunkBufferFollows DEF Follows
  <2>4. \A e : [m EXCEPT !.file = RestorePosition(@, e)] = m
    BY <2>3 DEF IsMedia, RestorePosition
  <2>5. SetMedia(t, m) /\ UNCHANGED hist
    BY <1>4, <2>4 DEF ReadSample
  <2> HIDE DEF m
  <2> QED
    BY <2>1, <2>5, FlushStep
<1>5. ASSUME NEW t \in Tracks, NEW sampleId \in SampleIds(t), ReadSampleThrows(t, sampleId)
      PROVE  MediaStep(u)
  BY <1>5, FlushStep DEF ReadSampleThrows
<1>6. ASSUME NEW t \in Tracks, NEW sampleId \in SampleIds(t), LookUpSample(t, sampleId)
      PROVE  MediaStep(u)
  BY <1>6, AllStay DEF LookUpSample
<1>7. ASSUME NEW t \in Tracks, NEW sampleId \in SampleIds(t), NEW offset \in Offsets,
             SetOffset(t, sampleId, offset)
      PROVE  MediaStep(u)
  BY <1>7, SetOffsetStays DEF MediaStep
<1>8. CASE FinishTrack \/ FinishTrackThrows
  <2>1. next \in Tracks
    BY <1>8, CountsAssumption DEF FinishTrack, FinishTrackThrows, IInv, StateType, WriterType,
                                  Tracks
  <2>2. CASE FinishTrack
    BY <2>1, <2>2, FlushStep DEF FinishTrack
  <2>3. CASE FinishTrackThrows
    BY <2>1, <2>3, FlushStep DEF FinishTrackThrows
  <2> QED
    BY <1>8, <2>2, <2>3
<1>9. CASE FinishFile
  BY <1>9, AllStay DEF FinishFile
<1>10. CASE Modify
  <2>1. Reopens(u)
    BY <1>10 DEF Modify, Reopens
  <2> QED
    BY <2>1 DEF MediaStep
<1>11. CASE UNCHANGED vars
  BY <1>11, AllStay DEF vars
<1> QED
  BY <1>1, <1>2, <1>3, <1>4, <1>5, <1>6, <1>7, <1>8, <1>9, <1>10, <1>11 DEF Next

-----------------------------------------------------------------------------
(* Each sample once and in order.                                          *)

Payloads(t, h) == [k \in 1..Len(h) |-> Payload(t, k, h[k].size)]

\* Media m of track t holds the samples h.
Holds(t, m, h) == FlattenSeq(m.flushed) \o m.buffer.bytes = FlattenSeq(Payloads(t, h))

LEMMA PayloadsType ==
    ASSUME NEW t \in Tracks, NEW h \in Seq(SampleType)
    PROVE  Payloads(t, h) \in Seq(Seq(Byte)) /\ Len(Payloads(t, h)) = Len(h)
<1>1. Len(h) \in Nat /\ t \in Nat
  BY LenProperties, CountsAssumption DEF Tracks
<1>2. ASSUME NEW k \in 1..Len(h)
      PROVE  Payload(t, k, h[k].size) \in Seq(Byte)
  <2>1. h[k] \in SampleType
    BY ElementOfSeq
  <2>2. h[k].size \in Nat /\ k \in Nat
    BY <1>1, <2>1 DEF SampleType
  <2> QED
    BY <1>1, <2>2, PayloadType
<1>3. Payloads(t, h) \in [1..Len(h) -> Seq(Byte)]
  BY <1>2 DEF Payloads
<1> QED
  BY <1>1, <1>3

LEMMA PayloadsAppend ==
    ASSUME NEW t \in Tracks, NEW h \in Seq(SampleType), NEW x \in SampleType
    PROVE  Payloads(t, Append(h, x))
           = Append(Payloads(t, h), Payload(t, Len(h) + 1, x.size))
<1> DEFINE p == Payloads(t, h)
           e == Payload(t, Len(h) + 1, x.size)
           g == Append(h, x)
<1>1. Len(h) \in Nat /\ t \in Nat /\ x.size \in Nat
  BY LenProperties, CountsAssumption DEF Tracks, SampleType
<1>2. p \in Seq(Seq(Byte)) /\ Len(p) = Len(h)
  BY PayloadsType
<1>3. e \in Seq(Byte)
  <2>1. Len(h) + 1 \in Nat
    BY <1>1
  <2> QED
    BY <1>1, <2>1, PayloadType
<1>4. /\ g \in Seq(SampleType) /\ Len(g) = Len(h) + 1 /\ g[Len(h) + 1] = x
      /\ \A k \in 1..Len(h) : g[k] = h[k]
  BY AppendProperties
<1>5. Payloads(t, g) \in Seq(Seq(Byte)) /\ Len(Payloads(t, g)) = Len(h) + 1
  BY <1>4, PayloadsType
<1>6. \A k \in 1..(Len(h) + 1) : Payloads(t, g)[k] = Payload(t, k, g[k].size)
  BY <1>4 DEF Payloads
<1>7. \A k \in 1..Len(h) : p[k] = Payload(t, k, h[k].size)
  BY DEF Payloads
<1> HIDE DEF p, e, g
<1>8. /\ Append(p, e) \in Seq(Seq(Byte)) /\ Len(Append(p, e)) = Len(h) + 1
      /\ Append(p, e)[Len(h) + 1] = e
      /\ \A k \in 1..Len(h) : Append(p, e)[k] = p[k]
  BY <1>2, <1>3, AppendProperties
<1>9. ASSUME NEW k \in 1..(Len(h) + 1)
      PROVE  Payloads(t, g)[k] = Append(p, e)[k]
  <2>1. CASE k \in 1..Len(h)
    BY <1>4, <1>6, <1>7, <1>8, <2>1
  <2>2. CASE k = Len(h) + 1
    BY <1>4, <1>6, <1>8, <2>2 DEF e
  <2>3. k \in 1..Len(h) \/ k = Len(h) + 1
    BY <1>1
  <2> QED
    BY <2>1, <2>2, <2>3
<1>10. Payloads(t, g) = Append(p, e)
  BY <1>5, <1>8, <1>9, SeqEqual
<1> QED
  BY <1>10 DEF p, e, g

LEMMA HoldsAfterFlush ==
    ASSUME NEW t, NEW m, IsMedia(m), NEW id, NEW h, Holds(t, m, h)
    PROVE  Holds(t, WriteChunkBuffer(m, id), h)
<1>1. CASE m.buffer.bytes = << >>
  BY <1>1 DEF WriteChunkBuffer
<1>2. CASE m.buffer.bytes # << >>
  <2> DEFINE n == WriteChunkBuffer(m, id)
  <2>1. n.flushed = Append(m.flushed, m.buffer.bytes) /\ n.buffer.bytes = << >>
    BY <1>2 DEF WriteChunkBuffer, EmptyBuffer
  <2> HIDE DEF n
  <2>2. m.flushed \in Seq(Seq(Byte)) /\ m.buffer.bytes \in Seq(Byte)
    BY DEF IsMedia, BufferType
  <2>3. FlattenSeq(n.flushed) = FlattenSeq(m.flushed) \o m.buffer.bytes
    BY <2>1, <2>2, FlattenOfAppend
  <2>4. FlattenSeq(m.flushed) \o m.buffer.bytes \in Seq(Byte)
    BY <2>2, FlattenType, ConcatProperties
  <2>5. FlattenSeq(n.flushed) \o n.buffer.bytes = FlattenSeq(m.flushed) \o m.buffer.bytes
    BY <2>1, <2>3, <2>4, ConcatEmptySeq
  <2> QED
    BY <2>5 DEF Holds, n
<1> QED
  BY <1>1, <1>2

\* The buffer with the sample appended, and nothing else changed since the
\* flush a mode change forces.
LEMMA BufferedIs ==
    ASSUME IInv, NEW t \in Tracks, NEW s \in Written(t)
    PROVE  LET m == ModeFlushed(t, s)
               b == Buffered(t, s)
           IN  /\ IsMedia(m) /\ IsMedia(b)
               /\ m = Media(t) \/ m = WriteChunkBuffer(Media(t), writeId[t])
               /\ b.chunks = m.chunks /\ b.flushed = m.flushed /\ b.file = m.file
               /\ b.buffer = [bytes    |-> m.buffer.bytes
                                           \o Payload(t, Len(hist[t]) + 1, s.size),
                              samples  |-> m.buffer.samples + 1,
                              duration |-> m.buffer.duration + Duration(t, s)]
<1>1. IsMedia(Media(t))
  BY MediaIsMedia DEF IInv, StateType
<1>2. ModeFlushed(t, s) = Media(t) \/ ModeFlushed(t, s) = WriteChunkBuffer(Media(t), writeId[t])
  BY DEF ModeFlushed
<1>3. IsMedia(ModeFlushed(t, s))
  BY <1>1, <1>2, WriteChunkBufferFollows DEF Follows
<1>4. IsMedia(Buffered(t, s))
  BY BufferedFollows DEF Follows, IInv, StateType
<1> QED
  BY <1>2, <1>3, <1>4 DEF Buffered, IsMedia

LEMMA HoldsBuffered ==
    ASSUME IInv, NEW t \in Tracks, NEW s \in Written(t), Holds(t, Media(t), hist[t])
    PROVE  Holds(t, Buffered(t, s), Append(hist[t], SampleOf(t, s)))
<1> DEFINE m == ModeFlushed(t, s)
           b == Buffered(t, s)
           p == Payload(t, Len(hist[t]) + 1, s.size)
           h == hist[t]
           x == SampleOf(t, s)
<1>1. IsMedia(Media(t)) /\ WriterType
  BY MediaIsMedia DEF IInv, StateType
<1>2. /\ IsMedia(m) /\ b.flushed = m.flushed /\ b.buffer.bytes = m.buffer.bytes \o p
      /\ m = Media(t) \/ m = WriteChunkBuffer(Media(t), writeId[t])
  <2>1. b.buffer = [bytes |-> m.buffer.bytes \o p, samples |-> m.buffer.samples + 1,
                    duration |-> m.buffer.duration + Duration(t, s)]
    BY BufferedIs
  <2>2. /\ IsMedia(m) /\ b.flushed = m.flushed
        /\ m = Media(t) \/ m = WriteChunkBuffer(Media(t), writeId[t])
    BY BufferedIs
  <2> HIDE DEF m, b, p
  <2>3. b.buffer.bytes = m.buffer.bytes \o p
    BY <2>1
  <2> QED
    BY <2>2, <2>3
<1>3. Holds(t, m, h)
  BY <1>1, <1>2, HoldsAfterFlush
<1>4. h \in Seq(SampleType) /\ x \in SampleType /\ Len(h) + 1 \in Nat /\ t \in Nat
  <2>1. h \in Seq(SampleType)
    BY <1>1 DEF WriterType
  <2>2. x \in SampleType
    BY <1>1, WrittenType, DurationType DEF SampleOf
  <2>3. Len(h) \in Nat
    BY <2>1, LenProperties
  <2>4. t \in Nat
    BY CountsAssumption DEF Tracks
  <2> HIDE DEF h, x
  <2> QED
    BY <2>1, <2>2, <2>3, <2>4
<1>5. x.size = s.size /\ s.size \in Nat
  BY WrittenType DEF SampleOf
<1>6. p \in Seq(Byte)
  BY <1>4, <1>5, PayloadType
<1>7. m.flushed \in Seq(Seq(Byte)) /\ m.buffer.bytes \in Seq(Byte)
  BY <1>2 DEF IsMedia, BufferType
<1>8. Payloads(t, Append(h, x)) = Append(Payloads(t, h), p)
  BY <1>4, <1>5, PayloadsAppend
<1>9. Payloads(t, h) \in Seq(Seq(Byte))
  BY <1>4, PayloadsType
<1> HIDE DEF m, b, p, h, x
<1>10. FlattenSeq(Payloads(t, Append(h, x))) = FlattenSeq(Payloads(t, h)) \o p
  BY <1>6, <1>8, <1>9, FlattenOfAppend
<1>11. FlattenSeq(b.flushed) \o b.buffer.bytes
       = (FlattenSeq(m.flushed) \o m.buffer.bytes) \o p
  <2>1. PICK f \in Seq(Byte) : f = FlattenSeq(m.flushed)
    BY <1>7, FlattenType
  <2>2. PICK c \in Seq(Byte) : c = m.buffer.bytes
    BY <1>7
  <2>3. (f \o c) \o p = f \o (c \o p)
    BY <1>6, ConcatAssociative
  <2> QED
    BY <1>2, <2>1, <2>2, <2>3
<1> QED
  BY <1>3, <1>10, <1>11 DEF Holds, h, b, x

\* A file is closed after all its tracks were flushed.
AllFlushed ==
    /\ phase = "open" => next = 1
    /\ phase = "closed" => next = NumTracks + 1
    /\ phase \in {"finishing", "closed"} =>
          \A t \in Tracks : t < next => buffer[t].bytes = << >>

OrderInv == MediaInOrder /\ AllFlushed

LEMMA MediaInOrderHolds == MediaInOrder <=> \A t \in Tracks : Holds(t, Media(t), hist[t])
BY DEF MediaInOrder, Contents, Holds, Payloads, Media

LEMMA BecameHolds ==
    ASSUME NEW t, NEW m, Became(t, m), NEW h, Holds(t, m, h), hist'[t] = h
    PROVE  Holds(t, Media(t), hist[t])'
BY DEF Became, Holds, Media, Payloads, Payload

\* What is held does not depend on rendering offsets.
LEMMA SamePayloads ==
    ASSUME NEW t, NEW h, NEW g, SameButOffsets(h, g)
    PROVE  Payloads(t, g) = Payloads(t, h)
BY DEF SameButOffsets, Payloads

LEMMA StepHolds ==
    ASSUME IInv, AllFlushed, NEW t \in Tracks, Holds(t, Media(t), hist[t]), MediaStep(t)
    PROVE  Holds(t, Media(t), hist[t])'
<1>1. IsMedia(Media(t)) /\ Media(t).buffer = buffer[t] /\ Media(t).flushed = flushed[t]
  BY MediaIsMedia DEF IInv, StateType
<1>2. CASE Stays(t)
  <2>1. Holds(t, Media(t), hist'[t])
    BY <1>2, SamePayloads DEF Stays, Holds
  <2> QED
    BY <1>2, <2>1, BecameHolds DEF Stays
<1>3. CASE Flushes(t)
  <2>1. Holds(t, WriteChunkBuffer(Media(t), writeId[t]), hist'[t])
    BY <1>1, <1>3, HoldsAfterFlush DEF Flushes
  <2> QED
    BY <1>3, <2>1, BecameHolds DEF Flushes
<1>4. CASE Reopens(t)
  <2>1. buffer[t].bytes = << >>
    BY <1>4, CountsAssumption DEF Reopens, AllFlushed, Tracks
  <2> DEFINE m == [Media(t) EXCEPT !.buffer = EmptyBuffer, !.chunks = Reread(chunks[t])]
  <2>2. /\ m.flushed = Media(t).flushed /\ m.buffer = EmptyBuffer
        /\ m.chunks = Reread(chunks[t])
    BY <1>1 DEF Media
  <2>3. m.buffer.bytes = Media(t).buffer.bytes
    BY <1>1, <2>1, <2>2 DEF EmptyBuffer
  <2> HIDE DEF m
  <2>4. Holds(t, m, hist'[t])
    BY <1>4, <2>2, <2>3 DEF Holds, Reopens
  <2>5. Became(t, m)
    BY <1>1, <1>4, <2>2 DEF Became, Reopens
  <2> QED
    BY <2>4, <2>5, BecameHolds
<1>5. CASE \E s \in Written(t) : Writes(t, s)
  <2>1. PICK s \in Written(t) : Writes(t, s)
    BY <1>5
  <2>2. Holds(t, Buffered(t, s), hist'[t])
    BY <2>1, HoldsBuffered DEF Writes
  <2>3. IsMedia(Buffered(t, s))
    BY BufferedIs
  <2>4. Holds(t, WriteChunkBuffer(Buffered(t, s), writeId[t]), hist'[t])
    BY <2>2, <2>3, HoldsAfterFlush
  <2> QED
    BY <2>1, <2>2, <2>4, BecameHolds DEF Writes
<1> QED
  BY <1>2, <1>3, <1>4, <1>5 DEF MediaStep

\* While MP4Close goes from track to track no buffer is filled.
LEMMA NextAllFlushed == IInv /\ AllFlushed /\ [Next]_vars => AllFlushed'
<1> SUFFICES ASSUME IInv, AllFlushed, [Next]_vars PROVE AllFlushed'
  OBVIOUS
<1>1. /\ buffer \in [Tracks -> BufferType] /\ next \in 1..(NumTracks + 1)
      /\ NumTracks \in Nat \ {0}
  BY CountsAssumption DEF IInv, StateType, MediaType, WriterType, BufferType
<1>2. ASSUME phase = "open", phase' \in {"open", "failed", "crashed"}, next' = next
      PROVE  AllFlushed'
  BY <1>2 DEF AllFlushed
<1>3. CASE \E t \in Tracks : \E s \in Written(t) :
              WriteSample(t, s) \/ WriteSampleThrows(t, s) \/ ModeFlushThrows(t, s)
  <2>1. phase = "open" /\ phase' = "open" /\ next' = next
    BY <1>3 DEF WriteSample, WriteSampleThrows, ModeFlushThrows, CanWrite, call
  <2> QED
    BY <1>2, <2>1
<1>4. CASE \E t \in Tracks, d \in ChunkDurations : SetDurationPerChunk(t, d)
  <2>1. phase = "open" /\ phase' = "open" /\ next' = next
    BY <1>4 DEF SetDurationPerChunk, call
  <2> QED
    BY <1>2, <2>1
<1>5. CASE \E t \in Tracks : \E sampleId \in SampleIds(t) :
              \/ ReadSample(t, sampleId) \/ ReadSampleThrows(t, sampleId)
              \/ LookUpSample(t, sampleId)
  <2>1. phase = "open" /\ phase' = "open" /\ next' = next
    BY <1>5 DEF ReadSample, ReadSampleThrows, LookUpSample, call
  <2> QED
    BY <1>2, <2>1
<1>6. CASE \E t \in Tracks : \E sampleId \in SampleIds(t), offset \in Offsets :
              SetOffset(t, sampleId, offset)
  <2>1. phase = "open" /\ phase' \in {"open", "crashed"} /\ next' = next
    BY <1>6 DEF SetOffset
  <2> QED
    BY <1>2, <2>1
<1>7. CASE FinishTrack
  <2> DEFINE m == WriteChunkBuffer(Media(next), writeId[next])
  <2>1. next \in Tracks /\ next' = next + 1 /\ phase' = "finishing"
        /\ phase \in {"open", "finishing"}
    BY <1>1, <1>7 DEF FinishTrack, Tracks
  <2>2. m.buffer.bytes = << >>
    BY DEF WriteChunkBuffer, EmptyBuffer
  <2>3. buffer' = [buffer EXCEPT ![next] = m.buffer]
    BY <1>7 DEF FinishTrack, SetMedia
  <2> HIDE DEF m
  <2>4. ASSUME NEW t \in Tracks, t < next + 1
        PROVE  buffer'[t].bytes = << >>
    <3>1. CASE t = next
      BY <1>1, <2>1, <2>2, <2>3, <3>1
    <3>2. CASE t # next
      <4>1. t < next /\ next # 1
        BY <1>1, <2>1, <2>4, <3>2 DEF Tracks
      <4>2. buffer[t].bytes = << >>
        BY <2>1, <4>1 DEF AllFlushed
      <4> QED
        BY <1>1, <2>3, <3>2, <4>2
    <3> QED
      BY <3>1, <3>2
  <2> QED
    BY <2>1, <2>4 DEF AllFlushed
<1>8. CASE FinishTrackThrows
  <2>1. phase' = "failed"
    BY <1>8 DEF FinishTrackThrows
  <2> QED
    BY <2>1 DEF AllFlushed
<1>9. CASE FinishFile
  <2>1. /\ phase = "finishing" /\ next > NumTracks /\ phase' = "closed"
        /\ buffer' = buffer /\ next' = next
    BY <1>9 DEF FinishFile
  <2>2. next = NumTracks + 1
    BY <1>1, <2>1
  <2> QED
    BY <2>1, <2>2 DEF AllFlushed
<1>10. CASE Modify
  <2>1. phase' = "open" /\ next' = 1
    BY <1>10 DEF Modify
  <2> QED
    BY <2>1 DEF AllFlushed
<1>11. CASE UNCHANGED vars
  BY <1>11 DEF vars, call, AllFlushed
<1> QED
  BY <1>3, <1>4, <1>5, <1>6, <1>7, <1>8, <1>9, <1>10, <1>11 DEF Next

LEMMA NextOrderInv == IInv /\ OrderInv /\ [Next]_vars => OrderInv'
<1> SUFFICES ASSUME IInv, OrderInv, [Next]_vars PROVE OrderInv'
  OBVIOUS
<1>1. AllFlushed'
  BY NextAllFlushed DEF OrderInv
<1>2. ASSUME NEW t \in Tracks
      PROVE  Holds(t, Media(t), hist[t])'
  <2>1. MediaStep(t) /\ AllFlushed /\ Holds(t, Media(t), hist[t])
    BY EveryStep, MediaInOrderHolds DEF OrderInv
  <2> QED
    BY <2>1, StepHolds
<1>3. MediaInOrder'
  <2>1. (\A t \in Tracks : Holds(t, Media(t), hist[t]))'
    BY <1>2
  <2> QED
    BY <2>1, MediaInOrderHolds, PTL
<1> QED
  BY <1>1, <1>3 DEF OrderInv

LEMMA InitOrderInv == Init => OrderInv
<1> SUFFICES ASSUME Init PROVE OrderInv
  OBVIOUS
<1>1. AllFlushed
  BY DEF Init, AllFlushed
<1>2. ASSUME NEW t \in Tracks PROVE Holds(t, Media(t), hist[t])
  <2>1. Media(t).flushed = << >> /\ Media(t).buffer.bytes = << >> /\ hist[t] = << >>
    BY DEF Init, Media, EmptyBuffer
  <2>2. Payloads(t, << >>) = << >>
    BY DEF Payloads
  <2>3. << >> \o << >> = << >>
    OBVIOUS
  <2> QED
    BY <2>1, <2>2, <2>3, FlattenOfNone DEF Holds
<1> QED
  BY <1>1, <1>2, MediaInOrderHolds DEF OrderInv

LEMMA OrderInvClosed == IInv /\ OrderInv => ClosedHoldsAll
<1> SUFFICES ASSUME IInv, OrderInv, phase = "closed", NEW t \in Tracks
             PROVE  FlattenSeq(flushed[t]) = Contents(t)
  BY DEF ClosedHoldsAll
<1>1. buffer[t].bytes = << >>
  BY CountsAssumption DEF OrderInv, AllFlushed, Tracks
<1>2. flushed[t] \in Seq(Seq(Byte))
  BY DEF IInv, StateType, MediaType
<1>3. FlattenSeq(flushed[t]) \o buffer[t].bytes = Contents(t)
  BY DEF OrderInv, MediaInOrder
<1> QED
  BY <1>1, <1>2, <1>3, FlattenType, ConcatEmptySeq

LEMMA OrderInvariant == Spec => []OrderInv
<1>1. Init => OrderInv
  BY InitOrderInv
<1>2. IInv /\ OrderInv /\ [Next]_vars => OrderInv'
  BY NextOrderInv
<1> QED
  BY <1>1, <1>2, InductiveInvariant, PTL DEF Spec

-----------------------------------------------------------------------------
(* How chunks are cut.                                                     *)

\* The ids of the samples some bytes are from.
IdsIn(bytes) == {b[2] : b \in Range(bytes)}

Spans(h) == [j \in DOMAIN h |-> h[j].duration]

TimeOf(ids, h) == SumFunctionOnSet(Spans(h), ids)

Cut(bytes, h) ==
    /\ IdsIn(bytes) \subseteq 1..Len(h)
    /\ TimeOf(IdsIn(bytes) \ {Max(IdsIn(bytes))}, h) < TimeScale

\* The buffer counts the time of all samples in it, and if it has bytes, it is
\* not full; the chunks were full only with their last samples.
Cuts(m, h) ==
    /\ IdsIn(m.buffer.bytes) \subseteq 1..Len(h)
    /\ TimeOf(IdsIn(m.buffer.bytes), h) <= m.buffer.duration
    /\ m.buffer.bytes # << >> => m.buffer.duration < TimeScale
    /\ \A c \in 1..Len(m.flushed) : Cut(m.flushed[c], h)

LEMMA SpansAre ==
    ASSUME NEW h \in Seq(SampleType)
    PROVE  /\ Len(h) \in Nat
           /\ \A k \in 1..Len(h) : Spans(h)[k] = h[k].duration /\ Spans(h)[k] \in Nat
<1>1. Len(h) \in Nat /\ DOMAIN h = 1..Len(h)
  BY LenProperties
<1>2. \A k \in 1..Len(h) : h[k] \in SampleType
  BY ElementOfSeq
<1> QED
  BY <1>1, <1>2 DEF Spans, SampleType

LEMMA TimeOfType ==
    ASSUME NEW h \in Seq(SampleType), NEW ids, ids \subseteq 1..Len(h)
    PROVE  /\ IsFiniteSet(ids) /\ TimeOf(ids, h) \in Nat
           /\ \A k \in ids : Spans(h)[k] \in Nat
<1>1. IsFiniteSet(1..Len(h)) /\ \A k \in ids : Spans(h)[k] \in Nat
  BY SpansAre, IntervalFinite
<1>2. IsFiniteSet(ids)
  BY <1>1, FS_Subset
<1> QED
  BY <1>1, <1>2, SumOfNats DEF TimeOf

\* Samples last as long whatever is written behind them.
LEMMA TimeOfSame ==
    ASSUME NEW h \in Seq(SampleType), NEW g \in Seq(SampleType), Len(h) <= Len(g),
           \A k \in 1..Len(h) : g[k].duration = h[k].duration,
           NEW ids, ids \subseteq 1..Len(h)
    PROVE  TimeOf(ids, g) = TimeOf(ids, h)
<1>1. Len(h) \in Nat /\ Len(g) \in Nat
  BY SpansAre
<1>2. \A k \in ids : k \in 1..Len(h) /\ k \in 1..Len(g)
  BY <1>1
<1>3. \A k \in ids : Spans(g)[k] = Spans(h)[k] /\ Spans(h)[k] \in Int
  BY <1>2, SpansAre
<1>4. IsFiniteSet(ids)
  BY TimeOfType
<1> QED
  BY <1>3, <1>4, SumOfEqual DEF TimeOf

\* The time of some samples is that of one of them and of the others.
LEMMA TimeOfOne ==
    ASSUME NEW h \in Seq(SampleType), NEW ids, ids \subseteq 1..Len(h), NEW k \in ids
    PROVE  TimeOf(ids, h) = Spans(h)[k] + TimeOf(ids \ {k}, h)
<1>1. PICK f : f = Spans(h)
  OBVIOUS
<1>2. IsFiniteSet(ids) /\ \A x \in ids : Spans(h)[x] \in Nat
  BY TimeOfType
<1>4. Ints(f, ids)
  BY <1>1, <1>2 DEF Ints
<1>3. SumFunctionOnSet(f, ids) = f[k] + SumFunctionOnSet(f, ids \ {k})
  BY <1>2, <1>4, SumWithout
<1> QED
  BY <1>1, <1>3 DEF TimeOf

\* Leaving out a sample takes no time away that is not there.
LEMMA TimeOfFewer ==
    ASSUME NEW h \in Seq(SampleType), NEW ids, ids \subseteq 1..Len(h), NEW k
    PROVE  TimeOf(ids \ {k}, h) <= TimeOf(ids, h)
<1>1. /\ IsFiniteSet(ids) /\ TimeOf(ids, h) \in Nat
      /\ \A j \in ids : Spans(h)[j] \in Nat
  BY TimeOfType
<1>2. CASE k \notin ids
  <2>1. ids \ {k} = ids
    BY <1>2
  <2>2. TimeOf(ids \ {k}, h) = TimeOf(ids, h)
    BY <2>1, Zenon
  <2> QED
    BY <1>1, <2>2
<1>3. CASE k \in ids
  <2>1. ids \ {k} \subseteq 1..Len(h)
    OBVIOUS
  <2>2. TimeOf(ids \ {k}, h) \in Nat
    BY <2>1, TimeOfType
  <2>3. TimeOf(ids, h) = Spans(h)[k] + TimeOf(ids \ {k}, h)
    BY <1>3, TimeOfOne
  <2>4. Spans(h)[k] \in Nat
    BY <1>1, <1>3
  <2> QED
    BY <2>2, <2>3, <2>4
<1> QED
  BY <1>2, <1>3

LEMMA CutLater ==
    ASSUME NEW h \in Seq(SampleType), NEW g \in Seq(SampleType), Len(h) <= Len(g),
           \A k \in 1..Len(h) : g[k].duration = h[k].duration,
           NEW bytes, Cut(bytes, h)
    PROVE  Cut(bytes, g)
<1>1. Len(h) \in Nat /\ Len(g) \in Nat
  BY SpansAre
<1>2. IdsIn(bytes) \subseteq 1..Len(g)
  BY <1>1 DEF Cut
<1>3. IdsIn(bytes) \ {Max(IdsIn(bytes))} \subseteq 1..Len(h)
  BY DEF Cut
<1> QED
  BY <1>2, <1>3, TimeOfSame DEF Cut

LEMMA CutsLater ==
    ASSUME NEW h \in Seq(SampleType), NEW g \in Seq(SampleType), Len(h) <= Len(g),
           \A k \in 1..Len(h) : g[k].duration = h[k].duration,
           NEW m, Cuts(m, h)
    PROVE  Cuts(m, g)
<1>1. Len(h) \in Nat /\ Len(g) \in Nat
  BY SpansAre
<1>2. IdsIn(m.buffer.bytes) \subseteq 1..Len(g)
  BY <1>1 DEF Cuts
<1>3. TimeOf(IdsIn(m.buffer.bytes), g) = TimeOf(IdsIn(m.buffer.bytes), h)
  BY TimeOfSame DEF Cuts
<1>4. \A c \in 1..Len(m.flushed) : Cut(m.flushed[c], g)
  BY CutLater DEF Cuts
<1> QED
  BY <1>2, <1>3, <1>4 DEF Cuts

LEMMA NoIds == IdsIn(<< >>) = {}
<1>1. DOMAIN << >> = {}
  OBVIOUS
<1> QED
  BY <1>1 DEF IdsIn, Range

\* A flush makes one chunk of the buffer.
LEMMA ChunkCut ==
    ASSUME NEW m, IsMedia(m), NEW id, m.buffer.bytes # << >>, NEW h \in Seq(SampleType),
           Cut(m.buffer.bytes, h), \A c \in 1..Len(m.flushed) : Cut(m.flushed[c], h)
    PROVE  Cuts(WriteChunkBuffer(m, id), h)
<1> DEFINE n == WriteChunkBuffer(m, id)
<1>1. n.flushed = Append(m.flushed, m.buffer.bytes) /\ n.buffer = EmptyBuffer
  BY DEF WriteChunkBuffer
<1> HIDE DEF n
<1>2. m.flushed \in Seq(Seq(Byte)) /\ m.buffer.bytes \in Seq(Byte)
  BY DEF IsMedia, BufferType
<1>3. /\ Len(n.flushed) = Len(m.flushed) + 1 /\ Len(m.flushed) \in Nat
      /\ n.flushed[Len(m.flushed) + 1] = m.buffer.bytes
      /\ \A c \in 1..Len(m.flushed) : n.flushed[c] = m.flushed[c]
  BY <1>1, <1>2, AppendProperties, LenProperties
<1>4. \A c \in 1..Len(n.flushed) : Cut(n.flushed[c], h)
  <2>1. \A c \in 1..Len(n.flushed) : c \in 1..Len(m.flushed) \/ c = Len(m.flushed) + 1
    BY <1>3
  <2> QED
    BY <1>3, <2>1
<1>5. n.buffer.bytes = << >> /\ n.buffer.duration = 0
  BY <1>1 DEF EmptyBuffer
<1>6. IdsIn(n.buffer.bytes) = {} /\ TimeOf({}, h) = 0
  BY <1>5, NoIds, SumOfNone DEF TimeOf
<1>7. IdsIn(n.buffer.bytes) \subseteq 1..Len(h)
  BY <1>6
<1>8. TimeOf(IdsIn(n.buffer.bytes), h) <= n.buffer.duration
  <2>1. TimeOf(IdsIn(n.buffer.bytes), h) = TimeOf({}, h)
    BY <1>6, Zenon
  <2> QED
    BY <1>5, <1>6, <2>1
<1>9. Cuts(n, h)
  BY <1>4, <1>5, <1>7, <1>8 DEF Cuts
<1> QED
  BY <1>9 DEF n

LEMMA FlushCuts ==
    ASSUME NEW m, IsMedia(m), NEW id, NEW h \in Seq(SampleType), Cuts(m, h)
    PROVE  Cuts(WriteChunkBuffer(m, id), h)
<1>1. CASE m.buffer.bytes = << >>
  BY <1>1 DEF WriteChunkBuffer
<1>2. CASE m.buffer.bytes # << >>
  <2> DEFINE ids == IdsIn(m.buffer.bytes)
  <2>1. /\ ids \subseteq 1..Len(h) /\ TimeOf(ids, h) <= m.buffer.duration
        /\ m.buffer.duration < TimeScale /\ m.buffer.duration \in Nat
    BY <1>2 DEF Cuts, IsMedia, BufferType
  <2> HIDE DEF ids
  <2>2. /\ ids \ {Max(ids)} \subseteq 1..Len(h) /\ TimeOf(ids, h) \in Nat
        /\ TimeOf(ids \ {Max(ids)}, h) <= TimeOf(ids, h)
    BY <2>1, TimeOfType, TimeOfFewer
  <2>3. TimeOf(ids \ {Max(ids)}, h) \in Nat
    BY <2>2, TimeOfType
  <2>4. TimeOf(ids \ {Max(ids)}, h) < TimeScale
    BY <2>1, <2>2, <2>3, TrackAssumption
  <2>5. Cut(m.buffer.bytes, h)
    BY <2>1, <2>4 DEF Cut, ids
  <2> QED
    BY <1>2, <2>5, ChunkCut DEF Cuts
<1> QED
  BY <1>1, <1>2

\* The bytes with those of one sample behind them.
Extended(all, bytes, t, k, size) == all = bytes \o Payload(t, k, size)

LEMMA IdsOfMore ==
    ASSUME NEW bytes \in Seq(Byte), NEW t \in Nat, NEW k \in Nat, NEW size \in Nat,
           NEW all, Extended(all, bytes, t, k, size)
    PROVE  /\ size = 0 => all = bytes
           /\ size # 0 => IdsIn(all) = IdsIn(bytes) \cup {k}
<1>0. PICK p : p = Payload(t, k, size) /\ all = bytes \o p
  BY DEF Extended
<1>1. p \in Seq(Byte) /\ Len(p) = size /\ \A i \in 1..size : p[i] = << t, k, i >>
  <2>1. p \in Seq(Byte)
    BY <1>0, PayloadType
  <2>2. DOMAIN p = 1..size /\ \A i \in 1..size : p[i] = << t, k, i >>
    BY <1>0 DEF Payload
  <2>3. Len(p) = size
    BY <2>1, <2>2, LenProperties
  <2> QED
    BY <2>1, <2>2, <2>3
<1>2. PICK n \in Nat : n = Len(bytes) /\ DOMAIN bytes = 1..n
  BY LenProperties
<1>3. /\ all \in Seq(Byte) /\ Len(all) = n + size
      /\ \A i \in 1..(n + size) : all[i] = IF i <= n THEN bytes[i] ELSE p[i - n]
  <2>1. /\ all \in Seq(Byte) /\ Len(all) = Len(bytes) + Len(p)
        /\ \A i \in 1..(Len(bytes) + Len(p)) :
              all[i] = IF i <= Len(bytes) THEN bytes[i] ELSE p[i - Len(bytes)]
    BY <1>0, <1>1, ConcatProperties
  <2> QED
    BY <1>1, <1>2, <2>1
<1>4. DOMAIN all = 1..(n + size)
  BY <1>3, LenProperties
<1>5. size = 0 => all = bytes
  <2>1. size = 0 => p = << >>
    BY <1>1, EmptySeq
  <2> QED
    BY <1>0, <2>1, ConcatEmptySeq
<1>6. \A i \in 1..n : i \in DOMAIN all /\ all[i] = bytes[i]
  BY <1>3, <1>4
<1>7. \A i \in 1..(n + size) : i \notin 1..n => all[i][2] = k
  <2> SUFFICES ASSUME NEW i \in 1..(n + size), i \notin 1..n
               PROVE  all[i][2] = k
    OBVIOUS
  <2>1. i - n \in 1..size /\ ~ (i <= n)
    OBVIOUS
  <2>2. all[i] = << t, k, i - n >>
    BY <1>1, <1>3, <2>1
  <2> QED
    BY <2>2
<1>8. ASSUME size # 0
      PROVE  IdsIn(all) = IdsIn(bytes) \cup {k}
  <2>1. n + 1 \in DOMAIN all /\ all[n + 1][2] = k
    <3>1. n + 1 \in 1..(n + size) /\ n + 1 \notin 1..n
      BY <1>8
    <3> QED
      BY <1>4, <1>7, <3>1
  <2>2. IdsIn(all) = {all[i][2] : i \in DOMAIN all}
    BY DEF IdsIn, Range
  <2>3. IdsIn(bytes) = {bytes[i][2] : i \in 1..n}
    BY <1>2 DEF IdsIn, Range
  <2>4. \A x \in IdsIn(all) : x \in IdsIn(bytes) \cup {k}
    BY <1>4, <1>6, <1>7, <2>2, <2>3
  <2>5. \A x \in IdsIn(bytes) \cup {k} : x \in IdsIn(all)
    BY <1>6, <2>1, <2>2, <2>3
  <2> QED
    BY <2>4, <2>5
<1> QED
  BY <1>5, <1>8

\* The largest of the ids when one above all others joins them.
LEMMA NewestIsMax ==
    ASSUME NEW n \in Nat, NEW ids, ids \subseteq 1..n
    PROVE  (ids \cup {n + 1}) \ {Max(ids \cup {n + 1})} = ids
<1> DEFINE S == ids \cup {n + 1}
<1>1. n + 1 \in S /\ \A y \in S : y \in Nat /\ n + 1 >= y
  OBVIOUS
<1>2. \A x \in S : (\A y \in S : x >= y) => x = n + 1
  BY <1>1
<1>3. Max(S) = n + 1
  BY <1>1, <1>2 DEF Max
<1>4. n + 1 \notin ids
  OBVIOUS
<1> QED
  BY <1>3, <1>4

\* What writing a sample does to its track when nothing fails.
WritesAndCuts(t, s) ==
    LET b == Buffered(t, s)
    IN  /\ hist'[t] = Append(hist[t], SampleOf(t, s))
        /\ Became(t, IF IsChunkFull(b.buffer, perChunk[t])
                     THEN WriteChunkBuffer(b, writeId[t]) ELSE b)

LEMMA BufferedCuts ==
    ASSUME IInv, NEW t \in Tracks, NEW s \in Written(t), Cuts(Media(t), hist[t]),
           NEW g, g = Append(hist[t], SampleOf(t, s)), NEW b, b = Buffered(t, s)
    PROVE  /\ g \in Seq(SampleType) /\ IsMedia(b)
           /\ IdsIn(b.buffer.bytes) \subseteq 1..Len(g)
           /\ TimeOf(IdsIn(b.buffer.bytes), g) <= b.buffer.duration
           /\ b.buffer.bytes # << >> => Cut(b.buffer.bytes, g)
           /\ \A c \in 1..Len(b.flushed) : Cut(b.flushed[c], g)
<1>1. PICK h \in Seq(SampleType) : h = hist[t]
  BY DEF IInv, StateType, WriterType
<1>2. PICK n \in Nat, d \in Nat, size \in Nat :
          n = Len(h) /\ d = Duration(t, s) /\ size = s.size
  <2>1. s \in Samples /\ s.size \in Nat
    BY WrittenType
  <2> QED
    BY <1>1, <2>1, DurationType, SpansAre DEF IInv, StateType
<1>3. SampleOf(t, s) \in SampleType /\ SampleOf(t, s).duration = d
  <2>1. s \in Samples /\ s \in [size : Nat, duration : Nat \cup {FIXED}, offset : Nat,
                                sync : BOOLEAN, mode : Nat]
    BY WrittenType
  <2> QED
    BY <1>2, <2>1, DurationType DEF SampleOf, IInv, StateType
<1>4. /\ g \in Seq(SampleType) /\ Len(g) = n + 1 /\ g[n + 1].duration = d
      /\ \A k \in 1..n : g[k].duration = h[k].duration
  BY <1>1, <1>2, <1>3, AppendProperties
<1> DEFINE p == Payload(t, n + 1, size)
<1>5. PICK m : /\ IsMedia(m) /\ Cuts(m, h)
               /\ b.chunks = m.chunks /\ b.flushed = m.flushed /\ IsMedia(b)
               /\ b.buffer = [bytes    |-> m.buffer.bytes \o p,
                              samples  |-> m.buffer.samples + 1,
                              duration |-> m.buffer.duration + d]
  <2> DEFINE m == ModeFlushed(t, s)
  <2>1. IsMedia(Media(t))
    BY MediaIsMedia DEF IInv, StateType
  <2>2. Cuts(WriteChunkBuffer(Media(t), writeId[t]), h)
    BY <1>1, <2>1, FlushCuts
  <2>3. Cuts(m, h)
    BY <1>1, <2>2, BufferedIs
  <2> QED
    BY <1>1, <1>2, <2>3, BufferedIs
<1>6. PICK bytes \in Seq(Byte), e \in Nat : bytes = m.buffer.bytes /\ e = m.buffer.duration
  BY <1>5 DEF IsMedia, BufferType
<1> DEFINE ids == IdsIn(bytes)
           more == IdsIn(b.buffer.bytes)
<1>7. /\ ids \subseteq 1..n /\ TimeOf(ids, h) <= e
      /\ bytes # << >> => e < TimeScale
      /\ \A c \in 1..Len(m.flushed) : Cut(m.flushed[c], h)
  BY <1>2, <1>5, <1>6 DEF Cuts
<1>8. /\ b.buffer.bytes = bytes \o p /\ b.buffer.duration = e + d
  <2> HIDE DEF p
  <2>1. /\ b.buffer.bytes = m.buffer.bytes \o p
        /\ b.buffer.duration = m.buffer.duration + d
    BY <1>5
  <2> QED
    BY <1>6, <2>1, Zenon
<1>9. /\ size = 0 => b.buffer.bytes = bytes /\ more = ids
      /\ size # 0 => more = ids \cup {n + 1}
  <2>1. t \in Nat /\ n + 1 \in Nat
    BY DEF Tracks
  <2>2. PICK k \in Nat : k = n + 1
    OBVIOUS
  <2>4. p = Payload(t, k, size)
    BY <2>2
  <2> HIDE DEF p
  <2>5. PICK all : all = b.buffer.bytes /\ Extended(all, bytes, t, k, size)
    BY <1>8, <2>4 DEF Extended
  <2>3. /\ size = 0 => all = bytes
        /\ size # 0 => IdsIn(all) = IdsIn(bytes) \cup {k}
    BY <2>1, <2>5, IdsOfMore
  <2> QED
    BY <2>2, <2>3, <2>5 DEF ids, more
<1>10. bytes = << >> => ids = {}
  BY NoIds
<1> HIDE DEF ids, more, p
<1>11. \A some : some \subseteq 1..n => /\ TimeOf(some, g) = TimeOf(some, h)
                                        /\ TimeOf(some, h) \in Nat
  <2>1. n <= n + 1 /\ Len(h) <= Len(g)
    BY <1>2, <1>4
  <2> SUFFICES ASSUME NEW some, some \subseteq 1..n
               PROVE  TimeOf(some, g) = TimeOf(some, h) /\ TimeOf(some, h) \in Nat
    OBVIOUS
  <2>2. TimeOf(some, g) = TimeOf(some, h)
    BY <1>2, <1>4, <2>1, TimeOfSame
  <2> QED
    BY <1>2, <2>2, TimeOfType
<1>12. more \subseteq 1..(n + 1)
  <2>1. ids \subseteq 1..(n + 1) /\ n + 1 \in 1..(n + 1)
    BY <1>7
  <2> QED
    BY <1>9, <2>1
<1>13. TimeOf(more, g) <= e + d
  <2>1. CASE size = 0
    <3>1. TimeOf(more, g) = TimeOf(ids, h) /\ TimeOf(ids, h) \in Nat
      BY <1>7, <1>9, <1>11, <2>1
    <3> QED
      BY <1>7, <3>1
  <2>2. CASE size # 0
    <3>1. IsFiniteSet(more) /\ \A k \in more : Spans(g)[k] \in Nat
      BY <1>4, <1>12, TimeOfType
    <3>2. n + 1 \in more /\ more \ {n + 1} = ids
      <4>1. n + 1 \notin ids
        BY <1>7
      <4> QED
        BY <1>9, <2>2, <4>1
    <3>3. more \subseteq 1..Len(g)
      BY <1>4, <1>12
    <3>4. TimeOf(more, g) = Spans(g)[n + 1] + TimeOf(more \ {n + 1}, g)
      BY <1>4, <3>2, <3>3, TimeOfOne
    <3>5. TimeOf(more, g) = Spans(g)[n + 1] + TimeOf(ids, g)
      BY <3>2, <3>4
    <3>6. Spans(g)[n + 1] = d
      <4>1. n + 1 \in 1..Len(g)
        BY <1>4
      <4> QED
        BY <1>4, <4>1, SpansAre
    <3>7. TimeOf(ids, g) = TimeOf(ids, h) /\ TimeOf(ids, h) \in Nat
      BY <1>7, <1>11
    <3> QED
      BY <1>7, <3>5, <3>6, <3>7
  <2> QED
    BY <2>1, <2>2
<1>14. ASSUME b.buffer.bytes # << >>
       PROVE  TimeOf(more \ {Max(more)}, g) < TimeScale
  <2>1. CASE size = 0
    <3>1. more = ids /\ e < TimeScale
      BY <1>7, <1>9, <1>14, <2>1
    <3>2. ids \ {Max(ids)} \subseteq 1..n
      BY <1>7
    <3>3. /\ TimeOf(ids \ {Max(ids)}, g) = TimeOf(ids \ {Max(ids)}, h)
          /\ TimeOf(ids \ {Max(ids)}, h) \in Nat /\ TimeOf(ids, h) \in Nat
      BY <1>7, <1>11, <3>2
    <3>4. TimeOf(ids \ {Max(ids)}, h) <= TimeOf(ids, h)
      BY <1>2, <1>7, TimeOfFewer
    <3>5. TimeOf(ids \ {Max(ids)}, g) < TimeScale
      BY <1>7, <3>1, <3>3, <3>4, TrackAssumption
    <3> QED
      BY <3>1, <3>5
  <2>2. CASE size # 0
    <3>1. more \ {Max(more)} = ids
      BY <1>7, <1>9, <2>2, NewestIsMax
    <3>2. TimeOf(ids, g) = TimeOf(ids, h) /\ TimeOf(ids, h) \in Nat
      BY <1>7, <1>11
    <3>3. TimeOf(ids, h) < TimeScale
      <4>1. CASE bytes = << >>
        <5>1. TimeOf({}, h) = 0
          BY SumOfNone DEF TimeOf
        <5>2. TimeOf(ids, h) = TimeOf({}, h)
          BY <1>10, <4>1, Zenon
        <5> QED
          BY <5>1, <5>2, TrackAssumption
      <4>2. CASE bytes # << >>
        BY <1>7, <3>2, <4>2, TrackAssumption
      <4> QED
        BY <4>1, <4>2
    <3>4. TimeOf(more \ {Max(more)}, g) = TimeOf(ids, g)
      BY <3>1, Zenon
    <3> QED
      BY <3>2, <3>3, <3>4
  <2> QED
    BY <2>1, <2>2
<1>15. \A c \in 1..Len(b.flushed) : Cut(b.flushed[c], g)
  <2>1. Len(h) <= Len(g)
    BY <1>2, <1>4
  <2> QED
    BY <1>2, <1>4, <1>5, <1>7, <2>1, CutLater
<1>16. b.buffer.bytes # << >> => Cut(b.buffer.bytes, g)
  BY <1>4, <1>12, <1>14 DEF Cut, more
<1> QED
  BY <1>4, <1>5, <1>8, <1>12, <1>13, <1>15, <1>16 DEF more

LEMMA WriteCuts ==
    ASSUME IInv, NEW t \in Tracks, NEW s \in Written(t), Cuts(Media(t), hist[t]),
           perChunk[t] \in 1..TimeScale,
           NEW g, g = Append(hist[t], SampleOf(t, s)), NEW b, b = Buffered(t, s)
    PROVE  /\ g \in Seq(SampleType)
           /\ Cuts(IF IsChunkFull(b.buffer, perChunk[t])
                   THEN WriteChunkBuffer(b, writeId[t]) ELSE b, g)
<1>1. /\ g \in Seq(SampleType) /\ IsMedia(b)
      /\ IdsIn(b.buffer.bytes) \subseteq 1..Len(g)
      /\ TimeOf(IdsIn(b.buffer.bytes), g) <= b.buffer.duration
      /\ b.buffer.bytes # << >> => Cut(b.buffer.bytes, g)
      /\ \A c \in 1..Len(b.flushed) : Cut(b.flushed[c], g)
  BY BufferedCuts
<1>2. b.buffer.duration \in Nat
  BY <1>1 DEF IsMedia, BufferType
<1>3. CASE ~ IsChunkFull(b.buffer, perChunk[t])
  <2>1. b.buffer.duration < TimeScale
    BY <1>2, <1>3, TrackAssumption DEF IsChunkFull
  <2>2. Cuts(b, g)
    BY <1>1, <2>1 DEF Cuts
  <2> QED
    BY <1>1, <1>3, <2>2
<1>4. CASE IsChunkFull(b.buffer, perChunk[t]) /\ b.buffer.bytes # << >>
  BY <1>1, <1>4, ChunkCut
<1>5. CASE IsChunkFull(b.buffer, perChunk[t]) /\ b.buffer.bytes = << >>
  <2>1. WriteChunkBuffer(b, writeId[t]) = b
    BY <1>5 DEF WriteChunkBuffer
  <2>2. Cuts(b, g)
    BY <1>1, <1>5 DEF Cuts
  <2> QED
    BY <1>1, <1>5, <2>1, <2>2
<1> QED
  BY <1>3, <1>4, <1>5

CutStep(u) ==
    /\ \/ Stays(u) \/ Flushes(u) \/ Reopens(u)
       \/ \E s \in Written(u) : WritesAndCuts(u, s)
       \/ perChunk[u] = 0 \/ faults' # 0
    /\ perChunk'[u] \in {perChunk[u], TimeScale} \cup ChunkDurations
    /\ faults' = 0 => faults = 0

\* A step that keeps the history writes no sample.
LEMMA NothingWritten ==
    ASSUME IInv, NEW u \in Tracks, MediaStep(u), hist'[u] = hist[u],
           perChunk'[u] \in {perChunk[u], TimeScale} \cup ChunkDurations,
           WriteFault \/ UNCHANGED faults
    PROVE  CutStep(u)
<1>1. hist[u] \in Seq(SampleType)
  BY DEF IInv, StateType, WriterType
<1>2. ASSUME NEW s \in Written(u), Writes(u, s)
      PROVE  FALSE
  <2>1. SampleOf(u, s) \in SampleType
    BY WrittenType, DurationType DEF SampleOf, IInv, StateType
  <2>2. Len(Append(hist[u], SampleOf(u, s))) = Len(hist[u]) + 1 /\ Len(hist[u]) \in Nat
    BY <1>1, <2>1, AppendProperties, LenProperties
  <2>3. Append(hist[u], SampleOf(u, s)) = hist[u]
    BY <1>2 DEF Writes
  <2>4. Len(Append(hist[u], SampleOf(u, s))) = Len(hist[u])
    BY <2>3, Zenon
  <2> QED
    BY <2>2, <2>4
<1>3. faults \in Nat
  BY DEF IInv, StateType, WriterType
<1>4. faults' = 0 => faults = 0
  BY <1>3 DEF WriteFault
<1> QED
  BY <1>2, <1>4 DEF MediaStep, CutStep

LEMMA EveryCutStep ==
    ASSUME IInv, [Next]_vars, NEW u \in Tracks
    PROVE  CutStep(u)
<1>0. MediaStep(u)
  BY EveryStep
<1>1. ASSUME NEW t \in Tracks, NEW s \in Written(t),
             WriteSample(t, s) \/ WriteSampleThrows(t, s)
      PROVE  CutStep(u)
  <2> DEFINE b == Buffered(t, s)
  <2>1. /\ perChunk' = perChunk /\ (UNCHANGED faults \/ WriteFault)
        /\ faults \in Nat
    BY <1>1 DEF WriteSample, WriteSampleThrows, writer, IInv, StateType, WriterType
  <2>2. faults' = 0 => faults = 0
    BY <2>1 DEF WriteFault
  <2>3. hist' = [hist EXCEPT ![t] = Append(@, SampleOf(t, s))]
        /\ hist \in [Tracks -> Seq(SampleType)]
    BY <1>1 DEF WriteSample, WriteSampleThrows, RecordSample, SampleOf, IInv, StateType,
                WriterType
  <2>4. hist'[t] = Append(hist[t], SampleOf(t, s)) /\ (u # t => hist'[u] = hist[u])
    BY <2>3
  <2>5. CASE u # t
    BY <1>0, <2>1, <2>4, <2>5, NothingWritten
  <2>6. CASE u = t /\ WriteSample(t, s)
    <3>1. SetMedia(t, IF IsChunkFull(b.buffer, perChunk[t])
                      THEN WriteChunkBuffer(b, writeId[t]) ELSE b)
      BY <2>6 DEF WriteSample
    <3>2. Became(t, IF IsChunkFull(b.buffer, perChunk[t])
                    THEN WriteChunkBuffer(b, writeId[t]) ELSE b)
      BY <2>4, <3>1, OneBecomes
    <3>3. WritesAndCuts(t, s)
      BY <2>4, <3>2 DEF WritesAndCuts
    <3> QED
      BY <2>1, <2>2, <2>6, <3>3 DEF CutStep
  <2>7. CASE u = t /\ WriteSampleThrows(t, s)
    <3>1. perChunk[t] = 0 \/ faults' # 0
      BY <2>1, <2>7 DEF WriteSampleThrows, WriteFault
    <3> QED
      BY <2>1, <2>2, <2>7, <3>1 DEF CutStep
  <2> QED
    BY <1>1, <2>5, <2>6, <2>7
<1>2. ASSUME NEW t \in Tracks, NEW s \in Written(t), ModeFlushThrows(t, s)
      PROVE  CutStep(u)
  BY <1>0, <1>2, NothingWritten DEF ModeFlushThrows, writer
<1>3. ASSUME NEW t \in Tracks, NEW d \in ChunkDurations, SetDurationPerChunk(t, d)
      PROVE  CutStep(u)
  <2>1. perChunk \in [Tracks -> Nat] /\ perChunk' = [perChunk EXCEPT ![t] = d]
    BY <1>3 DEF SetDurationPerChunk, IInv, StateType, WriterType
  <2>2. perChunk'[u] \in {perChunk[u], TimeScale} \cup ChunkDurations
    BY <2>1
  <2> QED
    BY <1>0, <1>3, <2>2, NothingWritten DEF SetDurationPerChunk
<1>4. ASSUME NEW t \in Tracks, NEW k \in SampleIds(t),
             ReadSample(t, k) \/ ReadSampleThrows(t, k) \/ LookUpSample(t, k)
      PROVE  CutStep(u)
  BY <1>0, <1>4, NothingWritten DEF ReadSample, ReadSampleThrows, LookUpSample, writer
<1>5. ASSUME NEW t \in Tracks, NEW k \in SampleIds(t), NEW x \in Offsets, SetOffset(t, k, x)
      PROVE  CutStep(u)
  <2>1. Stays(u)
    BY <1>5, SetOffsetStays
  <2>2. UNCHANGED << perChunk, faults >>
    BY <1>5 DEF SetOffset, writer
  <2> QED
    BY <2>1, <2>2 DEF CutStep
<1>6. CASE FinishTrack \/ FinishTrackThrows \/ FinishFile
  BY <1>0, <1>6, NothingWritten DEF FinishTrack, FinishTrackThrows, FinishFile, writer
<1>7. CASE Modify
  <2>1. hist' = hist /\ faults' = faults /\ perChunk'[u] = TimeScale
    BY <1>7 DEF Modify
  <2> QED
    BY <1>0, <2>1, NothingWritten
<1>8. CASE UNCHANGED vars
  BY <1>0, <1>8, NothingWritten DEF vars, writer
<1> QED
  BY <1>1, <1>2, <1>3, <1>4, <1>5, <1>6, <1>7, <1>8 DEF Next

\* Every limit a client sets is positive and at most the default, a second.
Limits == ChunkDurations \subseteq 1..TimeScale

CutInv ==
    faults = 0 /\ Limits =>
        \A t \in Tracks : perChunk[t] \in 1..TimeScale /\ Cuts(Media(t), hist[t])

LEMMA BecameCuts ==
    ASSUME NEW t, NEW m, Became(t, m), NEW h, Cuts(m, h), hist'[t] = h
    PROVE  Cuts(Media(t), hist[t])'
BY DEF Became, Cuts, Media, Cut, TimeOf, Spans, IdsIn

LEMMA NextCutInv == IInv /\ CutInv /\ [Next]_vars => CutInv'
<1> SUFFICES ASSUME IInv, CutInv, [Next]_vars, faults' = 0, Limits, NEW t \in Tracks
             PROVE  perChunk'[t] \in 1..TimeScale /\ Cuts(Media(t), hist[t])'
  BY DEF CutInv
<1>1. CutStep(t)
  BY EveryCutStep
<1>2. faults = 0 /\ perChunk[t] \in 1..TimeScale /\ Cuts(Media(t), hist[t])
  BY <1>1 DEF CutStep, CutInv
<1>3. perChunk'[t] \in 1..TimeScale
  <2>1. TimeScale \in 1..TimeScale
    BY TrackAssumption
  <2> QED
    BY <1>1, <1>2, <2>1 DEF CutStep, Limits
<1>4. hist[t] \in Seq(SampleType) /\ IsMedia(Media(t))
  BY MediaIsMedia DEF IInv, StateType, WriterType
<1>5. CASE Stays(t)
  <2>1. hist'[t] \in Seq(SampleType)
    BY NextIInv DEF IInv, StateType, WriterType
  <2>2. /\ Len(hist[t]) <= Len(hist'[t])
        /\ \A k \in 1..Len(hist[t]) : hist'[t][k].duration = hist[t][k].duration
    <3>1. Len(hist[t]) \in Nat
      BY <1>4, LenProperties
    <3> QED
      BY <1>5, <3>1 DEF Stays, SameButOffsets
  <2>3. Cuts(Media(t), hist'[t])
    BY <1>2, <1>4, <2>1, <2>2, CutsLater
  <2> QED
    BY <1>3, <1>5, <2>3, BecameCuts DEF Stays
<1>6. CASE Flushes(t)
  <2>1. Cuts(WriteChunkBuffer(Media(t), writeId[t]), hist[t])
    BY <1>2, <1>4, FlushCuts
  <2> QED
    BY <1>3, <1>6, <2>1, BecameCuts DEF Flushes
<1>7. CASE Reopens(t)
  <2> DEFINE m == [chunks |-> Reread(chunks[t]), buffer |-> EmptyBuffer,
                   flushed |-> flushed[t]]
  <2>1. Became(t, m) /\ hist'[t] = hist[t]
    BY <1>7 DEF Became, Reopens
  <2>2. m.buffer.bytes = << >> /\ m.buffer.duration = 0 /\ m.flushed = flushed[t]
    BY DEF EmptyBuffer
  <2> HIDE DEF m
  <2>3. IdsIn(m.buffer.bytes) = {} /\ TimeOf({}, hist[t]) = 0
    BY <2>2, NoIds, SumOfNone DEF TimeOf
  <2>4. TimeOf(IdsIn(m.buffer.bytes), hist[t]) = TimeOf({}, hist[t])
    BY <2>3, Zenon
  <2>5. \A c \in 1..Len(m.flushed) : Cut(m.flushed[c], hist[t])
    BY <1>2, <2>2 DEF Cuts, Media
  <2>6. Cuts(m, hist[t])
    BY <2>2, <2>3, <2>4, <2>5 DEF Cuts
  <2> QED
    BY <1>3, <2>1, <2>6, BecameCuts
<1>8. ASSUME NEW s \in Written(t), WritesAndCuts(t, s)
      PROVE  perChunk'[t] \in 1..TimeScale /\ Cuts(Media(t), hist[t])'
  <2> DEFINE b == Buffered(t, s)
             n == IF IsChunkFull(b.buffer, perChunk[t])
                  THEN WriteChunkBuffer(b, writeId[t]) ELSE b
  <2>1. Became(t, n) /\ hist'[t] = Append(hist[t], SampleOf(t, s))
    BY <1>8 DEF WritesAndCuts
  <2>2. Cuts(n, Append(hist[t], SampleOf(t, s)))
    BY <1>2, WriteCuts
  <2> HIDE DEF n
  <2> QED
    BY <1>3, <2>1, <2>2, BecameCuts
<1> QED
  BY <1>1, <1>2, <1>5, <1>6, <1>7, <1>8 DEF CutStep

LEMMA InitCutInv == Init => CutInv
<1> SUFFICES ASSUME Init, NEW t \in Tracks
             PROVE  perChunk[t] \in 1..TimeScale /\ Cuts(Media(t), hist[t])
  BY DEF CutInv
<1>1. /\ perChunk[t] = TimeScale /\ hist[t] = << >> /\ flushed[t] = << >>
      /\ buffer[t] = EmptyBuffer
  BY DEF Init
<1>2. TimeScale \in 1..TimeScale
  BY TrackAssumption
<1>3. /\ Media(t).buffer.bytes = << >> /\ Media(t).buffer.duration = 0
      /\ Media(t).flushed = << >>
  BY <1>1 DEF Media, EmptyBuffer
<1> DEFINE m == Media(t)
           h == hist[t]
<1> HIDE DEF m, h
<1>4. IdsIn(m.buffer.bytes) = {} /\ TimeOf({}, h) = 0
  BY <1>3, NoIds, SumOfNone DEF TimeOf, m
<1>5. TimeOf(IdsIn(m.buffer.bytes), h) = TimeOf({}, h)
  BY <1>4, Zenon
<1>6. Cuts(m, h)
  BY <1>3, <1>4, <1>5 DEF Cuts, m
<1> QED
  BY <1>1, <1>2, <1>6 DEF m, h

LEMMA CutInvFull == CutInv => (faults = 0 /\ Limits => ChunksFlushedWhenFull)
<1> SUFFICES ASSUME CutInv, faults = 0, Limits, NEW t \in Tracks,
                    NEW c \in 1..Len(flushed[t])
             PROVE  LET ids == {b[2] : b \in Range(flushed[t][c])}
                    IN  SumFunctionOnSet(DurationsOf(t), ids \ {Max(ids)}) < TimeScale
  BY DEF ChunksFlushedWhenFull
<1>1. Cut(flushed[t][c], hist[t])
  BY DEF CutInv, Cuts, Media
<1>2. DurationsOf(t) = Spans(hist[t])
  BY DEF DurationsOf, Spans
<1> QED
  BY <1>1, <1>2 DEF Cut, TimeOf, IdsIn

LEMMA CutInvariant == Spec => [](IInv /\ CutInv)
<1>1. Init => IInv /\ CutInv
  BY InitIInv, InitCutInv
<1>2. IInv /\ CutInv /\ [Next]_vars => (IInv /\ CutInv)'
  BY NextIInv, NextCutInv
<1> QED
  BY <1>1, <1>2, PTL DEF Spec

\* At any time the chunks of a track, in stco's order, and then its chunk
\* buffer hold the bytes of all samples written to it, each once and in the
\* order of writing: no flush that failed, stored part of a chunk and was made
\* again loses or repeats one (WriteChunkBuffer, WriteSample).
THEOREM MediaStaysInOrder == Spec => []MediaInOrder
BY OrderInvariant, PTL DEF OrderInv

\* In a closed file nothing is left in a buffer: MP4File::FinishWrite has
\* visited every track, or MP4Close has failed.
THEOREM ClosedFileHoldsAll == Spec => []ClosedHoldsAll
BY OrderInvariant, InductiveInvariant, OrderInvClosed, PTL

\* Without its last sample a chunk lasts less than the longest chunk allowed:
\* a chunk is flushed by the sample that fills it, in every session and
\* whatever limits a client sets meanwhile, as long as no write failed and no
\* limit was zero or above the default (MP4Track::IsChunkFull, WriteSample).
THEOREM ChunksEndWhenFull == Spec => [](faults = 0 /\ Limits => ChunksFlushedWhenFull)
BY CutInvariant, CutInvFull, PTL
=============================================================================
