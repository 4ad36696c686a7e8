----------------------------- MODULE TableProofs -----------------------------
(***************************************************************************)
(* What the tables of module Track say in every reachable state: they are  *)
(* well typed (TypeOK), and the lookups in them answer with the samples    *)
(* that were written, whatever earlier lookups left in the caches          *)
(* (SampleTimes, DurationsAddUp, RenderingOffsets, SyncAnswers,            *)
(* TimeLookups).                                                           *)
(*                                                                         *)
(* EveryTableStep says what any step does to the tables of one track; the  *)
(* invariants follow from it and from the lemmas of LookupProofs.          *)
(***************************************************************************)
EXTENDS MediaProofs

-----------------------------------------------------------------------------
(* Sums over the first elements, and smallest elements.                    *)

LEMMA PrefixSums ==
    ASSUME NEW f, NEW len \in Nat, \A x \in 1..len : f[x] \in Nat
    PROVE  /\ SumFunctionOnSet(f, 1..0) = 0
           /\ \A r \in 0..len : SumFunctionOnSet(f, 1..r) \in Nat
           /\ \A r \in 1..len : SumFunctionOnSet(f, 1..r)
                                = SumFunctionOnSet(f, 1..(r - 1)) + f[r]
           /\ \A i \in 1..len : \A r \in (i - 1)..len :
                 SumFunctionOnSet(f, i..r)
                 = SumFunctionOnSet(f, 1..r) - SumFunctionOnSet(f, 1..(i - 1))
           /\ \A i, r \in 0..len : i <= r =>
                 SumFunctionOnSet(f, 1..i) <= SumFunctionOnSet(f, 1..r)
<1>1. SumFunctionOnSet(f, 1..0) = 0
  BY SumOfEmptyInterval
<1>2. ASSUME NEW i \in 0..len, NEW r \in 0..len, i <= r
      PROVE  /\ SumFunctionOnSet(f, 1..r) \in Nat
             /\ SumFunctionOnSet(f, 1..i) <= SumFunctionOnSet(f, 1..r)
  <2>1. \A x \in 1..r : f[x] \in Nat
    OBVIOUS
  <2> QED
    BY <1>2, <2>1, SumGrows
<1>3. ASSUME NEW r \in 0..len
      PROVE  SumFunctionOnSet(f, 1..r) \in Nat
  BY <1>2
<1>4. ASSUME NEW r \in 1..len
      PROVE  SumFunctionOnSet(f, 1..r) = SumFunctionOnSet(f, 1..(r - 1)) + f[r]
  <2>1. PICK j \in Nat : j = r - 1 /\ r = j + 1
    OBVIOUS
  <2>2. \A x \in 1..(j + 1) : f[x] \in Int
    BY <2>1
  <2>3. SumFunctionOnSet(f, 1..(j + 1)) = SumFunctionOnSet(f, 1..j) + f[j + 1]
    BY <2>2, SumToNext
  <2> QED
    BY <2>1, <2>3
<1>5. ASSUME NEW i \in 1..len, NEW r \in (i - 1)..len
      PROVE  SumFunctionOnSet(f, i..r)
             = SumFunctionOnSet(f, 1..r) - SumFunctionOnSet(f, 1..(i - 1))
  <2>1. PICK k \in Nat : k = i - 1 /\ i = k + 1 /\ k <= r /\ r \in Nat
    OBVIOUS
  <2>2. \A x \in 1..r : f[x] \in Int
    OBVIOUS
  <2>3. /\ SumFunctionOnSet(f, 1..k) \in Int /\ SumFunctionOnSet(f, (k + 1)..r) \in Int
        /\ SumFunctionOnSet(f, 1..r)
           = SumFunctionOnSet(f, 1..k) + SumFunctionOnSet(f, (k + 1)..r)
    BY <2>1, <2>2, SumOfParts
  <2> QED
    BY <2>1, <2>3
<1> QED
  BY <1>1, <1>2, <1>3, <1>4, <1>5

\* The values after the i-th up to the j-th are v.
Same(vals, i, j, v) == \A k \in (i + 1)..j : vals[k] = v

\* The samples after the i-th up to the j-th take a time of c each.
Steady(f, i, j, c) == SumFunctionOnSet(f, (i + 1)..j) = (j - i) * c

LEMMA SumOfSame ==
    ASSUME NEW f, NEW c \in Nat, NEW i \in Nat, NEW j \in Nat, i <= j, Same(f, i, j, c)
    PROVE  Steady(f, i, j, c)
<1>0. PICK n \in Nat : n = j - i /\ j = i + n
  OBVIOUS
<1> DEFINE s(m) == SumFunctionOnSet(f, (i + 1)..(i + m))
           A == {m \in Nat : m <= n => s(m) = m * c}
<1>1. 0 \in A
  BY SumOfEmptyInterval
<1>2. ASSUME NEW m \in Nat, m \in A
      PROVE  m + 1 \in A
  <2> SUFFICES ASSUME m + 1 <= n
               PROVE  s(m + 1) = (m + 1) * c
    OBVIOUS
  <2>1. /\ i + m \in Int /\ i + 1 \in Int /\ i + 1 <= (i + m) + 1
        /\ (i + m) + 1 = i + (m + 1)
        /\ \A x \in (i + 1)..((i + m) + 1) : f[x] \in Int
        /\ f[(i + m) + 1] = c
    BY <1>0 DEF Same
  <2>2. SumFunctionOnSet(f, (i + 1)..((i + m) + 1)) = s(m) + f[(i + m) + 1]
    BY <2>1, SumToNext
  <2>3. s(m) = m * c
    BY <1>2
  <2>4. (m + 1) * c = m * c + c
    OBVIOUS
  <2> QED
    BY <2>1, <2>2, <2>3, <2>4
<1> HIDE DEF A
<1>3. n \in A
  BY <1>1, <1>2, AllNumbers
<1>4. SumFunctionOnSet(f, (i + 1)..(i + n)) = n * c
  BY <1>3 DEF A
<1> QED
  BY <1>0, <1>4 DEF Steady

LEMMA MinIsSmallest ==
    ASSUME NEW S, S \subseteq Nat, S # {}
    PROVE  Min(S) \in S /\ \A y \in S : Min(S) <= y
<1> DEFINE R == {p \in Nat \X Nat : p[1] < p[2]}
<1>1. IsWellFoundedOn(R, Nat)
  BY NatLessThanWellFounded, SmallerNumbers
<1> HIDE DEF R
<1>2. PICK b \in S : \A y \in S : ~ (<< y, b >> \in R)
  BY <1>1, WFMin
<1>3. ASSUME NEW y \in S PROVE b <= y
  <2>1. y \in Nat /\ b \in Nat /\ ~ (<< y, b >> \in R)
    BY <1>2
  <2>2. y < b => << y, b >> \in R
    BY <2>1 DEF R
  <2> QED
    BY <2>1, <2>2
<1>4. \E x \in S : \A y \in S : x =< y
  BY <1>3
<1> QED
  BY <1>4 DEF Min
-----------------------------------------------------------------------------
(* Run-length tables.                                                      *)

\* The samples, and the time, before run r and with it.
Upto(runs, r)  == SamplesIn(runs, 1, r)
Until(runs, r) == TimeIn(runs, 1, r)

LEMMA RunIs ==
    ASSUME NEW runs \in Seq(RunType)
    PROVE  /\ Len(runs) \in Nat /\ DOMAIN runs = 1..Len(runs)
           /\ \A r \in 1..Len(runs) : runs[r] \in RunType /\ runs[r].n \in Nat
                                      /\ runs[r].v \in Nat
<1>1. Len(runs) \in Nat /\ DOMAIN runs = 1..Len(runs)
  BY LenProperties
<1>2. \A r \in 1..Len(runs) : runs[r] \in RunType
  BY ElementOfSeq
<1> QED
  BY <1>1, <1>2 DEF RunType

LEMMA UptoFacts ==
    ASSUME NEW runs \in Seq(RunType)
    PROVE  /\ Upto(runs, 0) = 0
           /\ \A r \in 0..Len(runs) : Upto(runs, r) \in Nat
           /\ \A r \in 1..Len(runs) : Upto(runs, r) = Upto(runs, r - 1) + runs[r].n
           /\ \A i \in 1..Len(runs) : \A r \in (i - 1)..Len(runs) :
                 SamplesIn(runs, i, r) = Upto(runs, r) - Upto(runs, i - 1)
           /\ \A i, r \in 0..Len(runs) : i <= r => Upto(runs, i) <= Upto(runs, r)
<1> DEFINE f == [r \in DOMAIN runs |-> runs[r].n]
<1>1. Len(runs) \in Nat /\ \A r \in 1..Len(runs) : f[r] = runs[r].n /\ f[r] \in Nat
  BY RunIs
<1>2. \A i, r : SamplesIn(runs, i, r) = SumFunctionOnSet(f, i..r)
  BY DEF SamplesIn
<1> HIDE DEF f
<1>3. /\ SumFunctionOnSet(f, 1..0) = 0
      /\ \A r \in 0..Len(runs) : SumFunctionOnSet(f, 1..r) \in Nat
      /\ \A r \in 1..Len(runs) : SumFunctionOnSet(f, 1..r)
                           = SumFunctionOnSet(f, 1..(r - 1)) + f[r]
      /\ \A i \in 1..Len(runs) : \A r \in (i - 1)..Len(runs) :
            SumFunctionOnSet(f, i..r)
            = SumFunctionOnSet(f, 1..r) - SumFunctionOnSet(f, 1..(i - 1))
      /\ \A i, r \in 0..Len(runs) : i <= r =>
            SumFunctionOnSet(f, 1..i) <= SumFunctionOnSet(f, 1..r)
  BY <1>1, PrefixSums
<1> QED
  BY <1>1, <1>2, <1>3 DEF Upto

LEMMA UntilFacts ==
    ASSUME NEW runs \in Seq(RunType)
    PROVE  /\ Until(runs, 0) = 0
           /\ \A r \in 0..Len(runs) : Until(runs, r) \in Nat
           /\ \A r \in 1..Len(runs) :
                 Until(runs, r) = Until(runs, r - 1) + runs[r].n * runs[r].v
           /\ \A i \in 1..Len(runs) : \A r \in (i - 1)..Len(runs) :
                 TimeIn(runs, i, r) = Until(runs, r) - Until(runs, i - 1)
           /\ \A i, r \in 0..Len(runs) : i <= r => Until(runs, i) <= Until(runs, r)
<1> DEFINE f == [r \in DOMAIN runs |-> runs[r].n * runs[r].v]
<1>1. /\ Len(runs) \in Nat
      /\ \A r \in 1..Len(runs) : f[r] = runs[r].n * runs[r].v /\ f[r] \in Nat
  BY RunIs
<1>2. \A i, r : TimeIn(runs, i, r) = SumFunctionOnSet(f, i..r)
  BY DEF TimeIn
<1> HIDE DEF f
<1>3. /\ SumFunctionOnSet(f, 1..0) = 0
      /\ \A r \in 0..Len(runs) : SumFunctionOnSet(f, 1..r) \in Nat
      /\ \A r \in 1..Len(runs) : SumFunctionOnSet(f, 1..r)
                           = SumFunctionOnSet(f, 1..(r - 1)) + f[r]
      /\ \A i \in 1..Len(runs) : \A r \in (i - 1)..Len(runs) :
            SumFunctionOnSet(f, i..r)
            = SumFunctionOnSet(f, 1..r) - SumFunctionOnSet(f, 1..(i - 1))
      /\ \A i, r \in 0..Len(runs) : i <= r =>
            SumFunctionOnSet(f, 1..i) <= SumFunctionOnSet(f, 1..r)
  BY <1>1, PrefixSums
<1> QED
  BY <1>1, <1>2, <1>3 DEF Until

\* The sums over the first runs depend on these only.
LEMMA SameRuns ==
    ASSUME NEW runs \in Seq(RunType), NEW more \in Seq(RunType), NEW r \in Nat,
           r <= Len(runs), r <= Len(more), \A i \in 1..r : more[i] = runs[i]
    PROVE  Upto(more, r) = Upto(runs, r) /\ Until(more, r) = Until(runs, r)
<1>1. /\ 1..r \subseteq DOMAIN runs /\ 1..r \subseteq DOMAIN more
      /\ \A i \in 1..r : runs[i].n \in Nat /\ runs[i].v \in Nat
  BY RunIs
<1>2. IsFiniteSet(1..r)
  BY IntervalFinite
<1>3. Upto(more, r) = Upto(runs, r)
  <2> DEFINE f == [i \in DOMAIN runs |-> runs[i].n]
             g == [i \in DOMAIN more |-> more[i].n]
  <2>1. \A i \in 1..r : f[i] \in Int /\ g[i] = f[i]
    BY <1>1
  <2> HIDE DEF f, g
  <2>2. SumFunctionOnSet(g, 1..r) = SumFunctionOnSet(f, 1..r)
    BY <1>2, <2>1, SumOfEqual
  <2> QED
    BY <2>2 DEF f, g, Upto, SamplesIn
<1>4. Until(more, r) = Until(runs, r)
  <2> DEFINE f == [i \in DOMAIN runs |-> runs[i].n * runs[i].v]
             g == [i \in DOMAIN more |-> more[i].n * more[i].v]
  <2>1. \A i \in 1..r : f[i] \in Int /\ g[i] = f[i]
    BY <1>1
  <2> HIDE DEF f, g
  <2>2. SumFunctionOnSet(g, 1..r) = SumFunctionOnSet(f, 1..r)
    BY <1>2, <2>1, SumOfEqual
  <2> QED
    BY <2>2 DEF f, g, Until, TimeIn
<1> QED
  BY <1>3, <1>4

\* The table gives the first n samples the values vals.
Encodes(runs, vals, n) ==
    /\ Upto(runs, Len(runs)) = n
    /\ \A r \in 1..Len(runs) :
          /\ runs[r].n # 0
          /\ \A k \in (Upto(runs, r - 1) + 1)..Upto(runs, r) : vals[k] = runs[r].v

\* The runs up to the r-th last as long as the samples in them.
LEMMA UntilIsTime ==
    ASSUME NEW runs \in Seq(RunType), NEW vals, NEW n \in Nat, Encodes(runs, vals, n),
           \A k \in 1..n : vals[k] \in Nat, NEW r \in 0..Len(runs)
    PROVE  Until(runs, r) = SumFunctionOnSet(vals, 1..Upto(runs, r))
<1> DEFINE A == {m \in Nat : m <= Len(runs) =>
                   Until(runs, m) = SumFunctionOnSet(vals, 1..Upto(runs, m))}
<1>0. Len(runs) \in Nat
  BY RunIs
<1>1. 0 \in A
  BY UptoFacts, UntilFacts, SumOfEmptyInterval
<1>2. ASSUME NEW m \in Nat, m \in A
      PROVE  m + 1 \in A
  <2> SUFFICES ASSUME m + 1 <= Len(runs)
               PROVE  Until(runs, m + 1) = SumFunctionOnSet(vals, 1..Upto(runs, m + 1))
    OBVIOUS
  <2>1. PICK q \in 1..Len(runs) : q = m + 1 /\ q - 1 = m
    BY <1>0
  <2>2. PICK a \in Nat, b \in Nat, c \in Nat, d \in Nat :
            /\ a = Upto(runs, m) /\ b = Upto(runs, q)
            /\ c = runs[q].n /\ d = runs[q].v
    <3>1. m \in 0..Len(runs) /\ q \in 0..Len(runs)
      BY <1>0, <2>1
    <3> QED
      BY <3>1, RunIs, UptoFacts
  <2>3. b = a + c /\ Until(runs, q) = Until(runs, m) + c * d
    BY <2>1, <2>2, UptoFacts, UntilFacts
  <2>4. b <= n
    <3>1. Len(runs) \in 0..Len(runs) /\ q \in 0..Len(runs) /\ q <= Len(runs)
      BY <1>0
    <3> QED
      BY <2>2, <3>1, UptoFacts DEF Encodes
  <2>5. Same(vals, a, a + c, d)
    BY <2>1, <2>2, <2>3 DEF Encodes, Same
  <2>8. Until(runs, m) = SumFunctionOnSet(vals, 1..a)
    BY <1>2, <2>1, <2>2
  <2> HIDE DEF A
  <2>6. SumFunctionOnSet(vals, (a + 1)..(a + c)) = c * d
    <3>1. PICK e \in Nat : e = a + c /\ a <= e /\ e - a = c
      OBVIOUS
    <3>2. Steady(vals, a, e, d)
      BY <2>5, <3>1, SumOfSame
    <3> QED
      BY <3>1, <3>2 DEF Steady
  <2>7. /\ SumFunctionOnSet(vals, 1..b)
           = SumFunctionOnSet(vals, 1..a) + SumFunctionOnSet(vals, (a + 1)..b)
    <3>1. \A x \in 1..b : vals[x] \in Int
      BY <2>4
    <3>2. a \in Int /\ b \in Int /\ 1 \in Int /\ 1 <= a + 1 /\ a <= b
      BY <2>3
    <3> QED
      BY <3>1, <3>2, SumOfParts
  <2> QED
    BY <2>1, <2>2, <2>3, <2>6, <2>7, <2>8
<1> HIDE DEF A
<1>3. r \in A
  BY <1>0, <1>1, <1>2, AllNumbers
<1> QED
  BY <1>3 DEF A
\* A table that differs from runs only in its last run, which reaches up to
\* sample n with value x.
LEMMA LastRunEncodes ==
    ASSUME NEW runs \in Seq(RunType), NEW vals, NEW m \in Nat, Encodes(runs, vals, m),
           NEW new \in Seq(RunType), NEW len \in Nat \ {0}, Len(new) = len,
           len - 1 <= Len(runs), \A r \in 1..(len - 1) : new[r] = runs[r],
           NEW n \in Nat, NEW x, new[len].v = x, new[len].n # 0,
           Upto(runs, len - 1) + new[len].n = n,
           NEW more, \A k \in 1..Upto(runs, len - 1) : more[k] = vals[k],
           \A k \in (Upto(runs, len - 1) + 1)..n : more[k] = x
    PROVE  Encodes(new, more, n)
<1>1. Len(runs) \in Nat /\ len - 1 \in 0..Len(runs)
  BY RunIs
<1>2. \A r \in 0..(len - 1) : Upto(new, r) = Upto(runs, r) /\ Upto(runs, r) \in Nat
  <2> SUFFICES ASSUME NEW r \in 0..(len - 1)
               PROVE  Upto(new, r) = Upto(runs, r) /\ Upto(runs, r) \in Nat
    OBVIOUS
  <2>1. r \in Nat /\ r <= Len(runs) /\ r <= Len(new) /\ \A i \in 1..r : new[i] = runs[i]
    BY <1>1
  <2>2. Upto(new, r) = Upto(runs, r)
    BY <2>1, SameRuns
  <2> QED
    BY <1>1, <2>2, UptoFacts
<1>3. Upto(new, len) = n
  BY <1>2, UptoFacts
<1>4. ASSUME NEW r \in 1..Len(new)
      PROVE  /\ new[r].n # 0
             /\ \A k \in (Upto(new, r - 1) + 1)..Upto(new, r) : more[k] = new[r].v
  <2>1. CASE r = len
    <3>1. Upto(new, r - 1) = Upto(runs, len - 1)
      BY <1>2, <2>1
    <3> QED
      BY <1>3, <2>1, <3>1
  <2>2. CASE r # len
    <3>1. /\ r \in 1..(len - 1) /\ r - 1 \in 0..(len - 1) /\ r \in 0..(len - 1)
          /\ r \in 1..Len(runs)
      BY <1>1, <2>2
    <3>2. new[r] = runs[r] /\ Upto(new, r) = Upto(runs, r) /\ Upto(new, r - 1) = Upto(runs, r - 1)
      BY <1>2, <3>1
    <3>3. /\ runs[r].n # 0
          /\ \A k \in (Upto(runs, r - 1) + 1)..Upto(runs, r) : vals[k] = runs[r].v
      BY <3>1 DEF Encodes
    <3>4. \A k \in (Upto(runs, r - 1) + 1)..Upto(runs, r) : k \in 1..Upto(runs, len - 1)
      <4>1. Upto(runs, r) <= Upto(runs, len - 1)
        <5>1. r \in 0..Len(runs) /\ r <= len - 1
          BY <1>1, <3>1
        <5> QED
          BY <1>1, <5>1, UptoFacts
      <4> QED
        BY <1>2, <3>1, <4>1
    <3> QED
      BY <3>2, <3>3, <3>4
  <2> QED
    BY <2>1, <2>2
<1> QED
  BY <1>3, <1>4 DEF Encodes

\* AppendRun leaves the runs before the last one alone.
LEMMA AppendRunExtends ==
    ASSUME NEW runs \in Seq(RunType), NEW x \in Nat
    PROVE  /\ AppendRun(runs, x) \in Seq(RunType) /\ AppendRun(runs, x) # << >>
           /\ Len(runs) <= Len(AppendRun(runs, x))
           /\ \A r \in 1..(Len(runs) - 1) : AppendRun(runs, x)[r] = runs[r]
<1> DEFINE new == AppendRun(runs, x)
           len == Len(runs)
<1>1. new \in Seq(RunType)
  BY AppendRunType
<1>2. len \in Nat /\ DOMAIN runs = 1..len
  BY RunIs
<1>3. CASE runs # << >> /\ runs[len].v = x
  <2>1. len \in Nat \ {0}
    BY <1>2, <1>3, EmptySeq
  <2>2. new = [runs EXCEPT ![len] = Run(runs[len].n + 1, x)]
    BY <1>3 DEF AppendRun
  <2>3. Len(new) = len /\ \A r \in 1..(len - 1) : new[r] = runs[r]
    <3>1. DOMAIN new = 1..len
      BY <1>2, <2>2
    <3>2. Len(new) = len
      BY <1>1, <1>2, <3>1, LenProperties
    <3>3. ASSUME NEW r \in 1..(len - 1) PROVE new[r] = runs[r]
      <4>1. r \in 1..len /\ r # len
        <5> HIDE DEF len
        <5> QED
          BY <1>2
      <4> QED
        BY <1>2, <2>2, <4>1
    <3> QED
      BY <3>2, <3>3
  <2> HIDE DEF new
  <2> QED
    BY <1>1, <2>1, <2>3, EmptySeq DEF new
<1>4. CASE ~ (runs # << >> /\ runs[len].v = x)
  <2>1. Run(1, x) \in RunType
    BY DEF Run, RunType
  <2>2. new = Append(runs, Run(1, x))
    BY <1>4 DEF AppendRun
  <2>3. Len(new) = len + 1 /\ \A r \in 1..len : new[r] = runs[r]
    BY <2>1, <2>2, AppendProperties
  <2> HIDE DEF new
  <2> QED
    BY <1>1, <1>2, <2>3, EmptySeq DEF new
<1> QED
  BY <1>3, <1>4

\* AppendRun adds one value.
LEMMA AppendRunEncodes ==
    ASSUME NEW runs \in Seq(RunType), NEW vals, NEW n \in Nat, Encodes(runs, vals, n),
           NEW x \in Nat, NEW more, \A k \in 1..n : more[k] = vals[k], more[n + 1] = x
    PROVE  Encodes(AppendRun(runs, x), more, n + 1)
<1> DEFINE new == AppendRun(runs, x)
           len == Len(runs)
<1>1. new \in Seq(RunType)
  BY AppendRunType
<1>2. len \in Nat /\ DOMAIN runs = 1..len
  BY RunIs
<1>3. CASE runs # << >> /\ runs[len].v = x
  <2>1. len \in Nat \ {0} /\ len \in 1..len /\ len - 1 <= len
    BY <1>2, <1>3, EmptySeq
  <2>2. new = [runs EXCEPT ![len] = Run(runs[len].n + 1, x)]
    BY <1>3, <2>1 DEF AppendRun
  <2>3. Len(new) = len /\ new[len] = Run(runs[len].n + 1, x)
        /\ \A r \in 1..(len - 1) : new[r] = runs[r]
    BY <1>2, <2>1, <2>2
  <2> HIDE DEF new
  <2>4. /\ Upto(runs, len - 1) \in Nat /\ runs[len].n \in Nat
        /\ n = Upto(runs, len - 1) + runs[len].n
    BY <2>1, RunIs, UptoFacts DEF Encodes
  <2>5. new[len].n = runs[len].n + 1 /\ new[len].v = x
    BY <2>3 DEF Run
  <2>6. Upto(runs, len - 1) + new[len].n = n + 1 /\ new[len].n # 0
    BY <2>4, <2>5
  <2>7. \A k \in 1..Upto(runs, len - 1) : more[k] = vals[k]
    BY <2>4
  <2>8. \A k \in (Upto(runs, len - 1) + 1)..(n + 1) : more[k] = x
    <3>1. \A k \in (Upto(runs, len - 1) + 1)..Upto(runs, len) : vals[k] = x
      BY <1>3, <2>1 DEF Encodes
    <3>2. Upto(runs, len) = n
      BY DEF Encodes
    <3> QED
      BY <2>4, <3>1, <3>2, SMTT(30)
  <2>9. n + 1 \in Nat
    OBVIOUS
  <2>10. Encodes(new, more, n + 1)
    <3>1. PICK l \in Nat \ {0} : l = len
      BY <2>1
    <3>2. Len(new) = l /\ l - 1 <= Len(runs) /\ \A r \in 1..(l - 1) : new[r] = runs[r]
      BY <2>1, <2>3, <3>1
    <3>3. /\ new[l].v = x /\ new[l].n # 0 /\ Upto(runs, l - 1) + new[l].n = n + 1
          /\ \A k \in 1..Upto(runs, l - 1) : more[k] = vals[k]
          /\ \A k \in (Upto(runs, l - 1) + 1)..(n + 1) : more[k] = x
      BY <2>5, <2>6, <2>7, <2>8, <3>1
    <3> HIDE DEF len
    <3> QED
      BY <1>1, <2>9, <3>2, <3>3, LastRunEncodes
  <2> QED
    BY <2>10 DEF new
<1>4. CASE ~ (runs # << >> /\ runs[len].v = x)
  <2>1. Run(1, x) \in RunType /\ Run(1, x).n = 1 /\ Run(1, x).v = x
    BY DEF Run, RunType
  <2>2. new = Append(runs, Run(1, x))
    BY <1>4 DEF AppendRun
  <2>3. /\ Len(new) = len + 1 /\ new[len + 1] = Run(1, x)
        /\ \A r \in 1..len : new[r] = runs[r]
    BY <2>1, <2>2, AppendProperties
  <2> HIDE DEF new
  <2>4. PICK l \in Nat \ {0} : l = len + 1 /\ l - 1 = len /\ Len(new) = l
    BY <1>2, <2>3
  <2>5. Upto(runs, l - 1) = n
    BY <2>4 DEF Encodes
  <2>6. new[l].v = x /\ new[l].n = 1
    BY <2>1, <2>3, <2>4
  <2>7. l - 1 <= Len(runs) /\ \A r \in 1..(l - 1) : new[r] = runs[r]
    BY <1>2, <2>3, <2>4
  <2>8. \A k \in (Upto(runs, l - 1) + 1)..(n + 1) : more[k] = x
    BY <2>5
  <2>9. /\ n + 1 \in Nat /\ Upto(runs, l - 1) + new[l].n = n + 1 /\ new[l].n # 0
        /\ \A k \in 1..Upto(runs, l - 1) : more[k] = vals[k]
    BY <2>5, <2>6
  <2>10. Encodes(new, more, n + 1)
    BY <1>1, <2>4, <2>6, <2>7, <2>8, <2>9, LastRunEncodes, SMTT(30)
  <2> QED
    BY <2>10 DEF new
<1> QED
  BY <1>3, <1>4
LEMMA ConcatRuns ==
    ASSUME NEW a \in Seq(RunType), NEW b \in Seq(RunType)
    PROVE  /\ a \o b \in Seq(RunType) /\ Len(a \o b) = Len(a) + Len(b)
           /\ \A r \in 1..Len(a) : (a \o b)[r] = a[r]
           /\ \A r \in 1..Len(b) : (a \o b)[Len(a) + r] = b[r]
<1>1. /\ a \o b \in Seq(RunType) /\ Len(a \o b) = Len(a) + Len(b)
      /\ \A r \in 1..(Len(a) + Len(b)) :
            (a \o b)[r] = IF r <= Len(a) THEN a[r] ELSE b[r - Len(a)]
  BY ConcatProperties
<1>2. PICK m \in Nat, n \in Nat : m = Len(a) /\ n = Len(b)
  BY LenProperties
<1> DEFINE c == a \o b
<1>3. \A r \in 1..(m + n) : c[r] = IF r <= m THEN a[r] ELSE b[r - m]
  BY <1>1, <1>2
<1> HIDE DEF c
<1>4. \A r \in 1..m : c[r] = a[r]
  <2>1. \A r \in 1..m : r \in 1..(m + n) /\ r <= m
    OBVIOUS
  <2> QED
    BY <1>3, <2>1
<1>5. ASSUME NEW r \in 1..n
      PROVE  c[m + r] = b[r]
  <2>1. m + r \in 1..(m + n) /\ ~ (m + r <= m) /\ (m + r) - m = r
    OBVIOUS
  <2> QED
    BY <1>3, <2>1
<1> QED
  BY <1>1, <1>2, <1>4, <1>5 DEF c

LEMMA FrontIs ==
    ASSUME NEW T, NEW s \in Seq(T), NEW m \in Nat, m <= Len(s)
    PROVE  /\ SubSeq(s, 1, m) \in Seq(T) /\ Len(SubSeq(s, 1, m)) = m
           /\ \A r \in 1..m : SubSeq(s, 1, m)[r] = s[r]
<1>1. \A r \in 1..m : s[r] \in T
  <2>1. Len(s) \in Nat /\ \A r \in 1..Len(s) : s[r] \in T
    BY LenProperties, ElementOfSeq
  <2> QED
    BY <2>1
<1>2. SubSeq(s, 1, m) = [r \in 1..m |-> s[r]]
  OBVIOUS
<1>3. [r \in 1..m |-> s[r]] \in Seq(T)
  BY <1>1, IsASeq
<1>4. DOMAIN [r \in 1..m |-> s[r]] = 1..m
  OBVIOUS
<1> QED
  BY <1>2, <1>3, <1>4, LenProperties

LEMMA BackIs ==
    ASSUME NEW T, NEW s \in Seq(T), NEW m \in Nat, NEW n \in Nat, Len(s) = m + n
    PROVE  /\ SubSeq(s, m + 1, m + n) \in Seq(T) /\ Len(SubSeq(s, m + 1, m + n)) = n
           /\ \A r \in 1..n : SubSeq(s, m + 1, m + n)[r] = s[m + r]
<1>1. \A r \in 1..n : s[m + r] \in T
  <2>1. \A r \in 1..(m + n) : s[r] \in T
    BY ElementOfSeq
  <2>2. \A r \in 1..n : m + r \in 1..(m + n)
    OBVIOUS
  <2> QED
    BY <2>1, <2>2
<1>2. \A r \in (m + 1)..(m + n) : s[r] \in T
  BY ElementOfSeq
<1>3. /\ SubSeq(s, m + 1, m + n) \in Seq(T)
      /\ Len(SubSeq(s, m + 1, m + n)) = IF m + 1 <= m + n THEN (m + n) - (m + 1) + 1 ELSE 0
      /\ \A r \in 1..((m + n) - (m + 1) + 1) :
            SubSeq(s, m + 1, m + n)[r] = s[(m + 1) + r - 1]
  BY <1>2, SubSeqProperties
<1>4. (m + n) - (m + 1) + 1 = n /\ \A r \in 1..n : (m + 1) + r - 1 = m + r
  OBVIOUS
<1> QED
  BY <1>3, <1>4

LEMMA Between ==
    \A a, u, w, c \in Nat : w <= c =>
        \A k \in (a + u + 1)..(a + w) : \E y \in 1..c : k = a + y /\ y \in (u + 1)..w
<1> SUFFICES ASSUME NEW a \in Nat, NEW u \in Nat, NEW w \in Nat, NEW c \in Nat, w <= c,
                    NEW k \in (a + u + 1)..(a + w)
             PROVE  \E y \in 1..c : k = a + y /\ y \in (u + 1)..w
  OBVIOUS
<1>1. k - a \in 1..c /\ k = a + (k - a) /\ k - a \in (u + 1)..w
  OBVIOUS
<1> QED
  BY <1>1

\* The j runs from i + 2 on stay, those of p take the place of run i + 1.
Replaces(new, runs, i, p, j) ==
    /\ new \in Seq(RunType) /\ Len(new) = i + Len(p) + j
    /\ \A r \in 1..i : new[r] = runs[r]
    /\ \A r \in 1..Len(p) : new[i + r] = p[r]
    /\ \A r \in 1..j : new[i + Len(p) + r] = runs[i + 1 + r]

\* Run i + 1 is replaced by some pieces.
LEMMA PiecesAt ==
    ASSUME NEW runs \in Seq(RunType), NEW i \in Nat, NEW j \in Nat, Len(runs) = i + 1 + j,
           NEW p \in Seq(RunType)
    PROVE  Replaces(SubSeq(runs, 1, i) \o p \o SubSeq(runs, i + 2, i + 1 + j), runs, i, p, j)
<1>0. PICK q \in Nat : q = Len(p)
  BY RunIs
<1> DEFINE a == SubSeq(runs, 1, i)
           c == SubSeq(runs, i + 2, i + 1 + j)
           d == a \o p
           new == d \o c
<1>1. /\ a \in Seq(RunType) /\ Len(a) = i /\ \A r \in 1..i : a[r] = runs[r]
  <2>1. i <= Len(runs)
    OBVIOUS
  <2> QED
    BY <2>1, FrontIs
<1>2. /\ c \in Seq(RunType) /\ Len(c) = j /\ \A r \in 1..j : c[r] = runs[i + 1 + r]
  <2>1. PICK m \in Nat : m = i + 1
    OBVIOUS
  <2>2. Len(runs) = m + j /\ i + 2 = m + 1 /\ i + 1 + j = m + j
    BY <2>1
  <2>3. /\ SubSeq(runs, m + 1, m + j) \in Seq(RunType)
        /\ Len(SubSeq(runs, m + 1, m + j)) = j
        /\ \A r \in 1..j : SubSeq(runs, m + 1, m + j)[r] = runs[m + r]
    BY <2>2, BackIs
  <2> QED
    BY <2>1, <2>2, <2>3
<1> HIDE DEF a, c
<1>3. /\ d \in Seq(RunType) /\ Len(d) = i + q
      /\ \A r \in 1..i : d[r] = a[r]
      /\ \A r \in 1..q : d[i + r] = p[r]
  <2>1. a \in Seq(RunType)
    BY <1>1
  <2>2. Len(a) = i /\ Len(p) = q
    BY <1>0, <1>1
  <2>3. p \in Seq(RunType)
    OBVIOUS
  <2> HIDE DEF d
  <2>4. /\ a \o p \in Seq(RunType) /\ Len(a \o p) = Len(a) + Len(p)
        /\ \A r \in 1..Len(a) : (a \o p)[r] = a[r]
        /\ \A r \in 1..Len(p) : (a \o p)[Len(a) + r] = p[r]
    BY <2>1, <2>3, ConcatRuns
  <2> QED
    BY <2>2, <2>4, Zenon DEF d
<1> HIDE DEF d
<1>4. PICK m \in Nat : m = i + q
  OBVIOUS
<1>5. /\ new \in Seq(RunType) /\ Len(new) = m + j
      /\ \A r \in 1..m : new[r] = d[r]
      /\ \A r \in 1..j : new[m + r] = c[r]
  <2>1. d \in Seq(RunType)
    BY <1>3
  <2>2. Len(d) = m
    BY <1>3, <1>4
  <2>3. c \in Seq(RunType)
    BY <1>2
  <2>4. Len(c) = j
    BY <1>2
  <2> HIDE DEF new
  <2>5. /\ d \o c \in Seq(RunType) /\ Len(d \o c) = Len(d) + Len(c)
        /\ \A r \in 1..Len(d) : (d \o c)[r] = d[r]
        /\ \A r \in 1..Len(c) : (d \o c)[Len(d) + r] = c[r]
    BY <2>1, <2>3, ConcatRuns
  <2> QED
    BY <2>2, <2>4, <2>5, Zenon DEF new
<1> HIDE DEF new
<1>6. \A r \in 1..i : new[r] = runs[r]
  <2>1. \A r \in 1..i : r \in 1..m
    BY <1>4
  <2> QED
    BY <1>1, <1>3, <1>5, <2>1
<1>7. \A r \in 1..q : new[i + r] = p[r]
  <2>1. \A r \in 1..q : i + r \in 1..m
    BY <1>4
  <2> QED
    BY <1>3, <1>5, <2>1
<1>8. \A r \in 1..j : new[i + q + r] = runs[i + 1 + r]
  BY <1>2, <1>4, <1>5
<1>9. Replaces(new, runs, i, p, j)
  BY <1>0, <1>4, <1>5, <1>6, <1>7, <1>8 DEF Replaces
<1> QED
  BY <1>9 DEF new, a, c, d

\* The q runs after the i-th of one table are those after the o-th of another.
Shifted(new, i, runs, o, q) ==
    /\ o + q <= Len(runs) /\ i + q <= Len(new)
    /\ \A r \in 1..q : new[i + r] = runs[o + r]

LEMMA ShiftedRuns ==
    ASSUME NEW runs \in Seq(RunType), NEW new \in Seq(RunType), NEW o \in Nat, NEW i \in Nat,
           NEW q \in Nat, Shifted(new, i, runs, o, q)
    PROVE  \A x \in 0..q :
               Upto(new, i + x) = Upto(new, i) + (Upto(runs, o + x) - Upto(runs, o))
<1> SUFFICES ASSUME NEW x \in 0..q
             PROVE  Upto(new, i + x) = Upto(new, i) + (Upto(runs, o + x) - Upto(runs, o))
  OBVIOUS
<1> USE DEF Shifted
<1> DEFINE A == {m \in Nat : m <= q =>
                   Upto(new, i + m) = Upto(new, i) + (Upto(runs, o + m) - Upto(runs, o))}
<1>1. Len(runs) \in Nat /\ Len(new) \in Nat
  BY RunIs
<1>2. \A m \in 0..q : Upto(new, i + m) \in Nat /\ Upto(runs, o + m) \in Nat
  <2>1. \A m \in 0..q : i + m \in 0..Len(new) /\ o + m \in 0..Len(runs)
    BY <1>1
  <2> QED
    BY <2>1, UptoFacts
<1>3. 0 \in A
  <2>1. i + 0 = i /\ o + 0 = o /\ 0 \in 0..q
    OBVIOUS
  <2>2. Upto(new, i) \in Nat /\ Upto(runs, o) \in Nat
    BY <1>2, <2>1
  <2> QED
    BY <2>1, <2>2
<1>4. ASSUME NEW m \in Nat, m \in A
      PROVE  m + 1 \in A
  <2> SUFFICES ASSUME m + 1 <= q
               PROVE  Upto(new, i + (m + 1))
                      = Upto(new, i) + (Upto(runs, o + (m + 1)) - Upto(runs, o))
    OBVIOUS
  <2>1. /\ i + (m + 1) \in 1..Len(new) /\ o + (m + 1) \in 1..Len(runs) /\ m + 1 \in 1..q
        /\ (i + (m + 1)) - 1 = i + m /\ (o + (m + 1)) - 1 = o + m
        /\ m \in 0..q /\ 0 \in 0..q /\ i + 0 = i /\ o + 0 = o
    BY <1>1
  <2>2. /\ Upto(new, i + (m + 1)) = Upto(new, i + m) + new[i + (m + 1)].n
        /\ Upto(runs, o + (m + 1)) = Upto(runs, o + m) + runs[o + (m + 1)].n
    BY <2>1, UptoFacts
  <2>3. PICK c \in Nat : c = runs[o + (m + 1)].n /\ c = new[i + (m + 1)].n
    BY <2>1, RunIs
  <2>4. PICK a \in Nat, b \in Nat, d \in Nat, e \in Nat :
            /\ a = Upto(new, i + m) /\ b = Upto(new, i)
            /\ d = Upto(runs, o + m) /\ e = Upto(runs, o)
    BY <1>2, <2>1
  <2>5. a = b + (d - e)
    BY <1>4, <2>1, <2>4
  <2>6. a + c = b + ((d + c) - e)
    BY <2>5
  <2> QED
    BY <2>2, <2>3, <2>4, <2>6
<1> HIDE DEF A
<1>5. x \in A
  BY <1>3, <1>4, AllNumbers
<1> QED
  BY <1>5 DEF A

\* Of n values, the c after the a-th are those of sub, the others as before.
Patched(more, vals, n, sub, a, c) ==
    /\ \A y \in 1..c : more[a + y] = sub[y]
    /\ \A y \in 1..n : y <= a \/ y > a + c => more[y] = vals[y]

LEMMA Inside ==
    ASSUME NEW i \in Nat, NEW a \in Nat, NEW b \in Nat, NEW n \in Nat, i <= a, b <= n,
           NEW k \in (a + 1)..b
    PROVE  k \in 1..n /\ k > i
OBVIOUS

LEMMA PatchedSame ==
    ASSUME NEW a \in Nat, NEW u \in Nat, NEW w \in Nat, NEW c \in Nat, w <= c,
           NEW more, NEW vals, NEW n, NEW sub, Patched(more, vals, n, sub, a, c),
           NEW v, Same(sub, u, w, v)
    PROVE  Same(more, a + u, a + w, v)
<1> SUFFICES ASSUME NEW k \in (a + u + 1)..(a + w)
             PROVE  more[k] = v
  BY DEF Same
<1>1. PICK y \in 1..c : k = a + y /\ y \in (u + 1)..w
  BY Between
<1> QED
  BY <1>1 DEF Same, Patched

\* Run i + 1 is replaced by runs that encode as many samples.
LEMMA ReplacedRunEncodes ==
    ASSUME NEW runs \in Seq(RunType), NEW vals, NEW n \in Nat, Encodes(runs, vals, n),
           NEW i \in Nat, NEW j \in Nat, Len(runs) = i + 1 + j,
           NEW a \in Nat, a = Upto(runs, i), NEW c \in Nat, a + c = Upto(runs, i + 1),
           NEW p \in Seq(RunType), NEW sub, Encodes(p, sub, c),
           NEW more, Patched(more, vals, n, sub, a, c),
           NEW new, Replaces(new, runs, i, p, j)
    PROVE  Encodes(new, more, n)
<1> SUFFICES ASSUME new \in Seq(RunType), Len(new) = i + Len(p) + j,
                    \A r \in 1..i : new[r] = runs[r],
                    \A r \in 1..Len(p) : new[i + r] = p[r],
                    \A r \in 1..j : new[i + Len(p) + r] = runs[i + 1 + r]
             PROVE  Encodes(new, more, n)
  BY DEF Replaces
<1>1. PICK q \in Nat : q = Len(p)
  BY RunIs
<1>2. \A r \in 0..i : Upto(new, r) = Upto(runs, r)
  <2>1. \A r \in 0..i : r \in Nat /\ r <= Len(runs) /\ r <= Len(new)
                        /\ \A x \in 1..r : new[x] = runs[x]
    BY <1>1
  <2> QED
    BY <2>1, SameRuns
<1>3. Upto(new, i) = a
  BY <1>2
<1>4. \A r \in 0..q : Upto(new, i + r) = a + Upto(p, r) /\ Upto(p, r) \in Nat
  <2> SUFFICES ASSUME NEW r \in 0..q
               PROVE  Upto(new, i + r) = a + Upto(p, r) /\ Upto(p, r) \in Nat
    OBVIOUS
  <2>1. Upto(p, 0) = 0 /\ Upto(p, r) \in Nat
    BY <1>1, UptoFacts
  <2>2. PICK z \in Nat : z = 0
    OBVIOUS
  <2>3. \A x \in 1..q : new[i + x] = p[z + x]
    <3>1. \A x \in 1..q : z + x = x /\ x \in 1..Len(p)
      BY <1>1, <2>2
    <3> QED
      BY <3>1
  <2>4. z + q <= Len(p)
    BY <1>1, <2>2
  <2>5. i + q <= Len(new)
    BY <1>1
  <2>6. Shifted(new, i, p, z, q)
    BY <2>3, <2>4, <2>5 DEF Shifted
  <2>8. Upto(new, i + r) = Upto(new, i) + (Upto(p, z + r) - Upto(p, z))
    BY <2>6, ShiftedRuns, SMTT(30)
  <2>7. z + r = r
    BY <2>2
  <2> QED
    BY <1>3, <2>1, <2>2, <2>7, <2>8
<1>5. Upto(new, i + q) = a + c
  BY <1>1, <1>4 DEF Encodes
<1>6. \A r \in 0..j : Upto(new, i + q + r) = Upto(runs, i + 1 + r)
  <2> SUFFICES ASSUME NEW r \in 0..j
               PROVE  Upto(new, i + q + r) = Upto(runs, i + 1 + r)
    OBVIOUS
  <2>1. PICK iq \in Nat, ii \in Nat : iq = i + q /\ ii = i + 1
    OBVIOUS
  <2>2. ii + j <= Len(runs) /\ iq + j <= Len(new) /\ ii + r \in 0..Len(runs)
    BY <1>1, <2>1
  <2>3. \A x \in 1..j : new[iq + x] = runs[ii + x]
    BY <1>1, <2>1
  <2>4. ii + j <= Len(runs)
    BY <2>2
  <2>5. iq + j <= Len(new)
    BY <2>2
  <2>12. Shifted(new, iq, runs, ii, j)
    BY <2>3, <2>4, <2>5 DEF Shifted
  <2>6. Upto(new, iq + r) = Upto(new, iq) + (Upto(runs, ii + r) - Upto(runs, ii))
    BY <2>12, ShiftedRuns, SMTT(30)
  <2>7. PICK u \in Nat : u = Upto(runs, ii + r)
    BY <2>2, UptoFacts
  <2>8. PICK w \in Nat : w = a + c
    OBVIOUS
  <2>9. Upto(runs, ii) = w /\ Upto(new, iq) = w
    BY <1>5, <2>1, <2>8
  <2>10. Upto(new, iq + r) = w + (u - w)
    BY <2>6, <2>7, <2>9
  <2>11. Upto(new, iq + r) = u
    BY <2>10
  <2> QED
    BY <2>1, <2>7, <2>11
<1>7. Upto(new, i + q + j) = n
  <2>1. j \in 0..j /\ Len(runs) = i + 1 + j
    OBVIOUS
  <2>2. Upto(new, i + q + j) = Upto(runs, i + 1 + j)
    BY <1>6, <2>1
  <2> QED
    BY <2>1, <2>2 DEF Encodes
<1>8. \A r \in 1..Len(runs) :
          /\ runs[r].n # 0
          /\ \A k \in (Upto(runs, r - 1) + 1)..Upto(runs, r) : vals[k] = runs[r].v
  BY DEF Encodes
<1>9. /\ \A r \in 0..Len(runs) : Upto(runs, r) \in Nat
      /\ \A x, y \in 0..Len(runs) : x <= y => Upto(runs, x) <= Upto(runs, y)
      /\ Upto(runs, Len(runs)) = n
  BY UptoFacts DEF Encodes
<1>10. ASSUME NEW r \in 1..i
       PROVE  /\ new[r].n # 0
              /\ \A k \in (Upto(new, r - 1) + 1)..Upto(new, r) : more[k] = new[r].v
  <2>1. r \in 1..Len(runs) /\ r - 1 \in 0..i /\ r \in 0..i
    BY SMTT(30)
  <2>2. /\ new[r] = runs[r] /\ Upto(new, r) = Upto(runs, r)
        /\ Upto(new, r - 1) = Upto(runs, r - 1)
    BY <1>2, <2>1
  <2>3. ASSUME NEW k \in (Upto(runs, r - 1) + 1)..Upto(runs, r)
        PROVE  more[k] = vals[k]
    <3>1. /\ r \in 0..Len(runs) /\ r - 1 \in 0..Len(runs) /\ i \in 0..Len(runs) /\ r <= i
          /\ Len(runs) \in 0..Len(runs) /\ i <= Len(runs)
      OBVIOUS
    <3>2. /\ Upto(runs, r) <= a /\ a <= n
          /\ Upto(runs, r) \in Nat /\ Upto(runs, r - 1) \in Nat
      BY <1>9, <3>1
    <3>3. k \in 1..n /\ k <= a
      BY <3>2, SMTT(30)
    <3> QED
      BY <3>3 DEF Patched
  <2> QED
    BY <1>8, <2>1, <2>2, <2>3, SMTT(30)
<1>11. ASSUME NEW r \in 1..q
       PROVE  /\ new[i + r].n # 0
              /\ \A k \in (Upto(new, (i + r) - 1) + 1)..Upto(new, i + r) :
                    more[k] = new[i + r].v
  <2>1. r \in 0..q /\ r - 1 \in 0..q /\ (i + r) - 1 = i + (r - 1) /\ r \in 1..Len(p)
        /\ q \in 0..q /\ r <= q
    BY <1>1
  <2>2. PICK u \in Nat, w \in Nat : u = Upto(p, r - 1) /\ w = Upto(p, r)
    BY <1>4, <2>1
  <2>3. new[i + r] = p[r] /\ Upto(new, i + r) = a + w /\ Upto(new, (i + r) - 1) = a + u
    BY <1>4, <2>1, <2>2
  <2>4. p[r].n # 0 /\ \A y \in (u + 1)..w : sub[y] = p[r].v
    BY <2>1, <2>2 DEF Encodes
  <2>5. w <= c
    BY <1>1, <2>1, <2>2, UptoFacts DEF Encodes
  <2>6. \A k \in (a + u + 1)..(a + w) : more[k] = p[r].v
    <3>1. Same(sub, u, w, p[r].v)
      BY <2>4 DEF Same
    <3>2. Same(more, a + u, a + w, p[r].v)
      BY <2>5, <3>1, PatchedSame
    <3> QED
      BY <3>2 DEF Same
  <2> QED
    BY <2>3, <2>4, <2>6
<1>12. ASSUME NEW r \in 1..j
       PROVE  /\ new[i + q + r].n # 0
              /\ \A k \in (Upto(new, (i + q + r) - 1) + 1)..Upto(new, i + q + r) :
                    more[k] = new[i + q + r].v
  <2>1. PICK x \in 1..Len(runs) : x = i + 1 + r /\ x - 1 = i + 1 + (r - 1)
    OBVIOUS
  <2>2. r - 1 \in 0..j /\ r \in 0..j /\ (i + q + r) - 1 = i + q + (r - 1)
    OBVIOUS
  <2>3. /\ new[i + q + r] = runs[x] /\ Upto(new, i + q + r) = Upto(runs, x)
        /\ Upto(new, (i + q + r) - 1) = Upto(runs, x - 1)
    BY <1>1, <1>6, <2>1, <2>2
  <2>4. ASSUME NEW k \in (Upto(runs, x - 1) + 1)..Upto(runs, x)
        PROVE  more[k] = vals[k]
    <3>1. /\ x \in 0..Len(runs) /\ x - 1 \in 0..Len(runs) /\ i + 1 \in 0..Len(runs)
          /\ i + 1 <= x - 1 /\ Len(runs) \in 0..Len(runs) /\ x <= Len(runs)
      BY <2>1
    <3>2. /\ Upto(runs, x) <= n /\ a + c <= Upto(runs, x - 1)
          /\ Upto(runs, x) \in Nat /\ Upto(runs, x - 1) \in Nat
      BY <1>9, <3>1
    <3>4. a + c \in Nat
      OBVIOUS
    <3>3. k \in 1..n /\ k > a + c
      BY <3>2, <3>4, Inside, Zenon
    <3> QED
      BY <3>3 DEF Patched
  <2> QED
    BY <1>8, <2>1, <2>3, <2>4, SMTT(30)
<1>13. ASSUME NEW r \in 1..Len(new)
       PROVE  /\ new[r].n # 0
              /\ \A k \in (Upto(new, r - 1) + 1)..Upto(new, r) : more[k] = new[r].v
  <2>1. CASE r <= i
    <3>1. r \in 1..i
      BY <1>1, <2>1
    <3> QED
      BY <1>10, <3>1
  <2>2. CASE r > i /\ r <= i + q
    <3>1. PICK x \in 1..q : r = i + x
      <4>1. r - i \in 1..q /\ r = i + (r - i)
        BY <1>1, <2>2
      <4> QED
        BY <4>1
    <3> QED
      BY <1>11, <3>1
  <2>3. CASE r > i + q
    <3>1. PICK x \in 1..j : r = i + q + x
      <4>1. r - (i + q) \in 1..j /\ r = i + q + (r - (i + q))
        BY <1>1, <2>3
      <4> QED
        BY <4>1
    <3> QED
      BY <1>12, <3>1
  <2> QED
    BY <1>1, <2>1, <2>2, <2>3
<1> QED
  BY <1>1, <1>7, <1>13 DEF Encodes

\* What takes the place of a run of c samples whose f-th becomes x.
Pieces(c, f, v, x) ==
    IF c = 1 THEN << Run(1, x) >>
    ELSE IF f = 1 THEN << Run(1, x), Run(c - 1, v) >>
    ELSE IF f = c THEN << Run(c - 1, v), Run(1, x) >>
    ELSE << Run(f - 1, v), Run(1, x), Run(c - f, v) >>

LEMMA PiecesEncode ==
    ASSUME NEW c \in Nat \ {0}, NEW f \in 1..c, NEW v \in Nat, NEW x \in Nat,
           NEW sub, sub[f] = x, \A y \in 1..c : y # f => sub[y] = v
    PROVE  /\ Pieces(c, f, v, x) \in Seq(RunType)
           /\ Encodes(Pieces(c, f, v, x), sub, c) /\ Len(Pieces(c, f, v, x)) \in Nat \ {0}
<1>1. CASE c = 1
  <2> DEFINE p == << Run(1, x) >>
  <2>1. Run(1, x) \in RunType
    BY <1>1 DEF Run, RunType
  <2>2. /\ p \in Seq(RunType) /\ Len(p) = 1
        /\ p[1].n = 1 /\ p[1].v = x
    BY <2>1 DEF Run
  <2>3. Pieces(c, f, v, x) = p
    BY <1>1 DEF Pieces
  <2> HIDE DEF p
  <2>4. Upto(p, 0) = 0 /\ \A r \in 1..1 : Upto(p, r) = Upto(p, r - 1) + p[r].n
    BY <2>2, UptoFacts
  <2>5. Upto(p, 1) = 1
    <3>1. 1 \in 1..1 /\ 1 - 1 = 0
      OBVIOUS
    <3>2. Upto(p, 1) = Upto(p, 0) + p[1].n
      BY <2>4, <3>1
    <3> QED
      BY <1>1, <2>2, <2>4, <3>2
  <2>6. p[1].n # 0 /\ \A k \in (Upto(p, 1 - 1) + 1)..Upto(p, 1) : sub[k] = p[1].v
    <3>1. Upto(p, 1 - 1) = 0 /\ Upto(p, 1) = 1 /\ 1 # 0
      BY <1>1, <2>4, <2>5
    <3>2. \A k \in (0 + 1)..(1) : sub[k] = x
      BY <1>1
    <3> QED
      BY <2>2, <3>1, <3>2
  <2>7. \A r \in 1..1 : p[r].n # 0 /\ \A k \in (Upto(p, r - 1) + 1)..Upto(p, r) : sub[k] = p[r].v
    <3>1. \A r \in 1..1 : r = 1
      OBVIOUS
    <3> QED
      BY <3>1, <2>6
  <2>8. Len(p) \in Nat \ {0} /\ Upto(p, Len(p)) = c
    BY <1>1, <2>2, <2>5
  <2>9. \A r \in 1..Len(p) : p[r].n # 0 /\ \A k \in (Upto(p, r - 1) + 1)..Upto(p, r) : sub[k] = p[r].v
    BY <2>2, <2>7
  <2>10. Encodes(p, sub, c)
    BY <2>8, <2>9 DEF Encodes
  <2> QED
    BY <2>2, <2>3, <2>8, <2>10
<1>2. CASE c # 1 /\ f = 1
  <2> DEFINE p == << Run(1, x), Run(c - 1, v) >>
  <2>1. Run(1, x) \in RunType /\ Run(c - 1, v) \in RunType
    BY <1>2 DEF Run, RunType
  <2>2. /\ p \in Seq(RunType) /\ Len(p) = 2
        /\ p[1].n = 1 /\ p[1].v = x
        /\ p[2].n = c - 1 /\ p[2].v = v
    BY <2>1 DEF Run
  <2>3. Pieces(c, f, v, x) = p
    BY <1>2 DEF Pieces
  <2> HIDE DEF p
  <2>4. Upto(p, 0) = 0 /\ \A r \in 1..2 : Upto(p, r) = Upto(p, r - 1) + p[r].n
    BY <2>2, UptoFacts
  <2>5. Upto(p, 1) = 1
    <3>1. 1 \in 1..2 /\ 1 - 1 = 0
      OBVIOUS
    <3>2. Upto(p, 1) = Upto(p, 0) + p[1].n
      BY <2>4, <3>1
    <3> QED
      BY <1>2, <2>2, <2>4, <3>2
  <2>6. Upto(p, 2) = c
    <3>1. 2 \in 1..2 /\ 2 - 1 = 1
      OBVIOUS
    <3>2. Upto(p, 2) = Upto(p, 1) + p[2].n
      BY <2>4, <3>1
    <3> QED
      BY <1>2, <2>2, <2>5, <3>2
  <2>7. p[1].n # 0 /\ \A k \in (Upto(p, 1 - 1) + 1)..Upto(p, 1) : sub[k] = p[1].v
    <3>1. Upto(p, 1 - 1) = 0 /\ Upto(p, 1) = 1 /\ 1 # 0
      BY <1>2, <2>4, <2>5
    <3>2. \A k \in (0 + 1)..(1) : sub[k] = x
      BY <1>2
    <3> QED
      BY <2>2, <3>1, <3>2
  <2>8. p[2].n # 0 /\ \A k \in (Upto(p, 2 - 1) + 1)..Upto(p, 2) : sub[k] = p[2].v
    <3>1. Upto(p, 2 - 1) = 1 /\ Upto(p, 2) = c /\ c - 1 # 0
      BY <1>2, <2>5, <2>6
    <3>2. \A k \in (1 + 1)..(c) : sub[k] = v
      BY <1>2
    <3> QED
      BY <2>2, <3>1, <3>2
  <2>9. \A r \in 1..2 : p[r].n # 0 /\ \A k \in (Upto(p, r - 1) + 1)..Upto(p, r) : sub[k] = p[r].v
    <3>1. \A r \in 1..2 : r = 1 \/ r = 2
      OBVIOUS
    <3> QED
      BY <3>1, <2>7, <2>8
  <2>10. Len(p) \in Nat \ {0} /\ Upto(p, Len(p)) = c
    BY <2>2, <2>6
  <2>11. \A r \in 1..Len(p) : p[r].n # 0 /\ \A k \in (Upto(p, r - 1) + 1)..Upto(p, r) : sub[k] = p[r].v
    BY <2>2, <2>9
  <2>12. Encodes(p, sub, c)
    BY <2>10, <2>11 DEF Encodes
  <2> QED
    BY <2>2, <2>3, <2>10, <2>12
<1>3. CASE c # 1 /\ f # 1 /\ f = c
  <2> DEFINE p == << Run(c - 1, v), Run(1, x) >>
  <2>1. Run(c - 1, v) \in RunType /\ Run(1, x) \in RunType
    BY <1>3 DEF Run, RunType
  <2>2. /\ p \in Seq(RunType) /\ Len(p) = 2
        /\ p[1].n = c - 1 /\ p[1].v = v
        /\ p[2].n = 1 /\ p[2].v = x
    BY <2>1 DEF Run
  <2>3. Pieces(c, f, v, x) = p
    BY <1>3 DEF Pieces
  <2> HIDE DEF p
  <2>4. Upto(p, 0) = 0 /\ \A r \in 1..2 : Upto(p, r) = Upto(p, r - 1) + p[r].n
    BY <2>2, UptoFacts
  <2>5. Upto(p, 1) = c - 1
    <3>1. 1 \in 1..2 /\ 1 - 1 = 0
      OBVIOUS
    <3>2. Upto(p, 1) = Upto(p, 0) + p[1].n
      BY <2>4, <3>1
    <3> QED
      BY <1>3, <2>2, <2>4, <3>2
  <2>6. Upto(p, 2) = c
    <3>1. 2 \in 1..2 /\ 2 - 1 = 1
      OBVIOUS
    <3>2. Upto(p, 2) = Upto(p, 1) + p[2].n
      BY <2>4, <3>1
    <3> QED
      BY <1>3, <2>2, <2>5, <3>2
  <2>7. p[1].n # 0 /\ \A k \in (Upto(p, 1 - 1) + 1)..Upto(p, 1) : sub[k] = p[1].v
    <3>1. Upto(p, 1 - 1) = 0 /\ Upto(p, 1) = c - 1 /\ c - 1 # 0
      BY <1>3, <2>4, <2>5
    <3>2. \A k \in (0 + 1)..(c - 1) : sub[k] = v
      BY <1>3
    <3> QED
      BY <2>2, <3>1, <3>2
  <2>8. p[2].n # 0 /\ \A k \in (Upto(p, 2 - 1) + 1)..Upto(p, 2) : sub[k] = p[2].v
    <3>1. Upto(p, 2 - 1) = c - 1 /\ Upto(p, 2) = c /\ 1 # 0
      BY <1>3, <2>5, <2>6
    <3>2. \A k \in (c - 1 + 1)..(c) : sub[k] = x
      BY <1>3
    <3> QED
      BY <2>2, <3>1, <3>2
  <2>9. \A r \in 1..2 : p[r].n # 0 /\ \A k \in (Upto(p, r - 1) + 1)..Upto(p, r) : sub[k] = p[r].v
    <3>1. \A r \in 1..2 : r = 1 \/ r = 2
      OBVIOUS
    <3> QED
      BY <3>1, <2>7, <2>8
  <2>10. Len(p) \in Nat \ {0} /\ Upto(p, Len(p)) = c
    BY <2>2, <2>6
  <2>11. \A r \in 1..Len(p) : p[r].n # 0 /\ \A k \in (Upto(p, r - 1) + 1)..Upto(p, r) : sub[k] = p[r].v
    BY <2>2, <2>9
  <2>12. Encodes(p, sub, c)
    BY <2>10, <2>11 DEF Encodes
  <2> QED
    BY <2>2, <2>3, <2>10, <2>12
<1>4. CASE c # 1 /\ f # 1 /\ f # c
  <2> DEFINE p == << Run(f - 1, v), Run(1, x), Run(c - f, v) >>
  <2>1. Run(f - 1, v) \in RunType /\ Run(1, x) \in RunType /\ Run(c - f, v) \in RunType
    BY <1>4 DEF Run, RunType
  <2>2. /\ p \in Seq(RunType) /\ Len(p) = 3
        /\ p[1].n = f - 1 /\ p[1].v = v
        /\ p[2].n = 1 /\ p[2].v = x
        /\ p[3].n = c - f /\ p[3].v = v
    BY <2>1 DEF Run
  <2>3. Pieces(c, f, v, x) = p
    BY <1>4 DEF Pieces
  <2> HIDE DEF p
  <2>4. Upto(p, 0) = 0 /\ \A r \in 1..3 : Upto(p, r) = Upto(p, r - 1) + p[r].n
    BY <2>2, UptoFacts
  <2>5. Upto(p, 1) = f - 1
    <3>1. 1 \in 1..3 /\ 1 - 1 = 0
      OBVIOUS
    <3>2. Upto(p, 1) = Upto(p, 0) + p[1].n
      BY <2>4, <3>1
    <3> QED
      BY <1>4, <2>2, <2>4, <3>2
  <2>6. Upto(p, 2) = f
    <3>1. 2 \in 1..3 /\ 2 - 1 = 1
      OBVIOUS
    <3>2. Upto(p, 2) = Upto(p, 1) + p[2].n
      BY <2>4, <3>1
    <3> QED
      BY <1>4, <2>2, <2>5, <3>2
  <2>7. Upto(p, 3) = c
    <3>1. 3 \in 1..3 /\ 3 - 1 = 2
      OBVIOUS
    <3>2. Upto(p, 3) = Upto(p, 2) + p[3].n
      BY <2>4, <3>1
    <3> QED
      BY <1>4, <2>2, <2>6, <3>2
  <2>8. p[1].n # 0 /\ \A k \in (Upto(p, 1 - 1) + 1)..Upto(p, 1) : sub[k] = p[1].v
    <3>1. Upto(p, 1 - 1) = 0 /\ Upto(p, 1) = f - 1 /\ f - 1 # 0
      BY <1>4, <2>4, <2>5
    <3>2. \A k \in (0 + 1)..(f - 1) : sub[k] = v
      BY <1>4
    <3> QED
      BY <2>2, <3>1, <3>2
  <2>9. p[2].n # 0 /\ \A k \in (Upto(p, 2 - 1) + 1)..Upto(p, 2) : sub[k] = p[2].v
    <3>1. Upto(p, 2 - 1) = f - 1 /\ Upto(p, 2) = f /\ 1 # 0
      BY <1>4, <2>5, <2>6
    <3>2. \A k \in (f - 1 + 1)..(f) : sub[k] = x
      BY <1>4
    <3> QED
      BY <2>2, <3>1, <3>2
  <2>10. p[3].n # 0 /\ \A k \in (Upto(p, 3 - 1) + 1)..Upto(p, 3) : sub[k] = p[3].v
    <3>1. Upto(p, 3 - 1) = f /\ Upto(p, 3) = c /\ c - f # 0
      BY <1>4, <2>6, <2>7
    <3>2. \A k \in (f + 1)..(c) : sub[k] = v
      BY <1>4
    <3> QED
      BY <2>2, <3>1, <3>2
  <2>11. \A r \in 1..3 : p[r].n # 0 /\ \A k \in (Upto(p, r - 1) + 1)..Upto(p, r) : sub[k] = p[r].v
    <3>1. \A r \in 1..3 : r = 1 \/ r = 2 \/ r = 3
      OBVIOUS
    <3> QED
      BY <3>1, <2>8, <2>9, <2>10
  <2>12. Len(p) \in Nat \ {0} /\ Upto(p, Len(p)) = c
    BY <2>2, <2>7
  <2>13. \A r \in 1..Len(p) : p[r].n # 0 /\ \A k \in (Upto(p, r - 1) + 1)..Upto(p, r) : sub[k] = p[r].v
    BY <2>2, <2>11
  <2>14. Encodes(p, sub, c)
    BY <2>12, <2>13 DEF Encodes
  <2> QED
    BY <2>2, <2>3, <2>12, <2>14
<1> QED
  BY <1>1, <1>2, <1>3, <1>4

-----------------------------------------------------------------------------
(* Caches.                                                                 *)

\* The cache holds nothing, or a run and what is before it.
Points(runs, c) ==
    \/ c.sid = INVALID_SAMPLE_ID
    \/ /\ c.ix \in 1..Len(runs)
       /\ c.sid = Upto(runs, c.ix - 1) + 1
       /\ c.elapsed = Until(runs, c.ix - 1)

\* The cache names run hit, which holds sample k.
Hits(runs, c, k) ==
    /\ c.ix \in 1..Len(runs)
    /\ c = [ix |-> c.ix, sid |-> Upto(runs, c.ix - 1) + 1,
            elapsed |-> Until(runs, c.ix - 1)]
    /\ Upto(runs, c.ix - 1) < k /\ k <= Upto(runs, c.ix)

\* A table whose runs before the last one stay keeps the cache right.
LEMMA PointsKept ==
    ASSUME NEW runs \in Seq(RunType), NEW new \in Seq(RunType), NEW c, Points(runs, c),
           Len(runs) <= Len(new), \A r \in 1..(Len(runs) - 1) : new[r] = runs[r]
    PROVE  Points(new, c)
<1>1. CASE c.sid = INVALID_SAMPLE_ID
  BY <1>1 DEF Points
<1>2. CASE c.sid # INVALID_SAMPLE_ID
  <2>1. Len(runs) \in Nat /\ Len(new) \in Nat
    BY RunIs
  <2>2. PICK i \in Nat : i = c.ix - 1 /\ c.ix \in 1..Len(runs)
    BY <1>2, <2>1 DEF Points
  <2>3. i <= Len(runs) /\ i <= Len(new) /\ \A r \in 1..i : new[r] = runs[r]
    BY <2>1, <2>2
  <2>4. Upto(new, i) = Upto(runs, i) /\ Until(new, i) = Until(runs, i)
    BY <2>3, SameRuns
  <2>5. c.ix \in 1..Len(new)
    BY <2>1, <2>2
  <2> QED
    BY <1>2, <2>2, <2>4, <2>5 DEF Points
<1> QED
  BY <1>1, <1>2

\* The search finds the run that holds the sample, if one does.
LEMMA FindRunIs ==
    ASSUME NEW runs \in Seq(RunType), NEW old \in CacheType, Points(runs, old),
           NEW k \in Nat \ {0}
    PROVE  LET at == FindRun(runs, old, k)
           IN  /\ at.cache \in CacheType /\ Points(runs, at.cache)
               /\ k <= Upto(runs, Len(runs)) => at.found
               /\ at.found => Hits(runs, at.cache, k)
<1> DEFINE start == Start(old, k)
           hits  == {r \in start.ix..Len(runs) :
                        k <= start.sid + SamplesIn(runs, start.ix, r) - 1}
           at == FindRun(runs, old, k)
           len == Len(runs)
<1>1. len \in Nat /\ \A r \in 1..len : runs[r].n \in Nat
  BY RunIs
<1>2. start \in CacheType
  BY DEF Start, FirstRun, CacheType
<1>3. start.ix \in Nat \ {0} /\ start.sid \in Nat /\ start.elapsed \in Nat
  BY <1>2 DEF CacheType
\* Where the search starts is the first sample of a run, unless there is none.
<1>4. start.ix <= len => /\ start.sid = Upto(runs, start.ix - 1) + 1
                         /\ start.elapsed = Until(runs, start.ix - 1)
                         /\ start.sid <= k
  <2>1. CASE old.sid # INVALID_SAMPLE_ID /\ k >= old.sid
    BY <2>1 DEF Start, Points
  <2>2. CASE ~ (old.sid # INVALID_SAMPLE_ID /\ k >= old.sid)
    <3>1. start = FirstRun
      BY <2>2 DEF Start
    <3>2. start.ix - 1 = 0 /\ start.sid = 1 /\ start.elapsed = 0
      BY <3>1 DEF FirstRun
    <3> HIDE DEF start
    <3> QED
      BY <3>2, UptoFacts, UntilFacts
  <2> QED
    BY <2>1, <2>2
<1>5. start.ix > len => old.sid = INVALID_SAMPLE_ID /\ len = 0 /\ start.ix = 1
  BY <1>1 DEF Start, Points, FirstRun
<1>6. at = IF hits = {}
           THEN [found |-> FALSE, cache |-> [old EXCEPT !.ix = start.ix]]
           ELSE [found |-> TRUE,
                 cache |-> [ix  |-> Min(hits),
                            sid |-> start.sid + SamplesIn(runs, start.ix, Min(hits) - 1),
                            elapsed |-> start.elapsed
                                        + TimeIn(runs, start.ix, Min(hits) - 1)]]
  BY DEF FindRun
<1> HIDE DEF start, at
<1>7. \A r \in start.ix..len : r \in hits <=> k <= Upto(runs, r)
  <2> SUFFICES ASSUME NEW r \in start.ix..len
               PROVE  k <= start.sid + SamplesIn(runs, start.ix, r) - 1 <=> k <= Upto(runs, r)
    OBVIOUS
  <2>1. start.ix \in 1..len /\ start.ix - 1 \in 0..len /\ r \in (start.ix - 1)..len
        /\ r \in 0..len
    BY <1>1, <1>3
  <2>2. PICK a \in Nat, b \in Nat : a = Upto(runs, start.ix - 1) /\ b = Upto(runs, r)
    BY <2>1, UptoFacts
  <2>3. SamplesIn(runs, start.ix, r) = b - a
    BY <2>1, <2>2, UptoFacts
  <2>4. start.sid = a + 1
    BY <1>1, <1>4, <2>1, <2>2
  <2>5. start.sid + SamplesIn(runs, start.ix, r) - 1 = b
    <3>1. (a + 1) + (b - a) - 1 = b
      OBVIOUS
    <3> QED
      BY <2>3, <2>4, <3>1
  <2> QED
    BY <2>2, <2>5
<1>8. ASSUME hits = {}
      PROVE  /\ at.found = FALSE /\ at.cache \in CacheType /\ Points(runs, at.cache)
             /\ ~ (k <= Upto(runs, len))
  <2>1. ~ (k <= Upto(runs, len))
    <3>1. CASE start.ix <= len
      <4>1. len \in start.ix..len
        BY <1>1, <1>3, <3>1
      <4> QED
        BY <1>7, <1>8, <4>1
    <3>2. CASE ~ (start.ix <= len)
      <4>1. Upto(runs, len) = 0
        BY <1>1, <1>3, <1>5, <3>2, UptoFacts
      <4> QED
        BY <4>1
    <3> QED
      BY <3>1, <3>2
  <2>2. at.found = FALSE /\ at.cache = [old EXCEPT !.ix = start.ix]
    BY <1>6, <1>8
  <2>3. at.cache \in CacheType /\ at.cache.ix = start.ix /\ at.cache.sid = old.sid
        /\ at.cache.elapsed = old.elapsed
    BY <1>3, <2>2 DEF CacheType
  <2>4. CASE old.sid = INVALID_SAMPLE_ID
    BY <2>1, <2>2, <2>3, <2>4 DEF Points
  <2>5. CASE old.sid # INVALID_SAMPLE_ID
    <3>1. k >= old.sid
      <4>1. old.ix \in 1..len /\ old.sid = Upto(runs, old.ix - 1) + 1
        BY <2>5 DEF Points
      <4>2. old.ix - 1 \in 0..len /\ len \in 0..len /\ old.ix - 1 <= len
        BY <1>1, <4>1
      <4>3. /\ Upto(runs, old.ix - 1) <= Upto(runs, len)
            /\ Upto(runs, old.ix - 1) \in Nat /\ Upto(runs, len) \in Nat
        BY <4>2, UptoFacts
      <4> QED
        BY <2>1, <4>1, <4>3
    <3>2. start.ix = old.ix
      BY <2>5, <3>1 DEF start, Start
    <3> QED
      BY <2>1, <2>2, <2>3, <3>2 DEF Points
  <2> QED
    BY <2>4, <2>5
<1>9. ASSUME hits # {}
      PROVE  /\ at.found = TRUE /\ at.cache \in CacheType /\ Points(runs, at.cache)
             /\ Hits(runs, at.cache, k)
  <2> DEFINE hit == Min(hits)
  <2>1. hits \subseteq Nat
    BY <1>1, <1>3
  <2>2. hit \in hits /\ \A y \in hits : hit <= y
    BY <1>9, <2>1, MinIsSmallest
  <2>3. hit \in start.ix..len
    BY <2>2
  <2>4. k <= Upto(runs, hit)
    BY <1>7, <2>2, <2>3
  <2>5. at.found = TRUE
        /\ at.cache = [ix |-> hit, sid |-> start.sid + SamplesIn(runs, start.ix, hit - 1),
                       elapsed |-> start.elapsed + TimeIn(runs, start.ix, hit - 1)]
    BY <1>6, <1>9
  <2> HIDE DEF hits, hit
  <2>6. /\ hit \in 1..len /\ start.ix \in 1..len /\ start.ix - 1 \in 0..len
        /\ hit - 1 \in (start.ix - 1)..len /\ hit - 1 \in 0..len /\ hit \in 0..len
    BY <1>1, <1>3, <2>3
  <2>7. PICK a \in Nat, b \in Nat, c \in Nat, d \in Nat :
            /\ a = Upto(runs, start.ix - 1) /\ b = Upto(runs, hit - 1)
            /\ c = Until(runs, start.ix - 1) /\ d = Until(runs, hit - 1)
    BY <2>6, UptoFacts, UntilFacts
  <2>8. /\ SamplesIn(runs, start.ix, hit - 1) = b - a
        /\ TimeIn(runs, start.ix, hit - 1) = d - c
    BY <2>6, <2>7, UptoFacts, UntilFacts
  <2>9. start.sid = a + 1 /\ start.elapsed = c /\ start.sid <= k
    BY <1>1, <1>4, <2>6, <2>7
  <2>10. at.cache = [ix |-> hit, sid |-> b + 1, elapsed |-> d]
    BY <2>5, <2>7, <2>8, <2>9
  <2>11. b < k
    <3>1. CASE hit = start.ix
      BY <2>7, <2>9, <3>1
    <3>2. CASE hit # start.ix
      <4>1. hit - 1 \in start.ix..len /\ ~ (hit <= hit - 1)
        BY <1>3, <2>3, <2>6, <3>2
      <4>2. ~ (k <= Upto(runs, hit - 1))
        BY <1>7, <2>2, <4>1
      <4> QED
        BY <2>7, <4>2
    <3> QED
      BY <3>1, <3>2
  <2>12. at.cache.ix = hit /\ at.cache.sid = b + 1 /\ at.cache.elapsed = d
         /\ at.cache \in CacheType
    BY <2>6, <2>7, <2>10, SMTT(30) DEF CacheType
  <2>13. Hits(runs, at.cache, k)
    BY <2>4, <2>6, <2>7, <2>10, <2>11, <2>12 DEF Hits
  <2>14. Points(runs, at.cache)
    BY <2>6, <2>7, <2>12 DEF Points
  <2> QED
    BY <2>5, <2>12, <2>13, <2>14
<1> QED
  BY <1>8, <1>9 DEF at
LEMMA Positions ==
    \A len \in Nat : \A at \in 1..len :
        \E i, j \in Nat : at = i + 1 /\ len = i + 1 + j
<1> SUFFICES ASSUME NEW len \in Nat, NEW at \in 1..len
             PROVE  \E i, j \in Nat : at = i + 1 /\ len = i + 1 + j
  OBVIOUS
<1>1. at - 1 \in Nat /\ len - at \in Nat /\ at = (at - 1) + 1 /\ len = (at - 1) + 1 + (len - at)
  OBVIOUS
<1> QED
  BY <1>1

\* Sample k is the f-th of the m samples of run ix, of which the first is first.
IsNth(runs, ix, first, k, f, m) ==
    /\ runs[ix].n = m
    /\ k = first <=> f = 1
    /\ k = first + m - 1 <=> f = m
    /\ k - first = f - 1 /\ (first + m - 1) - k = m - f

\* The runs p in place of run ix.
Around(runs, ix, p) ==
    SubSeq(runs, 1, ix - 1) \o p \o SubSeq(runs, ix + 1, Len(runs))

LEMMA SplitRunIs ==
    ASSUME NEW runs, NEW ix, NEW first, NEW k, NEW x, NEW f, NEW m,
           IsNth(runs, ix, first, k, f, m)
    PROVE  SplitRun(runs, ix, first, k, x) = Around(runs, ix, Pieces(m, f, runs[ix].v, x))
BY DEF SplitRun, Pieces, IsNth, Around

\* The table new has pieces in place of run i + 1, the m samples of value v
\* after the a-th; k is the f-th of them and gets the value x.
Splits(new, runs, ix, k, x, i, j, a, m, v, f) ==
    /\ i \in Nat /\ j \in Nat /\ a \in Nat /\ m \in Nat \ {0} /\ v \in Nat /\ f \in 1..m
    /\ ix = i + 1 /\ Len(runs) = i + 1 + j
    /\ a = Upto(runs, i) /\ a + m = Upto(runs, i + 1) /\ v = runs[i + 1].v /\ k = a + f
    /\ Replaces(new, runs, i, Pieces(m, f, v, x), j)
    /\ Pieces(m, f, v, x) \in Seq(RunType) /\ Len(Pieces(m, f, v, x)) \in Nat \ {0}

\* SetSampleRenderingOffset splits the run the cache names.
LEMMA SplitRunSplits ==
    ASSUME NEW runs \in Seq(RunType), NEW c, NEW k \in Nat, Hits(runs, c, k), NEW x \in Nat
    PROVE  \E i, j, a, m, v, f :
               Splits(SplitRun(runs, c.ix, c.sid, k, x), runs, c.ix, k, x, i, j, a, m, v, f)
<1>1. Len(runs) \in Nat
  BY RunIs
<1>2. PICK i \in Nat, j \in Nat : c.ix = i + 1 /\ Len(runs) = i + 1 + j
  <2>1. c.ix \in 1..Len(runs)
    BY DEF Hits
  <2> QED
    BY <1>1, <2>1, Positions
<1>3. /\ i + 1 \in 1..Len(runs) /\ i \in 0..Len(runs) /\ i + 1 \in 0..Len(runs)
      /\ c.ix - 1 = i /\ (i + 1) - 1 = i
  BY <1>2
<1>4. PICK a \in Nat, m \in Nat : a = Upto(runs, i) /\ m = runs[i + 1].n
  BY <1>3, UptoFacts, RunIs
<1>5. PICK v \in Nat : v = runs[i + 1].v
  BY <1>3, RunIs
<1>6. a + m = Upto(runs, i + 1)
  BY <1>3, <1>4, UptoFacts
<1>7. c.sid = a + 1 /\ a < k /\ k <= a + m /\ m # 0
  BY <1>2, <1>3, <1>4, <1>6 DEF Hits
<1>8. PICK f \in 1..m : k = a + f
  <2>1. k - a \in 1..m /\ k = a + (k - a)
    BY <1>7
  <2> QED
    BY <2>1
<1> DEFINE sub == [y \in 1..m |-> IF y = f THEN x ELSE v]
           p == Pieces(m, f, v, x)
           new == SubSeq(runs, 1, i) \o p \o SubSeq(runs, i + 2, i + 1 + j)
<1>9. p \in Seq(RunType) /\ Len(p) \in Nat \ {0}
  <2>1. sub[f] = x /\ (\A y \in 1..m : y # f => sub[y] = v) /\ m \in Nat \ {0}
    BY <1>7
  <2> HIDE DEF sub
  <2> QED
    BY <2>1, PiecesEncode
<1>16. SplitRun(runs, c.ix, c.sid, k, x) = new
  <2>1. PICK first \in Nat : first = a + 1
    OBVIOUS
  <2>2. PICK ix \in Nat : ix = i + 1
    OBVIOUS
  <2>3. c.ix = ix /\ c.sid = first
    BY <1>2, <1>7, <2>1, <2>2
  <2>4. runs[ix].n = m /\ runs[ix].v = v
    BY <1>4, <1>5, <2>2
  <2>5. k = first <=> f = 1
    BY <1>8, <2>1
  <2>6. k = first + m - 1 <=> f = m
    BY <1>8, <2>1
  <2>7. k - first = f - 1
    BY <1>8, <2>1
  <2>8. (first + m - 1) - k = m - f
    BY <1>8, <2>1
  <2>9. ix - 1 = i /\ ix + 1 = i + 2 /\ Len(runs) = i + 1 + j
    BY <1>2, <2>2
  <2> HIDE DEF new, p
  <2>10. SplitRun(runs, ix, first, k, x) = Around(runs, ix, Pieces(m, f, runs[ix].v, x))
    <3>1. IsNth(runs, ix, first, k, f, m)
      BY <2>4, <2>5, <2>6, <2>7, <2>8 DEF IsNth
    <3> QED
      BY <3>1, SplitRunIs
  <2> QED
    BY <2>3, <2>4, <2>9, <2>10 DEF new, p, Around
<1> HIDE DEF p
<1>17. Replaces(new, runs, i, p, j)
  BY <1>2, <1>9, PiecesAt
<1> HIDE DEF new
<1>18. Splits(new, runs, c.ix, k, x, i, j, a, m, v, f)
  <2>1. m \in Nat \ {0}
    BY <1>7
  <2> QED
    BY <1>2, <1>4, <1>5, <1>6, <1>8, <1>9, <1>17, <2>1 DEF Splits, p
<1> QED
  BY <1>16, <1>18

\* The runs before the one split stay where they are, so that the cache stays
\* right,
LEMMA SplitRunPoints ==
    ASSUME NEW runs \in Seq(RunType), NEW c, NEW k \in Nat, Hits(runs, c, k), NEW x \in Nat
    PROVE  LET new == SplitRun(runs, c.ix, c.sid, k, x)
           IN  new \in Seq(RunType) /\ Points(new, c)
<1> DEFINE new == SplitRun(runs, c.ix, c.sid, k, x)
<1>1. PICK i, j, a, m, v, f : Splits(new, runs, c.ix, k, x, i, j, a, m, v, f)
  BY SplitRunSplits
<1> HIDE DEF new
<1>2. PICK q \in Nat \ {0} : q = Len(Pieces(m, f, v, x))
  BY <1>1 DEF Splits
<1>3. /\ new \in Seq(RunType) /\ Len(new) = i + q + j /\ \A r \in 1..i : new[r] = runs[r]
      /\ i \in Nat /\ j \in Nat /\ c.ix = i + 1 /\ Len(runs) = i + 1 + j
  BY <1>1, <1>2 DEF Splits, Replaces
<1>4. i <= Len(runs) /\ i <= Len(new) /\ c.ix \in 1..Len(new) /\ c.ix - 1 = i
  BY <1>3
<1>5. Upto(new, i) = Upto(runs, i) /\ Until(new, i) = Until(runs, i)
  BY <1>3, <1>4, SameRuns
<1>6. c.sid = Upto(runs, c.ix - 1) + 1 /\ c.elapsed = Until(runs, c.ix - 1)
  BY DEF Hits
<1>7. Points(new, c)
  BY <1>4, <1>5, <1>6 DEF Points
<1> QED
  BY <1>3, <1>7 DEF new

\* and one value is replaced.
ButOne(more, vals, n, k, x) ==
    more[k] = x /\ \A y \in 1..n : y # k => more[y] = vals[y]

LEMMA SplitRunEncodes ==
    ASSUME NEW runs \in Seq(RunType), NEW vals, NEW n \in Nat, Encodes(runs, vals, n),
           NEW c, NEW k \in Nat, Hits(runs, c, k), NEW x \in Nat,
           NEW more, ButOne(more, vals, n, k, x)
    PROVE  Encodes(SplitRun(runs, c.ix, c.sid, k, x), more, n)
<1> DEFINE new == SplitRun(runs, c.ix, c.sid, k, x)
<1> HIDE DEF new
<1>0. \E i, j, a, m, v, f : Splits(new, runs, c.ix, k, x, i, j, a, m, v, f)
  BY SplitRunSplits DEF new
<1>1. PICK i \in Nat, j \in Nat, a \in Nat, m \in Nat \ {0}, v \in Nat, f \in Nat :
          f <= m /\ f > 0 /\ Splits(new, runs, c.ix, k, x, i, j, a, m, v, f)
  <2>1. PICK i, j, a, m, v, f : Splits(new, runs, c.ix, k, x, i, j, a, m, v, f)
    BY <1>0
  <2>2. i \in Nat /\ j \in Nat /\ a \in Nat /\ m \in Nat \ {0} /\ v \in Nat /\ f \in 1..m
    BY <2>1 DEF Splits
  <2> QED
    BY <2>1, <2>2, SMTT(30)
<1>2. /\ i \in Nat /\ j \in Nat /\ a \in Nat /\ m \in Nat \ {0} /\ v \in Nat /\ f \in 1..m
      /\ Len(runs) = i + 1 + j /\ a = Upto(runs, i) /\ a + m = Upto(runs, i + 1)
      /\ v = runs[i + 1].v /\ k = a + f
  BY <1>1 DEF Splits
<1> DEFINE sub == [y \in 1..m |-> more[a + y]]
           p == Pieces(m, f, v, x)
<1>3. \A y \in (a + 1)..(a + m) : vals[y] = v
  <2>1. PICK len \in Nat : len = Len(runs) /\ len = i + 1 + j
    BY <1>2
  <2>2. i + 1 \in 1..len /\ (i + 1) - 1 = i
    BY <2>1
  <2> QED
    BY <1>2, <2>1, <2>2 DEF Encodes
<1>4. a + m <= n
  <2>1. i + 1 \in 0..Len(runs) /\ Len(runs) \in 0..Len(runs) /\ i + 1 <= Len(runs)
    BY <1>2
  <2>2. Upto(runs, i + 1) <= Upto(runs, Len(runs)) /\ Upto(runs, Len(runs)) = n
    BY <2>1, UptoFacts DEF Encodes
  <2> QED
    BY <1>2, <2>2
<1>5. Patched(more, vals, n, sub, a, m)
  <2>1. \A y \in 1..m : more[a + y] = sub[y]
    OBVIOUS
  <2>2. \A y \in 1..n : y <= a \/ y > a + m => y # k
    BY <1>2
  <2> QED
    BY <2>1, <2>2 DEF Patched, ButOne
<1>6. sub[f] = x
  BY <1>2 DEF ButOne
<1>7. \A y \in 1..m : y # f => sub[y] = v
  <2> SUFFICES ASSUME NEW y \in 1..m, y # f
               PROVE  sub[y] = v
    OBVIOUS
  <2>1. PICK z \in Nat : z = a + y
    BY <1>2
  <2>2. z \in (a + 1)..(a + m) /\ z \in 1..n
    BY <1>4, <2>1
  <2>4. z # k
    BY <1>2, <2>1
  <2>3. sub[y] = more[z]
    BY <2>1
  <2> QED
    BY <1>3, <2>2, <2>3, <2>4 DEF ButOne
<1> HIDE DEF sub
<1>8. p \in Seq(RunType) /\ Encodes(p, sub, m)
  BY <1>2, <1>6, <1>7, PiecesEncode
<1>9. Replaces(new, runs, i, p, j)
  BY <1>1 DEF Splits
<1> HIDE DEF p
<1>10. Encodes(new, more, n)
  BY <1>2, <1>5, <1>8, <1>9, ReplacedRunEncodes
<1> QED
  BY <1>10 DEF new

-----------------------------------------------------------------------------
(* The types of chunk tables.                                              *)

StscType ==
    [firstChunk : Nat \ {0}, samplesPerChunk : Nat \ {0}, firstSample : Int]
ChunksType == [stsc : Seq(StscType), stco : Seq(Nat)]

\* Media m has well-typed chunk tables, and counts what is in its buffer.
Counted(m) ==
    m.chunks \in ChunksType /\ (m.buffer.bytes # << >> => m.buffer.samples # 0)

LEMMA CountedAfterFlush ==
    ASSUME NEW m, IsMedia(m), Counted(m), NEW id \in Int
    PROVE  Counted(WriteChunkBuffer(m, id))
<1>1. CASE m.buffer.bytes = << >>
  BY <1>1 DEF WriteChunkBuffer
<1>2. CASE m.buffer.bytes # << >>
  <2> DEFINE n == WriteChunkBuffer(m, id)
             old == m.chunks.stsc
             new == UpdateSampleToChunk(old, id, Len(m.chunks.stco) + 1, m.buffer.samples)
             e == [firstChunk |-> Len(m.chunks.stco) + 1,
                   samplesPerChunk |-> m.buffer.samples,
                   firstSample |-> id - m.buffer.samples + 1]
  <2>1. /\ m.buffer.samples \in Nat \ {0} /\ m.file.pos \in Nat
        /\ m.chunks.stco \in Seq(Nat) /\ old \in Seq(StscType)
    BY <1>2 DEF Counted, IsMedia, BufferType, FileType, ChunksType
  <2>2. Len(m.chunks.stco) \in Nat
    BY <2>1, LenProperties
  <2>3. e \in StscType
    BY <2>1, <2>2 DEF StscType
  <2>4. new = old \/ new = Append(old, e)
    BY DEF UpdateSampleToChunk
  <2> HIDE DEF e, old, new
  <2>5. new \in Seq(StscType)
    BY <2>1, <2>3, <2>4, AppendProperties
  <2>6. Append(m.chunks.stco, m.file.pos) \in Seq(Nat)
    BY <2>1, AppendProperties
  <2>7. /\ n.chunks = [stsc |-> new, stco |-> Append(m.chunks.stco, m.file.pos)]
        /\ n.buffer = EmptyBuffer
    BY <1>2 DEF WriteChunkBuffer, new, old
  <2> HIDE DEF n
  <2>8. Counted(n)
    BY <2>5, <2>6, <2>7 DEF Counted, ChunksType, EmptyBuffer
  <2> QED
    BY <2>8 DEF n
<1> QED
  BY <1>1, <1>2

LEMMA CountedBuffered ==
    ASSUME IInv, NEW t \in Tracks, NEW s \in Written(t), Counted(Media(t))
    PROVE  Counted(Buffered(t, s))
<1> DEFINE m == ModeFlushed(t, s)
           b == Buffered(t, s)
<1>1. /\ IsMedia(m) /\ b.chunks = m.chunks
      /\ m = Media(t) \/ m = WriteChunkBuffer(Media(t), writeId[t])
  BY BufferedIs
<1>2. b.buffer = [bytes    |-> m.buffer.bytes \o Payload(t, Len(hist[t]) + 1, s.size),
                  samples  |-> m.buffer.samples + 1,
                  duration |-> m.buffer.duration + Duration(t, s)]
  BY BufferedIs
<1>3. IsMedia(Media(t)) /\ writeId[t] \in Int
  BY MediaIsMedia DEF IInv, StateType, WriterType
<1> HIDE DEF m, b
<1>4. Counted(m)
  BY <1>1, <1>3, CountedAfterFlush
<1>5. b.buffer.samples = m.buffer.samples + 1 /\ m.buffer.samples \in Nat
  BY <1>1, <1>2 DEF IsMedia, BufferType
<1>6. Counted(b)
  BY <1>1, <1>4, <1>5 DEF Counted
<1> QED
  BY <1>6 DEF b

\* The field firstSample is not in the file; it is recomputed by counting.
LEMMA RereadType ==
    ASSUME NEW c \in ChunksType
    PROVE  Reread(c) \in ChunksType
<1> DEFINE stsc == c.stsc
           samplesOf == [j \in 1..(Len(stsc) - 1) |->
                           (stsc[j + 1].firstChunk - stsc[j].firstChunk)
                           * stsc[j].samplesPerChunk]
           new == [i \in 1..Len(stsc) |->
                     [stsc[i] EXCEPT !.firstSample =
                         1 + SumFunctionOnSet(samplesOf, 1..(i - 1))]]
<1>1. stsc \in Seq(StscType) /\ c.stco \in Seq(Nat) /\ Len(stsc) \in Nat
  BY LenProperties DEF ChunksType
<1>2. \A i \in 1..Len(stsc) : stsc[i] \in StscType
  BY <1>1, ElementOfSeq
<1>3. Reread(c) = [stsc |-> new, stco |-> c.stco]
  BY DEF Reread, ReadStsc
<1> HIDE DEF stsc
<1>4. ASSUME NEW j \in 1..(Len(stsc) - 1)
      PROVE  samplesOf[j] \in Int
  <2>1. j \in 1..Len(stsc) /\ j + 1 \in 1..Len(stsc)
    BY <1>1
  <2>2. /\ stsc[j].firstChunk \in Int /\ stsc[j + 1].firstChunk \in Int
        /\ stsc[j].samplesPerChunk \in Int
    BY <1>2, <2>1 DEF StscType
  <2> QED
    BY <2>2
<1> HIDE DEF samplesOf
<1>5. ASSUME NEW i \in 1..Len(stsc)
      PROVE  [stsc[i] EXCEPT !.firstSample = 1 + SumFunctionOnSet(samplesOf, 1..(i - 1))]
                 \in StscType
  <2>1. IsFiniteSet(1..(i - 1))
    BY IntervalFinite
  <2>2. \A j \in 1..(i - 1) : samplesOf[j] \in Int
    BY <1>1, <1>4
  <2>3. SumFunctionOnSet(samplesOf, 1..(i - 1)) \in Int
    BY <2>1, <2>2, SumType
  <2> QED
    BY <1>2, <2>3 DEF StscType
<1>6. new \in Seq(StscType)
  BY <1>1, <1>5, IsASeq
<1> HIDE DEF new
<1> QED
  BY <1>1, <1>3, <1>6 DEF ChunksType

LEMMA StepCounted ==
    ASSUME IInv, NEW t \in Tracks, Counted(Media(t)), MediaStep(t)
    PROVE  Counted(Media(t))'
<1>1. /\ IsMedia(Media(t)) /\ writeId[t] \in Int /\ Media(t).chunks = chunks[t]
  BY MediaIsMedia DEF IInv, StateType, WriterType, Media
<1>2. ASSUME NEW m, Became(t, m), Counted(m)
      PROVE  Counted(Media(t))'
  BY <1>2 DEF Became, Counted, Media
<1>3. CASE Stays(t)
  BY <1>2, <1>3 DEF Stays
<1>4. CASE Flushes(t)
  BY <1>1, <1>2, <1>4, CountedAfterFlush DEF Flushes
<1>5. CASE Reopens(t)
  <2>1. Reread(chunks[t]) \in ChunksType
    BY <1>1, RereadType DEF Counted
  <2>2. EmptyBuffer.bytes = << >>
    BY DEF EmptyBuffer
  <2> QED
    BY <1>5, <2>1, <2>2 DEF Reopens, Counted, Media
<1>6. CASE \E s \in Written(t) : Writes(t, s)
  <2>1. PICK s \in Written(t) : Writes(t, s)
    BY <1>6
  <2>2. Counted(Buffered(t, s)) /\ IsMedia(Buffered(t, s))
    BY CountedBuffered, BufferedIs
  <2> QED
    BY <1>1, <1>2, <2>1, <2>2, CountedAfterFlush DEF Writes
<1> QED
  BY <1>3, <1>4, <1>5, <1>6 DEF MediaStep
-----------------------------------------------------------------------------
(* The types of caches and of rendering offsets.                           *)

LocationType == [chunk : Nat, sid : Nat, offset : Nat]
OffsetsType  == [present : BOOLEAN, runs : Seq(RunType)]
LookupsType  == [stts : CacheType, ctts : CacheType, sfo : LocationType]

LEMMA SizeIs ==
    ASSUME NEW z \in SizesType, NEW k
    PROVE  GetSampleSize(z, k, BytesPerSample) \in Nat \cup {THROWN}
<1>1. BytesPerSample \in Nat /\ z.fixed \in Nat /\ z.sizes \in Seq(Nat)
  BY TrackAssumption DEF SizesType
<1>2. \A i \in 1..Len(z.sizes) : z.sizes[i] \in Nat
  BY <1>1, ElementOfSeq
<1>3. \A a \in Nat : a * BytesPerSample \in Nat
  BY <1>1
<1> QED
  BY <1>1, <1>2, <1>3 DEF GetSampleSize

LEMMA GetSampleStscIndexType ==
    ASSUME NEW stsc \in Seq(StscType), NEW k \in Nat,
           GetSampleStscIndex(stsc, k) # THROWN
    PROVE  GetSampleStscIndex(stsc, k) \in 1..Len(stsc)
<1> DEFINE later == {i \in 1..Len(stsc) : k < stsc[i].firstSample}
<1>1. Len(stsc) \in Nat /\ (stsc # << >> => Len(stsc) # 0)
  BY LenProperties, EmptySeq
<1>2. GetSampleStscIndex(stsc, k)
      = IF stsc = << >> \/ 1 \in later THEN THROWN
        ELSE IF later = {} THEN Len(stsc) ELSE Min(later) - 1
  BY DEF GetSampleStscIndex
<1>3. stsc # << >> /\ 1 \notin later
  BY <1>2
<1>4. CASE later = {}
  BY <1>1, <1>2, <1>3, <1>4
<1>5. CASE later # {}
  <2>1. later \subseteq Nat /\ later \subseteq 1..Len(stsc)
    BY <1>1
  <2>2. Min(later) \in later
    BY <1>5, <2>1, MinIsSmallest
  <2>3. Min(later) \in 1..Len(stsc) /\ Min(later) # 1
    BY <1>3, <2>1, <2>2
  <2> QED
    BY <1>1, <1>2, <1>3, <1>5, <2>3
<1> QED
  BY <1>4, <1>5

LEMMA LocatedType ==
    ASSUME NEW c \in ChunksType, NEW z \in SizesType, NEW old \in LocationType,
           NEW k \in Nat, NEW fileSize
    PROVE  GetSampleFileOffset(c, z, old, k, BytesPerSample, fileSize).cache \in LocationType
<1> DEFINE index == GetSampleStscIndex(c.stsc, k)
           entry == c.stsc[index]
           nth   == k - entry.firstSample
           chunk == entry.firstChunk + nth \div entry.samplesPerChunk
           hit   == LocatedBefore(old, chunk, k)
           from  == IF hit THEN old.sid ELSE k - (nth % entry.samplesPerChunk)
           size(s) == GetSampleSize(z, s, BytesPerSample)
           offset  == (IF hit THEN old.offset ELSE 0)
                      + SumFunction([s \in from..(k - 1) |-> size(s)])
           at == c.stco[chunk] + offset
           got == GetSampleFileOffset(c, z, old, k, BytesPerSample, fileSize)
<1>1. got = IF index = THROWN THEN [at |-> THROWN, cache |-> old]
            ELSE IF chunk \notin 1..Len(c.stco) THEN [at |-> THROWN, cache |-> old]
            ELSE IF \E s \in from..(k - 1) : size(s) = THROWN
                 THEN [at |-> THROWN, cache |-> old]
            ELSE [at    |-> IF at > fileSize THEN THROWN ELSE at,
                  cache |-> [chunk |-> chunk, sid |-> k, offset |-> offset]]
  BY DEF GetSampleFileOffset
<1>2. CASE index # THROWN /\ chunk \in 1..Len(c.stco)
           /\ \A s \in from..(k - 1) : size(s) # THROWN
  <2>1. chunk \in Nat
    BY <1>2
  <2>2. old.offset \in Nat /\ old.sid \in Nat
    BY DEF LocationType
  <2>3. index \in 1..Len(c.stsc)
    BY <1>2, GetSampleStscIndexType DEF ChunksType
  <2>4. entry \in StscType
    BY <2>3, ElementOfSeq DEF ChunksType
  <2>5. entry.firstSample \in Int /\ entry.samplesPerChunk \in Nat \ {0}
    BY <2>4 DEF StscType
  <2> HIDE DEF index, entry
  <2>6. from \in Int
    <3>1. nth \in Int
      BY <2>5
    <3>2. nth % entry.samplesPerChunk \in Int
      BY <2>5, <3>1
    <3> QED
      BY <2>2, <3>2
  <2> DEFINE f == [s \in from..(k - 1) |-> size(s)]
  <2>7. \A s \in from..(k - 1) : f[s] \in Nat
    BY <1>2, SizeIs
  <2> HIDE DEF chunk, from
  <2>8. IsFiniteSet(from..(k - 1)) /\ DOMAIN f = from..(k - 1)
    <3>1. k - 1 \in Int
      OBVIOUS
    <3>2. IsFiniteSet(from..(k - 1))
      BY <2>6, <3>1, IntervalFinite
    <3> QED
      BY <3>2
  <2> HIDE DEF f
  <2>9. SumFunction(f) \in Nat
    BY <2>7, <2>8, SumOfNats DEF SumFunction
  <2>10. offset \in Nat
    BY <2>2, <2>9 DEF f
  <2> HIDE DEF offset, hit, size, at
  <2>11. got.cache = [chunk |-> chunk, sid |-> k, offset |-> offset]
    BY <1>1, <1>2
  <2> QED
    BY <2>1, <2>10, <2>11 DEF LocationType
<1>3. CASE ~ (index # THROWN /\ chunk \in 1..Len(c.stco)
              /\ \A s \in from..(k - 1) : size(s) # THROWN)
  <2> HIDE DEF index, chunk, from, size, at, offset
  <2>1. got.cache = old
    BY <1>1, <1>3
  <2> QED
    BY <2>1
<1> QED
  BY <1>2, <1>3

-----------------------------------------------------------------------------
(* What the calls leave of tables and caches.                              *)

\* A table that is not there is empty.
OffsetsRight(c) == c \in OffsetsType /\ (~c.present => c.runs = << >>)

\* The cache c is right for the times and the offsets given.
CachesRight(times, shifts, c) ==
    c \in LookupsType /\ Points(times, c.stts) /\ Points(shifts, c.ctts)

LEMMA NoSidPoints ==
    ASSUME NEW c, Points(<< >>, c), NEW runs
    PROVE  Points(runs, c)
<1>1. 1..Len(<< >>) = {}
  BY EmptySeq
<1> QED
  BY <1>1 DEF Points

LEMMA TimesCache ==
    ASSUME NEW runs \in Seq(RunType), NEW old \in CacheType, Points(runs, old),
           NEW k \in Nat \ {0}
    PROVE  /\ GetSampleTimes(runs, old, k).cache \in CacheType
           /\ Points(runs, GetSampleTimes(runs, old, k).cache)
<1> DEFINE at == FindRun(runs, old, k)
<1>1. at.cache \in CacheType /\ Points(runs, at.cache)
  BY FindRunIs
<1>2. GetSampleTimes(runs, old, k).cache = at.cache
  BY DEF GetSampleTimes
<1> QED
  BY <1>1, <1>2

LEMMA OffsetCache ==
    ASSUME NEW c, OffsetsRight(c), NEW old \in CacheType, Points(c.runs, old),
           NEW k \in Nat \ {0}
    PROVE  /\ GetSampleRenderingOffset(c, old, k).cache \in CacheType
           /\ Points(c.runs, GetSampleRenderingOffset(c, old, k).cache)
<1> DEFINE at == FindRun(c.runs, old, k)
<1>1. c.runs \in Seq(RunType)
  BY DEF OffsetsRight, OffsetsType
<1>2. at.cache \in CacheType /\ Points(c.runs, at.cache)
  BY <1>1, FindRunIs
<1>3. GetSampleRenderingOffset(c, old, k).cache \in {old, at.cache}
  BY DEF GetSampleRenderingOffset
<1> HIDE DEF at
<1> QED
  BY <1>2, <1>3

LEMMA UpdateRenderingOffsetsRight ==
    ASSUME NEW c, OffsetsRight(c), NEW id \in Nat, NEW x \in Nat
    PROVE  /\ OffsetsRight(UpdateRenderingOffsets(c, id, x))
           /\ \A old : Points(c.runs, old) => Points(UpdateRenderingOffsets(c, id, x).runs, old)
<1> DEFINE earlier == IF c.present \/ id <= 1 THEN c.runs ELSE << Run(id - 1, 0) >>
           new == UpdateRenderingOffsets(c, id, x)
<1>1. c.runs \in Seq(RunType)
  BY DEF OffsetsRight, OffsetsType
<1>2. CASE ~c.present /\ x = 0
  BY <1>2 DEF UpdateRenderingOffsets
<1>3. CASE c.present \/ x # 0
  <2>1. new = [present |-> TRUE, runs |-> AppendRun(earlier, x)]
    BY <1>3 DEF UpdateRenderingOffsets
  <2>2. earlier \in Seq(RunType)
    <3>1. ASSUME id > 1
          PROVE  << Run(id - 1, 0) >> \in Seq(RunType)
      <4>1. Run(id - 1, 0) \in RunType
        BY <3>1 DEF Run, RunType
      <4> QED
        BY <4>1
    <3> QED
      BY <1>1, <3>1
  <2>3. c.present => earlier = c.runs
    OBVIOUS
  <2> HIDE DEF earlier, new
  <2>4. /\ AppendRun(earlier, x) \in Seq(RunType) /\ Len(earlier) <= Len(AppendRun(earlier, x))
        /\ \A r \in 1..(Len(earlier) - 1) : AppendRun(earlier, x)[r] = earlier[r]
    BY <2>2, AppendRunExtends
  <2>5. OffsetsRight(new)
    BY <2>1, <2>4 DEF OffsetsRight, OffsetsType
  <2>6. ASSUME NEW old, Points(c.runs, old)
        PROVE  Points(AppendRun(earlier, x), old)
    <3>1. CASE c.present
      <4>1. Points(earlier, old)
        BY <2>3, <2>6, <3>1
      <4> QED
        BY <2>2, <2>4, <4>1, PointsKept
    <3>2. CASE ~c.present
      BY <2>6, <3>2, NoSidPoints DEF OffsetsRight
    <3> QED
      BY <3>1, <3>2
  <2> QED
    BY <2>1, <2>5, <2>6 DEF new
<1> QED
  BY <1>2, <1>3

LEMMA SetSampleRenderingOffsetRight ==
    ASSUME NEW c, OffsetsRight(c), NEW old \in CacheType, Points(c.runs, old),
           NEW count \in Nat, NEW k \in 1..count, NEW x \in Nat
    PROVE  LET set == SetSampleRenderingOffset(c, old, k, x, count)
           IN  /\ OffsetsRight(set.ctts) /\ set.cache \in CacheType
               /\ Points(set.ctts.runs, set.cache)
<1> DEFINE set == SetSampleRenderingOffset(c, old, k, x, count)
           new == UpdateRenderingOffsets(c, k, x)
           after == count - k
           at == FindRun(c.runs, old, k)
<1>1. c.runs \in Seq(RunType) /\ k \in Nat \ {0} /\ after \in Nat
  BY DEF OffsetsRight, OffsetsType
<1>2. OffsetsRight(new)
  BY <1>1, UpdateRenderingOffsetsRight
<1>3. CASE ~c.present \/ c.runs = << >>
  <2>1. set.cache = old /\ set.ctts = IF after # 0 /\ new.present
                                      THEN [new EXCEPT !.runs = Append(@, Run(after, 0))]
                                      ELSE new
    BY <1>3 DEF SetSampleRenderingOffset
  <2>2. Points(set.ctts.runs, old)
    BY <1>3, NoSidPoints DEF OffsetsRight
  <2>3. after # 0 /\ new.present => OffsetsRight([new EXCEPT !.runs = Append(@, Run(after, 0))])
    <3> HIDE DEF new, after
    <3>1. Run(after, 0) \in RunType
      BY <1>1 DEF Run, RunType
    <3>2. new.present \in BOOLEAN /\ new.runs \in Seq(RunType)
      BY <1>2 DEF OffsetsRight, OffsetsType
    <3>3. Append(new.runs, Run(after, 0)) \in Seq(RunType)
      BY <3>1, <3>2
    <3>4. [new EXCEPT !.runs = Append(@, Run(after, 0))] \in OffsetsType
      BY <1>2, <3>3 DEF OffsetsRight, OffsetsType
    <3> QED
      BY <1>2, <3>4 DEF OffsetsRight, OffsetsType
  <2> HIDE DEF set, new, after
  <2> QED
    BY <1>2, <2>1, <2>2, <2>3 DEF set
<1>4. CASE c.present /\ c.runs # << >>
  <2>1. /\ at.cache \in CacheType /\ Points(c.runs, at.cache)
        /\ at.found => Hits(c.runs, at.cache, k)
    BY <1>1, FindRunIs
  <2>2. /\ set.cache = at.cache
        /\ set.ctts = IF ~at.found \/ c.runs[at.cache.ix].v = x THEN c
                      ELSE [c EXCEPT !.runs = SplitRun(@, at.cache.ix, at.cache.sid, k, x)]
    BY <1>4 DEF SetSampleRenderingOffset
  <2> HIDE DEF at
  <2>3. CASE ~at.found \/ c.runs[at.cache.ix].v = x
    BY <2>1, <2>2, <2>3
  <2>4. CASE ~(~at.found \/ c.runs[at.cache.ix].v = x)
    <3> DEFINE split == SplitRun(c.runs, at.cache.ix, at.cache.sid, k, x)
    <3>1. split \in Seq(RunType) /\ Points(split, at.cache)
      <4>1. Hits(c.runs, at.cache, k)
        BY <2>1, <2>4
      <4> QED
        BY <1>1, <4>1, SplitRunPoints
    <3>2. set.ctts = [c EXCEPT !.runs = split]
      BY <2>2, <2>4
    <3> HIDE DEF split, set
    <3>3. set.ctts \in OffsetsType /\ set.ctts.runs = split /\ set.ctts.present
      BY <1>4, <3>1, <3>2 DEF OffsetsRight, OffsetsType
    <3>4. OffsetsRight(set.ctts)
      BY <3>3 DEF OffsetsRight
    <3> QED
      BY <2>1, <2>2, <3>1, <3>3, <3>4 DEF set
  <2> QED
    BY <2>3, <2>4
<1> QED
  BY <1>3, <1>4

-----------------------------------------------------------------------------
(* What a step does to one track's tables and caches.                      *)

LookedUp(t) ==
    /\ OffsetsRight(ctts[t]) /\ CachesRight(stts[t], ctts[t].runs, cache[t])
    /\ Counted(Media(t))

TablesAre ==
    /\ ctts = [t \in Tracks |-> ctts[t]] /\ cache = [t \in Tracks |-> cache[t]]
    /\ chunks = [t \in Tracks |-> chunks[t]]

LookupInv == TablesAre /\ \A t \in Tracks : LookedUp(t)

\* The tables stay, except that Modify starts counting anew.
Keeps(t) ==
    /\ stsz'[t] = stsz[t] /\ stts'[t] = stts[t] /\ ctts'[t] = ctts[t] /\ stss'[t] = stss[t]
    /\ hist'[t] = hist[t] /\ CachesRight(stts[t], ctts[t].runs, cache'[t])
    /\ session' = session => writeId'[t] = writeId[t]
    /\ perChunk'[t] \in {perChunk[t], TimeScale} \cup ChunkDurations
    /\ mediaDuration'[t] = mediaDuration[t]

\* The sample counts, unless its call fails.
Records(t, s) ==
    /\ stsz'[t] = UpdateSampleSizes(stsz[t], writeId[t], s.size, BytesPerSample)
    /\ stts'[t] = AppendRun(stts[t], Duration(t, s))
    /\ ctts'[t] = UpdateRenderingOffsets(ctts[t], writeId[t], s.offset)
    /\ stss'[t] = UpdateSyncSamples(stss[t], writeId[t], s.sync, stsz[t].count + 1)
    /\ hist'[t] = Append(hist[t], SampleOf(t, s)) /\ cache'[t] = cache[t]
    /\ \/ /\ writeId'[t] = writeId[t] + 1
          /\ mediaDuration'[t] = mediaDuration[t] + Duration(t, s)
       \/ perChunk[t] = 0 \/ faults' # 0
    /\ perChunk'[t] = perChunk[t]

Corrects(t, k, x) ==
    LET set == SetSampleRenderingOffset(ctts[t], cache[t].ctts, k, x, stsz[t].count)
    IN  /\ stsz'[t] = stsz[t] /\ stts'[t] = stts[t] /\ stss'[t] = stss[t]
        /\ ctts'[t] = set.ctts /\ cache'[t] = [cache[t] EXCEPT !.ctts = set.cache]
        /\ hist'[t] = [hist[t] EXCEPT ![k].offset = x]
        /\ writeId'[t] = writeId[t] /\ perChunk'[t] = perChunk[t]
        /\ mediaDuration'[t] = mediaDuration[t]

TableStep(t) ==
    \/ Keeps(t)
    \/ \E s \in Written(t) : Records(t, s)
    \/ \E k \in SampleIds(t), x \in Offsets : Corrects(t, k, x)

\* No call takes a failure or a session back.
CountersGrow == (faults' = 0 => faults = 0) /\ (session' = 1 => session = 1)

LEMMA ExceptIs ==
    ASSUME NEW S, NEW f, f = [x \in S |-> f[x]], NEW t \in S, NEW v
    PROVE  /\ [f EXCEPT ![t] = v] = [x \in S |-> [f EXCEPT ![t] = v][x]]
           /\ \A x \in S : [f EXCEPT ![t] = v][x] = IF x = t THEN v ELSE f[x]
<1>1. DOMAIN f = S
  OBVIOUS
<1> QED
  BY <1>1

LEMMA SetMediaAre ==
    ASSUME TablesAre, NEW t \in Tracks, NEW n, SetMedia(t, n)
    PROVE  chunks' = [x \in Tracks |-> chunks'[x]]
BY ExceptIs DEF TablesAre, SetMedia

LEMMA TablesKept ==
    ASSUME LookupInv, UNCHANGED << tables, writeId, hist, mediaDuration >>, NEW u \in Tracks,
           CachesRight(stts[u], ctts[u].runs, cache'[u]),
           perChunk'[u] \in {perChunk[u], TimeScale} \cup ChunkDurations
    PROVE  TableStep(u)
BY DEF TableStep, Keeps, tables

LEMMA NotFaulted ==
    ASSUME IInv, WriteFault \/ UNCHANGED faults
    PROVE  faults' = 0 => faults = 0
BY DEF WriteFault, IInv, StateType, WriterType

LEMMA WriteTables ==
    ASSUME IInv, LookupInv, NEW t \in Tracks, NEW s \in Written(t),
           WriteSample(t, s) \/ WriteSampleThrows(t, s)
    PROVE  CountersGrow /\ TablesAre' /\ \A u \in Tracks : TableStep(u)
<1>1. /\ DOMAIN stsz = Tracks /\ DOMAIN stts = Tracks /\ DOMAIN stss = Tracks
      /\ DOMAIN hist = Tracks /\ DOMAIN writeId = Tracks /\ DOMAIN perChunk = Tracks
      /\ DOMAIN ctts = Tracks /\ DOMAIN mediaDuration = Tracks
  BY DEF IInv, StateType, WriterType, LookupInv, TablesAre
<1>2. /\ RecordSample(t, s) /\ UNCHANGED << cache, session, perChunk >>
      /\ WriteFault \/ UNCHANGED faults
      /\ \/ /\ writeId' = [writeId EXCEPT ![t] = @ + 1]
            /\ mediaDuration' = [mediaDuration EXCEPT ![t] = mediaDuration[t] + Duration(t, s)]
         \/ /\ writeId' = writeId /\ mediaDuration' = mediaDuration
            /\ perChunk[t] = 0 \/ WriteFault
      /\ \E n : SetMedia(t, n)
  BY DEF WriteSample, WriteSampleThrows, call, UpdateDurations, durations
<1>3. CountersGrow
  BY <1>2, NotFaulted DEF CountersGrow
<1>4. WriteFault => faults' # 0
  BY DEF WriteFault, IInv, StateType, WriterType
<1>5. Records(t, s)
  <2>1. /\ stsz'[t] = UpdateSampleSizes(stsz[t], writeId[t], s.size, BytesPerSample)
        /\ stts'[t] = AppendRun(stts[t], Duration(t, s))
        /\ ctts'[t] = UpdateRenderingOffsets(ctts[t], writeId[t], s.offset)
        /\ stss'[t] = UpdateSyncSamples(stss[t], writeId[t], s.sync, stsz[t].count + 1)
        /\ hist'[t] = Append(hist[t], SampleOf(t, s))
    BY <1>1, <1>2 DEF RecordSample, SampleOf
  <2>2. \/ /\ writeId'[t] = writeId[t] + 1
           /\ mediaDuration'[t] = mediaDuration[t] + Duration(t, s)
        \/ perChunk[t] = 0 \/ faults' # 0
    BY <1>1, <1>2, <1>4
  <2> QED
    BY <1>2, <2>1, <2>2 DEF Records
<1>6. ASSUME NEW u \in Tracks, u # t
      PROVE  Keeps(u)
  <2>1. /\ stsz'[u] = stsz[u] /\ stts'[u] = stts[u] /\ ctts'[u] = ctts[u] /\ stss'[u] = stss[u]
        /\ hist'[u] = hist[u] /\ writeId'[u] = writeId[u]
        /\ mediaDuration'[u] = mediaDuration[u]
    BY <1>1, <1>2, <1>6 DEF RecordSample
  <2> QED
    BY <1>2, <2>1 DEF Keeps, LookupInv, LookedUp
<1>7. TablesAre'
  <2>1. ctts' = [x \in Tracks |-> ctts'[x]]
    BY <1>2, ExceptIs DEF RecordSample, LookupInv, TablesAre
  <2>2. chunks' = [x \in Tracks |-> chunks'[x]]
    BY <1>2, SetMediaAre DEF LookupInv
  <2> QED
    BY <1>2, <2>1, <2>2 DEF LookupInv, TablesAre
<1> QED
  BY <1>3, <1>5, <1>6, <1>7 DEF TableStep

LEMMA SetOffsetTables ==
    ASSUME IInv, LookupInv, NEW t \in Tracks, NEW k \in SampleIds(t), NEW x \in Offsets,
           SetOffset(t, k, x)
    PROVE  CountersGrow /\ TablesAre' /\ \A u \in Tracks : TableStep(u)
<1> DEFINE set == SetSampleRenderingOffset(ctts[t], cache[t].ctts, k, x, stsz[t].count)
<1>1. /\ DOMAIN hist = Tracks /\ DOMAIN ctts = Tracks /\ DOMAIN cache = Tracks
  BY DEF IInv, StateType, WriterType, LookupInv, TablesAre
<1>2. /\ UNCHANGED << stsz, stts, stss, chunks, writeId, perChunk, session, faults,
                      mediaDuration >>
      /\ ctts' = [ctts EXCEPT ![t] = set.ctts]
      /\ cache' = [cache EXCEPT ![t].ctts = set.cache]
      /\ hist' = [hist EXCEPT ![t][k].offset = x]
  BY DEF SetOffset, writer, durations
<1> HIDE DEF set
<1>3. /\ ctts'[t] = set.ctts /\ cache'[t] = [cache[t] EXCEPT !.ctts = set.cache]
      /\ hist'[t] = [hist[t] EXCEPT ![k].offset = x]
  BY <1>1, <1>2
<1>4. Corrects(t, k, x)
  BY <1>2, <1>3 DEF Corrects, set
<1>5. ASSUME NEW u \in Tracks, u # t
      PROVE  Keeps(u)
  <2>1. ctts'[u] = ctts[u] /\ cache'[u] = cache[u] /\ hist'[u] = hist[u]
    BY <1>1, <1>2, <1>5
  <2> QED
    BY <1>2, <2>1 DEF Keeps, LookupInv, LookedUp
<1>6. TablesAre'
  <2>1. ctts' = [y \in Tracks |-> ctts'[y]]
    BY <1>2, ExceptIs DEF LookupInv, TablesAre
  <2>2. cache' = [cache EXCEPT ![t] = [cache[t] EXCEPT !.ctts = set.cache]]
    BY <1>2
  <2>3. cache' = [y \in Tracks |-> cache'[y]]
    BY <2>2, ExceptIs DEF LookupInv, TablesAre
  <2> QED
    BY <1>2, <2>1, <2>3 DEF LookupInv, TablesAre
<1> QED
  BY <1>2, <1>4, <1>5, <1>6 DEF TableStep, CountersGrow

\* A read or a lookup leaves other caches, right ones.
LEMMA LookTables ==
    ASSUME IInv, LookupInv, NEW t \in Tracks, NEW k \in SampleIds(t),
           ReadSample(t, k) \/ LookUpSample(t, k)
    PROVE  CountersGrow /\ TablesAre' /\ \A u \in Tracks : TableStep(u)
<1> DEFINE times == GetSampleTimes(stts[t], cache[t].stts, k)
           off   == GetSampleRenderingOffset(ctts[t], cache[t].ctts, k)
           loc   == Locate(ReadMedia(t, k), t, k)
<1>1. /\ stts[t] \in Seq(RunType) /\ stsz[t] \in SizesType /\ k \in Nat \ {0}
  BY DEF IInv, StateType, WriterType, SizesType, SampleIds
<1>2. LookedUp(t) /\ cache[t] \in LookupsType
  BY DEF LookupInv, LookedUp, CachesRight
<1>3. cache[t].stts \in CacheType /\ cache[t].ctts \in CacheType /\ cache[t].sfo \in LocationType
  BY <1>2 DEF LookupsType
<1>4. times.cache \in CacheType /\ Points(stts[t], times.cache)
  BY <1>1, <1>2, <1>3, TimesCache DEF LookedUp, CachesRight
<1>5. off.cache \in CacheType /\ Points(ctts[t].runs, off.cache)
  BY <1>1, <1>2, <1>3, OffsetCache DEF LookedUp, CachesRight
<1>6. loc.cache \in LocationType
  <2>1. IsMedia(Media(t)) /\ writeId[t] \in Int
    BY MediaIsMedia DEF IInv, StateType, WriterType
  <2>2. Counted(ReadMedia(t, k))
    BY <1>2, <2>1, CountedAfterFlush DEF ReadMedia, LookedUp
  <2>3. ReadMedia(t, k).chunks \in ChunksType
    BY <2>2 DEF Counted
  <2> QED
    BY <1>1, <1>3, <2>3, LocatedType DEF Locate
<1> HIDE DEF times, off, loc
<1>7. /\ UNCHANGED << tables, writeId, perChunk, hist, session, faults, mediaDuration >>
      /\ UNCHANGED chunks \/ \E n : SetMedia(t, n)
  BY DEF ReadSample, LookUpSample, writer, call, durations
<1>8. PICK c : cache' = [cache EXCEPT ![t] = c] /\ CachesRight(stts[t], ctts[t].runs, c)
  <2>1. CASE ReadSample(t, k)
    <3>1. PICK a \in {cache[t].stts, times.cache}, b \in {cache[t].ctts, off.cache} :
              cache' = [cache EXCEPT ![t] = [sfo |-> loc.cache, stts |-> a, ctts |-> b]]
      BY <2>1 DEF ReadSample, times, off, loc
    <3>2. CachesRight(stts[t], ctts[t].runs, [sfo |-> loc.cache, stts |-> a, ctts |-> b])
      BY <1>2, <1>3, <1>4, <1>5, <1>6 DEF LookedUp, CachesRight, LookupsType
    <3> QED
      BY <3>1, <3>2
  <2>2. CASE LookUpSample(t, k)
    <3>1. \/ cache' = [cache EXCEPT ![t] = [cache[t] EXCEPT !.stts = times.cache]]
          \/ cache' = [cache EXCEPT ![t] = [cache[t] EXCEPT !.ctts = off.cache]]
      BY <2>2 DEF LookUpSample, times, off
    <3>2. CachesRight(stts[t], ctts[t].runs, [cache[t] EXCEPT !.stts = times.cache])
      BY <1>2, <1>4 DEF LookedUp, CachesRight, LookupsType
    <3>3. CachesRight(stts[t], ctts[t].runs, [cache[t] EXCEPT !.ctts = off.cache])
      BY <1>2, <1>5 DEF LookedUp, CachesRight, LookupsType
    <3> QED
      BY <3>1, <3>2, <3>3
  <2> QED
    BY <2>1, <2>2
<1>9. ASSUME NEW u \in Tracks
      PROVE  TableStep(u)
  <2>1. DOMAIN cache = Tracks
    BY DEF LookupInv, TablesAre
  <2>2. (cache'[u] = c /\ u = t) \/ cache'[u] = cache[u]
    BY <1>8, <2>1
  <2>3. CachesRight(stts[u], ctts[u].runs, cache'[u])
    BY <1>8, <2>2 DEF LookupInv, LookedUp
  <2> QED
    BY <1>7, <2>3, TablesKept
<1>10. TablesAre'
  <2>1. cache' = [y \in Tracks |-> cache'[y]]
    BY <1>8, ExceptIs DEF LookupInv, TablesAre
  <2>2. chunks' = [y \in Tracks |-> chunks'[y]]
    BY <1>7, SetMediaAre DEF LookupInv, TablesAre
  <2>3. ctts' = ctts
    BY <1>7 DEF tables
  <2> QED
    BY <2>1, <2>2, <2>3 DEF LookupInv, TablesAre
<1> QED
  BY <1>7, <1>9, <1>10 DEF CountersGrow

\* A call that changes neither tables nor caches.
LEMMA NotTables ==
    ASSUME IInv, LookupInv,
           UNCHANGED << tables, writeId, hist, cache, session, mediaDuration >>,
           WriteFault \/ UNCHANGED faults,
           UNCHANGED chunks \/ \E t \in Tracks : \E n : SetMedia(t, n),
           \A u \in Tracks : perChunk'[u] \in {perChunk[u], TimeScale} \cup ChunkDurations
    PROVE  CountersGrow /\ TablesAre' /\ \A u \in Tracks : TableStep(u)
<1>1. CountersGrow
  BY NotFaulted DEF CountersGrow
<1>2. chunks' = [y \in Tracks |-> chunks'[y]]
  BY SetMediaAre DEF LookupInv, TablesAre
<1>3. TablesAre'
  BY <1>2 DEF LookupInv, TablesAre, tables
<1>4. ASSUME NEW u \in Tracks
      PROVE  TableStep(u)
  <2>1. CachesRight(stts[u], ctts[u].runs, cache'[u])
    BY DEF LookupInv, LookedUp
  <2> QED
    BY <2>1, TablesKept
<1> QED
  BY <1>1, <1>3, <1>4

-----------------------------------------------------------------------------
(* Every step, and the theorems.                                           *)


LEMMA ModifyTables ==
    ASSUME IInv, LookupInv, Modify
    PROVE  CountersGrow /\ TablesAre' /\ \A u \in Tracks : TableStep(u)
<1>1. /\ UNCHANGED << tables, hist, faults, mediaDuration >> /\ session' = session + 1
      /\ cache' = [t \in Tracks |-> NoLookups]
      /\ chunks' = [t \in Tracks |-> Reread(chunks[t])]
      /\ perChunk' = [t \in Tracks |-> TimeScale]
  BY DEF Modify, durations
<1>2. session \in Nat /\ session # 0
  BY DEF IInv, StateType, WriterType
<1>3. CountersGrow
  BY <1>1, <1>2 DEF CountersGrow
<1>4. TablesAre'
  BY <1>1 DEF LookupInv, TablesAre, tables
<1>5. ASSUME NEW u \in Tracks
      PROVE  TableStep(u)
  <2>1. NoLookups \in LookupsType
    BY DEF NoLookups, LookupsType, NoCache, NoLocation, CacheType, LocationType,
           INVALID_SAMPLE_ID
  <2>2. CachesRight(stts[u], ctts[u].runs, cache'[u])
    BY <1>1, <2>1 DEF CachesRight, Points, NoLookups, NoCache
  <2>3. session' # session
    BY <1>1, <1>2
  <2> QED
    BY <1>1, <2>2, <2>3 DEF TableStep, Keeps, tables
<1> QED
  BY <1>3, <1>4, <1>5

\* What any step does to the tables of every track.
LEMMA EveryTableStep ==
    ASSUME IInv, LookupInv, [Next]_vars
    PROVE  CountersGrow /\ TablesAre' /\ \A u \in Tracks : TableStep(u)
<1> DEFINE Fine == CountersGrow /\ TablesAre' /\ \A u \in Tracks : TableStep(u)
<1> SUFFICES Fine
  OBVIOUS
<1>1. ASSUME NEW t \in Tracks, NEW s \in Written(t),
             WriteSample(t, s) \/ WriteSampleThrows(t, s)
      PROVE  Fine
  BY <1>1, WriteTables
<1>2. ASSUME NEW t \in Tracks, NEW s \in Written(t), ModeFlushThrows(t, s)
      PROVE  Fine
  BY <1>2, NotTables DEF ModeFlushThrows, writer, call, durations
<1>3. ASSUME NEW t \in Tracks, NEW d \in ChunkDurations, SetDurationPerChunk(t, d)
      PROVE  Fine
  <2>1. perChunk \in [Tracks -> Nat] /\ perChunk' = [perChunk EXCEPT ![t] = d]
    BY <1>3 DEF SetDurationPerChunk, IInv, StateType, WriterType
  <2>2. \A u \in Tracks : perChunk'[u] \in {perChunk[u], TimeScale} \cup ChunkDurations
    BY <2>1
  <2> QED
    BY <1>3, <2>2, NotTables DEF SetDurationPerChunk, call, durations
<1>4. ASSUME NEW t \in Tracks, NEW k \in SampleIds(t), ReadSample(t, k) \/ LookUpSample(t, k)
      PROVE  Fine
  BY <1>4, LookTables
<1>5. ASSUME NEW t \in Tracks, NEW k \in SampleIds(t), ReadSampleThrows(t, k)
      PROVE  Fine
  BY <1>5, NotTables DEF ReadSampleThrows, writer, call, durations
<1>6. ASSUME NEW t \in Tracks, NEW k \in SampleIds(t), NEW x \in Offsets, SetOffset(t, k, x)
      PROVE  Fine
  BY <1>6, SetOffsetTables
<1>7. CASE FinishTrack \/ FinishTrackThrows
  <2>1. next \in Tracks
    BY <1>7, CountsAssumption DEF FinishTrack, FinishTrackThrows, IInv, StateType, WriterType,
                                  Tracks
  <2> QED
    BY <1>7, <2>1, NotTables DEF FinishTrack, FinishTrackThrows, writer, durations
<1>8. CASE FinishFile
  BY <1>8, NotTables DEF FinishFile, writer, durations
<1>9. CASE Modify
  BY <1>9, ModifyTables
<1>10. CASE UNCHANGED vars
  BY <1>10, NotTables DEF vars, writer, call, durations
<1> HIDE DEF Fine
<1> QED
  BY <1>1, <1>2, <1>3, <1>4, <1>5, <1>6, <1>7, <1>8, <1>9, <1>10 DEF Next

\* The samples of a step are well typed.
LEMMA StepSample ==
    ASSUME IInv, NEW t \in Tracks, NEW s \in Written(t)
    PROVE  /\ Duration(t, s) \in Nat /\ SampleOf(t, s) \in SampleType /\ s.offset \in Nat
           /\ SampleOf(t, s).duration = Duration(t, s) /\ SampleOf(t, s).offset = s.offset
           /\ SampleOf(t, s).sync = s.sync /\ s.sync \in BOOLEAN
<1>1. s \in Samples /\ s \in [size : Nat, duration : Nat \cup {FIXED}, offset : Nat,
                              sync : BOOLEAN, mode : Nat]
  BY WrittenType
<1>2. Duration(t, s) \in Nat /\ SampleOf(t, s) \in SampleType
  BY <1>1, DurationType DEF IInv, StateType, SampleOf
<1> QED
  BY <1>1, <1>2 DEF SampleOf

LEMMA StepLookedUp ==
    ASSUME IInv, LookupInv, NEW t \in Tracks, TableStep(t), MediaStep(t)
    PROVE  LookedUp(t)'
<1>1. Counted(Media(t))'
  BY StepCounted DEF LookupInv, LookedUp
<1>2. /\ stts[t] \in Seq(RunType) /\ stsz[t] \in SizesType /\ stsz[t].count \in Nat
      /\ writeId[t] \in Nat
      /\ OffsetsRight(ctts[t]) /\ CachesRight(stts[t], ctts[t].runs, cache[t])
  BY DEF IInv, StateType, WriterType, SizesType, LookupInv, LookedUp
<1> SUFFICES OffsetsRight(ctts'[t]) /\ CachesRight(stts'[t], ctts'[t].runs, cache'[t])
  BY <1>1 DEF LookedUp
<1>3. CASE Keeps(t)
  BY <1>2, <1>3 DEF Keeps
<1>4. ASSUME NEW s \in Written(t), Records(t, s)
      PROVE  OffsetsRight(ctts'[t]) /\ CachesRight(stts'[t], ctts'[t].runs, cache'[t])
  <2>1. Duration(t, s) \in Nat /\ s.offset \in Nat
    BY StepSample
  <2>2. OffsetsRight(ctts'[t]) /\ Points(ctts'[t].runs, cache[t].ctts)
    BY <1>2, <1>4, <2>1, UpdateRenderingOffsetsRight, ZenonT(30) DEF Records, CachesRight
  <2>3. Points(stts'[t], cache[t].stts)
    BY <1>2, <1>4, <2>1, AppendRunExtends, PointsKept DEF Records, CachesRight
  <2> QED
    BY <1>2, <1>4, <2>2, <2>3 DEF Records, CachesRight
<1>5. ASSUME NEW k \in SampleIds(t), NEW x \in Offsets, Corrects(t, k, x)
      PROVE  OffsetsRight(ctts'[t]) /\ CachesRight(stts'[t], ctts'[t].runs, cache'[t])
  <2> DEFINE set == SetSampleRenderingOffset(ctts[t], cache[t].ctts, k, x, stsz[t].count)
  <2>1. k \in 1..stsz[t].count /\ x \in Nat /\ cache[t].ctts \in CacheType
        /\ Points(ctts[t].runs, cache[t].ctts)
    BY <1>2, SampleAssumption DEF SampleIds, CachesRight, LookupsType
  <2>2. OffsetsRight(set.ctts) /\ set.cache \in CacheType /\ Points(set.ctts.runs, set.cache)
    BY <1>2, <2>1, SetSampleRenderingOffsetRight
  <2> HIDE DEF set
  <2>3. /\ stts'[t] = stts[t] /\ ctts'[t] = set.ctts
        /\ cache'[t] = [cache[t] EXCEPT !.ctts = set.cache]
    BY <1>5 DEF Corrects, set
  <2>4. /\ cache'[t] \in LookupsType /\ cache'[t].stts = cache[t].stts
        /\ cache'[t].ctts = set.cache
    BY <1>2, <2>2, <2>3 DEF CachesRight, LookupsType
  <2> QED
    BY <1>2, <2>2, <2>3, <2>4 DEF CachesRight
<1> QED
  BY <1>3, <1>4, <1>5 DEF TableStep

LEMMA NextLookupInv == IInv /\ LookupInv /\ [Next]_vars => LookupInv'
<1> SUFFICES ASSUME IInv, LookupInv, [Next]_vars
             PROVE  LookupInv'
  OBVIOUS
<1>1. TablesAre' /\ \A u \in Tracks : TableStep(u)
  BY EveryTableStep
<1>2. \A u \in Tracks : MediaStep(u)
  BY EveryStep
<1>3. \A u \in Tracks : LookedUp(u)'
  BY <1>1, <1>2, StepLookedUp
<1> QED
  BY <1>1, <1>3 DEF LookupInv

LEMMA InitLookupInv == Init => LookupInv
<1> SUFFICES ASSUME Init
             PROVE  LookupInv
  OBVIOUS
<1>1. TablesAre
  BY DEF Init, TablesAre
<1>2. ASSUME NEW t \in Tracks
      PROVE  LookedUp(t)
  <2>1. ctts[t] = NoOffsets /\ cache[t] = NoLookups /\ buffer[t] = EmptyBuffer
        /\ chunks[t] = [stsc |-> << >>, stco |-> << >>]
    BY DEF Init
  <2>2. OffsetsRight(ctts[t])
    BY <2>1 DEF OffsetsRight, OffsetsType, NoOffsets
  <2>3. NoLookups \in LookupsType
    BY DEF NoLookups, LookupsType, NoCache, NoLocation, CacheType, LocationType,
           INVALID_SAMPLE_ID
  <2>4. CachesRight(stts[t], ctts[t].runs, cache[t])
    BY <2>1, <2>3 DEF CachesRight, Points, NoLookups, NoCache
  <2>5. Counted(Media(t))
    BY <2>1 DEF Counted, Media, ChunksType, EmptyBuffer
  <2> QED
    BY <2>2, <2>4, <2>5 DEF LookedUp
<1> QED
  BY <1>1, <1>2 DEF LookupInv

LEMMA LookupInvariant == Spec => [](IInv /\ LookupInv)
<1>1. Init => IInv /\ LookupInv
  BY InitIInv, InitLookupInv
<1>2. IInv /\ LookupInv /\ [Next]_vars => (IInv /\ LookupInv)'
  BY NextIInv, NextLookupInv
<1> QED
  BY <1>1, <1>2, PTL DEF Spec

LEMMA LookupInvTypes == IInv /\ LookupInv => TypeOK
<1> SUFFICES ASSUME IInv, LookupInv
             PROVE  LookupType
  BY DEF TypeOK, IInv
<1>1. ASSUME NEW t \in Tracks
      PROVE  /\ ctts[t] \in OffsetsType /\ cache[t] \in LookupsType /\ chunks[t] \in ChunksType
  BY DEF LookupInv, LookedUp, OffsetsRight, CachesRight, Counted, Media
<1>2. ctts \in [Tracks -> OffsetsType] /\ cache \in [Tracks -> LookupsType]
      /\ chunks \in [Tracks -> ChunksType]
  BY <1>1 DEF LookupInv, TablesAre
<1> QED
  BY <1>2 DEF LookupType, OffsetsType, LookupsType, ChunksType, StscType, LocationType

\* Every variable has its type, the caches and chunk tables included, in which
\* sums over the tables end up.
THEOREM TypeCorrect == Spec => []TypeOK
BY LookupInvariant, LookupInvTypes, PTL

-----------------------------------------------------------------------------
(* What the tables answer when they stand for the values written.          *)

\* What dividing by s finds.
LEMMA Division ==
    ASSUME NEW m \in Nat, NEW s \in Nat \ {0}
    PROVE  \E q \in Nat, r \in Nat : /\ q = m \div s /\ r = m % s
                                     /\ m = q * s + r /\ r < s
<1>1. m \div s \in Nat
  BY QuotientBounds
<1>2. m = s * (m \div s) + (m % s) /\ m % s \in 0..(s - 1)
  OBVIOUS
<1>3. s * (m \div s) = (m \div s) * s
  BY <1>1
<1> QED
  BY <1>1, <1>2, <1>3

\* The quotient is less than e, when the dividend is less than e divisors.
LEMMA QuotientBelow ==
    ASSUME NEW s \in Nat \ {0}, NEW q \in Nat, NEW r \in Nat, r < s, NEW e \in Nat,
           q * s + r < e * s
    PROVE  q < e
<1> SUFFICES ASSUME e <= q PROVE FALSE
  OBVIOUS
<1>1. PICK d \in Nat : q = e + d
  <2>1. q - e \in Nat /\ q = e + (q - e)
    OBVIOUS
  <2> QED
    BY <2>1
<1>2. e * s \in Nat /\ e * s <= q * s
  BY <1>1, ProductMonotonic
<1> QED
  BY <1>2

LEMMA EncodesSame ==
    ASSUME NEW runs \in Seq(RunType), NEW vals, NEW n \in Nat, Encodes(runs, vals, n),
           NEW more, \A k \in 1..n : more[k] = vals[k]
    PROVE  Encodes(runs, more, n)
<1> SUFFICES ASSUME NEW r \in 1..Len(runs), NEW k \in (Upto(runs, r - 1) + 1)..Upto(runs, r)
             PROVE  more[k] = runs[r].v
  BY DEF Encodes
<1>1. Len(runs) \in Nat
  BY RunIs
<1>2. r - 1 \in 0..Len(runs) /\ r \in 0..Len(runs) /\ Len(runs) \in 0..Len(runs)
  BY <1>1
<1>3. Upto(runs, r - 1) \in Nat /\ Upto(runs, r) \in Nat /\ Upto(runs, r) <= n
  BY <1>2, UptoFacts DEF Encodes
<1>4. k \in 1..n
  BY <1>3
<1> QED
  BY <1>4 DEF Encodes

LEMMA NoRunsEncode ==
    ASSUME NEW vals
    PROVE  Encodes(<< >>, vals, 0)
<1>1. << >> \in Seq(RunType) /\ Len(<< >>) = 0
  OBVIOUS
<1>2. Upto(<< >>, 0) = 0
  BY <1>1, UptoFacts
<1>3. 1..0 = {}
  OBVIOUS
<1> QED
  BY <1>1, <1>2, <1>3 DEF Encodes

LEMMA OneRunEncodes ==
    ASSUME NEW n \in Nat \ {0}, NEW x \in Nat, NEW vals, \A k \in 1..n : vals[k] = x
    PROVE  << Run(n, x) >> \in Seq(RunType) /\ Encodes(<< Run(n, x) >>, vals, n)
<1> DEFINE run == Run(n, x)
           new == << run >>
<1>1. run \in RunType /\ run.n = n /\ run.v = x
  BY DEF Run, RunType
<1> HIDE DEF run
<1>2. new \in Seq(RunType) /\ Len(new) = 1 /\ new[1] = run
  BY <1>1
<1> HIDE DEF new
<1>3. Upto(new, 0) = 0 /\ Upto(new, 1) = Upto(new, 0) + new[1].n
  <2>1. 1 \in 1..Len(new) /\ 1 - 1 = 0
    BY <1>2
  <2> QED
    BY <1>2, <2>1, UptoFacts
<1>4. Upto(new, 1) = n
  BY <1>1, <1>2, <1>3
<1>5. ASSUME NEW r \in 1..Len(new)
      PROVE  /\ new[r].n # 0
             /\ \A k \in (Upto(new, r - 1) + 1)..Upto(new, r) : vals[k] = new[r].v
  <2>1. r = 1 /\ r - 1 = 0
    BY <1>2
  <2> QED
    BY <1>1, <1>2, <1>3, <1>4, <2>1
<1>6. Encodes(new, vals, n)
  BY <1>2, <1>4, <1>5 DEF Encodes
<1> QED
  BY <1>2, <1>6 DEF new, run

\* A run of a samples with value x added to a table.
LEMMA AddedRunEncodes ==
    ASSUME NEW runs \in Seq(RunType), NEW vals, NEW m \in Nat, Encodes(runs, vals, m),
           NEW a \in Nat \ {0}, NEW x \in Nat,
           \A k \in (m + 1)..(m + a) : vals[k] = x
    PROVE  /\ Append(runs, Run(a, x)) \in Seq(RunType)
           /\ Encodes(Append(runs, Run(a, x)), vals, m + a)
<1> DEFINE last == Run(a, x)
           new == Append(runs, last)
<1>1. last \in RunType /\ last.n = a /\ last.v = x
  BY DEF Run, RunType
<1> HIDE DEF last
<1>2. PICK len \in Nat \ {0} : len = Len(runs) + 1 /\ len - 1 = Len(runs)
  <2>1. Len(runs) \in Nat
    BY RunIs
  <2> QED
    BY <2>1
<1>3. /\ new \in Seq(RunType) /\ Len(new) = len /\ new[len] = last
      /\ \A r \in 1..(len - 1) : new[r] = runs[r]
  BY <1>1, <1>2, AppendProperties
<1> HIDE DEF new
<1>4. Upto(runs, len - 1) = m
  BY <1>2 DEF Encodes
<1>5. PICK n \in Nat : n = m + a
  OBVIOUS
<1>6. /\ len - 1 <= Len(runs) /\ new[len].v = x /\ new[len].n # 0
      /\ Upto(runs, len - 1) + new[len].n = n
  BY <1>1, <1>2, <1>3, <1>4, <1>5
<1>7. /\ \A k \in 1..Upto(runs, len - 1) : vals[k] = vals[k]
      /\ \A k \in (Upto(runs, len - 1) + 1)..n : vals[k] = x
  BY <1>4, <1>5
<1>8. Encodes(new, vals, n)
  BY <1>2, <1>3, <1>6, <1>7, LastRunEncodes
<1> QED
  BY <1>3, <1>5, <1>8 DEF new, last

\* The time of the first m samples of run h, and of the samples before.
Passed(runs, vals, h, m) ==
    SumFunctionOnSet(vals, 1..(Upto(runs, h - 1) + m)) = Until(runs, h - 1) + m * runs[h].v

LEMMA TimeInto ==
    ASSUME NEW runs \in Seq(RunType), NEW vals, NEW n \in Nat, Encodes(runs, vals, n),
           \A k \in 1..n : vals[k] \in Nat,
           NEW h \in 1..Len(runs), NEW m \in Nat, m <= runs[h].n
    PROVE  Passed(runs, vals, h, m)
<1>1. Len(runs) \in Nat
  BY RunIs
<1>2. h - 1 \in 0..Len(runs) /\ h \in 0..Len(runs) /\ Len(runs) \in 0..Len(runs)
  BY <1>1
<1>3. PICK a \in Nat, v \in Nat, c \in Nat :
          /\ a = Upto(runs, h - 1) /\ v = runs[h].v /\ c = runs[h].n
          /\ Upto(runs, h) = a + c /\ a + c <= n
  <2>1. Upto(runs, h) = Upto(runs, h - 1) + runs[h].n /\ Upto(runs, h) <= n
    BY <1>2, UptoFacts DEF Encodes
  <2>2. Upto(runs, h - 1) \in Nat /\ runs[h].v \in Nat /\ runs[h].n \in Nat
    BY <1>2, RunIs, UptoFacts
  <2> QED
    BY <2>1, <2>2
<1>4. Same(vals, a, a + m, v)
  BY <1>3 DEF Encodes, Same
<1>5. SumFunctionOnSet(vals, (a + 1)..(a + m)) = m * v
  <2>1. PICK e \in Nat : e = a + m /\ a <= e /\ e - a = m
    OBVIOUS
  <2>2. Steady(vals, a, e, v)
    BY <1>4, <2>1, SumOfSame
  <2> QED
    BY <2>1, <2>2 DEF Steady
<1>6. Until(runs, h - 1) = SumFunctionOnSet(vals, 1..a)
  BY <1>2, <1>3, UntilIsTime
<1>7. SumFunctionOnSet(vals, 1..(a + m))
      = SumFunctionOnSet(vals, 1..a) + SumFunctionOnSet(vals, (a + 1)..(a + m))
  <2>1. \A j \in 1..(a + m) : vals[j] \in Int
    BY <1>3
  <2>2. a \in Int /\ a + m \in Int /\ 1 <= a + 1 /\ a <= a + m
    OBVIOUS
  <2> QED
    BY <2>1, <2>2, SumOfParts
<1> QED
  BY <1>3, <1>5, <1>6, <1>7 DEF Passed

\* GetSampleTimes answers with the sum of the durations before the sample and
\* with its own.
LEMMA TimesAnswer ==
    ASSUME NEW runs \in Seq(RunType), NEW vals, NEW n \in Nat, Encodes(runs, vals, n),
           \A k \in 1..n : vals[k] \in Nat,
           NEW old \in CacheType, Points(runs, old), NEW k \in 1..n
    PROVE  /\ GetSampleTimes(runs, old, k).start = SumFunctionOnSet(vals, 1..(k - 1))
           /\ GetSampleTimes(runs, old, k).duration = vals[k]
<1> DEFINE at == FindRun(runs, old, k)
           got == GetSampleTimes(runs, old, k)
<1>1. k \in Nat \ {0} /\ k <= Upto(runs, Len(runs))
  BY DEF Encodes
<1>2. at.found /\ Hits(runs, at.cache, k)
  BY <1>1, FindRunIs
<1>3. /\ got.start = (k - at.cache.sid) * runs[at.cache.ix].v + at.cache.elapsed
      /\ got.duration = runs[at.cache.ix].v
  BY <1>2 DEF GetSampleTimes
<1> HIDE DEF at, got
<1>4. PICK q \in 1..Len(runs) :
          /\ q = at.cache.ix /\ at.cache.sid = Upto(runs, q - 1) + 1
          /\ at.cache.elapsed = Until(runs, q - 1)
          /\ Upto(runs, q - 1) < k /\ k <= Upto(runs, q)
  BY <1>2 DEF Hits
<1>5. Len(runs) \in Nat
  BY RunIs
<1>6. q - 1 \in 0..Len(runs) /\ q \in 0..Len(runs)
  BY <1>5
<1>7. PICK a \in Nat, v \in Nat, b \in Nat :
          a = Upto(runs, q - 1) /\ v = runs[q].v /\ b = Upto(runs, q)
  BY <1>6, RunIs, UptoFacts
<1>8. \A j \in (a + 1)..b : vals[j] = v
  BY <1>7 DEF Encodes
<1>9. k \in (a + 1)..b /\ a <= k - 1
  BY <1>4, <1>7
<1>10. PICK m \in Nat : m = k - 1 - a /\ k - 1 = a + m /\ m <= runs[q].n
  <2>1. b = a + runs[q].n /\ runs[q].n \in Nat
    BY <1>7, RunIs, UptoFacts
  <2>2. k - 1 - a \in Nat /\ k - 1 = a + (k - 1 - a) /\ k - 1 - a <= runs[q].n
    BY <1>9, <2>1
  <2> QED
    BY <2>2
<1>11. Passed(runs, vals, q, m)
  BY <1>10, TimeInto
<1>12. SumFunctionOnSet(vals, 1..(k - 1)) = Until(runs, q - 1) + m * v
  BY <1>7, <1>10, <1>11 DEF Passed
<1>13. got.start = m * v + Until(runs, q - 1)
  <2>1. k - at.cache.sid = m
    BY <1>4, <1>7, <1>10
  <2> QED
    BY <1>3, <1>4, <1>7, <2>1
<1>14. got.start = SumFunctionOnSet(vals, 1..(k - 1))
  <2>1. m * v \in Int /\ Until(runs, q - 1) \in Int
    BY <1>6, UntilFacts
  <2> QED
    BY <1>12, <1>13, <2>1
<1>15. got.duration = vals[k]
  BY <1>3, <1>4, <1>7, <1>8, <1>9
<1> QED
  BY <1>14, <1>15 DEF got

\* Sample k of n is one that the time lies in.
LiesIn(when, vals, n, k) ==
    /\ k \in 1..n
    /\ SumFunctionOnSet(vals, 1..(k - 1)) <= when /\ when <= SumFunctionOnSet(vals, 1..k)

\* A time in run h, which is not the end of the last run, lies in a sample.
LEMMA TimeInRun ==
    ASSUME NEW runs \in Seq(RunType), NEW vals, NEW n \in Nat, Encodes(runs, vals, n),
           \A k \in 1..n : vals[k] \in Nat,
           NEW h \in 1..Len(runs), runs[h].v # 0, NEW when \in Nat,
           Until(runs, h - 1) <= when, when <= Until(runs, h),
           when < Until(runs, Len(runs))
    PROVE  LiesIn(when, vals, n,
                  Upto(runs, h - 1) + 1 + (when - Until(runs, h - 1)) \div runs[h].v)
<1>1. Len(runs) \in Nat
  BY RunIs
<1>2. h - 1 \in 0..Len(runs) /\ h \in 0..Len(runs) /\ Len(runs) \in 0..Len(runs)
  BY <1>1
<1>3. PICK a \in Nat, v \in Nat \ {0}, c \in Nat, u \in Nat, all \in Nat :
          /\ a = Upto(runs, h - 1) /\ v = runs[h].v /\ c = runs[h].n
          /\ Upto(runs, h) = a + c /\ a + c <= n
          /\ u = Until(runs, h - 1) /\ all = runs[h].n * runs[h].v
          /\ Until(runs, h) = u + all
  <2>1. Upto(runs, h) = Upto(runs, h - 1) + runs[h].n /\ Upto(runs, h) <= n
    BY <1>2, UptoFacts DEF Encodes
  <2>2. Until(runs, h) = Until(runs, h - 1) + runs[h].n * runs[h].v
    BY UntilFacts
  <2>3. Upto(runs, h - 1) \in Nat /\ runs[h].v \in Nat /\ runs[h].n \in Nat
        /\ Until(runs, h - 1) \in Nat
    BY <1>2, RunIs, UptoFacts, UntilFacts
  <2>4. runs[h].n * runs[h].v \in Nat
    BY <2>3
  <2> QED
    BY <2>1, <2>2, <2>3, <2>4
<1>4. PICK m \in Nat : m = when - u /\ when = u + m
  <2>1. u <= when
    BY <1>3
  <2>2. when - u \in Nat /\ when = u + (when - u)
    BY <2>1
  <2> QED
    BY <2>2
<1>5. PICK q \in Nat, r \in Nat : q = m \div v /\ m = q * v + r /\ r < v
  BY Division
<1>6. PICK part \in Nat, k \in Nat :
          part = q * v /\ when = u + part + r /\ k = a + 1 + q /\ k - 1 = a + q
  <2>1. PICK part \in Nat : part = q * v
    <3>1. q * v \in Nat
      OBVIOUS
    <3> QED
      BY <3>1
  <2>2. when = u + part + r
    BY <1>4, <1>5, <2>1
  <2>3. a + 1 + q \in Nat /\ (a + 1 + q) - 1 = a + q
    OBVIOUS
  <2> QED
    BY <2>1, <2>2, <2>3
<1> DEFINE before == SumFunctionOnSet(vals, 1..(k - 1))
           after  == SumFunctionOnSet(vals, 1..k)
<1>7. \A j \in Nat : j <= c => Passed(runs, vals, h, j)
  BY <1>3, TimeInto
<1>8. ASSUME k \in 1..n, before <= when, when <= after
       PROVE  LiesIn(when, vals, n, a + 1 + m \div v)
  <2>1. k = a + 1 + m \div v
    BY <1>5, <1>6
  <2>2. LiesIn(when, vals, n, k)
    BY <1>8 DEF LiesIn
  <2> QED
    BY <2>1, <2>2
<1>9. CASE q < c
  <2>1. k \in 1..n
    <3>1. a + c <= n /\ k = a + 1 + q
      BY <1>3, <1>6
    <3> QED
      BY <1>9, <3>1
  <2>2. Passed(runs, vals, h, q) /\ Passed(runs, vals, h, q + 1)
    <3>1. q \in Nat /\ q + 1 \in Nat /\ q <= c /\ q + 1 <= c
      BY <1>9
    <3> QED
      BY <1>7, <3>1
  <2>3. before = u + part
    BY <1>3, <1>6, <2>2 DEF Passed
  <2>4. (q + 1) * v = part + v
    BY <1>6
  <2>5. after = u + part + v
    <3>1. a + (q + 1) = k /\ u + (q + 1) * v = u + part + v
      BY <1>6, <2>4
    <3> QED
      BY <1>3, <2>2, <3>1 DEF Passed
  <2>6. when = u + part + r /\ r < v
    BY <1>5, <1>6
  <2> HIDE DEF before, after
  <2>7. before <= when /\ when <= after
    BY <2>3, <2>5, <2>6
  <2> QED
    BY <1>3, <1>4, <1>8, <2>1, <2>7
<1>10. CASE c <= q
  <2>1. all <= part
    <3>1. PICK d \in Nat : q = c + d
      <4>1. q - c \in Nat /\ q = c + (q - c)
        BY <1>10
      <4> QED
        BY <4>1
    <3>2. all = c * v /\ part = q * v
      BY <1>3, <1>6
    <3> QED
      BY <3>1, <3>2, ProductMonotonic
  <2>2. all = part /\ r = 0 /\ when = u + all
    <3>1. when <= u + all /\ when = u + part + r
      BY <1>3, <1>6
    <3> QED
      BY <2>1, <3>1
  <2>3. c = q
    <3> SUFFICES ASSUME c < q PROVE FALSE
      BY <1>10
    <3>1. PICK d \in Nat, e \in Nat : q = e + d /\ e = c + 1
      <4>1. q - (c + 1) \in Nat /\ q = (c + 1) + (q - (c + 1)) /\ c + 1 \in Nat
        OBVIOUS
      <4> QED
        BY <4>1
    <3>2. e * v <= part
      BY <1>6, <3>1, ProductMonotonic
    <3>3. PICK p \in Nat : p = e * v /\ p = all + v
      <4>1. all = c * v
        BY <1>3
      <4>2. e * v = all + v /\ all + v \in Nat
        BY <3>1, <4>1
      <4> QED
        BY <4>2
    <3>4. p <= all
      BY <2>2, <3>2, <3>3
    <3> QED
      BY <3>3, <3>4
  <2>4. h < Len(runs)
    <3>1. when < Until(runs, Len(runs)) /\ when = Until(runs, h)
      BY <1>3, <2>2
    <3>2. Until(runs, h) \in Nat
      BY <1>2, UntilFacts
    <3>3. h # Len(runs)
      BY <3>1, <3>2
    <3> QED
      BY <1>1, <3>3, SMTT(30)
  <2>5. PICK g \in 1..Len(runs) : g = h + 1 /\ g - 1 = h /\ g \in 0..Len(runs)
    BY <1>1, <2>4
  <2>6. a + c + 1 <= n
    <3>1. Upto(runs, g) = Upto(runs, h) + runs[g].n /\ Upto(runs, g) <= n
      <4>1. Upto(runs, g) = Upto(runs, g - 1) + runs[g].n
        BY UptoFacts
      <4>2. Upto(runs, g) <= Upto(runs, Len(runs))
        BY <1>2, <2>5, UptoFacts
      <4> QED
        BY <2>5, <4>1, <4>2 DEF Encodes
    <3>2. runs[g].n \in Nat \ {0}
      BY RunIs DEF Encodes
    <3>3. Upto(runs, h) = a + c
      BY <1>3
    <3> QED
      BY <3>1, <3>2, <3>3
  <2>7. k \in 1..n
    <3>1. k = a + 1 + q
      BY <1>6
    <3> QED
      BY <2>3, <2>6, <3>1
  <2>8. before = when
    <3>1. Passed(runs, vals, h, q)
      BY <1>7, <2>3
    <3>2. before = u + part
      BY <1>3, <1>6, <3>1 DEF Passed
    <3> QED
      BY <2>2, <3>2
  <2>9. before <= after
    <3>1. /\ 1 \in Int /\ k - 1 <= k /\ k - 1 \in Int /\ k \in Int
          /\ \A j \in 1..k : vals[j] \in Nat
      BY <2>7
    <3> HIDE DEF before, after
    <3>2. SumFunctionOnSet(vals, 1..(k - 1)) <= SumFunctionOnSet(vals, 1..k)
      BY <3>1, SumGrows
    <3> QED
      BY <3>2 DEF before, after
  <2> HIDE DEF before, after
  <2> QED
    BY <1>3, <1>4, <1>8, <2>7, <2>8, <2>9
<1> QED
  BY <1>9, <1>10

\* GetSampleIdFromTime finds a sample the time lies in, and starts from it.
Found(runs, tbl, when, vals, n) ==
    \E k \in 1..n :
        /\ LiesIn(when, vals, n, k)
        /\ GetSampleIdFromTime(runs, tbl, when, FALSE) = k
        /\ GetSampleIdFromTime(runs, tbl, when, TRUE) = GetNextSyncSample(tbl, k)

LEMMA TimeAnswer ==
    ASSUME NEW runs \in Seq(RunType), NEW vals, NEW n \in Nat, Encodes(runs, vals, n),
           \A k \in 1..n : vals[k] \in Nat,
           NEW when \in Nat, when < SumFunctionOnSet(vals, 1..n), NEW tbl
    PROVE  Found(runs, tbl, when, vals, n)
<1> DEFINE into(r) == when - TimeIn(runs, 1, r - 1)
           hits == {r \in 1..Len(runs) : into(r) <= runs[r].n * runs[r].v}
           hit  == Min(hits)
           sampleId == SamplesIn(runs, 1, hit - 1) + 1
                       + (IF runs[hit].v = 0 THEN 0 ELSE into(hit) \div runs[hit].v)
<1>1. Len(runs) \in Nat
  BY RunIs
<1>2. \A r \in 1..Len(runs) : r - 1 \in 0..Len(runs) /\ r \in 0..Len(runs)
  BY <1>1
<1>3. \A r \in 1..Len(runs) : r \in hits <=> when <= Until(runs, r)
  <2> SUFFICES ASSUME NEW r \in 1..Len(runs)
               PROVE  r \in hits <=> when <= Until(runs, r)
    OBVIOUS
  <2>1. PICK u \in Nat, p \in Nat :
            /\ u = Until(runs, r - 1) /\ p = runs[r].n * runs[r].v
            /\ Until(runs, r) = u + p
    <3>1. runs[r].n * runs[r].v \in Nat
      BY RunIs
    <3> QED
      BY <1>2, <3>1, UntilFacts
  <2>2. r \in hits <=> when - u <= p
    BY <2>1 DEF Until
  <2> QED
    BY <2>1, <2>2
<1>4. when < Until(runs, Len(runs))
  <2>1. Len(runs) \in 0..Len(runs) /\ Upto(runs, Len(runs)) = n
    BY <1>1 DEF Encodes
  <2> QED
    BY <2>1, UntilIsTime
<1>5. Len(runs) \in 1..Len(runs)
  <2>1. Len(runs) # 0
    BY <1>4, UntilFacts
  <2> QED
    BY <1>1, <2>1
<1>6. Len(runs) \in hits
  <2>1. Until(runs, Len(runs)) \in Nat
    BY <1>2, <1>5, UntilFacts
  <2> HIDE DEF hits
  <2> QED
    BY <1>3, <1>4, <1>5, <2>1
<1>7. PICK h \in 1..Len(runs) : h = hit /\ h \in hits /\ \A r \in hits : h <= r
  <2>1. hits \subseteq 1..Len(runs) /\ hits \subseteq Nat /\ hits # {}
    BY <1>6
  <2> HIDE DEF hits
  <2> QED
    BY <2>1, MinIsSmallest
<1> DEFINE id == Upto(runs, h - 1) + 1
                 + (IF runs[h].v = 0 THEN 0 ELSE (when - Until(runs, h - 1)) \div runs[h].v)
<1>8. /\ GetSampleIdFromTime(runs, tbl, when, FALSE) = id
      /\ GetSampleIdFromTime(runs, tbl, when, TRUE) = GetNextSyncSample(tbl, id)
  <2>1. sampleId = id
    <3> HIDE DEF hits
    <3> QED
      BY <1>7 DEF Upto, Until
  <2>2. hits # {}
    BY <1>6
  <2>3. /\ GetSampleIdFromTime(runs, tbl, when, FALSE) = sampleId
        /\ GetSampleIdFromTime(runs, tbl, when, TRUE) = GetNextSyncSample(tbl, sampleId)
    BY <2>2, Zenon DEF GetSampleIdFromTime
  <2> HIDE DEF sampleId, id
  <2> QED
    BY <2>1, <2>3
<1> HIDE DEF hits, hit, sampleId
<1>9. PICK u \in Nat, w \in Nat, a \in Nat :
          /\ u = Until(runs, h - 1) /\ w = Until(runs, h) /\ a = Upto(runs, h - 1)
          /\ when <= w
  BY <1>2, <1>3, <1>7, UntilFacts, UptoFacts
<1>10. h # 1 => u < when
  <2> SUFFICES ASSUME h # 1
               PROVE  u < when
    OBVIOUS
  <2>1. PICK g \in 1..Len(runs) : g = h - 1 /\ g < h
    BY <1>1
  <2>2. g \notin hits
    BY <1>1, <1>7, <2>1
  <2>3. ~(when <= Until(runs, g))
    BY <1>3, <2>2
  <2> QED
    BY <1>9, <2>1, <2>3
<1>11. h = 1 => u = 0 /\ a = 0
  <2>1. Until(runs, 0) = 0 /\ Upto(runs, 0) = 0
    BY UntilFacts, UptoFacts
  <2> QED
    BY <1>9, <2>1
<1>12. u <= when
  BY <1>9, <1>10, <1>11
<1>13. LiesIn(when, vals, n, id)
  <2>1. CASE runs[h].v # 0
    <3>1. id = Upto(runs, h - 1) + 1 + (when - Until(runs, h - 1)) \div runs[h].v
      BY <2>1
    <3> HIDE DEF id
    <3> QED
      BY <1>4, <1>9, <1>12, <2>1, <3>1, TimeInRun
  <2>2. CASE runs[h].v = 0
    <3>1. w = u
      <4>1. Until(runs, h) = Until(runs, h - 1) + runs[h].n * runs[h].v
        BY UntilFacts
      <4>2. runs[h].n * runs[h].v = 0
        BY <2>2, RunIs
      <4> QED
        BY <1>9, <4>1, <4>2
    <3>2. h = 1 /\ when = 0
      BY <1>9, <1>10, <1>11, <3>1
    <3>3. id = 1
      BY <1>9, <1>11, <2>2, <3>2
    <3>4. 1 \in 1..n
      <4>1. Upto(runs, h) = a + runs[h].n
        BY <1>9, UptoFacts
      <4>2. Upto(runs, h) <= Upto(runs, Len(runs))
        BY <1>2, <1>5, UptoFacts
      <4>3. runs[h].n \in Nat \ {0} /\ Upto(runs, Len(runs)) = n
        BY RunIs DEF Encodes
      <4> QED
        BY <4>1, <4>2, <4>3
    <3>5. SumFunctionOnSet(vals, 1..(1 - 1)) = 0
      BY SumOfEmptyInterval
    <3>6. SumFunctionOnSet(vals, 1..1) \in Nat
      <4>1. 1 \in Int /\ 1 <= 1 /\ \A j \in 1..1 : vals[j] \in Nat
        BY <3>4
      <4> QED
        BY <4>1, SumGrows
    <3>7. LiesIn(when, vals, n, 1)
      BY <3>2, <3>4, <3>5, <3>6 DEF LiesIn
    <3> QED
      BY <3>3, <3>7
  <2> QED
    BY <2>1, <2>2
<1>14. id \in 1..n
  BY <1>13 DEF LiesIn
<1> HIDE DEF id
<1> QED
  BY <1>8, <1>13, <1>14 DEF Found

\* Table c gives the first n samples the offsets vals.
OffsetsSay(c, vals, n) ==
    IF c.present THEN Encodes(c.runs, vals, n) ELSE \A k \in 1..n : vals[k] = 0

LEMMA OffsetAnswer ==
    ASSUME NEW c, OffsetsRight(c), NEW vals, NEW n \in Nat, OffsetsSay(c, vals, n),
           NEW old \in CacheType, Points(c.runs, old), NEW k \in 1..n
    PROVE  GetSampleRenderingOffset(c, old, k).offset = vals[k]
<1>1. c.runs \in Seq(RunType) /\ k \in Nat \ {0}
  BY DEF OffsetsRight, OffsetsType
<1>2. CASE ~c.present
  BY <1>2 DEF OffsetsSay, GetSampleRenderingOffset
<1>3. CASE c.present
  <2> DEFINE at == FindRun(c.runs, old, k)
  <2>1. Encodes(c.runs, vals, n) /\ k <= Upto(c.runs, Len(c.runs))
    BY <1>3 DEF OffsetsSay, Encodes
  <2>2. at.found /\ Hits(c.runs, at.cache, k)
    BY <1>1, <2>1, FindRunIs
  <2>3. c.runs # << >>
    BY <1>1, <2>2, EmptySeq DEF Hits
  <2>4. GetSampleRenderingOffset(c, old, k).offset = c.runs[at.cache.ix].v
    BY <1>3, <2>2, <2>3 DEF GetSampleRenderingOffset
  <2> HIDE DEF at
  <2>5. PICK q \in 1..Len(c.runs) :
            q = at.cache.ix /\ Upto(c.runs, q - 1) < k /\ k <= Upto(c.runs, q)
    BY <2>2 DEF Hits
  <2>6. Len(c.runs) \in Nat
    BY <1>1, RunIs
  <2>7. q - 1 \in 0..Len(c.runs) /\ q \in 0..Len(c.runs)
    BY <2>6
  <2>8. Upto(c.runs, q - 1) \in Nat /\ Upto(c.runs, q) \in Nat
    BY <1>1, <2>7, UptoFacts
  <2>9. k \in (Upto(c.runs, q - 1) + 1)..Upto(c.runs, q)
    BY <2>5, <2>8
  <2>10. vals[k] = c.runs[q].v
    BY <2>1, <2>9 DEF Encodes
  <2> QED
    BY <2>4, <2>5, <2>10
<1> QED
  BY <1>2, <1>3

\* The next sample of a track gets the offset x.
LEMMA UpdateRenderingOffsetsSay ==
    ASSUME NEW c, OffsetsRight(c), NEW vals, NEW n \in Nat, OffsetsSay(c, vals, n),
           NEW x \in Nat, NEW more, \A k \in 1..n : more[k] = vals[k], more[n + 1] = x
    PROVE  /\ OffsetsSay(UpdateRenderingOffsets(c, n + 1, x), more, n + 1)
           /\ x # 0 => UpdateRenderingOffsets(c, n + 1, x).present
<1> DEFINE earlier == IF c.present \/ n + 1 <= 1 THEN c.runs ELSE << Run(n + 1 - 1, 0) >>
           new == UpdateRenderingOffsets(c, n + 1, x)
<1>1. c.runs \in Seq(RunType) /\ (~c.present => c.runs = << >>)
  BY DEF OffsetsRight, OffsetsType
<1>2. CASE ~c.present /\ x = 0
  <2>1. new = c
    BY <1>2 DEF UpdateRenderingOffsets
  <2>2. \A k \in 1..(n + 1) : more[k] = 0
    BY <1>2 DEF OffsetsSay
  <2> QED
    BY <1>2, <2>1, <2>2 DEF OffsetsSay
<1>3. CASE c.present \/ x # 0
  <2>1. new = [present |-> TRUE, runs |-> AppendRun(earlier, x)]
    BY <1>3 DEF UpdateRenderingOffsets
  <2>2. earlier \in Seq(RunType) /\ Encodes(earlier, vals, n)
    <3>1. CASE c.present
      BY <1>1, <3>1 DEF OffsetsSay
    <3>2. CASE ~c.present /\ n = 0
      <4>1. earlier = << >>
        BY <1>1, <3>2
      <4>2. << >> \in Seq(RunType) /\ Encodes(<< >>, vals, 0)
        BY NoRunsEncode
      <4> HIDE DEF earlier
      <4> QED
        BY <3>2, <4>1, <4>2
    <3>3. CASE ~c.present /\ n # 0
      <4>1. n + 1 - 1 = n /\ ~(n + 1 <= 1) /\ n \in Nat \ {0}
        BY <3>3
      <4>2. earlier = << Run(n, 0) >>
        BY <3>3, <4>1
      <4>3. \A k \in 1..n : vals[k] = 0
        BY <3>3 DEF OffsetsSay
      <4> QED
        BY <4>1, <4>2, <4>3, OneRunEncodes, ZenonT(30)
    <3> QED
      BY <3>1, <3>2, <3>3
  <2> HIDE DEF earlier, new
  <2>3. Encodes(AppendRun(earlier, x), more, n + 1)
    BY <2>2, AppendRunEncodes
  <2> QED
    BY <2>1, <2>3 DEF OffsetsSay, new
<1> QED
  BY <1>2, <1>3

\* The offset of sample k of n becomes x.
LEMMA SetSampleRenderingOffsetSay ==
    ASSUME NEW c, OffsetsRight(c), NEW vals, NEW n \in Nat, OffsetsSay(c, vals, n),
           NEW old \in CacheType, Points(c.runs, old), NEW k \in 1..n, NEW x \in Nat,
           NEW more, ButOne(more, vals, n, k, x)
    PROVE  OffsetsSay(SetSampleRenderingOffset(c, old, k, x, n).ctts, more, n)
<1> DEFINE set == SetSampleRenderingOffset(c, old, k, x, n)
           new == UpdateRenderingOffsets(c, k, x)
           after == n - k
           at == FindRun(c.runs, old, k)
<1>1. c.runs \in Seq(RunType) /\ k \in Nat \ {0} /\ after \in Nat
      /\ (~c.present => c.runs = << >>)
  BY DEF OffsetsRight, OffsetsType
<1>2. CASE ~c.present
  <2>1. set.ctts = IF after # 0 /\ new.present
                   THEN [new EXCEPT !.runs = Append(@, Run(after, 0))] ELSE new
    BY <1>2 DEF SetSampleRenderingOffset
  <2>2. \A y \in 1..n : vals[y] = 0
    BY <1>2 DEF OffsetsSay
  <2>3. CASE x = 0
    <3>1. new = c
      BY <1>2, <2>3 DEF UpdateRenderingOffsets
    <3>2. \A y \in 1..n : more[y] = 0
      BY <2>2, <2>3 DEF ButOne
    <3> HIDE DEF set, new
    <3>3. set.ctts = c
      BY <1>2, <2>1, <3>1
    <3> QED
      BY <1>2, <3>2, <3>3 DEF OffsetsSay, set
  <2>4. CASE x # 0
    <3>1. PICK j \in Nat : k = j + 1
      <4>1. k - 1 \in Nat /\ k = (k - 1) + 1
        BY <1>1
      <4> QED
        BY <4>1
    <3>2. OffsetsSay(c, vals, j)
      BY <1>2, <2>2, <3>1 DEF OffsetsSay
    <3>3. (\A y \in 1..j : more[y] = vals[y]) /\ more[j + 1] = x
      BY <3>1 DEF ButOne
    <3>4. OffsetsSay(new, more, k) /\ new.present
      BY <2>4, <3>1, <3>2, <3>3, UpdateRenderingOffsetsSay
    <3>5. new.runs \in Seq(RunType) /\ OffsetsRight(new)
      BY <1>1, UpdateRenderingOffsetsRight DEF OffsetsRight, OffsetsType
    <3> HIDE DEF new, set
    <3>6. Encodes(new.runs, more, k)
      BY <3>4 DEF OffsetsSay
    <3>7. CASE after = 0
      <4>1. set.ctts = new /\ n = k
        BY <1>1, <2>1, <3>7
      <4> QED
        BY <3>4, <4>1 DEF set
    <3>8. CASE after # 0
      <4> DEFINE longer == Append(new.runs, Run(after, 0))
      <4>1. PICK a \in Nat \ {0} : a = after
        BY <1>1, <3>8
      <4>2. k + a = n /\ \A y \in (k + 1)..(k + a) : more[y] = 0
        <5>1. k + a = n /\ k \in Nat
          BY <1>1, <4>1
        <5>2. ASSUME NEW y \in (k + 1)..(k + a)
              PROVE  more[y] = 0
          <6>1. y \in 1..n /\ y # k
            BY <5>1
          <6> QED
            BY <2>2, <6>1 DEF ButOne
        <5> QED
          BY <5>1, <5>2
      <4>3. k \in Nat /\ 0 \in Nat
        BY <1>1
      <4>4. Encodes(longer, more, n)
        BY <3>5, <3>6, <4>1, <4>2, <4>3, AddedRunEncodes
      <4>5. set.ctts = [new EXCEPT !.runs = longer]
        BY <2>1, <3>4, <3>8
      <4> HIDE DEF longer
      <4>6. set.ctts.present /\ set.ctts.runs = longer
        BY <3>4, <3>5, <4>5 DEF OffsetsRight, OffsetsType
      <4> QED
        BY <4>4, <4>6 DEF OffsetsSay, set
    <3> QED
      BY <3>7, <3>8
  <2> QED
    BY <2>3, <2>4
<1>3. CASE c.present
  <2>1. Encodes(c.runs, vals, n) /\ k <= Upto(c.runs, Len(c.runs))
    BY <1>3 DEF OffsetsSay, Encodes
  <2>2. at.found /\ Hits(c.runs, at.cache, k)
    BY <1>1, <2>1, FindRunIs
  <2>3. c.runs # << >>
    BY <1>1, <2>2, EmptySeq DEF Hits
  <2>4. set.ctts = IF c.runs[at.cache.ix].v = x THEN c
                   ELSE [c EXCEPT !.runs = SplitRun(@, at.cache.ix, at.cache.sid, k, x)]
    BY <1>3, <2>2, <2>3 DEF SetSampleRenderingOffset
  <2> HIDE DEF at, set
  <2>5. CASE c.runs[at.cache.ix].v = x
    <3>1. GetSampleRenderingOffset(c, old, k).offset = vals[k]
      BY OffsetAnswer
    <3>2. GetSampleRenderingOffset(c, old, k).offset = c.runs[at.cache.ix].v
      BY <1>3, <2>2, <2>3 DEF GetSampleRenderingOffset, at
    <3>3. \A y \in 1..n : more[y] = vals[y]
      BY <2>5, <3>1, <3>2 DEF ButOne
    <3>4. Encodes(c.runs, more, n)
      BY <1>1, <2>1, <3>3, EncodesSame
    <3> QED
      BY <1>3, <2>4, <2>5, <3>4 DEF OffsetsSay, set
  <2>6. CASE c.runs[at.cache.ix].v # x
    <3> DEFINE split == SplitRun(c.runs, at.cache.ix, at.cache.sid, k, x)
    <3>1. Encodes(split, more, n)
      BY <1>1, <2>1, <2>2, SplitRunEncodes
    <3>2. set.ctts = [c EXCEPT !.runs = split]
      BY <2>4, <2>6
    <3> HIDE DEF split
    <3>3. set.ctts.present /\ set.ctts.runs = split
      BY <1>3, <3>2 DEF OffsetsRight, OffsetsType
    <3> QED
      BY <3>1, <3>3 DEF OffsetsSay, set
  <2> QED
    BY <2>5, <2>6
<1> QED
  BY <1>2, <1>3

-----------------------------------------------------------------------------
(* stss: the binary search for a sample.                                   *)

Ranges(n) == (0..n) \X (-1..(n - 1))

\* What the search in range comes to when f says what it comes to in others.
Searching(ids, k, f, range) ==
    LET l == range[1]
        r == range[2]
        mid == (l + r) \div 2
    IN  IF r = -1 THEN "thrown"
        ELSE IF r < l THEN "no"
        ELSE IF ids[mid + 1] = k THEN "yes"
        ELSE IF l = r THEN "no"
        ELSE IF k > ids[mid + 1] THEN f[<< mid + 1, r >>]
        ELSE f[<< l, mid - 1 >>]

Searches(ids, k, f) == f = [range \in Ranges(Len(ids)) |-> Searching(ids, k, f, range)]

\* The range has at most m entries.
Narrow(range, m) == range[2] - range[1] + 1 <= m

\* A probe inside a range halves it.
LEMMA RangeHalves ==
    ASSUME NEW n \in Nat, NEW l \in 0..n, NEW r \in -1..(n - 1), l <= r
    PROVE  /\ (l + r) \div 2 \in l..r
           /\ << (l + r) \div 2 + 1, r >> \in Ranges(n)
           /\ << l, (l + r) \div 2 - 1 >> \in Ranges(n)
<1>1. PICK mid \in Int : mid = (l + r) \div 2 /\ l <= mid /\ mid <= r
  OBVIOUS
<1>2. mid + 1 \in 0..n /\ mid - 1 \in -1..(n - 1)
  BY <1>1
<1> QED
  BY <1>1, <1>2 DEF Ranges

\* The search in a range only asks about ranges with fewer entries.
LEMMA SearchesNarrower ==
    ASSUME NEW n \in Nat, NEW ids, Len(ids) = n, NEW k, NEW m \in Nat, NEW f, NEW g,
           \A range \in Ranges(n) : Narrow(range, m) => f[range] = g[range],
           NEW range \in Ranges(n), Narrow(range, m + 1)
    PROVE  Searching(ids, k, f, range) = Searching(ids, k, g, range)
<1>1. PICK l \in 0..n, r \in -1..(n - 1) : range = << l, r >>
  BY DEF Ranges
<1>2. range[1] = l /\ range[2] = r
  BY <1>1
<1>3. CASE r < l
  BY <1>2, <1>3 DEF Searching
<1>4. CASE l <= r
  <2>1. PICK mid \in Int : mid = (l + r) \div 2 /\ mid \in l..r
    BY <1>4, RangeHalves
  <2>2. << mid + 1, r >> \in Ranges(n) /\ << l, mid - 1 >> \in Ranges(n)
    BY <1>4, <2>1, RangeHalves, SMTT(30)
  <2>3. r - l <= m
    BY <1>2 DEF Narrow
  <2>4. Narrow(<< mid + 1, r >>, m) /\ Narrow(<< l, mid - 1 >>, m)
    BY <2>1, <2>3 DEF Narrow
  <2>5. /\ f[<< mid + 1, r >>] = g[<< mid + 1, r >>]
        /\ f[<< l, mid - 1 >>] = g[<< l, mid - 1 >>]
    BY <2>2, <2>4
  <2> QED
    BY <1>2, <2>1, <2>5 DEF Searching
<1> QED
  BY <1>3, <1>4

LEMMA SearchExists ==
    ASSUME NEW ids, Len(ids) \in Nat, NEW k
    PROVE  \E f : Searches(ids, k, f)
<1> DEFINE n == Len(ids)
           Settled(f, m) == \A range \in Ranges(n) :
                             Narrow(range, m) => f[range] = Searching(ids, k, f, range)
           A == {m \in Nat : \E f : Settled(f, m)}
<1>1. 0 \in A
  <2> DEFINE f == [range \in Ranges(n) |-> IF range[2] = -1 THEN "thrown" ELSE "no"]
  <2>1. ASSUME NEW range \in Ranges(n), Narrow(range, 0)
        PROVE  f[range] = Searching(ids, k, f, range)
    <3>1. PICK l \in 0..n, r \in -1..(n - 1) : range = << l, r >>
      BY DEF Ranges
    <3>2. range[1] = l /\ range[2] = r
      BY <3>1
    <3>3. r < l
      BY <2>1, <3>2 DEF Narrow
    <3>4. f[range] = IF r = -1 THEN "thrown" ELSE "no"
      BY <3>2
    <3> HIDE DEF f
    <3> QED
      BY <3>2, <3>3, <3>4 DEF Searching
  <2> HIDE DEF f
  <2>2. Settled(f, 0)
    BY <2>1
  <2> QED
    BY <2>2
<1>2. ASSUME NEW m \in Nat, m \in A
      PROVE  m + 1 \in A
  <2>1. PICK f : Settled(f, m)
    BY <1>2
  <2> DEFINE g == [range \in Ranges(n) |-> Searching(ids, k, f, range)]
  <2>2. \A range \in Ranges(n) : Narrow(range, m) => f[range] = g[range]
    BY <2>1
  <2>3. ASSUME NEW range \in Ranges(n), Narrow(range, m + 1)
        PROVE  g[range] = Searching(ids, k, g, range)
    <3>1. g[range] = Searching(ids, k, f, range)
      OBVIOUS
    <3> HIDE DEF g
    <3>2. Searching(ids, k, f, range) = Searching(ids, k, g, range)
      BY <2>2, <2>3, SearchesNarrower
    <3> QED
      BY <3>1, <3>2
  <2> HIDE DEF g
  <2>4. Settled(g, m + 1)
    BY <2>3
  <2> QED
    BY <2>4
<1> HIDE DEF A
<1>3. n \in A
  BY <1>1, <1>2, AllNumbers
<1>4. PICK f : Settled(f, n)
  BY <1>3 DEF A
<1> DEFINE g == [range \in Ranges(n) |-> Searching(ids, k, f, range)]
<1>5. \A range \in Ranges(n) : Narrow(range, n)
  BY DEF Ranges, Narrow
<1>6. \A range \in Ranges(n) : Narrow(range, n) => f[range] = g[range]
  BY <1>4
<1>7. ASSUME NEW range \in Ranges(n)
      PROVE  Searching(ids, k, f, range) = Searching(ids, k, g, range)
  <2>1. Narrow(range, n + 1)
    BY DEF Ranges, Narrow
  <2> HIDE DEF g
  <2> QED
    BY <1>6, <2>1, SearchesNarrower
<1>8. g = [range \in Ranges(n) |-> Searching(ids, k, g, range)]
  BY <1>7
<1> QED
  BY <1>8 DEF Searches

\* IsSyncSample searches the whole table.
LEMMA SearchIs ==
    ASSUME NEW tbl, NEW k, tbl.present, Len(tbl.ids) \in Nat \ {0}
    PROVE  \E f : /\ Searches(tbl.ids, k, f)
                  /\ IsSyncSample(tbl, k) = f[<< 0, Len(tbl.ids) - 1 >>]
<1> DEFINE f == CHOOSE f : Searches(tbl.ids, k, f)
<1>1. IsSyncSample(tbl, k) = f[<< 0, Len(tbl.ids) - 1 >>]
  BY DEF IsSyncSample, Searches, Searching, Ranges
<1>2. Searches(tbl.ids, k, f)
  BY SearchExists
<1> QED
  BY <1>1, <1>2

\* The entries of a table from the i-th to the j-th.
Entries(ids, i, j) == {ids[e] : e \in i..j}

Increasing(ids) == \A i, j \in 1..Len(ids) : i < j => ids[i] < ids[j]

\* The search finds what is in its range, or throws.
LEMMA SearchAnswers ==
    ASSUME NEW ids \in Seq(Nat), Increasing(ids), NEW k \in Nat, NEW f, Searches(ids, k, f),
           NEW range \in Ranges(Len(ids))
    PROVE  f[range] \in {IF k \in Entries(ids, range[1] + 1, range[2] + 1)
                         THEN "yes" ELSE "no", "thrown"}
<1> DEFINE n == Len(ids)
           Right(p) == f[p] \in {IF k \in Entries(ids, p[1] + 1, p[2] + 1)
                                 THEN "yes" ELSE "no", "thrown"}
           A == {m \in Nat : \A p \in Ranges(n) : Narrow(p, m) => Right(p)}
<1>0. n \in Nat /\ \A e \in 1..n : ids[e] \in Nat
  BY LenProperties, ElementOfSeq
<1>1. \A p \in Ranges(n) : f[p] = Searching(ids, k, f, p)
  BY DEF Searches
<1>2. ASSUME NEW l \in 0..n, NEW r \in -1..(n - 1), r < l
      PROVE  Right(<< l, r >>)
  <2>1. << l, r >> \in Ranges(n)
    BY DEF Ranges
  <2>2. f[<< l, r >>] \in {"no", "thrown"}
    BY <1>1, <1>2, <2>1 DEF Searching
  <2>3. k \notin Entries(ids, l + 1, r + 1)
    BY <1>2 DEF Entries
  <2> QED
    BY <2>2, <2>3
<1>3. 0 \in A
  <2> SUFFICES ASSUME NEW p \in Ranges(n), Narrow(p, 0)
               PROVE  Right(p)
    OBVIOUS
  <2>1. PICK l \in 0..n, r \in -1..(n - 1) : p = << l, r >>
    BY DEF Ranges
  <2>2. r < l
    BY <2>1 DEF Narrow
  <2> HIDE DEF Right
  <2> QED
    BY <1>2, <2>1, <2>2
<1>4. ASSUME NEW m \in Nat, m \in A
      PROVE  m + 1 \in A
  <2> SUFFICES ASSUME NEW p \in Ranges(n), Narrow(p, m + 1)
               PROVE  Right(p)
    OBVIOUS
  <2>1. PICK l \in 0..n, r \in -1..(n - 1) : p = << l, r >> /\ r - l <= m
    BY DEF Ranges, Narrow
  <2>2. CASE r < l
    <3> HIDE DEF Right
    <3> QED
      BY <1>2, <2>1, <2>2
  <2>3. CASE l <= r
    <3>1. PICK mid \in Int : mid = (l + r) \div 2 /\ mid \in l..r
      BY <2>3, RangeHalves
    <3>2. << mid + 1, r >> \in Ranges(n) /\ << l, mid - 1 >> \in Ranges(n)
      BY <1>0, <2>3, <3>1, RangeHalves, SMTT(30)
    <3>3. Narrow(<< mid + 1, r >>, m) /\ Narrow(<< l, mid - 1 >>, m)
      BY <2>1, <3>1 DEF Narrow
    <3>4. Right(<< mid + 1, r >>) /\ Right(<< l, mid - 1 >>)
      <4> HIDE DEF Right
      <4> QED
        BY <1>4, <3>2, <3>3
    <3>5. PICK c \in Nat : c = ids[mid + 1] /\ mid + 1 \in 1..n /\ mid + 1 \in (l + 1)..(r + 1)
      BY <1>0, <3>1
    <3>6. f[p] = IF r = -1 THEN "thrown"
                 ELSE IF c = k THEN "yes"
                 ELSE IF l = r THEN "no"
                 ELSE IF k > c THEN f[<< mid + 1, r >>]
                 ELSE f[<< l, mid - 1 >>]
      <4>1. p[1] = l /\ p[2] = r /\ ~(r < l)
        BY <2>1, <2>3
      <4>2. f[p] = Searching(ids, k, f, p)
        BY <1>1
      <4> HIDE DEF n
      <4> QED
        BY <3>1, <3>5, <4>1, <4>2 DEF Searching
    <3>7. k \in Entries(ids, l + 1, r + 1)
          <=> \E e \in (l + 1)..(r + 1) : ids[e] = k
      BY DEF Entries
    <3>8. c = k => k \in Entries(ids, l + 1, r + 1)
      BY <3>5, <3>7
    <3>9. l = r /\ c # k => k \notin Entries(ids, l + 1, r + 1)
      BY <3>1, <3>5, <3>7
    <3>10. ASSUME k > c
           PROVE  k \in Entries(ids, l + 1, r + 1) <=> k \in Entries(ids, mid + 1 + 1, r + 1)
      <4>1. ASSUME NEW e \in (l + 1)..(r + 1), ids[e] = k
            PROVE  e \in (mid + 1 + 1)..(r + 1)
        <5>1. e \in 1..n
          BY <1>0
        <5>2. e < mid + 1 => ids[e] < c
          BY <3>5, <5>1 DEF Increasing
        <5>3. ~(e < mid + 1) /\ e # mid + 1
          BY <3>5, <3>10, <4>1, <5>2
        <5> QED
          BY <3>5, <5>1, <5>3
      <4>2. \A e \in (mid + 1 + 1)..(r + 1) : e \in (l + 1)..(r + 1)
        BY <3>5
      <4> QED
        BY <3>7, <4>1, <4>2 DEF Entries
    <3>11. ASSUME k < c
           PROVE  k \in Entries(ids, l + 1, r + 1) <=> k \in Entries(ids, l + 1, mid - 1 + 1)
      <4>1. ASSUME NEW e \in (l + 1)..(r + 1), ids[e] = k
            PROVE  e \in (l + 1)..(mid - 1 + 1)
        <5>1. e \in 1..n
          BY <1>0
        <5>2. mid + 1 < e => c < ids[e]
          BY <3>5, <5>1 DEF Increasing
        <5>3. ~(mid + 1 < e) /\ e # mid + 1
          BY <3>5, <3>11, <4>1, <5>2
        <5> QED
          BY <3>5, <5>1, <5>3
      <4>2. \A e \in (l + 1)..(mid - 1 + 1) : e \in (l + 1)..(r + 1)
        BY <3>1, <3>5
      <4> QED
        BY <3>7, <4>1, <4>2 DEF Entries
    <3>12. k = c \/ k > c \/ k < c
      BY <3>5
    <3> QED
      BY <2>1, <3>4, <3>6, <3>8, <3>9, <3>10, <3>11, <3>12
  <2> QED
    BY <2>1, <2>2, <2>3
<1> HIDE DEF A
<1>5. n \in A
  BY <1>0, <1>3, <1>4, AllNumbers
<1>6. Narrow(range, n)
  BY <1>0 DEF Ranges, Narrow
<1> QED
  BY <1>5, <1>6 DEF A

\* Table tbl names the sync samples among the first n samples of history h.
SyncSays(tbl, h, n) ==
    IF tbl.present
    THEN /\ Increasing(tbl.ids)
         /\ Entries(tbl.ids, 1, Len(tbl.ids)) = {k \in 1..n : h[k].sync}
    ELSE \A k \in 1..n : h[k].sync

LEMMA SyncSaysSame ==
    ASSUME NEW tbl, NEW h, NEW n \in Nat, SyncSays(tbl, h, n), NEW g,
           \A k \in 1..n : g[k].sync = h[k].sync
    PROVE  SyncSays(tbl, g, n)
<1>1. {k \in 1..n : g[k].sync} = {k \in 1..n : h[k].sync}
  OBVIOUS
<1> QED
  BY <1>1 DEF SyncSays

\* IsSyncSample answers with the flag of the sample or throws.
LEMMA SyncAnswer ==
    ASSUME NEW tbl \in SyncType, NEW h, NEW n \in Nat, SyncSays(tbl, h, n), NEW k \in 1..n
    PROVE  IsSyncSample(tbl, k) \in {IF h[k].sync THEN "yes" ELSE "no", "thrown"}
<1>1. PICK ids \in Seq(Nat), len \in Nat : ids = tbl.ids /\ len = Len(ids)
  <2>1. tbl.ids \in Seq(Nat \ {0})
    BY DEF SyncType
  <2>2. tbl.ids \in Seq(Nat) /\ Len(tbl.ids) \in Nat
    BY <2>1
  <2> QED
    BY <2>2
<1>2. CASE ~tbl.present
  <2>1. IsSyncSample(tbl, k) = "yes"
    BY <1>2 DEF IsSyncSample
  <2> QED
    BY <1>2, <2>1 DEF SyncSays
<1>3. CASE tbl.present /\ len = 0
  <2>1. IsSyncSample(tbl, k) = "no"
    BY <1>1, <1>3 DEF IsSyncSample
  <2>2. ~h[k].sync
    BY <1>1, <1>3 DEF SyncSays, Entries
  <2> QED
    BY <2>1, <2>2
<1>4. CASE tbl.present /\ len # 0
  <2>1. PICK f : Searches(ids, k, f) /\ IsSyncSample(tbl, k) = f[<< 0, len - 1 >>]
    BY <1>1, <1>4, SearchIs
  <2> DEFINE all == << 0, len - 1 >>
  <2>2. all \in Ranges(len) /\ all[1] + 1 = 1 /\ all[2] + 1 = len
    BY <1>4 DEF Ranges
  <2>3. Increasing(ids) /\ (k \in Entries(ids, 1, len) <=> h[k].sync)
    BY <1>1, <1>4 DEF SyncSays
  <2> HIDE DEF all
  <2>4. f[all] \in {IF k \in Entries(ids, all[1] + 1, all[2] + 1) THEN "yes" ELSE "no", "thrown"}
    BY <1>1, <2>1, <2>2, <2>3, SearchAnswers
  <2>5. f[all] \in {IF k \in Entries(ids, 1, len) THEN "yes" ELSE "no", "thrown"}
    BY <2>2, <2>4
  <2> QED
    BY <2>1, <2>3, <2>5 DEF all
<1> QED
  BY <1>2, <1>3, <1>4

\* The first sample that is not a sync sample makes a table of all before it.
LEMMA FirstSyncs ==
    ASSUME NEW tbl \in SyncType, NEW n \in Nat, NEW sync \in BOOLEAN, ~tbl.present, ~sync
    PROVE  /\ UpdateSyncSamples(tbl, n + 1, sync, n + 1).present
           /\ UpdateSyncSamples(tbl, n + 1, sync, n + 1).ids = [i \in 1..n |-> i]
<1>1. UpdateSyncSamples(tbl, n + 1, sync, n + 1).present
  BY SMTT(30) DEF UpdateSyncSamples
<1>2. UpdateSyncSamples(tbl, n + 1, sync, n + 1).ids = [i \in 1..n |-> i]
  BY SMTT(30) DEF UpdateSyncSamples
<1> QED
  BY <1>1, <1>2

\* The next sample of a track, sync or not.
LEMMA UpdateSyncSamplesSay ==
    ASSUME NEW tbl \in SyncType, NEW h, NEW n \in Nat, SyncSays(tbl, h, n),
           NEW sync \in BOOLEAN, NEW g, \A k \in 1..n : g[k].sync = h[k].sync,
           g[n + 1].sync = sync
    PROVE  SyncSays(UpdateSyncSamples(tbl, n + 1, sync, n + 1), g, n + 1)
<1> DEFINE new == UpdateSyncSamples(tbl, n + 1, sync, n + 1)
           syncs == {k \in 1..n : h[k].sync}
<1>1. {k \in 1..(n + 1) : g[k].sync} = IF sync THEN syncs \cup {n + 1} ELSE syncs
  <2>1. \A k : k \in 1..(n + 1) <=> k \in 1..n \/ k = n + 1
    OBVIOUS
  <2> QED
    BY <2>1
<1>2. CASE tbl.present /\ ~sync
  <2>1. new = tbl
    BY <1>2 DEF UpdateSyncSamples
  <2> QED
    BY <1>1, <1>2, <2>1 DEF SyncSays
<1>3. CASE tbl.present /\ sync
  <2>1. new = [tbl EXCEPT !.ids = Append(@, n + 1)]
    BY <1>3 DEF UpdateSyncSamples
  <2>10. PICK ids \in Seq(Nat) : ids = tbl.ids
    <3>1. tbl.ids \in Seq(Nat \ {0})
      BY DEF SyncType
    <3>2. tbl.ids \in Seq(Nat)
      BY <3>1
    <3> QED
      BY <3>2
  <2>11. PICK len \in Nat : len = Len(ids)
    BY LenProperties
  <2> DEFINE more == Append(ids, n + 1)
  <2>12. n + 1 \in Nat
    OBVIOUS
  <2>13. /\ Len(more) = len + 1 /\ more[len + 1] = n + 1
         /\ \A e \in 1..len : more[e] = ids[e]
    BY <2>11, <2>12, AppendProperties
  <2>14. more = Append(tbl.ids, n + 1)
    BY <2>10
  <2> HIDE DEF more
  <2>2. /\ ids = tbl.ids /\ len = Len(ids) /\ more = Append(tbl.ids, n + 1)
        /\ Len(more) = len + 1 /\ more[len + 1] = n + 1
        /\ \A e \in 1..len : more[e] = ids[e] /\ ids[e] \in Nat
    BY <2>10, <2>11, <2>13, <2>14, ElementOfSeq
  <2>3. new.present /\ new.ids = more
    BY <1>3, <2>1, <2>2 DEF SyncType
  <2>4. Entries(ids, 1, len) = syncs /\ Increasing(ids)
    BY <1>3, <2>2 DEF SyncSays
  <2>5. \A e \in 1..len : ids[e] \in 1..n
    BY <2>4 DEF Entries
  <2>6. \A e : e \in 1..(len + 1) <=> e \in 1..len \/ e = len + 1
    OBVIOUS
  <2> HIDE DEF syncs
  <2>7. Entries(more, 1, len + 1) = syncs \cup {n + 1}
    <3>1. Entries(more, 1, len + 1) = {more[e] : e \in 1..len} \cup {n + 1}
      BY <2>2, <2>6 DEF Entries
    <3>2. {more[e] : e \in 1..len} = {ids[e] : e \in 1..len}
      BY <2>2
    <3> QED
      BY <2>4, <3>1, <3>2 DEF Entries
  <2>8. ASSUME NEW i \in 1..(len + 1), NEW j \in 1..(len + 1), i < j
        PROVE  more[i] < more[j]
    <3>1. i \in 1..len
      BY <2>8
    <3>2. CASE j \in 1..len
      BY <2>2, <2>4, <2>8, <3>1, <3>2 DEF Increasing
    <3>3. CASE j = len + 1
      BY <2>2, <2>5, <3>1, <3>3
    <3> QED
      BY <3>2, <3>3
  <2>9. Increasing(more)
    BY <2>2, <2>8 DEF Increasing
  <2> HIDE DEF new
  <2> QED
    BY <1>1, <1>3, <2>2, <2>3, <2>7, <2>9 DEF SyncSays, new
<1>4. CASE ~tbl.present /\ sync
  <2>1. new = tbl
    BY <1>4 DEF UpdateSyncSamples
  <2>2. ASSUME NEW k \in 1..(n + 1)
        PROVE  g[k].sync
    <3>1. k \in 1..n \/ k = n + 1
      OBVIOUS
    <3> QED
      BY <1>4, <3>1 DEF SyncSays
  <2> QED
    BY <1>4, <2>1, <2>2 DEF SyncSays
<1>5. CASE ~tbl.present /\ ~sync
  <2> DEFINE ids == [i \in 1..n |-> i]
  <2>1. new.present /\ new.ids = ids
    BY <1>5, FirstSyncs
  <2>2. ids \in Seq(Nat) /\ Len(ids) = n
    <3>1. \A i \in 1..n : i \in Nat
      OBVIOUS
    <3> QED
      BY <3>1
  <2>3. Increasing(ids)
    BY <2>2 DEF Increasing
  <2>4. Entries(ids, 1, n) = 1..n
    BY DEF Entries
  <2>5. syncs = 1..n
    BY <1>5 DEF SyncSays
  <2> HIDE DEF ids, syncs
  <2> HIDE DEF new
  <2> QED
    BY <1>1, <1>5, <2>2, <2>3, <2>4, <2>5, <2>1 DEF SyncSays, new
<1> QED
  BY <1>2, <1>3, <1>4, <1>5

LEMMA MinIs ==
    ASSUME NEW S, S \subseteq Nat, NEW m \in S, \A y \in S : m <= y
    PROVE  Min(S) = m
<1>1. Min(S) \in S /\ Min(S) <= m
  BY MinIsSmallest
<1>2. m <= Min(S) /\ Min(S) \in Nat /\ m \in Nat
  BY <1>1
<1> QED
  BY <1>1, <1>2

\* GetNextSyncSample names the first sync sample from k on.
LEMMA NextSyncAnswer ==
    ASSUME NEW tbl \in SyncType, NEW h, NEW n \in Nat, SyncSays(tbl, h, n), NEW k \in 1..n
    PROVE  GetNextSyncSample(tbl, k)
               = LET syncs == {j \in k..n : h[j].sync}
                 IN  IF syncs = {} THEN INVALID_SAMPLE_ID ELSE Min(syncs)
<1> DEFINE syncs == {j \in k..n : h[j].sync}
           ids == tbl.ids
           later == {i \in 1..Len(ids) : k <= ids[i]}
<1>1. syncs \subseteq Nat
  OBVIOUS
<1>2. CASE ~tbl.present
  <2>1. GetNextSyncSample(tbl, k) = k
    BY <1>2 DEF GetNextSyncSample
  <2>2. k \in syncs /\ \A y \in syncs : k <= y
    BY <1>2 DEF SyncSays
  <2> HIDE DEF syncs
  <2>3. Min(syncs) = k
    BY <1>1, <2>2, MinIs
  <2> QED
    BY <2>1, <2>2, <2>3 DEF syncs
<1>3. CASE tbl.present
  <2>1. /\ Len(ids) \in Nat /\ \A i \in 1..Len(ids) : ids[i] \in Nat
    <3>1. ids \in Seq(Nat \ {0})
      BY DEF SyncType
    <3> QED
      BY <3>1, LenProperties, ElementOfSeq
  <2>2. GetNextSyncSample(tbl, k) = IF later = {} THEN INVALID_SAMPLE_ID ELSE ids[Min(later)]
    BY <1>3 DEF GetNextSyncSample
  <2>3. Increasing(ids) /\ {ids[e] : e \in 1..Len(ids)} = {j \in 1..n : h[j].sync}
    BY <1>3 DEF SyncSays, Entries
  <2> HIDE DEF ids
  <2>4. \A i \in later : ids[i] \in syncs
    BY <2>1, <2>3
  <2>5. \A j \in syncs : \E i \in later : j = ids[i]
    <3> SUFFICES ASSUME NEW j \in syncs
                 PROVE  \E i \in later : j = ids[i]
      OBVIOUS
    <3>1. j \in {e \in 1..n : h[e].sync} /\ k <= j
      OBVIOUS
    <3>2. PICK i \in 1..Len(ids) : j = ids[i]
      BY <2>3, <3>1
    <3> QED
      BY <3>1, <3>2
  <2>6. CASE later = {}
    <3>1. syncs = {}
      BY <2>5, <2>6
    <3> QED
      BY <2>2, <2>6, <3>1
  <2>7. CASE later # {}
    <3>1. later \subseteq Nat
      BY <2>1
    <3>2. Min(later) \in later /\ \A i \in later : Min(later) <= i
      BY <2>7, <3>1, MinIsSmallest
    <3>3. PICK e \in 1..Len(ids) : e = Min(later) /\ e \in later /\ \A i \in later : e <= i
      BY <3>2
    <3>4. ids[e] \in syncs
      BY <2>4, <3>3
    <3>5. \A i \in later : ids[e] <= ids[i]
      <4> SUFFICES ASSUME NEW i \in later PROVE ids[e] <= ids[i]
        OBVIOUS
      <4>1. e <= i /\ i \in 1..Len(ids) /\ ids[e] \in Nat /\ ids[i] \in Nat
        BY <2>1, <3>3
      <4>2. CASE e = i
        BY <4>1, <4>2
      <4>3. CASE e < i
        BY <2>3, <4>1, <4>3 DEF Increasing
      <4> QED
        BY <2>1, <4>1, <4>2, <4>3
    <3>6. \A j \in syncs : ids[e] <= j
      BY <2>5, <3>5
    <3> HIDE DEF syncs, later
    <3>7. Min(syncs) = ids[e]
      BY <1>1, <3>4, <3>6, MinIs
    <3>8. syncs # {}
      BY <3>4
    <3> QED
      BY <2>2, <2>7, <3>3, <3>7, <3>8 DEF syncs
  <2> QED
    BY <2>6, <2>7
<1> QED
  BY <1>2, <1>3

-----------------------------------------------------------------------------
(* The histories and what the tables say of them.                          *)

\* No write failed, none was stopped by a chunk limit of zero, and m_writeSampleId
\* was not started anew: the calls agreed on the ids of samples.
Sound == session = 1 /\ faults = 0 /\ 0 \notin ChunkDurations

OffsetsOf(t) == [j \in DOMAIN hist[t] |-> hist[t][j].offset]

\* The durations do not depend on the session, the offsets, sync samples and ids do.
SaysTimes(t)  == Encodes(stts[t], DurationsOf(t), Len(hist[t]))
SaysIds(t)    == Sound => writeId[t] = Len(hist[t]) + 1 /\ perChunk[t] # 0
SaysOffset(t) == Sound => OffsetsSay(ctts[t], OffsetsOf(t), Len(hist[t]))
SaysSync(t)   == Sound => SyncSays(stss[t], hist[t], Len(hist[t]))
SaysMedia(t)  == faults = 0 /\ 0 \notin ChunkDurations =>
                     /\ perChunk[t] # 0
                     /\ mediaDuration[t] = SumFunctionOnSet(DurationsOf(t), 1..Len(hist[t]))

Says(t) == SaysTimes(t) /\ SaysIds(t) /\ SaysOffset(t) /\ SaysSync(t) /\ SaysMedia(t)

TableInv == \A t \in Tracks : Says(t)

LEMMA HistoryIs ==
    ASSUME IInv, NEW t \in Tracks
    PROVE  /\ hist[t] \in Seq(SampleType) /\ Len(hist[t]) \in Nat
           /\ DOMAIN hist[t] = 1..Len(hist[t])
           /\ \A k \in 1..Len(hist[t]) :
                 /\ hist[t][k] \in SampleType /\ hist[t][k].duration \in Nat
                 /\ DurationsOf(t)[k] = hist[t][k].duration /\ DurationsOf(t)[k] \in Nat
                 /\ OffsetsOf(t)[k] = hist[t][k].offset /\ OffsetsOf(t)[k] \in Nat
<1>1. hist[t] \in Seq(SampleType)
  BY DEF IInv, StateType, WriterType
<1>2. Len(hist[t]) \in Nat /\ DOMAIN hist[t] = 1..Len(hist[t])
  BY <1>1, LenProperties
<1>3. \A k \in 1..Len(hist[t]) : hist[t][k] \in SampleType
  BY <1>1, ElementOfSeq
<1>4. \A k \in 1..Len(hist[t]) : hist[t][k].duration \in Nat /\ hist[t][k].offset \in Nat
  BY <1>3 DEF SampleType
<1> QED
  BY <1>1, <1>2, <1>3, <1>4 DEF DurationsOf, OffsetsOf

\* The history with one more sample.
LEMMA HistoryGrows ==
    ASSUME IInv, NEW t \in Tracks, NEW s \in Written(t), hist'[t] = Append(hist[t], SampleOf(t, s))
    PROVE  /\ Len(hist'[t]) = Len(hist[t]) + 1
           /\ \A k \in 1..Len(hist[t]) : /\ DurationsOf(t)'[k] = DurationsOf(t)[k]
                                         /\ OffsetsOf(t)'[k] = OffsetsOf(t)[k]
                                         /\ hist'[t][k] = hist[t][k]
           /\ DurationsOf(t)'[Len(hist[t]) + 1] = Duration(t, s)
           /\ OffsetsOf(t)'[Len(hist[t]) + 1] = s.offset
           /\ hist'[t][Len(hist[t]) + 1] = SampleOf(t, s)
<1>1. hist[t] \in Seq(SampleType) /\ Len(hist[t]) \in Nat
  BY HistoryIs
<1>2. /\ SampleOf(t, s) \in SampleType
      /\ SampleOf(t, s).duration = Duration(t, s) /\ SampleOf(t, s).offset = s.offset
  BY StepSample
<1> DEFINE n == Len(hist[t])
           h == hist'[t]
<1>3. /\ h \in Seq(SampleType) /\ Len(h) = n + 1 /\ h[n + 1] = SampleOf(t, s)
      /\ \A k \in 1..n : h[k] = hist[t][k]
  BY <1>1, <1>2, AppendProperties
<1>4. DOMAIN h = 1..(n + 1) /\ DOMAIN hist[t] = 1..n
  BY <1>1, <1>3, LenProperties
<1>5. n + 1 \in 1..(n + 1) /\ \A k \in 1..n : k \in 1..(n + 1)
  BY <1>1
<1>6. /\ DurationsOf(t)' = [j \in DOMAIN h |-> h[j].duration]
      /\ OffsetsOf(t)' = [j \in DOMAIN h |-> h[j].offset]
  BY DEF DurationsOf, OffsetsOf
<1> HIDE DEF h, n
<1>7. /\ DurationsOf(t)'[n + 1] = Duration(t, s) /\ OffsetsOf(t)'[n + 1] = s.offset
  BY <1>2, <1>3, <1>4, <1>5, <1>6
<1>8. ASSUME NEW k \in 1..n
      PROVE  DurationsOf(t)'[k] = DurationsOf(t)[k] /\ OffsetsOf(t)'[k] = OffsetsOf(t)[k]
  BY <1>3, <1>4, <1>5, <1>6 DEF DurationsOf, OffsetsOf
<1> QED
  BY <1>3, <1>7, <1>8 DEF h, n

\* The history with one offset corrected.
LEMMA HistoryCorrected ==
    ASSUME IInv, NEW t \in Tracks, NEW k \in 1..Len(hist[t]), NEW x,
           hist'[t] = [hist[t] EXCEPT ![k].offset = x]
    PROVE  /\ Len(hist'[t]) = Len(hist[t]) /\ DurationsOf(t)' = DurationsOf(t)
           /\ ButOne(OffsetsOf(t)', OffsetsOf(t), Len(hist[t]), k, x)
           /\ \A j \in 1..Len(hist[t]) : hist'[t][j].sync = hist[t][j].sync
<1>1. hist[t] \in Seq(SampleType) /\ Len(hist[t]) \in Nat /\ DOMAIN hist[t] = 1..Len(hist[t])
      /\ \A j \in 1..Len(hist[t]) : hist[t][j] \in SampleType
  BY HistoryIs
<1> DEFINE n == Len(hist[t])
           h == hist'[t]
           one == [hist[t][k] EXCEPT !.offset = x]
<1>2. h = [hist[t] EXCEPT ![k] = one]
  OBVIOUS
<1>3. /\ one.duration = hist[t][k].duration /\ one.offset = x
      /\ one.sync = hist[t][k].sync
  BY <1>1 DEF SampleType
<1> HIDE DEF one
<1>4. DOMAIN h = 1..n /\ \A j \in 1..n : h[j] = IF j = k THEN one ELSE hist[t][j]
  BY <1>1, <1>2
<1>5. Len(h) = n
  BY <1>1, <1>2, LenProperties
<1>6. /\ DurationsOf(t)' = [j \in DOMAIN h |-> h[j].duration]
      /\ OffsetsOf(t)' = [j \in DOMAIN h |-> h[j].offset]
  BY DEF DurationsOf, OffsetsOf
<1> HIDE DEF h
<1>7. \A j \in 1..n : h[j].duration = hist[t][j].duration
  BY <1>3, <1>4
<1>8. DurationsOf(t)' = DurationsOf(t)
  BY <1>1, <1>4, <1>6, <1>7 DEF DurationsOf
<1>9. OffsetsOf(t)'[k] = x
  BY <1>3, <1>4, <1>6
<1>10. \A j \in 1..n : j # k => OffsetsOf(t)'[j] = OffsetsOf(t)[j]
  BY <1>1, <1>4, <1>6 DEF OffsetsOf
<1>11. \A j \in 1..n : h[j].sync = hist[t][j].sync
  BY <1>3, <1>4
<1> QED
  BY <1>5, <1>8, <1>9, <1>10, <1>11 DEF ButOne, h, n

LEMMA CountIs ==
    ASSUME IInv, SizesInv, NEW t \in Tracks
    PROVE  stsz[t].count = Len(hist[t]) /\ SampleIds(t) = 1..Len(hist[t])
BY DEF SizesInv, SizesOf, SampleIds

LEMMA KeepsSays ==
    ASSUME IInv, CountersGrow, NEW t \in Tracks, Says(t), Keeps(t)
    PROVE  Says(t)'
<1>1. /\ stts'[t] = stts[t] /\ ctts'[t] = ctts[t] /\ hist'[t] = hist[t]
      /\ mediaDuration'[t] = mediaDuration[t]
      /\ session' = session => writeId'[t] = writeId[t]
      /\ perChunk'[t] \in {perChunk[t], TimeScale} \cup ChunkDurations
  BY DEF Keeps
<1>2. DurationsOf(t)' = DurationsOf(t) /\ OffsetsOf(t)' = OffsetsOf(t)
  BY <1>1 DEF DurationsOf, OffsetsOf
<1>3. SaysTimes(t)'
  BY <1>1, <1>2 DEF Says, SaysTimes
<1>4. perChunk[t] # 0 /\ 0 \notin ChunkDurations => perChunk'[t] # 0
  BY <1>1, TrackAssumption
<1>5. Sound' => Sound /\ session' = session
  BY DEF Sound, CountersGrow
<1>6. SaysIds(t)'
  BY <1>1, <1>4, <1>5 DEF Says, SaysIds, Sound
<1>7. SaysOffset(t)'
  BY <1>1, <1>2, <1>5 DEF Says, SaysOffset
<1>8. SaysSync(t)'
  <2>1. stss'[t] = stss[t]
    BY DEF Keeps
  <2> QED
    BY <1>1, <1>5, <2>1 DEF Says, SaysSync
<1>9. SaysMedia(t)'
  BY <1>1, <1>2, <1>4 DEF Says, SaysMedia, CountersGrow
<1> QED
  BY <1>3, <1>6, <1>7, <1>8, <1>9 DEF Says

LEMMA RecordsSays ==
    ASSUME IInv, LookupInv, SizesInv, CountersGrow, NEW t \in Tracks, Says(t),
           NEW s \in Written(t), Records(t, s)
    PROVE  Says(t)'
<1>1. PICK n \in Nat : n = Len(hist[t])
  BY HistoryIs
<1>2. Duration(t, s) \in Nat /\ s.offset \in Nat
  BY StepSample
<1>3. hist'[t] = Append(hist[t], SampleOf(t, s))
  BY DEF Records
<1>4. /\ Len(hist'[t]) = n + 1
      /\ \A k \in 1..n : DurationsOf(t)'[k] = DurationsOf(t)[k] /\ OffsetsOf(t)'[k] = OffsetsOf(t)[k]
      /\ DurationsOf(t)'[n + 1] = Duration(t, s) /\ OffsetsOf(t)'[n + 1] = s.offset
  BY <1>1, <1>3, HistoryGrows
<1>5. \A k \in 1..n : DurationsOf(t)[k] \in Nat
  BY <1>1, HistoryIs
<1>6. Sound' => Sound
  BY DEF Sound, CountersGrow
<1>7. SaysTimes(t)'
  <2>1. stts[t] \in Seq(RunType) /\ Encodes(stts[t], DurationsOf(t), n)
    BY <1>1 DEF IInv, StateType, WriterType, Says, SaysTimes
  <2>2. Encodes(AppendRun(stts[t], Duration(t, s)), DurationsOf(t)', n + 1)
    BY <1>2, <1>4, <2>1, AppendRunEncodes
  <2> QED
    BY <1>4, <2>2 DEF SaysTimes, Records
<1>8. SaysIds(t)'
  BY <1>1, <1>4, <1>6 DEF SaysIds, Says, Records, Sound
<1>9. SaysOffset(t)'
  <2> SUFFICES ASSUME Sound'
               PROVE  OffsetsSay(ctts'[t], OffsetsOf(t)', n + 1)
    BY <1>4 DEF SaysOffset
  <2>1. writeId[t] = n + 1 /\ OffsetsSay(ctts[t], OffsetsOf(t), n)
    BY <1>1, <1>6 DEF Says, SaysIds, SaysOffset
  <2>2. OffsetsRight(ctts[t])
    BY DEF LookupInv, LookedUp
  <2>3. OffsetsSay(UpdateRenderingOffsets(ctts[t], n + 1, s.offset), OffsetsOf(t)', n + 1)
    BY <1>2, <1>4, <2>1, <2>2, UpdateRenderingOffsetsSay
  <2> QED
    BY <2>1, <2>3 DEF Records
<1>10. SaysMedia(t)'
  <2> SUFFICES ASSUME faults' = 0, 0 \notin ChunkDurations
               PROVE  /\ perChunk'[t] # 0
                      /\ mediaDuration'[t] = SumFunctionOnSet(DurationsOf(t)', 1..(n + 1))
    BY <1>4 DEF SaysMedia
  <2>1. perChunk[t] # 0 /\ mediaDuration[t] = SumFunctionOnSet(DurationsOf(t), 1..n)
    BY <1>1 DEF Says, SaysMedia, CountersGrow
  <2>2. mediaDuration'[t] = mediaDuration[t] + Duration(t, s) /\ perChunk'[t] = perChunk[t]
    BY <2>1 DEF Records
  <2>3. \A k \in 1..(n + 1) : DurationsOf(t)'[k] \in Int
    <3> SUFFICES ASSUME NEW k \in 1..(n + 1)
                 PROVE  DurationsOf(t)'[k] \in Int
      OBVIOUS
    <3>1. k \in 1..n \/ k = n + 1
      OBVIOUS
    <3> QED
      BY <1>2, <1>4, <1>5, <3>1
  <2>4. SumFunctionOnSet(DurationsOf(t)', 1..(n + 1))
        = SumFunctionOnSet(DurationsOf(t)', 1..n) + DurationsOf(t)'[n + 1]
    BY <2>3, SumToNext
  <2>5. SumFunctionOnSet(DurationsOf(t)', 1..n) = SumFunctionOnSet(DurationsOf(t), 1..n)
    <3>1. IsFiniteSet(1..n)
      BY IntervalFinite
    <3>2. \A k \in 1..n : DurationsOf(t)[k] \in Int /\ DurationsOf(t)'[k] = DurationsOf(t)[k]
      BY <1>4, <1>5
    <3> QED
      BY <3>1, <3>2, SumOfEqual
  <2> QED
    BY <1>4, <2>1, <2>2, <2>4, <2>5
<1>11. SaysSync(t)'
  <2> SUFFICES ASSUME Sound'
               PROVE  SyncSays(stss'[t], hist'[t], n + 1)
    BY <1>4 DEF SaysSync
  <2>1. /\ writeId[t] = n + 1 /\ stsz[t].count + 1 = n + 1
        /\ SyncSays(stss[t], hist[t], n) /\ stss[t] \in SyncType
    BY <1>1, <1>6, CountIs DEF Says, SaysIds, SaysSync, IInv, StateType, WriterType, SyncType
  <2>2. /\ s.sync \in BOOLEAN /\ hist'[t][n + 1].sync = s.sync
        /\ \A k \in 1..n : hist'[t][k].sync = hist[t][k].sync
    BY <1>1, <1>3, HistoryGrows, StepSample
  <2>3. SyncSays(UpdateSyncSamples(stss[t], n + 1, s.sync, n + 1), hist'[t], n + 1)
    BY <2>1, <2>2, UpdateSyncSamplesSay
  <2> QED
    BY <2>1, <2>3 DEF Records
<1> QED
  BY <1>7, <1>8, <1>9, <1>10, <1>11 DEF Says

LEMMA CorrectsSays ==
    ASSUME IInv, LookupInv, SizesInv, CountersGrow, NEW t \in Tracks, Says(t),
           NEW k \in SampleIds(t), NEW x \in Offsets, Corrects(t, k, x)
    PROVE  Says(t)'
<1>1. PICK n \in Nat : n = Len(hist[t]) /\ stsz[t].count = n /\ k \in 1..n
  BY HistoryIs, CountIs
<1>2. x \in Nat
  BY SampleAssumption
<1>3. /\ Len(hist'[t]) = n /\ DurationsOf(t)' = DurationsOf(t)
      /\ ButOne(OffsetsOf(t)', OffsetsOf(t), n, k, x)
      /\ \A j \in 1..n : hist'[t][j].sync = hist[t][j].sync
  <2>1. hist'[t] = [hist[t] EXCEPT ![k].offset = x] /\ k \in 1..Len(hist[t])
    BY <1>1 DEF Corrects
  <2>2. /\ Len(hist'[t]) = Len(hist[t]) /\ DurationsOf(t)' = DurationsOf(t)
        /\ ButOne(OffsetsOf(t)', OffsetsOf(t), Len(hist[t]), k, x)
        /\ \A j \in 1..Len(hist[t]) : hist'[t][j].sync = hist[t][j].sync
    BY <2>1, HistoryCorrected
  <2> QED
    BY <1>1, <2>2
<1>4. Sound' => Sound
  BY DEF Sound, CountersGrow
<1>5. SaysTimes(t)' /\ SaysIds(t)' /\ SaysMedia(t)'
  BY <1>1, <1>3, <1>4 DEF Says, SaysTimes, SaysIds, SaysMedia, Corrects, CountersGrow
<1>6. SaysOffset(t)'
  <2> SUFFICES ASSUME Sound'
               PROVE  OffsetsSay(ctts'[t], OffsetsOf(t)', n)
    BY <1>3 DEF SaysOffset
  <2>1. OffsetsSay(ctts[t], OffsetsOf(t), n)
    BY <1>1, <1>4 DEF Says, SaysOffset
  <2>2. /\ OffsetsRight(ctts[t]) /\ cache[t].ctts \in CacheType
        /\ Points(ctts[t].runs, cache[t].ctts)
    BY DEF LookupInv, LookedUp, CachesRight, LookupsType
  <2>3. OffsetsSay(SetSampleRenderingOffset(ctts[t], cache[t].ctts, k, x, n).ctts,
                   OffsetsOf(t)', n)
    BY <1>1, <1>2, <1>3, <2>1, <2>2, SetSampleRenderingOffsetSay
  <2> QED
    BY <1>1, <2>3 DEF Corrects
<1>7. SaysSync(t)'
  <2> SUFFICES ASSUME Sound'
               PROVE  SyncSays(stss'[t], hist'[t], n)
    BY <1>3 DEF SaysSync
  <2>1. SyncSays(stss[t], hist[t], n) /\ stss'[t] = stss[t]
    BY <1>1, <1>4 DEF Says, SaysSync, Corrects
  <2> QED
    BY <1>3, <2>1, SyncSaysSame
<1> QED
  BY <1>5, <1>6, <1>7 DEF Says

LEMMA NextTableInv == IInv /\ LookupInv /\ SizesInv /\ TableInv /\ [Next]_vars => TableInv'
<1> SUFFICES ASSUME IInv, LookupInv, SizesInv, TableInv, [Next]_vars, NEW t \in Tracks
             PROVE  Says(t)'
  BY DEF TableInv
<1>1. CountersGrow /\ TableStep(t)
  BY EveryTableStep
<1>2. Says(t)
  BY DEF TableInv
<1> QED
  BY <1>1, <1>2, KeepsSays, RecordsSays, CorrectsSays DEF TableStep

LEMMA InitTableInv == Init => TableInv
<1> SUFFICES ASSUME Init, NEW t \in Tracks
             PROVE  Says(t)
  BY DEF TableInv
<1>1. /\ hist[t] = << >> /\ stts[t] = << >> /\ ctts[t] = NoOffsets /\ writeId[t] = 1
      /\ perChunk[t] = TimeScale /\ mediaDuration[t] = 0 /\ stss[t] = AllSync
  BY DEF Init
<1>2. Len(hist[t]) = 0
  BY <1>1
<1>3. SaysTimes(t)
  BY <1>1, <1>2, NoRunsEncode DEF SaysTimes
<1>4. SaysIds(t)
  BY <1>1, <1>2, TrackAssumption DEF SaysIds
<1>5. SaysOffset(t)
  BY <1>1, <1>2 DEF SaysOffset, OffsetsSay, NoOffsets
<1>6. SaysMedia(t)
  BY <1>1, <1>2, SumOfEmptyInterval, TrackAssumption DEF SaysMedia
<1>7. SaysSync(t)
  BY <1>1, <1>2 DEF SaysSync, SyncSays, AllSync
<1> QED
  BY <1>3, <1>4, <1>5, <1>6, <1>7 DEF Says

LEMMA TableInvariant == Spec => [](IInv /\ LookupInv /\ SizesInv /\ TableInv)
<1>1. Init => IInv /\ LookupInv /\ SizesInv /\ TableInv
  BY InitIInv, InitLookupInv, InitSizesInv, InitTableInv
<1>2. IInv /\ LookupInv /\ SizesInv /\ TableInv /\ [Next]_vars
          => (IInv /\ LookupInv /\ SizesInv /\ TableInv)'
  BY NextIInv, NextLookupInv, NextSizesInv, NextTableInv
<1> QED
  BY <1>1, <1>2, PTL DEF Spec

LEMMA TableInvTimes == IInv /\ LookupInv /\ TableInv => SampleTimes
<1> SUFFICES ASSUME IInv, LookupInv, TableInv, NEW t \in Tracks, NEW k \in 1..Len(hist[t])
             PROVE  /\ GetSampleTimes(stts[t], cache[t].stts, k).start = TimeBefore(t, k)
                    /\ GetSampleTimes(stts[t], cache[t].stts, k).duration = hist[t][k].duration
  BY DEF SampleTimes
<1>1. /\ stts[t] \in Seq(RunType) /\ cache[t].stts \in CacheType
      /\ Points(stts[t], cache[t].stts)
  BY DEF IInv, StateType, WriterType, LookupInv, LookedUp, CachesRight, LookupsType
<1>2. Encodes(stts[t], DurationsOf(t), Len(hist[t]))
  BY DEF TableInv, Says, SaysTimes
<1>3. /\ Len(hist[t]) \in Nat /\ \A j \in 1..Len(hist[t]) : DurationsOf(t)[j] \in Nat
      /\ DurationsOf(t)[k] = hist[t][k].duration
  BY HistoryIs
<1> QED
  BY <1>1, <1>2, <1>3, TimesAnswer DEF TimeBefore

LEMMA TableInvDurations == IInv /\ TableInv => DurationsAddUp
<1> SUFFICES ASSUME IInv, TableInv, NEW t \in Tracks
             PROVE  LET all == TimeBefore(t, Len(hist[t]) + 1)
                    IN  /\ SamplesIn(stts[t], 1, Len(stts[t])) = Len(hist[t])
                        /\ TimeIn(stts[t], 1, Len(stts[t])) = all
                        /\ faults = 0 /\ 0 \notin ChunkDurations => mediaDuration[t] = all
  BY DEF DurationsAddUp
<1>1. PICK n \in Nat : n = Len(hist[t]) /\ n + 1 - 1 = n
  BY HistoryIs
<1>2. stts[t] \in Seq(RunType) /\ Encodes(stts[t], DurationsOf(t), n)
  BY <1>1 DEF IInv, StateType, WriterType, TableInv, Says, SaysTimes
<1>3. Upto(stts[t], Len(stts[t])) = n
  BY <1>2 DEF Encodes
<1>4. Len(stts[t]) \in 0..Len(stts[t])
  <2>1. Len(stts[t]) \in Nat
    BY <1>2, RunIs
  <2> QED
    BY <2>1
<1>5. Until(stts[t], Len(stts[t])) = SumFunctionOnSet(DurationsOf(t), 1..n)
  <2>1. \A j \in 1..n : DurationsOf(t)[j] \in Nat
    BY <1>1, HistoryIs
  <2> QED
    BY <1>2, <1>3, <1>4, <2>1, UntilIsTime
<1>6. TimeBefore(t, n + 1) = SumFunctionOnSet(DurationsOf(t), 1..n)
  BY <1>1 DEF TimeBefore
<1>7. faults = 0 /\ 0 \notin ChunkDurations
          => mediaDuration[t] = SumFunctionOnSet(DurationsOf(t), 1..n)
  BY <1>1 DEF TableInv, Says, SaysMedia
<1> QED
  BY <1>1, <1>3, <1>5, <1>6, <1>7 DEF Upto, Until

LEMMA TableInvOffsets == IInv /\ LookupInv /\ TableInv => (Sound => RenderingOffsets)
<1> SUFFICES ASSUME IInv, LookupInv, TableInv, Sound, NEW t \in Tracks,
                    NEW k \in 1..Len(hist[t])
             PROVE  GetSampleRenderingOffset(ctts[t], cache[t].ctts, k).offset
                        = hist[t][k].offset
  BY DEF RenderingOffsets
<1>1. /\ OffsetsRight(ctts[t]) /\ cache[t].ctts \in CacheType
      /\ Points(ctts[t].runs, cache[t].ctts)
  BY DEF LookupInv, LookedUp, CachesRight, LookupsType
<1>2. OffsetsSay(ctts[t], OffsetsOf(t), Len(hist[t]))
  BY DEF TableInv, Says, SaysOffset
<1>3. Len(hist[t]) \in Nat /\ OffsetsOf(t)[k] = hist[t][k].offset
  BY HistoryIs
<1> QED
  BY <1>1, <1>2, <1>3, OffsetAnswer

LEMMA TableInvSync == IInv /\ TableInv => (Sound => SyncAnswers)
<1> SUFFICES ASSUME IInv, TableInv, Sound, NEW t \in Tracks, NEW k \in 1..Len(hist[t])
             PROVE  IsSyncSample(stss[t], k)
                        \in {IF hist[t][k].sync THEN "yes" ELSE "no", "thrown"}
  BY DEF SyncAnswers
<1>1. stss[t] \in SyncType /\ SyncSays(stss[t], hist[t], Len(hist[t]))
  BY DEF IInv, StateType, WriterType, SyncType, TableInv, Says, SaysSync
<1>2. Len(hist[t]) \in Nat
  BY HistoryIs
<1> QED
  BY <1>1, <1>2, SyncAnswer

LEMMA TableInvLookups == IInv /\ TableInv => (Sound => TimeLookups)
<1> SUFFICES ASSUME IInv, TableInv, Sound, NEW t \in Tracks,
                    NEW when \in 0..(TimeBefore(t, Len(hist[t]) + 1) - 1)
             PROVE  LET k == GetSampleIdFromTime(stts[t], stss[t], when, FALSE)
                        s == GetSampleIdFromTime(stts[t], stss[t], when, TRUE)
                        syncs == {j \in k..Len(hist[t]) : hist[t][j].sync}
                    IN  /\ k \in 1..Len(hist[t])
                        /\ TimeBefore(t, k) <= when /\ when <= TimeBefore(t, k + 1)
                        /\ s = IF syncs = {} THEN INVALID_SAMPLE_ID ELSE Min(syncs)
  BY DEF TimeLookups
<1>1. PICK n \in Nat : n = Len(hist[t]) /\ n + 1 - 1 = n
  BY HistoryIs
<1>2. stss[t] \in SyncType /\ SyncSays(stss[t], hist[t], n)
  BY <1>1 DEF IInv, StateType, WriterType, SyncType, TableInv, Says, SaysSync
<1>3. stts[t] \in Seq(RunType) /\ Encodes(stts[t], DurationsOf(t), n)
  BY <1>1 DEF IInv, StateType, WriterType, TableInv, Says, SaysTimes
<1>4. \A k \in 1..n : DurationsOf(t)[k] \in Nat
  BY <1>1, HistoryIs
<1>5. when \in Nat /\ when < SumFunctionOnSet(DurationsOf(t), 1..n)
  <2>1. SumFunctionOnSet(DurationsOf(t), 1..n) \in Nat
    BY <1>4, SumGrows
  <2>2. TimeBefore(t, n + 1) = SumFunctionOnSet(DurationsOf(t), 1..n)
    BY <1>1 DEF TimeBefore
  <2> QED
    BY <1>1, <2>1, <2>2
<1>6. PICK k \in 1..n :
          /\ LiesIn(when, DurationsOf(t), n, k)
          /\ GetSampleIdFromTime(stts[t], stss[t], when, FALSE) = k
          /\ GetSampleIdFromTime(stts[t], stss[t], when, TRUE) = GetNextSyncSample(stss[t], k)
  <2>1. Found(stts[t], stss[t], when, DurationsOf(t), n)
    BY <1>3, <1>4, <1>5, TimeAnswer
  <2> QED
    BY <2>1 DEF Found
<1>7. GetNextSyncSample(stss[t], k)
      = LET syncs == {j \in k..n : hist[t][j].sync}
        IN  IF syncs = {} THEN INVALID_SAMPLE_ID ELSE Min(syncs)
  BY <1>2, NextSyncAnswer
<1>8. TimeBefore(t, k) <= when /\ when <= TimeBefore(t, k + 1)
  <2>1. k + 1 - 1 = k
    OBVIOUS
  <2> QED
    BY <1>6, <2>1 DEF LiesIn, TimeBefore
<1> QED
  BY <1>1, <1>6, <1>7, <1>8, Zenon

\* MP4GetSampleTime and MP4GetSampleDuration answer, for every sample, with
\* the sum of the durations before it and with its own duration, whatever
\* earlier lookups left in the cache, in any session and also for samples
\* whose flush failed (MP4Track::GetSampleTimes).
THEOREM TimesAreThoseWritten == Spec => []SampleTimes
BY TableInvariant, TableInvTimes, PTL

\* The runs of the duration table count every sample and last as long as all
\* of them; the track's media duration is that sum as long as no call failed
\* (MP4Track::UpdateSampleTimes, MP4Track::UpdateDurations).
THEOREM DurationsAreSums == Spec => []DurationsAddUp
BY TableInvariant, TableInvDurations, PTL

\* MP4GetSampleRenderingOffset answers with the offset written or set last,
\* although SetSampleRenderingOffset splits runs under the cache, as long as
\* no failed call or second session has confused the sample ids
\* (MP4Track::UpdateRenderingOffsets, SetSampleRenderingOffset).
THEOREM OffsetsAreThoseSet == Spec => [](Sound => RenderingOffsets)
BY TableInvariant, TableInvOffsets, PTL

\* MP4GetSampleSync, when its binary search does not run out of the table,
\* answers with the flag the sample was written with, under the same
\* conditions (MP4Track::UpdateSyncSamples, MP4Track::IsSyncSample).
THEOREM SyncFlagsAreThoseWritten == Spec => [](Sound => SyncAnswers)
BY TableInvariant, TableInvSync, PTL

\* MP4GetSampleIdFromTime finds a sample the time lies in and, asked for one,
\* the first sync sample from there on (MP4Track::GetSampleIdFromTime,
\* MP4Track::GetNextSyncSample).
THEOREM TimesAreFound == Spec => [](Sound => TimeLookups)
BY TableInvariant, TableInvLookups, PTL
=============================================================================
