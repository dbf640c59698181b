----------------------------- MODULE Induction ------------------------------
(***************************************************************************)
(* Induction over the numbers in a form that needs no operator as a        *)
(* parameter: the predicate is a set, and what would be the first          *)
(* counterexample is the least element of its complement. With it the      *)
(* other modules show that recursive functions, such as the walks over     *)
(* commits, exist and what they compute. A fold over a sequence is a       *)
(* function on the sets of its first places: what holds of the states it   *)
(* passes through is an induction over the places.                         *)
(***************************************************************************)
EXTENDS Integers, FiniteSetsExt, SequencesExt, FiniteSetTheorems, SequenceTheorems, WellFoundedInduction, TLAPS

\* A set of numbers has a least element.
LEMMA LeastElement ==
  ASSUME NEW T, T \subseteq Nat, T # {}
  PROVE  \E x \in T : \A y \in T : x <= y
<1> DEFINE R == {ss \in Nat \X Nat : ss[1] < ss[2]}
<1>1. IsWellFoundedOn(R, Nat)
  BY NatLessThanWellFounded DEF OpToRel
<1>2. PICK x \in T : \A y \in T : ~(<<y, x>> \in R)
  BY <1>1, WFMin
<1>3. ASSUME NEW y \in T PROVE x <= y
  <2>1. x \in Nat /\ y \in Nat /\ ~(<<y, x>> \in R)
    BY <1>2
  <2> QED BY <2>1 DEF R
<1> QED BY <1>3

\* A set that has zero, and the next of each number in it, has every number.
LEMMA InductionOverSet ==
  ASSUME NEW S, 0 \in S, \A n \in Nat : n \in S => n + 1 \in S
  PROVE  \A n \in Nat : n \in S
<1> DEFINE T == {n \in Nat : n \notin S}
<1>1. ASSUME T # {} PROVE FALSE
  <2>1. PICK x \in T : \A y \in T : x <= y
    BY <1>1, LeastElement
  <2>2. x \in Nat /\ x \notin S /\ x # 0
    BY <2>1
  <2>3. x - 1 \in Nat /\ x - 1 \notin T
    BY <2>1, <2>2
  <2>4. x - 1 \in S /\ (x - 1) + 1 = x
    BY <2>2, <2>3
  <2> QED BY <2>2, <2>3, <2>4
<1> QED BY <1>1

\* A set that has each number whose smaller ones it has, has every number.
LEMMA StrongInductionOverSet ==
  ASSUME NEW S, \A n \in Nat : (\A m \in 0..(n - 1) : m \in S) => n \in S
  PROVE  \A n \in Nat : n \in S
<1> DEFINE T == {n \in Nat : n \notin S}
<1>1. ASSUME T # {} PROVE FALSE
  <2>1. PICK x \in T : \A y \in T : x <= y
    BY <1>1, LeastElement
  <2>2. x \in Nat /\ x \notin S
    BY <2>1
  <2>3. ASSUME NEW m \in 0..(x - 1) PROVE m \in S
    <3>1. m \in Nat /\ ~(x <= m)
      BY <2>2
    <3> QED BY <3>1, <2>1
  <2> QED BY <2>2, <2>3
<1> QED BY <1>1

\* A finite set of numbers has a greatest and a least one.
LEMMA FiniteHasGreatest ==
  ASSUME NEW S, S \subseteq Int, IsFiniteSet(S), S # {}
  PROVE  \E m \in S : \A y \in S : m >= y
<1> DEFINE Good == {n \in Nat : \A T \in SUBSET Int : IsFiniteSet(T) /\ Cardinality(T) = n + 1 => \E m \in T : \A y \in T : m >= y}
<1>1. 0 \in Good
  <2>1. ASSUME NEW T \in SUBSET Int, IsFiniteSet(T), Cardinality(T) = 1 PROVE \E m \in T : \A y \in T : m >= y
    <3>1. PICK x : T = {x}
      BY <2>1, FS_Singleton
    <3> QED BY <3>1
  <2> QED BY <2>1
<1>2. ASSUME NEW n \in Nat, n \in Good PROVE n + 1 \in Good
  <2>1. ASSUME NEW T \in SUBSET Int, IsFiniteSet(T), Cardinality(T) = n + 2 PROVE \E m \in T : \A y \in T : m >= y
    <3>0. T # {}
      <4>1. Cardinality({}) = 0 /\ n + 2 # 0
        BY FS_EmptySet
      <4> QED BY <2>1, <4>1
    <3>1. PICK x \in T : TRUE
      BY <3>0
    <3>2. IsFiniteSet(T \ {x}) /\ Cardinality(T \ {x}) = n + 1 /\ T \ {x} \in SUBSET Int
      BY <2>1, <3>1, FS_RemoveElement
    <3>3. PICK m \in T \ {x} : \A y \in T \ {x} : m >= y
      BY <1>2, <3>2
    <3>4. CASE m >= x
      BY <3>3, <3>4
    <3>5. CASE x > m
      BY <3>1, <3>3, <3>5
    <3> QED BY <3>1, <3>3, <3>4, <3>5
  <2>2. n + 1 \in Nat /\ (n + 1) + 1 = n + 2
    OBVIOUS
  <2> QED BY <2>1, <2>2
<1>3. \A n \in Nat : n \in Good
  <2> HIDE DEF Good
  <2>1. \A n \in Nat : n \in Good => n + 1 \in Good
    BY <1>2
  <2> QED BY <1>1, <2>1, InductionOverSet
<1>4. Cardinality(S) \in Nat /\ Cardinality(S) # 0
  BY FS_CardinalityType, FS_EmptySet
<1>5. Cardinality(S) - 1 \in Good
  <2> HIDE DEF Good
  <2> QED BY <1>3, <1>4
<1> QED BY <1>4, <1>5

\* Max chooses the greatest number of a finite set.
LEMMA GreatestOf ==
  ASSUME NEW S, S \subseteq Int, IsFiniteSet(S), S # {}
  PROVE  Max(S) \in S /\ \A y \in S : y <= Max(S)
<1>1. Max(S) \in S /\ \A y \in S : Max(S) >= y
  BY FiniteHasGreatest DEF Max
<1>2. \A y \in S : y \in Int
  OBVIOUS
<1> HIDE DEF Max
<1> QED BY <1>1, <1>2

\* Min chooses the least number, where there is one.
LEMMA LeastOf ==
  ASSUME NEW S, NEW m \in S, S \subseteq Int, \A y \in S : m <= y
  PROVE  Min(S) = m
<1>1. Min(S) \in S /\ \A y \in S : Min(S) <= y
  BY DEF Min
<1>2. Min(S) \in Int /\ m \in Int /\ m <= Min(S) /\ Min(S) <= m
  BY <1>1
<1> QED BY <1>2


\* The greatest of the first numbers, and what is left of them without it.
LEMMA FirstNumbers ==
  /\ 1..0 = {}
  /\ \A i \in Nat : i > 0 => Max(1..i) = i /\ (1..i) \ {i} = 1..(i - 1) /\ 1..i # {}
<1>1. ASSUME NEW i \in Nat, i > 0 PROVE Max(1..i) = i
  <2>1. i \in 1..i /\ 1..i \subseteq Int /\ IsFiniteSet(1..i) /\ 1..i # {}
    <3>1. i \in 1..i
      BY <1>1
    <3>2. IsFiniteSet(1..i)
      BY FS_Interval
    <3> QED BY <3>1, <3>2
  <2>2. Max(1..i) \in 1..i /\ i <= Max(1..i)
    BY <2>1, GreatestOf
  <2> QED BY <2>2
<1>2. ASSUME NEW i \in Nat, i > 0 PROVE (1..i) \ {i} = 1..(i - 1) /\ 1..i # {}
  <2>1. i \in 1..i
    BY <1>2
  <2>2. \A j \in Int : (j \in 1..i /\ j # i) <=> j \in 1..(i - 1)
    BY <1>2
  <2>3. 1..i \subseteq Int /\ 1..(i - 1) \subseteq Int
    OBVIOUS
  <2> QED BY ONLY <2>1, <2>2, <2>3
<1> QED BY <1>1, <1>2, SMTT(30)

\* The greatest of some of the first k places is one of them, and the others
\* come before it.
LEMMA SubsetsOfFirst ==
  ASSUME NEW k \in Nat, NEW s \in SUBSET (1..k), s # {}
  PROVE  Max(s) \in s /\ s \ {Max(s)} \in SUBSET (1..(k - 1)) /\ s \ {Max(s)} \in SUBSET (1..k)
<1>1. IsFiniteSet(s) /\ s \subseteq Int
  <2>1. IsFiniteSet(1..k)
    BY FS_Interval
  <2>2. 1..k \subseteq Int
    OBVIOUS
  <2> QED BY <2>1, <2>2, FS_Subset
<1>2. Max(s) \in s /\ \A y \in s : y <= Max(s)
  BY <1>1, GreatestOf
<1>3. ASSUME NEW y \in s, y # Max(s) PROVE y \in 1..(k - 1)
  <2>1. y \in 1..k /\ Max(s) \in 1..k /\ y <= Max(s)
    BY <1>2
  <2> QED BY <1>3, <2>1
<1> QED BY <1>2, <1>3

\* What the fold of a sequence makes of a set s of its first places, from what
\* it makes of less.
Next1(base, step, g, s) == IF s = {} THEN base ELSE step[<<g[s \ {Max(s)}], Max(s)>>]

\* g is the fold of n places.
IsFold(n, States, base, step, g) ==
  g \in [SUBSET (1..n) -> States] /\ \A s \in SUBSET (1..n) : g[s] = Next1(base, step, g, s)

\* A fold exists, if its steps stay among the states.
LEMMA FoldSteps ==
  ASSUME NEW n \in Nat, NEW States, NEW base \in States, NEW step \in [States \X (1..n) -> States]
  PROVE  \E g : IsFold(n, States, base, step, g)
<1> USE DEF IsFold
<1> DEFINE Has(k, g) == g \in [SUBSET (1..k) -> States] /\ \A s \in SUBSET (1..k) : g[s] = Next1(base, step, g, s)
           Good == {k \in Nat : k <= n => \E g : Has(k, g)}
<1>1. 0 \in Good
  <2>1. SUBSET (1..0) = {{}}
    OBVIOUS
  <2>2. Has(0, [s \in SUBSET (1..0) |-> base])
    BY <2>1 DEF Next1
  <2> HIDE DEF Has
  <2> QED BY <2>2
<1>2. ASSUME NEW k \in Nat, k \in Good PROVE k + 1 \in Good
  <2>1. SUFFICES ASSUME k + 1 <= n PROVE \E g : Has(k + 1, g)
    <3> HIDE DEF Has
    <3> QED OBVIOUS
  <2>2. PICK f : Has(k, f)
    <3>1. k <= n
      BY <2>1
    <3> HIDE DEF Has
    <3> QED BY <1>2, <3>1
  <2> DEFINE g == [s \in SUBSET (1..(k + 1)) |-> Next1(base, step, f, s)]
  <2>3. \A s \in SUBSET (1..k) : s \in SUBSET (1..(k + 1)) /\ g[s] = f[s]
    BY <2>2
  <2>4. \A s \in SUBSET (1..(k + 1)) : s # {} => Max(s) \in 1..n /\ s \ {Max(s)} \in SUBSET (1..k)
    <3>1. ASSUME NEW s \in SUBSET (1..(k + 1)), s # {} PROVE Max(s) \in 1..n /\ s \ {Max(s)} \in SUBSET (1..k)
      <4>1. Max(s) \in s /\ s \ {Max(s)} \in SUBSET (1..((k + 1) - 1))
        BY <3>1, SubsetsOfFirst
      <4>2. Max(s) \in 1..(k + 1) /\ (k + 1) - 1 = k
        <5>1. s \subseteq 1..(k + 1)
          OBVIOUS
        <5>2. Max(s) \in 1..(k + 1)
          BY <4>1, <5>1, Zenon
        <5>3. (k + 1) - 1 = k
          OBVIOUS
        <5> QED BY <5>2, <5>3
      <4> QED BY <2>1, <4>1, <4>2
    <3> QED BY <3>1
  <2>5. ASSUME NEW s \in SUBSET (1..(k + 1)) PROVE g[s] \in States /\ g[s] = Next1(base, step, g, s)
    <3>1. CASE s = {}
      BY <3>1 DEF Next1
    <3>2. CASE s # {}
      <4>1. PICK m, r : m = Max(s) /\ r = s \ {m}
        OBVIOUS
      <4>2. m \in 1..n /\ r \in SUBSET (1..k)
        BY <2>4, <3>2, <4>1
      <4>3. f[r] \in States /\ g[r] = f[r]
        BY <2>2, <2>3, <4>2
      <4>4. g[s] = step[<<f[r], m>>]
        BY <3>2, <4>1 DEF Next1
      <4>5. Next1(base, step, g, s) = step[<<g[r], m>>]
        <5> HIDE DEF g
        <5> QED BY <3>2, <4>1 DEF Next1
      <4> HIDE DEF g
      <4> QED BY <4>2, <4>3, <4>4, <4>5
    <3> QED BY <3>1, <3>2
  <2>6. Has(k + 1, g)
    <3>1. g = [s \in SUBSET (1..(k + 1)) |-> g[s]]
      OBVIOUS
    <3> HIDE DEF g
    <3> QED BY <2>5, <3>1
  <2> HIDE DEF Has, g
  <2> QED BY <2>6
<1>3. \A k \in Nat : k \in Good
  <2> HIDE DEF Good
  <2>1. \A k \in Nat : k \in Good => k + 1 \in Good
    BY <1>2
  <2> QED BY <1>1, <2>1, InductionOverSet
<1>4. \E g : Has(n, g)
  <2> HIDE DEF Has
  <2> QED BY <1>3
<1> QED BY <1>4

\* g goes the way of a fold for as long as it stays among the states.
GoesAsFold(n, States, base, step, g) ==
  /\ g[{}] = base
  /\ \A s \in SUBSET (1..n) : s # {} /\ g[s \ {Max(s)}] \in States => g[s] = step[<<g[s \ {Max(s)}], Max(s)>>]

AdvancesBy(n, States, base, step, g) ==
  /\ g[1..0] = base
  /\ \A i \in 1..n : g[1..i] = step[<<g[1..(i - 1)], i>>]
  /\ \A i \in 0..n : g[1..i] \in States

\* The states of a fold, one for each number of places.
LEMMA FoldStates ==
  ASSUME NEW n \in Nat, NEW States, NEW base \in States, NEW step \in [States \X (1..n) -> States],
         NEW g, GoesAsFold(n, States, base, step, g)
  PROVE  AdvancesBy(n, States, base, step, g)
<1> USE DEF GoesAsFold, AdvancesBy
<1>1. g[1..0] = base
  BY FirstNumbers
<1>2. ASSUME NEW i \in 1..n, g[1..(i - 1)] \in States PROVE g[1..i] = step[<<g[1..(i - 1)], i>>]
  <2>1. 1..i \in SUBSET (1..n) /\ i \in Nat /\ i > 0
    OBVIOUS
  <2>2. Max(1..i) = i /\ (1..i) \ {i} = 1..(i - 1) /\ 1..i # {}
    BY <2>1, FirstNumbers
  <2> QED BY <1>2, <2>1, <2>2, Zenon
<1> DEFINE Good == {i \in Nat : i <= n => g[1..i] \in States}
<1>3. 0 \in Good
  BY <1>1
<1>4. ASSUME NEW i \in Nat, i \in Good PROVE i + 1 \in Good
  <2>1. ASSUME i + 1 <= n PROVE g[1..(i + 1)] \in States
    <3>1. i + 1 \in 1..n /\ (i + 1) - 1 = i /\ i <= n
      BY <2>1
    <3>2. g[1..i] \in States
      BY <1>4, <3>1
    <3>3. g[1..(i + 1)] = step[<<g[1..i], i + 1>>]
      BY <1>2, <3>1, <3>2
    <3> QED BY <3>1, <3>2, <3>3
  <2> QED BY <2>1
<1>5. \A i \in Nat : i \in Good
  <2> HIDE DEF Good
  <2>1. \A i \in Nat : i \in Good => i + 1 \in Good
    BY <1>4
  <2> QED BY <1>3, <2>1, InductionOverSet
<1>6. \A i \in 0..n : g[1..i] \in States
  BY <1>5
<1>7. ASSUME NEW i \in 1..n PROVE g[1..i] = step[<<g[1..(i - 1)], i>>]
  <2>1. i - 1 \in 0..n
    OBVIOUS
  <2> QED BY <1>2, <1>6, <2>1
<1> QED BY <1>1, <1>6, <1>7

\* The sequences put together so far, one for each number of sequences.
Runs(S, s, st) ==
  /\ st \in [0..Len(s) -> Seq(S)]
  /\ st[0] = <<>>
  /\ \A i \in 1..Len(s) : st[i] = st[i - 1] \o s[i]
  /\ FlattenSeq(s) = st[Len(s)]

FlatFold(s) ==
  CHOOSE flatten : flatten = [i \in 1..Len(s) |-> IF i = 1 THEN s[i] ELSE flatten[i - 1] \o s[i]]

\* The sequences put together, by the function that puts them together.
LEMMA FlattenIs ==
  ASSUME NEW s
  PROVE  FlattenSeq(s) = IF Len(s) = 0 THEN s ELSE FlatFold(s)[Len(s)]
BY Zenon DEF FlattenSeq, FlatFold

\* Putting sequences together passes through one sequence for each of them.
LEMMA FlattenRuns ==
  ASSUME NEW S, NEW s \in Seq(Seq(S))
  PROVE  \E st : Runs(S, s, st)
<1> DEFINE step == [x \in Seq(S) \X (1..Len(s)) |-> x[1] \o s[x[2]]]
<1>1. PICK n \in Nat : n = Len(s) /\ \A i \in 1..n : s[i] \in Seq(S)
  <2>1. Len(s) \in Nat /\ \A i \in 1..Len(s) : s[i] \in Seq(S)
    OBVIOUS
  <2> QED BY ONLY <2>1
<1>2. PICK base \in Seq(S) : base = <<>>
  <2>1. <<>> \in Seq(S)
    OBVIOUS
  <2> QED BY ONLY <2>1
<1>3. step \in [Seq(S) \X (1..n) -> Seq(S)]
  BY <1>1
<1>4. \A t \in Seq(S), i \in 1..n : step[<<t, i>>] = t \o s[i]
  BY <1>1
<1> HIDE DEF step
<1>5. PICK g : IsFold(n, Seq(S), base, step, g)
  BY <1>3, FoldSteps
<1>6. AdvancesBy(n, Seq(S), base, step, g)
  <2>1. GoesAsFold(n, Seq(S), base, step, g)
    <3>1. {} \in SUBSET (1..n)
      OBVIOUS
    <3> QED BY <1>5, <3>1 DEF IsFold, GoesAsFold, Next1
  <2> QED BY <1>3, <2>1, FoldStates
<1>7. g[1..0] = base /\ (\A i \in 1..n : g[1..i] = step[<<g[1..(i - 1)], i>>]) /\ (\A i \in 0..n : g[1..i] \in Seq(S))
  BY <1>6 DEF AdvancesBy
<1> DEFINE st == [i \in 0..n |-> g[1..i]]
<1>8. st \in [0..n -> Seq(S)] /\ st[0] = <<>>
  BY <1>2, <1>7
<1>9. \A i \in 1..n : st[i] = st[i - 1] \o s[i]
  <2>1. ASSUME NEW i \in 1..n PROVE st[i] = st[i - 1] \o s[i]
    <3>1. i - 1 \in 0..n /\ i \in 0..n
      OBVIOUS
    <3>2. st[i] = g[1..i] /\ st[i - 1] = g[1..(i - 1)] /\ g[1..(i - 1)] \in Seq(S)
      BY <1>7, <3>1
    <3> QED BY <1>4, <1>7, <3>2
  <2> QED BY <2>1
<1> HIDE DEF st
<1>10. FlattenSeq(s) = st[n]
  <2>1. CASE n = 0
    <3>1. s = <<>>
      BY <1>1, <2>1, EmptySeq
    <3> QED BY <1>1, <1>8, <2>1, <3>1, FlattenIs
  <2>2. CASE n # 0
    <3> DEFINE Body(h, i) == IF i = 1 THEN s[i] ELSE h[i - 1] \o s[i]
               h == [i \in 1..n |-> st[i]]
               f == FlatFold(s)
    <3>1. h = [i \in 1..n |-> Body(h, i)]
      <4>1. ASSUME NEW i \in 1..n PROVE st[i] = Body(h, i)
        <5>1. CASE i = 1
          <6>0. 1 \in 1..n /\ 1 - 1 = 0
            BY <5>1
          <6>1. st[1] = st[1 - 1] \o s[1] /\ 1 - 1 = 0
            BY ONLY <1>9, <6>0
          <6>2. st[1] = s[1]
            BY <1>1, <1>8, <5>1, <6>1, ConcatEmptySeq
          <6> QED BY <5>1, <6>2
        <5>2. CASE i # 1
          <6>1. i - 1 \in 1..n
            BY <5>2
          <6> QED BY <1>9, <5>2, <6>1
        <5> QED BY <5>1, <5>2
      <4>2. \A i \in 1..n : st[i] = Body(h, i)
        BY <4>1
      <4> HIDE DEF Body
      <4> QED BY <4>2
    <3>2. f = [i \in 1..n |-> Body(f, i)]
      <4>1. f = CHOOSE flatten : flatten = [i \in 1..n |-> Body(flatten, i)]
        BY <1>1 DEF FlatFold
      <4> HIDE DEF f, h, Body
      <4> QED BY <3>1, <4>1
    <3>3. FlattenSeq(s) = f[n]
      BY <1>1, <2>2, FlattenIs
    <3> HIDE DEF f, h
    <3> DEFINE Same == {i \in Nat : i + 1 <= n => f[i + 1] = st[i + 1]}
    <3>4. 0 \in Same
      <4>1. f[1] = s[1]
        BY <2>2, <3>2
      <4>0. 1 \in 1..n /\ 1 - 1 = 0
        BY <2>2
      <4>2. st[1] = st[1 - 1] \o s[1] /\ 1 - 1 = 0
        BY ONLY <1>9, <4>0
      <4>3. st[1] = s[1]
        BY <1>1, <1>8, <2>2, <4>2, ConcatEmptySeq
      <4> QED BY <4>1, <4>3
    <3>5. ASSUME NEW i \in Nat, i \in Same PROVE i + 1 \in Same
      <4>1. ASSUME (i + 1) + 1 <= n PROVE f[(i + 1) + 1] = st[(i + 1) + 1]
        <5>1. (i + 1) + 1 \in 1..n /\ ((i + 1) + 1) - 1 = i + 1 /\ (i + 1) + 1 # 1 /\ i + 1 <= n
          BY <4>1
        <5>2. f[(i + 1) + 1] = f[i + 1] \o s[(i + 1) + 1]
          BY <3>2, <5>1
        <5>3. st[(i + 1) + 1] = st[i + 1] \o s[(i + 1) + 1]
          BY <1>9, <5>1
        <5> QED BY <3>5, <5>1, <5>2, <5>3
      <4> QED BY <4>1
    <3>6. \A i \in Nat : i \in Same
      <4> HIDE DEF Same
      <4>1. \A i \in Nat : i \in Same => i + 1 \in Same
        BY <3>5
      <4> QED BY <3>4, <4>1, InductionOverSet
    <3>7. n - 1 \in Nat /\ (n - 1) + 1 = n
      BY <2>2
    <3>8. f[n] = st[n]
      <4>1. n - 1 \in Same
        BY <3>6, <3>7
      <4>2. (n - 1) + 1 <= n
        BY <3>7
      <4> QED BY <3>7, <4>1, <4>2
    <3> QED BY <3>3, <3>8
  <2> QED BY <2>1, <2>2
<1> QED BY <1>1, <1>8, <1>9, <1>10 DEF Runs
=============================================================================
