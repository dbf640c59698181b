------------------------ MODULE VersionStore_proofs ------------------------
(***************************************************************************)
(* The browser's model and version control: undo and redo walk one line,   *)
(* every two commits have a lowest merge base, merge() reports exactly the *)
(* features both sides changed, and branches only move forward.            *)
(*                                                                         *)
(* The commits are a tree that grows at its leaves: every commit but the   *)
(* first has one parent, of a smaller id. What is computed from the tree   *)
(* recursively is shown to exist, and to have its value, by induction on   *)
(* ids (module Induction).                                                 *)
(***************************************************************************)
EXTENDS VersionStore, Induction, SequenceTheorems, TLAPS

--------------------------------------------------------------------------
(* The tree of commits, and the ancestors of a commit.                     *)

\* makeCommit() and applyMerge() give a commit the id of HEAD as its only
\* parent, so that only the root has none.
Tree ==
  /\ commits \in Seq(Commit) /\ Len(commits) >= 1
  /\ commits[1].parents = <<>>
  /\ \A i \in 2..Len(commits) : \E p \in 1..(i - 1) : commits[i].parents = <<p>>

LEMMA RangeOfSmall ==
  /\ Range(<<>>) = {}
  /\ \A p : Range(<<p>>) = {p}
  BY DEF Range

\* The recursion of ancestors(), for the ids up to n.
IsAncestry(g, n) ==
  g = [i \in 1..n |-> {i} \cup UNION {g[p] : p \in Range(commits[i].parents)}]

\* Parents have smaller ids.
LEMMA ParentsAreEarlier ==
  ASSUME Tree, NEW i \in Id, NEW p \in Range(commits[i].parents)
  PROVE  p \in 1..(i - 1) /\ p \in Id
<1>1. i = 1 \/ i \in 2..Len(commits)
  BY DEF Tree, Id
<1>2. i # 1
  BY RangeOfSmall DEF Tree
<1>3. PICK q \in 1..(i - 1) : commits[i].parents = <<q>>
  BY <1>1, <1>2 DEF Tree
<1>4. p = q
  BY <1>3, RangeOfSmall
<1> QED BY <1>1, <1>2, <1>3, <1>4 DEF Tree, Id

LEMMA AncestryExists ==
  ASSUME Tree
  PROVE  \E g : IsAncestry(g, Len(commits))
<1> DEFINE S == {n \in Nat : n <= Len(commits) => \E g : IsAncestry(g, n)}
<1>1. 0 \in S
  <2>1. IsAncestry([i \in {} |-> {}], 0)
    <3>1. 1..0 = {}
      OBVIOUS
    <3> QED BY <3>1 DEF IsAncestry
  <2> QED BY <2>1
<1>2. ASSUME NEW n \in Nat, n \in S PROVE n + 1 \in S
  <2>1. CASE n + 1 <= Len(commits)
    <3>1. n <= Len(commits) /\ Len(commits) \in Nat
      BY <2>1 DEF Tree
    <3>2. PICK g : IsAncestry(g, n)
      BY <1>2, <3>1
    <3> DEFINE Up(f, i) == {i} \cup UNION {f[p] : p \in Range(commits[i].parents)}
               h == [i \in 1..(n + 1) |-> IF i = n + 1 THEN Up(g, i) ELSE g[i]]
    <3>3. ASSUME NEW i \in 1..(n + 1) PROVE h[i] = Up(h, i)
      <4>1. i \in Id
        BY <2>1, <3>1 DEF Tree, Id
      <4>2. \A p \in Range(commits[i].parents) : p \in 1..(i - 1) /\ h[p] = g[p]
        BY <4>1, ParentsAreEarlier
      <4>3. Up(h, i) = Up(g, i)
        BY <4>2
      <4>4. i \in 1..n => g[i] = Up(g, i)
        BY <3>2 DEF IsAncestry
      <4>5. h[i] = IF i = n + 1 THEN Up(g, i) ELSE g[i]
        OBVIOUS
      <4>6. i = n + 1 \/ i \in 1..n
        OBVIOUS
      <4> HIDE DEF Up, h
      <4> QED BY <4>3, <4>4, <4>5, <4>6
    <3>4. h = [i \in 1..(n + 1) |-> Up(h, i)]
      <4> HIDE DEF Up
      <4> QED BY <3>3
    <3>5. IsAncestry(h, n + 1)
      BY <3>4 DEF IsAncestry
    <3> QED BY <3>5
  <2> QED BY <2>1
<1>3. \A n \in Nat : n \in S
  <2> HIDE DEF S
  <2> QED BY <1>1, <1>2, InductionOverSet
<1> QED BY <1>3 DEF Tree

\* The ancestors of a commit are itself and those of its parents.
LEMMA AncestorsUnfold ==
  ASSUME Tree
  PROVE  /\ AncestorsOf[1] = {1}
         /\ \A i \in 2..Len(commits) : \E p \in 1..(i - 1) :
               commits[i].parents = <<p>> /\ AncestorsOf[i] = {i} \cup AncestorsOf[p]
<1>1. Id = 1..Len(commits)
  BY DEF Tree, Id
<1>2. \E g : g = [i \in Id |-> {i} \cup UNION {g[p] : p \in Range(commits[i].parents)}]
  BY <1>1, AncestryExists DEF IsAncestry
<1>3. AncestorsOf = [i \in Id |-> {i} \cup UNION {AncestorsOf[p] : p \in Range(commits[i].parents)}]
  BY <1>2 DEF AncestorsOf
<1>4. \A i \in Id : AncestorsOf[i] = {i} \cup UNION {AncestorsOf[p] : p \in Range(commits[i].parents)}
  BY <1>3
<1> HIDE DEF AncestorsOf
<1>5. AncestorsOf[1] = {1}
  BY <1>1, <1>4, RangeOfSmall DEF Tree
<1>6. ASSUME NEW i \in 2..Len(commits)
      PROVE  \E p \in 1..(i - 1) :
               commits[i].parents = <<p>> /\ AncestorsOf[i] = {i} \cup AncestorsOf[p]
  <2>1. PICK p \in 1..(i - 1) : commits[i].parents = <<p>>
    BY DEF Tree
  <2>2. i \in Id
    BY <1>1
  <2>3. {AncestorsOf[q] : q \in Range(commits[i].parents)} = {AncestorsOf[p]}
    BY <2>1, RangeOfSmall
  <2>4. UNION {AncestorsOf[p]} = AncestorsOf[p]
    OBVIOUS
  <2> QED BY <1>4, <2>1, <2>2, <2>3, <2>4
<1> QED BY <1>5, <1>6

\* Ancestors have smaller ids, the root is one of them, and those of an
\* ancestor are ancestors.
LEMMA AncestorsShape ==
  ASSUME Tree
  PROVE  \A i \in Id : /\ i \in AncestorsOf[i] /\ 1 \in AncestorsOf[i]
                       /\ AncestorsOf[i] \subseteq 1..i
                       /\ \A j \in AncestorsOf[i] : AncestorsOf[j] \subseteq AncestorsOf[i]
<1> DEFINE Shape(i) == /\ i \in AncestorsOf[i] /\ 1 \in AncestorsOf[i]
                       /\ AncestorsOf[i] \subseteq 1..i
                       /\ \A j \in AncestorsOf[i] : AncestorsOf[j] \subseteq AncestorsOf[i]
           S == {i \in Nat : i \in 1..Len(commits) => Shape(i)}
<1>1. ASSUME NEW n \in Nat, \A m \in 0..(n - 1) : m \in S PROVE n \in S
  <2>1. CASE n = 1
    <3>1. AncestorsOf[n] = {1}
      BY <2>1, AncestorsUnfold
    <3> QED BY <2>1, <3>1
  <2>2. CASE n \in 2..Len(commits)
    <3>1. PICK p \in 1..(n - 1) : AncestorsOf[n] = {n} \cup AncestorsOf[p]
      BY <2>2, AncestorsUnfold
    <3>2. p \in S /\ p \in 1..Len(commits)
      BY <1>1, <2>2 DEF Tree
    <3>3. Shape(p)
      BY <3>2
    <3>4. n \in AncestorsOf[n] /\ 1 \in AncestorsOf[n]
      BY <3>1, <3>3
    <3>5. AncestorsOf[n] \subseteq 1..n
      BY <3>1, <3>3
    <3>6. \A j \in AncestorsOf[n] : AncestorsOf[j] \subseteq AncestorsOf[n]
      BY <3>1, <3>3
    <3> QED BY <3>4, <3>5, <3>6
  <2>3. n = 1 \/ n \in 2..Len(commits) \/ n \notin 1..Len(commits)
    BY DEF Tree
  <2> QED BY <2>1, <2>2, <2>3
<1>2. \A n \in Nat : n \in S
  <2> HIDE DEF S
  <2> QED BY <1>1, StrongInductionOverSet
<1>3. \A i \in 1..Len(commits) : Shape(i)
  <2> HIDE DEF Shape
  <2> QED BY <1>2
<1> QED BY <1>3 DEF Tree, Id

--------------------------------------------------------------------------
(* The merge base.                                                         *)

\* The walk of mergeBase(), its first n rounds.
Start(b) == [queue |-> <<b>>, hit |-> {}]
IsWalk(g, n, a, b) ==
  g = [k \in 0..n |-> IF k = 0 THEN Start(b) ELSE Breadth(g[k - 1], AncestorsOf[a])]

LEMMA WalkExists ==
  ASSUME NEW a, NEW b
  PROVE  \A n \in Nat : \E g : IsWalk(g, n, a, b)
<1> DEFINE S == {n \in Nat : \E g : IsWalk(g, n, a, b)}
           Round(f, k) == IF k = 0 THEN Start(b) ELSE Breadth(f[k - 1], AncestorsOf[a])
<1>1. 0 \in S
  <2> DEFINE g == [k \in 0..0 |-> Start(b)]
  <2>1. g = [k \in 0..0 |-> Round(g, k)]
    OBVIOUS
  <2>2. IsWalk(g, 0, a, b)
    BY <2>1 DEF IsWalk
  <2> QED BY <2>2
<1>2. ASSUME NEW n \in Nat, n \in S PROVE n + 1 \in S
  <2>1. PICK g : IsWalk(g, n, a, b)
    BY <1>2
  <2> DEFINE h == [k \in 0..(n + 1) |-> IF k = n + 1 THEN Round(g, k) ELSE g[k]]
  <2>2. ASSUME NEW k \in 0..(n + 1) PROVE h[k] = Round(h, k)
    <3>1. k # 0 => h[k - 1] = g[k - 1]
      OBVIOUS
    <3>2. Round(h, k) = Round(g, k)
      BY <3>1
    <3>3. k \in 0..n => g[k] = Round(g, k)
      BY <2>1 DEF IsWalk
    <3>4. h[k] = IF k = n + 1 THEN Round(g, k) ELSE g[k]
      OBVIOUS
    <3>5. k = n + 1 \/ k \in 0..n
      OBVIOUS
    <3> HIDE DEF Round, h
    <3> QED BY <3>2, <3>3, <3>4, <3>5
  <2>3. h = [k \in 0..(n + 1) |-> Round(h, k)]
    <3> HIDE DEF Round
    <3> QED BY <2>2
  <2>4. IsWalk(h, n + 1, a, b)
    BY <2>3 DEF IsWalk
  <2> QED BY <2>4
<1>3. \A n \in Nat : n \in S
  <2> HIDE DEF S
  <2> QED BY <1>1, <1>2, InductionOverSet
<1> QED BY <1>3

\* After n rounds either one commit is queued, an ancestor of b that is below
\* every shared ancestor and at least n ids before b, or the walk has ended at
\* a shared ancestor that is below every other.
Walked(w, n, a, b) ==
  LET shared == AncestorsOf[a] \cap AncestorsOf[b]
  IN  \/ \E x \in Id : /\ w = Start(x)
                       /\ x + n <= b
                       /\ x \in AncestorsOf[b]
                       /\ shared \subseteq AncestorsOf[x]
      \/ \E h \in shared : w.hit = {h} /\ shared \subseteq AncestorsOf[h]

LEMMA RoundWalks ==
  ASSUME Tree, NEW a \in Id, NEW b \in Id, NEW n \in Nat, NEW w, Walked(w, n, a, b)
  PROVE  Walked(Breadth(w, AncestorsOf[a]), n + 1, a, b)
<1> DEFINE shared == AncestorsOf[a] \cap AncestorsOf[b]
<1>1. CASE \E h \in shared : w.hit = {h} /\ shared \subseteq AncestorsOf[h]
  <2>1. Breadth(w, AncestorsOf[a]) = w
    BY <1>1 DEF Breadth
  <2> QED BY <1>1, <2>1 DEF Walked
<1>2. ASSUME NEW x \in Id, w = Start(x), x + n <= b, x \in AncestorsOf[b],
             shared \subseteq AncestorsOf[x]
      PROVE  Walked(Breadth(w, AncestorsOf[a]), n + 1, a, b)
  <2>1. /\ w.queue = <<x>> /\ w.hit = {} /\ w.queue # <<>>
        /\ Head(w.queue) = x /\ Tail(w.queue) = <<>>
    BY <1>2 DEF Start
  <2>2. Breadth(w, AncestorsOf[a]) = [queue |-> <<>> \o commits[x].parents,
                                      hit |-> IF x \in AncestorsOf[a] THEN {x} ELSE {}]
    BY <2>1 DEF Breadth
  <2>3. CASE x \in AncestorsOf[a]
    BY <1>2, <2>2, <2>3 DEF Walked
  <2>4. CASE x \notin AncestorsOf[a]
    <3>1. x # 1 /\ x \in 2..Len(commits)
      BY <2>4, AncestorsShape DEF Tree, Id
    <3>2. PICK p \in 1..(x - 1) :
              commits[x].parents = <<p>> /\ AncestorsOf[x] = {x} \cup AncestorsOf[p]
      BY <3>1, AncestorsUnfold
    <3>3. <<>> \o <<p>> = <<p>>
      OBVIOUS
    <3>4. Breadth(w, AncestorsOf[a]) = Start(p)
      BY <2>2, <2>4, <3>2, <3>3 DEF Start
    <3>5. p \in Id /\ p + (n + 1) <= b
      BY <1>2, <3>1 DEF Tree, Id
    <3>6. p \in AncestorsOf[b]
      BY <1>2, <3>2, <3>5, AncestorsShape
    <3>7. shared \subseteq AncestorsOf[p]
      BY <1>2, <2>4, <3>2
    <3> QED BY <3>4, <3>5, <3>6, <3>7 DEF Walked
  <2> QED BY <2>3, <2>4
<1> QED BY <1>1, <1>2 DEF Walked

\* mergeBase() ends with the lowest common ancestor.
LEMMA MergeBaseIsLowest ==
  ASSUME Tree, NEW a \in Id, NEW b \in Id
  PROVE  \E base \in AncestorsOf[a] \cap AncestorsOf[b] :
            /\ MergeBase(a, b) = {base}
            /\ AncestorsOf[a] \cap AncestorsOf[b] \subseteq AncestorsOf[base]
<1> DEFINE L == Len(commits)
           walk == CHOOSE g : g = [n \in 0..L |-> IF n = 0 THEN Start(b)
                                                  ELSE Breadth(g[n - 1], AncestorsOf[a])]
           S == {n \in Nat : n <= L => Walked(walk[n], n, a, b)}
<1>1. L \in Nat
  BY DEF Tree
<1>2. walk = [n \in 0..L |-> IF n = 0 THEN Start(b) ELSE Breadth(walk[n - 1], AncestorsOf[a])]
  <2>1. \E g : g = [n \in 0..L |-> IF n = 0 THEN Start(b) ELSE Breadth(g[n - 1], AncestorsOf[a])]
    <3>1. \E g : IsWalk(g, L, a, b)
      BY <1>1, WalkExists
    <3> QED BY <3>1 DEF IsWalk
  <2> QED BY <2>1
<1>3. MergeBase(a, b) = walk[L].hit
  BY DEF MergeBase, Start
<1> HIDE DEF walk
<1>4. 0 \in S
  <2>1. walk[0] = Start(b)
    BY <1>1, <1>2
  <2>2. b + 0 <= b /\ b \in AncestorsOf[b]
    BY AncestorsShape DEF Id, Tree
  <2> QED BY <2>1, <2>2 DEF Walked
<1>5. ASSUME NEW n \in Nat, n \in S PROVE n + 1 \in S
  <2>1. CASE n + 1 <= L
    <3>1. walk[n + 1] = Breadth(walk[n], AncestorsOf[a])
      BY <1>1, <1>2, <2>1
    <3>2. Walked(walk[n], n, a, b)
      BY <1>1, <1>5, <2>1
    <3> QED BY <3>1, <3>2, RoundWalks
  <2> QED BY <2>1
<1>6. \A n \in Nat : n \in S
  <2> HIDE DEF S
  <2> QED BY <1>4, <1>5, InductionOverSet
<1>7. Walked(walk[L], L, a, b)
  BY <1>1, <1>6
<1>8. ~ \E x \in Id : x + L <= b
  BY DEF Id, Tree
<1> QED BY <1>3, <1>7, <1>8 DEF Walked

--------------------------------------------------------------------------
(* The model keeps its type.                                               *)

LEMMA FeatureListIs ==
  \A f : f \in FeatureList <=> DOMAIN f \subseteq Feature /\ f \in [DOMAIN f -> Value]
<1> SUFFICES ASSUME NEW f
             PROVE  f \in FeatureList <=> DOMAIN f \subseteq Feature /\ f \in [DOMAIN f -> Value]
    OBVIOUS
<1>1. ASSUME f \in FeatureList PROVE DOMAIN f \subseteq Feature /\ f \in [DOMAIN f -> Value]
  <2>1. PICK D \in SUBSET Feature : f \in [D -> Value]
    BY <1>1 DEF FeatureList
  <2>2. DOMAIN f = D
    BY <2>1
  <2> QED BY <2>1, <2>2
<1>2. ASSUME DOMAIN f \subseteq Feature, f \in [DOMAIN f -> Value] PROVE f \in FeatureList
  BY <1>2 DEF FeatureList
<1> QED BY <1>1, <1>2

LEMMA EmptyFunction ==
  ASSUME NEW T PROVE <<>> \in [{} -> T] /\ DOMAIN <<>> = {}
  OBVIOUS

\* The snapshots whose features all have an id that was given.
Known(ids) == {list \in FeatureList : DOMAIN list \subseteq ids}

\* Every snapshot undo or redo can bring back is of features whose ids were
\* given before, so that a new feature's id is in none of them.
ModelInv ==
  /\ ModelTypeOK /\ DraftNeedsTool
  /\ features \in Known(used) /\ past \in Seq(Known(used)) /\ future \in Seq(Known(used))

LEMMA StackTyped ==
  ASSUME NEW S, NEW s \in Seq(S), s # <<>>
  PROVE  Top(s) \in S /\ Pop(s) \in Seq(S) /\ Len(Pop(s)) = Len(s) - 1
<1>1. Len(s) \in Nat /\ Len(s) # 0 /\ s \in [1..Len(s) -> S]
  OBVIOUS
<1>2. Len(s) \in 1..Len(s) /\ Len(s) - 1 \in Nat
  BY <1>1
<1>3. \A i \in 1..(Len(s) - 1) : s[i] \in S
  BY <1>1
<1>4. SubSeq(s, 1, Len(s) - 1) \in Seq(S) /\ Len(SubSeq(s, 1, Len(s) - 1)) = Len(s) - 1
  <2> DEFINE n == Len(s) - 1
  <2>1. n \in Nat /\ \A i \in 1..n : s[i] \in S
    BY <1>2, <1>3
  <2> HIDE DEF n
  <2>2. 1 \in Int /\ n \in Int
    BY <2>1
  <2>3. /\ SubSeq(s, 1, n) \in Seq(S)
        /\ Len(SubSeq(s, 1, n)) = IF 1 <= n THEN n - 1 + 1 ELSE 0
    BY <2>1, <2>2, SubSeqProperties
  <2>4. (IF 1 <= n THEN n - 1 + 1 ELSE 0) = n
    BY <2>1
  <2>5. SubSeq(s, 1, n) \in Seq(S) /\ Len(SubSeq(s, 1, n)) = n
    BY <2>3, <2>4
  <2> QED BY <2>5 DEF n
<1> QED BY <1>1, <1>2, <1>4 DEF Top, Pop

LEMMA SeqGrows ==
  ASSUME NEW S, NEW T, S \subseteq T, NEW s \in Seq(S)
  PROVE  s \in Seq(T)
  OBVIOUS

\* What is the same for every step of the model, given its stacks.
LEMMA ModelInvFrom ==
  ASSUME ModelInv, used' \in SUBSET Feature,
         features' \in Known(used'), past' \in Seq(Known(used')), future' \in Seq(Known(used')),
         open' \in BOOLEAN, tool' = tool, draft' \in {draft, "none"},
         open' = open \/ draft' = "none", entities' \in {entities, <<>>}
  PROVE  ModelInv'
<1>1. Known(used') \subseteq FeatureList
  BY DEF Known
<1>2. past' \in Seq(FeatureList) /\ future' \in Seq(FeatureList) /\ features' \in FeatureList
  BY <1>1, SeqGrows
<1>3. DOMAIN features' \subseteq used'
  BY DEF Known
<1>4. tool' \in Tool /\ draft' \in {"none", "point", "drawn"}
  BY DEF ModelInv, ModelTypeOK
<1>5. entities' \in Seq({"line", "circle"})
  <2>1. entities \in Seq({"line", "circle"}) /\ <<>> \in Seq({"line", "circle"})
    BY DEF ModelInv, ModelTypeOK
  <2> QED BY <2>1
<1>6. DraftNeedsTool'
  BY DEF ModelInv, DraftNeedsTool
<1> QED BY <1>2, <1>3, <1>4, <1>5, <1>6 DEF ModelInv, ModelTypeOK

LEMMA EditTyped ==
  ASSUME ModelInv, used \subseteq used', NEW list \in Known(used'), Edit(list)
  PROVE  features' \in Known(used') /\ past' \in Seq(Known(used')) /\ future' \in Seq(Known(used'))
<1>1. Known(used) \subseteq Known(used')
  BY DEF Known
<1>2. past \in Seq(Known(used')) /\ features \in Known(used')
  BY <1>1, SeqGrows DEF ModelInv
<1>3. past' = Append(past, features) /\ future' = <<>> /\ features' = list
  BY DEF Edit
<1> HIDE DEF Known
<1>4. Append(past, features) \in Seq(Known(used'))
  BY <1>2
<1>5. <<>> \in Seq(Known(used'))
  OBVIOUS
<1> QED BY <1>3, <1>4, <1>5

LEMMA ExtendedTyped ==
  ASSUME ModelInv, NEW ids \in SUBSET Feature
  PROVE  Extended(ids) \in Known(used \cup ids)
<1>1. DOMAIN features \subseteq Feature /\ features \in [DOMAIN features -> Value]
  BY FeatureListIs DEF ModelInv, ModelTypeOK
<1>2. Extended(ids) \in [DOMAIN features \cup ids -> Value]
  BY <1>1, StoreAssumption DEF Extended
<1>3. DOMAIN Extended(ids) = DOMAIN features \cup ids
  BY DEF Extended
<1>4. Extended(ids) \in FeatureList
  BY <1>1, <1>2, <1>3, FeatureListIs
<1> QED BY <1>3, <1>4 DEF Known, ModelInv

LEMMA ModelStepKeeps ==
  ASSUME ModelInv, ModelStep
  PROVE  ModelInv'
<1>0. used \in SUBSET Feature /\ open \in BOOLEAN
  BY DEF ModelInv, ModelTypeOK
<1>1. ASSUME NEW id \in Feature, AddFeature(id) PROVE ModelInv'
  <2>1. Edit(Extended({id})) /\ used' = used \cup {id} /\ UNCHANGED <<open, tool, draft, entities>>
    BY <1>1 DEF AddFeature, sketch
  <2>2. Extended({id}) \in Known(used')
    BY <2>1, ExtendedTyped
  <2>3. features' \in Known(used') /\ past' \in Seq(Known(used')) /\ future' \in Seq(Known(used'))
    BY <2>1, <2>2, EditTyped
  <2> QED BY <1>0, <2>1, <2>3, ModelInvFrom
<1>2. ASSUME NEW id \in Feature, NEW v \in Value, UpdateParam(id, v) PROVE ModelInv'
  <2> DEFINE list == [features EXCEPT ![id] = v]
  <2>1. Edit(list) /\ used' = used /\ UNCHANGED <<open, tool, draft, entities>>
    BY <1>2 DEF UpdateParam, sketch
  <2>2. list \in Known(used')
    <3>1. DOMAIN features \subseteq Feature /\ features \in [DOMAIN features -> Value]
      BY FeatureListIs DEF ModelInv, ModelTypeOK
    <3>2. list \in [DOMAIN features -> Value] /\ DOMAIN list = DOMAIN features
      BY <3>1
    <3>3. list \in FeatureList
      BY <3>1, <3>2, FeatureListIs
    <3> QED BY <2>1, <3>2, <3>3 DEF Known, ModelInv
  <2>3. features' \in Known(used') /\ past' \in Seq(Known(used')) /\ future' \in Seq(Known(used'))
    <3> HIDE DEF list
    <3> QED BY <2>1, <2>2, EditTyped
  <2> QED BY <1>0, <2>1, <2>3, ModelInvFrom
<1>3. ASSUME NEW s \in Feature, NEW b \in Feature, CommitSketch(s, b) PROVE ModelInv'
  <2>1. /\ Edit(Extended({s, b})) /\ used' = used \cup {s, b}
        /\ entities' = <<>> /\ draft' = "none" /\ open' = FALSE /\ tool' = tool
    BY <1>3 DEF CommitSketch
  <2>2. Extended({s, b}) \in Known(used')
    BY <2>1, ExtendedTyped
  <2>3. features' \in Known(used') /\ past' \in Seq(Known(used')) /\ future' \in Seq(Known(used'))
    BY <2>1, <2>2, EditTyped
  <2> QED BY <1>0, <2>1, <2>3, ModelInvFrom
<1>4. CASE Undo \/ Redo
  <2>1. features \in Known(used) /\ past \in Seq(Known(used)) /\ future \in Seq(Known(used))
    BY DEF ModelInv
  <2>2. used' = used /\ UNCHANGED <<open, tool, draft, entities>>
    BY <1>4 DEF Undo, Redo, sketch
  <2>3. features' \in Known(used) /\ past' \in Seq(Known(used)) /\ future' \in Seq(Known(used))
    <3>1. CASE Undo
      <4>1. /\ features' = Top(past) /\ past' = Pop(past)
            /\ future' = Append(future, features) /\ past # <<>>
        BY <3>1 DEF Undo
      <4>2. Append(future, features) \in Seq(Known(used))
        BY <2>1
      <4> QED BY <2>1, <4>1, <4>2, StackTyped
    <3>2. CASE Redo
      <4>1. /\ features' = Top(future) /\ future' = Pop(future)
            /\ past' = Append(past, features) /\ future # <<>>
        BY <3>2 DEF Redo
      <4>2. Append(past, features) \in Seq(Known(used))
        BY <2>1
      <4> QED BY <2>1, <4>1, <4>2, StackTyped
    <3> QED BY <1>4, <3>1, <3>2
  <2> QED BY <1>0, <2>2, <2>3, ModelInvFrom
<1> QED BY <1>1, <1>2, <1>3, <1>4 DEF ModelStep

LEMMA SketchStepKeeps ==
  ASSUME ModelInv, SketchStep
  PROVE  ModelInv' /\ UNCHANGED model
<1>1. UNCHANGED model
  BY DEF SketchStep, OpenEditor, CloseEditor, BeginPoint, CommitDraft, ClearSketch, SetTool, UpdateDraft
<1>2. UNCHANGED <<features, past, future, used>>
  BY <1>1 DEF model
<1>3. open' \in BOOLEAN /\ tool' \in Tool /\ draft' \in {"none", "point", "drawn"} /\ DraftNeedsTool'
  BY DEF ModelInv, ModelTypeOK, DraftNeedsTool,
         SketchStep, OpenEditor, CloseEditor, BeginPoint, CommitDraft, ClearSketch, SetTool, UpdateDraft
<1>4. entities' \in Seq({"line", "circle"})
  <2>1. entities \in Seq({"line", "circle"})
    BY DEF ModelInv, ModelTypeOK
  <2>2. \/ entities' = entities \/ entities' = <<>>
        \/ entities' = Append(entities, "circle") \/ entities' = Append(entities, "line")
    BY DEF SketchStep, OpenEditor, CloseEditor, BeginPoint, CommitDraft, ClearSketch, SetTool, UpdateDraft
  <2>3. /\ <<>> \in Seq({"line", "circle"})
        /\ Append(entities, "circle") \in Seq({"line", "circle"})
        /\ Append(entities, "line") \in Seq({"line", "circle"})
    BY <2>1
  <2> QED BY <2>1, <2>2, <2>3
<1>5. ModelInv'
  BY <1>2, <1>3, <1>4 DEF ModelInv, ModelTypeOK, Known
<1> QED BY <1>1, <1>5

--------------------------------------------------------------------------
(* Version control keeps its type and its tree.                            *)

VersionInv ==
  /\ Tree /\ Len(commits) <= MaxCommits
  /\ branches \in [DOMAIN branches -> Id] /\ DOMAIN branches \subseteq Name
  /\ current \in DOMAIN branches /\ head = branches[current]
  /\ conflicts \in UNION {[D -> Conflict] : D \in SUBSET Feature}

IInv == ModelInv /\ VersionInv

LEMMA ConflictsIs ==
  \A c : c \in UNION {[D -> Conflict] : D \in SUBSET Feature}
           <=> DOMAIN c \subseteq Feature /\ c \in [DOMAIN c -> Conflict]
<1> SUFFICES ASSUME NEW c
             PROVE  c \in UNION {[D -> Conflict] : D \in SUBSET Feature}
                      <=> DOMAIN c \subseteq Feature /\ c \in [DOMAIN c -> Conflict]
    OBVIOUS
<1>1. ASSUME NEW D \in SUBSET Feature, c \in [D -> Conflict]
      PROVE  DOMAIN c \subseteq Feature /\ c \in [DOMAIN c -> Conflict]
  <2>1. DOMAIN c = D
    BY <1>1
  <2> QED BY <1>1, <2>1
<1> QED BY <1>1

LEMMA NoConflicts == <<>> \in UNION {[D -> Conflict] : D \in SUBSET Feature}
  BY EmptyFunction, ConflictsIs

\* A new commit is a leaf of the tree, under HEAD.
LEMMA CommitKeeps ==
  ASSUME IInv, NEW list \in FeatureList, MakeCommit(list)
  PROVE  /\ Tree' /\ Len(commits') <= MaxCommits
         /\ branches' \in [DOMAIN branches' -> Id'] /\ DOMAIN branches' = DOMAIN branches
         /\ current' = current /\ head' = branches'[current']
         /\ Id' = Id \cup {head'} /\ head' \notin Id /\ head' \in 1..MaxCommits
         /\ \A i \in Id : commits'[i] = commits[i]
         /\ commits'[head'].parents = <<head>>
         /\ branches' = [branches EXCEPT ![current] = head']
<1> DEFINE new == [parents |-> <<head>>, features |-> list]
           n == Len(commits)
<1>1. /\ commits' = Append(commits, new) /\ head' = n + 1 /\ current' = current
      /\ branches' = [branches EXCEPT ![current] = n + 1] /\ n < MaxCommits
  BY DEF MakeCommit
<1>2. /\ n \in Nat /\ n >= 1 /\ Id = 1..n /\ head \in 1..n /\ commits \in Seq(Commit)
      /\ MaxCommits \in Nat
  BY VersionAssumption DEF IInv, VersionInv, Tree, Id
<1>3. new \in Commit
  BY <1>2 DEF Commit
<1>4. /\ commits' \in Seq(Commit) /\ Len(commits') = n + 1
      /\ \A i \in 1..n : commits'[i] = commits[i]
      /\ commits'[n + 1] = new
  <2> HIDE DEF new
  <2> QED BY <1>1, <1>2, <1>3
<1>5. Id' = 1..(n + 1)
  BY <1>4 DEF Id
<1>6. Tree'
  <2>1. commits'[1].parents = <<>>
    <3>1. commits[1].parents = <<>>
      BY DEF IInv, VersionInv, Tree
    <3>2. commits'[1] = commits[1]
      BY <1>2, <1>4
    <3> QED BY <3>1, <3>2
  <2>2. ASSUME NEW i \in 2..(n + 1) PROVE \E p \in 1..(i - 1) : commits'[i].parents = <<p>>
    <3>1. CASE i = n + 1
      BY <1>2, <1>4, <3>1
    <3>2. CASE i \in 2..n
      BY <1>2, <1>4, <3>2 DEF IInv, VersionInv, Tree
    <3> QED BY <1>2, <3>1, <3>2
  <2> QED BY <1>2, <1>4, <2>1, <2>2 DEF Tree
<1>7. branches' \in [DOMAIN branches -> 1..(n + 1)] /\ branches'[current] = n + 1
  BY <1>1, <1>2 DEF IInv, VersionInv
<1> QED BY <1>1, <1>2, <1>4, <1>5, <1>6, <1>7

\* The features of a commit are a list, and so is the empty base's.
LEMMA FeaturesAtTyped ==
  ASSUME Tree, NEW i \in Id
  PROVE  FeaturesAt({i}) = commits[i].features /\ FeaturesAt({i}) \in FeatureList
<1>1. FeaturesAt({i}) = commits[i].features
  BY DEF FeaturesAt
<1>2. commits[i] \in Commit
  BY DEF Tree, Id
<1> QED BY <1>1, <1>2 DEF Commit

LEMMA ConflictsTyped ==
  ASSUME Tree, NEW a \in Id, NEW b \in Id
  PROVE  ConflictsOf(a, b) \in UNION {[D -> Conflict] : D \in SUBSET Feature}
<1>1. PICK i \in AncestorsOf[a] \cap AncestorsOf[b] : MergeBase(a, b) = {i}
  BY MergeBaseIsLowest
<1>0. i \in Id
  <2>1. i \in 1..a
    BY AncestorsShape
  <2> QED BY <2>1 DEF Id, Tree
<1> DEFINE base == FeaturesAt({i})
           ours == FeaturesAt({a})
           their == FeaturesAt({b})
           D == ChangedIn(base, ours) \cap ChangedIn(base, their)
           F == [f \in D |-> [theirs |-> IF f \in DOMAIN their THEN their[f] ELSE base[f],
                              pick   |-> "none"]]
<1>2. ConflictsOf(a, b) = F
  BY <1>1 DEF ConflictsOf
<1>3. base \in FeatureList /\ ours \in FeatureList /\ their \in FeatureList
  BY <1>0, FeaturesAtTyped
<1> HIDE DEF base, ours, their
<1>4. D \subseteq Feature
  BY <1>3, FeatureListIs DEF ChangedIn
<1>5. ASSUME NEW f \in D PROVE F[f] \in Conflict
  <2>1. f \in DOMAIN their \/ f \in DOMAIN base
    BY DEF ChangedIn
  <2>2. (IF f \in DOMAIN their THEN their[f] ELSE base[f]) \in Value
    BY <1>3, <2>1, FeatureListIs
  <2> QED BY <2>2 DEF Conflict, Pick
<1>6. DOMAIN F = D /\ F \in [D -> Conflict]
  BY <1>5
<1> QED BY <1>2, <1>4, <1>6

LEMMA ResolvedTyped ==
  ASSUME IInv
  PROVE  Resolved \in FeatureList /\ DOMAIN Resolved = DOMAIN features
<1>1. DOMAIN features \subseteq Feature /\ features \in [DOMAIN features -> Value]
  BY FeatureListIs DEF IInv, ModelInv, ModelTypeOK
<1>2. conflicts \in [DOMAIN conflicts -> Conflict]
  BY ConflictsIs DEF IInv, VersionInv
<1>3. \A f \in DOMAIN conflicts : conflicts[f].theirs \in Value
  BY <1>2 DEF Conflict
<1>4. Resolved \in [DOMAIN features -> Value] /\ DOMAIN Resolved = DOMAIN features
  BY <1>1, <1>3 DEF Resolved
<1> QED BY <1>1, <1>4, FeatureListIs

LEMMA InitInv == Init => IInv
<1> SUFFICES ASSUME Init PROVE IInv
    OBVIOUS
<1>1. /\ features = [f \in Initial |-> Default] /\ past = <<>> /\ future = <<>> /\ used = Initial
      /\ open = FALSE /\ tool = "line" /\ draft = "none" /\ entities = <<>>
      /\ commits = <<[parents |-> <<>>, features |-> features]>>
      /\ branches = [n \in {Main} |-> 1] /\ current = Main /\ head = 1 /\ conflicts = <<>>
  BY DEF Init, ModelInit, SketchInit
<1>2. features \in FeatureList /\ DOMAIN features = used
  BY <1>1, StoreAssumption, FeatureListIs
<1>3. ModelInv
  <2>1. past \in Seq(Known(used)) /\ future \in Seq(Known(used)) /\ entities \in Seq({"line", "circle"})
        /\ past \in Seq(FeatureList) /\ future \in Seq(FeatureList)
    <3>1. \A S : <<>> \in Seq(S)
      OBVIOUS
    <3> QED BY <1>1, <3>1
  <2>2. used \in SUBSET Feature
    BY <1>1, StoreAssumption
  <2> QED BY <1>1, <1>2, <2>1, <2>2 DEF ModelInv, ModelTypeOK, DraftNeedsTool, Known, Tool
<1>4. Tree /\ Len(commits) = 1
  <2> DEFINE root == [parents |-> <<>>, features |-> features]
  <2>1. root \in Commit /\ root.parents = <<>>
    <3>1. <<>> \in Seq(Nat)
      OBVIOUS
    <3> QED BY <1>2, <3>1 DEF Commit
  <2>2. commits = <<root>>
    BY <1>1
  <2> HIDE DEF root
  <2>3. commits \in Seq(Commit) /\ Len(commits) = 1 /\ commits[1] = root
    BY <2>1, <2>2
  <2> QED BY <2>1, <2>3 DEF Tree
<1>5. /\ branches \in [DOMAIN branches -> Id] /\ DOMAIN branches \subseteq Name
      /\ current \in DOMAIN branches /\ head = branches[current]
  BY <1>1, <1>4, VersionAssumption DEF Tree, Id
<1>6. Len(commits) <= MaxCommits
  BY <1>4, VersionAssumption
<1>7. conflicts \in UNION {[D -> Conflict] : D \in SUBSET Feature}
  BY <1>1, NoConflicts
<1> QED BY <1>3, <1>4, <1>5, <1>6, <1>7 DEF IInv, VersionInv

LEMMA VersionStepKeeps ==
  ASSUME IInv, VersionStep
  PROVE  IInv'
<1>1. CASE CommitModel
  <2>1. MakeCommit(features) /\ UNCHANGED <<features, past, future, used, open, tool, draft, entities, conflicts>>
    BY <1>1 DEF CommitModel, model, sketch
  <2>2. ModelInv'
    BY <2>1 DEF IInv, ModelInv, ModelTypeOK, DraftNeedsTool, Known
  <2>3. features \in FeatureList
    BY DEF IInv, ModelInv, ModelTypeOK
  <2>4. VersionInv'
    BY <2>1, <2>3, CommitKeeps DEF IInv, VersionInv
  <2> QED BY <2>2, <2>4 DEF IInv
<1>2. CASE ApplyMerge
  <2>1. /\ MakeCommit(Resolved) /\ features' = Resolved /\ conflicts' = <<>>
        /\ UNCHANGED <<past, future, used, open, tool, draft, entities>>
    BY <1>2 DEF ApplyMerge, sketch
  <2>2. features' \in Known(used')
    BY <2>1, ResolvedTyped DEF IInv, ModelInv, ModelTypeOK, Known
  <2>3. ModelInv'
    <3>1. Known(used') = Known(used)
      BY <2>1
    <3> QED BY <2>1, <2>2, <3>1 DEF IInv, ModelInv, ModelTypeOK, DraftNeedsTool, Known
  <2>4. VersionInv'
    BY <2>1, ResolvedTyped, CommitKeeps, NoConflicts DEF IInv, VersionInv
  <2> QED BY <2>3, <2>4 DEF IInv
<1>3. ASSUME NEW name \in Name, CreateBranch(name) \/ Checkout(name) \/ Merge(name) PROVE IInv'
  <2>1. UNCHANGED <<features, past, future, used, open, tool, draft, entities, commits>>
    BY <1>3 DEF CreateBranch, Checkout, Merge, model, sketch
  <2>2. ModelInv' /\ Tree' /\ Id' = Id
    BY <2>1 DEF IInv, ModelInv, ModelTypeOK, DraftNeedsTool, Known, VersionInv, Tree, Id
  <2>3. CASE CreateBranch(name)
    <3>1. /\ branches' = [n \in DOMAIN branches \cup {name} |-> IF n = name THEN head ELSE branches[n]]
          /\ current' = name /\ head' = head /\ conflicts' = conflicts
      BY <2>3 DEF CreateBranch
    <3>2. head \in Id
      BY DEF IInv, VersionInv
    <3> QED BY <2>1, <2>2, <3>1, <3>2 DEF IInv, VersionInv
  <2>4. CASE Checkout(name)
    BY <2>1, <2>2, <2>4 DEF Checkout, IInv, VersionInv
  <2>5. CASE Merge(name)
    <3>1. branches[current] \in Id /\ branches[name] \in Id
      BY <2>5 DEF Merge, IInv, VersionInv
    <3>2. conflicts' \in UNION {[D -> Conflict] : D \in SUBSET Feature}
      BY <2>5, <3>1, ConflictsTyped DEF Merge, IInv, VersionInv
    <3>3. UNCHANGED <<branches, current, head>>
      BY <2>5 DEF Merge
    <3> QED BY <2>1, <2>2, <3>2, <3>3 DEF IInv, VersionInv
  <2> QED BY <1>3, <2>3, <2>4, <2>5
<1>4. ASSUME NEW f \in Feature, NEW pick \in {"ours", "theirs"}, ResolveConflict(f, pick) PROVE IInv'
  <2>1. UNCHANGED <<features, past, future, used, open, tool, draft, entities, commits, branches, current, head>>
    BY <1>4 DEF ResolveConflict, model, sketch
  <2>2. ModelInv' /\ Tree' /\ Id' = Id
    BY <2>1 DEF IInv, ModelInv, ModelTypeOK, DraftNeedsTool, Known, VersionInv, Tree, Id
  <2>3. conflicts' \in UNION {[D -> Conflict] : D \in SUBSET Feature}
    <3>1. DOMAIN conflicts \subseteq Feature /\ conflicts \in [DOMAIN conflicts -> Conflict]
      BY ConflictsIs DEF IInv, VersionInv
    <3>2. conflicts' = [conflicts EXCEPT ![f].pick = pick] /\ f \in DOMAIN conflicts
      BY <1>4 DEF ResolveConflict
    <3>3. conflicts[f] \in Conflict /\ pick \in Pick
      BY <3>1, <3>2 DEF Pick
    <3>4. [conflicts[f] EXCEPT !.pick = pick] \in Conflict
      BY <3>3 DEF Conflict
    <3>5. conflicts' \in [DOMAIN conflicts -> Conflict] /\ DOMAIN conflicts' = DOMAIN conflicts
      BY <3>1, <3>2, <3>4
    <3> QED BY <3>1, <3>5, ConflictsIs
  <2> QED BY <2>1, <2>2, <2>3 DEF IInv, VersionInv
<1> QED BY <1>1, <1>2, <1>3, <1>4 DEF VersionStep

LEMMA NextInv == IInv /\ [Next]_vars => IInv'
<1> SUFFICES ASSUME IInv, [Next]_vars PROVE IInv'
    OBVIOUS
<1>1. CASE (ModelStep \/ SketchStep) /\ UNCHANGED versions
  <2>1. ModelInv'
    BY <1>1, ModelStepKeeps, SketchStepKeeps DEF IInv
  <2>2. UNCHANGED <<commits, branches, current, head, conflicts>>
    BY <1>1 DEF versions
  <2> QED BY <2>1, <2>2 DEF IInv, VersionInv, Tree, Id
<1>2. CASE VersionStep
  BY <1>2, VersionStepKeeps
<1>3. CASE UNCHANGED vars
  <2>1. UNCHANGED <<features, past, future, used, open, tool, draft, entities>>
    BY <1>3 DEF vars, model, sketch
  <2>2. UNCHANGED <<commits, branches, current, head, conflicts>>
    BY <1>3 DEF vars, versions
  <2> QED BY <2>1, <2>2 DEF IInv, ModelInv, ModelTypeOK, DraftNeedsTool, Known, VersionInv, Tree, Id
<1> QED BY <1>1, <1>2, <1>3 DEF Next

THEOREM Invariance == Spec => []IInv
  BY InitInv, NextInv, PTL DEF Spec

\* The stores keep HEAD at the tip of the branch that is worked on, a draft
\* needs an open editor and a tool that draws, and any two commits have a
\* merge base that is below every other commit they share.
THEOREM StoresStayConsistent == Spec => []StoresConsistent
<1>1. IInv => StoresConsistent
  <2> SUFFICES ASSUME IInv PROVE StoresConsistent
      OBVIOUS
  <2>1. TypeOK /\ DraftNeedsTool /\ Tree
    BY DEF IInv, ModelInv, VersionInv, TypeOK, Tree
  <2>2. BaseIsLowest
    BY <2>1, MergeBaseIsLowest DEF BaseIsLowest
  <2> QED BY <2>1, <2>2 DEF StoresConsistent
<1> QED BY <1>1, Invariance, PTL

--------------------------------------------------------------------------
(* Conflicts.                                                              *)

LEMMA ChangedMeansDiffers ==
  ASSUME Tree, NEW i \in Id, NEW j \in Id
  PROVE  ChangedIn(FeaturesAt({i}), FeaturesAt({j})) = {f \in Feature : At(i, f) # At(j, f)}
<1> DEFINE p == commits[i].features
           q == commits[j].features
<1>1. FeaturesAt({i}) = p /\ FeaturesAt({j}) = q /\ p \in FeatureList /\ q \in FeatureList
  BY FeaturesAtTyped
<1>2. DOMAIN p \subseteq Feature /\ DOMAIN q \subseteq Feature
  BY <1>1, FeatureListIs
<1>3. \A f : At(i, f) = (IF f \in DOMAIN p THEN {p[f]} ELSE {})
  BY DEF At
<1>4. \A f : At(j, f) = (IF f \in DOMAIN q THEN {q[f]} ELSE {})
  BY DEF At
<1> HIDE DEF p, q
<1>5. \A f \in Feature : At(i, f) # At(j, f)
         <=> (f \in DOMAIN p \cup DOMAIN q /\ (f \notin DOMAIN p \cap DOMAIN q \/ p[f] # q[f]))
  BY <1>3, <1>4
<1>6. ChangedIn(p, q) = {f \in Feature : At(i, f) # At(j, f)}
  BY <1>2, <1>5 DEF ChangedIn
<1> QED BY <1>1, <1>6

\* merge() reports exactly what both tips changed since the last commit they
\* share.
LEMMA ConflictsExact ==
  ASSUME Tree, NEW a \in Id, NEW b \in Id, NEW base \in Id,
         base \in AncestorsOf[a] \cap AncestorsOf[b],
         \A i \in AncestorsOf[a] \cap AncestorsOf[b] : i <= base
  PROVE  DOMAIN ConflictsOf(a, b) =
           {f \in Feature : At(base, f) # At(a, f) /\ At(base, f) # At(b, f)}
<1>1. PICK x \in AncestorsOf[a] \cap AncestorsOf[b] :
         MergeBase(a, b) = {x} /\ AncestorsOf[a] \cap AncestorsOf[b] \subseteq AncestorsOf[x]
  BY MergeBaseIsLowest
<1>2. x = base
  <2>1. x \in 1..a
    BY AncestorsShape
  <2>2. x \in Id
    BY <2>1 DEF Id, Tree
  <2>3. base \in 1..x
    BY <1>1, <2>2, AncestorsShape
  <2>4. x <= base
    OBVIOUS
  <2> QED BY <2>1, <2>3, <2>4
<1>3. DOMAIN ConflictsOf(a, b) = ChangedIn(FeaturesAt({base}), FeaturesAt({a}))
                                   \cap ChangedIn(FeaturesAt({base}), FeaturesAt({b}))
  BY <1>1, <1>2 DEF ConflictsOf
<1> QED BY <1>3, ChangedMeansDiffers

\* Whatever was merged, checked out or undone before, merge() reports exactly
\* the features that both branches changed since the last commit they share.
THEOREM MergeReportsConflicts == Spec => ConflictsAreExact
<1> DEFINE Exact ==
        merging' # merging =>
          \A base \in Id :
            LET shared == AncestorsOf[merging'[1]] \cap AncestorsOf[merging'[2]]
            IN  base \in shared /\ (\A i \in shared : i <= base) =>
                    DOMAIN conflicts' = {f \in Feature : /\ At(base, f) # At(merging'[1], f)
                                                         /\ At(base, f) # At(merging'[2], f)}
<1>1. ASSUME IInv, Next PROVE Exact
  <2>1. CASE UNCHANGED merging
    BY <2>1
  <2>2. ASSUME NEW name \in Name, Merge(name) PROVE Exact
    <3>1. PICK a, b : a = branches[current] /\ b = branches[name]
      OBVIOUS
    <3>2. a \in Id /\ b \in Id /\ Tree
      BY <1>1, <2>2, <3>1 DEF Merge, IInv, VersionInv
    <3>3. conflicts' = ConflictsOf(a, b) /\ merging'[1] = a /\ merging'[2] = b
      BY <2>2, <3>1 DEF Merge
    <3>4. ASSUME NEW base \in Id, base \in AncestorsOf[a] \cap AncestorsOf[b],
                 \A i \in AncestorsOf[a] \cap AncestorsOf[b] : i <= base
          PROVE  DOMAIN conflicts' =
                   {f \in Feature : At(base, f) # At(a, f) /\ At(base, f) # At(b, f)}
      BY <3>2, <3>3, <3>4, ConflictsExact
    <3> QED BY <3>3, <3>4
  <2>3. UNCHANGED merging \/ \E name \in Name : Merge(name)
    BY <1>1 DEF Next, versions, VersionStep, CommitModel, ApplyMerge, MakeCommit,
                CreateBranch, Checkout, ResolveConflict
  <2> QED BY <2>1, <2>2, <2>3
<1>2. IInv /\ [Next]_vars => [Exact]_vars
  <2> HIDE DEF Exact
  <2> QED BY <1>1
<1> QED BY <1>2, Invariance, PTL DEF Spec, ConflictsAreExact

--------------------------------------------------------------------------
(* Branches and commits refine VersionHistory.                             *)

Made == [i \in Id |-> Range(commits[i].parents)]

LEMMA GrowStep ==
  ASSUME IInv, NEW list \in FeatureList, MakeCommit(list)
  PROVE  History!Next
<1>1. /\ Id' = Id \cup {head'} /\ head' \notin Id /\ head' \in 1..MaxCommits
      /\ \A i \in Id : commits'[i] = commits[i]
      /\ commits'[head'].parents = <<head>>
      /\ branches' = [branches EXCEPT ![current] = head'] /\ current' = current
  BY CommitKeeps
<1>2. head \in Id /\ head = branches[current]
  BY DEF IInv, VersionInv
<1>3. Range(<<head>>) = {head}
  BY RangeOfSmall
<1>4. DOMAIN Made = Id
  BY DEF Made
<1>5. Made' = [d \in DOMAIN Made \cup {head'} |-> IF d = head' THEN {head} ELSE Made[d]]
  <2>1. Made' = [d \in Id' |-> Range(commits'[d].parents)]
    BY DEF Made
  <2>2. \A d \in Id' : Range(commits'[d].parents) = IF d = head' THEN {head} ELSE Made[d]
    BY <1>1, <1>3 DEF Made
  <2> QED BY <1>1, <1>4, <2>1, <2>2
<1>6. History!Grow(head', {head})
  BY <1>1, <1>2, <1>4, <1>5 DEF History!Grow, Made
<1>7. {head} \in SUBSET DOMAIN Made
  BY <1>2, <1>4
<1> QED BY <1>1, <1>6, <1>7 DEF History!Next, Made

\* A branch moves only while it is current, and only onto a new commit whose
\* parent is the commit it named.
THEOREM BranchesKeepHistory == Spec => KeepsHistory
<1>1. Init => History!Init
  <2> SUFFICES ASSUME Init PROVE History!Init
      OBVIOUS
  <2>1. Id = {1} /\ commits[1].parents = <<>>
    BY DEF Init, Id
  <2>2. Range(<<>>) = {}
    BY RangeOfSmall
  <2> QED BY <2>1, <2>2 DEF Init, History!Init
<1>2. ASSUME IInv, [Next]_vars PROVE [History!Next]_(History!vars)
  <2>1. ASSUME NEW name \in Name, CreateBranch(name) PROVE History!Next
    <3>1. Id' = Id /\ commits' = commits
      BY <2>1 DEF CreateBranch, Id
    <3>2. History!Branch(name)
      BY <1>2, <2>1, <3>1 DEF CreateBranch, History!Branch, IInv, VersionInv
    <3> QED BY <3>2 DEF History!Next
  <2>2. ASSUME NEW name \in Name, Checkout(name) PROVE History!Next
    <3>1. Id' = Id /\ commits' = commits
      BY <2>2 DEF Checkout, Id
    <3>2. History!Switch(name)
      BY <2>2, <3>1 DEF Checkout, History!Switch
    <3> QED BY <3>2 DEF History!Next
  <2>3. CASE CommitModel \/ ApplyMerge
    <3>1. PICK list \in FeatureList : MakeCommit(list)
      BY <1>2, <2>3, ResolvedTyped DEF CommitModel, ApplyMerge, IInv, ModelInv, ModelTypeOK
    <3> QED BY <1>2, <3>1, GrowStep
  <2>4. CASE UNCHANGED <<commits, branches, current>>
    BY <2>4 DEF Id, History!vars
  <2>5. \/ \E name \in Name : CreateBranch(name) \/ Checkout(name)
        \/ CommitModel \/ ApplyMerge
        \/ UNCHANGED <<commits, branches, current>>
    BY <1>2 DEF Next, vars, versions, VersionStep, Merge, ResolveConflict
  <2> QED BY <2>1, <2>2, <2>3, <2>4, <2>5
<1> QED BY <1>1, <1>2, Invariance, PTL DEF Spec, KeepsHistory, History!Spec

--------------------------------------------------------------------------
(* Undo and redo refine UndoHistory.                                       *)

\* The line of states that the two stacks and the model make up.
Line == [i \in 1..(Len(past) + 1 + Len(future)) |->
            IF i <= Len(past) THEN past[i]
            ELSE IF i = Len(past) + 1 THEN features
            ELSE future[Len(past) + 2 + Len(future) - i]]

LEMMA AppendIs ==
  ASSUME NEW S, NEW s \in Seq(S), NEW e \in S
  PROVE  /\ Append(s, e) \in Seq(S) /\ Len(Append(s, e)) = Len(s) + 1
         /\ \A i \in 1..Len(s) : Append(s, e)[i] = s[i]
         /\ Append(s, e)[Len(s) + 1] = e
  OBVIOUS

LEMMA PopIs ==
  ASSUME NEW S, NEW s \in Seq(S), s # <<>>
  PROVE  /\ Len(s) \in Nat /\ Len(s) >= 1
         /\ Pop(s) \in Seq(S) /\ Len(Pop(s)) = Len(s) - 1
         /\ \A i \in 1..(Len(s) - 1) : Pop(s)[i] = s[i]
         /\ Top(s) = s[Len(s)]
<1>1. Len(s) \in Nat /\ Len(s) >= 1
  OBVIOUS
<1>2. Pop(s) \in Seq(S) /\ Len(Pop(s)) = Len(s) - 1
  BY StackTyped
<1>3. \A i \in 1..(Len(s) - 1) : Pop(s)[i] = s[i]
  BY <1>1 DEF Pop
<1> QED BY <1>1, <1>2, <1>3 DEF Top

LEMMA EditExtends ==
  ASSUME ModelInv, NEW list \in FeatureList, Edit(list)
  PROVE  Undoable!Edit
<1>1. past \in Seq(FeatureList) /\ features \in FeatureList
  BY DEF ModelInv, ModelTypeOK
<1>2. past' = Append(past, features) /\ future' = <<>> /\ features' = list
  BY DEF Edit
<1>3. /\ Len(past) \in Nat /\ Len(past') = Len(past) + 1 /\ Len(future') = 0
      /\ Len(future) \in Nat
      /\ \A i \in 1..Len(past) : past'[i] = past[i]
      /\ past'[Len(past) + 1] = features
  BY <1>1, <1>2, AppendIs DEF ModelInv, ModelTypeOK
<1>4. Line' = [i \in 1..(Len(past) + 2) |-> IF i = Len(past) + 2 THEN list ELSE Line[i]]
  BY <1>2, <1>3 DEF Line
<1> QED BY <1>2, <1>3, <1>4 DEF Undoable!Edit, Undoable!Then, Line

LEMMA UndoMovesBack ==
  ASSUME ModelInv, Undo
  PROVE  Undoable!Undo
<1>1. past \in Seq(FeatureList) /\ future \in Seq(FeatureList) /\ features \in FeatureList
  BY DEF ModelInv, ModelTypeOK
<1>2. /\ past # <<>> /\ features' = Top(past) /\ past' = Pop(past)
      /\ future' = Append(future, features)
  BY DEF Undo
<1> DEFINE p == Len(past)
           n == Len(future)
<1>3. /\ p \in Nat /\ p >= 1 /\ n \in Nat
      /\ Len(past') = p - 1 /\ \A i \in 1..(p - 1) : past'[i] = past[i]
      /\ features' = past[p]
  BY <1>1, <1>2, PopIs
<1>4. /\ Len(future') = n + 1 /\ \A i \in 1..n : future'[i] = future[i]
      /\ future'[n + 1] = features
  BY <1>1, <1>2, AppendIs
<1>5. Line' = Line
  <2>1. Line' = [i \in 1..((p - 1) + 1 + (n + 1)) |->
                   IF i <= p - 1 THEN past'[i]
                   ELSE IF i = (p - 1) + 1 THEN features'
                   ELSE future'[(p - 1) + 2 + (n + 1) - i]]
    BY <1>3, <1>4 DEF Line
  <2>2. 1..((p - 1) + 1 + (n + 1)) = 1..(p + 1 + n)
    BY <1>3
  <2>3. ASSUME NEW i \in 1..(p + 1 + n)
        PROVE  (IF i <= p - 1 THEN past'[i]
                ELSE IF i = (p - 1) + 1 THEN features'
                ELSE future'[(p - 1) + 2 + (n + 1) - i])
             = (IF i <= p THEN past[i]
                ELSE IF i = p + 1 THEN features
                ELSE future[p + 2 + n - i])
    <3> DEFINE k == p + 2 + n - i
    <3>1. (p - 1) + 2 + (n + 1) - i = k /\ (p - 1) + 1 = p
      BY <1>3
    <3>2. CASE i <= p
      BY <1>3, <3>2
    <3>3. CASE i = p + 1
      BY <1>3, <1>4, <3>1, <3>3
    <3>4. CASE i > p + 1
      <4>1. k \in 1..n
        BY <1>3, <3>4
      <4>2. future'[k] = future[k]
        BY <1>4, <4>1
      <4> QED BY <1>3, <3>1, <3>4, <4>2
    <3> QED BY <1>3, <3>2, <3>3, <3>4
  <2> HIDE DEF p, n
  <2> QED BY <2>1, <2>2, <2>3 DEF Line, p, n
<1> QED BY <1>3, <1>4, <1>5 DEF Undoable!Undo, Line

LEMMA RedoMovesOn ==
  ASSUME ModelInv, Redo
  PROVE  Undoable!Redo
<1>1. past \in Seq(FeatureList) /\ future \in Seq(FeatureList) /\ features \in FeatureList
  BY DEF ModelInv, ModelTypeOK
<1>2. /\ future # <<>> /\ features' = Top(future) /\ future' = Pop(future)
      /\ past' = Append(past, features)
  BY DEF Redo
<1> DEFINE p == Len(past)
           n == Len(future)
<1>3. /\ n \in Nat /\ n >= 1 /\ p \in Nat
      /\ Len(future') = n - 1 /\ \A i \in 1..(n - 1) : future'[i] = future[i]
      /\ features' = future[n]
  BY <1>1, <1>2, PopIs
<1>4. /\ Len(past') = p + 1 /\ \A i \in 1..p : past'[i] = past[i]
      /\ past'[p + 1] = features
  BY <1>1, <1>2, AppendIs
<1>5. Line' = Line
  <2>1. Line' = [i \in 1..((p + 1) + 1 + (n - 1)) |->
                   IF i <= p + 1 THEN past'[i]
                   ELSE IF i = (p + 1) + 1 THEN features'
                   ELSE future'[(p + 1) + 2 + (n - 1) - i]]
    BY <1>3, <1>4 DEF Line
  <2>2. 1..((p + 1) + 1 + (n - 1)) = 1..(p + 1 + n)
    BY <1>3
  <2>3. ASSUME NEW i \in 1..(p + 1 + n)
        PROVE  (IF i <= p + 1 THEN past'[i]
                ELSE IF i = (p + 1) + 1 THEN features'
                ELSE future'[(p + 1) + 2 + (n - 1) - i])
             = (IF i <= p THEN past[i]
                ELSE IF i = p + 1 THEN features
                ELSE future[p + 2 + n - i])
    <3>1. i \in Nat /\ p \in Nat /\ n \in Nat
      BY <1>3
    <3> HIDE DEF p, n
    <3>2. CASE i <= p
      BY <1>4, <3>1, <3>2
    <3>3. CASE i = p + 1
      BY <1>4, <3>1, <3>3
    <3>4. CASE i = (p + 1) + 1
      <4>1. p + 2 + n - i = n /\ ~(i <= p) /\ i # p + 1
        BY <3>1, <3>4
      <4> QED BY <1>3, <3>1, <3>4, <4>1
    <3>5. CASE i > (p + 1) + 1
      <4>1. /\ (p + 1) + 2 + (n - 1) - i = p + 2 + n - i
            /\ p + 2 + n - i \in 1..(n - 1)
        BY <3>1, <3>5
      <4>2. future'[p + 2 + n - i] = future[p + 2 + n - i]
        BY <1>3, <4>1
      <4> QED BY <3>1, <3>5, <4>1, <4>2
    <3> QED BY <3>1, <3>2, <3>3, <3>4, <3>5
  <2> HIDE DEF p, n
  <2> QED BY <2>1, <2>2, <2>3 DEF Line, p, n
<1> QED BY <1>3, <1>4, <1>5 DEF Undoable!Redo, Line

LEMMA MergeOverwrites ==
  ASSUME ModelInv, NEW list \in FeatureList, features' = list, UNCHANGED <<past, future>>
  PROVE  Undoable!Overwrite
<1>1. Len(past) \in Nat /\ Len(future) \in Nat
  BY DEF ModelInv, ModelTypeOK
<1>2. Line' = [Line EXCEPT ![Len(past) + 1] = list]
  <2> DEFINE p == Len(past)
             n == Len(future)
  <2>1. past' = past /\ future' = future
    OBVIOUS
  <2>2. Line' = [i \in 1..(p + 1 + n) |->
                   IF i <= p THEN past[i]
                   ELSE IF i = p + 1 THEN list
                   ELSE future[p + 2 + n - i]]
    BY <2>1 DEF Line
  <2>3. DOMAIN Line = 1..(p + 1 + n)
    BY DEF Line
  <2>4. ASSUME NEW i \in 1..(p + 1 + n)
        PROVE  (IF i <= p THEN past[i] ELSE IF i = p + 1 THEN list ELSE future[p + 2 + n - i])
             = [Line EXCEPT ![p + 1] = list][i]
    BY <1>1 DEF Line
  <2> HIDE DEF p, n
  <2> QED BY <2>2, <2>3, <2>4 DEF p
<1> QED BY <1>2 DEF Undoable!Overwrite, Line

\* Through any sequence of edits, undo, redo, merges and version control, undo
\* and redo walk one line of states.
THEOREM UndoWalksOneLine == Spec => UndoWalksALine
<1>1. Init => Undoable!Init
  <2> SUFFICES ASSUME Init PROVE Undoable!Init
      OBVIOUS
  <2>1. past = <<>> /\ future = <<>> /\ features \in FeatureList
    BY InitInv DEF Init, ModelInit, IInv, ModelInv, ModelTypeOK
  <2>2. Len(past) = 0 /\ Len(future) = 0
    BY <2>1
  <2> QED BY <2>1, <2>2 DEF Undoable!Init
<1>2. ASSUME IInv, [Next]_vars PROVE [Undoable!Next]_(Undoable!vars)
  <2>1. CASE Undo
    BY <1>2, <2>1, UndoMovesBack DEF IInv, Undoable!Next
  <2>2. CASE Redo
    BY <1>2, <2>2, RedoMovesOn DEF IInv, Undoable!Next
  <2>3. CASE \E list \in FeatureList : Edit(list)
    BY <1>2, <2>3, EditExtends DEF IInv, Undoable!Next
  <2>4. CASE ApplyMerge
    <3>1. features' = Resolved /\ UNCHANGED <<past, future>> /\ Resolved \in FeatureList
      BY <1>2, <2>4, ResolvedTyped DEF ApplyMerge
    <3> QED BY <1>2, <3>1, MergeOverwrites DEF IInv, Undoable!Next
  <2>5. CASE UNCHANGED model
    BY <2>5 DEF model, Undoable!vars
  <2>6. ASSUME ModelStep, ~Undo, ~Redo PROVE \E list \in FeatureList : Edit(list)
    <3>1. ASSUME NEW ids \in SUBSET Feature PROVE Extended(ids) \in FeatureList
      BY <1>2, ExtendedTyped DEF IInv, Known
    <3>2. ASSUME NEW id \in DOMAIN features, NEW v \in Value
          PROVE  [features EXCEPT ![id] = v] \in FeatureList
      <4>1. DOMAIN features \subseteq Feature /\ features \in [DOMAIN features -> Value]
        BY <1>2, FeatureListIs DEF IInv, ModelInv, ModelTypeOK
      <4>2. [features EXCEPT ![id] = v] \in [DOMAIN features -> Value]
        BY <4>1
      <4>3. DOMAIN [features EXCEPT ![id] = v] = DOMAIN features
        OBVIOUS
      <4> QED BY <4>1, <4>2, <4>3, FeatureListIs
    <3> QED BY <2>6, <3>1, <3>2 DEF ModelStep, AddFeature, UpdateParam, CommitSketch
  <2>7. \/ ModelStep \/ SketchStep \/ ApplyMerge \/ UNCHANGED model
    BY <1>2 DEF Next, vars, VersionStep, CommitModel, CreateBranch, Checkout, Merge, ResolveConflict
  <2>8. SketchStep => UNCHANGED model
    BY <1>2, SketchStepKeeps DEF IInv
  <2> QED BY <2>1, <2>2, <2>3, <2>4, <2>5, <2>6, <2>7, <2>8
<1> QED BY <1>1, <1>2, Invariance, PTL DEF Spec, UndoWalksALine, Undoable!Spec
=============================================================================
