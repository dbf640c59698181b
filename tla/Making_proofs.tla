--------------------------- MODULE Making_proofs ---------------------------
(***************************************************************************)
(* Theorems about the parts that make a thing of a design: the evaluation  *)
(* of the features, the solver of the mates, the solver of the sketches,   *)
(* the rounding of edges, the load steps of the simulation, and the        *)
(* supports of a print. In each the proof says what a fold of the code has *)
(* established on its way: what has been visited of a tree is listed       *)
(* parents first, a sweep over the mates that corrects nothing leaves      *)
(* every mate holding, a tool that is made is in one batch, and so on.     *)
(***************************************************************************)
EXTENDS FeatureTree, AssemblyMotion, SketchSolver, EdgeRounding, ContactCoupling, LayerSupports,
        FiniteSetsExt, Induction, SequenceTheorems, FiniteSetTheorems, TLAPS

--------------------------------------------------------------------------
(* The tree of features and the design table (feature_tree.rs, design_table.rs). *)

\* The features have ids of which there are, and so have their parents.
KnownIds ==
  /\ DOMAIN features \subseteq FeatureId
  /\ \A id \in DOMAIN features : features[id].parents \in Seq(FeatureId)

VisitTyped(visit) == \A s \in VisitState, id \in FeatureId : visit[id][s] \in VisitState

ParentFold(visit, s, ps) ==
  CHOOSE iter : iter = [z \in SUBSET (DOMAIN ps) |-> IF z = {} THEN s ELSE VisitParent(visit, iter[z \ {Max(z)}], ps[Max(z)])]

\* The loop over the parents of a feature is a fold,
LEMMA ParentsAreAFold ==
  ASSUME NEW visit, NEW s, NEW ps
  PROVE  VisitParents(visit, s, ps) = ParentFold(visit, s, ps)[DOMAIN ps]
BY Zenon DEF VisitParents, FoldLeft, MapThenFoldSet, ParentFold

\* A parent is visited from one state to another.
LEMMA ParentTyped ==
  ASSUME NEW visit, VisitTyped(visit), KnownIds, NEW s \in VisitState, NEW p
  PROVE  VisitParent(visit, s, p) \in VisitState
<1>1. CASE s.error # ""
  BY <1>1 DEF VisitParent
<1>2. CASE s.error = "" /\ ~Known(p)
  BY <1>2 DEF VisitParent, VisitState
<1>3. CASE s.error = "" /\ Known(p)
  BY <1>3 DEF VisitParent, VisitTyped, KnownIds, Known
<1> QED BY <1>1, <1>2, <1>3

\* which goes through a state for each parent.
LEMMA ParentStates ==
  ASSUME NEW n \in Nat, NEW ps, DOMAIN ps = 1..n, NEW s \in VisitState, NEW visit, VisitTyped(visit), KnownIds
  PROVE  \E st \in [0..n -> VisitState] :
            /\ st[0] = s
            /\ \A i \in 1..n : st[i] = VisitParent(visit, st[i - 1], ps[i])
            /\ VisitParents(visit, s, ps) = st[n]
<1> DEFINE base == s
           step == [x \in VisitState \X (1..n) |-> VisitParent(visit, x[1], ps[x[2]])]
           Body(g, z) == IF z = {} THEN base ELSE VisitParent(visit, g[z \ {Max(z)}], ps[Max(z)])
           f == ParentFold(visit, s, ps)
<1>1. base \in VisitState
  OBVIOUS
<1>2. step \in [VisitState \X (1..n) -> VisitState]
  <2>1. ASSUME NEW x \in VisitState \X (1..n) PROVE VisitParent(visit, x[1], ps[x[2]]) \in VisitState
    <3>1. x[1] \in VisitState /\ x[2] \in 1..n
      OBVIOUS
    <3> QED BY <3>1, ParentTyped
  <2> QED BY <2>1
<1>3. \A t \in VisitState, i \in 1..n : step[<<t, i>>] = VisitParent(visit, t, ps[i])
  OBVIOUS
<1> HIDE DEF base, step
<1>4. PICK g : IsFold(n, VisitState, base, step, g)
  BY <1>1, <1>2, FoldSteps
<1>4a. g \in [SUBSET (1..n) -> VisitState] /\ \A z \in SUBSET (1..n) : g[z] = Next1(base, step, g, z)
  BY <1>4 DEF IsFold
<1>5. g = [z \in SUBSET (1..n) |-> Body(g, z)]
  <2>1. ASSUME NEW z \in SUBSET (1..n) PROVE g[z] = Body(g, z)
    <3>1. CASE z = {}
      BY <1>4a, <3>1 DEF Next1
    <3>2. CASE z # {}
      <4>1. PICK m, r : m = Max(z) /\ r = z \ {m}
        OBVIOUS
      <4>2. m \in 1..n /\ r \in SUBSET (1..n)
        BY <3>2, <4>1, SubsetsOfFirst
      <4>3. g[z] = step[<<g[r], m>>]
        BY <1>4a, <3>2, <4>1 DEF Next1
      <4> QED BY <1>3, <1>4a, <3>2, <4>1, <4>2, <4>3
    <3> QED BY <3>1, <3>2
  <2>2. g = [z \in SUBSET (1..n) |-> g[z]]
    BY <1>4a
  <2> HIDE DEF Body
  <2> QED BY <2>1, <2>2
<1>6. f = [z \in SUBSET (1..n) |-> Body(f, z)]
  <2>1. f = CHOOSE iter : iter = [z \in SUBSET (1..n) |-> Body(iter, z)]
    BY DEF ParentFold, base
  <2> HIDE DEF f, Body
  <2> QED BY <1>5, <2>1
<1> HIDE DEF f
<1>7. f[{}] = base
  BY <1>6
<1>8. \A z \in SUBSET (1..n) : z # {} /\ f[z \ {Max(z)}] \in VisitState => f[z] = step[<<f[z \ {Max(z)}], Max(z)>>]
  <2>1. ASSUME NEW z \in SUBSET (1..n), z # {}, f[z \ {Max(z)}] \in VisitState PROVE f[z] = step[<<f[z \ {Max(z)}], Max(z)>>]
    <3>1. PICK m, r : m = Max(z) /\ r = z \ {m}
      OBVIOUS
    <3>2. m \in 1..n /\ r \in SUBSET (1..n)
      BY <2>1, <3>1, SubsetsOfFirst
    <3>3. f[z] = VisitParent(visit, f[r], ps[m])
      BY <1>6, <2>1, <3>1
    <3> QED BY <1>3, <2>1, <3>1, <3>2, <3>3
  <2> QED BY <2>1
<1>9. f[1..0] = base /\ (\A i \in 1..n : f[1..i] = step[<<f[1..(i - 1)], i>>]) /\ (\A i \in 0..n : f[1..i] \in VisitState)
  <2>1. GoesAsFold(n, VisitState, base, step, f)
    BY <1>7, <1>8 DEF GoesAsFold
  <2>2. AdvancesBy(n, VisitState, base, step, f)
    BY <1>1, <1>2, <2>1, FoldStates
  <2> QED BY <2>2 DEF AdvancesBy
<1> DEFINE st == [i \in 0..n |-> f[1..i]]
<1>10. st \in [0..n -> VisitState] /\ st[0] = base /\ st[n] = f[1..n]
  BY <1>9
<1>11. \A i \in 1..n : st[i] = VisitParent(visit, st[i - 1], ps[i])
  <2>1. ASSUME NEW i \in 1..n PROVE st[i] = VisitParent(visit, st[i - 1], ps[i])
    <3>1. i - 1 \in 0..n /\ i \in 0..n
      OBVIOUS
    <3>2. st[i] = f[1..i] /\ st[i - 1] = f[1..(i - 1)] /\ f[1..(i - 1)] \in VisitState
      BY <1>9, <3>1
    <3> QED BY <1>3, <1>9, <3>2
  <2> QED BY <2>1
<1>12. VisitParents(visit, s, ps) = f[1..n]
  BY Zenon, ParentsAreAFold DEF ParentFold, f
<1> HIDE DEF st
<1> QED BY <1>10, <1>11, <1>12 DEF base

\* The visits of a depth, made of those that are one less deep.
VisitsOf(visits, d) ==
  [id \in FeatureId |-> [s \in VisitState |-> IF d = 0 THEN [s EXCEPT !.error = "TooDeep"] ELSE VisitBody(visits[d - 1], s, id)]]
Depths(k, g) == g = [d \in 0..k |-> VisitsOf(g, d)]

\* Up to any depth there are visits of each depth.
LEMMA DepthsExist == \A k \in Nat : \E g : Depths(k, g)
<1> DEFINE Good == {k \in Nat : \E g : Depths(k, g)}
<1>0. ASSUME NEW g, NEW h, NEW d, d # 0 => g[d - 1] = h[d - 1] PROVE VisitsOf(g, d) = VisitsOf(h, d)
  <2>1. CASE d = 0
    BY <2>1 DEF VisitsOf
  <2>2. CASE d # 0
    BY <1>0, <2>2 DEF VisitsOf
  <2> QED BY <2>1, <2>2
<1>1. 0 \in Good
  <2> DEFINE g == [d \in 0..0 |-> VisitsOf(<<>>, d)]
  <2>1. \A d \in 0..0 : VisitsOf(g, d) = VisitsOf(<<>>, d)
    <3> HIDE DEF g
    <3> QED BY <1>0
  <2>2. g = [d \in 0..0 |-> VisitsOf(g, d)]
    BY <2>1
  <2>3. Depths(0, g)
    <3> HIDE DEF g
    <3> QED BY <2>2 DEF Depths
  <2> HIDE DEF g
  <2> QED BY <2>3
<1>2. ASSUME NEW k \in Nat, k \in Good PROVE k + 1 \in Good
  <2>1. PICK g : Depths(k, g)
    BY <1>2
  <2> DEFINE h == [d \in 0..(k + 1) |-> IF d = k + 1 THEN VisitsOf(g, k + 1) ELSE g[d]]
  <2>2. \A d \in 0..k : g[d] = VisitsOf(g, d)
    BY <2>1 DEF Depths
  <2>3. \A d \in 0..k : h[d] = g[d]
    OBVIOUS
  <2>4. h[k + 1] = VisitsOf(g, k + 1)
    OBVIOUS
  <2>5. ASSUME NEW d \in 0..(k + 1) PROVE h[d] = VisitsOf(h, d)
    <3> HIDE DEF h
    <3>1. d # 0 => d - 1 \in 0..k
      OBVIOUS
    <3>2. VisitsOf(g, d) = VisitsOf(h, d)
      <4>1. d # 0 => g[d - 1] = h[d - 1]
        BY <2>3, <3>1
      <4> QED BY <1>0, <4>1
    <3>3. CASE d = k + 1
      BY <2>4, <3>2, <3>3
    <3>4. CASE d # k + 1
      <4>1. d \in 0..k
        BY <3>4
      <4> QED BY <2>2, <2>3, <3>2, <4>1
    <3> QED BY <3>3, <3>4
  <2>6. h = [d \in 0..(k + 1) |-> VisitsOf(h, d)]
    <3>1. h = [d \in 0..(k + 1) |-> h[d]]
      OBVIOUS
    <3> HIDE DEF h
    <3> QED BY ONLY <2>5, <3>1
  <2>7. Depths(k + 1, h)
    <3> HIDE DEF h
    <3> QED BY <2>6 DEF Depths
  <2> HIDE DEF h
  <2> QED BY <2>7
<1>3. \A k \in Nat : k \in Good
  <2> HIDE DEF Good
  <2>1. \A k \in Nat : k \in Good => k + 1 \in Good
    BY <1>2
  <2> QED BY <1>1, <2>1, InductionOverSet
<1> QED BY <1>3

\* The depth is one more than there are ids.
LEMMA DepthIs == Cardinality(FeatureId) \in Nat /\ Depth \in Nat /\ Depth = Cardinality(FeatureId) + 1
BY FeatureTreeAssumption, FS_CardinalityType DEF Depth

\* So the recursive function is there: a visit makes calls that are one less deep.
LEMMA VisitIs ==
  /\ \A id \in FeatureId, s \in VisitState : Visit[0][id][s] = [s EXCEPT !.error = "TooDeep"]
  /\ \A d \in 1..Depth, id \in FeatureId, s \in VisitState : Visit[d][id][s] = VisitBody(Visit[d - 1], s, id)
<1>1. PICK g : Depths(Depth, g)
  BY DepthIs, DepthsExist
<1>2. Visit = CHOOSE h : Depths(Depth, h)
  BY Zenon DEF Visit, Depths, VisitsOf
<1>3. Depths(Depth, Visit)
  BY <1>1, <1>2
<1>4. Visit = [d \in 0..Depth |-> VisitsOf(Visit, d)]
  BY <1>3 DEF Depths
<1>5. \A d \in 0..Depth : Visit[d] = VisitsOf(Visit, d)
  BY ONLY <1>4
<1>6. 0 \in 0..Depth /\ \A d \in 1..Depth : d \in 0..Depth /\ d # 0
  BY DepthIs
<1>7. \A id \in FeatureId, s \in VisitState : Visit[0][id][s] = [s EXCEPT !.error = "TooDeep"]
  <2>1. Visit[0] = VisitsOf(Visit, 0)
    BY <1>5, <1>6
  <2> QED BY <2>1 DEF VisitsOf
<1>8. ASSUME NEW d \in 1..Depth, NEW id \in FeatureId, NEW s \in VisitState PROVE Visit[d][id][s] = VisitBody(Visit[d - 1], s, id)
  <2>1. d \in 0..Depth /\ d # 0
    BY <1>6
  <2>2. Visit[d] = VisitsOf(Visit, d)
    BY <1>5, <2>1
  <2> QED BY <2>1, <2>2 DEF VisitsOf
<1> QED BY <1>7, <1>8

TopoStart == [visited |-> {}, progress |-> {}, result |-> <<>>, error |-> ""]

TopoFold ==
  CHOOSE iter : iter = [z \in SUBSET (DOMAIN order) |-> IF z = {} THEN TopoStart ELSE Visit[Depth][order[Max(z)]][iter[z \ {Max(z)}]]]

\* The loop of topo_order() over the history is a fold, too,
LEMMA TopoIsAFold == TopoOrder = TopoFold[DOMAIN order]
BY Zenon DEF TopoOrder, FoldLeft, MapThenFoldSet, TopoFold, TopoStart

\* with a state for each feature.
LEMMA TopoStates ==
  ASSUME NEW n \in Nat, DOMAIN order = 1..n, \A i \in 1..n : order[i] \in FeatureId, VisitTyped(Visit[Depth])
  PROVE  \E st \in [0..n -> VisitState] :
            /\ st[0] = TopoStart
            /\ \A i \in 1..n : st[i] = Visit[Depth][order[i]][st[i - 1]]
            /\ TopoOrder = st[n]
<1> DEFINE base == TopoStart
           step == [x \in VisitState \X (1..n) |-> Visit[Depth][order[x[2]]][x[1]]]
           Body(g, z) == IF z = {} THEN base ELSE Visit[Depth][order[Max(z)]][g[z \ {Max(z)}]]
           f == TopoFold
<1>1. base \in VisitState
  BY DEF TopoStart, VisitState
<1>2. step \in [VisitState \X (1..n) -> VisitState]
  <2>1. ASSUME NEW x \in VisitState \X (1..n) PROVE Visit[Depth][order[x[2]]][x[1]] \in VisitState
    <3>1. x[1] \in VisitState /\ x[2] \in 1..n
      OBVIOUS
    <3> QED BY <3>1 DEF VisitTyped
  <2> QED BY <2>1
<1>3. \A t \in VisitState, i \in 1..n : step[<<t, i>>] = Visit[Depth][order[i]][t]
  OBVIOUS
<1> HIDE DEF base, step
<1>4. PICK g : IsFold(n, VisitState, base, step, g)
  BY <1>1, <1>2, FoldSteps
<1>4a. g \in [SUBSET (1..n) -> VisitState] /\ \A z \in SUBSET (1..n) : g[z] = Next1(base, step, g, z)
  BY <1>4 DEF IsFold
<1>5. g = [z \in SUBSET (1..n) |-> Body(g, z)]
  <2>1. ASSUME NEW z \in SUBSET (1..n) PROVE g[z] = Body(g, z)
    <3>1. CASE z = {}
      BY <1>4a, <3>1 DEF Next1
    <3>2. CASE z # {}
      <4>1. PICK m, r : m = Max(z) /\ r = z \ {m}
        OBVIOUS
      <4>2. m \in 1..n /\ r \in SUBSET (1..n)
        BY <3>2, <4>1, SubsetsOfFirst
      <4>3. g[z] = step[<<g[r], m>>]
        BY <1>4a, <3>2, <4>1 DEF Next1
      <4> QED BY <1>3, <1>4a, <3>2, <4>1, <4>2, <4>3
    <3> QED BY <3>1, <3>2
  <2>2. g = [z \in SUBSET (1..n) |-> g[z]]
    BY <1>4a
  <2> HIDE DEF Body
  <2> QED BY <2>1, <2>2
<1>6. f = [z \in SUBSET (1..n) |-> Body(f, z)]
  <2>1. f = CHOOSE iter : iter = [z \in SUBSET (1..n) |-> Body(iter, z)]
    BY DEF TopoFold, base
  <2> HIDE DEF f, Body
  <2> QED BY <1>5, <2>1
<1> HIDE DEF f
<1>7. f[{}] = base
  BY <1>6
<1>8. \A z \in SUBSET (1..n) : z # {} /\ f[z \ {Max(z)}] \in VisitState => f[z] = step[<<f[z \ {Max(z)}], Max(z)>>]
  <2>1. ASSUME NEW z \in SUBSET (1..n), z # {}, f[z \ {Max(z)}] \in VisitState PROVE f[z] = step[<<f[z \ {Max(z)}], Max(z)>>]
    <3>1. PICK m, r : m = Max(z) /\ r = z \ {m}
      OBVIOUS
    <3>2. m \in 1..n /\ r \in SUBSET (1..n)
      BY <2>1, <3>1, SubsetsOfFirst
    <3>3. f[z] = Visit[Depth][order[m]][f[r]]
      BY <1>6, <2>1, <3>1
    <3> QED BY <1>3, <2>1, <3>1, <3>2, <3>3
  <2> QED BY <2>1
<1>9. f[1..0] = base /\ (\A i \in 1..n : f[1..i] = step[<<f[1..(i - 1)], i>>]) /\ (\A i \in 0..n : f[1..i] \in VisitState)
  <2>1. GoesAsFold(n, VisitState, base, step, f)
    BY <1>7, <1>8 DEF GoesAsFold
  <2>2. AdvancesBy(n, VisitState, base, step, f)
    BY <1>1, <1>2, <2>1, FoldStates
  <2> QED BY <2>2 DEF AdvancesBy
<1> DEFINE st == [i \in 0..n |-> f[1..i]]
<1>10. st \in [0..n -> VisitState] /\ st[0] = base /\ st[n] = f[1..n]
  BY <1>9
<1>11. \A i \in 1..n : st[i] = Visit[Depth][order[i]][st[i - 1]]
  <2>1. ASSUME NEW i \in 1..n PROVE st[i] = Visit[Depth][order[i]][st[i - 1]]
    <3>1. i - 1 \in 0..n /\ i \in 0..n
      OBVIOUS
    <3>2. st[i] = f[1..i] /\ st[i - 1] = f[1..(i - 1)] /\ f[1..(i - 1)] \in VisitState
      BY <1>9, <3>1
    <3> QED BY <1>3, <1>9, <3>2
  <2> QED BY <2>1
<1>12. TopoOrder = f[1..n]
  BY Zenon, TopoIsAFold DEF TopoFold, f
<1> HIDE DEF st
<1> QED BY <1>10, <1>11, <1>12 DEF base

ListOf(ids, n, S) == ids \in [1..n -> S]

RetainStep(kept, f, id) == IF f = id THEN kept ELSE Append(kept, f)

RetainFold(ids, id) ==
  CHOOSE iter : iter = [z \in SUBSET (DOMAIN ids) |-> IF z = {} THEN <<>> ELSE RetainStep(iter[z \ {Max(z)}], ids[Max(z)], id)]

\* And so is retain(),
LEMMA RetainedIsAFold ==
  ASSUME NEW ids, NEW id
  PROVE  Retained(ids, id) = RetainFold(ids, id)[DOMAIN ids]
BY Zenon DEF Retained, FoldLeft, MapThenFoldSet, RetainFold, RetainStep

\* The lists that retain() goes through.
RetainRun(st, n, S, ids, id) ==
  /\ st \in [0..n -> Seq(S)] /\ st[0] = <<>> /\ Retained(ids, id) = st[n]
  /\ \A i \in 1..n : st[i] = RetainStep(st[i - 1], ids[i], id)

\* with a list for each id that is looked at.
LEMMA RetainedStates ==
  ASSUME NEW n \in Nat, NEW S, NEW ids, ListOf(ids, n, S), NEW id
  PROVE  \E st : RetainRun(st, n, S, ids, id)
<1> DEFINE base == <<>>
           step == [x \in Seq(S) \X (1..n) |-> RetainStep(x[1], ids[x[2]], id)]
           Body(g, z) == IF z = {} THEN base ELSE RetainStep(g[z \ {Max(z)}], ids[Max(z)], id)
           f == RetainFold(ids, id)
<1>1. base \in Seq(S)
  OBVIOUS
<1>2. step \in [Seq(S) \X (1..n) -> Seq(S)]
  <2>1. ASSUME NEW x \in Seq(S) \X (1..n) PROVE RetainStep(x[1], ids[x[2]], id) \in Seq(S)
    <3>1. x[1] \in Seq(S) /\ x[2] \in 1..n
      OBVIOUS
    <3> QED BY <3>1 DEF ListOf, RetainStep
  <2> QED BY <2>1
<1>3. \A t \in Seq(S), i \in 1..n : step[<<t, i>>] = RetainStep(t, ids[i], id)
  OBVIOUS
<1> HIDE DEF base, step
<1>4. PICK g : IsFold(n, Seq(S), base, step, g)
  BY <1>1, <1>2, FoldSteps
<1>4a. g \in [SUBSET (1..n) -> Seq(S)] /\ \A z \in SUBSET (1..n) : g[z] = Next1(base, step, g, z)
  BY <1>4 DEF IsFold
<1>5. g = [z \in SUBSET (1..n) |-> Body(g, z)]
  <2>1. ASSUME NEW z \in SUBSET (1..n) PROVE g[z] = Body(g, z)
    <3>1. CASE z = {}
      BY <1>4a, <3>1 DEF Next1
    <3>2. CASE z # {}
      <4>1. PICK m, r : m = Max(z) /\ r = z \ {m}
        OBVIOUS
      <4>2. m \in 1..n /\ r \in SUBSET (1..n)
        BY <3>2, <4>1, SubsetsOfFirst
      <4>3. g[z] = step[<<g[r], m>>]
        BY <1>4a, <3>2, <4>1 DEF Next1
      <4> QED BY <1>3, <1>4a, <3>2, <4>1, <4>2, <4>3
    <3> QED BY <3>1, <3>2
  <2>2. g = [z \in SUBSET (1..n) |-> g[z]]
    BY <1>4a
  <2> HIDE DEF Body
  <2> QED BY <2>1, <2>2
<1>6. f = [z \in SUBSET (1..n) |-> Body(f, z)]
  <2>1. f = CHOOSE iter : iter = [z \in SUBSET (1..n) |-> Body(iter, z)]
    BY DEF RetainFold, ListOf, base
  <2> HIDE DEF f, Body
  <2> QED BY <1>5, <2>1
<1> HIDE DEF f
<1>7. f[{}] = base
  BY <1>6
<1>8. \A z \in SUBSET (1..n) : z # {} /\ f[z \ {Max(z)}] \in Seq(S) => f[z] = step[<<f[z \ {Max(z)}], Max(z)>>]
  <2>1. ASSUME NEW z \in SUBSET (1..n), z # {}, f[z \ {Max(z)}] \in Seq(S) PROVE f[z] = step[<<f[z \ {Max(z)}], Max(z)>>]
    <3>1. PICK m, r : m = Max(z) /\ r = z \ {m}
      OBVIOUS
    <3>2. m \in 1..n /\ r \in SUBSET (1..n)
      BY <2>1, <3>1, SubsetsOfFirst
    <3>3. f[z] = RetainStep(f[r], ids[m], id)
      BY <1>6, <2>1, <3>1
    <3> QED BY <1>3, <2>1, <3>1, <3>2, <3>3
  <2> QED BY <2>1
<1>9. f[1..0] = base /\ (\A i \in 1..n : f[1..i] = step[<<f[1..(i - 1)], i>>]) /\ (\A i \in 0..n : f[1..i] \in Seq(S))
  <2>1. GoesAsFold(n, Seq(S), base, step, f)
    BY <1>7, <1>8 DEF GoesAsFold
  <2>2. AdvancesBy(n, Seq(S), base, step, f)
    BY <1>1, <1>2, <2>1, FoldStates
  <2> QED BY <2>2 DEF AdvancesBy
<1> DEFINE st == [i \in 0..n |-> f[1..i]]
<1>10. st \in [0..n -> Seq(S)] /\ st[0] = base /\ st[n] = f[1..n]
  BY <1>9
<1>11. \A i \in 1..n : st[i] = RetainStep(st[i - 1], ids[i], id)
  <2>1. ASSUME NEW i \in 1..n PROVE st[i] = RetainStep(st[i - 1], ids[i], id)
    <3>1. i - 1 \in 0..n /\ i \in 0..n
      OBVIOUS
    <3>2. st[i] = f[1..i] /\ st[i - 1] = f[1..(i - 1)] /\ f[1..(i - 1)] \in Seq(S)
      BY <1>9, <3>1
    <3> QED BY <1>3, <1>9, <3>2
  <2> QED BY <2>1
<1>12. Retained(ids, id) = f[1..n]
  BY RetainedIsAFold DEF ListOf, RetainFold, f
<1> HIDE DEF st
<1> QED BY <1>10, <1>11, <1>12 DEF base, RetainRun


\* A list of features, each once and after those that it needs.
Listed(list) ==
  /\ \A i, j \in DOMAIN list : list[i] = list[j] => i = j
  /\ \A j \in DOMAIN list : \A p \in Needs(list[j]) : \E i \in 1..(j - 1) : list[i] = p

\* Where topo_order() can be.
StateOK(s) ==
  /\ s \in VisitState
  /\ s.visited \subseteq DOMAIN features /\ s.progress \subseteq DOMAIN features /\ s.visited \cap s.progress = {}
  /\ Range(s.result) = s.visited /\ Listed(s.result)
  /\ s.error \in {"", "MissingParent", "Cycle"}
  /\ s.error = "MissingParent" => Holes # {}
  /\ s.error = "Cycle" => Cycles # {}

\* What is in progress needs the feature that is visited next.
Leads(s, id) == \A x \in s.progress : id \in Ancestors(Needs(x))
Entered(s, id) == StateOK(s) /\ id \in DOMAIN features /\ (s.error = "" => Leads(s, id))

\* A visit ends with the feature in the list, and nothing else in progress than before.
Left(s, id, t) ==
  /\ StateOK(t) /\ s.visited \subseteq t.visited
  /\ t.error = "" => t.progress = s.progress /\ id \in t.visited

Fewer(s, m) == Cardinality(FeatureId \ s.progress) < m
Serves(visit, m) == \A id \in FeatureId, s \in VisitState : Entered(s, id) /\ Fewer(s, m) => Left(s, id, visit[id][s])

\* What a feature needs, and what that needs.
LEMMA AncestorSteps ==
  ASSUME KnownIds, NEW x \in DOMAIN features
  PROVE  /\ Needs(x) \subseteq Ancestors(Needs(x))
         /\ \A y \in DOMAIN features : y \in Ancestors(Needs(x)) => Needs(y) \subseteq Ancestors(Needs(x))
<1>1. \A y \in DOMAIN features : Needs(y) \subseteq FeatureId
  BY DEF Needs, Range, KnownIds
<1>2. Needs(x) \subseteq Ancestors(Needs(x))
  BY <1>1 DEF Ancestors
<1>3. ASSUME NEW y \in DOMAIN features, y \in Ancestors(Needs(x)), NEW p \in Needs(y) PROVE p \in Ancestors(Needs(x))
  <2>1. p \in FeatureId
    BY <1>1
  <2>2. ASSUME NEW all \in SUBSET FeatureId, Needs(x) \subseteq all, \A id \in all \cap DOMAIN features : Needs(id) \subseteq all
        PROVE  p \in all
    <3>1. y \in all
      BY <1>3, <2>2 DEF Ancestors
    <3> QED BY <2>2, <3>1
  <2> QED BY <2>1, <2>2 DEF Ancestors
<1> QED BY <1>2, <1>3

\* The body of a visit goes from one state to another.
LEMMA BodyTyped ==
  ASSUME NEW visit, VisitTyped(visit), KnownIds, NEW s \in VisitState, NEW id \in FeatureId
  PROVE  VisitBody(visit, s, id) \in VisitState
<1> DEFINE ps == IF id \in DOMAIN features THEN features[id].parents ELSE <<>>
           into == [s EXCEPT !.progress = @ \cup {id}]
           done == VisitParents(visit, into, ps)
<1>1. PICK n \in Nat : DOMAIN ps = 1..n
  <2>1. ps \in Seq(FeatureId)
    BY DEF KnownIds
  <2> QED BY <2>1
<1>2. into \in VisitState /\ [s EXCEPT !.error = "Cycle"] \in VisitState
  BY DEF VisitState
<1>3. done \in VisitState
  <2> HIDE DEF ps, into
  <2>1. PICK st \in [0..n -> VisitState] : VisitParents(visit, into, ps) = st[n]
    BY <1>1, <1>2, ParentStates
  <2> QED BY <2>1
<1>4. [done EXCEPT !.progress = @ \ {id}, !.visited = @ \cup {id}, !.result = Append(@, id)] \in VisitState
  <2> HIDE DEF done
  <2>1. /\ done.visited \subseteq FeatureId /\ done.progress \subseteq FeatureId /\ done.result \in Seq(FeatureId)
        /\ done.error \in {"", "MissingParent", "Cycle", "TooDeep"}
        /\ DOMAIN done = {"visited", "progress", "result", "error"}
    BY <1>3 DEF VisitState
  <2>2. PICK r : r = Append(done.result, id) /\ r \in Seq(FeatureId)
    <3>1. PICK q \in Seq(FeatureId) : q = done.result
      BY <2>1
    <3>2. id \in FeatureId
      OBVIOUS
    <3>3. Append(q, id) \in Seq(FeatureId)
      BY ONLY <3>1, <3>2, AppendProperties
    <3> QED BY <3>1, <3>3
  <2>3. [done EXCEPT !.progress = @ \ {id}, !.visited = @ \cup {id}, !.result = r] \in VisitState
    BY <1>3, <2>1, <2>2 DEF VisitState
  <2> QED BY <2>2, <2>3
<1> HIDE DEF done
<1> QED BY <1>2, <1>3, <1>4 DEF VisitBody, done

\* So does every visit.
LEMMA VisitsTyped == ASSUME KnownIds PROVE \A d \in 0..Depth : VisitTyped(Visit[d])
<1> DEFINE Good == {d \in Nat : d <= Depth => VisitTyped(Visit[d])}
<1>1. 0 \in Good
  <2>1. \A s \in VisitState : [s EXCEPT !.error = "TooDeep"] \in VisitState
    BY DEF VisitState
  <2>2. VisitTyped(Visit[0])
    BY <2>1, VisitIs DEF VisitTyped
  <2> QED BY <2>2
<1>2. ASSUME NEW d \in Nat, d \in Good PROVE d + 1 \in Good
  <2>1. ASSUME d + 1 <= Depth PROVE VisitTyped(Visit[d + 1])
    <3>1. d + 1 \in 1..Depth /\ (d + 1) - 1 = d /\ d <= Depth
      BY <2>1, DepthIs
    <3>2. VisitTyped(Visit[d])
      BY <1>2, <3>1
    <3>3. \A id \in FeatureId, s \in VisitState : Visit[d + 1][id][s] = VisitBody(Visit[d], s, id)
      BY <3>1, VisitIs
    <3>4. ASSUME NEW id \in FeatureId, NEW s \in VisitState PROVE Visit[d + 1][id][s] \in VisitState
      <4>1. PICK v : v = Visit[d]
        OBVIOUS
      <4>2. VisitBody(v, s, id) \in VisitState
        BY <3>2, <4>1, BodyTyped
      <4> QED BY <3>3, <4>1, <4>2
    <3> QED BY <3>4 DEF VisitTyped
  <2> QED BY <2>1
<1>3. \A d \in Nat : d \in Good
  <2> HIDE DEF Good
  <2>1. \A d \in Nat : d \in Good => d + 1 \in Good
    BY <1>2
  <2> QED BY <1>1, <2>1, InductionOverSet
<1> QED BY <1>3, DepthIs

\* The visit of id that was entered in s is at its parent p, in t.
AtParent(visit, m, s, id, t, p) ==
  /\ KnownIds /\ Serves(visit, m) /\ id \in DOMAIN features /\ Leads(s, id) /\ s.progress \subseteq DOMAIN features
  /\ StateOK(t) /\ (t.error = "" => t.progress = s.progress \cup {id})
  /\ Cardinality(FeatureId \ (s.progress \cup {id})) < m /\ p \in Needs(id)

\* And it is past p, in u.
PastParent(t, p, u) ==
  StateOK(u) /\ t.visited \subseteq u.visited /\ (u.error = "" => t.error = "" /\ u.progress = t.progress /\ p \in u.visited)

\* A parent in the loop is visited, or is a hole.
LEMMA ParentLeaves ==
  ASSUME NEW visit, NEW m, NEW s, NEW id, NEW t, NEW p, AtParent(visit, m, s, id, t, p)
  PROVE  PastParent(t, p, VisitParent(visit, t, p))
<1> USE DEF AtParent, PastParent
<1>1. CASE t.error # ""
  BY <1>1 DEF VisitParent
<1>2. CASE t.error = "" /\ ~Known(p)
  <2>1. PICK u : u = [t EXCEPT !.error = "MissingParent"]
    OBVIOUS
  <2>2. VisitParent(visit, t, p) = u
    BY <1>2, <2>1 DEF VisitParent
  <2>3. /\ u \in VisitState /\ u.visited = t.visited /\ u.progress = t.progress /\ u.result = t.result /\ u.error = "MissingParent"
    BY <2>1 DEF StateOK, VisitState
  <2>4. id \in Holes
    BY <1>2 DEF Holes, Known
  <2> QED BY <2>2, <2>3, <2>4 DEF StateOK
<1>3. CASE t.error = "" /\ Known(p)
  <2>1. VisitParent(visit, t, p) = visit[p][t]
    BY <1>3 DEF VisitParent
  <2>2. p \in DOMAIN features /\ p \in FeatureId
    BY <1>3 DEF Known, KnownIds
  <2>3. Leads(t, p)
    <3>1. ASSUME NEW x \in t.progress PROVE p \in Ancestors(Needs(x))
      <4>1. x \in s.progress \/ x = id
        BY <1>3
      <4>2. CASE x = id
        BY <4>2, AncestorSteps
      <4>3. CASE x \in s.progress
        <5>1. id \in Ancestors(Needs(x)) /\ x \in DOMAIN features
          BY <4>3 DEF Leads
        <5> QED BY <5>1, AncestorSteps
      <4> QED BY <4>1, <4>2, <4>3
    <3> QED BY <3>1 DEF Leads
  <2>4. Fewer(t, m)
    BY <1>3 DEF Fewer
  <2>5. Entered(t, p) /\ t \in VisitState
    BY <2>2, <2>3 DEF Entered, StateOK
  <2>6. Left(t, p, visit[p][t])
    BY <2>2, <2>4, <2>5 DEF Serves
  <2> QED BY <1>3, <2>1, <2>6 DEF Left
<1> QED BY <1>1, <1>2, <1>3

\* An id is appended to the list once what it needs is on it.
LEMMA ListedAppend ==
  ASSUME NEW r \in Seq(FeatureId), Listed(r), NEW id \in FeatureId, id \notin Range(r), Needs(id) \subseteq Range(r)
  PROVE  Listed(Append(r, id)) /\ Range(Append(r, id)) = Range(r) \cup {id} /\ Append(r, id) \in Seq(FeatureId)
<1>1. PICK n \in Nat : n = Len(r) /\ DOMAIN r = 1..n
  OBVIOUS
<1>2. PICK q : q = Append(r, id)
  OBVIOUS
<1>3. q \in Seq(FeatureId) /\ DOMAIN q = 1..(n + 1) /\ q[n + 1] = id /\ \A i \in 1..n : q[i] = r[i]
  BY <1>1, <1>2
<1>4. Range(q) = Range(r) \cup {id}
  <2>1. \A i \in 1..(n + 1) : i \in 1..n \/ i = n + 1
    OBVIOUS
  <2>2. 1..n \subseteq 1..(n + 1) /\ n + 1 \in 1..(n + 1)
    OBVIOUS
  <2> QED BY <1>1, <1>3, <2>1, <2>2 DEF Range
<1>5. ASSUME NEW i \in 1..(n + 1), NEW j \in 1..(n + 1), q[i] = q[j] PROVE i = j
  <2>1. \A k \in 1..n : q[k] # id
    BY <1>1, <1>3 DEF Range
  <2>2. CASE i = n + 1 \/ j = n + 1
    BY <1>3, <1>5, <2>1, <2>2
  <2>3. CASE i # n + 1 /\ j # n + 1
    <3>1. i \in 1..n /\ j \in 1..n
      BY <2>3
    <3> QED BY <1>1, <1>3, <1>5, <3>1 DEF Listed
  <2> QED BY <2>2, <2>3
<1>6. ASSUME NEW j \in 1..(n + 1), NEW p \in Needs(q[j]) PROVE \E i \in 1..(j - 1) : q[i] = p
  <2>1. CASE j = n + 1
    <3>1. p \in Range(r)
      BY <1>3, <1>6, <2>1
    <3>2. PICK i \in 1..n : r[i] = p
      BY <1>1, <3>1 DEF Range
    <3>3. i \in 1..(j - 1)
      BY <2>1
    <3> QED BY <1>3, <3>2, <3>3
  <2>2. CASE j # n + 1
    <3>1. j \in 1..n
      BY <2>2
    <3>2. PICK i \in 1..(j - 1) : r[i] = p
      BY <1>1, <1>3, <1>6, <3>1 DEF Listed
    <3>3. i \in 1..n
      BY <3>1
    <3> QED BY <1>3, <3>2, <3>3
  <2> QED BY <2>1, <2>2
<1>7. Listed(q)
  <2>1. \A i, j \in DOMAIN q : q[i] = q[j] => i = j
    BY <1>3, <1>5
  <2>2. \A j \in DOMAIN q : \A p \in Needs(q[j]) : \E i \in 1..(j - 1) : q[i] = p
    BY <1>3, <1>6
  <2> QED BY ONLY <2>1, <2>2 DEF Listed
<1> QED BY <1>2, <1>3, <1>4, <1>7

\* One more in progress leaves one less that is not.
LEMMA OneFewer ==
  ASSUME NEW P, NEW id \in FeatureId, id \notin P
  PROVE  /\ Cardinality(FeatureId \ P) \in Nat
         /\ Cardinality(FeatureId \ (P \cup {id})) = Cardinality(FeatureId \ P) - 1
<1>1. IsFiniteSet(FeatureId \ P)
  BY FS_Subset, FeatureTreeAssumption
<1>2. (FeatureId \ P) \ {id} = FeatureId \ (P \cup {id})
  OBVIOUS
<1>3. Cardinality((FeatureId \ P) \ {id}) = Cardinality(FeatureId \ P) - 1
  BY <1>1, FS_RemoveElement
<1> QED BY <1>1, <1>2, <1>3, FS_CardinalityType

\* A visit does as it should if the calls that it makes do.
LEMMA BodyLeaves ==
  ASSUME KnownIds, NEW visit, VisitTyped(visit), NEW m \in Nat, Serves(visit, m),
         NEW id \in FeatureId, NEW s \in VisitState, Entered(s, id), Fewer(s, m + 1)
  PROVE  Left(s, id, VisitBody(visit, s, id))
<1>0. StateOK(s) /\ id \in DOMAIN features
  BY DEF Entered
<1>1. CASE s.error # "" \/ id \in s.visited
  <2>1. VisitBody(visit, s, id) = s
    BY <1>1 DEF VisitBody
  <2> QED BY <1>0, <1>1, <2>1 DEF Left
<1>2. CASE s.error = "" /\ id \notin s.visited /\ id \in s.progress
  <2>1. PICK u : u = [s EXCEPT !.error = "Cycle"]
    OBVIOUS
  <2>2. VisitBody(visit, s, id) = u
    BY <1>2, <2>1 DEF VisitBody
  <2>3. u \in VisitState /\ u.visited = s.visited /\ u.progress = s.progress /\ u.result = s.result /\ u.error = "Cycle"
    BY <2>1 DEF VisitState
  <2>4. id \in Cycles
    BY <1>0, <1>2 DEF Entered, Leads, Cycles
  <2> QED BY <1>0, <2>2, <2>3, <2>4 DEF StateOK, Left
<1>3. CASE s.error = "" /\ id \notin s.visited /\ id \notin s.progress
  <2>1. PICK ps : ps = features[id].parents /\ ps \in Seq(FeatureId)
    BY <1>0 DEF KnownIds
  <2>2. PICK n \in Nat : n = Len(ps) /\ DOMAIN ps = 1..n
    BY <2>1
  <2>3. Needs(id) = {ps[i] : i \in 1..n}
    BY <2>1, <2>2 DEF Needs, Range
  <2>4. PICK s1 : s1 = [s EXCEPT !.progress = @ \cup {id}]
    OBVIOUS
  <2>5. s1 \in VisitState /\ s1.progress = s.progress \cup {id} /\ s1.visited = s.visited /\ s1.result = s.result /\ s1.error = ""
    BY <1>3, <2>4 DEF VisitState
  <2>6. StateOK(s1)
    BY <1>0, <1>3, <2>5 DEF StateOK
  <2>7. Leads(s, id) /\ s.progress \subseteq DOMAIN features
    BY <1>0, <1>3 DEF Entered, StateOK
  <2>8. Cardinality(FeatureId \ (s.progress \cup {id})) < m
    <3>1. Cardinality(FeatureId \ s.progress) \in Nat /\ Cardinality(FeatureId \ (s.progress \cup {id})) = Cardinality(FeatureId \ s.progress) - 1
      BY <1>3, OneFewer
    <3> QED BY <3>1 DEF Fewer
  <2> DEFINE Run(st) == /\ st[0] = s1
                        /\ \A i \in 1..n : st[i] = VisitParent(visit, st[i - 1], ps[i])
                        /\ VisitParents(visit, s1, ps) = st[n]
  <2>9. \E st \in [0..n -> VisitState] : Run(st)
    <3>1. VisitTyped(visit) /\ KnownIds /\ n \in Nat /\ DOMAIN ps = 1..n /\ s1 \in VisitState
      BY <2>2, <2>5
    <3> QED BY ONLY <3>1, ParentStates
  <2>10. PICK st \in [0..n -> VisitState] : Run(st)
    <3> HIDE DEF Run
    <3> QED BY <2>9
  <2> DEFINE Kept(i) == /\ StateOK(st[i]) /\ s.visited \subseteq st[i].visited
                        /\ st[i].error = "" => st[i].progress = s.progress \cup {id} /\ \A j \in 1..i : ps[j] \in st[i].visited
             Good == {i \in Nat : i <= n => Kept(i)}
  <2>11. 0 \in Good
    <3>1. st[0] = s1
      BY <2>10
    <3>2. Kept(0)
      <4>1. \A j \in 1..0 : FALSE
        OBVIOUS
      <4>2. StateOK(st[0]) /\ st[0].visited = s.visited /\ st[0].progress = s.progress \cup {id}
        BY <2>5, <2>6, <3>1
      <4> QED BY <4>1, <4>2
    <3> HIDE DEF Kept
    <3> QED BY <3>2
  <2>12. ASSUME NEW i \in Nat, i \in Good PROVE i + 1 \in Good
    <3>1. ASSUME i + 1 <= n PROVE Kept(i + 1)
      <4>1. i + 1 \in 1..n /\ (i + 1) - 1 = i /\ i <= n
        BY <3>1
      <4>2. PICK t : t = st[i]
        OBVIOUS
      <4>3. StateOK(t) /\ s.visited \subseteq t.visited /\ (t.error = "" => t.progress = s.progress \cup {id} /\ \A j \in 1..i : ps[j] \in t.visited)
        BY <2>12, <4>1, <4>2
      <4>4. PICK p \in Needs(id) : p = ps[i + 1]
        BY <2>3, <4>1
      <4>5. PICK u : u = VisitParent(visit, t, p)
        OBVIOUS
      <4>6. st[i + 1] = u
        BY <2>10, <4>1, <4>2, <4>4, <4>5
      <4>7. StateOK(u) /\ t.visited \subseteq u.visited /\ (u.error = "" => t.error = "" /\ u.progress = t.progress /\ p \in u.visited)
        <5>1. StateOK(t) /\ (t.error = "" => t.progress = s.progress \cup {id}) /\ p \in Needs(id) /\ id \in DOMAIN features
              /\ KnownIds /\ Serves(visit, m)
          BY <1>0, <4>3
        <5>2. AtParent(visit, m, s, id, t, p)
          BY ONLY <2>7, <2>8, <5>1 DEF AtParent
        <5>3. PastParent(t, p, VisitParent(visit, t, p))
          BY <5>2, ParentLeaves
        <5> QED BY ONLY <5>3, <4>5 DEF PastParent
      <4>8. \A j \in 1..(i + 1) : j \in 1..i \/ j = i + 1
        OBVIOUS
      <4>9. u.error = "" => \A j \in 1..(i + 1) : ps[j] \in u.visited
        BY <4>3, <4>4, <4>7, <4>8
      <4>10. s.visited \subseteq u.visited /\ (u.error = "" => u.progress = s.progress \cup {id})
        BY <4>3, <4>7
      <4> QED BY ONLY <4>6, <4>7, <4>9, <4>10
    <3> HIDE DEF Kept
    <3> QED BY <3>1
  <2>13. \A i \in Nat : i \in Good
    <3> HIDE DEF Good
    <3>1. \A i \in Nat : i \in Good => i + 1 \in Good
      BY <2>12
    <3> QED BY <2>11, <3>1, InductionOverSet
  <2>14. PICK done \in VisitState : done = VisitParents(visit, s1, ps) /\ done = st[n]
    BY <2>10
  <2>15. StateOK(done) /\ s.visited \subseteq done.visited
         /\ (done.error = "" => done.progress = s.progress \cup {id} /\ \A j \in 1..n : ps[j] \in done.visited)
    <3>1. Kept(n)
      <4> HIDE DEF Kept
      <4> QED BY <2>13
    <3> QED BY <2>14, <3>1
  <2>16. CASE done.error # ""
    <3>1. VisitBody(visit, s, id) = done
      BY <1>0, <1>3, <2>1, <2>4, <2>14, <2>16 DEF VisitBody
    <3> QED BY <2>15, <2>16, <3>1 DEF Left
  <2>17. CASE done.error = ""
    <3>1. PICK u : u = [done EXCEPT !.progress = @ \ {id}, !.visited = @ \cup {id}, !.result = Append(@, id)]
      OBVIOUS
    <3>2. VisitBody(visit, s, id) = u
      BY <1>0, <1>3, <2>1, <2>4, <2>14, <2>17, <3>1 DEF VisitBody
    <3>3. /\ u.progress = done.progress \ {id} /\ u.visited = done.visited \cup {id} /\ u.result = Append(done.result, id) /\ u.error = ""
          /\ u \in VisitState
      <4>1. /\ done.visited \subseteq FeatureId /\ done.progress \subseteq FeatureId /\ done.result \in Seq(FeatureId)
            /\ DOMAIN done = {"visited", "progress", "result", "error"}
        BY DEF VisitState
      <4>2. PICK r : r = Append(done.result, id) /\ r \in Seq(FeatureId)
        BY <4>1
      <4>3. u = [done EXCEPT !.progress = @ \ {id}, !.visited = @ \cup {id}, !.result = r]
        BY <3>1, <4>2
      <4>4. u.progress = done.progress \ {id} /\ u.visited = done.visited \cup {id} /\ u.result = r /\ u.error = done.error
            /\ DOMAIN u = {"visited", "progress", "result", "error"}
        BY ONLY <4>1, <4>3
      <4>5. u \in VisitState
        BY <2>17, <4>1, <4>2, <4>3, <4>4 DEF VisitState
      <4> QED BY <2>17, <4>2, <4>4, <4>5
    <3>4. done.progress = s.progress \cup {id} /\ done.visited \cap done.progress = {} /\ Range(done.result) = done.visited /\ Listed(done.result)
          /\ done.visited \subseteq DOMAIN features /\ done.result \in Seq(FeatureId)
      BY <2>15, <2>17 DEF StateOK, VisitState
    <3>5. Needs(id) \subseteq done.visited
      BY <2>3, <2>15, <2>17
    <3>6. Listed(u.result) /\ Range(u.result) = u.visited
      <4>1. id \notin Range(done.result) /\ Needs(id) \subseteq Range(done.result) /\ id \in FeatureId
        BY <3>4, <3>5
      <4>2. PICK r \in Seq(FeatureId) : r = done.result
        BY <3>4
      <4>3. Listed(r) /\ id \notin Range(r) /\ Needs(id) \subseteq Range(r) /\ id \in FeatureId /\ r \in Seq(FeatureId)
        BY <3>4, <4>1, <4>2
      <4>4. Listed(Append(r, id)) /\ Range(Append(r, id)) = Range(r) \cup {id}
        BY ONLY <4>3, ListedAppend
      <4> QED BY ONLY <3>3, <3>4, <4>2, <4>4
    <3>7. u.progress = s.progress
      BY <1>3, <3>3, <3>4
    <3> HIDE DEF Listed
    <3>8. StateOK(u)
      BY <1>0, <2>7, <3>3, <3>4, <3>6, <3>7 DEF StateOK
    <3> QED BY <2>15, <3>2, <3>3, <3>7, <3>8 DEF Left
  <2> QED BY <2>16, <2>17
<1> QED BY <1>1, <1>2, <1>3

\* The depth is enough: every visit does as it should.
LEMMA VisitsServe == ASSUME KnownIds PROVE Serves(Visit[Depth], Depth)
<1> DEFINE Good == {d \in Nat : d <= Depth => Serves(Visit[d], d)}
<1>1. 0 \in Good
  <2>1. \A s : ~Fewer(s, 0)
    <3>1. ASSUME NEW s PROVE ~Fewer(s, 0)
      <4>1. IsFiniteSet(FeatureId \ s.progress)
        BY FS_Subset, FeatureTreeAssumption
      <4> QED BY <4>1, FS_CardinalityType DEF Fewer
    <3> QED BY <3>1
  <2> QED BY <2>1 DEF Serves
<1>2. ASSUME NEW d \in Nat, d \in Good PROVE d + 1 \in Good
  <2>1. ASSUME d + 1 <= Depth PROVE Serves(Visit[d + 1], d + 1)
    <3>1. d + 1 \in 1..Depth /\ (d + 1) - 1 = d /\ d <= Depth /\ d \in 0..Depth
      BY <2>1, DepthIs
    <3>2. PICK v : v = Visit[d]
      OBVIOUS
    <3>3. Serves(v, d) /\ VisitTyped(v)
      BY <1>2, <3>1, <3>2, VisitsTyped
    <3>4. ASSUME NEW id \in FeatureId, NEW s \in VisitState, Entered(s, id), Fewer(s, d + 1) PROVE Left(s, id, Visit[d + 1][id][s])
      <4>1. Left(s, id, VisitBody(v, s, id))
        BY <3>3, <3>4, BodyLeaves
      <4>2. Visit[d + 1][id][s] = VisitBody(v, s, id)
        BY <3>1, <3>2, VisitIs
      <4> QED BY <4>1, <4>2
    <3> QED BY <3>4 DEF Serves
  <2> QED BY <2>1
<1>3. \A d \in Nat : d \in Good
  <2> HIDE DEF Good
  <2>1. \A d \in Nat : d \in Good => d + 1 \in Good
    BY <1>2
  <2> QED BY <1>1, <2>1, InductionOverSet
<1> QED BY <1>3, DepthIs

\* A list of features, parents first, has no hole and no cycle in it.
LEMMA ListedIsSound ==
  ASSUME KnownIds, NEW r \in Seq(FeatureId), Listed(r), Range(r) = DOMAIN features
  PROVE  Holes = {} /\ Cycles = {} /\ Len(r) = Cardinality(DOMAIN features)
         /\ \A i, j \in DOMAIN r : r[i] \in Needs(r[j]) => i < j
<1>1. PICK n \in Nat : n = Len(r) /\ DOMAIN r = 1..n
  OBVIOUS
<1>2. ASSUME NEW i \in 1..n, NEW j \in 1..n, r[i] \in Needs(r[j]) PROVE i < j
  <2>1. PICK k \in 1..(j - 1) : r[k] = r[i]
    BY <1>1, <1>2 DEF Listed
  <2>2. k \in 1..n /\ k < j
    BY <1>1, <2>1
  <2>3. k = i
    BY <1>1, <2>1, <2>2 DEF Listed
  <2> QED BY <2>2, <2>3
<1>3. \A id \in DOMAIN features : \E j \in 1..n : r[j] = id
  BY <1>1 DEF Range
<1>4. Holes = {}
  <2>1. ASSUME NEW id \in DOMAIN features, NEW p \in Needs(id) PROVE p \in DOMAIN features
    <3>1. PICK j \in 1..n : r[j] = id
      BY <1>3
    <3>2. PICK i \in 1..(j - 1) : r[i] = p
      BY <1>1, <3>1, <2>1 DEF Listed
    <3>3. i \in 1..n
      BY <3>1, <3>2
    <3> QED BY <1>1, <3>2, <3>3 DEF Range
  <2> QED BY <2>1 DEF Holes
<1>5. Cycles = {}
  <2>1. ASSUME NEW id \in DOMAIN features, id \in Ancestors(Needs(id)) PROVE FALSE
    <3>1. PICK j \in 1..n : r[j] = id
      BY <1>3
    <3> DEFINE all == {r[i] : i \in 1..(j - 1)}
    <3>2. all \in SUBSET FeatureId /\ Needs(id) \subseteq all
      <4>1. \A i \in 1..(j - 1) : i \in 1..n
        BY <3>1
      <4>2. \A i \in 1..n : r[i] \in FeatureId
        BY <1>1
      <4>3. ASSUME NEW p \in Needs(id) PROVE p \in all
        BY <1>1, <3>1, <4>3 DEF Listed
      <4> QED BY <4>1, <4>2, <4>3
    <3>3. ASSUME NEW x \in all \cap DOMAIN features, NEW p \in Needs(x) PROVE p \in all
      <4>1. PICK i \in 1..(j - 1) : r[i] = x
        OBVIOUS
      <4>2. i \in 1..n
        BY <3>1, <4>1
      <4>3. PICK k \in 1..(i - 1) : r[k] = p
        BY <1>1, <3>3, <4>1, <4>2 DEF Listed
      <4>4. k \in 1..(j - 1)
        BY <3>1, <4>1, <4>3
      <4> QED BY <4>3, <4>4
    <3>4. id \in all
      <4> HIDE DEF all
      <4> QED BY <2>1, <3>2, <3>3 DEF Ancestors
    <3>5. PICK i \in 1..(j - 1) : r[i] = id
      BY <3>4
    <3>6. i \in 1..n /\ i # j
      BY <3>1, <3>5
    <3> QED BY <1>1, <3>1, <3>5, <3>6 DEF Listed
  <2> QED BY <2>1 DEF Cycles
<1>6. n = Cardinality(DOMAIN features)
  <2> DEFINE g == [i \in 1..n |-> r[i]]
  <2>1. g \in [1..n -> DOMAIN features]
    BY <1>1 DEF Range
  <2>2. \A i, j \in 1..n : g[i] = g[j] => i = j
    BY <1>1 DEF Listed
  <2>3. \A id \in DOMAIN features : \E i \in 1..n : g[i] = id
    BY <1>3
  <2>4. g \in Bijection(1..n, DOMAIN features)
    <3> HIDE DEF g
    <3> QED BY <2>1, <2>2, <2>3 DEF Bijection, Injection, IsInjective, Surjection
  <2>5. IsFiniteSet(1..n) /\ Cardinality(1..n) = n
    BY FS_Interval
  <2>6. ExistsBijection(1..n, DOMAIN features)
    <3> HIDE DEF g
    <3> QED BY <2>4 DEF ExistsBijection
  <2> QED BY <2>5, <2>6, FS_Bijection
<1> QED BY <1>1, <1>2, <1>4, <1>5, <1>6

\* The empty list is one.
LEMMA EmptyListed == Range(<<>>) = {} /\ Listed(<<>>)
<1>1. DOMAIN <<>> = {}
  OBVIOUS
<1> QED BY <1>1 DEF Range, Listed

\* So evaluation is right about the tree.
LEMMA TopoIsSound ==
  ASSUME KnownIds, order \in Seq(FeatureId), Range(order) = DOMAIN features
  PROVE  EvaluationIsSound
<1>1. PICK n \in Nat : n = Len(order) /\ DOMAIN order = 1..n
  OBVIOUS
<1>2. \A i \in 1..n : order[i] \in FeatureId /\ order[i] \in DOMAIN features
  BY <1>1 DEF Range
<1>3. PICK visit : visit = Visit[Depth]
  OBVIOUS
<1>4. VisitTyped(visit) /\ Serves(visit, Depth)
  BY <1>3, VisitsTyped, VisitsServe, DepthIs
<1> DEFINE Run(st) == /\ st[0] = TopoStart
                      /\ \A i \in 1..n : st[i] = Visit[Depth][order[i]][st[i - 1]]
                      /\ TopoOrder = st[n]
<1>5. \E st \in [0..n -> VisitState] : Run(st)
  <2>1. VisitTyped(Visit[Depth])
    BY <1>3, <1>4
  <2> QED BY <1>1, <1>2, <2>1, TopoStates
<1>6. PICK st \in [0..n -> VisitState] : Run(st)
  <2> HIDE DEF Run
  <2> QED BY <1>5
<1> DEFINE Kept(i) == StateOK(st[i]) /\ (st[i].error = "" => st[i].progress = {} /\ \A j \in 1..i : order[j] \in st[i].visited)
           Good == {i \in Nat : i <= n => Kept(i)}
<1>7. 0 \in Good
  <2>1. st[0] = TopoStart /\ st[0] \in VisitState
    BY <1>6
  <2>2. st[0].visited = {} /\ st[0].progress = {} /\ st[0].result = <<>> /\ st[0].error = ""
    <3>1. TopoStart.visited = {} /\ TopoStart.progress = {} /\ TopoStart.result = <<>> /\ TopoStart.error = ""
      BY DEF TopoStart
    <3> QED BY ONLY <2>1, <3>1
  <2>3. Range(st[0].result) = {} /\ Listed(st[0].result)
    BY ONLY <2>2, EmptyListed
  <2>4. StateOK(st[0])
    BY <2>1, <2>2, <2>3 DEF StateOK
  <2>5. \A j \in 1..0 : FALSE
    OBVIOUS
  <2> QED BY <2>2, <2>4, <2>5
<1>8. ASSUME NEW i \in Nat, i \in Good PROVE i + 1 \in Good
  <2>1. ASSUME i + 1 <= n PROVE Kept(i + 1)
    <3>1. i + 1 \in 1..n /\ (i + 1) - 1 = i /\ i <= n /\ i \in 0..n
      BY <2>1
    <3>2. PICK s \in VisitState : s = st[i]
      BY <1>6, <3>1
    <3>3. StateOK(s) /\ (s.error = "" => s.progress = {} /\ \A j \in 1..i : order[j] \in s.visited)
      BY <1>8, <3>1, <3>2
    <3>4. PICK id \in FeatureId : id = order[i + 1] /\ id \in DOMAIN features
      BY <1>2, <3>1
    <3>5. PICK t : t = visit[id][s]
      OBVIOUS
    <3>6. st[i + 1] = t
      BY <1>3, <1>6, <3>1, <3>2, <3>4, <3>5
    <3>7. CASE s.error = ""
      <4>1. Entered(s, id)
        BY <3>3, <3>4, <3>7 DEF Entered, Leads
      <4>2. Fewer(s, Depth)
        <5>1. FeatureId \ s.progress = FeatureId
          BY <3>3, <3>7
        <5>2. Cardinality(FeatureId) < Depth
          BY DepthIs
        <5> QED BY ONLY <5>1, <5>2 DEF Fewer
      <4>3. Left(s, id, t)
        BY <1>4, <3>5, <4>1, <4>2 DEF Serves
      <4>4. \A j \in 1..(i + 1) : j \in 1..i \/ j = i + 1
        OBVIOUS
      <4>5. StateOK(t) /\ (t.error = "" => t.progress = {} /\ \A j \in 1..(i + 1) : order[j] \in t.visited)
        BY <3>3, <3>4, <3>7, <4>3, <4>4 DEF Left
      <4> QED BY ONLY <3>6, <4>5
    <3>8. CASE s.error # ""
      <4>1. Entered(s, id)
        BY <3>3, <3>4, <3>8 DEF Entered
      <4>2. t = s
        <5>1. visit[id][s] = VisitBody(Visit[Depth - 1], s, id)
          BY <1>3, DepthIs, VisitIs
        <5> QED BY <3>5, <3>8, <5>1 DEF VisitBody
      <4>3. StateOK(t) /\ t.error # ""
        BY <3>3, <3>8, <4>2
      <4> QED BY ONLY <3>6, <4>3
    <3> QED BY <3>7, <3>8
  <2> HIDE DEF Kept
  <2> QED BY <2>1
<1>9. \A i \in Nat : i \in Good
  <2> HIDE DEF Good
  <2>1. \A i \in Nat : i \in Good => i + 1 \in Good
    BY <1>8
  <2> QED BY <1>7, <2>1, InductionOverSet
<1>10. Kept(n)
  <2> HIDE DEF Kept
  <2> QED BY <1>9
<1>11. PICK topo : topo = TopoOrder
  OBVIOUS
<1>12. StateOK(topo) /\ (topo.error = "" => \A j \in 1..n : order[j] \in topo.visited)
  BY <1>6, <1>10, <1>11
<1>13. topo.error = "" => /\ Range(topo.result) = DOMAIN features /\ Listed(topo.result) /\ topo.result \in Seq(FeatureId)
  <2>1. DOMAIN features \subseteq {order[j] : j \in 1..n}
    BY <1>1 DEF Range
  <2>2. topo.result \in Seq(FeatureId) /\ Range(topo.result) = topo.visited /\ topo.visited \subseteq DOMAIN features /\ Listed(topo.result)
    BY <1>12 DEF StateOK, VisitState
  <2> QED BY <1>12, <2>1, <2>2
<1>14. topo.error = "" => /\ Holes = {} /\ Cycles = {} /\ Len(topo.result) = Cardinality(DOMAIN features)
                          /\ \A i, j \in DOMAIN topo.result : topo.result[i] \in Needs(topo.result[j]) => i < j
  <2>1. ASSUME topo.error = "" PROVE /\ Holes = {} /\ Cycles = {} /\ Len(topo.result) = Cardinality(DOMAIN features)
                                     /\ \A i, j \in DOMAIN topo.result : topo.result[i] \in Needs(topo.result[j]) => i < j
    <3>1. PICK r \in Seq(FeatureId) : r = topo.result
      BY <1>13, <2>1
    <3>2. Listed(r) /\ Range(r) = DOMAIN features
      BY <1>13, <2>1, <3>1
    <3> QED BY <3>1, <3>2, ListedIsSound
  <2> QED BY <2>1
<1>15. topo.error \in {"", "MissingParent", "Cycle"} /\ (topo.error = "MissingParent" => Holes # {}) /\ (topo.error = "Cycle" => Cycles # {})
  BY <1>12 DEF StateOK
<1>16. (topo.error = "") <=> (Holes \cup Cycles = {})
  BY <1>14, <1>15
<1>17. TopoOrder.error = topo.error /\ TopoOrder.result = topo.result
  BY <1>11
<1> QED BY ONLY <1>11, <1>13, <1>14, <1>15, <1>16 DEF EvaluationIsSound


\* A list without an id.
LEMMA RetainedIs ==
  ASSUME NEW S, NEW ids \in Seq(S), NEW id
  PROVE  Retained(ids, id) \in Seq(S) /\ Range(Retained(ids, id)) = Range(ids) \ {id}
<1>1. PICK n \in Nat : n = Len(ids) /\ DOMAIN ids = 1..n
  OBVIOUS
<1>2. \A i \in 1..n : ids[i] \in S
  BY <1>1
<1>3. \E st : RetainRun(st, n, S, ids, id)
  <2>1. ListOf(ids, n, S)
    BY <1>1 DEF ListOf
  <2>2. n \in Nat
    OBVIOUS
  <2> QED BY ONLY <2>1, <2>2, RetainedStates
<1>4. PICK st : st \in [0..n -> Seq(S)] /\ RetainRun(st, n, S, ids, id)
  BY <1>3 DEF RetainRun
<1>4a. st \in [0..n -> Seq(S)] /\ st[0] = <<>> /\ Retained(ids, id) = st[n] /\ \A i \in 1..n : st[i] = RetainStep(st[i - 1], ids[i], id)
  BY <1>4 DEF RetainRun
<1> DEFINE Kept(i) == Range(st[i]) = {ids[j] : j \in 1..i} \ {id}
           Good == {i \in Nat : i <= n => Kept(i)}
<1>5. 0 \in Good
  <2>1. st[0] = <<>> /\ 1..0 = {}
    BY <1>4a
  <2>2. Kept(0)
    BY <2>1 DEF Range
  <2> HIDE DEF Kept
  <2> QED BY <2>2
<1>6. ASSUME NEW i \in Nat, i \in Good PROVE i + 1 \in Good
  <2>1. ASSUME i + 1 <= n PROVE Kept(i + 1)
    <3>1. i + 1 \in 1..n /\ (i + 1) - 1 = i /\ i <= n /\ i \in 0..n
      BY <2>1
    <3>2. PICK q \in Seq(S) : q = st[i]
      BY <1>4a, <3>1
    <3>3. PICK f \in S : f = ids[i + 1]
      BY <1>2, <3>1
    <3>4. st[i + 1] = RetainStep(q, f, id)
      BY <1>4a, <3>1, <3>2, <3>3
    <3>5. Range(q) = {ids[j] : j \in 1..i} \ {id}
      BY <1>6, <3>1, <3>2
    <3>6. {ids[j] : j \in 1..(i + 1)} = {ids[j] : j \in 1..i} \cup {f}
      <4>1. 1..(i + 1) = 1..i \cup {i + 1}
        OBVIOUS
      <4> QED BY <3>3, <4>1
    <3>7. CASE f = id
      <4>1. st[i + 1] = q
        BY <3>4, <3>7 DEF RetainStep
      <4> QED BY <3>5, <3>6, <3>7, <4>1
    <3>8. CASE f # id
      <4>1. st[i + 1] = Append(q, f)
        BY <3>4, <3>8 DEF RetainStep
      <4>2. Range(Append(q, f)) = Range(q) \cup {f}
        <5>1. PICK k \in Nat : k = Len(q) /\ DOMAIN q = 1..k
          OBVIOUS
        <5>2. DOMAIN Append(q, f) = 1..(k + 1) /\ Append(q, f)[k + 1] = f /\ \A j \in 1..k : Append(q, f)[j] = q[j]
          BY <5>1
        <5>3. 1..(k + 1) = 1..k \cup {k + 1}
          OBVIOUS
        <5> QED BY <5>1, <5>2, <5>3 DEF Range
      <4> QED BY <3>5, <3>6, <3>8, <4>1, <4>2
    <3> QED BY <3>7, <3>8
  <2> HIDE DEF Kept
  <2> QED BY <2>1
<1>7. \A i \in Nat : i \in Good
  <2> HIDE DEF Good
  <2>1. \A i \in Nat : i \in Good => i + 1 \in Good
    BY <1>6
  <2> QED BY <1>5, <2>1, InductionOverSet
<1>8. Kept(n)
  <2> HIDE DEF Kept
  <2> QED BY <1>7
<1>9. st[n] \in Seq(S) /\ Retained(ids, id) = st[n]
  BY <1>4a
<1>10. Range(ids) = {ids[j] : j \in 1..n}
  BY <1>1 DEF Range
<1> QED BY <1>8, <1>9, <1>10

\* A feature, its parents and parameters whatever they are.
FeatureIs(f) ==
  /\ f = [kind |-> f.kind, parents |-> f.parents, params |-> f.params]
  /\ f.params = [name \in DOMAIN f.params |-> f.params[name]]
  /\ f.parents \in Seq(FeatureId)

TreeInv ==
  /\ features = [id \in DOMAIN features |-> features[id]]
  /\ KnownIds /\ \A id \in DOMAIN features : FeatureIs(features[id])
  /\ order \in Seq(FeatureId) /\ Range(order) = DOMAIN features
  /\ next_id \in Nat
  /\ configs \in Seq(Configs) /\ active \in 0..Len(configs) /\ ActiveIsChosen

\* Every feature that a call may bring is one.
LEMMA FeaturesAre == ASSUME NEW f \in Feature PROVE FeatureIs(f)
<1>1. PICK kind \in Kinds :
         \E ps \in [1..Shape(kind).parents -> FeatureId] :
            f = [kind |-> kind, parents |-> ps, params |-> [name \in Shape(kind).params |-> 0]]
  BY DEF Feature
<1>1a. PICK ps \in [1..Shape(kind).parents -> FeatureId] :
         f = [kind |-> kind, parents |-> ps, params |-> [name \in Shape(kind).params |-> 0]]
  BY <1>1
<1>2. Shape(kind).parents \in 0..2
  BY FeatureTreeAssumption DEF Shape
<1>3. PICK n \in Nat : ps \in [1..n -> FeatureId]
  BY <1>1a, <1>2
<1>4. ps \in Seq(FeatureId)
  BY <1>3
<1>5. f.kind = kind /\ f.parents = ps /\ f.params = [name \in Shape(kind).params |-> 0]
  BY <1>1a
<1> QED BY <1>1a, <1>4, <1>5 DEF FeatureIs

\* Ids are numbers from 0, so that a new one is larger than any.
LEMMA IdsAreNumbers == FeatureId \subseteq Nat
BY FeatureTreeAssumption, DepthIs

MoreBy(S, s, x, t) == t \in Seq(S) /\ Range(t) = Range(s) \cup {x}

\* An id that is put into a list at a place, or at its end.
LEMMA Inserted ==
  ASSUME NEW S, NEW s \in Seq(S), NEW x \in S, NEW at \in 0..Len(s)
  PROVE  MoreBy(S, s, x, IF at = 0 THEN Append(s, x) ELSE InsertAt(s, at + 1, x))
<1> USE DEF MoreBy
<1>1. PICK n \in Nat : n = Len(s) /\ DOMAIN s = 1..n
  OBVIOUS
<1>2. CASE at = 0
  <2>1. PICK t : t = Append(s, x)
    OBVIOUS
  <2>2. t \in Seq(S) /\ DOMAIN t = 1..(n + 1) /\ t[n + 1] = x /\ \A i \in 1..n : t[i] = s[i]
    BY <1>1, <2>1
  <2>3. 1..(n + 1) = 1..n \cup {n + 1}
    OBVIOUS
  <2>4. Range(t) = Range(s) \cup {x}
    BY <1>1, <2>2, <2>3 DEF Range
  <2> QED BY <1>2, <2>1, <2>2, <2>4
<1>3. CASE at # 0
  <2>1. PICK a, b : a = SubSeq(s, 1, at) /\ b = SubSeq(s, at + 1, n)
    OBVIOUS
  <2>2. at \in 1..n /\ (at + 1) - 1 = at
    BY <1>1, <1>3
  <2>3. a \in Seq(S) /\ Len(a) = at /\ \A i \in 1..at : a[i] = s[i]
    BY <1>1, <2>1, <2>2
  <2>4. b \in Seq(S) /\ Len(b) = n - at /\ \A i \in 1..(n - at) : b[i] = s[at + i]
    BY <1>1, <2>1, <2>2
  <2>5. InsertAt(s, at + 1, x) = a \o <<x>> \o b
    BY <1>1, <2>1, <2>2 DEF InsertAt
  <2>5a. PICK d : d = <<x>>
    OBVIOUS
  <2>5b. d \in Seq(S) /\ Len(d) = 1 /\ d[1] = x
    BY <2>5a
  <2>6. PICK c : c = a \o d
    OBVIOUS
  <2>7. c \in Seq(S) /\ Len(c) = at + 1 /\ c[at + 1] = x /\ \A i \in 1..at : c[i] = a[i]
    <3>1. c \in Seq(S) /\ Len(c) = Len(a) + Len(d) /\ \A i \in 1..(Len(a) + Len(d)) : c[i] = IF i <= Len(a) THEN a[i] ELSE d[i - Len(a)]
      BY ONLY <2>3, <2>5b, <2>6, ConcatProperties
    <3>2. (at + 1) - at = 1 /\ at \in Nat /\ at + 1 \in 1..(at + 1) /\ ~(at + 1 <= at) /\ \A i \in 1..at : i \in 1..(at + 1) /\ i <= at
      BY <2>2
    <3> QED BY ONLY <2>3, <2>5b, <3>1, <3>2
  <2>8. PICK t : t = c \o b
    OBVIOUS
  <2>9. t \in Seq(S) /\ Len(t) = n + 1 /\ (\A i \in 1..(at + 1) : t[i] = c[i]) /\ \A i \in 1..(n - at) : t[at + 1 + i] = b[i]
    <3>1. t \in Seq(S) /\ Len(t) = Len(c) + Len(b) /\ \A i \in 1..(Len(c) + Len(b)) : t[i] = IF i <= Len(c) THEN c[i] ELSE b[i - Len(c)]
      BY ONLY <2>4, <2>7, <2>8, ConcatProperties
    <3>2. n \in Nat /\ at \in 1..n
      BY <2>2
    <3>3. ASSUME NEW i \in 1..(n - at) PROVE t[at + 1 + i] = b[i]
      <4>1. PICK k : k = at + 1 + i
        OBVIOUS
      <4>2. k \in 1..(Len(c) + Len(b)) /\ ~(k <= Len(c)) /\ k - Len(c) = i
        BY <2>4, <2>7, <3>2, <4>1
      <4> QED BY <3>1, <4>1, <4>2
    <3>4. \A i \in 1..(at + 1) : t[i] = c[i]
      <4>1. \A i \in 1..(at + 1) : i \in 1..(Len(c) + Len(b)) /\ i <= Len(c)
        BY <2>4, <2>7, <3>2
      <4> QED BY <3>1, <4>1
    <3> QED BY <2>4, <2>7, <3>1, <3>2, <3>3, <3>4
  <2>10. DOMAIN t = 1..(n + 1)
    BY <2>9
  <2>11. ASSUME NEW i \in 1..(n + 1) PROVE t[i] \in Range(s) \cup {x}
    <3>1. CASE i <= at
      <4>1. i \in 1..at /\ i \in 1..(at + 1) /\ i \in 1..n
        BY <2>2, <3>1
      <4>2. t[i] = s[i]
        BY <2>3, <2>7, <2>9, <4>1
      <4> QED BY <1>1, <4>1, <4>2 DEF Range
    <3>2. CASE i = at + 1
      BY <2>2, <2>7, <2>9, <3>2
    <3>3. CASE i > at + 1
      <4>1. PICK k \in 1..(n - at) : i = at + 1 + k
        <5>1. i - (at + 1) \in 1..(n - at) /\ i = at + 1 + (i - (at + 1))
          BY <2>2, <3>3
        <5> QED BY <5>1
      <4>2. at + k \in 1..n
        BY <2>2
      <4> QED BY <1>1, <2>4, <2>9, <4>1, <4>2 DEF Range
    <3> QED BY <2>2, <3>1, <3>2, <3>3
  <2>12. ASSUME NEW j \in 1..n PROVE s[j] \in Range(t)
    <3>1. CASE j <= at
      <4>1. j \in 1..at /\ j \in 1..(at + 1) /\ j \in 1..(n + 1)
        BY <2>2, <3>1
      <4> QED BY <2>3, <2>7, <2>9, <2>10, <4>1 DEF Range
    <3>2. CASE j > at
      <4>1. PICK k \in 1..(n - at) : j = at + k
        <5>1. j - at \in 1..(n - at) /\ j = at + (j - at)
          BY <2>2, <3>2
        <5> QED BY <5>1
      <4>2. at + 1 + k \in 1..(n + 1)
        BY <2>2
      <4> QED BY ZenonT(30), <2>4, <2>9, <2>10, <4>1, <4>2 DEF Range
    <3> QED BY <2>2, <3>1, <3>2
  <2>13. x \in Range(t)
    <3>1. at + 1 \in 1..(n + 1) /\ t[at + 1] = x
      BY <2>2, <2>7, <2>9
    <3> QED BY <2>10, <3>1 DEF Range
  <2>14. Range(t) = Range(s) \cup {x}
    BY <1>1, <2>10, <2>11, <2>12, <2>13 DEF Range
  <2> QED BY <1>3, <2>5, <2>5a, <2>6, <2>8, <2>9, <2>14
<1> QED BY <1>2, <1>3

\* Where an id is in a list, 0 if nowhere.
LEMMA PlaceOf ==
  ASSUME NEW S, NEW s \in Seq(S), NEW x
  PROVE  LET I == {i \in 1..Len(s) : s[i] = x} IN (IF I # {} THEN Min(I) ELSE 0) \in 0..Len(s)
<1> DEFINE I == {i \in 1..Len(s) : s[i] = x}
<1>2. ASSUME I # {} PROVE Min(I) \in 1..Len(s)
  <2>1. I \subseteq 1..Len(s) /\ Len(s) \in Nat
    OBVIOUS
  <2>2. IsFiniteSet(I)
    <3>1. IsFiniteSet(1..Len(s)) /\ I \in SUBSET (1..Len(s))
      BY <2>1, FS_Interval
    <3> HIDE DEF I
    <3> QED BY <3>1, FS_Subset
  <2>3. \E m \in I : \A y \in I : m <= y
    <3> HIDE DEF I
    <3>1. I \subseteq Nat
      BY <2>1
    <3> QED BY <1>2, <3>1, LeastElement
  <2>4. Min(I) \in I
    <3> HIDE DEF I
    <3> QED BY <2>3 DEF Min
  <2> QED BY <2>1, <2>4
<1>3. Len(s) \in Nat
  OBVIOUS
<1> HIDE DEF I
<1>4. (IF I # {} THEN Min(I) ELSE 0) \in 0..Len(s)
  BY <1>2, <1>3
<1> QED BY <1>4 DEF I

\* What is extracted is put back.
LEMMA ExtractRestores == ASSUME TreeInv PROVE ExtractedRestores
<1> SUFFICES ASSUME NEW i \in DOMAIN configs PROVE Applied(Applied(features, configs[i].params), Extracted(features)) = features
  BY DEF ExtractedRestores
<1>1. PICK once : once = Applied(features, configs[i].params)
  OBVIOUS
<1>2. PICK back : back = Extracted(features)
  OBVIOUS
<1>3. DOMAIN once = DOMAIN features
  BY <1>1 DEF Applied
<1>4. ASSUME NEW id \in DOMAIN features
      PROVE  Applied(once, back)[id] = features[id]
  <2>1. PICK f : f = features[id] /\ FeatureIs(f)
    BY DEF TreeInv
  <2>2. PICK g : g = once[id]
    OBVIOUS
  <2>3. g = [f EXCEPT !.params = [param \in DOMAIN @ |-> Overridden(features, id, param, configs[i].params)]]
    BY <1>1, <2>1, <2>2 DEF Applied
  <2>4. g.kind = f.kind /\ g.parents = f.parents /\ DOMAIN g.params = DOMAIN f.params /\ g = [kind |-> f.kind, parents |-> f.parents, params |-> g.params]
        /\ \A param \in DOMAIN f.params : g.params[param] = Overridden(features, id, param, configs[i].params)
    BY <2>1, <2>3 DEF FeatureIs
  <2>5. Applied(once, back)[id] = [g EXCEPT !.params = [param \in DOMAIN @ |-> Overridden(once, id, param, back)]]
    BY <1>3, <2>2 DEF Applied
  <2>6. ASSUME NEW param \in DOMAIN f.params PROVE Overridden(once, id, param, back) = f.params[param]
    <3>1. CASE param = "segments"
      BY <2>1, <2>2, <2>4, <3>1 DEF Overridden
    <3>2. CASE param # "segments"
      <4>1. PICK key : key = <<id, param>>
        OBVIOUS
      <4>2. key \in DOMAIN back /\ back[key] = [type |-> "Float", v |-> f.params[param]]
        <5>1. key \in UNION {{<<x, name>> : name \in DOMAIN features[x].params} : x \in DOMAIN features}
          BY <2>1, <4>1
        <5>2. key[1] = id /\ key[2] = param
          BY <4>1
        <5> QED BY <1>2, <2>1, <3>2, <5>1, <5>2 DEF Extracted
      <4>3. IsNumber(back[key])
        BY <4>2 DEF IsNumber
      <4> QED BY <3>2, <4>1, <4>2, <4>3 DEF Overridden
    <3> QED BY <3>1, <3>2
  <2>7. [param \in DOMAIN g.params |-> Overridden(once, id, param, back)] = f.params
    BY <2>1, <2>4, <2>6 DEF FeatureIs
  <2> QED BY <2>1, <2>4, <2>5, <2>7 DEF FeatureIs
<1>5. Applied(once, back) = [id \in DOMAIN features |-> Applied(once, back)[id]]
  BY <1>3 DEF Applied
<1>6. Applied(once, back) = features
  BY ONLY <1>4, <1>5, TreeInv DEF TreeInv
<1> QED BY <1>1, <1>2, <1>6

\* The tree starts empty.
LEMMA TreeInitInv == TreeInit => TreeInv
<1> SUFFICES ASSUME TreeInit PROVE TreeInv
  OBVIOUS
<1>1. features = <<>> /\ DOMAIN features = {} /\ order = <<>> /\ Range(order) = {}
  BY EmptyListed DEF TreeInit
<1>2. features = [id \in DOMAIN features |-> features[id]]
  BY <1>1
<1> QED BY <1>1, <1>2 DEF TreeInit, TreeInv, KnownIds, ActiveIsChosen

\* A feature that is added gets a new id and a place in the history.
LEMMA AddFeatureInv ==
  ASSUME TreeInv, NEW f \in Feature, NEW after, AddFeature(f, after)
  PROVE  TreeInv'
<1>1. next_id \in FeatureId /\ next_id \in Nat /\ next_id' = next_id + 1 /\ UNCHANGED <<configs, active, chosen>>
  BY DEF AddFeature, TreeInv
<1>2. features' = [id \in DOMAIN features \cup {next_id} |-> IF id = next_id THEN f ELSE features[id]]
  BY DEF AddFeature
<1>3. order \in Seq(FeatureId) /\ Range(order) = DOMAIN features
  BY DEF TreeInv
<1>4. PICK at \in 0..Len(order) : order' = IF at = 0 THEN Append(order, next_id) ELSE InsertAt(order, at + 1, next_id)
  <2> DEFINE I == {i \in 1..Len(order) : order[i] = after[1]}
             at == IF after = <<>> THEN 0 ELSE IF I # {} THEN Min(I) ELSE 0
  <2>1. at \in 0..Len(order)
    <3>1. (IF I # {} THEN Min(I) ELSE 0) \in 0..Len(order)
      BY <1>3, PlaceOf
    <3>2. 0 \in 0..Len(order)
      BY <1>3
    <3> QED BY <3>1, <3>2
  <2>2. order' = IF at = 0 THEN Append(order, next_id) ELSE InsertAt(order, at + 1, next_id)
    BY DEF AddFeature, SelectInSeq
  <2> HIDE DEF at
  <2> QED BY <2>1, <2>2
<1>5. order' \in Seq(FeatureId) /\ Range(order') = Range(order) \cup {next_id}
  <2>1. MoreBy(FeatureId, order, next_id, IF at = 0 THEN Append(order, next_id) ELSE InsertAt(order, at + 1, next_id))
    BY <1>1, <1>3, Inserted
  <2> QED BY <1>4, <2>1 DEF MoreBy
<1>6. FeatureIs(f)
  BY FeaturesAre
<1>7. \A id \in DOMAIN features' : FeatureIs(features'[id])
  BY <1>2, <1>6 DEF TreeInv
<1>8. DOMAIN features' \subseteq FeatureId /\ DOMAIN features' = Range(order')
  BY <1>1, <1>2, <1>3, <1>5 DEF TreeInv, KnownIds
<1>9. KnownIds'
  BY <1>7, <1>8 DEF KnownIds, FeatureIs
<1>10. features' = [id \in DOMAIN features' |-> features'[id]]
  BY <1>2
<1>11. next_id' \in Nat
  BY <1>1
<1> QED BY <1>1, <1>5, <1>7, <1>8, <1>9, <1>10, <1>11 DEF TreeInv, ActiveIsChosen, FeatureIs

\* A feature that is changed keeps its place.
LEMMA UpdateFeatureInv ==
  ASSUME TreeInv, NEW f \in Feature, NEW id, UpdateFeature(id, f)
  PROVE  TreeInv'
<1>1. features' = [features EXCEPT ![id] = f] /\ UNCHANGED <<order, next_id, configs, active, chosen>>
  BY DEF UpdateFeature
<1>2. FeatureIs(f)
  BY FeaturesAre
<1>3. DOMAIN features' = DOMAIN features /\ \A x \in DOMAIN features : FeatureIs(features'[x])
  BY <1>1, <1>2 DEF TreeInv
<1>4. KnownIds'
  BY <1>3 DEF KnownIds, FeatureIs, TreeInv
<1>5. features' = [x \in DOMAIN features' |-> features'[x]]
  BY <1>1 DEF TreeInv
<1> QED BY <1>1, <1>3, <1>4, <1>5 DEF TreeInv, ActiveIsChosen, FeatureIs

\* A feature that is removed leaves the history, and what names it as it is.
LEMMA RemoveFeatureInv ==
  ASSUME TreeInv, NEW id, RemoveFeature(id)
  PROVE  TreeInv'
<1>1. /\ features' = [f \in DOMAIN features \ {id} |-> features[f]] /\ order' = Retained(order, id)
      /\ UNCHANGED <<next_id, configs, active, chosen>>
  BY DEF RemoveFeature
<1>2. order \in Seq(FeatureId) /\ Range(order) = DOMAIN features
  BY DEF TreeInv
<1>3. order' \in Seq(FeatureId) /\ Range(order') = Range(order) \ {id}
  BY <1>1, <1>2, RetainedIs
<1>4. DOMAIN features' = DOMAIN features \ {id} /\ \A x \in DOMAIN features' : features'[x] = features[x]
  BY <1>1
<1>5. KnownIds' /\ \A x \in DOMAIN features' : FeatureIs(features'[x])
  BY <1>4 DEF KnownIds, TreeInv
<1>6. features' = [x \in DOMAIN features' |-> features'[x]]
  BY <1>1
<1> QED BY <1>1, <1>2, <1>3, <1>4, <1>5, <1>6 DEF TreeInv, ActiveIsChosen, FeatureIs

\* The active index follows its configuration when one is removed.
LEMMA RemoveConfigInv ==
  ASSUME TreeInv, NEW i, RemoveConfig(i)
  PROVE  TreeInv'
<1>1. /\ i \in DOMAIN configs /\ configs' = RemoveAt(configs, i) /\ active' = IndexAfter(active, i)
      /\ chosen' = (IF i = active THEN <<>> ELSE chosen) /\ UNCHANGED <<features, order, next_id>>
  BY DEF RemoveConfig
<1>2. PICK n \in Nat : n = Len(configs) /\ DOMAIN configs = 1..n /\ configs \in Seq(Configs)
  BY DEF TreeInv
<1>3. i \in 1..n /\ active \in 0..n
  BY <1>1, <1>2 DEF TreeInv
<1>4. PICK a, b : a = SubSeq(configs, 1, i - 1) /\ b = SubSeq(configs, i + 1, n)
  OBVIOUS
<1>5. a \in Seq(Configs) /\ Len(a) = i - 1 /\ \A k \in 1..(i - 1) : a[k] = configs[k]
  BY <1>2, <1>3, <1>4
<1>6. b \in Seq(Configs) /\ Len(b) = n - i /\ \A k \in 1..(n - i) : b[k] = configs[i + k]
  BY <1>2, <1>3, <1>4, SMTT(30)
<1>7. PICK c : c = a \o b
  OBVIOUS
<1>8. c \in Seq(Configs) /\ Len(c) = n - 1 /\ (\A k \in 1..(i - 1) : c[k] = a[k]) /\ \A k \in 1..(n - i) : c[i - 1 + k] = b[k]
  BY <1>3, <1>5, <1>6, <1>7
<1>9. configs' = c
  BY <1>1, <1>2, <1>4, <1>7 DEF RemoveAt
<1>10. active' \in 0..Len(configs') /\ ActiveIsChosen'
  <2>1. CASE active = 0
    BY <1>1, <1>3, <1>8, <1>9, <2>1 DEF TreeInv, ActiveIsChosen, IndexAfter
  <2>2. CASE active = i
    BY <1>1, <1>3, <1>8, <1>9, <2>2 DEF TreeInv, ActiveIsChosen, IndexAfter
  <2>3. CASE active # 0 /\ active < i
    <3>1. active \in 1..(i - 1) /\ active' = active /\ chosen' = <<configs[active]>> /\ active \in 1..(n - 1) /\ active # 0
      BY <1>1, <1>3, <2>3 DEF TreeInv, ActiveIsChosen, IndexAfter
    <3>2. c[active] = configs[active]
      BY <1>5, <1>8, <3>1
    <3>3. DOMAIN c = 1..(n - 1)
      BY <1>8
    <3> QED BY <1>8, <1>9, <3>1, <3>2, <3>3 DEF ActiveIsChosen
  <2>4. CASE active > i
    <3>1. active' = active - 1 /\ chosen' = <<configs[active]>> /\ active - 1 \in 1..(n - 1) /\ active - 1 # 0
      BY <1>1, <1>3, <2>4 DEF TreeInv, ActiveIsChosen, IndexAfter
    <3>2. PICK k \in 1..(n - i) : active = i + k /\ active - 1 = i - 1 + k
      <4>1. active - i \in 1..(n - i) /\ active = i + (active - i) /\ active - 1 = i - 1 + (active - i)
        BY <1>3, <2>4
      <4> QED BY <4>1
    <3>3. c[active - 1] = configs[active]
      BY <1>6, <1>8, <3>2
    <3>4. DOMAIN c = 1..(n - 1)
      BY <1>8
    <3> QED BY <1>8, <1>9, <3>1, <3>3, <3>4 DEF ActiveIsChosen
  <2> QED BY <1>3, <2>1, <2>2, <2>3, <2>4
<1> QED BY <1>1, <1>8, <1>9, <1>10 DEF TreeInv, KnownIds, FeatureIs

\* A configuration changes parameters only.
LEMMA ApplyActiveInv ==
  ASSUME TreeInv, ApplyActive
  PROVE  TreeInv'
<1>1. features' = Applied(features, configs[active].params) /\ UNCHANGED <<order, next_id, configs, active, chosen>>
  BY DEF ApplyActive
<1>2. DOMAIN features' = DOMAIN features /\ features' = [id \in DOMAIN features' |-> features'[id]]
  BY <1>1 DEF Applied
<1>3. ASSUME NEW id \in DOMAIN features PROVE FeatureIs(features'[id]) /\ features'[id].parents = features[id].parents
  <2>1. PICK f : f = features[id] /\ FeatureIs(f)
    BY DEF TreeInv
  <2>2. PICK params : params = [param \in DOMAIN f.params |-> Overridden(features, id, param, configs[active].params)]
    OBVIOUS
  <2>3. features'[id] = [f EXCEPT !.params = params]
    BY <1>1, <2>1, <2>2 DEF Applied
  <2>4. features'[id] = [kind |-> f.kind, parents |-> f.parents, params |-> params]
    BY <2>1, <2>3 DEF FeatureIs
  <2>5. params = [name \in DOMAIN params |-> params[name]]
    BY <2>2
  <2> QED BY <2>1, <2>4, <2>5 DEF FeatureIs
<1>4. KnownIds'
  BY <1>2, <1>3 DEF KnownIds, TreeInv
<1> QED BY <1>1, <1>2, <1>3, <1>4 DEF TreeInv, ActiveIsChosen, FeatureIs

\* Every call keeps the invariant.
LEMMA TreeNextInv == ASSUME TreeInv, [TreeNext]_treeVars PROVE TreeInv'
<1>1. ASSUME NEW f \in Feature, NEW after, AddFeature(f, after) PROVE TreeInv'
  BY <1>1, AddFeatureInv
<1>2. ASSUME NEW f \in Feature, NEW id \in FeatureId, UpdateFeature(id, f) PROVE TreeInv'
  BY <1>2, UpdateFeatureInv
<1>3. ASSUME NEW id \in DOMAIN features, RemoveFeature(id) PROVE TreeInv'
  BY <1>3, RemoveFeatureInv
<1>4. ASSUME NEW c \in Configs, AddConfig(c) PROVE TreeInv'
  <2>1. /\ configs' = Append(configs, c) /\ configs \in Seq(Configs) /\ UNCHANGED <<features, order, next_id, active, chosen>>
        /\ active \in 0..Len(configs)
    BY <1>4 DEF AddConfig, TreeInv
  <2>2. PICK n \in Nat : n = Len(configs) /\ DOMAIN configs = 1..n
    BY <2>1
  <2>3. configs' \in Seq(Configs) /\ Len(configs') = n + 1 /\ DOMAIN configs' = 1..(n + 1) /\ \A k \in 1..n : configs'[k] = configs[k]
    BY <2>1, <2>2
  <2>4. ActiveIsChosen' /\ active' \in 0..Len(configs')
    BY <2>1, <2>2, <2>3 DEF TreeInv, ActiveIsChosen
  <2> QED BY <2>1, <2>3, <2>4 DEF TreeInv, KnownIds, FeatureIs
<1>5. ASSUME NEW i \in DOMAIN configs, RemoveConfig(i) PROVE TreeInv'
  BY <1>5, RemoveConfigInv
<1>6. ASSUME NEW i \in DOMAIN configs, SetActive(i) PROVE TreeInv'
  <2>1. i \in 1..Len(configs) /\ i # 0
    BY DEF TreeInv
  <2> QED BY <1>6, <2>1 DEF SetActive, TreeInv, KnownIds, FeatureIs, ActiveIsChosen
<1>7. ASSUME ClearActive PROVE TreeInv'
  BY <1>7 DEF ClearActive, TreeInv, KnownIds, FeatureIs, ActiveIsChosen
<1>8. ASSUME ApplyActive PROVE TreeInv'
  BY <1>8, ApplyActiveInv
<1>9. ASSUME UNCHANGED treeVars PROVE TreeInv'
  BY <1>9 DEF treeVars, TreeInv, KnownIds, FeatureIs, ActiveIsChosen
<1> QED BY <1>1, <1>2, <1>3, <1>4, <1>5, <1>6, <1>7, <1>8, <1>9 DEF TreeNext

\* Evaluation answers with all features, parents first, or names a cycle or a
\* hole that is there: for any number of features, however they were added,
\* changed and removed (feature_tree.rs, topo_order() and visit()).
THEOREM EvaluationStaysSound == TreeSpec => []EvaluationIsSound
<1>1. TreeInv /\ [TreeNext]_treeVars => TreeInv'
  BY TreeNextInv
<1>2. TreeInv => EvaluationIsSound
  BY TopoIsSound DEF TreeInv
<1> QED BY TreeInitInv, <1>1, <1>2, PTL DEF TreeSpec

\* The active configuration is the one that was activated, whichever others are
\* removed, and what was extracted from the tree puts it back after any
\* configuration: for any table (design_table.rs, remove(), apply_active() and
\* extract_params()).
THEOREM TableFollows == TreeSpec => [](ActiveIsChosen /\ ExtractedRestores)
<1>1. TreeInv /\ [TreeNext]_treeVars => TreeInv'
  BY TreeNextInv
<1>2. TreeInv => ActiveIsChosen /\ ExtractedRestores
  BY ExtractRestores DEF TreeInv
<1> QED BY TreeInitInv, <1>1, <1>2, PTL DEF TreeSpec

--------------------------------------------------------------------------
(* The mates of an assembly (assembly.rs).                                  *)

Vector == Int \X Int \X Int

\* A vector has three coordinates.
LEMMA VectorIs ==
  ASSUME NEW a \in Vector
  PROVE  a = <<a[1], a[2], a[3]>> /\ a[1] \in Int /\ a[2] \in Int /\ a[3] \in Int /\ Len(a) = 3 /\ DOMAIN a = 1..3
<1>1. PICK x, y, z \in Int : a = <<x, y, z>>
  BY DEF Vector
<1> QED BY <1>1

\* What the operators on vectors do, coordinate by coordinate.
LEMMA VectorSums ==
  ASSUME NEW a \in Vector, NEW b, b[1] \in Int, b[2] \in Int, b[3] \in Int
  PROVE  /\ Plus(a, b) = <<a[1] + b[1], a[2] + b[2], a[3] + b[3]>> /\ Plus(a, b) \in Vector
         /\ Minus(a, b) = <<a[1] - b[1], a[2] - b[2], a[3] - b[3]>> /\ Minus(a, b) \in Vector
         /\ Half(a) = <<a[1] \div 2, a[2] \div 2, a[3] \div 2>> /\ Half(a) \in Vector
         /\ Span(a) = Abs(a[1]) + Abs(a[2]) + Abs(a[3]) /\ Span(a) \in Nat
         /\ Even(a) \in BOOLEAN
<1>1. Len(a) = 3 /\ a[1] \in Int /\ a[2] \in Int /\ a[3] \in Int
  BY VectorIs
<1>2. /\ Plus(a, b) = <<a[1] + b[1], a[2] + b[2], a[3] + b[3]>>
      /\ Minus(a, b) = <<a[1] - b[1], a[2] - b[2], a[3] - b[3]>>
      /\ Half(a) = <<a[1] \div 2, a[2] \div 2, a[3] \div 2>>
      /\ Span(a) = Abs(a[1]) + Abs(a[2]) + Abs(a[3])
  BY <1>1 DEF Plus, Minus, Half, Span
<1>3. \A x, y, z \in Int : <<x, y, z>> \in Vector
  BY DEF Vector
<1>4. \A x \in Int : Abs(x) \in Nat
  BY DEF Abs
<1>5. Span(a) \in Nat
  BY <1>1, <1>2, <1>4
<1>6. Even(a) \in BOOLEAN
  BY DEF Even
<1>7. <<a[1] + b[1], a[2] + b[2], a[3] + b[3]>> \in Vector /\ <<a[1] - b[1], a[2] - b[2], a[3] - b[3]>> \in Vector
      /\ <<a[1] \div 2, a[2] \div 2, a[3] \div 2>> \in Vector
  BY <1>1, <1>3
<1> QED BY <1>2, <1>5, <1>6, <1>7

\* Two places are the same if there is no way from one to the other, and then
\* their middle is there too.
LEMMA NoSpan ==
  ASSUME NEW a \in Vector, NEW b \in Vector, Span(Minus(a, b)) = 0
  PROVE  a = b /\ Half(Plus(a, b)) = a
<1>1. /\ a = <<a[1], a[2], a[3]>> /\ a[1] \in Int /\ a[2] \in Int /\ a[3] \in Int
      /\ b = <<b[1], b[2], b[3]>> /\ b[1] \in Int /\ b[2] \in Int /\ b[3] \in Int
  BY VectorIs
<1>2. Minus(a, b) = <<a[1] - b[1], a[2] - b[2], a[3] - b[3]>> /\ Minus(a, b) \in Vector
  BY <1>1, VectorSums
<1>3. Span(Minus(a, b)) = Abs(a[1] - b[1]) + Abs(a[2] - b[2]) + Abs(a[3] - b[3])
  <2>1. Span(Minus(a, b)) = Abs(Minus(a, b)[1]) + Abs(Minus(a, b)[2]) + Abs(Minus(a, b)[3])
    <3>1. PICK v \in Vector : v = Minus(a, b)
      BY <1>2
    <3>2. v[1] \in Int /\ v[2] \in Int /\ v[3] \in Int
      BY VectorIs
    <3> QED BY <3>1, <3>2, VectorSums
  <2> QED BY <1>2, <2>1
<1>4. \A x, y, z \in Int : Abs(x) + Abs(y) + Abs(z) = 0 => x = 0 /\ y = 0 /\ z = 0
  BY DEF Abs
<1>5. a[1] - b[1] = 0 /\ a[2] - b[2] = 0 /\ a[3] - b[3] = 0
  BY <1>1, <1>3, <1>4
<1>6. a = b
  <2>1. a[1] = b[1] /\ a[2] = b[2] /\ a[3] = b[3]
    BY <1>1, <1>5
  <2> QED BY <1>1, <2>1
<1>7. Plus(a, b) = <<a[1] + a[1], a[2] + a[2], a[3] + a[3]>> /\ Plus(a, b) \in Vector
  BY <1>1, <1>6, VectorSums
<1>8. Half(Plus(a, b)) = <<(a[1] + a[1]) \div 2, (a[2] + a[2]) \div 2, (a[3] + a[3]) \div 2>>
  <2>1. PICK v \in Vector : v = Plus(a, b)
    BY <1>7
  <2>2. v[1] \in Int /\ v[2] \in Int /\ v[3] \in Int
    BY VectorIs
  <2>3. Half(v) = <<v[1] \div 2, v[2] \div 2, v[3] \div 2>>
    BY <2>2, VectorSums
  <2> QED BY <1>7, <2>1, <2>3
<1>9. \A x \in Int : (x + x) \div 2 = x
  OBVIOUS
<1> QED BY <1>1, <1>6, <1>8, <1>9

PoseOf == [at: Vector, turn: Int]
Poses == [PartId -> PoseOf]

MateOK(m) ==
  /\ m = [kind |-> m.kind, a |-> m.a, b |-> m.b, value |-> m.value, limits |-> m.limits]
  /\ m.kind \in {"Coincident", "Offset", "Revolute", "Slider", "Cylindrical"} /\ {m.a, m.b} \subseteq PartId
  /\ m.kind = "Offset" => m.value \in Int \X Int \X Int
  /\ m.kind \notin {"Coincident", "Offset"} => m.value \in Int
  /\ IF m.kind = "Cylindrical" THEN m.limits = <<>> ELSE m.limits = <<>> \/ m.limits \in Int \X Int

\* clamp_limits() takes the nearest value that the limits of a joint allow.
LEMMA LimitsClamp ==
  ASSUME NEW value \in Int, NEW limits, limits = <<>> \/ limits \in Int \X Int
  PROVE  ClampLimits(value, limits) \in Int /\ Nearest(value, limits) = ClampLimits(value, limits)
<1>1. CASE limits = <<>>
  BY <1>1 DEF ClampLimits, Nearest
<1>2. CASE limits # <<>>
  <2>1. PICK l, h \in Int : limits = <<l, h>>
    BY <1>2
  <2>2. limits[1] = l /\ limits[2] = h
    BY <2>1
  <2>3. CASE h < l
    <3>1. ClampLimits(value, limits) = value
      BY <2>2, <2>3 DEF ClampLimits
    <3>2. Nearest(value, limits) = value
      BY <2>2, <2>3 DEF Nearest
    <3> QED BY <3>1, <3>2
  <2>4. CASE l <= h
    <3> DEFINE c == IF value < l THEN l ELSE IF value > h THEN h ELSE value
    <3>1. ClampLimits(value, limits) = c
      BY <1>2, <2>2, <2>4 DEF ClampLimits
    <3>2. c \in l..h /\ \A w \in l..h : Abs(c - value) <= Abs(w - value) /\ (w # c => Abs(c - value) < Abs(w - value))
      BY <2>4 DEF Abs
    <3>3. Nearest(value, limits) = CHOOSE v \in l..h : \A w \in l..h : Abs(v - value) <= Abs(w - value)
      BY <1>2, <2>2, <2>4 DEF Nearest
    <3>4. c \in Int
      BY <3>2
    <3> HIDE DEF c
    <3>5. PICK n \in l..h : n = Nearest(value, limits) /\ \A w \in l..h : Abs(n - value) <= Abs(w - value)
      BY <3>2, <3>3
    <3>6. ASSUME n # c PROVE FALSE
      <4>1. Abs(n - value) <= Abs(c - value) /\ Abs(c - value) < Abs(n - value)
        BY <3>2, <3>5, <3>6
      <4>2. Abs(n - value) \in Int /\ Abs(c - value) \in Int
        BY <3>4 DEF Abs
      <4> QED BY <4>1, <4>2
    <3> QED BY <3>1, <3>4, <3>5, <3>6
  <2> QED BY <2>3, <2>4
<1> QED BY <1>1, <1>2

\* A vector that is turned is a vector.
LEMMA TurnedIs ==
  ASSUME NEW v \in Vector, NEW turn \in Int
  PROVE  Turned(v, turn) \in Vector
<1>1. v[1] \in Int /\ v[2] \in Int /\ v[3] \in Int
  BY VectorIs
<1>2. turn % 4 = 0 \/ turn % 4 = 1 \/ turn % 4 = 2 \/ turn % 4 = 3
  OBVIOUS
<1>3. \A x, y, z \in Int : <<x, y, z>> \in Vector
  BY DEF Vector
<1>4. <<-v[2], v[1], v[3]>> \in Vector /\ <<-v[1], -v[2], v[3]>> \in Vector /\ <<v[2], -v[1], v[3]>> \in Vector
  BY <1>1, <1>3
<1>5. CASE turn % 4 = 0
  BY <1>5 DEF Turned
<1>6. CASE turn % 4 = 1
  BY <1>4, <1>6 DEF Turned
<1>7. CASE turn % 4 = 2
  BY <1>4, <1>7 DEF Turned
<1>8. CASE turn % 4 = 3
  BY <1>4, <1>8 DEF Turned
<1> QED BY <1>2, <1>5, <1>6, <1>7, <1>8

\* apply_joint_rotation() moves the mover and no other part.
LEMMA RotationMoves ==
  ASSUME NEW p \in Poses, NEW base \in PartId, NEW mover \in PartId, NEW amount \in Int
  PROVE  /\ JointRotation(p, base, mover, amount) \in Poses
         /\ \A q \in PartId : q # mover => JointRotation(p, base, mover, amount)[q] = p[q]
<1>1. p[base].at \in Vector /\ p[base].turn \in Int /\ p[mover] \in PoseOf /\ p[mover].at \in Vector /\ p[mover].turn \in Int
  BY DEF Poses, PoseOf
<1>2. PICK anchor, at \in Vector, turn \in Int : anchor = p[base].at /\ at = p[mover].at /\ turn = p[mover].turn
  BY <1>1
<1>3. \A a, b \in Vector : Plus(a, b) \in Vector /\ Minus(a, b) \in Vector
  BY VectorIs, VectorSums
<1>4. Plus(Turned(Minus(at, anchor), amount), anchor) \in Vector
  BY <1>3, TurnedIs
<1>5. (turn + amount) % 4 \in Int
  OBVIOUS
<1> DEFINE new == [at |-> Plus(Turned(Minus(at, anchor), amount), anchor), turn |-> (turn + amount) % 4]
<1>6. new \in PoseOf
  BY <1>4, <1>5 DEF PoseOf
<1>7. JointRotation(p, base, mover, amount) = [p EXCEPT ![mover] = new]
  BY <1>2 DEF JointRotation
<1> HIDE DEF new
<1> QED BY <1>6, <1>7 DEF Poses

\* apply_joint_translation() moves the mover and no other part.
LEMMA TranslationMoves ==
  ASSUME NEW p \in Poses, NEW base \in PartId, NEW mover \in PartId, NEW axis \in Vector, NEW amount \in Int
  PROVE  /\ JointTranslation(p, base, mover, axis, amount) \in Poses
         /\ \A q \in PartId : q # mover => JointTranslation(p, base, mover, axis, amount)[q] = p[q]
<1>1. p[base].at \in Vector /\ p[base].turn \in Int /\ p[mover] \in PoseOf /\ p[mover].at \in Vector /\ p[mover].turn \in Int
  BY DEF Poses, PoseOf
<1>2. PICK at \in Vector, along \in Vector : at = p[mover].at /\ along = Turned(axis, p[base].turn)
  BY <1>1, TurnedIs
<1>3. along[1] \in Int /\ along[2] \in Int /\ along[3] \in Int
  BY VectorIs
<1> DEFINE by == [i \in 1..3 |-> along[i] * amount]
<1>4. by[1] \in Int /\ by[2] \in Int /\ by[3] \in Int
  <2>1. \A x, y \in Int : x * y \in Int
    OBVIOUS
  <2> QED BY <1>3, <2>1
<1> HIDE DEF by
<1>5. PICK to \in Vector : to = Plus(at, by)
  BY <1>4, VectorSums
<1>6. JointTranslation(p, base, mover, axis, amount) = [p EXCEPT ![mover].at = to]
  BY <1>2, <1>5 DEF JointTranslation, by
<1>7. [p[mover] EXCEPT !.at = to] \in PoseOf
  BY <1>1 DEF PoseOf
<1> QED BY <1>6, <1>7 DEF Poses

\* The axes that the joints move along are vectors.
LEMMA Axes == <<1, 0, 0>> \in Vector /\ <<0, 0, 1>> \in Vector
BY DEF Vector

Answer == [pose: Poses, residual: Nat, exact: BOOLEAN]

\* Only the mover of a joint loses its place to a mate that finds nothing to
\* correct, and a positional mate that finds nothing holds.
Settled(p, q, m) ==
  /\ \A piece \in PartId : piece # m.b \/ m.kind \notin Joints => q[piece].at = p[piece].at
  /\ m.kind = "Coincident" => p[m.a].at = p[m.b].at
  /\ m.kind = "Offset" => p[m.a].at = Plus(p[m.b].at, m.value)

\* apply_mate() answers with poses; if it has nothing to correct, its mate is
\* settled in them.
LEMMA MateApplied ==
  ASSUME NEW p \in Poses, NEW m, MateOK(m)
  PROVE  ApplyMate(p, m) \in Answer /\ (ApplyMate(p, m).residual = 0 => Settled(p, ApplyMate(p, m).pose, m))
<1>1. m.a \in PartId /\ m.b \in PartId
  BY DEF MateOK
<1>2. PICK at, bt \in Vector : at = p[m.a].at /\ bt = p[m.b].at
  BY <1>1 DEF Poses, PoseOf
<1>3. \A u, v \in Vector : Plus(u, v) \in Vector /\ Minus(u, v) \in Vector /\ Half(u) \in Vector /\ Span(u) \in Nat /\ Even(u) \in BOOLEAN
  BY VectorIs, VectorSums
<1>4. CASE m.kind = "Coincident"
  <2>1. PICK mid \in Vector, r \in Nat, e \in BOOLEAN :
           mid = Half(Plus(p[m.a].at, p[m.b].at)) /\ r = Span(Minus(p[m.a].at, p[m.b].at)) /\ e = Even(Plus(p[m.a].at, p[m.b].at))
    BY <1>2, <1>3
  <2> DEFINE new == [p EXCEPT ![m.a].at = mid, ![m.b].at = mid]
  <2>2. ApplyMate(p, m) = [pose |-> new, residual |-> r, exact |-> e]
    BY <1>4, <2>1 DEF ApplyMate
  <2>3. new \in Poses /\ \A piece \in PartId : new[piece].at = IF piece \in {m.a, m.b} THEN mid ELSE p[piece].at
    BY <1>1 DEF Poses, PoseOf
  <2> HIDE DEF new
  <2>4. ApplyMate(p, m) \in Answer
    BY <2>2, <2>3 DEF Answer
  <2>5. ASSUME r = 0 PROVE Settled(p, new, m)
    <3>1. at = bt /\ mid = at
      BY <1>2, <2>1, <2>5, NoSpan
    <3> QED BY <1>1, <1>2, <1>4, <2>3, <3>1 DEF Settled
  <2> QED BY <2>2, <2>4, <2>5
<1>5. CASE m.kind = "Offset"
  <2>0. m.value \in Vector
    BY <1>5 DEF MateOK, Vector
  <2>1. PICK target \in Vector, r \in Nat : target = Plus(p[m.b].at, m.value) /\ r = Span(Minus(target, p[m.a].at))
    BY <1>2, <1>3, <2>0
  <2> DEFINE new == [p EXCEPT ![m.a].at = target]
  <2>2. ApplyMate(p, m) = [pose |-> new, residual |-> r, exact |-> TRUE]
    BY <1>5, <2>1 DEF ApplyMate
  <2>3. new \in Poses /\ \A piece \in PartId : new[piece].at = IF piece = m.a THEN target ELSE p[piece].at
    BY <1>1 DEF Poses, PoseOf
  <2> HIDE DEF new
  <2>4. ApplyMate(p, m) \in Answer
    BY <2>2, <2>3 DEF Answer
  <2>5. ASSUME r = 0 PROVE Settled(p, new, m)
    <3>1. target = at
      BY <1>2, <2>1, <2>5, NoSpan
    <3> QED BY <1>1, <1>2, <1>5, <2>1, <2>3, <3>1 DEF Settled
  <2> QED BY <2>2, <2>4, <2>5
<1>6. CASE m.kind \in Joints
  <2>1. m.value \in Int /\ (m.limits = <<>> \/ m.limits \in Int \X Int)
    BY <1>6 DEF Joints, MateOK
  <2>2. PICK v \in Int : v = ClampLimits(m.value, m.limits)
    BY <2>1, LimitsClamp
  <2>a. PICK w \in Int, base \in PartId, mover \in PartId, along \in Vector, up \in Vector :
           w = m.value /\ base = m.a /\ mover = m.b /\ along = <<1, 0, 0>> /\ up = <<0, 0, 1>>
    BY <1>1, <2>1, Axes
  <2>3. PICK new \in Poses : ApplyMate(p, m) = [pose |-> new, residual |-> 0, exact |-> TRUE] /\ \A piece \in PartId : piece # m.b => new[piece] = p[piece]
    <3>1. CASE m.kind = "Revolute"
      <4>1. PICK turned : turned = JointRotation(p, base, mover, v)
        OBVIOUS
      <4>2. ApplyMate(p, m) = [pose |-> turned, residual |-> 0, exact |-> TRUE]
        BY <2>2, <2>a, <3>1, <4>1 DEF ApplyMate
      <4>3. turned \in Poses /\ \A piece \in PartId : piece # mover => turned[piece] = p[piece]
        BY <4>1, RotationMoves
      <4> QED BY <2>a, <4>2, <4>3
    <3>2. CASE m.kind = "Slider"
      <4>1. PICK moved : moved = JointTranslation(p, base, mover, along, v)
        OBVIOUS
      <4>2. ApplyMate(p, m) = [pose |-> moved, residual |-> 0, exact |-> TRUE]
        BY <2>2, <2>a, <3>2, <4>1 DEF ApplyMate
      <4>3. moved \in Poses /\ \A piece \in PartId : piece # mover => moved[piece] = p[piece]
        BY <4>1, TranslationMoves
      <4> QED BY <2>a, <4>2, <4>3
    <3>3. CASE m.kind = "Cylindrical"
      <4>1. PICK turned : turned = JointRotation(p, base, mover, w)
        OBVIOUS
      <4>2. turned \in Poses /\ \A piece \in PartId : piece # mover => turned[piece] = p[piece]
        BY <4>1, RotationMoves
      <4>3. PICK moved : moved = JointTranslation(turned, base, mover, up, w)
        OBVIOUS
      <4>4. ApplyMate(p, m) = [pose |-> moved, residual |-> 0, exact |-> TRUE]
        BY <2>a, <3>3, <4>1, <4>3 DEF ApplyMate
      <4>5. moved \in Poses /\ \A piece \in PartId : piece # mover => moved[piece] = turned[piece]
        BY <4>2, <4>3, TranslationMoves
      <4> QED BY <2>a, <4>2, <4>4, <4>5
    <3> QED BY <1>6, <3>1, <3>2, <3>3 DEF Joints
  <2>4. ApplyMate(p, m) \in Answer
    BY <2>3 DEF Answer
  <2>5. Settled(p, new, m)
    BY <1>6, <2>3 DEF Settled, Joints
  <2> QED BY <2>3, <2>4, <2>5
<1> QED BY <1>4, <1>5, <1>6 DEF MateOK, Joints

\* A sweep, one mate after the other, and the folds of solve_mates.
MateStep(t, m) ==
  LET r == ApplyMate(t.pose, m)
  IN  [pose |-> r.pose, residual |-> IF r.residual > t.residual THEN r.residual ELSE t.residual, exact |-> t.exact /\ r.exact]

MateSweepFold(s, list) ==
  CHOOSE iter : iter = [z \in SUBSET (DOMAIN list) |->
                          IF z = {} THEN [s EXCEPT !.residual = 0] ELSE MateStep(iter[z \ {Max(z)}], list[Max(z)])]

Swept(s, list) == MateSweepFold(s, list)[DOMAIN list]

MateSolveStep(s, list) == IF s.residual = 0 \/ ~s.exact THEN s ELSE Swept(s, list)

MateSolveFold(p, list) ==
  CHOOSE iter : iter = [z \in SUBSET (DOMAIN [i \in 1..MateSweeps |-> i]) |->
                          IF z = {} THEN [pose |-> p, residual |-> 1, exact |-> TRUE]
                          ELSE MateSolveStep(iter[z \ {Max(z)}], list)]

\* solve_mates() as a fold of the sweeps above.
LEMMA MateSolveIsAFold ==
  ASSUME NEW p, NEW list
  PROVE  MatesSolved(p, list) = MateSolveFold(p, list)[DOMAIN [i \in 1..MateSweeps |-> i]]
BY Zenon DEF MatesSolved, FoldLeft, MapThenFoldSet, MateSolveFold, MateSolveStep, Swept, MateSweepFold, MateStep

\* A mate of a sweep leaves an answer, with the worse of the residuals.
LEMMA StepStays ==
  ASSUME NEW t \in Answer, NEW m, MateOK(m)
  PROVE  /\ MateStep(t, m) \in Answer
         /\ MateStep(t, m).pose = ApplyMate(t.pose, m).pose
         /\ MateStep(t, m).exact = (t.exact /\ ApplyMate(t.pose, m).exact)
         /\ MateStep(t, m).residual >= t.residual /\ MateStep(t, m).residual >= ApplyMate(t.pose, m).residual
         /\ MateStep(t, m).residual \in {t.residual, ApplyMate(t.pose, m).residual}
<1>1. t.pose \in Poses /\ t.residual \in Nat /\ t.exact \in BOOLEAN
  BY DEF Answer
<1>2. PICK r \in Answer : r = ApplyMate(t.pose, m)
  BY <1>1, MateApplied
<1>3. r.pose \in Poses /\ r.residual \in Nat /\ r.exact \in BOOLEAN
  BY DEF Answer
<1> DEFINE worst == IF r.residual > t.residual THEN r.residual ELSE t.residual
<1>4. MateStep(t, m) = [pose |-> r.pose, residual |-> worst, exact |-> t.exact /\ r.exact]
  BY <1>2 DEF MateStep
<1>5. worst \in Nat /\ worst >= t.residual /\ worst >= r.residual /\ worst \in {t.residual, r.residual}
  BY <1>1, <1>3
<1>6. (t.exact /\ r.exact) \in BOOLEAN
  BY <1>1, <1>3
<1> HIDE DEF worst
<1>7. MateStep(t, m) \in Answer
  BY <1>3, <1>4, <1>5, <1>6 DEF Answer
<1> QED BY <1>2, <1>4, <1>5, <1>7

\* The answers that a sweep passes through, one for each mate.
LEMMA SweepStates ==
  ASSUME NEW n \in Nat, NEW list, DOMAIN list = 1..n, \A i \in 1..n : MateOK(list[i]), NEW s \in Answer
  PROVE  \E st \in [0..n -> Answer] :
            /\ st[0] = [s EXCEPT !.residual = 0]
            /\ \A i \in 1..n : st[i] = MateStep(st[i - 1], list[i])
            /\ Swept(s, list) = st[n]
<1> DEFINE base == [s EXCEPT !.residual = 0]
           step == [x \in Answer \X (1..n) |-> MateStep(x[1], list[x[2]])]
           Body(g, z) == IF z = {} THEN base ELSE MateStep(g[z \ {Max(z)}], list[Max(z)])
           f == MateSweepFold(s, list)
<1>1. base \in Answer
  BY DEF Answer
<1>2. step \in [Answer \X (1..n) -> Answer]
  <2>1. ASSUME NEW x \in Answer \X (1..n) PROVE MateStep(x[1], list[x[2]]) \in Answer
    <3>1. x[1] \in Answer /\ x[2] \in 1..n
      OBVIOUS
    <3> QED BY <3>1, StepStays
  <2> QED BY <2>1
<1>3. \A t \in Answer, i \in 1..n : step[<<t, i>>] = MateStep(t, list[i])
  OBVIOUS
<1> HIDE DEF base, step
<1>4. PICK g : IsFold(n, Answer, base, step, g)
  BY <1>1, <1>2, FoldSteps
<1>4a. g \in [SUBSET (1..n) -> Answer] /\ \A z \in SUBSET (1..n) : g[z] = Next1(base, step, g, z)
  BY <1>4 DEF IsFold
<1>5. g = [z \in SUBSET (1..n) |-> Body(g, z)]
  <2>1. ASSUME NEW z \in SUBSET (1..n) PROVE g[z] = Body(g, z)
    <3>1. CASE z = {}
      BY <1>4a, <3>1 DEF Next1
    <3>2. CASE z # {}
      <4>1. PICK m, r : m = Max(z) /\ r = z \ {m}
        OBVIOUS
      <4>2. m \in 1..n /\ r \in SUBSET (1..n)
        BY <3>2, <4>1, SubsetsOfFirst
      <4>3. g[z] = step[<<g[r], m>>]
        BY <1>4a, <3>2, <4>1 DEF Next1
      <4> QED BY <1>3, <1>4a, <3>2, <4>1, <4>2, <4>3
    <3> QED BY <3>1, <3>2
  <2>2. g = [z \in SUBSET (1..n) |-> g[z]]
    BY <1>4a
  <2> HIDE DEF Body
  <2> QED BY <2>1, <2>2
<1>6. f = [z \in SUBSET (1..n) |-> Body(f, z)]
  <2>1. f = CHOOSE iter : iter = [z \in SUBSET (1..n) |-> Body(iter, z)]
    BY DEF MateSweepFold, base
  <2> HIDE DEF f, Body
  <2> QED BY <1>5, <2>1
<1> HIDE DEF f
<1>7. f[{}] = base
  BY <1>6
<1>8. \A z \in SUBSET (1..n) : z # {} /\ f[z \ {Max(z)}] \in Answer => f[z] = step[<<f[z \ {Max(z)}], Max(z)>>]
  <2>1. ASSUME NEW z \in SUBSET (1..n), z # {}, f[z \ {Max(z)}] \in Answer PROVE f[z] = step[<<f[z \ {Max(z)}], Max(z)>>]
    <3>1. PICK m, r : m = Max(z) /\ r = z \ {m}
      OBVIOUS
    <3>2. m \in 1..n /\ r \in SUBSET (1..n)
      BY <2>1, <3>1, SubsetsOfFirst
    <3>3. f[z] = MateStep(f[r], list[m])
      BY <1>6, <2>1, <3>1
    <3> QED BY <1>3, <2>1, <3>1, <3>2, <3>3
  <2> QED BY <2>1
<1>9. f[1..0] = base /\ (\A i \in 1..n : f[1..i] = step[<<f[1..(i - 1)], i>>]) /\ (\A i \in 0..n : f[1..i] \in Answer)
  <2>1. GoesAsFold(n, Answer, base, step, f)
    BY <1>7, <1>8 DEF GoesAsFold
  <2>2. AdvancesBy(n, Answer, base, step, f)
    BY <1>1, <1>2, <2>1, FoldStates
  <2> QED BY <2>2 DEF AdvancesBy
<1> DEFINE st == [i \in 0..n |-> f[1..i]]
<1>10. st \in [0..n -> Answer] /\ st[0] = base /\ st[n] = f[1..n]
  BY <1>9
<1>11. \A i \in 1..n : st[i] = MateStep(st[i - 1], list[i])
  <2>1. ASSUME NEW i \in 1..n PROVE st[i] = MateStep(st[i - 1], list[i])
    <3>1. i - 1 \in 0..n /\ i \in 0..n
      OBVIOUS
    <3>2. st[i] = f[1..i] /\ st[i - 1] = f[1..(i - 1)] /\ f[1..(i - 1)] \in Answer
      BY <1>9, <3>1
    <3> QED BY <1>3, <1>9, <3>2
  <2> QED BY <2>1
<1>12. Swept(s, list) = f[1..n]
  BY DEF Swept, f
<1> HIDE DEF st
<1> QED BY <1>10, <1>11, <1>12 DEF base

MateSet ==
  {m \in [kind: {"Coincident", "Offset", "Revolute", "Slider", "Cylindrical"}, a: PartId, b: PartId,
          value: Int \cup {k.value : k \in Mates}, limits: {k.limits : k \in Mates}] : MateOK(m)}

MateHoldsAt(p, m) ==
  /\ m.kind = "Coincident" => p[m.a].at = p[m.b].at
  /\ m.kind = "Offset" => p[m.a].at = Plus(p[m.b].at, m.value)

MoversOf(list) == {list[i].b : i \in {i \in DOMAIN list : list[i].kind \in Joints}}

Claim(p, list) == \A i \in DOMAIN list : MateHoldsAt(p, list[i]) \/ {list[i].a, list[i].b} \cap MoversOf(list) # {}

\* A sweep that finds nothing to correct leaves the parts that no joint moves
\* where they were at every mate, so that its mates hold.
LEMMA SweepSettles ==
  ASSUME NEW list \in Seq(MateSet), NEW s \in Answer
  PROVE  Swept(s, list) \in Answer /\ (Swept(s, list).residual = 0 => Claim(Swept(s, list).pose, list))
<1>1. PICK n \in Nat : n = Len(list) /\ DOMAIN list = 1..n
  OBVIOUS
<1>2. \A i \in 1..n : MateOK(list[i])
  BY <1>1 DEF MateSet
<1> DEFINE Run(st) == /\ st[0] = [s EXCEPT !.residual = 0]
                      /\ \A i \in 1..n : st[i] = MateStep(st[i - 1], list[i])
                      /\ Swept(s, list) = st[n]
<1>3. \E st \in [0..n -> Answer] : Run(st)
  BY <1>1, <1>2, SweepStates
<1>4. PICK st \in [0..n -> Answer] : Run(st)
  <2> HIDE DEF Run
  <2> QED BY <1>3
<1>5. Swept(s, list) = st[n] /\ st[n] \in Answer
  BY <1>4
<1>6. ASSUME st[n].residual = 0 PROVE Claim(st[n].pose, list)
  <2>1. \A i \in 1..n : /\ st[i - 1] \in Answer /\ st[i] \in Answer /\ st[i - 1].pose \in Poses
                        /\ st[i].pose = ApplyMate(st[i - 1].pose, list[i]).pose
                        /\ st[i].residual >= st[i - 1].residual /\ st[i].residual >= ApplyMate(st[i - 1].pose, list[i]).residual
    <3>1. ASSUME NEW i \in 1..n
          PROVE  /\ st[i - 1] \in Answer /\ st[i] \in Answer /\ st[i - 1].pose \in Poses
                 /\ st[i].pose = ApplyMate(st[i - 1].pose, list[i]).pose
                 /\ st[i].residual >= st[i - 1].residual /\ st[i].residual >= ApplyMate(st[i - 1].pose, list[i]).residual
      <4>1. i - 1 \in 0..n /\ i \in 0..n
        OBVIOUS
      <4>2. PICK t \in Answer, u \in Answer : t = st[i - 1] /\ u = st[i] /\ u = MateStep(t, list[i])
        BY <1>4, <4>1
      <4>3. t.pose \in Poses
        BY DEF Answer
      <4>4. u.pose = ApplyMate(t.pose, list[i]).pose /\ u.residual >= t.residual /\ u.residual >= ApplyMate(t.pose, list[i]).residual
        <5>1. MateOK(list[i])
          BY <1>2
        <5> QED BY <4>2, <5>1, StepStays
      <4> QED BY <4>2, <4>3, <4>4
    <3> QED BY <3>1
  <2> DEFINE Down == {j \in Nat : j <= n => st[n - j].residual = 0}
  <2>2. 0 \in Down
    BY <1>6
  <2>3. ASSUME NEW j \in Nat, j \in Down PROVE j + 1 \in Down
    <3>1. ASSUME j + 1 <= n PROVE st[n - (j + 1)].residual = 0
      <4>1. n - j \in 1..n /\ (n - j) - 1 = n - (j + 1) /\ j <= n
        BY <3>1
      <4>2. PICK t \in Answer, u \in Answer : t = st[n - (j + 1)] /\ u = st[n - j] /\ u.residual >= t.residual
        BY <2>1, <4>1
      <4>3. t.residual \in Nat /\ u.residual = 0
        BY <2>3, <4>1, <4>2 DEF Answer
      <4> QED BY <4>2, <4>3
    <3> QED BY <3>1
  <2>4. \A j \in Nat : j \in Down
    <3> HIDE DEF Down
    <3>1. \A j \in Nat : j \in Down => j + 1 \in Down
      BY <2>3
    <3> QED BY <2>2, <3>1, InductionOverSet
  <2>5. \A i \in 1..n : Settled(st[i - 1].pose, st[i].pose, list[i])
    <3>1. ASSUME NEW i \in 1..n PROVE Settled(st[i - 1].pose, st[i].pose, list[i])
      <4>1. n - i \in Nat /\ n - i <= n /\ n - (n - i) = i
        OBVIOUS
      <4>2. st[i].residual = 0
        BY <2>4, <4>1
      <4>3. PICK p \in Poses : p = st[i - 1].pose /\ st[i].pose = ApplyMate(p, list[i]).pose /\ st[i].residual >= ApplyMate(p, list[i]).residual
        BY <2>1
      <4>4. MateOK(list[i])
        BY <1>2
      <4>5. ApplyMate(p, list[i]) \in Answer
        BY <4>4, MateApplied
      <4>6. ApplyMate(p, list[i]).residual \in Nat
        BY <4>5 DEF Answer
      <4>7. ApplyMate(p, list[i]).residual = 0
        BY <4>2, <4>3, <4>6
      <4>8. Settled(p, ApplyMate(p, list[i]).pose, list[i])
        BY <4>4, <4>7, MateApplied
      <4> QED BY <4>3, <4>8
    <3> QED BY <3>1
  <2> DEFINE Still(i) == \A q \in PartId \ MoversOf(list) : st[i].pose[q].at = st[0].pose[q].at
             Reached == {i \in Nat : i <= n => Still(i)}
  <2>6. 0 \in Reached
    OBVIOUS
  <2>7. ASSUME NEW i \in Nat, i \in Reached PROVE i + 1 \in Reached
    <3>1. ASSUME i + 1 <= n PROVE Still(i + 1)
      <4>1. i + 1 \in 1..n /\ (i + 1) - 1 = i /\ i <= n
        BY <3>1
      <4>2. Settled(st[i].pose, st[i + 1].pose, list[i + 1])
        <5>1. Settled(st[(i + 1) - 1].pose, st[i + 1].pose, list[i + 1])
          BY <2>5, <4>1
        <5> QED BY <4>1, <5>1
      <4>3. ASSUME NEW q \in PartId \ MoversOf(list) PROVE st[i + 1].pose[q].at = st[0].pose[q].at
        <5>1. q # list[i + 1].b \/ list[i + 1].kind \notin Joints
          BY <1>1, <4>1 DEF MoversOf
        <5>2. st[i + 1].pose[q].at = st[i].pose[q].at
          BY <4>2, <5>1 DEF Settled
        <5> QED BY <2>7, <4>1, <5>2
      <4> QED BY <4>3
    <3> QED BY <3>1
  <2>8. \A i \in Nat : i \in Reached
    <3> HIDE DEF Reached
    <3>1. \A i \in Nat : i \in Reached => i + 1 \in Reached
      BY <2>7
    <3> QED BY <2>6, <3>1, InductionOverSet
  <2>9. \A i \in 0..n : \A q \in PartId \ MoversOf(list) : st[n].pose[q].at = st[i].pose[q].at
    <3>1. \A i \in 0..n : Still(i)
      BY <2>8
    <3>2. n \in 0..n
      OBVIOUS
    <3> QED BY <3>1, <3>2
  <2>10. ASSUME NEW i \in 1..n, {list[i].a, list[i].b} \cap MoversOf(list) = {} PROVE MateHoldsAt(st[n].pose, list[i])
    <3>1. i - 1 \in 0..n
      OBVIOUS
    <3>2. list[i].a \in PartId \ MoversOf(list) /\ list[i].b \in PartId \ MoversOf(list)
      BY <1>2, <2>10 DEF MateOK
    <3>3. st[n].pose[list[i].a].at = st[i - 1].pose[list[i].a].at /\ st[n].pose[list[i].b].at = st[i - 1].pose[list[i].b].at
      BY <2>9, <3>1, <3>2
    <3>4. Settled(st[i - 1].pose, st[i].pose, list[i])
      BY <2>5
    <3> QED BY <3>3, <3>4 DEF MateHoldsAt, Settled
  <2> QED BY <1>1, <2>10 DEF Claim
<1> QED BY <1>5, <1>6

\* What its sweeps make of the poses stays in a set that holds the start, and
\* what one sweep makes of each of its members.
LEMMA SolveRuns ==
  ASSUME NEW list, NEW p, NEW States, NEW base \in States, base = [pose |-> p, residual |-> 1, exact |-> TRUE],
         \A s \in States : MateSolveStep(s, list) \in States
  PROVE  \E s \in States : MatesSolved(p, list) = MateSolveStep(s, list)
<1> DEFINE D == DOMAIN [i \in 1..MateSweeps |-> i]
           step == [x \in States \X (1..MateSweeps) |-> MateSolveStep(x[1], list)]
           Body(g, z) == IF z = {} THEN base ELSE MateSolveStep(g[z \ {Max(z)}], list)
           f == MateSolveFold(p, list)
<1>0. D = 1..MateSweeps /\ MateSweeps \in Nat /\ MateSweeps > 0
  BY DEF MateSweeps
<1>1. PICK n \in Nat : n = MateSweeps /\ n > 0
  BY <1>0
<1>2. step \in [States \X (1..n) -> States]
  BY <1>1
<1>3. \A t \in States, i \in 1..n : step[<<t, i>>] = MateSolveStep(t, list)
  BY <1>1
<1> HIDE DEF step
<1>4. PICK g : IsFold(n, States, base, step, g)
  BY <1>2, FoldSteps
<1>5. g \in [SUBSET (1..n) -> States] /\ \A z \in SUBSET (1..n) : g[z] = Next1(base, step, g, z)
  BY <1>4 DEF IsFold
<1>6. g = [z \in SUBSET (1..n) |-> Body(g, z)]
  <2>1. ASSUME NEW z \in SUBSET (1..n) PROVE g[z] = Body(g, z)
    <3>1. CASE z = {}
      BY <1>5, <3>1 DEF Next1
    <3>2. CASE z # {}
      <4>1. PICK m, r : m = Max(z) /\ r = z \ {m}
        OBVIOUS
      <4>2. m \in 1..n /\ r \in SUBSET (1..n)
        BY <3>2, <4>1, SubsetsOfFirst
      <4>3. g[z] = step[<<g[r], m>>]
        BY <1>5, <3>2, <4>1 DEF Next1
      <4> QED BY <1>3, <1>5, <3>2, <4>1, <4>2, <4>3
    <3> QED BY <3>1, <3>2
  <2>2. g = [z \in SUBSET (1..n) |-> g[z]]
    BY <1>5
  <2> HIDE DEF Body
  <2> QED BY <2>1, <2>2
<1>7. f = [z \in SUBSET (1..n) |-> Body(f, z)]
  <2>1. f = CHOOSE iter : iter = [z \in SUBSET D |-> Body(iter, z)]
    BY DEF MateSolveFold
  <2>2. f = CHOOSE iter : iter = [z \in SUBSET (1..n) |-> Body(iter, z)]
    BY <1>0, <1>1, <2>1
  <2> HIDE DEF f, Body
  <2> QED BY <1>6, <2>2
<1> HIDE DEF f
<1>8. GoesAsFold(n, States, base, step, f)
  <2>1. f[{}] = base
    BY <1>7
  <2>2. ASSUME NEW z \in SUBSET (1..n), z # {}, f[z \ {Max(z)}] \in States PROVE f[z] = step[<<f[z \ {Max(z)}], Max(z)>>]
    <3>1. PICK m, r : m = Max(z) /\ r = z \ {m}
      OBVIOUS
    <3>2. m \in 1..n /\ r \in SUBSET (1..n)
      BY <2>2, <3>1, SubsetsOfFirst
    <3>3. f[z] = MateSolveStep(f[r], list)
      BY <1>7, <2>2, <3>1
    <3> QED BY <1>3, <2>2, <3>1, <3>2, <3>3
  <2> QED BY <2>1, <2>2 DEF GoesAsFold
<1>9. AdvancesBy(n, States, base, step, f)
  BY <1>2, <1>8, FoldStates
<1>10. f[1..n] = step[<<f[1..(n - 1)], n>>] /\ f[1..(n - 1)] \in States
  <2>1. n \in 1..n /\ n - 1 \in 0..n
    BY <1>1
  <2> QED BY <1>9, <2>1 DEF AdvancesBy
<1>11. MatesSolved(p, list) = f[1..n]
  BY <1>0, <1>1, MateSolveIsAFold DEF f
<1> QED BY <1>1, <1>3, <1>10, <1>11

\* What solve_mates answers, for any number of sweeps.
LEMMA SolveSettles ==
  ASSUME NEW list \in Seq(MateSet), NEW p \in Poses
  PROVE  /\ MatesSolved(p, list) \in Answer
         /\ MatesSolved(p, list).residual = 0 => Claim(MatesSolved(p, list).pose, list)
         /\ Len(list) = 1 /\ list[1].kind \in Joints => MatesSolved(p, list).pose = ApplyMate(p, list[1]).pose
<1>1. PICK base : base = [pose |-> p, residual |-> 1, exact |-> TRUE]
  OBVIOUS
<1>2. base \in Answer /\ base.residual = 1 /\ base.exact = TRUE /\ base.pose = p
  BY <1>1 DEF Answer
<1>3. MatesSolved(p, list) \in Answer /\ (MatesSolved(p, list).residual = 0 => Claim(MatesSolved(p, list).pose, list))
  <2> DEFINE States == {t \in Answer : t.residual = 0 => Claim(t.pose, list)}
  <2>1. base \in States
    BY <1>2
  <2>2. ASSUME NEW s \in States PROVE MateSolveStep(s, list) \in States
    <3>1. CASE s.residual = 0 \/ ~s.exact
      BY <3>1 DEF MateSolveStep
    <3>2. CASE ~(s.residual = 0 \/ ~s.exact)
      <4>1. MateSolveStep(s, list) = Swept(s, list)
        BY <3>2 DEF MateSolveStep
      <4>2. s \in Answer
        OBVIOUS
      <4> QED BY <4>1, <4>2, SweepSettles
    <3> QED BY <3>1, <3>2
  <2> HIDE DEF States
  <2>3. PICK s \in States : MatesSolved(p, list) = MateSolveStep(s, list)
    BY <1>1, <2>1, <2>2, SolveRuns
  <2>4. MatesSolved(p, list) \in States
    BY <2>2, <2>3
  <2> QED BY <2>4 DEF States
<1>4. ASSUME Len(list) = 1, list[1].kind \in Joints PROVE MatesSolved(p, list).pose = ApplyMate(p, list[1]).pose
  <2>1. DOMAIN list = 1..1 /\ 1 \in 1..1 /\ MateOK(list[1])
    <3>1. DOMAIN list = 1..1 /\ 1 \in 1..1
      BY <1>4
    <3>2. list[1] \in MateSet
      BY <3>1, SMTT(30)
    <3> QED BY <3>1, <3>2 DEF MateSet
  <2>2. PICK r : r = ApplyMate(p, list[1])
    OBVIOUS
  <2>3. r \in Answer /\ r.residual = 0 /\ r.exact = TRUE
    <3>1. r \in Answer
      BY <2>1, <2>2, MateApplied
    <3>2. list[1].kind = "Revolute" \/ list[1].kind = "Slider" \/ list[1].kind = "Cylindrical"
      BY <1>4 DEF Joints
    <3>3. r.residual = 0 /\ r.exact = TRUE
      BY <2>2, <3>2 DEF ApplyMate
    <3> QED BY <3>1, <3>3
  <2>4. MateSolveStep(base, list).pose = r.pose /\ MateSolveStep(base, list).residual = 0
    <3>1. MateSolveStep(base, list) = Swept(base, list)
      BY <1>2 DEF MateSolveStep
    <3>2. PICK st : st[0] = [base EXCEPT !.residual = 0] /\ st[1] = MateStep(st[1 - 1], list[1]) /\ Swept(base, list) = st[1]
      BY <1>2, <2>1, SweepStates
    <3>3. PICK t \in Answer : t = [base EXCEPT !.residual = 0] /\ t.pose = p /\ t.residual = 0
      <4>1. base \in Answer /\ base.pose = p
        BY <1>2
      <4>2. [base EXCEPT !.residual = 0] \in Answer
        BY ONLY <4>1 DEF Answer
      <4>3. [base EXCEPT !.residual = 0].pose = base.pose /\ [base EXCEPT !.residual = 0].residual = 0
        BY ONLY <4>1 DEF Answer
      <4> QED BY <4>1, <4>2, <4>3
    <3>4. Swept(base, list) = MateStep(t, list[1])
      BY <3>2, <3>3
    <3>5. MateStep(t, list[1]).pose = r.pose /\ MateStep(t, list[1]).residual = 0
      BY <2>1, <2>2, <2>3, <3>3, StepStays
    <3> QED BY <3>1, <3>4, <3>5
  <2>5. PICK once : once = MateSolveStep(base, list) /\ once.pose = r.pose /\ once.residual = 0
    BY <2>4
  <2>6. \A s \in {base, once} : MateSolveStep(s, list) = once
    BY <2>5 DEF MateSolveStep
  <2>7. \A s \in {base, once} : MateSolveStep(s, list) \in {base, once}
    BY <2>6
  <2>8. PICK S : S = {base, once}
    OBVIOUS
  <2>9. PICK s \in S : MatesSolved(p, list) = MateSolveStep(s, list)
    BY <1>1, <2>7, <2>8, SolveRuns
  <2> QED BY <2>2, <2>5, <2>6, <2>8, <2>9
<1> QED BY <1>3, <1>4

Players == [part: PartId, start: Int, end: Int, current: Int, frames: Nat]

\* The mates that are added are mates that the solver can apply.
LEMMA MatesFit == Mates \subseteq MateSet
BY AssemblyAssumption DEF MateSet, MateOK

\* set_drive() sets the value of the joints of a part and changes no other mate.
LEMMA DrivenStays ==
  ASSUME NEW list \in Seq(MateSet), NEW piece, NEW value \in Int
  PROVE  /\ Driven(list, piece, value) \in Seq(MateSet) /\ Len(Driven(list, piece, value)) = Len(list)
         /\ \A i \in DOMAIN list :
               /\ Driven(list, piece, value)[i].kind = list[i].kind /\ Driven(list, piece, value)[i].b = list[i].b
               /\ list[i].kind \in Joints /\ list[i].b = piece => Driven(list, piece, value)[i].value = value
<1> DEFINE new == Driven(list, piece, value)
<1>1. PICK n \in Nat : n = Len(list) /\ DOMAIN list = 1..n
  OBVIOUS
<1>2. new = [i \in 1..n |-> IF list[i].kind \in Joints /\ list[i].b = piece THEN [list[i] EXCEPT !.value = value] ELSE list[i]]
  BY <1>1 DEF Driven
<1> HIDE DEF new
<1>3. ASSUME NEW i \in 1..n
      PROVE  /\ new[i] \in MateSet /\ new[i].kind = list[i].kind /\ new[i].b = list[i].b
             /\ list[i].kind \in Joints /\ list[i].b = piece => new[i].value = value
  <2>1. PICK m \in MateSet : m = list[i]
    BY <1>1
  <2>2. CASE m.kind \in Joints /\ m.b = piece
    <3>1. PICK e : e = [m EXCEPT !.value = value]
      OBVIOUS
    <3>2. e.kind = m.kind /\ e.a = m.a /\ e.b = m.b /\ e.limits = m.limits /\ e.value = value
          /\ e \in [kind: {"Coincident", "Offset", "Revolute", "Slider", "Cylindrical"}, a: PartId, b: PartId,
                    value: Int \cup {k.value : k \in Mates}, limits: {k.limits : k \in Mates}]
      BY <3>1 DEF MateSet
    <3>3. e = [kind |-> e.kind, a |-> e.a, b |-> e.b, value |-> e.value, limits |-> e.limits]
      BY <3>2
    <3>4. MateOK(m)
      BY DEF MateSet
    <3>5. MateOK(e)
      BY <2>2, <3>2, <3>3, <3>4 DEF MateOK, Joints
    <3>6. new[i] = e
      BY <1>2, <2>1, <2>2, <3>1
    <3> QED BY <2>1, <3>2, <3>5, <3>6 DEF MateSet
  <2>3. CASE ~(m.kind \in Joints /\ m.b = piece)
    <3>1. new[i] = m
      BY <1>2, <2>1, <2>3
    <3> QED BY <2>1, <2>3, <3>1
  <2> QED BY <2>2, <2>3
<1>4. new \in Seq(MateSet) /\ Len(new) = n
  <2>1. new \in [1..n -> MateSet]
    BY <1>2, <1>3
  <2> QED BY <2>1
<1> QED BY <1>1, <1>3, <1>4 DEF new

\* A joint that is applied to the resting poses gives the pose that its value asks for.
LEMMA PosedOnce ==
  ASSUME NEW m \in MateSet, m.kind \in Joints, rest \in Poses
  PROVE  ApplyMate(rest, m).pose = Posed(m, m.value)
<1>1. MateOK(m)
  BY DEF MateSet
<1>2. m.value \in Int /\ (m.limits = <<>> \/ m.limits \in Int \X Int) /\ (m.kind = "Cylindrical" => m.limits = <<>>)
  BY <1>1 DEF MateOK, Joints
<1>3. Nearest(m.value, m.limits) = ClampLimits(m.value, m.limits)
  BY <1>2, LimitsClamp
<1>4. CASE m.kind = "Revolute"
  BY <1>3, <1>4 DEF ApplyMate, Posed
<1>5. CASE m.kind = "Slider"
  BY <1>3, <1>5 DEF ApplyMate, Posed
<1>6. CASE m.kind = "Cylindrical"
  <2>1. Nearest(m.value, m.limits) = m.value
    BY <1>2, <1>6 DEF Nearest
  <2> QED BY <1>6, <2>1 DEF ApplyMate, Posed
<1> QED BY <1>4, <1>5, <1>6 DEF Joints

AssemblyInv ==
  /\ pose \in Poses /\ rest \in Poses /\ mates \in Seq(MateSet)
  /\ player \in {NoPlayer} \cup Players
  /\ residual = 0 => Claim(pose, mates)
  /\ player # NoPlayer /\ player.frames = 0 => pose = rest
  /\ Study /\ player.frames = 1 => pose = Posed(mates[1], player.current)

\* The property follows from the invariant.
LEMMA InvGivesMatesHold == AssemblyInv => MatesHold
<1> SUFFICES ASSUME AssemblyInv PROVE MatesHold
  OBVIOUS
<1>1. MoversOf(mates) = Movers
  BY DEF MoversOf, Movers
<1>2. ASSUME residual = 0, NEW i \in DOMAIN mates PROVE MateHolds(mates[i]) \/ {mates[i].a, mates[i].b} \cap Movers # {}
  <2>1. MateHoldsAt(pose, mates[i]) \/ {mates[i].a, mates[i].b} \cap Movers # {}
    BY <1>1, <1>2 DEF AssemblyInv, Claim
  <2>2. mates[i].kind \in {"Coincident", "Offset", "Revolute", "Slider", "Cylindrical"}
    BY DEF AssemblyInv, MateSet
  <2>3. MateHoldsAt(pose, mates[i]) => MateHolds(mates[i])
    BY <2>2 DEF MateHoldsAt, MateHolds
  <2> QED BY <2>1, <2>3
<1> QED BY <1>2 DEF AssemblyInv, MatesHold

\* An assembly starts with every part where it was placed.
LEMMA AssemblyInitInv == AssemblyInit => AssemblyInv
<1> SUFFICES ASSUME AssemblyInit PROVE AssemblyInv
  OBVIOUS
<1>1. <<0, 0, 0>> \in Vector
  BY DEF Vector
<1>2. pose \in Poses
  BY <1>1 DEF AssemblyInit, Poses, PoseOf
<1> QED BY <1>2 DEF AssemblyInit, AssemblyInv, Study

\* A solve, of the mates as they are or as a player drives them.
LEMMA SolveKeeps ==
  ASSUME AssemblyInv, NEW list \in Seq(MateSet), SolveAll(list)
  PROVE  /\ pose' \in Poses /\ mates' = list /\ (residual' = 0 => Claim(pose', mates'))
         /\ Len(list) = 1 /\ list[1].kind \in Joints => pose' = ApplyMate(pose, list[1]).pose
<1>1. pose \in Poses
  BY DEF AssemblyInv
<1>2. PICK s : s = MatesSolved(pose, list) /\ pose' = s.pose /\ residual' = s.residual /\ mates' = list
  BY DEF SolveAll
<1>3. s \in Answer /\ (s.residual = 0 => Claim(s.pose, list)) /\ (Len(list) = 1 /\ list[1].kind \in Joints => s.pose = ApplyMate(pose, list[1]).pose)
  BY <1>1, <1>2, SolveSettles
<1>4. s.pose \in Poses
  BY <1>3 DEF Answer
<1> QED BY <1>2, <1>3, <1>4

\* frame_at() drives the joint from where the study found the parts.
LEMMA FrameKeeps ==
  ASSUME AssemblyInv, NEW t \in Int, FrameAt(t)
  PROVE  AssemblyInv'
<1> DEFINE value == player.start + (t * (player.end - player.start)) \div 2
           list == Driven(mates, player.part, value)
<1>1. player \in Players /\ player # NoPlayer
  BY DEF AssemblyInv, FrameAt
<1>2. value \in Int
  <2>1. player.start \in Int /\ player.end \in Int
    BY <1>1 DEF Players
  <2>2. \A x, y, z \in Int : x + (y * (z - x)) \div 2 \in Int
    OBVIOUS
  <2> QED BY <2>1, <2>2
<1>3. mates \in Seq(MateSet) /\ pose \in Poses /\ rest \in Poses
  BY DEF AssemblyInv
<1>4. /\ player' = [player EXCEPT !.current = value, !.frames = @ + 1]
      /\ SolveAll(list) /\ rest' = rest
  BY DEF FrameAt
<1> HIDE DEF value
<1>5. /\ list \in Seq(MateSet) /\ Len(list) = Len(mates)
      /\ \A i \in DOMAIN mates : /\ list[i].kind = mates[i].kind /\ list[i].b = mates[i].b
                                 /\ mates[i].kind \in Joints /\ mates[i].b = player.part => list[i].value = value
  BY <1>2, <1>3, DrivenStays
<1> HIDE DEF list
<1>6. /\ pose' \in Poses /\ mates' = list /\ (residual' = 0 => Claim(pose', mates'))
      /\ Len(list) = 1 /\ list[1].kind \in Joints => pose' = ApplyMate(pose, list[1]).pose
  BY <1>4, <1>5, SolveKeeps
<1>7. player' \in Players /\ player'.part = player.part /\ player'.current = value /\ player'.frames = player.frames + 1 /\ player.frames \in Nat
  <2>0. PICK pl \in Players : pl = player
    BY <1>1
  <2>1. PICK v \in Int : v = value
    BY <1>2
  <2>2. player' = [pl EXCEPT !.current = v, !.frames = pl.frames + 1] /\ pl.frames \in Nat /\ pl.frames + 1 \in Nat
    BY <1>4, <2>0, <2>1 DEF Players
  <2>3. player' \in Players
    BY ONLY <2>0, <2>1, <2>2 DEF Players
  <2>4. player'.part = pl.part /\ player'.current = v /\ player'.frames = pl.frames + 1
    BY ONLY <2>0, <2>1, <2>2 DEF Players
  <2> QED BY <2>0, <2>1, <2>2, <2>3, <2>4
<1>8. player' # NoPlayer
  <2>1. player'.part \in PartId
    BY <1>7 DEF Players
  <2> QED BY <2>1, AssemblyAssumption DEF NoPlayer
<1>9. player'.frames # 0
  BY <1>7
<1>10. ASSUME Study', player'.frames = 1 PROVE pose' = Posed(mates[1], player.current)'
  <2>1. Len(list) = 1 /\ list[1].kind \in Joints /\ list[1].b = player.part
    BY <1>6, <1>7, <1>10 DEF Study
  <2>2. 1 \in DOMAIN mates /\ list[1] \in MateSet
    <3>0. \A q \in Seq(MateSet) : DOMAIN q = 1..Len(q)
      OBVIOUS
    <3>1. DOMAIN mates = 1..Len(mates) /\ DOMAIN list = 1..Len(list) /\ Len(mates) = 1
      <4>1. Len(mates) = 1
        BY <1>5, <2>1
      <4> QED BY <1>3, <1>5, <3>0, <4>1, Zenon
    <3>2. 1 \in DOMAIN mates /\ 1 \in DOMAIN list
      BY <2>1, <3>1
    <3> QED BY <1>5, <3>2
  <2>3. list[1].value = value
    BY <1>5, <2>1, <2>2
  <2>4. pose = rest
    <3>1. player.frames = 0
      BY <1>7, <1>10
    <3> QED BY <1>1, <3>1 DEF AssemblyInv
  <2>5. pose' = Posed(list[1], list[1].value)
    BY <1>3, <1>6, <2>1, <2>2, <2>4, PosedOnce
  <2>6. Posed(mates[1], player.current)' = Posed(list[1], value)
    BY <1>4, <1>6, <1>7 DEF Posed
  <2> QED BY <2>3, <2>5, <2>6
<1> QED BY <1>3, <1>4, <1>5, <1>6, <1>7, <1>9, <1>10 DEF AssemblyInv

\* Every call of the assembly and of the player keeps the invariant.
LEMMA AssemblyNextInv ==
  ASSUME AssemblyInv, [AssemblyNext]_assemblyVars
  PROVE  AssemblyInv'
<1>1. ASSUME NEW p \in PartId, NEW at \in {<<8, 0, 0>>, <<0, 8, 0>>}, player = NoPlayer, PlacePart(p, at) PROVE AssemblyInv'
  <2>1. at \in Vector
    BY DEF Vector
  <2>2. pose' \in Poses
    BY <1>1, <2>1 DEF PlacePart, AssemblyInv, Poses, PoseOf
  <2> QED BY <1>1, <2>2 DEF PlacePart, AssemblyInv, Study
<1>2. ASSUME NEW m \in Mates, player = NoPlayer, AddMate(m) PROVE AssemblyInv'
  <2>1. mates' \in Seq(MateSet)
    <3>1. m \in MateSet
      BY MatesFit
    <3> QED BY <1>2, <3>1 DEF AddMate, AssemblyInv
  <2> QED BY <1>2, <2>1 DEF AddMate, AssemblyInv, Study
<1>3. ASSUME SolveMates PROVE AssemblyInv'
  <2>1. player = NoPlayer /\ player' = player /\ rest' = rest /\ SolveAll(mates)
    BY <1>3 DEF SolveMates
  <2>2. mates \in Seq(MateSet) /\ rest \in Poses
    BY DEF AssemblyInv
  <2>3. pose' \in Poses /\ mates' = mates /\ (residual' = 0 => Claim(pose', mates'))
    BY <2>1, <2>2, SolveKeeps
  <2> QED BY <2>1, <2>2, <2>3 DEF AssemblyInv, Study
<1>4. ASSUME NEW p \in PartId, NEW r \in Ranges, NewPlayer(p, r) PROVE AssemblyInv'
  <2>1. r[1] \in Int /\ r[2] \in Int
    BY AssemblyAssumption
  <2>2. player' \in Players /\ player'.frames = 0
    BY <1>4, <2>1 DEF NewPlayer, Players
  <2>3. rest' = pose /\ pose' = pose /\ mates' = mates /\ residual' = -1
    BY <1>4 DEF NewPlayer
  <2> QED BY <2>2, <2>3 DEF AssemblyInv, Study
<1>5. ASSUME NEW t \in 0..2, FrameAt(t) PROVE AssemblyInv'
  BY <1>5, FrameKeeps
<1>6. ASSUME StepHalf PROVE AssemblyInv'
  <2>1. player \in Players
    BY <1>6 DEF StepHalf, AssemblyInv
  <2>2. PICK c, s, e \in Int : c = player.current /\ s = player.start /\ e = player.end
    BY <2>1 DEF Players
  <2>3. s # e
    BY <1>6, <2>2 DEF StepHalf
  <2>4. PICK t : t = (2 * Abs(c - s)) \div Abs(e - s) + 1
    OBVIOUS
  <2>5. t \in Int
    <3>1. Abs(c - s) \in Nat /\ Abs(e - s) \in Nat /\ Abs(e - s) > 0
      BY <2>3 DEF Abs
    <3>2. \A x, y \in Nat : y > 0 => (2 * x) \div y + 1 \in Int
      OBVIOUS
    <3> QED BY <2>4, <3>1, <3>2
  <2>6. FrameAt(IF t > 2 THEN 2 ELSE t)
    BY <1>6, <2>2, <2>4 DEF StepHalf
  <2>7. (IF t > 2 THEN 2 ELSE t) \in Int
    BY <2>5
  <2> QED BY <2>6, <2>7, FrameKeeps
<1>7. ASSUME UNCHANGED assemblyVars PROVE AssemblyInv'
  BY <1>7 DEF assemblyVars, AssemblyInv, Study, Posed, Claim
<1> QED BY <1>1, <1>2, <1>3, <1>4, <1>5, <1>6, <1>7 DEF AssemblyNext

\* A residual of 0 means that the positional mates hold, but for parts that a
\* joint moves, and the first frame of a study is the joint's resting pose driven
\* once within its limits: for any parts, mates, limits and numbers of sweeps
\* (assembly.rs, solve_mates(); motion.rs, frame_at()).
THEOREM MatesAreHeld == AssemblySpec => []MatesHold
<1>1. AssemblyInv /\ [AssemblyNext]_assemblyVars => AssemblyInv'
  BY AssemblyNextInv
<1> QED BY AssemblyInitInv, InvGivesMatesHold, <1>1, PTL DEF AssemblySpec

--------------------------------------------------------------------------
(* The constraints of a sketch (constraint.rs).                             *)

Spot == Int \X Int
Spots == [VertexId -> Spot]

\* A place in the sketch has two coordinates.
LEMMA SpotIs ==
  ASSUME NEW a \in Spot
  PROVE  a = <<a[1], a[2]>> /\ a[1] \in Int /\ a[2] \in Int /\ Len(a) = 2 /\ DOMAIN a = 1..2
<1>1. PICK x, y \in Int : a = <<x, y>>
  BY DEF Spot
<1> QED BY <1>1

\* Two coordinates are a place.
LEMMA PairIsSpot == \A x, y \in Int : <<x, y>> \in Spot
BY DEF Spot

\* What the operators on places do, coordinate by coordinate.
LEMMA SpotSums ==
  ASSUME NEW a \in Spot, NEW b \in Spot
  PROVE  /\ Plus(a, b) = <<a[1] + b[1], a[2] + b[2]>> /\ Plus(a, b) \in Spot
         /\ Minus(a, b) = <<a[1] - b[1], a[2] - b[2]>> /\ Minus(a, b) \in Spot
         /\ Half(a) \in Spot /\ Unit(a) \in Spot
         /\ Span(a) = Abs(a[1]) + Abs(a[2]) /\ Span(a) \in Nat
         /\ Dot(a, b) = a[1] * b[1] + a[2] * b[2] /\ Dot(a, b) \in Int
         /\ Even(a) \in BOOLEAN
<1>1. Len(a) = 2 /\ a[1] \in Int /\ a[2] \in Int /\ b[1] \in Int /\ b[2] \in Int
  BY SpotIs
<1>2. /\ Plus(a, b) = <<a[1] + b[1], a[2] + b[2]>>
      /\ Minus(a, b) = <<a[1] - b[1], a[2] - b[2]>>
      /\ Half(a) = <<a[1] \div 2, a[2] \div 2>>
      /\ Span(a) = Abs(a[1]) + Abs(a[2])
      /\ Dot(a, b) = a[1] * b[1] + a[2] * b[2]
      /\ Unit(a) = <<Sign(a[1]), Sign(a[2])>>
  BY <1>1 DEF Plus, Minus, Half, Span, Dot, Unit
<1>3. \A x \in Int : Abs(x) \in Nat /\ Sign(x) \in Int /\ x \div 2 \in Int
  BY DEF Abs, Sign
<1>4. \A x, y \in Int : x * y \in Int
  OBVIOUS
<1>5. PICK x, y, v, w \in Int : x = a[1] /\ y = a[2] /\ v = b[1] /\ w = b[2]
  BY <1>1
<1>6. /\ <<x + v, y + w>> \in Spot /\ <<x - v, y - w>> \in Spot
      /\ <<x \div 2, y \div 2>> \in Spot /\ <<Sign(x), Sign(y)>> \in Spot
  BY <1>3, PairIsSpot
<1>7. Abs(x) + Abs(y) \in Nat
  BY <1>3
<1>8. x * v + y * w \in Int
  BY <1>4
<1>9. Even(a) \in BOOLEAN
  BY DEF Even
<1> QED BY <1>2, <1>5, <1>6, <1>7, <1>8, <1>9

\* A multiple of a place is a place.
LEMMA SpotTimes ==
  ASSUME NEW a \in Spot, NEW k \in Int
  PROVE  Times(a, k) \in Spot
<1>1. Len(a) = 2 /\ a[1] \in Int /\ a[2] \in Int
  BY SpotIs
<1>2. Times(a, k) = <<a[1] * k, a[2] * k>>
  BY <1>1 DEF Times
<1>3. \A x \in Int : x * k \in Int
  OBVIOUS
<1> QED BY <1>1, <1>2, <1>3, PairIsSpot

Fits(moves) == DOMAIN moves \subseteq VertexId /\ \A id \in DOMAIN moves : moves[id] \in Spot

\* A point that is put somewhere is a move of the sketch.
LEMMA PutFits ==
  ASSUME NEW id \in VertexId, NEW place \in Spot
  PROVE  Fits(PutAt(id, place))
BY DEF Fits, PutAt

\* Two moves, one after the other, are a move.
LEMMA LaterFits ==
  ASSUME NEW f, NEW g, Fits(f), Fits(g)
  PROVE  Fits(Later(f, g))
BY DEF Fits, Later

\* The moves of the two ends of a segment are a move.
LEMMA EndsFit ==
  ASSUME NEW a \in VertexId, NEW b \in VertexId, NEW middle \in Spot, NEW half \in Spot
  PROVE  Fits(Ends(a, b, middle, half))
<1>1. Minus(middle, half) \in Spot /\ Plus(middle, half) \in Spot
  BY SpotSums
<1>2. Fits(PutAt(a, Minus(middle, half))) /\ Fits(PutAt(b, Plus(middle, half)))
  BY <1>1, PutFits
<1> QED BY <1>2, LaterFits DEF Ends

ConstraintHoldsAt(p, c) ==
  LET P(k) == p[c.ids[k]]
      v == Minus(P(2), P(1))
      w == Minus(P(4), P(3))
  IN  CASE c.kind = "Fixed"         -> P(1) = c.value
        [] c.kind = "Coincident"    -> P(1) = P(2)
        [] c.kind = "Horizontal"    -> v[2] = 0
        [] c.kind = "Vertical"      -> v[1] = 0
        [] c.kind = "Distance"      -> Dot(v, v) = c.value * c.value
        [] c.kind = "Parallel"      -> v[1] * w[2] = v[2] * w[1]
        [] c.kind = "Perpendicular" -> Dot(v, w) = 0
        [] c.kind \in {"EqualLength", "EqualRadius"} -> Dot(v, v) = Dot(w, w)
        [] c.kind = "PointOnCircle" -> LET rim == Minus(P(3), P(2)) IN Dot(v, v) = Dot(rim, rim)

Projected(p, c, r) ==
  /\ Fits(r.moves) /\ r.residual \in Int /\ r.exact \in BOOLEAN
  /\ r.exact => r.residual >= 0
  /\ r.exact /\ r.residual = 0 => ConstraintHoldsAt(p, c)

\* Two places without a way between them are the same.
LEMMA NoWay ==
  ASSUME NEW a \in Spot, NEW b \in Spot, Span(Minus(a, b)) = 0
  PROVE  a = b
<1>1. PICK x, y, v, w \in Int : a = <<x, y>> /\ b = <<v, w>>
  BY DEF Spot
<1>2. Minus(a, b) = <<x - v, y - w>>
  BY <1>1, SpotSums
<1>3. <<x - v, y - w>> \in Spot
  BY PairIsSpot
<1>4. Span(<<x - v, y - w>>) = Abs(x - v) + Abs(y - w)
  BY <1>3, SpotSums
<1>5. \A i, j \in Int : Abs(i) + Abs(j) = 0 => i = 0 /\ j = 0
  BY DEF Abs
<1>6. x - v = 0 /\ y - w = 0
  BY <1>2, <1>4, <1>5
<1> QED BY <1>1, <1>6

\* Along an axis, the square of a vector is that of its span, and the products
\* that compare directions are those of the signs.
LEMMA AlongSquares ==
  ASSUME NEW v \in Spot, AlongAxis(v)
  PROVE  Dot(v, v) = Span(v) * Span(v)
<1>1. PICK x, y \in Int : x = v[1] /\ y = v[2]
  BY SpotIs
<1>2. Dot(v, v) = x * x + y * y /\ Span(v) = Abs(x) + Abs(y)
  BY <1>1, SpotSums
<1>3. x = 0 \/ y = 0
  BY <1>1 DEF AlongAxis
<1>4. \A i \in Int : Abs(i) * Abs(i) = i * i /\ Abs(0) = 0 /\ Abs(i) \in Int
  BY DEF Abs
<1>5. CASE x = 0
  <2>1. Span(v) = Abs(y)
    BY <1>2, <1>4, <1>5
  <2>2. Dot(v, v) = y * y
    BY <1>2, <1>5
  <2> QED BY <1>4, <2>1, <2>2
<1>6. CASE y = 0
  <2>1. Span(v) = Abs(x)
    BY <1>2, <1>4, <1>6
  <2>2. Dot(v, v) = x * x
    BY <1>2, <1>6
  <2> QED BY <1>4, <2>1, <2>2
<1> QED BY <1>3, <1>5, <1>6

\* Along the axes, the product of two directions is 1 where they are parallel and
\* 0 where they are perpendicular.
LEMMA SignsTell ==
  ASSUME NEW v \in Spot, NEW w \in Spot, AlongAxis(v), AlongAxis(w)
  PROVE  /\ Dot(Unit(w), Unit(v)) \in Int /\ Abs(Dot(Unit(w), Unit(v))) \in 0..1
         /\ Abs(Dot(Unit(w), Unit(v))) = 1 => v[1] * w[2] = v[2] * w[1]
         /\ Abs(Dot(Unit(w), Unit(v))) = 0 => Dot(v, w) = 0
<1>1. PICK x, y, i, j \in Int : x = v[1] /\ y = v[2] /\ i = w[1] /\ j = w[2]
  BY SpotIs
<1>2. (x = 0 \/ y = 0) /\ (i = 0 \/ j = 0)
  BY <1>1 DEF AlongAxis
<1>3. Unit(v) = <<Sign(x), Sign(y)>> /\ Unit(w) = <<Sign(i), Sign(j)>>
  BY <1>1 DEF Unit
<1>4. \A k \in Int : Sign(k) \in {-1, 0, 1} /\ (Sign(k) = 0 <=> k = 0)
  BY DEF Sign
<1>5. PICK a, b, c, d \in {-1, 0, 1} : a = Sign(x) /\ b = Sign(y) /\ c = Sign(i) /\ d = Sign(j)
  BY <1>4
<1>6. Dot(Unit(w), Unit(v)) = c * a + d * b
  <2>1. Len(Unit(w)) = 2
    BY <1>3
  <2> QED BY <1>3, <1>5, <2>1 DEF Dot
<1>7. (a = 0 \/ b = 0) /\ (c = 0 \/ d = 0)
  BY <1>2, <1>4, <1>5
<1>8. Dot(v, w) = x * i + y * j
  BY <1>1, SpotSums
<1>9. c * a + d * b \in -1..1 /\ (c * a + d * b = 0 => (c = 0 \/ a = 0) /\ (d = 0 \/ b = 0))
      /\ (c * a + d * b # 0 => (c # 0 /\ a # 0) \/ (d # 0 /\ b # 0))
  BY <1>7
<1>10. (a = 0 <=> x = 0) /\ (b = 0 <=> y = 0) /\ (c = 0 <=> i = 0) /\ (d = 0 <=> j = 0)
  BY <1>4, <1>5
<1>11. \A k \in -1..1 : Abs(k) \in 0..1 /\ (Abs(k) = 0 <=> k = 0)
  BY DEF Abs
<1>12. \A k \in Int : k * 0 = 0 /\ 0 * k = 0
  OBVIOUS
<1>13. ASSUME c * a + d * b = 0 PROVE x * i + y * j = 0
  <2>1. (i = 0 \/ x = 0) /\ (j = 0 \/ y = 0)
    BY <1>9, <1>10, <1>13
  <2>2. x * i = 0 /\ y * j = 0
    BY <1>12, <2>1
  <2> QED BY <2>2
<1>14. ASSUME c * a + d * b # 0 PROVE x * j = y * i
  <2>1. (i # 0 /\ x # 0) \/ (j # 0 /\ y # 0)
    BY <1>9, <1>10, <1>14
  <2>2. (j = 0 /\ y = 0) \/ (i = 0 /\ x = 0)
    BY <1>2, <2>1
  <2>3. x * j = 0 /\ y * i = 0
    BY <1>12, <2>2
  <2> QED BY <2>3
<1> QED BY <1>1, <1>6, <1>8, <1>9, <1>11, <1>13, <1>14

\* A gap of 0 is none.
LEMMA NoGap == \A x, y \in Int : Abs(x) \in Nat /\ (Abs(x - y) = 0 => x = y) /\ (Abs(x) = 0 => x = 0)
BY DEF Abs

\* One projection stays in the plane, and if all of it is exact and it finds
\* nothing to correct, its constraint holds.
LEMMA ProjectsWell ==
  ASSUME NEW p \in Spots, NEW c \in Constraints
  PROVE  Projected(p, c, Project(c, p))
<1>1. c.kind \in DOMAIN Arity /\ c.ids \in Seq(VertexId) /\ Len(c.ids) = Arity[c.kind]
      /\ (c.kind = "Fixed" => c.value \in Int \X Int) /\ (c.kind = "Distance" => c.value \in Int)
  BY SketchAssumption
<1>2. DOMAIN Arity = {"Fixed", "Coincident", "Horizontal", "Vertical", "Distance", "PointOnCircle", "Parallel", "Perpendicular", "EqualLength", "EqualRadius"}
  BY DEF Arity
<1>3. \A k \in 1..Len(c.ids) : c.ids[k] \in VertexId /\ p[c.ids[k]] \in Spot
  BY <1>1 DEF Spots
<1>4. CASE c.kind \in {"Fixed"}
  <2>1. Len(c.ids) = 1
    BY <1>1, <1>4 DEF Arity
  <2>2. PICK a \in VertexId, pa \in Spot, value \in Spot : a = c.ids[1] /\ pa = p[a] /\ value = c.value
    <3>1. 1 \in 1..Len(c.ids)
      BY <2>1
    <3> QED BY <1>1, <1>3, <1>4, <3>1 DEF Spot
  <2>3. PICK r : r = [moves |-> PutAt(a, value), residual |-> Span(Minus(value, pa)), exact |-> TRUE]
    OBVIOUS
  <2>4. Project(c, p) = r
    BY <1>4, <2>2, <2>3 DEF Project
  <2>5. Minus(value, pa) \in Spot
    BY SpotSums
  <2>6. Span(Minus(value, pa)) \in Nat
    BY <2>5, SpotSums
  <2>7. Fits(PutAt(a, value))
    BY PutFits
  <2>8. ASSUME Span(Minus(value, pa)) = 0 PROVE ConstraintHoldsAt(p, c)
    <3>1. value = pa
      BY <2>8, NoWay
    <3> QED BY <1>4, <2>2, <3>1 DEF ConstraintHoldsAt
  <2> QED BY <2>3, <2>4, <2>6, <2>7, <2>8 DEF Projected
<1>5. CASE c.kind \in {"Coincident", "Horizontal", "Vertical", "Distance"}
  <2>1. Len(c.ids) = 2
    BY <1>1, <1>5 DEF Arity
  <2>2. PICK a \in VertexId, b \in VertexId, pa \in Spot, pb \in Spot : a = c.ids[1] /\ b = c.ids[2] /\ pa = p[a] /\ pb = p[b]
    <3>1. 1 \in 1..Len(c.ids) /\ 2 \in 1..Len(c.ids)
      BY <2>1
    <3> QED BY <1>3, <3>1
  <2>3. PICK v \in Spot, middle \in Spot : v = Minus(pb, pa) /\ middle = Half(Plus(pa, pb))
    <3>1. PICK sum \in Spot, diff \in Spot : sum = Plus(pa, pb) /\ diff = Minus(pb, pa)
      BY SpotSums
    <3>2. Half(sum) \in Spot
      BY SpotSums
    <3> QED BY <3>1, <3>2
  <2>4. v[1] \in Int /\ v[2] \in Int /\ pa[1] \in Int /\ pa[2] \in Int /\ pb[1] \in Int /\ pb[2] \in Int /\ middle[1] \in Int /\ middle[2] \in Int
    BY SpotIs
  <2>5. CASE c.kind = "Coincident"
    <3>1. PICK r : r = [moves |-> Later(PutAt(a, middle), PutAt(b, middle)), residual |-> Span(v), exact |-> Even(Plus(pa, pb))]
      OBVIOUS
    <3>2. Project(c, p) = r
      BY <2>2, <2>3, <2>5, <3>1 DEF Project
    <3>3. Fits(Later(PutAt(a, middle), PutAt(b, middle)))
      BY PutFits, LaterFits
    <3>4. Span(v) \in Nat /\ Even(Plus(pa, pb)) \in BOOLEAN
      BY SpotSums
    <3>5. ASSUME Span(v) = 0 PROVE ConstraintHoldsAt(p, c)
      <4>1. pb = pa
        BY <2>3, <3>5, NoWay
      <4> QED BY <2>2, <2>5, <4>1 DEF ConstraintHoldsAt
    <3> QED BY <3>1, <3>2, <3>3, <3>4, <3>5 DEF Projected
  <2>6. CASE c.kind = "Horizontal"
    <3>1. PICK x \in Spot, y \in Spot : x = <<pa[1], middle[2]>> /\ y = <<pb[1], middle[2]>>
      BY <2>4, PairIsSpot
    <3>2. PICK r : r = [moves |-> Later(PutAt(a, x), PutAt(b, y)), residual |-> Abs(v[2]), exact |-> v[2] % 2 = 0]
      OBVIOUS
    <3>3. Project(c, p) = r
      BY <2>2, <2>3, <2>6, <3>1, <3>2 DEF Project
    <3>4. Fits(Later(PutAt(a, x), PutAt(b, y)))
      BY PutFits, LaterFits
    <3>5. Abs(v[2]) \in Nat
      BY <2>4, NoGap
    <3>6. ASSUME Abs(v[2]) = 0 PROVE ConstraintHoldsAt(p, c)
      <4>1. v[2] = 0
        BY <2>4, <3>6, NoGap
      <4> QED BY <2>2, <2>3, <2>6, <4>1 DEF ConstraintHoldsAt
    <3> QED BY <3>2, <3>3, <3>4, <3>5, <3>6 DEF Projected
  <2>7. CASE c.kind = "Vertical"
    <3>1. PICK x \in Spot, y \in Spot : x = <<middle[1], pa[2]>> /\ y = <<middle[1], pb[2]>>
      BY <2>4, PairIsSpot
    <3>2. PICK r : r = [moves |-> Later(PutAt(a, x), PutAt(b, y)), residual |-> Abs(v[1]), exact |-> v[1] % 2 = 0]
      OBVIOUS
    <3>3. Project(c, p) = r
      BY <2>2, <2>3, <2>7, <3>1, <3>2 DEF Project
    <3>4. Fits(Later(PutAt(a, x), PutAt(b, y)))
      BY PutFits, LaterFits
    <3>5. Abs(v[1]) \in Nat
      BY <2>4, NoGap
    <3>6. ASSUME Abs(v[1]) = 0 PROVE ConstraintHoldsAt(p, c)
      <4>1. v[1] = 0
        BY <2>4, <3>6, NoGap
      <4> QED BY <2>2, <2>3, <2>7, <4>1 DEF ConstraintHoldsAt
    <3> QED BY <3>2, <3>3, <3>4, <3>5, <3>6 DEF Projected
  <2>8. CASE c.kind = "Distance"
    <3>1. PICK value \in Int, span \in Int : value = c.value /\ span = Span(v)
      <4>1. Span(v) \in Int
        BY SpotSums
      <4>2. c.value \in Int
        BY <1>1, <2>8
      <4> QED BY <4>1, <4>2
    <3>2. PICK step \in Spot : step = Times(Unit(v), (span - value) \div 2)
      <4>1. Unit(v) \in Spot /\ (span - value) \div 2 \in Int
        BY SpotSums
      <4> QED BY <4>1, SpotTimes
    <3>3. PICK x \in Spot, y \in Spot : x = Plus(pa, step) /\ y = Minus(pb, step)
      BY SpotSums
    <3> DEFINE level == AlongAxis(v) /\ (span - value) % 2 = 0
    <3>4. PICK r : r = [moves |-> Later(PutAt(a, x), PutAt(b, y)), residual |-> Abs(span - value), exact |-> level]
      OBVIOUS
    <3>5. Project(c, p) = r
      BY <2>2, <2>3, <2>8, <3>1, <3>2, <3>3, <3>4 DEF Project
    <3>6. Fits(Later(PutAt(a, x), PutAt(b, y)))
      BY PutFits, LaterFits
    <3>7. Abs(span - value) \in Nat
      BY NoGap
    <3>8. ASSUME AlongAxis(v), Abs(span - value) = 0 PROVE ConstraintHoldsAt(p, c)
      <4>1. span = value
        BY <3>8, NoGap
      <4>2. Dot(v, v) = value * value
        BY <3>1, <3>8, <4>1, AlongSquares
      <4> QED BY <2>2, <2>3, <2>8, <3>1, <4>2 DEF ConstraintHoldsAt
    <3>9. level \in BOOLEAN /\ (level => AlongAxis(v))
      OBVIOUS
    <3> HIDE DEF level
    <3> QED BY <3>4, <3>5, <3>6, <3>7, <3>8, <3>9 DEF Projected
  <2> QED BY <1>5, <2>5, <2>6, <2>7, <2>8
<1>6. CASE c.kind \in {"PointOnCircle"}
  <2>1. Len(c.ids) = 3
    BY <1>1, <1>6 DEF Arity
  <2>2. PICK a \in VertexId, pa \in Spot, pb \in Spot, pc \in Spot : a = c.ids[1] /\ pa = p[a] /\ pb = p[c.ids[2]] /\ pc = p[c.ids[3]]
    <3>1. 1 \in 1..Len(c.ids) /\ 2 \in 1..Len(c.ids) /\ 3 \in 1..Len(c.ids)
      BY <2>1
    <3> QED BY <1>3, <3>1
  <2>3. PICK v \in Spot, rim \in Spot : v = Minus(pb, pa) /\ rim = Minus(pc, pb)
    BY SpotSums
  <2>4. PICK sv \in Nat, sr \in Nat : sv = Span(v) /\ sr = Span(rim)
    BY SpotSums
  <2>5. PICK x \in Spot : x = Minus(pb, Times(Unit(v), sr))
    <3>1. Unit(v) \in Spot
      BY SpotSums
    <3>2. PICK y \in Spot : y = Times(Unit(v), sr)
      BY <3>1, SpotTimes
    <3>3. Minus(pb, y) \in Spot
      BY SpotSums
    <3> QED BY <3>2, <3>3
  <2> DEFINE level == AlongAxis(v) /\ AlongAxis(rim)
  <2>6. PICK r : r = [moves |-> PutAt(a, x), residual |-> Abs(sv - sr), exact |-> level]
    OBVIOUS
  <2>7. Project(c, p) = r
    BY <1>6, <2>2, <2>3, <2>4, <2>5, <2>6 DEF Project
  <2>8. Fits(PutAt(a, x))
    BY PutFits
  <2>9. Abs(sv - sr) \in Nat
    BY NoGap
  <2>10. ASSUME AlongAxis(v), AlongAxis(rim), Abs(sv - sr) = 0 PROVE ConstraintHoldsAt(p, c)
    <3>1. sv = sr
      BY <2>10, NoGap
    <3>2. Dot(v, v) = Dot(rim, rim)
      BY <2>4, <2>10, <3>1, AlongSquares
    <3> QED BY <1>6, <2>2, <2>3, <3>2 DEF ConstraintHoldsAt
  <2>11. level \in BOOLEAN /\ (level => AlongAxis(v) /\ AlongAxis(rim))
    OBVIOUS
  <2> HIDE DEF level
  <2> QED BY <2>6, <2>7, <2>8, <2>9, <2>10, <2>11 DEF Projected
<1>7. CASE c.kind \in {"Parallel", "Perpendicular", "EqualLength", "EqualRadius"}
  <2>1. Len(c.ids) = 4
    BY <1>1, <1>7 DEF Arity
  <2>2. PICK a \in VertexId, b \in VertexId, d \in VertexId, e \in VertexId, pa \in Spot, pb \in Spot, pd \in Spot, pe \in Spot :
           /\ a = c.ids[1] /\ b = c.ids[2] /\ d = c.ids[3] /\ e = c.ids[4]
           /\ pa = p[a] /\ pb = p[b] /\ pd = p[d] /\ pe = p[e]
    <3>1. 1 \in 1..Len(c.ids) /\ 2 \in 1..Len(c.ids) /\ 3 \in 1..Len(c.ids) /\ 4 \in 1..Len(c.ids)
      BY <2>1
    <3> QED BY <1>3, <3>1
  <2>3. PICK v \in Spot, w \in Spot : v = Minus(pb, pa) /\ w = Minus(pe, pd)
    BY SpotSums
  <2>4. PICK m1 \in Spot, m2 \in Spot : m1 = Half(Plus(pa, pb)) /\ m2 = Half(Plus(pd, pe))
    BY SpotSums
  <2>5. PICK sv \in Nat, sw \in Nat : sv = Span(v) /\ sw = Span(w)
    BY SpotSums
  <2>6. \A u \in Spot, k \in Int : Times(u, k) \in Spot /\ Half(u) \in Spot /\ Unit(u) \in Spot
    BY SpotSums, SpotTimes
  <2>7. CASE c.kind \in {"Parallel", "Perpendicular"}
    <3> DEFINE to == IF c.kind = "Parallel" THEN Unit(v) ELSE <<-Unit(v)[2], Unit(v)[1]>>
               lean == Dot(Unit(w), Unit(v))
               residue == IF c.kind = "Parallel" THEN 1 - Abs(lean) ELSE Abs(lean)
               level == AlongAxis(v) /\ AlongAxis(w) /\ Even(Plus(pd, pe)) /\ sw % 2 = 0
    <3>1. to \in Spot
      <4>1. Unit(v)[1] \in Int /\ Unit(v)[2] \in Int
        BY <2>6, SpotIs
      <4> QED BY <2>6, <4>1, PairIsSpot
    <3>2. PICK half \in Spot : half = Half(Times(to, sw))
      <4> HIDE DEF to
      <4> QED BY <2>6, <3>1
    <3>3. PICK r : r = [moves |-> Ends(d, e, m2, half), residual |-> residue, exact |-> level]
      OBVIOUS
    <3>4. Project(c, p) = r
      <4>1. CASE c.kind = "Parallel"
        BY <2>1, <2>2, <2>3, <2>4, <2>5, <3>2, <3>3, <4>1 DEF Project
      <4>2. CASE c.kind = "Perpendicular"
        BY <2>1, <2>2, <2>3, <2>4, <2>5, <3>2, <3>3, <4>2 DEF Project
      <4> QED BY <2>7, <4>1, <4>2
    <3>5. Fits(Ends(d, e, m2, half))
      BY EndsFit
    <3>6. lean \in Int
      BY <2>6, SpotSums
    <3>7. residue \in Int
      BY <3>6, NoGap
    <3>8. level \in BOOLEAN
      OBVIOUS
    <3>9. ASSUME level PROVE residue >= 0 /\ (residue = 0 => ConstraintHoldsAt(p, c))
      <4>1. /\ Abs(lean) \in 0..1
            /\ Abs(lean) = 1 => v[1] * w[2] = v[2] * w[1]
            /\ Abs(lean) = 0 => Dot(v, w) = 0
        BY <3>9, SignsTell
      <4>2. residue >= 0
        BY <4>1
      <4>3. ASSUME residue = 0 PROVE ConstraintHoldsAt(p, c)
        <5>1. CASE c.kind = "Parallel"
          <6>1. v[1] * w[2] = v[2] * w[1]
            BY <4>1, <4>3, <5>1
          <6> QED BY <2>2, <2>3, <5>1, <6>1 DEF ConstraintHoldsAt
        <5>2. CASE c.kind = "Perpendicular"
          <6>1. Dot(v, w) = 0
            BY <4>1, <4>3, <5>2
          <6> QED BY <2>2, <2>3, <5>2, <6>1 DEF ConstraintHoldsAt
        <5> QED BY <2>7, <5>1, <5>2
      <4> QED BY <4>2, <4>3
    <3> HIDE DEF residue, level, to, lean
    <3> QED BY <3>3, <3>4, <3>5, <3>7, <3>8, <3>9 DEF Projected
  <2>8. CASE c.kind \in {"EqualLength", "EqualRadius"}
    <3>1. Abs(sv - sw) \in Nat
      <4>1. PICK miss \in Int : miss = sv - sw
        OBVIOUS
      <4>2. Abs(miss) \in Nat
        BY NoGap
      <4> QED BY <4>1, <4>2
    <3>2. ASSUME AlongAxis(v), AlongAxis(w), Abs(sv - sw) = 0 PROVE ConstraintHoldsAt(p, c)
      <4>1. sv = sw
        BY <3>2, NoGap
      <4>2. Dot(v, v) = Dot(w, w)
        BY <2>5, <3>2, <4>1, AlongSquares
      <4> QED BY <2>2, <2>3, <2>8, <4>2 DEF ConstraintHoldsAt
    <3>3. CASE c.kind = "EqualLength"
      <4>1. (sv + sw) \div 4 \in Int
        OBVIOUS
      <4>2. PICK h1 \in Spot, h2 \in Spot : h1 = Times(Unit(v), (sv + sw) \div 4) /\ h2 = Times(Unit(w), (sv + sw) \div 4)
        BY <2>6, <4>1
      <4> DEFINE level == AlongAxis(v) /\ AlongAxis(w) /\ (sv + sw) % 4 = 0 /\ Even(Plus(pa, pb)) /\ Even(Plus(pd, pe))
      <4>3. PICK r : r = [moves |-> Later(Ends(a, b, m1, h1), Ends(d, e, m2, h2)), residual |-> Abs(sv - sw), exact |-> level]
        OBVIOUS
      <4>4. Project(c, p) = r
        BY <2>1, <2>2, <2>3, <2>4, <2>5, <3>3, <4>2, <4>3 DEF Project
      <4>5. Fits(Later(Ends(a, b, m1, h1), Ends(d, e, m2, h2)))
        BY EndsFit, LaterFits
      <4>6. level \in BOOLEAN /\ (level => AlongAxis(v) /\ AlongAxis(w))
        OBVIOUS
      <4> HIDE DEF level
      <4> QED BY <3>1, <3>2, <4>3, <4>4, <4>5, <4>6 DEF Projected
    <3>4. CASE c.kind = "EqualRadius"
      <4>1. (sv + sw) \div 2 \in Int
        OBVIOUS
      <4>2. PICK x \in Spot, y \in Spot : x = Plus(pa, Times(Unit(v), (sv + sw) \div 2)) /\ y = Plus(pd, Times(Unit(w), (sv + sw) \div 2))
        BY <2>6, <4>1, SpotSums
      <4> DEFINE level == AlongAxis(v) /\ AlongAxis(w) /\ (sv + sw) % 2 = 0
      <4>3. PICK r : r = [moves |-> Later(PutAt(b, x), PutAt(e, y)), residual |-> Abs(sv - sw), exact |-> level]
        OBVIOUS
      <4>4. Project(c, p) = r
        BY <2>1, <2>2, <2>3, <2>4, <2>5, <3>4, <4>2, <4>3 DEF Project
      <4>5. Fits(Later(PutAt(b, x), PutAt(e, y)))
        BY PutFits, LaterFits
      <4>6. level \in BOOLEAN /\ (level => AlongAxis(v) /\ AlongAxis(w))
        OBVIOUS
      <4> HIDE DEF level
      <4> QED BY <3>1, <3>2, <4>3, <4>4, <4>5, <4>6 DEF Projected
    <3> QED BY <2>8, <3>3, <3>4
  <2> QED BY <1>7, <2>7, <2>8
<1> QED BY <1>1, <1>2, <1>4, <1>5, <1>6, <1>7

SweepState == [points: Spots, residual: Nat, exact: BOOLEAN, turned: BOOLEAN]

SweepStep(s, c) ==
  LET r == Project(c, s.points)
  IN  [points |-> Later(s.points, r.moves), residual |-> Worst(s.residual, r.residual), exact |-> s.exact /\ r.exact,
       turned |-> s.turned \/ (r.residual = 0 /\ \E id \in DOMAIN r.moves : r.moves[id] # s.points[id])]

Fresh(p) == [points |-> p, residual |-> 0, exact |-> TRUE, turned |-> FALSE]

SketchSweepFold(p, list) ==
  CHOOSE iter : iter = [z \in SUBSET (DOMAIN list) |-> IF z = {} THEN Fresh(p) ELSE SweepStep(iter[z \ {Max(z)}], list[Max(z)])]

SketchSolveStep(s, list) ==
  IF s.converged \/ ~s.exact THEN s
  ELSE LET t == SketchSweepFold(s.points, list)[DOMAIN list]
       IN  [points |-> t.points, residual |-> t.residual, exact |-> t.exact, turned |-> t.turned,
            converged |-> t.exact /\ t.residual = 0]

Unsolved(p) == [points |-> p, residual |-> 1, exact |-> TRUE, turned |-> FALSE, converged |-> FALSE]

SketchSolveFold(p, list) ==
  CHOOSE iter : iter = [z \in SUBSET (DOMAIN [i \in 1..MaxIters |-> i]) |->
                          IF z = {} THEN Unsolved(p) ELSE SketchSolveStep(iter[z \ {Max(z)}], list)]

\* solve() as a fold of the sweeps above.
LEMMA SketchSolveIsAFold ==
  ASSUME NEW p, NEW list
  PROVE  Solved(p, list) = SketchSolveFold(p, list)[DOMAIN [i \in 1..MaxIters |-> i]]
BY Zenon DEF Solved, Sweep, FoldLeft, MapThenFoldSet, SketchSolveFold, SketchSolveStep, SketchSweepFold, SweepStep, Fresh, Unsolved

Clean(s) == s.exact /\ ~s.turned /\ s.residual = 0

\* One step of a sweep stays among its states; if it comes out clean, it went
\* in clean, moved nothing, and its constraint holds.
LEMMA SweepStepStays ==
  ASSUME NEW s \in SweepState, NEW c \in Constraints
  PROVE  /\ SweepStep(s, c) \in SweepState
         /\ Clean(SweepStep(s, c)) => Clean(s) /\ SweepStep(s, c).points = s.points /\ ConstraintHoldsAt(s.points, c)
<1>1. s.points \in Spots /\ s.residual \in Nat /\ s.exact \in BOOLEAN /\ s.turned \in BOOLEAN
  BY DEF SweepState
<1>2. PICK r : r = Project(c, s.points)
  OBVIOUS
<1>3. Projected(s.points, c, r)
  BY <1>1, <1>2, ProjectsWell
<1> DEFINE new == Later(s.points, r.moves)
           worst == Worst(s.residual, r.residual)
           exact == s.exact /\ r.exact
           turned == s.turned \/ (r.residual = 0 /\ \E id \in DOMAIN r.moves : r.moves[id] # s.points[id])
<1>4. SweepStep(s, c) = [points |-> new, residual |-> worst, exact |-> exact, turned |-> turned]
  BY <1>2 DEF SweepStep
<1>5. DOMAIN s.points = VertexId /\ DOMAIN r.moves \subseteq VertexId /\ \A id \in DOMAIN r.moves : r.moves[id] \in Spot
  BY <1>1, <1>3 DEF Projected, Fits, Spots
<1>6. new = [x \in VertexId |-> IF x \in DOMAIN r.moves THEN r.moves[x] ELSE s.points[x]]
  BY <1>5 DEF Later
<1>7. new \in Spots
  BY <1>1, <1>5, <1>6 DEF Spots
<1>8. worst \in Nat /\ worst >= s.residual /\ worst >= r.residual
  BY <1>1, <1>3 DEF Worst, Projected
<1>9. exact \in BOOLEAN /\ turned \in BOOLEAN /\ (exact => s.exact /\ r.exact) /\ (~turned => ~s.turned)
  BY <1>1, <1>3 DEF Projected
<1>10. ~turned /\ r.residual = 0 => \A id \in DOMAIN r.moves : r.moves[id] = s.points[id]
  OBVIOUS
<1>11. (\A id \in DOMAIN r.moves : r.moves[id] = s.points[id]) => new = s.points
  <2>1. s.points = [x \in VertexId |-> s.points[x]]
    BY <1>1 DEF Spots
  <2> HIDE DEF new
  <2> QED BY <1>6, <2>1
<1> HIDE DEF new, worst, exact, turned
<1>12. SweepStep(s, c) \in SweepState
  BY <1>4, <1>7, <1>8, <1>9 DEF SweepState
<1>13. ASSUME exact, ~turned, worst = 0 PROVE Clean(s) /\ new = s.points /\ ConstraintHoldsAt(s.points, c)
  <2>1. s.residual = 0 /\ r.residual = 0
    BY <1>1, <1>3, <1>8, <1>9, <1>13 DEF Projected
  <2>2. new = s.points
    BY <1>10, <1>11, <1>13, <2>1
  <2>3. ConstraintHoldsAt(s.points, c)
    BY <1>3, <1>9, <1>13, <2>1 DEF Projected
  <2> QED BY <1>9, <1>13, <2>1, <2>2, <2>3 DEF Clean
<1>14. Clean(SweepStep(s, c)) => exact /\ ~turned /\ worst = 0
  BY <1>4 DEF Clean
<1> QED BY <1>4, <1>12, <1>13, <1>14

AllHold(p, list) == \A i \in DOMAIN list : ConstraintHoldsAt(p, list[i])

\* A sweep that comes out clean leaves every constraint holding.
LEMMA SweepsWell ==
  ASSUME NEW list \in Seq(Constraints), NEW p \in Spots
  PROVE  /\ SketchSweepFold(p, list)[DOMAIN list] \in SweepState
         /\ Clean(SketchSweepFold(p, list)[DOMAIN list]) => AllHold(SketchSweepFold(p, list)[DOMAIN list].points, list)
<1> DEFINE base == Fresh(p)
           f == SketchSweepFold(p, list)
<1>1. PICK n \in Nat : n = Len(list) /\ DOMAIN list = 1..n /\ \A i \in 1..n : list[i] \in Constraints
  <2>1. DOMAIN list = 1..Len(list) /\ Len(list) \in Nat
    OBVIOUS
  <2>2. \A i \in 1..Len(list) : list[i] \in Constraints
    OBVIOUS
  <2> QED BY ONLY <2>1, <2>2
<1> DEFINE step == [x \in SweepState \X (1..n) |-> SweepStep(x[1], list[x[2]])]
           Body(g, z) == IF z = {} THEN base ELSE SweepStep(g[z \ {Max(z)}], list[Max(z)])
<1>2. base \in SweepState
  BY DEF SweepState, Fresh
<1>3. step \in [SweepState \X (1..n) -> SweepState]
  <2>1. ASSUME NEW x \in SweepState \X (1..n) PROVE SweepStep(x[1], list[x[2]]) \in SweepState
    <3>1. x[1] \in SweepState /\ list[x[2]] \in Constraints
      BY <1>1
    <3> QED BY <3>1, SweepStepStays
  <2> QED BY <2>1
<1>4. \A t \in SweepState, i \in 1..n : step[<<t, i>>] = SweepStep(t, list[i])
  OBVIOUS
<1> HIDE DEF base, step
<1>5. PICK g : IsFold(n, SweepState, base, step, g)
  BY <1>2, <1>3, FoldSteps
<1>6. g \in [SUBSET (1..n) -> SweepState] /\ \A z \in SUBSET (1..n) : g[z] = Next1(base, step, g, z)
  BY <1>5 DEF IsFold
<1>7. g = [z \in SUBSET (1..n) |-> Body(g, z)]
  <2>1. ASSUME NEW z \in SUBSET (1..n) PROVE g[z] = Body(g, z)
    <3>1. CASE z = {}
      BY <1>6, <3>1 DEF Next1
    <3>2. CASE z # {}
      <4>1. PICK m, r : m = Max(z) /\ r = z \ {m}
        OBVIOUS
      <4>2. m \in 1..n /\ r \in SUBSET (1..n)
        BY <3>2, <4>1, SubsetsOfFirst
      <4>3. g[z] = step[<<g[r], m>>]
        BY <1>6, <3>2, <4>1 DEF Next1
      <4> QED BY <1>4, <1>6, <3>2, <4>1, <4>2, <4>3
    <3> QED BY <3>1, <3>2
  <2>2. g = [z \in SUBSET (1..n) |-> g[z]]
    BY <1>6
  <2> HIDE DEF Body
  <2> QED BY <2>1, <2>2
<1>8. f = [z \in SUBSET (1..n) |-> Body(f, z)]
  <2>1. f = CHOOSE iter : iter = [z \in SUBSET (1..n) |-> Body(iter, z)]
    BY <1>1 DEF SketchSweepFold, base
  <2> HIDE DEF f, Body
  <2> QED BY <1>7, <2>1
<1> HIDE DEF f
<1>9. GoesAsFold(n, SweepState, base, step, f)
  <2>1. f[{}] = base
    BY <1>8
  <2>2. ASSUME NEW z \in SUBSET (1..n), z # {}, f[z \ {Max(z)}] \in SweepState PROVE f[z] = step[<<f[z \ {Max(z)}], Max(z)>>]
    <3>1. PICK m, r : m = Max(z) /\ r = z \ {m}
      OBVIOUS
    <3>2. m \in 1..n /\ r \in SUBSET (1..n)
      BY <2>2, <3>1, SubsetsOfFirst
    <3>3. f[z] = SweepStep(f[r], list[m])
      BY <1>8, <2>2, <3>1
    <3> QED BY <1>4, <2>2, <3>1, <3>2, <3>3
  <2> QED BY <2>1, <2>2 DEF GoesAsFold
<1>10. AdvancesBy(n, SweepState, base, step, f)
  BY <1>2, <1>3, <1>9, FoldStates
<1>11. f[1..0] = base /\ (\A i \in 1..n : f[1..i] = step[<<f[1..(i - 1)], i>>]) /\ (\A i \in 0..n : f[1..i] \in SweepState)
  BY <1>10 DEF AdvancesBy
<1> DEFINE Good == {i \in Nat : i <= n => (Clean(f[1..i]) => f[1..i].points = p /\ \A j \in 1..i : ConstraintHoldsAt(p, list[j]))}
<1>12. 0 \in Good
  <2>1. f[1..0].points = p
    BY <1>11 DEF base, Fresh
  <2> QED BY <2>1
<1>13. ASSUME NEW i \in Nat, i \in Good PROVE i + 1 \in Good
  <2>1. ASSUME i + 1 <= n, Clean(f[1..(i + 1)]) PROVE f[1..(i + 1)].points = p /\ \A j \in 1..(i + 1) : ConstraintHoldsAt(p, list[j])
    <3>1. i + 1 \in 1..n /\ (i + 1) - 1 = i /\ i <= n /\ i \in 0..n
      BY <2>1
    <3>2. PICK s \in SweepState : s = f[1..i]
      BY <1>11, <3>1
    <3>3. f[1..(i + 1)] = step[<<f[1..((i + 1) - 1)], i + 1>>]
      BY <1>11, <3>1
    <3>4. f[1..(i + 1)] = SweepStep(s, list[i + 1])
      BY <1>4, <3>1, <3>2, <3>3
    <3>5. Clean(s) /\ f[1..(i + 1)].points = s.points /\ ConstraintHoldsAt(s.points, list[i + 1])
      <4>1. list[i + 1] \in Constraints
        BY <1>1, <3>1
      <4> QED BY <2>1, <3>4, <4>1, SweepStepStays
    <3>6. s.points = p /\ \A j \in 1..i : ConstraintHoldsAt(p, list[j])
      BY <1>13, <3>1, <3>2, <3>5
    <3>7. \A j \in 1..(i + 1) : j \in 1..i \/ j = i + 1
      OBVIOUS
    <3> QED BY <3>5, <3>6, <3>7
  <2> QED BY <2>1
<1>14. \A i \in Nat : i \in Good
  <2> HIDE DEF Good
  <2>1. \A i \in Nat : i \in Good => i + 1 \in Good
    BY <1>13
  <2> QED BY <1>12, <2>1, InductionOverSet
<1>15. Clean(f[1..n]) => f[1..n].points = p /\ \A j \in 1..n : ConstraintHoldsAt(p, list[j])
  BY <1>14
<1>16. f[1..n] \in SweepState
  BY <1>11
<1> QED BY <1>1, <1>15, <1>16, SMTT(25) DEF f, AllHold

SolveState == [points: Spots, residual: Nat, exact: BOOLEAN, turned: BOOLEAN, converged: BOOLEAN]

\* A sweep of solve() that converges leaves every constraint holding, but for a
\* segment that was turned.
LEMMA SolveStepStays ==
  ASSUME NEW list \in Seq(Constraints), NEW s \in SolveState, s.converged /\ ~s.turned => AllHold(s.points, list)
  PROVE  SketchSolveStep(s, list) \in SolveState /\ (SketchSolveStep(s, list).converged /\ ~SketchSolveStep(s, list).turned => AllHold(SketchSolveStep(s, list).points, list))
<1>1. CASE s.converged \/ ~s.exact
  BY <1>1 DEF SketchSolveStep
<1>2. CASE ~(s.converged \/ ~s.exact)
  <2>1. s.points \in Spots
    BY DEF SolveState
  <2>2. PICK t : t = SketchSweepFold(s.points, list)[DOMAIN list]
    OBVIOUS
  <2>3. t \in SweepState /\ (Clean(t) => AllHold(t.points, list))
    BY <2>1, <2>2, SweepsWell
  <2>4. t.points \in Spots /\ t.residual \in Nat /\ t.exact \in BOOLEAN /\ t.turned \in BOOLEAN
    BY <2>3 DEF SweepState
  <2> DEFINE done == t.exact /\ t.residual = 0
  <2>5. SketchSolveStep(s, list) = [points |-> t.points, residual |-> t.residual, exact |-> t.exact, turned |-> t.turned, converged |-> done]
    BY <1>2, <2>2 DEF SketchSolveStep
  <2>6. done \in BOOLEAN /\ (done /\ ~t.turned => Clean(t))
    BY <2>4 DEF Clean
  <2> HIDE DEF done
  <2>7. SketchSolveStep(s, list) \in SolveState
    BY <2>4, <2>5, <2>6 DEF SolveState
  <2>8. SketchSolveStep(s, list).converged = done /\ SketchSolveStep(s, list).turned = t.turned /\ SketchSolveStep(s, list).points = t.points
    BY <2>5
  <2> QED BY <2>3, <2>6, <2>7, <2>8
<1> QED BY <1>1, <1>2

\* What solve() answers, for any number of sweeps.
LEMMA SolvesWell ==
  ASSUME NEW list \in Seq(Constraints), NEW p \in Spots
  PROVE  /\ Solved(p, list) \in SolveState
         /\ Solved(p, list).converged /\ ~Solved(p, list).turned => AllHold(Solved(p, list).points, list)
<1> DEFINE D == DOMAIN [i \in 1..MaxIters |-> i]
           States == {s \in SolveState : s.converged /\ ~s.turned => AllHold(s.points, list)}
           base == Unsolved(p)
           step == [x \in States \X (1..MaxIters) |-> SketchSolveStep(x[1], list)]
           Body(g, z) == IF z = {} THEN base ELSE SketchSolveStep(g[z \ {Max(z)}], list)
           f == SketchSolveFold(p, list)
<1>1. PICK n \in Nat : n = MaxIters /\ D = 1..n
  BY SketchAssumption
<1>2. base \in States
  BY DEF SolveState, Unsolved
<1>3. \A s \in States : SketchSolveStep(s, list) \in States
  BY SolveStepStays
<1> HIDE DEF States, base
<1>4. step \in [States \X (1..n) -> States]
  BY <1>1, <1>3
<1>5. \A t \in States, i \in 1..n : step[<<t, i>>] = SketchSolveStep(t, list)
  BY <1>1
<1> HIDE DEF step
<1>6. PICK g : IsFold(n, States, base, step, g)
  BY <1>2, <1>4, FoldSteps
<1>7. g \in [SUBSET (1..n) -> States] /\ \A z \in SUBSET (1..n) : g[z] = Next1(base, step, g, z)
  BY <1>6 DEF IsFold
<1>8. g = [z \in SUBSET (1..n) |-> Body(g, z)]
  <2>1. ASSUME NEW z \in SUBSET (1..n) PROVE g[z] = Body(g, z)
    <3>1. CASE z = {}
      BY <1>7, <3>1 DEF Next1
    <3>2. CASE z # {}
      <4>1. PICK m, r : m = Max(z) /\ r = z \ {m}
        OBVIOUS
      <4>2. m \in 1..n /\ r \in SUBSET (1..n)
        BY <3>2, <4>1, SubsetsOfFirst
      <4>3. g[z] = step[<<g[r], m>>]
        BY <1>7, <3>2, <4>1 DEF Next1
      <4> QED BY <1>5, <1>7, <3>2, <4>1, <4>2, <4>3
    <3> QED BY <3>1, <3>2
  <2>2. g = [z \in SUBSET (1..n) |-> g[z]]
    BY <1>7
  <2> HIDE DEF Body
  <2> QED BY <2>1, <2>2
<1>9. f = [z \in SUBSET (1..n) |-> Body(f, z)]
  <2>1. f = CHOOSE iter : iter = [z \in SUBSET D |-> Body(iter, z)]
    BY DEF SketchSolveFold, base
  <2>2. f = CHOOSE iter : iter = [z \in SUBSET (1..n) |-> Body(iter, z)]
    BY <1>1, <2>1
  <2> HIDE DEF f, Body
  <2> QED BY <1>8, <2>2
<1> HIDE DEF f
<1>10. GoesAsFold(n, States, base, step, f)
  <2>1. f[{}] = base
    BY <1>9
  <2>2. ASSUME NEW z \in SUBSET (1..n), z # {}, f[z \ {Max(z)}] \in States PROVE f[z] = step[<<f[z \ {Max(z)}], Max(z)>>]
    <3>1. PICK m, r : m = Max(z) /\ r = z \ {m}
      OBVIOUS
    <3>2. m \in 1..n /\ r \in SUBSET (1..n)
      BY <2>2, <3>1, SubsetsOfFirst
    <3>3. f[z] = SketchSolveStep(f[r], list)
      BY <1>9, <2>2, <3>1
    <3> QED BY <1>5, <2>2, <3>1, <3>2, <3>3
  <2> QED BY <2>1, <2>2 DEF GoesAsFold
<1>11. AdvancesBy(n, States, base, step, f)
  BY <1>2, <1>4, <1>10, FoldStates
<1>12. f[1..n] \in States
  BY <1>11 DEF AdvancesBy
<1>13. Solved(p, list) = f[1..n]
  <2>1. Solved(p, list) = SketchSolveFold(p, list)[D]
    BY SketchSolveIsAFold
  <2> QED BY <1>1, <2>1 DEF f
<1> QED BY <1>12, <1>13 DEF States

SolverInv ==
  /\ points \in Spots /\ constraints \in Seq(Constraints)
  /\ stats.converged /\ ~stats.turned => AllHold(points, constraints)

\* A sketch starts with no constraints and nothing solved.
LEMMA SolverInitInv == SolverInit => SolverInv
BY SketchAssumption DEF SolverInit, SolverInv, Spots, Spot, NoStats

\* Adding a constraint, dragging a point and solving keep the invariant.
LEMMA SolverNextInv == ASSUME SolverInv, [SolverNext]_solverVars PROVE SolverInv'
<1>1. ASSUME NEW c \in Constraints, AddConstraint(c) PROVE SolverInv'
  BY <1>1 DEF AddConstraint, SolverInv, NoStats
<1>2. ASSUME NEW id \in Dragged, NEW to \in Places, MovePoint(id, to) PROVE SolverInv'
  <2>1. to \in Spot
    BY SketchAssumption DEF Spot
  <2> QED BY <1>2, <2>1 DEF MovePoint, SolverInv, NoStats, Spots
<1>3. ASSUME Solve PROVE SolverInv'
  <2>1. points \in Spots /\ constraints \in Seq(Constraints)
    BY DEF SolverInv
  <2>2. PICK s : s = Solved(points, constraints)
    OBVIOUS
  <2>3. s \in SolveState /\ (s.converged /\ ~s.turned => AllHold(s.points, constraints))
    BY <2>1, <2>2, SolvesWell
  <2>4. /\ points' = [id \in VertexId |-> s.points[id]] /\ constraints' = constraints
        /\ stats' = [residual |-> s.residual, converged |-> s.converged, turned |-> s.turned]
    BY <1>3, <2>2 DEF Solve
  <2>5. s.points \in Spots
    BY <2>3 DEF SolveState
  <2>6. points' = s.points
    BY <2>4, <2>5 DEF Spots
  <2>7. stats'.converged = s.converged /\ stats'.turned = s.turned
    BY <2>4
  <2> QED BY <2>1, <2>3, <2>4, <2>5, <2>6, <2>7 DEF SolverInv
<1>4. ASSUME UNCHANGED solverVars PROVE SolverInv'
  BY <1>4 DEF solverVars, SolverInv
<1> QED BY <1>1, <1>2, <1>3, <1>4 DEF SolverNext

\* The property follows from the invariant.
LEMMA InvGivesSolved == SolverInv => SolvedUnlessTurned
<1>1. \A c : ConstraintHoldsAt(points, c) = Holds(c)
  BY Zenon DEF ConstraintHoldsAt, Holds
<1> QED BY <1>1 DEF SolverInv, SolvedUnlessTurned, ConvergedMeansSolved, AllHold

\* When solve() says that it converged every constraint holds, whatever the
\* projections did to each other's points and wherever points were dragged before,
\* unless it turned a segment without a residual: for any points, constraints and
\* numbers of sweeps (constraint.rs, solve() and apply_constraint()).
THEOREM ConvergedIsSolved == SolverSpec => []SolvedUnlessTurned
<1>1. SolverInv /\ [SolverNext]_solverVars => SolverInv'
  BY SolverNextInv
<1> QED BY SolverInitInv, InvGivesSolved, <1>1, PTL DEF SolverSpec

--------------------------------------------------------------------------
(* The edges that are rounded (edges.rs).                                   *)

\* Two sequences whose first k parts are the same are put together the same.
Alike(s, t, k) == k <= Len(s) /\ k <= Len(t) /\ \A i \in 1..k : s[i] = t[i]
AlikeSoFar(st, tt, k) == \A i \in 0..k : st[i] = tt[i]

\* They pass through the same.
LEMMA RunsAgree ==
  ASSUME NEW S, NEW s \in Seq(Seq(S)), NEW t \in Seq(Seq(S)), NEW k \in Nat, Alike(s, t, k),
         NEW st, NEW tt, Runs(S, s, st), Runs(S, t, tt)
  PROVE  AlikeSoFar(st, tt, k)
<1> USE DEF Alike, AlikeSoFar
<1> DEFINE Same == {i \in Nat : i <= k => st[i] = tt[i]}
<1>1. PICK n, m \in Nat : n = Len(s) /\ m = Len(t)
  OBVIOUS
<1>2. /\ st[0] = <<>> /\ \A i \in 1..n : st[i] = st[i - 1] \o s[i]
      /\ tt[0] = <<>> /\ \A i \in 1..m : tt[i] = tt[i - 1] \o t[i]
  BY <1>1 DEF Runs
<1>3. 0 \in Same
  BY <1>2
<1>4. ASSUME NEW i \in Nat, i \in Same PROVE i + 1 \in Same
  <2>1. ASSUME i + 1 <= k PROVE st[i + 1] = tt[i + 1]
    <3>1. i + 1 \in 1..n /\ i + 1 \in 1..m /\ i + 1 \in 1..k /\ (i + 1) - 1 = i /\ i <= k
      BY <1>1, <2>1
    <3>2. st[i + 1] = st[i] \o s[i + 1] /\ tt[i + 1] = tt[i] \o t[i + 1]
      BY <1>2, <3>1
    <3> QED BY <1>4, <3>1, <3>2
  <2> QED BY <2>1
<1>5. \A i \in Nat : i \in Same
  <2> HIDE DEF Same
  <2>1. \A i \in Nat : i \in Same => i + 1 \in Same
    BY <1>4
  <2> QED BY <1>3, <2>1, InductionOverSet
<1> QED BY <1>5

\* The elements of two sequences, one after the other.
LEMMA SetOfConcat ==
  ASSUME NEW S, NEW s \in Seq(S), NEW t \in Seq(S)
  PROVE  ToSet(s \o t) = ToSet(s) \cup ToSet(t)
<1>1. \A f : ToSet(f) = Range(f)
  BY Zenon DEF ToSet, Range
<1> QED BY ONLY <1>1, RangeConcatenation

\* The elements of a sequence with one more.
LEMMA SetOfAppend ==
  ASSUME NEW S, NEW s \in Seq(S), NEW x \in S
  PROVE  /\ Append(s, x) \in Seq(S) /\ Len(Append(s, x)) = Len(s) + 1
         /\ ToSet(Append(s, x)) = ToSet(s) \cup {x}
<1>1. Append(s, x) = s \o <<x>> /\ <<x>> \in Seq(S)
  BY AppendIsConcat
<1>2. ToSet(<<x>>) = {x}
  BY DEF ToSet
<1>3. ToSet(s \o <<x>>) = ToSet(s) \cup ToSet(<<x>>)
  BY <1>1, SetOfConcat, ZenonT(30)
<1>4. ToSet(Append(s, x)) = ToSet(s) \cup {x}
  BY ONLY <1>1, <1>2, <1>3
<1> QED BY <1>4, AppendProperties

\* The same for numbers.
AppendAdds(s, x) == Append(s, x) \in Seq(Int) /\ ToSet(Append(s, x)) = ToSet(s) \cup {x}

\* Appending a number adds it.
LEMMA NumbersAppend ==
  ASSUME NEW s \in Seq(Int), NEW x \in Int
  PROVE  AppendAdds(s, x)
<1>1. PICK S : S = Int
  OBVIOUS
<1>2. s \in Seq(S) /\ x \in S
  BY <1>1
<1>3. Append(s, x) \in Seq(S) /\ ToSet(Append(s, x)) = ToSet(s) \cup {x}
  BY ONLY <1>2, SetOfAppend
<1> QED BY <1>1, <1>3 DEF AppendAdds

\* A sequence has no more elements than places.
LEMMA SetOfSeq ==
  ASSUME NEW S, NEW s \in Seq(S)
  PROVE  IsFiniteSet(ToSet(s)) /\ Cardinality(ToSet(s)) <= Len(s) /\ Cardinality(ToSet(s)) \in Nat
<1>1. DOMAIN s = 1..Len(s) /\ Len(s) \in Nat
  OBVIOUS
<1>2. IsFiniteSet(1..Len(s)) /\ Cardinality(1..Len(s)) = Len(s)
  BY <1>1, FS_Interval
<1>3. s \in Surjection(1..Len(s), ToSet(s))
  <2>1. s \in [1..Len(s) -> ToSet(s)]
    BY <1>1 DEF ToSet
  <2> QED BY <1>1, <2>1 DEF Surjection, ToSet
<1>4. IsFiniteSet(ToSet(s)) /\ Cardinality(ToSet(s)) <= Cardinality(1..Len(s))
  BY <1>2, <1>3, FS_Surjection
<1> QED BY <1>2, <1>4, FS_CardinalityType

\* A sequence that has one more element.
Lengthened(p, q, x) == Len(q) = Len(p) + 1 /\ ToSet(q) = ToSet(p) \cup {x}

\* One more part, at the end.
LEMMA FlattenAppends ==
  ASSUME NEW S, NEW s \in Seq(Seq(S)), NEW b \in Seq(S)
  PROVE  FlattenSeq(Append(s, b)) = FlattenSeq(s) \o b
<1>1. PICK t \in Seq(Seq(S)) : t = Append(s, b)
  BY AppendProperties
<1>2. PICK n \in Nat : n = Len(s)
  OBVIOUS
<1>3. Len(t) = n + 1 /\ t[n + 1] = b /\ \A i \in 1..n : t[i] = s[i]
  BY <1>1, <1>2, AppendProperties
<1>4. PICK st, tt : Runs(S, s, st) /\ Runs(S, t, tt)
  BY FlattenRuns
<1>5. tt[n] = st[n]
  <2>1. Alike(s, t, n)
    BY <1>2, <1>3 DEF Alike
  <2>2. AlikeSoFar(st, tt, n)
    BY <1>2, <1>4, <2>1, RunsAgree
  <2> QED BY <2>2 DEF AlikeSoFar
<1>6. tt[n + 1] = tt[n] \o b
  <2>0. n + 1 \in 1..(n + 1) /\ (n + 1) - 1 = n
    BY <1>2
  <2>1. n + 1 \in 1..Len(t) /\ (n + 1) - 1 = n
    BY ONLY <1>3, <2>0
  <2>2. tt[n + 1] = tt[(n + 1) - 1] \o t[n + 1]
    BY <1>4, <2>1 DEF Runs
  <2> QED BY <1>3, <2>1, <2>2
<1> QED BY <1>1, <1>2, <1>3, <1>4, <1>5, <1>6 DEF Runs

\* One more element, at the end of a part.
LEMMA FlattenGrows ==
  ASSUME NEW S, NEW s \in Seq(Seq(S)), NEW b \in 1..Len(s), NEW x \in S,
         NEW t, t = [s EXCEPT ![b] = Append(@, x)]
  PROVE  t \in Seq(Seq(S)) /\ Lengthened(FlattenSeq(s), FlattenSeq(t), x)
<1>1. PICK n \in Nat : n = Len(s) /\ \A i \in 1..n : s[i] \in Seq(S)
  <2>1. Len(s) \in Nat /\ \A i \in 1..Len(s) : s[i] \in Seq(S)
    OBVIOUS
  <2> QED BY ONLY <2>1
<1>2. PICK a \in Seq(S) : a = Append(s[b], x)
  BY <1>1, AppendProperties
<1>3. t \in Seq(Seq(S)) /\ Len(t) = n /\ t[b] = a /\ \A i \in 1..n : i # b => t[i] = s[i]
  <2>1. t = [s EXCEPT ![b] = a]
    BY <1>2
  <2>2. t \in Seq(Seq(S)) /\ Len(t) = Len(s)
    BY <2>1, ExceptSeq
  <2> QED BY <1>1, <2>1, <2>2
<1>4. Lengthened(s[b], a, x)
  BY <1>1, <1>2, SetOfAppend DEF Lengthened
<1>5. PICK st, tt : Runs(S, s, st) /\ Runs(S, t, tt)
  BY <1>3, FlattenRuns
<1>6. /\ \A i \in 1..n : st[i] = st[i - 1] \o s[i] /\ tt[i] = tt[i - 1] \o t[i]
      /\ \A i \in 0..n : st[i] \in Seq(S) /\ tt[i] \in Seq(S)
  BY <1>1, <1>3, <1>5 DEF Runs
<1>7. b \in 1..n /\ b - 1 \in Nat /\ b - 1 \in 0..n
  BY <1>1
<1>8. \A i \in 0..(b - 1) : st[i] = tt[i]
  <2>1. Alike(s, t, b - 1)
    BY <1>1, <1>3, <1>7 DEF Alike
  <2>2. AlikeSoFar(st, tt, b - 1)
    BY <1>3, <1>5, <1>7, <2>1, RunsAgree
  <2> QED BY <2>2 DEF AlikeSoFar
<1> DEFINE Good == {i \in Nat : i >= b /\ i <= n => Lengthened(st[i], tt[i], x)}
<1>9. \A p, q, r, e \in Seq(S) : /\ Lengthened(q, r, x) => Lengthened(p \o q, p \o r, x)
                                 /\ Lengthened(p, r, x) => Lengthened(p \o q, r \o q, x)
  <2> SUFFICES ASSUME NEW p \in Seq(S), NEW q \in Seq(S), NEW r \in Seq(S)
               PROVE  /\ Lengthened(q, r, x) => Lengthened(p \o q, p \o r, x)
                      /\ Lengthened(p, r, x) => Lengthened(p \o q, r \o q, x)
    OBVIOUS
  <2>1. /\ ToSet(p \o q) = ToSet(p) \cup ToSet(q) /\ ToSet(p \o r) = ToSet(p) \cup ToSet(r)
        /\ ToSet(r \o q) = ToSet(r) \cup ToSet(q)
    BY SetOfConcat
  <2>2. Len(p \o q) = Len(p) + Len(q) /\ Len(p \o r) = Len(p) + Len(r) /\ Len(r \o q) = Len(r) + Len(q)
    BY ConcatProperties
  <2>3. Len(p) \in Nat /\ Len(q) \in Nat /\ Len(r) \in Nat
    OBVIOUS
  <2>4. ToSet(r) = ToSet(q) \cup {x} => ToSet(p \o r) = ToSet(p \o q) \cup {x}
    BY ONLY <2>1
  <2>5. ToSet(r) = ToSet(p) \cup {x} => ToSet(r \o q) = ToSet(p \o q) \cup {x}
    BY ONLY <2>1
  <2>6. /\ Len(r) = Len(q) + 1 => Len(p \o r) = Len(p \o q) + 1
        /\ Len(r) = Len(p) + 1 => Len(r \o q) = Len(p \o q) + 1
    <3>1. \A i, j, k \in Nat : (k = j + 1 => i + k = (i + j) + 1) /\ (k = i + 1 => k + j = (i + j) + 1)
      OBVIOUS
    <3>2. Len(r) = Len(q) + 1 => Len(p) + Len(r) = (Len(p) + Len(q)) + 1
      BY <2>3, <3>1, Zenon
    <3>3. Len(r) = Len(p) + 1 => Len(r) + Len(q) = (Len(p) + Len(q)) + 1
      BY <2>3, <3>1, Zenon
    <3> QED BY <2>2, <3>2, <3>3, Zenon
  <2> QED BY ONLY <2>4, <2>5, <2>6 DEF Lengthened
<1>10. 0 \in Good
  BY <1>7
<1>11. ASSUME NEW i \in Nat, i \in Good PROVE i + 1 \in Good
  <2>1. ASSUME i + 1 >= b, i + 1 <= n PROVE Lengthened(st[i + 1], tt[i + 1], x)
    <3>1. i + 1 \in 1..n /\ (i + 1) - 1 = i /\ i \in 0..n /\ i <= n
      BY <2>1
    <3>2. st[i + 1] = st[i] \o s[i + 1] /\ tt[i + 1] = tt[i] \o t[i + 1]
      BY <1>6, <3>1
    <3>3. st[i] \in Seq(S) /\ tt[i] \in Seq(S) /\ s[i + 1] \in Seq(S) /\ t[i + 1] \in Seq(S)
      BY <1>1, <1>3, <1>6, <3>1
    <3>4. CASE i + 1 = b
      <4>1. st[i] = tt[i]
        <5>1. i \in 0..(b - 1)
          BY <1>7, <3>4
        <5> QED BY ONLY <1>8, <5>1
      <4>2. Lengthened(s[i + 1], t[i + 1], x)
        BY <1>3, <1>4, <3>4
      <4> QED BY <1>9, <3>2, <3>3, <4>1, <4>2
    <3>5. CASE i + 1 # b
      <4>1. i >= b /\ t[i + 1] = s[i + 1]
        BY <1>3, <1>7, <2>1, <3>1, <3>5
      <4>2. Lengthened(st[i], tt[i], x)
        BY <1>11, <3>1, <4>1
      <4> QED BY <1>9, <3>2, <3>3, <4>1, <4>2
    <3> QED BY <3>4, <3>5
  <2> QED BY <2>1
<1>12. \A i \in Nat : i \in Good
  <2> HIDE DEF Good
  <2>1. \A i \in Nat : i \in Good => i + 1 \in Good
    BY <1>11
  <2> QED BY <1>10, <2>1, InductionOverSet
<1>13. Lengthened(st[n], tt[n], x)
  <2>1. n \in Nat /\ n >= b /\ n <= n
    BY <1>7
  <2> QED BY <1>12, <2>1
<1> QED BY <1>1, <1>3, <1>5, <1>13 DEF Runs

\* Three sequences, one after the other.
LEMMA Regrouped ==
  ASSUME NEW S, NEW a \in Seq(S), NEW b \in Seq(S), NEW c \in Seq(S)
  PROVE  (a \o b) \o c = a \o (b \o c)
BY ConcatAssociative

\* The first part, and the rest.
LEMMA FlattenHead ==
  ASSUME NEW S, NEW s \in Seq(Seq(S)), s # <<>>
  PROVE  FlattenSeq(s) = Head(s) \o FlattenSeq(Tail(s)) /\ FlattenSeq(Tail(s)) \in Seq(S)
<1>1. PICK n \in Nat : n = Len(s) /\ n >= 1
  <2>1. Len(s) \in Nat /\ Len(s) # 0
    BY EmptySeq
  <2> QED BY <2>1
<1>2. PICK h \in Seq(S) : h = Head(s) /\ h = s[1]
  BY <1>1, HeadTailProperties
<1>3. PICK t \in Seq(Seq(S)) : t = Tail(s)
  BY <1>1, HeadTailProperties
<1>4. Len(t) = n - 1 /\ \A i \in 1..(n - 1) : t[i] = s[i + 1]
  BY <1>1, <1>3, HeadTailProperties
<1>5. PICK st, tt : Runs(S, s, st) /\ Runs(S, t, tt)
  BY FlattenRuns
<1>6. /\ st[0] = <<>> /\ tt[0] = <<>>
      /\ \A i \in 1..n : st[i] = st[i - 1] \o s[i]
      /\ \A i \in 1..(n - 1) : tt[i] = tt[i - 1] \o t[i]
      /\ \A i \in 0..(n - 1) : tt[i] \in Seq(S)
      /\ \A i \in 1..n : s[i] \in Seq(S)
      /\ \A i \in 1..(n - 1) : t[i] \in Seq(S)
  <2>1. \A i \in 1..Len(s) : s[i] \in Seq(S)
    OBVIOUS
  <2>2. \A i \in 1..Len(t) : t[i] \in Seq(S)
    OBVIOUS
  <2> QED BY <1>1, <1>4, <1>5, <2>1, <2>2 DEF Runs
<1> DEFINE Good == {i \in Nat : i <= n - 1 => st[i + 1] = h \o tt[i]}
<1>7. 0 \in Good
  <2>0. 1 \in 1..n /\ 1 - 1 = 0
    BY <1>1
  <2>1. st[1] = st[1 - 1] \o s[1]
    BY ONLY <1>6, <2>0
  <2>2. st[1] = h /\ h \o tt[0] = h
    BY <1>2, <1>6, <2>0, <2>1, ConcatEmptySeq
  <2> QED BY <2>2
<1>8. ASSUME NEW i \in Nat, i \in Good PROVE i + 1 \in Good
  <2>1. ASSUME i + 1 <= n - 1 PROVE st[(i + 1) + 1] = h \o tt[i + 1]
    <3>1. (i + 1) + 1 \in 1..n /\ ((i + 1) + 1) - 1 = i + 1 /\ i + 1 \in 1..(n - 1) /\ (i + 1) - 1 = i /\ i <= n - 1 /\ i \in 0..(n - 1)
      BY <1>1, <2>1
    <3>2. st[(i + 1) + 1] = st[i + 1] \o s[(i + 1) + 1]
      BY <1>6, <3>1
    <3>3. st[i + 1] = h \o tt[i] /\ s[(i + 1) + 1] = t[i + 1]
      BY <1>4, <1>8, <3>1
    <3>4. tt[i + 1] = tt[i] \o t[i + 1] /\ tt[i] \in Seq(S) /\ t[i + 1] \in Seq(S)
      BY <1>6, <3>1
    <3>5. (h \o tt[i]) \o t[i + 1] = h \o (tt[i] \o t[i + 1])
      <4>1. PICK u, v \in Seq(S) : u = tt[i] /\ v = t[i + 1]
        BY ONLY <3>4
      <4>2. (h \o u) \o v = h \o (u \o v)
        <5> HIDE DEF Good
        <5>1. h \in Seq(S) /\ u \in Seq(S) /\ v \in Seq(S)
          BY <1>2
        <5> QED BY ONLY SMTT(30), <5>1, Regrouped
      <4> QED BY ONLY <4>1, <4>2
    <3> QED BY ONLY <3>2, <3>3, <3>4, <3>5
  <2> QED BY <2>1
<1>9. \A i \in Nat : i \in Good
  <2> HIDE DEF Good
  <2>1. \A i \in Nat : i \in Good => i + 1 \in Good
    BY <1>8
  <2> QED BY <1>7, <2>1, InductionOverSet
<1>10. st[n] = h \o tt[n - 1] /\ tt[n - 1] \in Seq(S)
  <2>1. n - 1 \in Nat /\ (n - 1) + 1 = n /\ n - 1 \in 0..(n - 1) /\ n - 1 <= n - 1
    BY <1>1
  <2>2. n - 1 \in Good
    BY <1>9, <2>1
  <2>3. st[(n - 1) + 1] = h \o tt[n - 1]
    BY <2>1, <2>2
  <2> QED BY <1>6, <2>1, <2>3
<1> QED BY <1>1, <1>2, <1>3, <1>4, <1>5, <1>10 DEF Runs
\* What the loop of the tools makes of one more edge.
ToolStep(all, picked, made, i) ==
  IF /\ Len(made) < EdgeBudget /\ i \in Selection(all, picked)
     /\ IsRoundable(all[i]) /\ all[i].framed /\ all[i].tooled
  THEN Append(made, i) ELSE made

ToolFold(all, picked) ==
  CHOOSE iter : iter = [z \in SUBSET (DOMAIN [i \in DOMAIN all |-> i]) |->
                          IF z = {} THEN <<>> ELSE ToolStep(all, picked, iter[z \ {Max(z)}], [i \in DOMAIN all |-> i][Max(z)])]

\* The loop of chamfer_edges() and fillet_edges() as a fold of its step.
LEMMA ToolsIsAFold ==
  ASSUME NEW all, NEW picked
  PROVE  Tools(all, picked) = ToolFold(all, picked)[DOMAIN [i \in DOMAIN all |-> i]]
BY Zenon DEF Tools, FoldLeft, MapThenFoldSet, ToolFold, ToolStep

\* What a tool joins, and what batch_tools() makes of it.
Joinable(all, done, tool) == {b \in DOMAIN done : \A i \in DOMAIN done[b] : Disjoint(all[done[b][i]], all[tool])}

BatchStep(all, done, tool) ==
  IF Joinable(all, done, tool) = {} THEN Append(done, <<tool>>)
  ELSE [done EXCEPT ![CHOOSE b \in Joinable(all, done, tool) : \A c \in Joinable(all, done, tool) : b <= c] = Append(@, tool)]

BatchFold(all, list) ==
  CHOOSE iter : iter = [z \in SUBSET (DOMAIN list) |-> IF z = {} THEN <<>> ELSE BatchStep(all, iter[z \ {Max(z)}], list[Max(z)])]

\* batch_tools() as a fold of its step.
LEMMA BatchesIsAFold ==
  ASSUME NEW all, NEW list
  PROVE  Batches(all, list) = BatchFold(all, list)[DOMAIN list]
BY Zenon DEF Batches, FoldLeft, MapThenFoldSet, BatchFold, BatchStep, Joinable

\* The edges that the call asks for and that can be rounded.
AbleOf(all, picked) == {i \in Selection(all, picked) : all[i].kind = "Convex" /\ all[i].framed /\ all[i].tooled}

\* The tools made of the first k edges: one of each edge that is able, or the
\* budget of them, all before those that have none.
FirstsOf(able, made) == \A i \in ToSet(made), j \in able \ ToSet(made) : i < j

MadeOf(all, picked, k, made) ==
  /\ made \in Seq(Int) /\ Len(made) <= EdgeBudget
  /\ Cardinality(ToSet(made)) = Len(made)
  /\ ToSet(made) \subseteq AbleOf(all, picked) \cap 1..k
  /\ \/ ToSet(made) = AbleOf(all, picked) \cap 1..k
     \/ Len(made) = EdgeBudget /\ FirstsOf(AbleOf(all, picked) \cap 1..k, made)

\* One more edge: it gets a tool if it is able and the budget allows it.
LEMMA ToolMade ==
  ASSUME NEW all, NEW picked, NEW k \in Nat, NEW made, MadeOf(all, picked, k, made)
  PROVE  MadeOf(all, picked, k + 1, ToolStep(all, picked, made, k + 1))
<1> DEFINE able == AbleOf(all, picked)
           i == k + 1
<1>1. made \in Seq(Int) /\ Len(made) \in Nat /\ EdgeBudget \in Nat /\ Len(made) <= EdgeBudget
  BY RoundingAssumption DEF MadeOf
<1>2. /\ Cardinality(ToSet(made)) = Len(made) /\ ToSet(made) \subseteq able \cap 1..k
      /\ ToSet(made) = able \cap 1..k \/ (Len(made) = EdgeBudget /\ FirstsOf(able \cap 1..k, made))
  BY DEF MadeOf
<1>3. able \cap 1..i = (able \cap 1..k) \cup (IF i \in able THEN {i} ELSE {}) /\ i \notin 1..k /\ i \in Int /\ 1..k \subseteq 1..i
  <2>1. i \notin 1..k /\ i \in 1..i
    OBVIOUS
  <2>2. \A j \in 1..i : j \in 1..k \/ j = i
    OBVIOUS
  <2>3. 1..k \subseteq 1..i
    OBVIOUS
  <2> HIDE DEF able
  <2> QED BY <2>1, <2>2, <2>3
<1>4. i \in able <=> i \in Selection(all, picked) /\ IsRoundable(all[i]) /\ all[i].framed /\ all[i].tooled
  BY DEF AbleOf, IsRoundable
<1>5. CASE Len(made) < EdgeBudget /\ i \in able
  <2>1. PICK more \in Seq(Int) : more = Append(made, i)
    BY <1>1, <1>3, SetOfAppend
  <2>2. ToolStep(all, picked, made, k + 1) = more
    BY <1>4, <1>5, <2>1 DEF ToolStep
  <2>3. Len(more) = Len(made) + 1 /\ ToSet(more) = ToSet(made) \cup {i}
    BY <1>1, <1>3, <2>1, SetOfAppend
  <2>4. ToSet(made) = able \cap 1..k
    BY <1>1, <1>2, <1>5
  <2>5. ToSet(more) = able \cap 1..i
    BY <1>3, <1>5, <2>3, <2>4
  <2>6. Cardinality(ToSet(more)) = Len(more)
    <3>1. i \notin ToSet(made)
      BY <1>3, <2>4
    <3>2. IsFiniteSet(ToSet(made))
      BY <1>1, SetOfSeq
    <3>3. Cardinality(ToSet(made) \cup {i}) = Cardinality(ToSet(made)) + 1
      BY <3>1, <3>2, FS_AddElement
    <3> QED BY <1>2, <2>3, <3>3
  <2>7. Len(more) <= EdgeBudget
    BY <1>1, <1>5, <2>3
  <2> HIDE DEF able
  <2> QED BY <2>2, <2>5, <2>6, <2>7 DEF MadeOf, able
<1>6. CASE ~(Len(made) < EdgeBudget /\ i \in able)
  <2>1. ToolStep(all, picked, made, k + 1) = made
    BY <1>4, <1>6 DEF ToolStep
  <2>2. ToSet(made) \subseteq able \cap 1..i
    BY <1>2, <1>3
  <2>3. CASE i \notin able
    <3>1. able \cap 1..i = able \cap 1..k
      BY <1>3, <2>3
    <3> QED BY <1>1, <1>2, <2>1, <3>1 DEF MadeOf
  <2>4. CASE i \in able
    <3>1. Len(made) = EdgeBudget
      BY <1>1, <1>6, <2>4
    <3>2. \A a \in ToSet(made) : a \in Int /\ a < i
      <4>1. \A a \in 1..k : a \in Int /\ a < i
        OBVIOUS
      <4> QED BY <1>2, <4>1
    <3>3. \A a \in ToSet(made), j \in (able \cap 1..k) \ ToSet(made) : a < j
      BY <1>2 DEF FirstsOf
    <3>4. FirstsOf(able \cap 1..i, made)
      <4>1. ASSUME NEW a \in ToSet(made), NEW j \in (able \cap 1..i) \ ToSet(made) PROVE a < j
        <5>1. j \in (able \cap 1..k) \ ToSet(made) \/ j = i
          BY <1>3
        <5> QED BY <3>2, <3>3, <5>1
      <4> QED BY <4>1 DEF FirstsOf
    <3> QED BY <1>1, <1>2, <2>1, <2>2, <3>1, <3>4 DEF MadeOf
  <2> QED BY <2>3, <2>4
<1> QED BY <1>5, <1>6

\* The loop of the tools makes them as it should.
LEMMA ToolsMade ==
  ASSUME NEW all \in Bodies, NEW picked
  PROVE  MadeOf(all, picked, Len(all), Tools(all, picked))
<1> DEFINE list == [i \in DOMAIN all |-> i]
           f == ToolFold(all, picked)
<1>1. PICK n \in Nat : n = Len(all) /\ DOMAIN all = 1..n /\ DOMAIN list = 1..n /\ \A i \in 1..n : list[i] = i
  <2>1. all = [i \in 1..Len(all) |-> all[i]] /\ Len(all) \in Nat
    BY RoundingAssumption
  <2>2. DOMAIN all = 1..Len(all)
    BY <2>1
  <2> QED BY <2>1, <2>2
<1> DEFINE States == Seq(Int)
           step == [x \in States \X (1..n) |-> ToolStep(all, picked, x[1], x[2])]
           Body(g, z) == IF z = {} THEN <<>> ELSE ToolStep(all, picked, g[z \ {Max(z)}], Max(z))
<1>2. PICK base \in States : base = <<>>
  <2>1. <<>> \in States
    OBVIOUS
  <2> QED BY ONLY <2>1
<1>3. step \in [States \X (1..n) -> States]
  <2>1. ASSUME NEW x \in States \X (1..n) PROVE ToolStep(all, picked, x[1], x[2]) \in States
    <3>1. x[1] \in Seq(Int) /\ x[2] \in Int
      OBVIOUS
    <3>2. Append(x[1], x[2]) \in Seq(Int)
      BY <3>1
    <3> QED BY <3>1, <3>2 DEF ToolStep
  <2> QED BY <2>1
<1>4. \A t \in States, i \in 1..n : step[<<t, i>>] = ToolStep(all, picked, t, i)
  OBVIOUS
<1> HIDE DEF step, States
<1>5. PICK g : IsFold(n, States, base, step, g)
  BY <1>2, <1>3, FoldSteps
<1>6. g \in [SUBSET (1..n) -> States] /\ \A z \in SUBSET (1..n) : g[z] = Next1(base, step, g, z)
  BY <1>5 DEF IsFold
<1>7. g = [z \in SUBSET (1..n) |-> Body(g, z)]
  <2>1. ASSUME NEW z \in SUBSET (1..n) PROVE g[z] = Body(g, z)
    <3>1. CASE z = {}
      BY <1>2, <1>6, <3>1 DEF Next1
    <3>2. CASE z # {}
      <4>1. PICK m, r : m = Max(z) /\ r = z \ {m}
        OBVIOUS
      <4>2. m \in 1..n /\ r \in SUBSET (1..n)
        BY <3>2, <4>1, SubsetsOfFirst
      <4>3. g[z] = step[<<g[r], m>>]
        BY <1>6, <3>2, <4>1 DEF Next1
      <4> QED BY <1>4, <1>6, <3>2, <4>1, <4>2, <4>3
    <3> QED BY <3>1, <3>2
  <2>2. g = [z \in SUBSET (1..n) |-> g[z]]
    BY <1>6
  <2> HIDE DEF Body
  <2> QED BY <2>1, <2>2
<1>8. f = [z \in SUBSET (1..n) |-> Body(f, z)]
  <2> DEFINE Form(h, z) == IF z = {} THEN <<>> ELSE ToolStep(all, picked, h[z \ {Max(z)}], list[Max(z)])
  <2>1. \A h : [z \in SUBSET (1..n) |-> Form(h, z)] = [z \in SUBSET (1..n) |-> Body(h, z)]
    <3>1. ASSUME NEW h, NEW z \in SUBSET (1..n) PROVE Form(h, z) = Body(h, z)
      <4>1. CASE z = {}
        BY <4>1
      <4>2. CASE z # {}
        <5>1. Max(z) \in 1..n
          BY <4>2, SubsetsOfFirst
        <5>2. list[Max(z)] = Max(z)
          BY <1>1, <5>1
        <5> HIDE DEF list
        <5> QED BY <4>2, <5>2
      <4> QED BY <4>1, <4>2
    <3> HIDE DEF Form, Body
    <3> QED BY <3>1
  <2>2. f = CHOOSE iter : iter = [z \in SUBSET (1..n) |-> Form(iter, z)]
    BY <1>1 DEF ToolFold
  <2>3. f = CHOOSE iter : iter = [z \in SUBSET (1..n) |-> Body(iter, z)]
    <3> HIDE DEF f, Form, Body
    <3> QED BY <2>1, <2>2
  <2> HIDE DEF f, Body
  <2> QED BY <1>7, <2>3
<1>9. Tools(all, picked) = f[1..n]
  BY <1>1, ToolsIsAFold
<1> HIDE DEF f
<1>10. GoesAsFold(n, States, base, step, f)
  <2>1. f[{}] = base
    BY <1>2, <1>8
  <2>2. ASSUME NEW z \in SUBSET (1..n), z # {}, f[z \ {Max(z)}] \in States PROVE f[z] = step[<<f[z \ {Max(z)}], Max(z)>>]
    <3>1. PICK m, r : m = Max(z) /\ r = z \ {m}
      OBVIOUS
    <3>2. m \in 1..n /\ r \in SUBSET (1..n)
      BY <2>2, <3>1, SubsetsOfFirst
    <3>3. f[z] = ToolStep(all, picked, f[r], m)
      BY <1>8, <2>2, <3>1
    <3> QED BY <1>4, <2>2, <3>1, <3>2, <3>3
  <2> QED BY <2>1, <2>2 DEF GoesAsFold
<1>11. AdvancesBy(n, States, base, step, f)
  BY <1>2, <1>3, <1>10, FoldStates
<1>12. f[1..0] = <<>> /\ (\A i \in 1..n : f[1..i] = step[<<f[1..(i - 1)], i>>]) /\ (\A i \in 0..n : f[1..i] \in States)
  BY <1>2, <1>11 DEF AdvancesBy
<1> DEFINE Good == {i \in Nat : i <= n => MadeOf(all, picked, i, f[1..i])}
<1>13. 0 \in Good
  <2>1. ToSet(<<>>) = {} /\ Len(<<>>) = 0 /\ <<>> \in Seq(Int) /\ 1..0 = {}
    BY DEF ToSet
  <2>2. MadeOf(all, picked, 0, <<>>)
    <3>1. Cardinality({}) = 0 /\ AbleOf(all, picked) \cap 1..0 = {}
      BY ONLY <2>1, FS_EmptySet
    <3>2. 0 <= EdgeBudget
      BY RoundingAssumption
    <3> QED BY ONLY <2>1, <3>1, <3>2 DEF MadeOf
  <2> QED BY <1>12, <2>2
<1>14. ASSUME NEW i \in Nat, i \in Good PROVE i + 1 \in Good
  <2>1. ASSUME i + 1 <= n PROVE MadeOf(all, picked, i + 1, f[1..(i + 1)])
    <3>1. i + 1 \in 1..n /\ (i + 1) - 1 = i /\ i <= n /\ i \in 0..n
      BY <2>1
    <3>2. PICK t \in States : t = f[1..i]
      BY <1>12, <3>1
    <3>3. f[1..(i + 1)] = step[<<f[1..((i + 1) - 1)], i + 1>>]
      BY <1>12, <3>1
    <3>4. f[1..(i + 1)] = ToolStep(all, picked, t, i + 1)
      BY <1>4, <3>1, <3>2, <3>3
    <3>5. MadeOf(all, picked, i, t)
      BY <1>14, <3>1, <3>2
    <3> QED BY <3>4, <3>5, ToolMade
  <2> QED BY <2>1
<1>15. \A i \in Nat : i \in Good
  <2> HIDE DEF Good
  <2>1. \A i \in Nat : i \in Good => i + 1 \in Good
    BY <1>14
  <2> QED BY <1>13, <2>1, InductionOverSet
<1>16. MadeOf(all, picked, n, f[1..n])
  BY <1>15
<1> QED BY <1>1, <1>9, <1>16
\* No two tools of a batch overlap.
Apart(all, done) == \A b \in DOMAIN done : \A x, y \in ToSet(done[b]) : x = y \/ Disjoint(all[x], all[y])

\* The batches of the first k tools: each is in one, and none overlaps another.
Batched(all, list, k, done) ==
  /\ done \in Seq(Seq(Int))
  /\ Len(FlattenSeq(done)) = k
  /\ ToSet(FlattenSeq(done)) = {list[j] : j \in 1..k}
  /\ Apart(all, done)

\* What a step of batch_tools() makes of some batches.
Joined(all, done, tool, more) ==
  /\ more \in Seq(Seq(Int))
  /\ Lengthened(FlattenSeq(done), FlattenSeq(more), tool)
  /\ Apart(all, done) => Apart(all, more)

\* Sequences of elements put together are a sequence of elements.
LEMMA FlattenTyped ==
  ASSUME NEW S, NEW s \in Seq(Seq(S))
  PROVE  FlattenSeq(s) \in Seq(S)
<1>1. PICK st : Runs(S, s, st)
  BY FlattenRuns
<1>2. Len(s) \in 0..Len(s)
  OBVIOUS
<1> QED BY <1>1, <1>2 DEF Runs

\* The tool joins a batch that it overlaps nothing of, or starts one.
LEMMA BatchJoins ==
  ASSUME NEW all, NEW done \in Seq(Seq(Int)), NEW tool \in Int
  PROVE  Joined(all, done, tool, BatchStep(all, done, tool))
<1>1. PICK n \in Nat : n = Len(done) /\ DOMAIN done = 1..n /\ \A i \in 1..n : done[i] \in Seq(Int)
  <2>1. Len(done) \in Nat /\ DOMAIN done = 1..Len(done) /\ \A i \in 1..Len(done) : done[i] \in Seq(Int)
    OBVIOUS
  <2> QED BY ONLY <2>1
<1>2. PICK more : more = BatchStep(all, done, tool)
  OBVIOUS
<1>3. CASE Joinable(all, done, tool) = {}
  <2>1. PICK one \in Seq(Int) : one = <<tool>>
    <3>1. <<tool>> \in Seq(Int)
      OBVIOUS
    <3> QED BY ONLY <3>1
  <2>2. more = Append(done, one)
    BY <1>2, <1>3, <2>1 DEF BatchStep
  <2>3. more \in Seq(Seq(Int)) /\ Len(more) = n + 1 /\ more[n + 1] = one /\ \A i \in 1..n : more[i] = done[i]
    BY <1>1, <2>2, AppendProperties
  <2>4. ToSet(one) = {tool} /\ Len(one) = 1
    BY <2>1 DEF ToSet
  <2>5. Lengthened(FlattenSeq(done), FlattenSeq(more), tool)
    <3>1. FlattenSeq(more) = FlattenSeq(done) \o one
      BY <2>2, FlattenAppends
    <3>2. PICK s \in Seq(Int) : s = FlattenSeq(done)
      BY FlattenTyped
    <3>3. ToSet(s \o one) = ToSet(s) \cup ToSet(one)
      BY SetOfConcat
    <3>4. Len(s \o one) = Len(s) + Len(one)
      BY ConcatProperties
    <3> QED BY <2>4, <3>1, <3>2, <3>3, <3>4 DEF Lengthened
  <2>6. ASSUME Apart(all, done) PROVE Apart(all, more)
    <3>1. DOMAIN more = 1..(n + 1)
      BY <2>3
    <3>2. ASSUME NEW b \in DOMAIN more, NEW x \in ToSet(more[b]), NEW y \in ToSet(more[b]) PROVE x = y \/ Disjoint(all[x], all[y])
      <4>1. CASE b = n + 1
        BY <2>3, <2>4, <3>2, <4>1
      <4>2. CASE b # n + 1
        <5>1. b \in 1..n
          BY <3>1, <4>2
        <5> QED BY <1>1, <2>3, <2>6, <3>2, <5>1 DEF Apart
      <4> QED BY <4>1, <4>2
    <3> QED BY <3>2 DEF Apart
  <2> QED BY <1>2, <2>3, <2>5, <2>6 DEF Joined
<1>4. CASE Joinable(all, done, tool) # {}
  <2> DEFINE fits == Joinable(all, done, tool)
             least == CHOOSE b \in fits : \A c \in fits : b <= c
  <2>1. least \in fits
    <3>1. fits \subseteq Nat
      BY <1>1 DEF Joinable
    <3>2. \E b \in fits : \A c \in fits : b <= c
      <4>1. fits # {}
        BY <1>4
      <4> HIDE DEF fits
      <4> QED BY <3>1, <4>1, LeastElement
    <3> HIDE DEF fits
    <3> QED BY <3>2
  <2>2. more = [done EXCEPT ![least] = Append(@, tool)]
    BY <1>2, <1>4 DEF BatchStep
  <2>3. PICK b \in 1..n : b = least
    BY <1>1, <2>1 DEF Joinable
  <2>4. \A i \in DOMAIN done[b] : Disjoint(all[done[b][i]], all[tool])
    BY <2>1, <2>3 DEF Joinable
  <2> HIDE DEF fits, least
  <2>5. more \in Seq(Seq(Int)) /\ Lengthened(FlattenSeq(done), FlattenSeq(more), tool)
    BY <1>1, <2>2, <2>3, FlattenGrows
  <2>6. PICK a \in Seq(Int) : a = Append(done[b], tool)
    BY <1>1, SetOfAppend
  <2>7. ToSet(a) = ToSet(done[b]) \cup {tool}
    <3>1. PICK old \in Seq(Int) : old = done[b]
      BY <1>1
    <3>2. AppendAdds(old, tool)
      BY NumbersAppend
    <3>3. ToSet(Append(old, tool)) = ToSet(old) \cup {tool}
      BY <3>2 DEF AppendAdds
    <3> QED BY <2>6, <3>1, <3>3
  <2>8. DOMAIN more = 1..n /\ more[b] = a /\ \A i \in 1..n : i # b => more[i] = done[i]
    BY <1>1, <2>2, <2>3, <2>6
  <2>9. ASSUME Apart(all, done) PROVE Apart(all, more)
    <3>1. ASSUME NEW c \in 1..n, NEW x \in ToSet(more[c]), NEW y \in ToSet(more[c]) PROVE x = y \/ Disjoint(all[x], all[y])
      <4>1. CASE c # b
        BY <1>1, <2>8, <2>9, <3>1, <4>1 DEF Apart
      <4>2. CASE c = b
        <5>1. \A z \in ToSet(done[b]) : Disjoint(all[z], all[tool]) /\ Disjoint(all[tool], all[z])
          BY <2>4 DEF ToSet, Disjoint
        <5>2. \A u, v \in ToSet(done[b]) : u = v \/ Disjoint(all[u], all[v])
          BY <1>1, <2>9 DEF Apart
        <5> QED BY <2>7, <2>8, <3>1, <4>2, <5>1, <5>2
      <4> QED BY <4>1, <4>2
    <3> QED BY <2>8, <3>1 DEF Apart
  <2> QED BY <1>2, <2>5, <2>9 DEF Joined
<1> QED BY <1>3, <1>4, SMTT(25)

\* batch_tools() batches the tools as it should.
LEMMA BatchesMade ==
  ASSUME NEW all, NEW list \in Seq(Int)
  PROVE  Batched(all, list, Len(list), Batches(all, list)) /\ (list = <<>> => Batches(all, list) = <<>>)
<1> DEFINE f == BatchFold(all, list)
<1>1. PICK n \in Nat : n = Len(list) /\ DOMAIN list = 1..n /\ \A i \in 1..n : list[i] \in Int
  <2>1. Len(list) \in Nat /\ DOMAIN list = 1..Len(list) /\ \A i \in 1..Len(list) : list[i] \in Int
    OBVIOUS
  <2> QED BY ONLY <2>1
<1> DEFINE States == Seq(Seq(Int))
           step == [x \in States \X (1..n) |-> BatchStep(all, x[1], list[x[2]])]
           Body(g, z) == IF z = {} THEN <<>> ELSE BatchStep(all, g[z \ {Max(z)}], list[Max(z)])
<1>2. PICK base \in States : base = <<>>
  <2>1. <<>> \in States
    OBVIOUS
  <2> QED BY ONLY <2>1
<1>3. step \in [States \X (1..n) -> States]
  <2>1. ASSUME NEW x \in States \X (1..n) PROVE BatchStep(all, x[1], list[x[2]]) \in States
    <3>1. x[1] \in Seq(Seq(Int)) /\ list[x[2]] \in Int
      BY <1>1
    <3> QED BY <3>1, BatchJoins DEF Joined
  <2> QED BY <2>1
<1>4. \A t \in States, i \in 1..n : step[<<t, i>>] = BatchStep(all, t, list[i])
  OBVIOUS
<1> HIDE DEF step
<1>5. PICK g : IsFold(n, States, base, step, g)
  BY <1>2, <1>3, FoldSteps
<1>6. g \in [SUBSET (1..n) -> States] /\ \A z \in SUBSET (1..n) : g[z] = Next1(base, step, g, z)
  BY <1>5 DEF IsFold
<1>7. g = [z \in SUBSET (1..n) |-> Body(g, z)]
  <2> HIDE DEF States
  <2>1. ASSUME NEW z \in SUBSET (1..n) PROVE g[z] = Body(g, z)
    <3>1. CASE z = {}
      BY <1>2, <1>6, <3>1 DEF Next1
    <3>2. CASE z # {}
      <4>1. PICK m, r : m = Max(z) /\ r = z \ {m}
        OBVIOUS
      <4>2. m \in 1..n /\ r \in SUBSET (1..n)
        BY <3>2, <4>1, SubsetsOfFirst
      <4>3. g[z] = step[<<g[r], m>>]
        BY <1>6, <3>2, <4>1 DEF Next1
      <4> QED BY <1>4, <1>6, <3>2, <4>1, <4>2, <4>3
    <3> QED BY <3>1, <3>2
  <2>2. g = [z \in SUBSET (1..n) |-> g[z]]
    BY <1>6
  <2> HIDE DEF Body
  <2> QED BY <2>1, <2>2
<1>8. f = [z \in SUBSET (1..n) |-> Body(f, z)]
  <2>1. f = CHOOSE iter : iter = [z \in SUBSET (1..n) |-> Body(iter, z)]
    BY <1>1 DEF BatchFold
  <2> HIDE DEF f, Body
  <2> QED BY <1>7, <2>1
<1>9. Batches(all, list) = f[1..n]
  BY <1>1, BatchesIsAFold
<1> HIDE DEF f, States
<1>10. GoesAsFold(n, States, base, step, f)
  <2>1. f[{}] = base
    BY <1>2, <1>8
  <2>2. ASSUME NEW z \in SUBSET (1..n), z # {}, f[z \ {Max(z)}] \in States PROVE f[z] = step[<<f[z \ {Max(z)}], Max(z)>>]
    <3>1. PICK m, r : m = Max(z) /\ r = z \ {m}
      OBVIOUS
    <3>2. m \in 1..n /\ r \in SUBSET (1..n)
      BY <2>2, <3>1, SubsetsOfFirst
    <3>3. f[z] = BatchStep(all, f[r], list[m])
      BY <1>8, <2>2, <3>1
    <3> QED BY <1>4, <2>2, <3>1, <3>2, <3>3
  <2> QED BY <2>1, <2>2 DEF GoesAsFold
<1>11. AdvancesBy(n, States, base, step, f)
  BY <1>2, <1>3, <1>10, FoldStates
<1>12. f[1..0] = <<>> /\ (\A i \in 1..n : f[1..i] = step[<<f[1..(i - 1)], i>>]) /\ (\A i \in 0..n : f[1..i] \in States)
  BY <1>2, <1>11 DEF AdvancesBy
<1> DEFINE Good == {i \in Nat : i <= n => Batched(all, list, i, f[1..i])}
<1>13. 0 \in Good
  <2>1. ToSet(<<>>) = {} /\ Len(<<>>) = 0 /\ <<>> \in Seq(Seq(Int)) /\ 1..0 = {} /\ DOMAIN <<>> = {}
    BY DEF ToSet
  <2>2. FlattenSeq(<<>>) = <<>>
    BY <2>1, FlattenIs
  <2>3. Apart(all, <<>>)
    BY <2>1 DEF Apart
  <2>4. {list[j] : j \in 1..0} = {}
    BY <2>1
  <2>5. Batched(all, list, 0, <<>>)
    BY ONLY <2>1, <2>2, <2>3, <2>4 DEF Batched
  <2> QED BY <1>12, <2>5
<1>14. ASSUME NEW i \in Nat, i \in Good PROVE i + 1 \in Good
  <2>1. ASSUME i + 1 <= n PROVE Batched(all, list, i + 1, f[1..(i + 1)])
    <3>1. i + 1 \in 1..n /\ (i + 1) - 1 = i /\ i <= n /\ i \in 0..n
      BY <2>1
    <3>2. PICK t \in States : t = f[1..i]
      BY <1>12, <3>1
    <3>3. f[1..(i + 1)] = step[<<f[1..((i + 1) - 1)], i + 1>>]
      BY <1>12, <3>1
    <3>4. f[1..(i + 1)] = BatchStep(all, t, list[i + 1])
      BY <1>4, <3>1, <3>2, <3>3
    <3>5. Batched(all, list, i, t)
      BY <1>14, <3>1, <3>2
    <3>6. PICK tool \in Int : tool = list[i + 1]
      BY <1>1, <3>1
    <3>7. PICK more : more = BatchStep(all, t, tool)
      OBVIOUS
    <3>8. Joined(all, t, tool, more)
      BY <3>6, <3>7, BatchJoins DEF States
    <3>9. {list[j] : j \in 1..(i + 1)} = {list[j] : j \in 1..i} \cup {tool}
      <4>1. 1..(i + 1) = (1..i) \cup {i + 1}
        OBVIOUS
      <4> QED BY ONLY <3>6, <4>1
    <3> QED BY <3>4, <3>5, <3>6, <3>7, <3>8, <3>9 DEF Joined, Batched, Lengthened
  <2> QED BY <2>1
<1>15. \A i \in Nat : i \in Good
  <2> HIDE DEF Good
  <2>1. \A i \in Nat : i \in Good => i + 1 \in Good
    BY <1>14
  <2> QED BY <1>13, <2>1, InductionOverSet
<1>16. Batched(all, list, n, f[1..n])
  BY <1>15
<1>17. list = <<>> => n = 0
  BY <1>1
<1> QED BY <1>1, <1>9, <1>12, <1>16, <1>17
\* Every tool is cut, in a refused batch, or left.
Accounted ==
  /\ Len(tools) = Len(cut) + Cardinality(refused) + Len(FlattenSeq(batches))
  /\ ToSet(tools) = ToSet(cut) \cup refused \cup ToSet(FlattenSeq(batches))

RoundingInv ==
  /\ edges \in Bodies
  /\ phase \in {"Idle", "Cutting", "Healed"}
  /\ cut \in Seq(Int) /\ batches \in Seq(Seq(Int)) /\ IsFiniteSet(refused)
  /\ phase = "Idle" => cut = <<>> /\ refused = {} /\ batches = <<>>
  /\ phase # "Idle" => MadeOf(edges, filter, Len(edges), tools) /\ Apart(edges, batches) /\ Accounted
  /\ phase = "Healed" /\ batches # <<>> => triangles > TriangleBudget

\* A solid starts with nothing cut.
LEMMA RoundingInitInv == RoundingInit => RoundingInv
BY FS_EmptySet DEF RoundingInit, RoundingInv

\* The call makes the tools and their batches, and has cut nothing yet.
LEMMA RoundKeeps ==
  ASSUME RoundingInv, NEW picked, Round(picked)
  PROVE  RoundingInv'
<1>1. MadeOf(edges, picked, Len(edges), tools')
  BY ToolsMade DEF Round, RoundingInv
<1>2. tools' \in Seq(Int)
  BY <1>1 DEF MadeOf
<1>3. Batched(edges, tools', Len(tools'), batches') /\ (tools' = <<>> => batches' = <<>>)
  BY <1>2, BatchesMade DEF Round
<1>4. /\ cut' = <<>> /\ refused' = {} /\ edges' = edges /\ filter' = picked
      /\ phase' = IF tools' = <<>> THEN "Healed" ELSE "Cutting"
  BY DEF Round, RoundingInv
<1>5. Accounted'
  <2>1. ToSet(<<>>) = {} /\ Len(<<>>) = 0 /\ Cardinality({}) = 0
    BY FS_EmptySet DEF ToSet
  <2>2. ToSet(tools') = {tools'[j] : j \in 1..Len(tools')} /\ Len(tools') \in Nat
    <3>1. DOMAIN tools' = 1..Len(tools') /\ Len(tools') \in Nat
      BY <1>2
    <3> QED BY <3>1 DEF ToSet
  <2>3. Len(FlattenSeq(batches')) = Len(tools') /\ ToSet(FlattenSeq(batches')) = ToSet(tools')
    BY <1>3, <2>2 DEF Batched
  <2>4. Len(cut') = 0 /\ Cardinality(refused') = 0 /\ ToSet(cut') = {}
    BY <1>4, <2>1
  <2>5. Len(tools') = Len(cut') + Cardinality(refused') + Len(FlattenSeq(batches'))
    BY <2>2, <2>3, <2>4
  <2>6. ToSet(tools') = ToSet(cut') \cup refused' \cup ToSet(FlattenSeq(batches'))
    BY <1>4, <2>3, <2>4
  <2> QED BY <2>5, <2>6 DEF Accounted
<1>6. batches' \in Seq(Seq(Int)) /\ Apart(edges, batches')
  BY <1>3 DEF Batched
<1>7. cut' \in Seq(Int) /\ IsFiniteSet(refused') /\ edges' \in Bodies
  <2>1. <<>> \in Seq(Int)
    OBVIOUS
  <2> QED BY <1>4, <2>1, FS_EmptySet DEF RoundingInv
<1>8. phase' \in {"Cutting", "Healed"} /\ (phase' = "Healed" => batches' = <<>>)
  BY <1>3, <1>4
<1>9. (Apart(edges, batches) /\ MadeOf(edges, filter, Len(edges), tools))'
  BY <1>1, <1>4, <1>6 DEF Apart, MadeOf, AbleOf, Selection, FirstsOf
<1> QED BY <1>5, <1>6, <1>7, <1>8, <1>9 DEF RoundingInv

\* How many elements there are, when each is in one of three parts that have
\* no more elements than is counted for them.
PartsOf(A, B, C, a, b, c) ==
  /\ IsFiniteSet(A) /\ IsFiniteSet(B) /\ IsFiniteSet(C) /\ a \in Nat /\ b \in Nat /\ c \in Nat
  /\ Cardinality(A) <= a /\ Cardinality(B) <= b /\ Cardinality(C) <= c
  /\ Cardinality((A \cup B) \cup C) = a + b + c

\* So the second part has as many elements as is counted for it.
LEMMA CountedOnce ==
  ASSUME NEW A, NEW B, NEW C, NEW a, NEW b, NEW c, PartsOf(A, B, C, a, b, c)
  PROVE  Cardinality(B) = b
<1> USE DEF PartsOf
<1>1. IsFiniteSet(A \cup B) /\ Cardinality(A \cup B) <= Cardinality(A) + Cardinality(B)
  <2>1. Cardinality(A \cap B) \in Nat /\ Cardinality(A) \in Nat /\ Cardinality(B) \in Nat
    BY FS_Intersection, FS_CardinalityType
  <2>2. IsFiniteSet(A \cup B) /\ Cardinality(A \cup B) = Cardinality(A) + Cardinality(B) - Cardinality(A \cap B)
    BY FS_Union
  <2> QED BY ONLY <2>1, <2>2
<1>2. Cardinality((A \cup B) \cup C) <= Cardinality(A \cup B) + Cardinality(C)
  <2>1. Cardinality((A \cup B) \cap C) \in Nat /\ Cardinality(A \cup B) \in Nat /\ Cardinality(C) \in Nat
    BY <1>1, FS_Intersection, FS_CardinalityType
  <2>2. Cardinality((A \cup B) \cup C) = Cardinality(A \cup B) + Cardinality(C) - Cardinality((A \cup B) \cap C)
    BY <1>1, FS_Union
  <2> QED BY ONLY <2>1, <2>2
<1>3. Cardinality(A) \in Nat /\ Cardinality(B) \in Nat /\ Cardinality(C) \in Nat /\ Cardinality(A \cup B) \in Nat
  BY <1>1, FS_CardinalityType
<1>4. \A i, j, k, u, v \in Nat : i <= a /\ j <= b /\ k <= c /\ u <= i + j /\ v <= u + k /\ v = a + b + c => j = b
  OBVIOUS
<1>5. Cardinality((A \cup B) \cup C) \in Nat /\ Cardinality((A \cup B) \cup C) = a + b + c
  OBVIOUS
<1>6. Cardinality(A) <= a /\ Cardinality(B) <= b /\ Cardinality(C) <= c
  OBVIOUS
<1> QED BY ONLY <1>1, <1>2, <1>3, <1>4, <1>5, <1>6

\* A boolean takes the edges of the first batch from those that are left.
LEMMA CutKeeps ==
  ASSUME RoundingInv, NEW destroys, NEW more, CutBatch(destroys, more)
  PROVE  RoundingInv'
<1>1. /\ phase = "Cutting" /\ batches # <<>> /\ batches' = Tail(batches)
      /\ edges' = edges /\ filter' = filter /\ tools' = tools /\ phase' = phase
      /\ IF destroys THEN refused' = refused \cup ToSet(Head(batches)) /\ cut' = cut
         ELSE cut' = cut \o Head(batches) /\ refused' = refused
  BY DEF CutBatch
<1>2. /\ edges \in Bodies /\ cut \in Seq(Int) /\ batches \in Seq(Seq(Int)) /\ IsFiniteSet(refused)
      /\ MadeOf(edges, filter, Len(edges), tools) /\ Apart(edges, batches) /\ Accounted
  BY <1>1, SMTT(25) DEF RoundingInv
<1>3. PICK n \in Nat : n = Len(batches) /\ n >= 1 /\ DOMAIN batches = 1..n
  <2>1. Len(batches) \in Nat /\ Len(batches) # 0 /\ DOMAIN batches = 1..Len(batches)
    BY <1>1, <1>2, EmptySeq
  <2>2. Len(batches) >= 1
    BY ONLY <2>1
  <2> QED BY ONLY <2>1, <2>2
<1>4. PICK h \in Seq(Int) : h = Head(batches)
  BY <1>2, <1>3, HeadTailProperties
<1>5. PICK t \in Seq(Seq(Int)) : t = Tail(batches) /\ Len(t) = n - 1 /\ DOMAIN t = 1..(n - 1) /\ \A i \in 1..(n - 1) : t[i] = batches[i + 1]
  <2>1. Tail(batches) \in Seq(Seq(Int)) /\ Len(Tail(batches)) = n - 1 /\ \A i \in 1..(n - 1) : Tail(batches)[i] = batches[i + 1]
    BY <1>2, <1>3, HeadTailProperties
  <2>2. DOMAIN Tail(batches) = 1..(n - 1)
    BY <2>1
  <2> QED BY <2>1, <2>2
<1>6. PICK left \in Seq(Int) : left = FlattenSeq(t)
  BY FlattenTyped
<1>7. FlattenSeq(batches) = h \o left
  BY <1>1, <1>2, <1>4, <1>5, <1>6, FlattenHead
<1>8. ToSet(FlattenSeq(batches)) = ToSet(h) \cup ToSet(left)
  <2>1. ToSet(h \o left) = ToSet(h) \cup ToSet(left)
    BY SetOfConcat
  <2> QED BY <1>7, <2>1
<1>9. Len(FlattenSeq(batches)) = Len(h) + Len(left)
  <2>1. Len(h \o left) = Len(h) + Len(left)
    BY ConcatProperties
  <2> QED BY <1>7, <2>1
<1>10. /\ IsFiniteSet(ToSet(h)) /\ Cardinality(ToSet(h)) <= Len(h) /\ Cardinality(ToSet(h)) \in Nat /\ Len(h) \in Nat
       /\ IsFiniteSet(ToSet(left)) /\ Cardinality(ToSet(left)) <= Len(left) /\ Len(left) \in Nat
       /\ IsFiniteSet(ToSet(cut)) /\ Cardinality(ToSet(cut)) <= Len(cut) /\ Len(cut) \in Nat
       /\ Cardinality(refused) \in Nat
  <2>1. Len(h) \in Nat /\ Len(left) \in Nat /\ Len(cut) \in Nat
    BY <1>2
  <2> QED BY <1>2, <2>1, SetOfSeq, FS_CardinalityType
<1>11. Apart(edges, t)
  <2>1. ASSUME NEW b \in 1..(n - 1), NEW x \in ToSet(t[b]), NEW y \in ToSet(t[b]) PROVE x = y \/ Disjoint(edges[x], edges[y])
    <3>1. t[b] = batches[b + 1] /\ b + 1 \in 1..n
      BY <1>5
    <3> QED BY <1>2, <1>3, <2>1, <3>1 DEF Apart
  <2> QED BY <1>5, <2>1 DEF Apart
<1>12. /\ Len(tools) = Len(cut) + Cardinality(refused) + (Len(h) + Len(left))
       /\ ToSet(tools) = ToSet(cut) \cup refused \cup (ToSet(h) \cup ToSet(left))
  BY <1>2, <1>8, <1>9 DEF Accounted
<1>13. /\ cut' \in Seq(Int) /\ IsFiniteSet(refused')
       /\ Len(tools) = Len(cut') + Cardinality(refused') + Len(left)
       /\ ToSet(tools) = ToSet(cut') \cup refused' \cup ToSet(left)
  <2>1. CASE destroys
    <3>1. cut' = cut /\ refused' = refused \cup ToSet(h)
      BY <1>1, <1>4, <2>1
    <3>2. IsFiniteSet(refused \cup ToSet(h)) /\ Cardinality(refused \cup ToSet(h)) <= Cardinality(refused) + Len(h)
      <4>1. Cardinality(refused \cap ToSet(h)) \in Nat
        BY <1>2, FS_Intersection, FS_CardinalityType
      <4>2. /\ IsFiniteSet(refused \cup ToSet(h))
            /\ Cardinality(refused \cup ToSet(h)) = Cardinality(refused) + Cardinality(ToSet(h)) - Cardinality(refused \cap ToSet(h))
        BY <1>2, <1>10, FS_Union
      <4> QED BY <1>10, <4>1, <4>2
    <3>3. ToSet(tools) = ToSet(cut) \cup (refused \cup ToSet(h)) \cup ToSet(left)
      BY <1>12
    <3>4. Cardinality(ToSet(tools)) = Len(cut) + (Cardinality(refused) + Len(h)) + Len(left)
      <4>1. Cardinality(ToSet(tools)) = Len(tools)
        BY <1>2 DEF MadeOf
      <4> QED BY <1>10, <1>12, <4>1
    <3>5. Cardinality(refused) + Len(h) \in Nat
      BY <1>10
    <3>6. Cardinality(refused \cup ToSet(h)) = Cardinality(refused) + Len(h)
      <4>1. PICK done, bad, todo : done = ToSet(cut) /\ bad = refused \cup ToSet(h) /\ todo = ToSet(left)
        OBVIOUS
      <4>2. PICK i, j, k \in Nat : i = Len(cut) /\ j = Cardinality(refused) + Len(h) /\ k = Len(left)
        BY ONLY <1>10, <3>5
      <4>3. IsFiniteSet(done) /\ IsFiniteSet(bad) /\ IsFiniteSet(todo) /\ Cardinality(done) <= i /\ Cardinality(bad) <= j /\ Cardinality(todo) <= k
        BY ONLY <1>10, <3>2, <4>1, <4>2
      <4>4. Cardinality(done \cup bad \cup todo) = i + j + k
        BY ONLY <3>3, <3>4, <4>1, <4>2
      <4>5. Cardinality(bad) = j
        <5>1. PartsOf(done, bad, todo, i, j, k)
          BY <4>2, <4>3, <4>4 DEF PartsOf
        <5> QED BY ONLY <5>1, CountedOnce
      <4> QED BY ONLY <4>1, <4>2, <4>5
    <3> QED BY <1>2, <1>10, <1>12, <3>1, <3>2, <3>3, <3>6
  <2>2. CASE ~destroys
    <3>1. cut' = cut \o h /\ refused' = refused
      BY <1>1, <1>4, <2>2
    <3>2. cut \o h \in Seq(Int) /\ Len(cut \o h) = Len(cut) + Len(h)
      BY <1>2, ConcatProperties
    <3>3. ToSet(cut \o h) = ToSet(cut) \cup ToSet(h)
      BY <1>2, SetOfConcat
    <3>4. Len(tools) = Len(cut \o h) + Cardinality(refused) + Len(left)
      BY <1>10, <1>12, <3>2
    <3>5. ToSet(tools) = ToSet(cut \o h) \cup refused \cup ToSet(left)
      BY <1>12, <3>3
    <3> QED BY <1>2, <3>1, <3>2, <3>4, <3>5
  <2> QED BY <2>1, <2>2
<1>14. batches' = t /\ Accounted'
  BY <1>1, <1>5, <1>6, <1>13 DEF Accounted
<1>15. (Apart(edges, batches) /\ MadeOf(edges, filter, Len(edges), tools))'
  BY <1>1, <1>2, <1>11, <1>14, ZenonT(40) DEF Apart, MadeOf, AbleOf, Selection, FirstsOf
<1> QED BY <1>1, <1>2, <1>13, <1>14, <1>15 DEF RoundingInv

\* The call and each boolean keep the invariant.
LEMMA RoundingNextInv == ASSUME RoundingInv, [RoundingNext]_roundingVars PROVE RoundingInv'
<1>1. CASE \E picked \in BoundedSeq(1..3, 2) : Round(picked)
  BY <1>1, RoundKeeps
<1>2. CASE \E destroys \in BOOLEAN, more \in Growth : CutBatch(destroys, more)
  BY <1>2, CutKeeps
<1>3. CASE StopCutting
  <2>1. /\ phase = "Cutting" /\ phase' = "Healed" /\ (batches = <<>> \/ triangles > TriangleBudget)
        /\ UNCHANGED <<edges, filter, tools, batches, triangles, cut, refused>>
    BY <1>3 DEF StopCutting
  <2> QED BY <2>1 DEF RoundingInv, Accounted, Apart, MadeOf, AbleOf, Selection, FirstsOf
<1>4. CASE UNCHANGED roundingVars
  BY <1>4, SMTT(30) DEF roundingVars, RoundingInv, Accounted, Apart, MadeOf, AbleOf, Selection, FirstsOf
<1> QED BY <1>1, <1>2, <1>3, <1>4 DEF RoundingNext

\* The property follows from the invariant.
LEMMA InvGivesRounded == RoundingInv => RoundedOnce
<1> SUFFICES ASSUME RoundingInv PROVE RoundedOnce
  OBVIOUS
<1>1. ASSUME phase # "Idle"
      PROVE  /\ ToSet(tools) \subseteq Able
             /\ ToSet(tools) = Able \/ (Len(tools) = EdgeBudget /\ \A i \in ToSet(tools), j \in Able \ ToSet(tools) : i < j)
  <2>1. MadeOf(edges, filter, Len(edges), tools)
    BY <1>1 DEF RoundingInv
  <2>2. DOMAIN edges = 1..Len(edges)
    <3>1. edges = [i \in 1..Len(edges) |-> edges[i]]
      BY RoundingAssumption DEF RoundingInv
    <3> QED BY <3>1
  <2>3. Able = AbleOf(edges, filter) \cap 1..Len(edges)
    BY <2>2 DEF Able, Asked, AbleOf, Selection, ToSet
  <2> QED BY <2>1, <2>3 DEF MadeOf, FirstsOf
<1>2. ASSUME phase # "Idle"
      PROVE  \A b \in DOMAIN batches : \A i, j \in ToSet(batches[b]) : i = j \/ edges[i].high <= edges[j].low \/ edges[j].high <= edges[i].low
  BY <1>2 DEF RoundingInv, Apart, Disjoint
<1>3. ASSUME phase # "Idle" PROVE Accounted
  BY <1>3 DEF RoundingInv
<1>4. phase = "Healed" /\ batches # <<>> => triangles > TriangleBudget
  BY DEF RoundingInv
<1> QED BY <1>1, <1>2, <1>3, <1>4 DEF RoundedOnce, Accounted

\* Every edge that was asked for and can be rounded is cut once, refused with
\* its batch, or left because a budget ran out; no other edge is touched; the
\* tools of a batch never overlap: for any solid, any selection of edges and
\* any budgets (edges.rs, batch_tools() and apply_tools()).
THEOREM EdgesRoundedOnce == RoundingSpec => []RoundedOnce
<1>1. RoundingInit => RoundingInv
  BY RoundingInitInv
<1>2. RoundingInv /\ [RoundingNext]_roundingVars => RoundingInv'
  BY RoundingNextInv
<1>3. RoundingInv => RoundedOnce
  BY InvGivesRounded
<1> QED BY <1>1, <1>2, <1>3, PTL DEF RoundingSpec

--------------------------------------------------------------------------
(* The load steps of a plastic body (plasticity.rs, nonlinear.rs).          *)

Per == Shear3 + Hardening

\* The grain of the stresses is a power of the divisor of a return.
LEMMA GrainIs == Grain = [n \in Nat |-> IF n = 0 THEN 1 ELSE Per * Grain[n - 1]]
<1> DEFINE Spec(m, g) == g = [n \in 0..m |-> IF n = 0 THEN 1 ELSE Per * g[n - 1]]
           Good == {m \in Nat : \E g : Spec(m, g)}
<1>1. 0 \in Good
  <2>1. Spec(0, [n \in 0..0 |-> 1])
    OBVIOUS
  <2> HIDE DEF Spec
  <2> QED BY <2>1
<1>2. ASSUME NEW m \in Nat, m \in Good PROVE m + 1 \in Good
  <2>1. PICK g : Spec(m, g)
    BY <1>2
  <2> DEFINE h == [n \in 0..(m + 1) |-> IF n = 0 THEN 1 ELSE Per * g[n - 1]]
  <2>2. \A n \in 0..m : h[n] = g[n]
    BY <2>1
  <2>3. Spec(m + 1, h)
    <3>1. \A n \in 0..(m + 1) : n # 0 => n - 1 \in 0..m
      OBVIOUS
    <3> QED BY <2>2, <3>1
  <2> HIDE DEF Spec, h
  <2> QED BY <2>3
<1>3. \A m \in Nat : m \in Good
  <2> HIDE DEF Good
  <2>1. \A n \in Nat : n \in Good => n + 1 \in Good
    BY <1>2
  <2> QED BY <1>1, <2>1, InductionOverSet
<1> DEFINE of == [m \in Nat |-> CHOOSE g : Spec(m, g)]
           f == [m \in Nat |-> of[m][m]]
<1>4. \A m \in Nat : Spec(m, of[m])
  <2> HIDE DEF Spec
  <2> QED BY <1>3
<1>5. \A m \in Nat : \A k \in Nat : k <= m => of[m][k] = of[k][k]
  <2> DEFINE Same == {k \in Nat : \A m \in Nat : k <= m => of[m][k] = of[k][k]}
  <2>1. 0 \in Same
    <3>1. \A m \in Nat : of[m][0] = 1
      <4> HIDE DEF of
      <4>1. ASSUME NEW m \in Nat PROVE of[m][0] = 1
        <5>1. Spec(m, of[m]) /\ 0 \in 0..m
          BY <1>4
        <5> QED BY <5>1
      <4> QED BY <4>1
    <3> HIDE DEF of
    <3> QED BY <3>1
  <2>2. ASSUME NEW k \in Nat, k \in Same PROVE k + 1 \in Same
    <3>1. ASSUME NEW m \in Nat, k + 1 <= m PROVE of[m][k + 1] = Per * of[k][k]
      <4>1. of[m][k + 1] = Per * of[m][k]
        <5> HIDE DEF of
        <5>1. Spec(m, of[m]) /\ k + 1 \in 0..m /\ k + 1 # 0 /\ (k + 1) - 1 = k
          BY <1>4, <3>1
        <5> QED BY <5>1
      <4>2. of[m][k] = of[k][k]
        BY <2>2, <3>1
      <4> QED BY <4>1, <4>2
    <3> HIDE DEF of
    <3>2. of[k + 1][k + 1] = Per * of[k][k]
      BY <3>1
    <3> QED BY <3>1, <3>2
  <2> HIDE DEF Same
  <2>3. \A k \in Nat : k \in Same
    <3>1. \A n \in Nat : n \in Same => n + 1 \in Same
      BY <2>2
    <3> QED BY <2>1, <3>1, InductionOverSet
  <2> QED BY <2>3 DEF Same
<1>6. f = [n \in Nat |-> IF n = 0 THEN 1 ELSE Per * f[n - 1]]
  <2>1. ASSUME NEW n \in Nat PROVE f[n] = IF n = 0 THEN 1 ELSE Per * f[n - 1]
    <3>1. f[n] = of[n][n]
      OBVIOUS
    <3>2. of[n][n] = IF n = 0 THEN 1 ELSE Per * of[n][n - 1]
      <4> HIDE DEF of
      <4>1. Spec(n, of[n]) /\ n \in 0..n
        BY <1>4
      <4> QED BY <4>1
    <3>3. n # 0 => n - 1 \in Nat /\ of[n][n - 1] = of[n - 1][n - 1] /\ f[n - 1] = of[n - 1][n - 1]
      <4>1. n # 0 => n - 1 \in Nat /\ n - 1 <= n
        OBVIOUS
      <4>2. n # 0 => of[n][n - 1] = of[n - 1][n - 1]
        <5> HIDE DEF of
        <5> QED BY <1>5, <4>1
      <4> QED BY <4>1, <4>2
    <3> QED BY <3>1, <3>2, <3>3
  <2> HIDE DEF f
  <2>2. DOMAIN f = Nat /\ f = [n \in Nat |-> f[n]]
    BY DEF f
  <2> QED BY <2>1, <2>2
<1> HIDE DEF f
<1>7. \E g : g = [n \in Nat |-> IF n = 0 THEN 1 ELSE Per * g[n - 1]]
  BY <1>6
<1> QED BY <1>7, Zenon DEF Grain, Per

\* The grain of one more return is the divisor times as fine.
LEMMA GrainFacts ==
  /\ Grain[0] = 1
  /\ \A n \in Nat : Grain[n] \in Nat /\ Grain[n] > 0 /\ Grain[n + 1] = Per * Grain[n]
<1>1. Per \in Nat /\ Per > 0
  BY LoadStepsAssumption DEF Per
<1>2. \A n \in Nat : Grain[n] = IF n = 0 THEN 1 ELSE Per * Grain[n - 1]
  BY GrainIs, Zenon
<1>3. \A n \in Nat : Grain[n + 1] = Per * Grain[n]
  <2>1. ASSUME NEW n \in Nat PROVE Grain[n + 1] = Per * Grain[n]
    <3>1. n + 1 \in Nat /\ n + 1 # 0 /\ (n + 1) - 1 = n
      OBVIOUS
    <3> QED BY <1>2, <3>1
  <2> QED BY <2>1
<1> DEFINE S == {n \in Nat : Grain[n] \in Nat /\ Grain[n] > 0}
<1>4. 0 \in S
  BY <1>2
<1>5. ASSUME NEW n \in Nat, n \in S PROVE n + 1 \in S
  <2>1. \A a, b \in Nat : a > 0 /\ b > 0 => a * b \in Nat /\ a * b > 0
    OBVIOUS
  <2>2. Per * Grain[n] \in Nat /\ Per * Grain[n] > 0
    BY <1>1, <1>5, <2>1
  <2> QED BY <1>3, <2>2
<1>6. \A n \in Nat : n \in S
  <2> HIDE DEF S
  <2>1. \A n \in Nat : n \in S => n + 1 \in S
    BY <1>5
  <2> QED BY <1>4, <2>1, InductionOverSet
<1> QED BY <1>2, <1>3, <1>6

Whole == LoadCount * MaxIter
Multiple(x, g) == \E q \in Nat : x = q * g

\* A multiple of a later grain is one of an earlier grain.
LEMMA GrainDivides ==
  \A n \in Nat : \A m \in 0..n : \A x : Multiple(x, Grain[n]) => Multiple(x, Grain[m])
<1> DEFINE S == {n \in Nat : \A m \in 0..n : \A x : Multiple(x, Grain[n]) => Multiple(x, Grain[m])}
<1>1. 0 \in S
  OBVIOUS
<1>2. ASSUME NEW n \in Nat, n \in S PROVE n + 1 \in S
  <2>1. ASSUME NEW x, Multiple(x, Grain[n + 1]) PROVE Multiple(x, Grain[n])
    <3>1. PICK q \in Nat : x = q * Grain[n + 1]
      BY <2>1 DEF Multiple
    <3>2. Grain[n + 1] = Per * Grain[n] /\ Per \in Nat /\ Grain[n] \in Nat
      BY GrainFacts, LoadStepsAssumption DEF Per
    <3>3. \A a, b, c \in Nat : a * (b * c) = (a * b) * c /\ a * b \in Nat
      OBVIOUS
    <3>4. x = (q * Per) * Grain[n] /\ q * Per \in Nat
      BY <3>1, <3>2, <3>3
    <3> QED BY <3>4 DEF Multiple
  <2>2. ASSUME NEW m \in 0..(n + 1), NEW x, Multiple(x, Grain[n + 1]) PROVE Multiple(x, Grain[m])
    <3>1. CASE m = n + 1
      BY <2>2, <3>1
    <3>2. CASE m \in 0..n
      BY <1>2, <2>1, <2>2, <3>2
    <3> QED BY <3>1, <3>2
  <2> QED BY <2>2
<1>3. \A n \in Nat : n \in S
  <2> HIDE DEF S
  <2>1. \A n \in Nat : n \in S => n + 1 \in S
    BY <1>2
  <2> QED BY <1>1, <2>1, InductionOverSet
<1> QED BY <1>3

--------------------------------------------------------------------------
Entry == [step: Nat \ {0}, iter: Nat, converged: BOOLEAN, strain: Nat]

LoadInv ==
  /\ history \in Seq(Entry)
  /\ element.strain \in Nat /\ element.stress \in Int
  /\ element.stress <= YieldStress(element.strain)
  /\ Step \in 1..(LoadCount + 1) /\ Iter \in 0..MaxIter
  /\ analysis \in {"Running", "Converged", "Stopped"}
  /\ analysis = "Running" => Step <= LoadCount /\ Iter < MaxIter
  /\ analysis = "Converged" => Step = LoadCount + 1
  /\ analysis = "Stopped" => Iter = MaxIter
  /\ Len(history) <= (Step - 1) * MaxIter + Iter /\ Len(history) <= Whole
  /\ Multiple(element.strain, Grain[Whole - Len(history)])
  /\ \A i \in DOMAIN history : history[i].strain <= element.strain
  /\ \A i, j \in DOMAIN history : i < j => history[i].strain <= history[j].strain
  /\ \A s \in 1..(Step - 1) : \E i \in DOMAIN history : history[i].step = s /\ history[i].converged
  /\ Iter <= Len(history)
  /\ \A k \in 0..(Iter - 1) : ~history[Len(history) - k].converged /\ history[Len(history) - k].step = Step

\* The whole number of iterations bounds the number of each one.
LEMMA WholeIs == Whole \in Nat /\ \A s \in 1..LoadCount, i \in 0..(MaxIter - 1) : (s - 1) * MaxIter + i + 1 <= Whole
<1>1. LoadCount \in Nat /\ MaxIter \in Nat /\ MaxIter > 0
  BY LoadStepsAssumption
<1>2. \A a, b \in Nat : a * b \in Nat
  OBVIOUS
<1>3. ASSUME NEW s \in 1..LoadCount, NEW i \in 0..(MaxIter - 1) PROVE (s - 1) * MaxIter + i + 1 <= Whole
  <2>1. PICK d \in Nat : LoadCount = s + d
    <3>1. LoadCount - s \in Nat /\ LoadCount = s + (LoadCount - s)
      BY <1>1
    <3> QED BY <3>1
  <2>2. \A a, b, c \in Nat : a > 0 => (a + b) * c = (a - 1) * c + c + b * c /\ b * c \in Nat /\ (a - 1) * c \in Nat
    OBVIOUS
  <2>3. s \in Nat /\ s > 0 /\ i + 1 <= MaxIter /\ i \in Nat
    BY <1>1
  <2>4. (s + d) * MaxIter = (s - 1) * MaxIter + MaxIter + d * MaxIter /\ d * MaxIter \in Nat /\ (s - 1) * MaxIter \in Nat
    BY <1>1, <2>1, <2>2, <2>3
  <2>5. Whole = (s - 1) * MaxIter + MaxIter + d * MaxIter
    BY <2>1, <2>4 DEF Whole
  <2> QED BY <1>1, <2>3, <2>4, <2>5
<1> QED BY <1>1, <1>2, <1>3 DEF Whole

\* A return of stresses and strains that are multiples of the next grain.
LEMMA ReturnIsExact ==
  ASSUME NEW n \in Nat, NEW trial \in Nat, NEW strain \in Nat, Yield \in Nat,
         Multiple(trial, Grain[n + 1]), Multiple(Yield, Grain[n + 1]), Multiple(strain, Grain[n + 1])
  PROVE  LET e == RadialReturn(trial, strain) IN
         /\ e.strain \in Nat /\ e.stress \in Int /\ e.stress <= YieldStress(e.strain)
         /\ strain <= e.strain /\ Multiple(e.strain, Grain[n])
<1>1. Per \in Nat /\ Per > 0 /\ Shear3 \in Nat /\ Hardening \in Nat /\ Per = Shear3 + Hardening
  BY LoadStepsAssumption DEF Per
<1>2. Grain[n] \in Nat /\ Grain[n + 1] = Per * Grain[n] /\ Grain[n + 1] \in Nat
  BY GrainFacts
<1>3. PICK g \in Nat : g = Grain[n]
  BY <1>2
<1>4. PICK a, b, c \in Nat : trial = a * (Per * g) /\ Yield = b * (Per * g) /\ strain = c * (Per * g)
  BY <1>2, <1>3 DEF Multiple
<1>5. YieldStress(strain) \in Nat
  <2>1. \A x, y \in Nat : x * y \in Nat
    OBVIOUS
  <2> QED BY <1>1, <2>1 DEF YieldStress
<1>6. CASE trial <= YieldStress(strain)
  <2>1. RadialReturn(trial, strain) = [stress |-> trial, strain |-> strain]
    BY <1>6 DEF RadialReturn
  <2>2. Multiple(strain, Grain[n])
    <3>1. n + 1 \in Nat /\ n \in 0..(n + 1)
      OBVIOUS
    <3> QED BY <3>1, GrainDivides
  <2> QED BY <1>6, <2>1, <2>2
<1>7. CASE ~(trial <= YieldStress(strain))
  <2>1. PICK m \in Int : m = (a - b - Hardening * c) * g
    <3>1. \A x, y \in Int : x * y \in Int
      OBVIOUS
    <3> QED BY <1>1, <3>1
  <2>2. trial - YieldStress(strain) = Per * m
    <3>1. \A w, x, y, z, h \in Int : (x * (w * z)) - ((y * (w * z)) + h * (c * (w * z))) = w * ((x - y - h * c) * z)
      OBVIOUS
    <3>2. (a * (Per * g)) - ((b * (Per * g)) + Hardening * (c * (Per * g))) = Per * ((a - b - Hardening * c) * g)
      BY <1>1, <3>1
    <3> QED BY <1>4, <2>1, <3>2 DEF YieldStress
  <2>3. m \in Nat /\ m > 0
    <3>1. Per * m > 0
      BY <1>5, <1>7, <2>2
    <3>2. \A x \in Nat, y \in Int : x > 0 /\ x * y > 0 => y > 0
      OBVIOUS
    <3> QED BY <1>1, <2>1, <3>1, <3>2
  <2>4. (trial - YieldStress(strain)) \div Per = m
    <3>1. \A x, y \in Nat : x > 0 => (x * y) \div x = y
      OBVIOUS
    <3> QED BY <1>1, <2>2, <2>3, <3>1
  <2>5. RadialReturn(trial, strain) = [stress |-> trial - Shear3 * m, strain |-> strain + m]
    BY <1>7, <2>4, Zenon DEF RadialReturn, Per
  <2>6. trial - Shear3 * m = YieldStress(strain + m) /\ trial - Shear3 * m \in Int
    <3>1. \A s, h, x, y, k \in Int : x - (y + h * k) = (s + h) * m => x - s * m = y + h * (k + m)
      OBVIOUS
    <3>2. trial - (Yield + Hardening * strain) = (Shear3 + Hardening) * m
      BY <1>1, <2>2 DEF YieldStress
    <3>3. trial - Shear3 * m = Yield + Hardening * (strain + m)
      BY <1>1, <3>1, <3>2
    <3>4. Shear3 * m \in Int
      BY <1>1, <2>1
    <3> QED BY <3>3, <3>4 DEF YieldStress
  <2>7. Multiple(strain + m, Grain[n])
    <3>1. \A x, y, z, h \in Int : c * (x * z) + y * z = (c * x + y) * z
      OBVIOUS
    <3>2. PICK q \in Int : q = c * Per + (a - b - Hardening * c)
      <4>1. \A x, y \in Int : x * y \in Int
        OBVIOUS
      <4> QED BY <1>1, <4>1
    <3>3. strain + m = q * g
      BY <1>1, <1>4, <2>1, <3>1, <3>2
    <3>4. strain + m \in Nat /\ strain + m > 0
      BY <2>3
    <3>5. \A x \in Int : x * g > 0 => x \in Nat
      OBVIOUS
    <3>6. q \in Nat
      BY <3>3, <3>4, <3>5
    <3> QED BY <1>3, <3>3, <3>6 DEF Multiple
  <2> QED BY <2>3, <2>5, <2>6, <2>7
<1> QED BY <1>6, <1>7

\* The stresses that the solver can try are multiples of every grain it comes to.
LEMMA StressesAreMultiples ==
  ASSUME NEW stress \in Trials \cup {Yield}, NEW n \in 0..Whole
  PROVE  stress \in Nat /\ Multiple(stress, Grain[n])
<1>1. stress \in Nat /\ stress % Grain[Whole] = 0
  BY LoadStepsAssumption DEF Whole
<1>2. Whole \in Nat /\ Grain[Whole] \in Nat /\ Grain[Whole] > 0
  BY WholeIs, GrainFacts
<1>3. \A x, g \in Nat : g > 0 /\ x % g = 0 => x = (x \div g) * g /\ x \div g \in Nat
  OBVIOUS
<1>4. Multiple(stress, Grain[Whole])
  BY <1>1, <1>2, <1>3 DEF Multiple
<1> QED BY <1>1, <1>2, <1>4, GrainDivides

\* An analysis starts with no load, no stress and no strain.
LEMMA LoadInitially == LoadInit => LoadInv
<1> SUFFICES ASSUME LoadInit PROVE LoadInv
  OBVIOUS
<1>1. history = <<>> /\ element.stress = 0 /\ element.strain = 0 /\ analysis = "Running"
  BY DEF LoadInit
<1>2. Step = 1 /\ Iter = 0 /\ Len(history) = 0 /\ DOMAIN history = {} /\ history \in Seq(Entry)
  BY <1>1 DEF Step, Iter
<1>3. LoadCount \in Nat \ {0} /\ MaxIter \in Nat \ {0} /\ Yield \in Nat /\ Hardening \in Nat /\ Whole \in Nat
  BY LoadStepsAssumption, WholeIs
<1>4. YieldStress(0) = Yield
  BY <1>3 DEF YieldStress
<1>5. Multiple(0, Grain[Whole])
  <2>1. 0 = 0 * Grain[Whole]
    BY <1>3, GrainFacts
  <2> QED BY <2>1 DEF Multiple
<1>6. (Step - 1) * MaxIter + Iter = 0
  BY <1>2, <1>3
<1> QED BY <1>1, <1>2, <1>3, <1>4, <1>5, <1>6 DEF LoadInv

\* Every iteration keeps the invariant.
LEMMA LoadStep == LoadInv /\ [LoadNext]_loadVars => LoadInv'
<1> SUFFICES ASSUME LoadInv, [LoadNext]_loadVars PROVE LoadInv'
  OBVIOUS
<1>1. CASE UNCHANGED loadVars
  BY <1>1 DEF loadVars, LoadInv, Step, Iter, YieldStress
<1>2. ASSUME NEW trial \in Trials, NEW converged \in BOOLEAN, Iterate(trial, converged) PROVE LoadInv'
  <2>1. PICK n \in Nat : n = Len(history) /\ DOMAIN history = 1..n /\ history \in Seq(Entry)
    BY DEF LoadInv
  <2>2. /\ LoadCount \in Nat \ {0} /\ MaxIter \in Nat \ {0} /\ Yield \in Nat /\ Whole \in Nat
        /\ element.strain \in Nat /\ Step \in 1..LoadCount /\ Iter \in 0..(MaxIter - 1)
    <3>1. LoadCount \in Nat \ {0} /\ MaxIter \in Nat \ {0} /\ Yield \in Nat /\ Whole \in Nat
      BY LoadStepsAssumption, WholeIs
    <3>2. analysis = "Running"
      BY <1>2 DEF Iterate
    <3>3. element.strain \in Nat /\ Step \in 1..(LoadCount + 1) /\ Iter \in 0..MaxIter /\ Step <= LoadCount /\ Iter < MaxIter
      BY <3>2 DEF LoadInv
    <3> QED BY <3>1, <3>3
  <2>3. PICK step \in 1..LoadCount, iter \in 0..(MaxIter - 1), old \in Nat : step = Step /\ iter = Iter /\ old = element.strain
    BY <2>2
  <2>4. n <= (step - 1) * MaxIter + iter /\ n + 1 <= Whole
    <3>1. n <= (step - 1) * MaxIter + iter
      BY <2>1, <2>3 DEF LoadInv
    <3>2. (step - 1) * MaxIter + iter + 1 <= Whole
      BY WholeIs
    <3>3. (step - 1) * MaxIter \in Int
      <4>1. \A a, b \in Int : a * b \in Int
        OBVIOUS
      <4> QED BY <2>2, <4>1
    <3> QED BY <2>2, <3>1, <3>2, <3>3
  <2>5. PICK m \in Nat : m = Whole - (n + 1) /\ m + 1 = Whole - n /\ m \in 0..Whole /\ m + 1 \in 0..Whole
    BY <2>2, <2>4
  <2> DEFINE e == RadialReturn(trial, old)
  <2>6. /\ e.strain \in Nat /\ e.stress \in Int /\ e.stress <= YieldStress(e.strain)
        /\ old <= e.strain /\ Multiple(e.strain, Grain[m])
    <3>1. Multiple(old, Grain[m + 1])
      BY <2>1, <2>3, <2>5 DEF LoadInv
    <3>2. trial \in Nat /\ Multiple(trial, Grain[m + 1]) /\ Multiple(Yield, Grain[m + 1])
      BY <2>5, StressesAreMultiples
    <3> QED BY <2>2, <3>1, <3>2, ReturnIsExact
  <2> HIDE DEF e
  <2> DEFINE entry == [step |-> step, iter |-> iter, converged |-> converged, strain |-> e.strain]
  <2>7. /\ element' = e
        /\ history' = Append(history, entry)
        /\ analysis' = IF converged THEN (IF step = LoadCount THEN "Converged" ELSE "Running")
                       ELSE IF iter = MaxIter - 1 THEN "Stopped" ELSE "Running"
    BY <1>2, <2>3, Zenon DEF Iterate, e
  <2>8. entry \in Entry
    BY <2>2, <2>6 DEF Entry
  <2>9. /\ history' \in Seq(Entry) /\ Len(history') = n + 1 /\ DOMAIN history' = 1..(n + 1)
        /\ \A i \in 1..n : history'[i] = history[i]
        /\ history'[n + 1] = entry
        /\ history' # <<>>
    <3> HIDE DEF entry
    <3> QED BY <2>1, <2>7, <2>8
  <2>10. /\ entry.step = step /\ entry.iter = iter /\ entry.converged = converged /\ entry.strain = e.strain
    OBVIOUS
  <2> HIDE DEF entry
  <2>11. /\ Step' = IF converged THEN step + 1 ELSE step
         /\ Iter' = IF converged THEN 0 ELSE iter + 1
    BY <2>9, <2>10 DEF Step, Iter
  <2>12. Step' \in 1..(LoadCount + 1) /\ Iter' \in 0..MaxIter
    BY <2>2, <2>11
  <2>13. /\ analysis' \in {"Running", "Converged", "Stopped"}
         /\ analysis' = "Running" => Step' <= LoadCount /\ Iter' < MaxIter
         /\ analysis' = "Converged" => Step' = LoadCount + 1
         /\ analysis' = "Stopped" => Iter' = MaxIter
    BY <2>2, <2>7, <2>11
  <2>14. Len(history') <= (Step' - 1) * MaxIter + Iter'
    <3>1. CASE converged
      <4>1. \A a, b \in Int : ((a + 1) - 1) * b = (a - 1) * b + b /\ (a - 1) * b \in Int
        OBVIOUS
      <4>2. ((step + 1) - 1) * MaxIter = (step - 1) * MaxIter + MaxIter /\ (step - 1) * MaxIter \in Int
        BY <2>2, <4>1
      <4>3. Step' = step + 1 /\ Iter' = 0
        BY <2>11, <3>1
      <4> QED BY <2>2, <2>4, <2>9, <4>2, <4>3
    <3>2. CASE ~converged
      <4>1. \A a, b \in Int : a * b \in Int
        OBVIOUS
      <4>2. (step - 1) * MaxIter \in Int
        BY <2>2, <4>1
      <4>3. Step' = step /\ Iter' = iter + 1
        BY <2>11, <3>2
      <4> QED BY <2>2, <2>4, <2>9, <4>2, <4>3
    <3> QED BY <3>1, <3>2
  <2>15. Len(history') <= Whole /\ Multiple(element'.strain, Grain[Whole - Len(history')])
    BY <2>2, <2>4, <2>5, <2>6, <2>7, <2>9
  <2>16. \A i \in 1..n : history[i] \in Entry /\ history[i].strain \in Nat /\ history[i].strain <= old
    <3>1. ASSUME NEW i \in 1..n PROVE history[i] \in Entry
      <4> HIDE DEF Entry
      <4> QED BY <2>1
    <3>2. \A i \in 1..n : history[i].strain <= old
      BY <2>1, <2>3 DEF LoadInv
    <3> QED BY <3>1, <3>2 DEF Entry
  <2>17. \A i \in DOMAIN history' : history'[i].strain <= element'.strain
    <3>1. ASSUME NEW i \in 1..(n + 1) PROVE history'[i].strain <= e.strain
      <4>1. CASE i = n + 1
        BY <2>6, <2>9, <2>10, <4>1
      <4>2. CASE i \in 1..n
        BY <2>6, <2>9, <2>16, <4>2
      <4> QED BY <4>1, <4>2
    <3> QED BY <2>7, <2>9, <3>1
  <2>18. \A i, j \in DOMAIN history' : i < j => history'[i].strain <= history'[j].strain
    <3>1. ASSUME NEW i \in 1..(n + 1), NEW j \in 1..(n + 1), i < j PROVE history'[i].strain <= history'[j].strain
      <4>1. i \in 1..n
        BY <3>1
      <4>2. CASE j = n + 1
        BY <2>6, <2>9, <2>10, <2>16, <4>1, <4>2
      <4>3. CASE j \in 1..n
        BY <2>1, <2>9, <3>1, <4>1, <4>3 DEF LoadInv
      <4> QED BY <4>2, <4>3
    <3> QED BY <2>9, <3>1
  <2>19. \A s \in 1..(Step' - 1) : \E i \in DOMAIN history' : history'[i].step = s /\ history'[i].converged
    <3>1. ASSUME NEW s \in 1..(step - 1) PROVE \E i \in DOMAIN history' : history'[i].step = s /\ history'[i].converged
      <4>1. PICK i \in 1..n : history[i].step = s /\ history[i].converged
        BY <2>1, <2>3 DEF LoadInv
      <4> QED BY <2>9, <4>1
    <3>2. CASE converged
      <4>1. history'[n + 1].step = step /\ history'[n + 1].converged /\ n + 1 \in DOMAIN history'
        BY <2>9, <2>10, <3>2
      <4>2. \A s \in 1..(Step' - 1) : s \in 1..(step - 1) \/ s = step
        BY <2>11, <3>2
      <4> QED BY <3>1, <4>1, <4>2
    <3>3. CASE ~converged
      BY <2>11, <3>1, <3>3
    <3> QED BY <3>2, <3>3
  <2>20. Iter' <= Len(history')
    BY <2>1, <2>3, <2>9, <2>11 DEF LoadInv
  <2>21. \A k \in 0..(Iter' - 1) : ~history'[Len(history') - k].converged /\ history'[Len(history') - k].step = Step'
    <3>1. CASE converged
      BY <2>11, <3>1
    <3>2. CASE ~converged
      <4>1. ASSUME NEW k \in 0..iter PROVE ~history'[(n + 1) - k].converged /\ history'[(n + 1) - k].step = step
        <5>1. CASE k = 0
          BY <2>9, <2>10, <3>2, <5>1
        <5>2. CASE k # 0
          <6>1. k - 1 \in 0..(iter - 1) /\ (n + 1) - k = n - (k - 1) /\ iter <= n
            BY <2>1, <2>3, <5>2 DEF LoadInv
          <6>2. ~history[n - (k - 1)].converged /\ history[n - (k - 1)].step = step
            BY <2>1, <2>3, <6>1 DEF LoadInv
          <6>3. n - (k - 1) \in 1..n
            BY <6>1
          <6> QED BY <2>9, <6>1, <6>2, <6>3
        <5> QED BY <5>1, <5>2
      <4>2. Step' = step /\ Iter' - 1 = iter
        BY <2>11, <3>2
      <4> QED BY <2>9, <4>1, <4>2
    <3> QED BY <3>1, <3>2
  <2>22. element'.strain \in Nat /\ element'.stress \in Int /\ element'.stress <= YieldStress(element'.strain)
    BY <2>6, <2>7
  <2>23. YieldStress(element.strain)' = YieldStress(element'.strain)
    BY DEF YieldStress
  <2> QED BY <2>9, <2>12, <2>13, <2>14, <2>15, <2>17, <2>18, <2>19, <2>20, <2>21, <2>22, <2>23 DEF LoadInv
<1> QED BY <1>1, <1>2 DEF LoadNext

\* The property follows from the invariant.
LEMMA LoadsCarried == LoadInv => LoadIsCarried
<1> SUFFICES ASSUME LoadInv PROVE LoadIsCarried
  OBVIOUS
<1>1. PICK n \in Nat : n = Len(history) /\ DOMAIN history = 1..n
  BY DEF LoadInv
<1>2. LoadCount \in Nat \ {0} /\ MaxIter \in Nat \ {0}
  BY LoadStepsAssumption
<1>3. ASSUME analysis = "Converged"
      PROVE  \A s \in 1..LoadCount : \E i \in DOMAIN history : history[i].step = s /\ history[i].converged
  <2>1. Step - 1 = LoadCount
    BY <1>2, <1>3 DEF LoadInv
  <2> QED BY <2>1 DEF LoadInv
<1>4. ASSUME analysis = "Stopped"
      PROVE  /\ Len(history) >= MaxIter
             /\ \A k \in 0..(MaxIter - 1) : LET h == history[Len(history) - k]
                                            IN  ~h.converged /\ h.step = history[Len(history)].step
  <2>1. Iter = MaxIter /\ MaxIter <= n
    BY <1>1, <1>4 DEF LoadInv
  <2>2. \A k \in 0..(MaxIter - 1) : ~history[n - k].converged /\ history[n - k].step = Step
    BY <1>1, <2>1 DEF LoadInv
  <2>3. history[n].step = Step
    <3>1. 0 \in 0..(MaxIter - 1) /\ n - 0 = n
      BY <1>2
    <3> QED BY <2>2, <3>1
  <2> QED BY <1>1, <1>2, <2>1, <2>2, <2>3
<1> QED BY <1>3, <1>4 DEF LoadInv, LoadIsCarried

\* An analysis that says it converged carried the whole load, one that stopped
\* gave all of its iterations to one step, the stress is never beyond what the
\* material bears and the plastic strain never falls: for any material, stresses
\* and numbers of steps and iterations (nonlinear.rs, nonlinear_solve();
\* plasticity.rs, radial_return()).
THEOREM LoadCarried == LoadSpec => []LoadIsCarried
<1>1. LoadInit => LoadInv
  BY LoadInitially
<1>2. LoadInv /\ [LoadNext]_loadVars => LoadInv'
  BY LoadStep
<1>3. LoadInv => LoadIsCarried
  BY LoadsCarried
<1> QED BY <1>1, <1>2, <1>3, PTL DEF LoadSpec

--------------------------------------------------------------------------
(* What holds a layer up (support.rs, tree_support.rs).                     *)

\* The sample points are the numbers from 1.
LEMMA ColumnsAre == Cardinality(Columns) \in Nat /\ Columns = 1..Cardinality(Columns) /\ DOMAIN Samples = 1..Cardinality(Columns)
                    /\ \A c \in Columns : Samples[c] = c
<1>1. Cardinality(Columns) \in Nat /\ Columns = 1..Cardinality(Columns)
  BY SupportsAssumption, FS_CardinalityType
<1> QED BY <1>1 DEF Samples

\* Some of them have a least one, and a greatest up to any.
LEMMA LeastColumn ==
  ASSUME NEW some \in SUBSET Columns, some # {}
  PROVE  \E m \in some : \A q \in some : m <= q
<1>1. some \subseteq Nat
  BY ColumnsAre
<1> QED BY <1>1, LeastElement

\* Some columns have a rightmost one.
LEMMA GreatestColumn ==
  ASSUME NEW some \in SUBSET Columns, some # {}
  PROVE  \E m \in some : \A q \in some : q <= m
<1>1. some \subseteq Int
  BY ColumnsAre
<1>2. IsFiniteSet(some)
  BY SupportsAssumption, FS_Subset
<1> QED BY <1>1, <1>2, GreatestOf

\* Every point is in the group of a first point, and each first point in its own.
LEMMA GroupsCover ==
  ASSUME NEW some \in SUBSET Columns, NEW p \in some
  PROVE  \E first \in Firsts(some) : p \in Group(some, first)
<1> DEFINE before == {q \in Firsts(some) : q <= p}
<1>0. Columns \subseteq Int
  BY ColumnsAre
<1>1. PICK m \in some : \A q \in some : m <= q
  BY LeastColumn
<1>2. m \in before
  <2>1. \A q \in some : ~(q < m)
    BY <1>0, <1>1
  <2> QED BY <1>1, <2>1 DEF Firsts
<1>3. PICK first \in before : \A q \in before : q <= first
  <2>1. before \in SUBSET Columns /\ before # {}
    BY <1>2 DEF Firsts
  <2> HIDE DEF before
  <2> QED BY <2>1, GreatestColumn
<1>4. \A q \in Firsts(some) : q <= first \/ p < q
  <2>1. ASSUME NEW q \in Firsts(some), ~(p < q) PROVE q \in before
    <3>1. q \in Int /\ p \in Int
      BY <1>0 DEF Firsts
    <3> QED BY <2>1, <3>1
  <2> QED BY <1>3, <2>1
<1> QED BY <1>3, <1>4 DEF Group

\* A first point is in its own group, and a group is made of columns.
LEMMA FirstInGroup ==
  ASSUME NEW some \in SUBSET Columns, NEW first \in Firsts(some)
  PROVE  first \in Group(some, first) /\ Group(some, first) \in SUBSET Columns
<1>1. Columns \subseteq Int /\ Firsts(some) \subseteq some
  BY ColumnsAre DEF Firsts
<1>2. PICK k \in Int : k = first /\ k \in some
  BY <1>1
<1>3. k <= k /\ \A q \in Int : q <= k \/ k < q
  OBVIOUS
<1>4. first \in some /\ first <= first /\ \A q \in Firsts(some) : q <= first \/ first < q
  BY ONLY <1>1, <1>2, <1>3, some \in SUBSET Columns
<1> QED BY <1>4 DEF Group

\* The sum of some of them.
SumStep(some, total, p) == IF p \in some THEN total + p ELSE total

SumFold(some) ==
  CHOOSE iter : iter = [z \in SUBSET (DOMAIN Samples) |->
    IF z = {} THEN 0 ELSE SumStep(some, iter[z \ {Max(z)}], Samples[Max(z)])]

SumOf(some) == FoldLeft(LAMBDA total, p : IF p \in some THEN total + p ELSE total, 0, Samples)

\* The sum of a group, as a fold.
LEMMA SumIsAFold == ASSUME NEW some PROVE SumOf(some) = SumFold(some)[DOMAIN Samples]
BY Zenon DEF SumOf, FoldLeft, MapThenFoldSet, SumFold, SumStep

\* The sums on the way.
LEMMA SumStates ==
  ASSUME NEW some, NEW n \in Nat, DOMAIN Samples = 1..n, \A i \in 1..n : Samples[i] \in Int
  PROVE  \E st \in [0..n -> Int] :
            /\ st[0] = 0
            /\ \A i \in 1..n : st[i] = SumStep(some, st[i - 1], Samples[i])
            /\ SumOf(some) = st[n]
<1> DEFINE base == 0
           step == [x \in Int \X (1..n) |-> SumStep(some, x[1], Samples[x[2]])]
           Body(g, z) == IF z = {} THEN base ELSE SumStep(some, g[z \ {Max(z)}], Samples[Max(z)])
           f == SumFold(some)
<1>1. base \in Int
  OBVIOUS
<1>2. step \in [Int \X (1..n) -> Int]
  <2>1. ASSUME NEW x \in Int \X (1..n) PROVE SumStep(some, x[1], Samples[x[2]]) \in Int
    <3>1. x[1] \in Int /\ x[2] \in 1..n
      OBVIOUS
    <3> QED BY <3>1 DEF SumStep
  <2> QED BY <2>1
<1>3. \A t \in Int, i \in 1..n : step[<<t, i>>] = SumStep(some, t, Samples[i])
  OBVIOUS
<1> HIDE DEF base, step
<1>4. PICK g : IsFold(n, Int, base, step, g)
  BY <1>1, <1>2, FoldSteps
<1>4a. g \in [SUBSET (1..n) -> Int] /\ \A z \in SUBSET (1..n) : g[z] = Next1(base, step, g, z)
  BY <1>4 DEF IsFold
<1>5. g = [z \in SUBSET (1..n) |-> Body(g, z)]
  <2>1. ASSUME NEW z \in SUBSET (1..n) PROVE g[z] = Body(g, z)
    <3>1. CASE z = {}
      BY <1>4a, <3>1 DEF Next1
    <3>2. CASE z # {}
      <4>1. PICK m, r : m = Max(z) /\ r = z \ {m}
        OBVIOUS
      <4>2. m \in 1..n /\ r \in SUBSET (1..n)
        BY <3>2, <4>1, SubsetsOfFirst
      <4>3. g[z] = step[<<g[r], m>>]
        BY <1>4a, <3>2, <4>1 DEF Next1
      <4> QED BY <1>3, <1>4a, <3>2, <4>1, <4>2, <4>3
    <3> QED BY <3>1, <3>2
  <2>2. g = [z \in SUBSET (1..n) |-> g[z]]
    BY <1>4a
  <2> HIDE DEF Body
  <2> QED BY <2>1, <2>2
<1>6. f = [z \in SUBSET (1..n) |-> Body(f, z)]
  <2>1. f = CHOOSE iter : iter = [z \in SUBSET (1..n) |-> Body(iter, z)]
    BY DEF SumFold, base
  <2> HIDE DEF f, Body
  <2> QED BY <1>5, <2>1
<1> HIDE DEF f
<1>7. f[{}] = base
  BY <1>6
<1>8. \A z \in SUBSET (1..n) : z # {} /\ f[z \ {Max(z)}] \in Int => f[z] = step[<<f[z \ {Max(z)}], Max(z)>>]
  <2>1. ASSUME NEW z \in SUBSET (1..n), z # {}, f[z \ {Max(z)}] \in Int PROVE f[z] = step[<<f[z \ {Max(z)}], Max(z)>>]
    <3>1. PICK m, r : m = Max(z) /\ r = z \ {m}
      OBVIOUS
    <3>2. m \in 1..n /\ r \in SUBSET (1..n)
      BY <2>1, <3>1, SubsetsOfFirst
    <3>3. f[z] = SumStep(some, f[r], Samples[m])
      BY <1>6, <2>1, <3>1
    <3> QED BY <1>3, <2>1, <3>1, <3>2, <3>3
  <2> QED BY <2>1
<1>9. f[1..0] = base /\ (\A i \in 1..n : f[1..i] = step[<<f[1..(i - 1)], i>>]) /\ (\A i \in 0..n : f[1..i] \in Int)
  <2>1. GoesAsFold(n, Int, base, step, f)
    BY <1>7, <1>8 DEF GoesAsFold
  <2>2. AdvancesBy(n, Int, base, step, f)
    BY <1>1, <1>2, <2>1, FoldStates
  <2> QED BY <2>2 DEF AdvancesBy
<1> DEFINE st == [i \in 0..n |-> f[1..i]]
<1>10. st \in [0..n -> Int] /\ st[0] = base /\ st[n] = f[1..n]
  BY <1>9
<1>11. \A i \in 1..n : st[i] = SumStep(some, st[i - 1], Samples[i])
  <2>1. ASSUME NEW i \in 1..n PROVE st[i] = SumStep(some, st[i - 1], Samples[i])
    <3>1. i - 1 \in 0..n /\ i \in 0..n
      OBVIOUS
    <3>2. st[i] = f[1..i] /\ st[i - 1] = f[1..(i - 1)] /\ f[1..(i - 1)] \in Int
      BY <1>9, <3>1
    <3> QED BY <1>3, <1>9, <3>2
  <2> QED BY <2>1
<1>12. SumOf(some) = f[1..n]
  BY SumIsAFold DEF SumFold, f
<1> HIDE DEF st
<1> QED BY <1>10, <1>11, <1>12 DEF base

\* The sum is a number.
LEMMA SumIsNumber == ASSUME NEW some PROVE SumOf(some) \in Int
<1>1. PICK n \in Nat : DOMAIN Samples = 1..n /\ \A i \in 1..n : Samples[i] \in Int
  BY ColumnsAre
<1>2. PICK st \in [0..n -> Int] : SumOf(some) = st[n]
  BY <1>1, SumStates
<1> QED BY <1>2

\* The medoid of a group is one of its points.
LEMMA MedoidIsOne ==
  ASSUME NEW some \in SUBSET Columns, some # {}
  PROVE  Medoid(some) \in some
<1> DEFINE off(p) == Distance(p * Cardinality(some), SumOf(some))
           offs == {off(p) : p \in some}
           nearest == {p \in some : \A q \in some : off(p) <= off(q)}
<1>1. some \subseteq Int /\ Cardinality(some) \in Nat
  <2>1. IsFiniteSet(some)
    BY SupportsAssumption, FS_Subset
  <2> QED BY <2>1, ColumnsAre, FS_CardinalityType
<1>2. \A p \in some : off(p) \in Nat
  <2>1. ASSUME NEW p \in some PROVE off(p) \in Nat
    <3>1. PICK a \in Int : a = p * Cardinality(some)
      BY <1>1
    <3>2. PICK b \in Int : b = SumOf(some)
      BY SumIsNumber
    <3>3. Distance(a, b) \in Nat
      BY DEF Distance
    <3> QED BY <3>1, <3>2, <3>3
  <2> QED BY <2>1
<1> HIDE DEF off
<1>3. PICK m \in offs : \A x \in offs : m <= x
  <2>1. offs \subseteq Nat /\ offs # {}
    BY <1>2
  <2> HIDE DEF offs
  <2> QED BY <2>1, LeastElement
<1>4. nearest \in SUBSET Columns /\ nearest # {}
  BY <1>3
<1>5. PICK p \in nearest : \A q \in nearest : p <= q
  <2> HIDE DEF nearest
  <2> QED BY <1>4, LeastColumn
<1>6. Min(nearest) = p
  <2>1. nearest \subseteq Int
    BY <1>1
  <2> HIDE DEF nearest
  <2> QED BY <1>5, <2>1, LeastOf
<1>7. Medoid(some) = Min(nearest)
  BY Zenon DEF Medoid, SumOf, off
<1> QED BY <1>5, <1>6, <1>7

\* Lines from the bed up, the ends of those that are going on, and what the trunks
\* were made for: where build_trunks() can be.
Upright == {t \in Seq(Int) : Len(t) > 0}
Tip     == [at : Int, trunk : Nat]
TrunkClaim   == [layer : Nat, cluster : SUBSET Int, trunk : Nat]
Growing == [trunks : Seq(Upright), active : Seq(Tip), new : Seq(Tip), taken : SUBSET Nat, served : SUBSET TrunkClaim, layer : Nat]

\* No trunk got shorter.
Longer(T, U) == DOMAIN T \subseteq DOMAIN U /\ \A k \in DOMAIN T : ToSet(T[k]) \subseteq ToSet(U[k])

\* The points of the lines, and that no others came than those.
OnLines(T, p)     == \E k \in DOMAIN T : p \in ToSet(T[k])
Adds(T, U, extra) == \A p : OnLines(U, p) => p \in extra \/ OnLines(T, p)

\* A trunk that reaches one layer more.
LEMMA TrunkExtended ==
  ASSUME NEW T \in Seq(Upright), NEW t \in Nat, NEW at \in Int, NEW U, U = [T EXCEPT ![t] = Append(@, at)]
  PROVE  /\ U \in Seq(Upright) /\ DOMAIN U = DOMAIN T /\ Longer(T, U) /\ (t \in DOMAIN T => at \in ToSet(U[t]))
         /\ Adds(T, U, {at})
<1>1. PICK n \in Nat : n = Len(T) /\ DOMAIN T = 1..n
  OBVIOUS
<1>2. DOMAIN U = DOMAIN T /\ (\A k \in 1..n : k # t => U[k] = T[k]) /\ (t \in 1..n => U[t] = Append(T[t], at))
  BY <1>1
<1>3. \A k \in 1..n : T[k] \in Upright
  BY <1>1
<1>4. ASSUME NEW line \in Upright
      PROVE  Append(line, at) \in Upright /\ ToSet(Append(line, at)) = ToSet(line) \cup {at}
  <2>1. PICK m \in Nat : m = Len(line) /\ line \in Seq(Int)
    BY DEF Upright
  <2>2. PICK q : q = Append(line, at)
    OBVIOUS
  <2>3. q \in Seq(Int) /\ Len(q) = m + 1 /\ q[m + 1] = at /\ \A i \in 1..m : q[i] = line[i]
    BY <2>1, <2>2
  <2>4. DOMAIN q = 1..(m + 1) /\ DOMAIN line = 1..m /\ m + 1 \in 1..(m + 1) /\ 1..m \subseteq 1..(m + 1)
    BY <2>1, <2>3
  <2>5. q \in Upright
    BY <2>3 DEF Upright
  <2>6. ToSet(line) \subseteq ToSet(q) /\ at \in ToSet(q)
    BY <2>3, <2>4 DEF ToSet
  <2>7. ASSUME NEW p \in ToSet(q) PROVE p \in ToSet(line) \/ p = at
    <3>1. PICK i \in 1..(m + 1) : p = q[i]
      BY <2>4, <2>7 DEF ToSet
    <3>2. i \in 1..m \/ i = m + 1
      OBVIOUS
    <3> QED BY <2>3, <2>4, <3>1, <3>2 DEF ToSet
  <2> QED BY <2>2, <2>5, <2>6, <2>7
<1>5. \A k \in 1..n : U[k] \in Upright /\ ToSet(T[k]) \subseteq ToSet(U[k]) /\ (k = t => at \in ToSet(U[k])) /\ ToSet(U[k]) \subseteq ToSet(T[k]) \cup {at}
  <2>1. ASSUME NEW k \in 1..n
        PROVE  U[k] \in Upright /\ ToSet(T[k]) \subseteq ToSet(U[k]) /\ (k = t => at \in ToSet(U[k])) /\ ToSet(U[k]) \subseteq ToSet(T[k]) \cup {at}
    <3>1. CASE k = t
      BY <1>2, <1>3, <1>4, <3>1
    <3>2. CASE k # t
      BY <1>2, <1>3, <3>2
    <3> QED BY <3>1, <3>2
  <2> QED BY <2>1
<1>6. U = [k \in 1..n |-> U[k]]
  BY <1>1, <1>2
<1>7. U \in Seq(Upright)
  <2>1. U \in [1..n -> Upright]
    BY ONLY <1>5, <1>6
  <2> QED BY ONLY <2>1, n \in Nat, SeqDef
<1>8. Adds(T, U, {at})
  BY <1>1, <1>2, <1>5 DEF Adds, OnLines
<1> QED BY <1>1, <1>2, <1>5, <1>7, <1>8 DEF Longer

\* A new trunk.
LEMMA TrunkAdded ==
  ASSUME NEW T \in Seq(Upright), NEW line \in Upright, NEW U, U = Append(T, line)
  PROVE  /\ U \in Seq(Upright) /\ Longer(T, U)
         /\ DOMAIN U = DOMAIN T \cup {Len(T) + 1} /\ U[Len(T) + 1] = line /\ Len(T) + 1 \notin DOMAIN T
         /\ Adds(T, U, ToSet(line))
<1>1. PICK n \in Nat : n = Len(T) /\ DOMAIN T = 1..n
  OBVIOUS
<1>2. U \in Seq(Upright) /\ Len(U) = n + 1 /\ U[n + 1] = line /\ \A i \in 1..n : U[i] = T[i]
  BY <1>1, AppendProperties
<1>3. DOMAIN U = 1..(n + 1) /\ 1..(n + 1) = 1..n \cup {n + 1} /\ n + 1 \notin 1..n
  BY <1>2
<1>4. Adds(T, U, ToSet(line))
  BY <1>1, <1>2, <1>3 DEF Adds, OnLines
<1> QED BY <1>1, <1>2, <1>3, <1>4 DEF Longer

\* The ends of trunks that go on: of each trunk one at most.
Distinct(tips)     == \A j, k \in DOMAIN tips : tips[j].trunk = tips[k].trunk => j = k
On(tips, all)      == \A k \in DOMAIN tips : tips[k].trunk \in DOMAIN all

Free(tips, trunk)  == \A k \in DOMAIN tips : tips[k].trunk # trunk
WithTip(tips, tip, u) ==
  /\ \A k \in DOMAIN u : u[k] = tip \/ (k \in DOMAIN tips /\ u[k] = tips[k])
  /\ \A k \in DOMAIN tips : k \in DOMAIN u /\ u[k] = tips[k]
  /\ \E k \in DOMAIN u : u[k] = tip

\* One end more: still one of each trunk, if the trunk had none.
LEMMA TipAdded ==
  ASSUME NEW tips \in Seq(Tip), NEW tip \in Tip, NEW all, NEW more, Longer(all, more), On(tips, all), Distinct(tips),
         tip.trunk \in DOMAIN more, Free(tips, tip.trunk), NEW u, u = Append(tips, tip)
  PROVE  u \in Seq(Tip) /\ On(u, more) /\ Distinct(u) /\ WithTip(tips, tip, u)
<1>1. PICK n \in Nat : n = Len(tips) /\ DOMAIN tips = 1..n
  OBVIOUS
<1>2. u \in Seq(Tip) /\ Len(u) = n + 1 /\ u[n + 1] = tip /\ \A i \in 1..n : u[i] = tips[i]
  BY <1>1, AppendProperties
<1>3. DOMAIN u = 1..(n + 1) /\ (\A k \in 1..(n + 1) : k \in 1..n \/ k = n + 1) /\ n + 1 \in 1..(n + 1) /\ 1..n \subseteq 1..(n + 1)
  BY <1>2
<1>4. On(u, more)
  BY <1>1, <1>2, <1>3 DEF On, Longer
<1>5. Distinct(u)
  BY <1>1, <1>2, <1>3 DEF Distinct, Free
<1>6. WithTip(tips, tip, u)
  BY <1>1, <1>2, <1>3 DEF WithTip
<1> QED BY <1>2, <1>4, <1>5, <1>6

\* Every claim is met by its trunk, no trunk goes where none was asked for, and in a
\* layer no trunk meets two.
Held(claims, all) == \A c \in claims : c.trunk \in DOMAIN all /\ AskedPlace(c) \in ToSet(all[c.trunk])
OnlyAsked(claims, all) == \A p : OnLines(all, p) => \E c \in claims : p = AskedPlace(c)
Alone(claims)     == \A c, d \in claims : c.layer = d.layer /\ c.trunk = d.trunk => c = d

\* A claim that was met stays met when trunks get longer.
LEMMA HeldStays ==
  ASSUME NEW claims, NEW all, NEW more, Held(claims, all), Longer(all, more)
  PROVE  Held(claims, more)
BY DEF Held, Longer

\* And what is new was asked for, when only that came.
LEMMA AskedStays ==
  ASSUME NEW claims, NEW all, NEW more, OnlyAsked(claims, all), NEW extra, Adds(all, more, extra),
         NEW after, claims \subseteq after, \A p \in extra : \E c \in after : p = AskedPlace(c)
  PROVE  OnlyAsked(after, more)
BY DEF OnlyAsked, Adds

\* Within a layer: the trunks that were taken, or made, are those of the claims.
PlaceState(s, i) ==
  /\ s \in Growing /\ s.layer = i
  /\ Distinct(s.active) /\ On(s.active, s.trunks) /\ Distinct(s.new) /\ On(s.new, s.trunks)
  /\ Held(s.served, s.trunks) /\ OnlyAsked(s.served, s.trunks) /\ Alone(s.served) /\ (\A c \in s.served : c.layer <= i)
  /\ \A k \in DOMAIN s.new, a \in DOMAIN s.active \ s.taken : s.new[k].trunk # s.active[a].trunk
  /\ \A c \in s.served : c.layer = i => \E k \in DOMAIN s.new : s.new[k].trunk = c.trunk

\* A cluster got a trunk that no cluster of the layer has.
Placed(s, cluster, at, t, u) ==
  /\ u \in Growing /\ u.layer = s.layer /\ u.active = s.active /\ s.taken \subseteq u.taken
  /\ u.new = Append(s.new, [at |-> at, trunk |-> t])
  /\ u.served = s.served \cup {[layer |-> s.layer, cluster |-> cluster, trunk |-> t]}
  /\ Longer(s.trunks, u.trunks) /\ t \in DOMAIN u.trunks /\ at \in ToSet(u.trunks[t]) /\ at = Medoid(cluster)
  /\ Adds(s.trunks, u.trunks, {at})
  /\ \A k \in DOMAIN s.new : s.new[k].trunk # t
  /\ \A a \in DOMAIN s.active \ u.taken : s.active[a].trunk # t

\* Placing a group keeps what is known within a layer.
LEMMA PlacedKeeps ==
  ASSUME NEW s, NEW i \in Nat, PlaceState(s, i), NEW cluster, NEW at \in Int, NEW t \in Nat, NEW u, Placed(s, cluster, at, t, u)
  PROVE  PlaceState(u, i)
<1>1. PICK tip \in Tip : tip = [at |-> at, trunk |-> t]
  BY DEF Tip
<1>2. tip.trunk = t /\ u.new = Append(s.new, tip) /\ s.new \in Seq(Tip)
  BY <1>1 DEF Placed, PlaceState, Growing
<1>3. PICK new : new = Append(s.new, tip)
  OBVIOUS
<1>4. /\ On(new, u.trunks) /\ Distinct(new)
      /\ \A k \in DOMAIN new : new[k] = tip \/ (k \in DOMAIN s.new /\ new[k] = s.new[k])
      /\ \A k \in DOMAIN s.new : k \in DOMAIN new /\ new[k] = s.new[k]
      /\ \E k \in DOMAIN new : new[k] = tip
  <2>1. /\ Longer(s.trunks, u.trunks) /\ On(s.new, s.trunks) /\ Distinct(s.new) /\ tip.trunk \in DOMAIN u.trunks
        /\ \A k \in DOMAIN s.new : s.new[k].trunk # tip.trunk
    BY <1>2 DEF Placed, PlaceState
  <2>2. PICK T : T = s.trunks
    OBVIOUS
  <2>3. PICK U : U = u.trunks
    OBVIOUS
  <2>5. PICK old \in Seq(Tip) : old = s.new
    BY <1>2
  <2>4. Longer(T, U) /\ On(old, T) /\ Distinct(old) /\ tip.trunk \in DOMAIN U /\ Free(old, tip.trunk)
    BY ONLY <2>1, <2>2, <2>3, <2>5 DEF Free
  <2>6. PICK more \in Seq(Tip) : more = Append(old, tip)
    BY <2>5, AppendProperties
  <2>7. On(more, U) /\ Distinct(more) /\ WithTip(old, tip, more)
    BY ONLY <1>1, <2>4, <2>5, <2>6, TipAdded
  <2> QED BY ONLY <1>3, <2>3, <2>5, <2>6, <2>7 DEF WithTip
<1>5. PICK claim : claim = [layer |-> s.layer, cluster |-> cluster, trunk |-> t]
  OBVIOUS
<1>6. claim.layer = i /\ claim.cluster = cluster /\ claim.trunk = t /\ u.served = s.served \cup {claim}
  BY <1>5 DEF Placed, PlaceState
<1>7. Held(u.served, u.trunks)
  <2>1. Held(s.served, u.trunks)
    BY HeldStays DEF Placed, PlaceState
  <2>2. t \in DOMAIN u.trunks /\ at = Medoid(cluster) /\ at \in ToSet(u.trunks[t])
    BY DEF Placed
  <2>3. AskedPlace(claim) = at
    BY <1>6, <2>2 DEF AskedPlace
  <2> QED BY <1>6, <2>1, <2>2, <2>3 DEF Held
<1>8. Alone(u.served)
  <2>1. \A c \in s.served : ~(c.layer = claim.layer /\ c.trunk = claim.trunk)
    BY <1>6 DEF Placed, PlaceState
  <2>2. Alone(s.served)
    BY DEF PlaceState
  <2> QED BY <1>6, <2>1, <2>2 DEF Alone
<1>9. \A c \in u.served : c.layer <= i
  BY <1>6 DEF PlaceState
<1>10. \A k \in DOMAIN new, a \in DOMAIN s.active \ u.taken : new[k].trunk # s.active[a].trunk
  BY <1>2, <1>4 DEF Placed, PlaceState
<1>11. \A c \in u.served : c.layer = i => \E k \in DOMAIN new : new[k].trunk = c.trunk
  BY <1>2, <1>4, <1>6 DEF PlaceState
<1>12. On(s.active, u.trunks)
  BY DEF On, Longer, Placed, PlaceState
<1>13. u \in Growing /\ u.layer = i /\ u.active = s.active /\ Distinct(s.active) /\ u.new = new
  BY <1>2, <1>3 DEF Placed, PlaceState
<1>14. OnlyAsked(u.served, u.trunks)
  <2>1. OnlyAsked(s.served, s.trunks) /\ Adds(s.trunks, u.trunks, {at}) /\ AskedPlace(claim) = at
    BY <1>6 DEF PlaceState, Placed, AskedPlace
  <2>2. s.served \subseteq u.served /\ \A p \in {at} : \E c \in u.served : p = AskedPlace(c)
    BY <1>6, <2>1
  <2> QED BY <2>1, <2>2, AskedStays
<1> QED BY ONLY <1>4, <1>7, <1>8, <1>9, <1>10, <1>11, <1>12, <1>13, <1>14 DEF PlaceState

\* What Place() makes of a state, whatever it is.
Makes(s, cluster, at, t, found, u) ==
  /\ at = Medoid(cluster)
  /\ u \in Growing /\ u.layer = s.layer /\ u.active = s.active /\ u.taken = s.taken \cup found
  /\ u.new = Append(s.new, [at |-> at, trunk |-> t])
  /\ u.served = s.served \cup {[layer |-> s.layer, cluster |-> cluster, trunk |-> t]}
  /\ Longer(s.trunks, u.trunks) /\ Adds(s.trunks, u.trunks, {at})
  /\ \/ found = {} /\ t \in DOMAIN u.trunks /\ t \notin DOMAIN s.trunks /\ at \in ToSet(u.trunks[t])
     \/ /\ \E a \in found : t = s.active[a].trunk
        /\ DOMAIN u.trunks = DOMAIN s.trunks /\ (t \in DOMAIN s.trunks => at \in ToSet(u.trunks[t]))

\* Placing a group continues a free trunk or starts one, through a point of the group.
LEMMA PlaceIs ==
  ASSUME NEW s \in Growing, NEW cluster \in SUBSET Columns, cluster # {}
  PROVE  \E at \in Int, t \in Nat, found \in SUBSET (DOMAIN s.active \ s.taken) : Makes(s, cluster, at, t, found, Place(s, cluster))
<1>1. PICK at \in Int : at = Medoid(cluster)
  <2>1. Medoid(cluster) \in cluster
    BY MedoidIsOne
  <2>2. Columns \subseteq Int
    BY ColumnsAre
  <2> QED BY <2>1, <2>2
<1>2. PICK found : found = NearestTrunk(s.active, s.taken, at)
  OBVIOUS
<1>3. found \in SUBSET (DOMAIN s.active \ s.taken)
  BY <1>2 DEF NearestTrunk
<1>4. /\ s.active \in Seq(Tip) /\ s.new \in Seq(Tip) /\ s.trunks \in Seq(Upright) /\ s.taken \in SUBSET Nat /\ s.served \in SUBSET TrunkClaim
      /\ s.layer \in Nat
  BY DEF Growing
<1>5. Taken(s, found) = s.taken \cup found /\ s.taken \cup found \in SUBSET Nat
  BY <1>3, <1>4 DEF Taken
<1>6. cluster \in SUBSET Int
  BY ColumnsAre
<1>7. PICK t : t = IF found = {} THEN Len(s.trunks) + 1 ELSE s.active[CHOOSE a \in found : TRUE].trunk
  OBVIOUS
<1>8. t \in Nat
  <2>1. CASE found = {}
    BY <1>4, <1>7, <2>1
  <2>2. CASE found # {}
    <3>1. PICK a : a = CHOOSE x \in found : TRUE
      OBVIOUS
    <3>2. a \in DOMAIN s.active
      BY <1>3, <2>2, <3>1
    <3>3. s.active[a] \in Tip
      BY <1>4, <3>2
    <3> QED BY <1>7, <2>2, <3>1, <3>3 DEF Tip
  <2> QED BY <2>1, <2>2
<1>9. PICK all : all = IF found = {} THEN Append(s.trunks, <<at, at>>) ELSE [s.trunks EXCEPT ![t] = Append(@, at)]
  OBVIOUS
<1>10. PICK tip \in Tip : tip = [at |-> at, trunk |-> t]
  BY <1>8 DEF Tip
<1>11. PICK claim \in TrunkClaim : claim = [layer |-> s.layer, cluster |-> cluster, trunk |-> t]
  BY <1>4, <1>6, <1>8 DEF TrunkClaim
<1>12. PICK u : u = Place(s, cluster)
  OBVIOUS
<1>13. u = [s EXCEPT !.trunks = IF found = {} THEN Append(@, <<at, at>>) ELSE [s.trunks EXCEPT ![t] = Append(@, at)],
                     !.taken = Taken(s, found),
                     !.new = Append(@, [at |-> at, trunk |-> t]),
                     !.served = @ \cup {[layer |-> s.layer, cluster |-> cluster, trunk |-> t]}]
  BY Zenon, <1>1, <1>2, <1>7, <1>12 DEF Place
<1>14. /\ u.trunks = all /\ u.taken = s.taken \cup found /\ u.new = Append(s.new, tip) /\ u.served = s.served \cup {claim}
       /\ u.active = s.active /\ u.layer = s.layer
       /\ u = [trunks |-> u.trunks, active |-> u.active, new |-> u.new, taken |-> u.taken, served |-> u.served, layer |-> u.layer]
  <2>1. s = [trunks |-> s.trunks, active |-> s.active, new |-> s.new, taken |-> s.taken, served |-> s.served, layer |-> s.layer]
    BY ONLY s \in Growing DEF Growing
  <2>2. u.active = s.active /\ u.layer = s.layer
    BY ONLY <1>13, <2>1
  <2>3. u.trunks = all
    BY ONLY <1>9, <1>13, <2>1
  <2>4. u.taken = s.taken \cup found
    BY ONLY <1>5, <1>13, <2>1
  <2>5. u.new = Append(s.new, tip)
    BY ONLY <1>10, <1>13, <2>1
  <2>6. u.served = s.served \cup {claim}
    BY ONLY <1>11, <1>13, <2>1
  <2>7. u = [trunks |-> u.trunks, active |-> u.active, new |-> u.new, taken |-> u.taken, served |-> u.served, layer |-> u.layer]
    BY ONLY <1>13, <2>1
  <2> QED BY <2>2, <2>3, <2>4, <2>5, <2>6, <2>7
<1>15. Append(s.new, tip) \in Seq(Tip) /\ s.served \cup {claim} \in SUBSET TrunkClaim
  BY <1>4, <1>10, <1>11, AppendProperties
<1>16. /\ all \in Seq(Upright) /\ Longer(s.trunks, all) /\ Adds(s.trunks, all, {at})
       /\ \/ found = {} /\ t \in DOMAIN all /\ t \notin DOMAIN s.trunks /\ at \in ToSet(all[t])
          \/ /\ \E a \in found : t = s.active[a].trunk
             /\ DOMAIN all = DOMAIN s.trunks /\ (t \in DOMAIN s.trunks => at \in ToSet(all[t]))
  <2>0. PICK T \in Seq(Upright) : T = s.trunks
    BY <1>4
  <2>1. CASE found = {}
    <3>1. PICK line : line = <<at, at>>
      OBVIOUS
    <3>2. line \in Seq(Int) /\ Len(line) = 2 /\ line[1] = at /\ DOMAIN line = 1..2
      BY <3>1
    <3>3. line \in Upright
      <4>1. line \in Seq(Int) /\ Len(line) > 0
        BY <3>2
      <4> QED BY ONLY <4>1 DEF Upright
    <3>4. ToSet(line) = {at}
      <4>1. 1 \in DOMAIN line /\ \A j \in DOMAIN line : line[j] = at
        BY <3>1, <3>2
      <4> QED BY <4>1 DEF ToSet
    <3>5. all = Append(T, line) /\ t = Len(T) + 1
      BY <1>7, <1>9, <2>0, <2>1, <3>1
    <3>6. all \in Seq(Upright) /\ Longer(T, all) /\ DOMAIN all = DOMAIN T \cup {t} /\ all[t] = line /\ t \notin DOMAIN T
          /\ Adds(T, all, ToSet(line))
      BY ONLY <2>0, <3>3, <3>5, TrunkAdded
    <3> QED BY <2>0, <2>1, <3>4, <3>6
  <2>2. CASE found # {}
    <3>1. PICK a \in found : a = CHOOSE x \in found : TRUE
      BY <2>2
    <3>2. t = s.active[a].trunk
      BY <1>7, <2>2, <3>1
    <3>3. all = [T EXCEPT ![t] = Append(@, at)]
      BY <1>9, <2>0, <2>2
    <3>4. all \in Seq(Upright) /\ DOMAIN all = DOMAIN T /\ Longer(T, all) /\ (t \in DOMAIN T => at \in ToSet(all[t]))
          /\ Adds(T, all, {at})
      BY ONLY <1>8, <2>0, <3>3, at \in Int, TrunkExtended
    <3> QED BY <2>0, <3>1, <3>2, <3>4
  <2> QED BY <2>1, <2>2
<1>17. u \in Growing
  BY <1>4, <1>5, <1>14, <1>15, <1>16 DEF Growing
<1>18. Makes(s, cluster, at, t, found, u)
  BY <1>1, <1>10, <1>11, <1>14, <1>16, <1>17 DEF Makes
<1> QED BY <1>3, <1>8, <1>12, <1>18

\* A cluster that is placed gets a trunk of its own.
LEMMA PlaceDoes ==
  ASSUME NEW s, NEW i \in Nat, PlaceState(s, i), NEW cluster \in SUBSET Columns, cluster # {}
  PROVE  \E at \in Int, t \in Nat : Placed(s, cluster, at, t, Place(s, cluster))
<1>1. s \in Growing
  BY DEF PlaceState
<1>2. PICK u : u = Place(s, cluster)
  OBVIOUS
<1>3. PICK at \in Int, t \in Nat, found \in SUBSET (DOMAIN s.active \ s.taken) : Makes(s, cluster, at, t, found, u)
  BY <1>1, <1>2, PlaceIs
<1>4. /\ t \in DOMAIN u.trunks /\ at \in ToSet(u.trunks[t])
      /\ \A k \in DOMAIN s.new : s.new[k].trunk # t
      /\ \A a \in DOMAIN s.active \ u.taken : s.active[a].trunk # t
  <2>1. CASE found = {} /\ t \in DOMAIN u.trunks /\ t \notin DOMAIN s.trunks /\ at \in ToSet(u.trunks[t])
    BY <2>1 DEF PlaceState, On
  <2>2. CASE /\ \E a \in found : t = s.active[a].trunk
             /\ DOMAIN u.trunks = DOMAIN s.trunks /\ (t \in DOMAIN s.trunks => at \in ToSet(u.trunks[t]))
    <3>1. PICK a \in found : t = s.active[a].trunk
      BY <2>2
    <3>2. a \in DOMAIN s.active \ s.taken /\ t \in DOMAIN s.trunks
      BY <3>1 DEF PlaceState, On
    <3>3. \A k \in DOMAIN s.new : s.new[k].trunk # t
      BY <3>1, <3>2 DEF PlaceState
    <3>4. u.taken = s.taken \cup found
      BY <1>3 DEF Makes
    <3>5. \A b \in DOMAIN s.active \ u.taken : s.active[b].trunk # t
      BY <3>1, <3>2, <3>4 DEF PlaceState, Distinct
    <3> QED BY <2>2, <3>2, <3>3, <3>5
  <2> QED BY <1>3, <2>1, <2>2 DEF Makes
<1>5. Placed(s, cluster, at, t, u)
  BY <1>3, <1>4 DEF Placed, Makes
<1> QED BY <1>2, <1>5

\* The groups of a layer one after the other.
PlaceStep(some, s, p) == IF p \in Firsts(some) THEN Place(s, Group(some, p)) ELSE s

PlaceFold(some, fresh) ==
  CHOOSE iter : iter = [z \in SUBSET (DOMAIN Samples) |->
    IF z = {} THEN fresh ELSE PlaceStep(some, iter[z \ {Max(z)}], Samples[Max(z)])]

AllPlaced(some, fresh) == FoldLeft(LAMBDA s, p : IF p \in Firsts(some) THEN Place(s, Group(some, p)) ELSE s, fresh, Samples)

\* Placing the groups, as a fold.
LEMMA PlacingIsAFold == ASSUME NEW some, NEW fresh PROVE AllPlaced(some, fresh) = PlaceFold(some, fresh)[DOMAIN Samples]
BY Zenon DEF AllPlaced, FoldLeft, MapThenFoldSet, PlaceFold, PlaceStep

\* A step of it is a step of trunks, whatever the state.
LEMMA PlaceStepGrows ==
  ASSUME NEW some \in SUBSET Columns, NEW s \in Growing, NEW p
  PROVE  PlaceStep(some, s, p) \in Growing
<1>1. CASE p \in Firsts(some)
  <2>1. PICK cluster \in SUBSET Columns : cluster = Group(some, p) /\ cluster # {}
    BY <1>1, FirstInGroup
  <2>2. PICK u : u = Place(s, cluster)
    OBVIOUS
  <2>3. \E at \in Int, t \in Nat, found \in SUBSET (DOMAIN s.active \ s.taken) : Makes(s, cluster, at, t, found, u)
    BY <2>1, <2>2, PlaceIs
  <2>4. u \in Growing
    BY <2>3 DEF Makes
  <2> QED BY <1>1, <2>1, <2>2, <2>4 DEF PlaceStep
<1>2. CASE p \notin Firsts(some)
  BY <1>2 DEF PlaceStep
<1> QED BY <1>1, <1>2

\* The states on the way.
LEMMA PlaceStates ==
  ASSUME NEW some \in SUBSET Columns, NEW fresh \in Growing, NEW n \in Nat, DOMAIN Samples = 1..n
  PROVE  \E st \in [0..n -> Growing] :
            /\ st[0] = fresh
            /\ \A i \in 1..n : st[i] = PlaceStep(some, st[i - 1], Samples[i])
            /\ AllPlaced(some, fresh) = st[n]
<1> DEFINE base == fresh
           step == [x \in Growing \X (1..n) |-> PlaceStep(some, x[1], Samples[x[2]])]
           Body(g, z) == IF z = {} THEN base ELSE PlaceStep(some, g[z \ {Max(z)}], Samples[Max(z)])
           f == PlaceFold(some, fresh)
<1>1. base \in Growing
  OBVIOUS
<1>2. step \in [Growing \X (1..n) -> Growing]
  <2>1. ASSUME NEW x \in Growing \X (1..n) PROVE PlaceStep(some, x[1], Samples[x[2]]) \in Growing
    <3>1. x[1] \in Growing /\ x[2] \in 1..n
      OBVIOUS
    <3> QED BY <3>1, PlaceStepGrows
  <2> QED BY <2>1
<1>3. \A t \in Growing, i \in 1..n : step[<<t, i>>] = PlaceStep(some, t, Samples[i])
  OBVIOUS
<1> HIDE DEF base, step
<1>4. PICK g : IsFold(n, Growing, base, step, g)
  BY <1>1, <1>2, FoldSteps
<1>4a. g \in [SUBSET (1..n) -> Growing] /\ \A z \in SUBSET (1..n) : g[z] = Next1(base, step, g, z)
  BY <1>4 DEF IsFold
<1>5. g = [z \in SUBSET (1..n) |-> Body(g, z)]
  <2>1. ASSUME NEW z \in SUBSET (1..n) PROVE g[z] = Body(g, z)
    <3>1. CASE z = {}
      BY <1>4a, <3>1 DEF Next1
    <3>2. CASE z # {}
      <4>1. PICK m, r : m = Max(z) /\ r = z \ {m}
        OBVIOUS
      <4>2. m \in 1..n /\ r \in SUBSET (1..n)
        BY <3>2, <4>1, SubsetsOfFirst
      <4>3. g[z] = step[<<g[r], m>>]
        BY <1>4a, <3>2, <4>1 DEF Next1
      <4> QED BY <1>3, <1>4a, <3>2, <4>1, <4>2, <4>3
    <3> QED BY <3>1, <3>2
  <2>2. g = [z \in SUBSET (1..n) |-> g[z]]
    BY <1>4a
  <2> HIDE DEF Body
  <2> QED BY <2>1, <2>2
<1>6. f = [z \in SUBSET (1..n) |-> Body(f, z)]
  <2>1. f = CHOOSE iter : iter = [z \in SUBSET (1..n) |-> Body(iter, z)]
    BY DEF PlaceFold, base
  <2> HIDE DEF f, Body
  <2> QED BY <1>5, <2>1
<1> HIDE DEF f
<1>7. f[{}] = base
  BY <1>6
<1>8. \A z \in SUBSET (1..n) : z # {} /\ f[z \ {Max(z)}] \in Growing => f[z] = step[<<f[z \ {Max(z)}], Max(z)>>]
  <2>1. ASSUME NEW z \in SUBSET (1..n), z # {}, f[z \ {Max(z)}] \in Growing PROVE f[z] = step[<<f[z \ {Max(z)}], Max(z)>>]
    <3>1. PICK m, r : m = Max(z) /\ r = z \ {m}
      OBVIOUS
    <3>2. m \in 1..n /\ r \in SUBSET (1..n)
      BY <2>1, <3>1, SubsetsOfFirst
    <3>3. f[z] = PlaceStep(some, f[r], Samples[m])
      BY <1>6, <2>1, <3>1
    <3> QED BY <1>3, <2>1, <3>1, <3>2, <3>3
  <2> QED BY <2>1
<1>9. f[1..0] = base /\ (\A i \in 1..n : f[1..i] = step[<<f[1..(i - 1)], i>>]) /\ (\A i \in 0..n : f[1..i] \in Growing)
  <2>1. GoesAsFold(n, Growing, base, step, f)
    BY <1>7, <1>8 DEF GoesAsFold
  <2>2. AdvancesBy(n, Growing, base, step, f)
    BY <1>1, <1>2, <2>1, FoldStates
  <2> QED BY <2>2 DEF AdvancesBy
<1> DEFINE st == [i \in 0..n |-> f[1..i]]
<1>10. st \in [0..n -> Growing] /\ st[0] = base /\ st[n] = f[1..n]
  BY <1>9
<1>11. \A i \in 1..n : st[i] = PlaceStep(some, st[i - 1], Samples[i])
  <2>1. ASSUME NEW i \in 1..n PROVE st[i] = PlaceStep(some, st[i - 1], Samples[i])
    <3>1. i - 1 \in 0..n /\ i \in 0..n
      OBVIOUS
    <3>2. st[i] = f[1..i] /\ st[i - 1] = f[1..(i - 1)] /\ f[1..(i - 1)] \in Growing
      BY <1>9, <3>1
    <3> QED BY <1>3, <1>9, <3>2
  <2> QED BY <2>1
<1>12. AllPlaced(some, fresh) = f[1..n]
  BY PlacingIsAFold DEF PlaceFold, f
<1> HIDE DEF st
<1> QED BY <1>10, <1>11, <1>12 DEF base

\* What was claimed stays claimed, and each group up to a point has its claim.
ClaimedFor(claims, i, cluster) == \E c \in claims : c.layer = i /\ c.cluster = cluster
ClaimedTo(claims, i, some, p) == \A first \in Firsts(some) : first <= p => ClaimedFor(claims, i, Group(some, first))

\* A step of it keeps the claims and adds that of the group of its point.
LEMMA PlaceStepClaims ==
  ASSUME NEW some \in SUBSET Columns, NEW s, NEW i \in Nat, PlaceState(s, i), NEW p \in Columns,
         ClaimedTo(s.served, i, some, p - 1), NEW u, u = PlaceStep(some, s, p)
  PROVE  PlaceState(u, i) /\ s.served \subseteq u.served /\ ClaimedTo(u.served, i, some, p)
<1>1. Columns \subseteq Int /\ Firsts(some) \subseteq Columns
  BY ColumnsAre DEF Firsts
<1>2. \A first \in Firsts(some) : first <= p => first = p \/ first <= p - 1
  <2>1. PICK q \in Int : q = p
    BY <1>1
  <2>2. \A k \in Int : k <= q => k = q \/ k <= q - 1
    OBVIOUS
  <2>3. \A first \in Firsts(some) : first \in Int
    BY <1>1
  <2> QED BY ONLY <2>1, <2>2, <2>3
<1>3. CASE p \in Firsts(some)
  <2>1. PICK cluster \in SUBSET Columns : cluster = Group(some, p) /\ cluster # {}
    BY <1>3, FirstInGroup
  <2>2. u = Place(s, cluster)
    BY <1>3, <2>1 DEF PlaceStep
  <2>3. PICK at \in Int, t \in Nat : Placed(s, cluster, at, t, u)
    BY <2>1, <2>2, PlaceDoes
  <2>4. PlaceState(u, i)
    BY <2>3, PlacedKeeps
  <2>5. PICK claim : claim = [layer |-> s.layer, cluster |-> cluster, trunk |-> t]
    OBVIOUS
  <2>6. claim.layer = i /\ claim.cluster = cluster /\ u.served = s.served \cup {claim}
    BY <2>3, <2>5 DEF Placed, PlaceState
  <2>7. ClaimedFor(u.served, i, Group(some, p))
    BY <2>1, <2>6 DEF ClaimedFor
  <2>8. \A cl : ClaimedFor(s.served, i, cl) => ClaimedFor(u.served, i, cl)
    BY <2>6 DEF ClaimedFor
  <2> QED BY <1>2, <2>4, <2>6, <2>7, <2>8 DEF ClaimedTo
<1>4. CASE p \notin Firsts(some)
  <2>1. u = s
    BY <1>4 DEF PlaceStep
  <2> QED BY <1>2, <1>4, <2>1 DEF ClaimedTo
<1> QED BY <1>3, <1>4

\* When all groups are placed, each has its claim.
LEMMA PlacingKeeps ==
  ASSUME NEW some \in SUBSET Columns, NEW fresh, NEW i \in Nat, PlaceState(fresh, i)
  PROVE  LET u == AllPlaced(some, fresh)
         IN  PlaceState(u, i) /\ fresh.served \subseteq u.served /\ \A first \in Firsts(some) : ClaimedFor(u.served, i, Group(some, first))
<1>1. PICK n \in Nat : DOMAIN Samples = 1..n /\ Columns = 1..n /\ \A c \in 1..n : Samples[c] = c
  BY ColumnsAre
<1>2. fresh \in Growing
  BY DEF PlaceState
<1>3. PICK st \in [0..n -> Growing] :
         /\ st[0] = fresh
         /\ \A c \in 1..n : st[c] = PlaceStep(some, st[c - 1], Samples[c])
         /\ AllPlaced(some, fresh) = st[n]
  BY <1>1, <1>2, PlaceStates
<1> DEFINE OK(c) == PlaceState(st[c], i) /\ fresh.served \subseteq st[c].served /\ ClaimedTo(st[c].served, i, some, c)
           Good == {c \in Nat : c <= n => OK(c)}
<1>4. Firsts(some) \subseteq 1..n
  BY <1>1 DEF Firsts
<1>5. 0 \in Good
  <2>1. \A first \in Firsts(some) : ~(first <= 0)
    BY <1>4
  <2> QED BY <1>3, <2>1 DEF ClaimedTo
<1>6. \A c \in Nat : c \in Good => c + 1 \in Good
  <2>1. ASSUME NEW c \in Nat, c \in Good, c + 1 <= n PROVE OK(c + 1)
    <3>1. PICK d \in Nat : d = c + 1 /\ d - 1 = c /\ d \in 1..n
      BY <2>1
    <3>2. OK(c)
      BY <2>1
    <3>3. st[d] = PlaceStep(some, st[c], d)
      BY <1>1, <1>3, <3>1
    <3>4. PICK s : s = st[c]
      OBVIOUS
    <3>5. PlaceState(s, i) /\ ClaimedTo(s.served, i, some, d - 1)
      BY <3>1, <3>2, <3>4
    <3>6. PICK u : u = PlaceStep(some, s, d)
      OBVIOUS
    <3>7. d \in Columns
      BY <1>1, <3>1
    <3>8. PlaceState(u, i) /\ s.served \subseteq u.served /\ ClaimedTo(u.served, i, some, d)
      BY ONLY <3>5, <3>6, <3>7, i \in Nat, some \in SUBSET Columns, PlaceStepClaims
    <3> QED BY <3>1, <3>2, <3>3, <3>4, <3>6, <3>8
  <2> QED BY <2>1
<1>7. OK(n)
  <2> HIDE DEF OK
  <2>1. Good \subseteq Nat
    OBVIOUS
  <2>2. n \in Good
    <3> HIDE DEF Good
    <3> QED BY <1>5, <1>6, <2>1, InductionOverSet
  <2> QED BY <2>2
<1>8. \A first \in Firsts(some) : first <= n
  BY <1>4
<1> QED BY <1>3, <1>7, <1>8 DEF ClaimedTo

\* A trunk that no group took goes on where it is.
LEMMA LastIsNumber == ASSUME NEW line \in Upright PROVE Last(line) \in Int /\ Last(line) \in ToSet(line)
<1>1. PICK m \in Nat : m = Len(line) /\ m > 0 /\ line \in Seq(Int)
  BY DEF Upright
<1>2. m \in DOMAIN line /\ line[m] \in Int /\ Last(line) = line[m]
  BY <1>1 DEF Last
<1> QED BY <1>2 DEF ToSet

CarryIs(s, a, tip, u) ==
  /\ u \in Growing /\ u.active = s.active /\ u.taken = s.taken /\ u.served = s.served /\ u.layer = s.layer
  /\ Longer(s.trunks, u.trunks) /\ Adds(s.trunks, u.trunks, {})
  /\ u.new = IF a \in s.taken THEN s.new ELSE Append(s.new, tip)

\* What carrying on with a trunk changes.
LEMMA CarryingIs ==
  ASSUME NEW s \in Growing, NEW a \in DOMAIN s.active
  PROVE  CarryIs(s, a, s.active[a], Carried(s, a))
<1>1. /\ s.active \in Seq(Tip) /\ s.new \in Seq(Tip) /\ s.trunks \in Seq(Upright) /\ s.taken \in SUBSET Nat /\ s.served \in SUBSET TrunkClaim
      /\ s.layer \in Nat
  BY DEF Growing
<1>2. CASE a \in s.taken
  <2>1. Carried(s, a) = s
    BY <1>2 DEF Carried
  <2>2. Longer(s.trunks, s.trunks) /\ Adds(s.trunks, s.trunks, {})
    BY DEF Longer, Adds
  <2> QED BY <1>2, <2>1, <2>2 DEF CarryIs
<1>3. CASE a \notin s.taken
  <2>1. PICK tip \in Tip : tip = s.active[a]
    BY <1>1
  <2>2. PICK t \in Nat : t = tip.trunk
    BY DEF Tip
  <2>3. PICK T \in Seq(Upright) : T = s.trunks
    BY <1>1
  <2>4. PICK U : U = [T EXCEPT ![t] = Append(@, Last(@))]
    OBVIOUS
  <2>5. U \in Seq(Upright) /\ Longer(T, U) /\ Adds(T, U, {})
    <3>1. CASE t \in DOMAIN T
      <4>1. T[t] \in Upright
        BY <3>1
      <4>2. PICK at \in Int : at = Last(T[t]) /\ at \in ToSet(T[t])
        BY <4>1, LastIsNumber
      <4>3. U = [T EXCEPT ![t] = Append(@, at)]
        BY <2>4, <4>2
      <4>4. U \in Seq(Upright) /\ Longer(T, U) /\ Adds(T, U, {at})
        BY <4>3, TrunkExtended
      <4>5. OnLines(T, at)
        BY <3>1, <4>2 DEF OnLines
      <4>6. Adds(T, U, {})
        BY ONLY <4>4, <4>5 DEF Adds
      <4> QED BY <4>4, <4>6
    <3>2. CASE t \notin DOMAIN T
      <4>1. U = T
        BY <2>4, <3>2
      <4> QED BY <4>1 DEF Longer, Adds
    <3> QED BY <3>1, <3>2
  <2>6. PICK new \in Seq(Tip) : new = Append(s.new, tip)
    BY <1>1, AppendProperties
  <2>7. PICK u : u = Carried(s, a)
    OBVIOUS
  <2>8. u = [s EXCEPT !.trunks = U, !.new = new]
    <3>1. u = [s EXCEPT !.trunks = [s.trunks EXCEPT ![s.active[a].trunk] = Append(@, Last(@))], !.new = Append(@, s.active[a])]
      BY Zenon, <1>3, <2>7 DEF Carried
    <3>2. s = [trunks |-> s.trunks, active |-> s.active, new |-> s.new, taken |-> s.taken, served |-> s.served, layer |-> s.layer]
      BY DEF Growing
    <3>3. [s.trunks EXCEPT ![s.active[a].trunk] = Append(@, Last(@))] = U
      BY <2>1, <2>2, <2>3, <2>4
    <3> QED BY ONLY <2>1, <2>6, <3>1, <3>2, <3>3
  <2>9. u.trunks = U /\ u.new = new /\ u.active = s.active /\ u.taken = s.taken /\ u.served = s.served /\ u.layer = s.layer /\ u \in Growing
    BY <2>5, <2>6, <2>8 DEF Growing
  <2> QED BY <1>3, <2>1, <2>3, <2>5, <2>6, <2>7, <2>9 DEF CarryIs
<1> QED BY <1>2, <1>3

TipsOf(tips, n) == tips \in Seq(Tip) /\ Len(tips) = n
Numbered(marks, n) == DOMAIN marks = 1..n /\ \A i \in 1..n : marks[i] = i

Going(tips) == {s \in Growing : s.active = tips}

CarryStep(s, a) == Carried(s, a)

CarryFold(from, marks) ==
  CHOOSE iter : iter = [z \in SUBSET (DOMAIN marks) |->
    IF z = {} THEN from ELSE CarryStep(iter[z \ {Max(z)}], marks[Max(z)])]

AllCarried(from, marks) == FoldLeft(Carried, from, marks)

\* Carrying on with the trunks, as a fold.
LEMMA CarryingIsAFold == ASSUME NEW from, NEW marks PROVE AllCarried(from, marks) = CarryFold(from, marks)[DOMAIN marks]
BY Zenon DEF AllCarried, FoldLeft, MapThenFoldSet, CarryFold, CarryStep

\* A step of it leaves alone which trunks were active.
LEMMA CarryStepGoes ==
  ASSUME NEW tips \in Seq(Tip), NEW s \in Going(tips), NEW a \in 1..Len(tips)
  PROVE  CarryStep(s, a) \in Going(tips) /\ CarryIs(s, a, tips[a], CarryStep(s, a))
<1>1. s \in Growing /\ s.active = tips /\ a \in DOMAIN s.active
  BY DEF Going
<1>2. CarryIs(s, a, tips[a], Carried(s, a))
  BY <1>1, CarryingIs
<1>3. CarryStep(s, a) \in Going(tips)
  BY <1>1, <1>2 DEF CarryIs, Going, CarryStep
<1> QED BY <1>2, <1>3 DEF CarryStep

CarryRun(st, n, tips, from, marks) ==
  /\ st \in [0..n -> Going(tips)] /\ st[0] = from
  /\ \A i \in 1..n : st[i] = CarryStep(st[i - 1], marks[i])
  /\ AllCarried(from, marks) = st[n]

\* The states on the way.
LEMMA CarryStates ==
  ASSUME NEW tips, NEW n \in Nat, TipsOf(tips, n), NEW from \in Going(tips), NEW marks, Numbered(marks, n)
  PROVE  \E st : CarryRun(st, n, tips, from, marks)
<1> DEFINE base == from
           step == [x \in Going(tips) \X (1..n) |-> CarryStep(x[1], marks[x[2]])]
           Body(g, z) == IF z = {} THEN base ELSE CarryStep(g[z \ {Max(z)}], marks[Max(z)])
           f == CarryFold(from, marks)
<1>1. base \in Going(tips)
  OBVIOUS
<1>2. step \in [Going(tips) \X (1..n) -> Going(tips)]
  <2>1. ASSUME NEW x \in Going(tips) \X (1..n) PROVE CarryStep(x[1], marks[x[2]]) \in Going(tips)
    <3>1. x[1] \in Going(tips) /\ x[2] \in 1..n
      OBVIOUS
    <3> QED BY <3>1, CarryStepGoes DEF Numbered, TipsOf
  <2> QED BY <2>1
<1>3. \A t \in Going(tips), i \in 1..n : step[<<t, i>>] = CarryStep(t, marks[i])
  OBVIOUS
<1> HIDE DEF base, step
<1>4. PICK g : IsFold(n, Going(tips), base, step, g)
  BY <1>1, <1>2, FoldSteps
<1>4a. g \in [SUBSET (1..n) -> Going(tips)] /\ \A z \in SUBSET (1..n) : g[z] = Next1(base, step, g, z)
  BY <1>4 DEF IsFold
<1>5. g = [z \in SUBSET (1..n) |-> Body(g, z)]
  <2>1. ASSUME NEW z \in SUBSET (1..n) PROVE g[z] = Body(g, z)
    <3>1. CASE z = {}
      BY <1>4a, <3>1 DEF Next1
    <3>2. CASE z # {}
      <4>1. PICK m, r : m = Max(z) /\ r = z \ {m}
        OBVIOUS
      <4>2. m \in 1..n /\ r \in SUBSET (1..n)
        BY <3>2, <4>1, SubsetsOfFirst
      <4>3. g[z] = step[<<g[r], m>>]
        BY <1>4a, <3>2, <4>1 DEF Next1
      <4> QED BY <1>3, <1>4a, <3>2, <4>1, <4>2, <4>3
    <3> QED BY <3>1, <3>2
  <2>2. g = [z \in SUBSET (1..n) |-> g[z]]
    BY <1>4a
  <2> HIDE DEF Body
  <2> QED BY <2>1, <2>2
<1>6. f = [z \in SUBSET (1..n) |-> Body(f, z)]
  <2>1. f = CHOOSE iter : iter = [z \in SUBSET (1..n) |-> Body(iter, z)]
    BY DEF Numbered, CarryFold, base
  <2> HIDE DEF f, Body
  <2> QED BY <1>5, <2>1
<1> HIDE DEF f
<1>7. f[{}] = base
  BY <1>6
<1>8. \A z \in SUBSET (1..n) : z # {} /\ f[z \ {Max(z)}] \in Going(tips) => f[z] = step[<<f[z \ {Max(z)}], Max(z)>>]
  <2>1. ASSUME NEW z \in SUBSET (1..n), z # {}, f[z \ {Max(z)}] \in Going(tips) PROVE f[z] = step[<<f[z \ {Max(z)}], Max(z)>>]
    <3>1. PICK m, r : m = Max(z) /\ r = z \ {m}
      OBVIOUS
    <3>2. m \in 1..n /\ r \in SUBSET (1..n)
      BY <2>1, <3>1, SubsetsOfFirst
    <3>3. f[z] = CarryStep(f[r], marks[m])
      BY <1>6, <2>1, <3>1
    <3> QED BY <1>3, <2>1, <3>1, <3>2, <3>3
  <2> QED BY <2>1
<1>9. f[1..0] = base /\ (\A i \in 1..n : f[1..i] = step[<<f[1..(i - 1)], i>>]) /\ (\A i \in 0..n : f[1..i] \in Going(tips))
  <2>1. GoesAsFold(n, Going(tips), base, step, f)
    BY <1>7, <1>8 DEF GoesAsFold
  <2>2. AdvancesBy(n, Going(tips), base, step, f)
    BY <1>1, <1>2, <2>1, FoldStates
  <2> QED BY <2>2 DEF AdvancesBy
<1> DEFINE st == [i \in 0..n |-> f[1..i]]
<1>10. st \in [0..n -> Going(tips)] /\ st[0] = base /\ st[n] = f[1..n]
  BY <1>9
<1>11. \A i \in 1..n : st[i] = CarryStep(st[i - 1], marks[i])
  <2>1. ASSUME NEW i \in 1..n PROVE st[i] = CarryStep(st[i - 1], marks[i])
    <3>1. i - 1 \in 0..n /\ i \in 0..n
      OBVIOUS
    <3>2. st[i] = f[1..i] /\ st[i - 1] = f[1..(i - 1)] /\ f[1..(i - 1)] \in Going(tips)
      BY <1>9, <3>1
    <3> QED BY <1>3, <1>9, <3>2
  <2> QED BY <2>1
<1>12. AllCarried(from, marks) = f[1..n]
  BY CarryingIsAFold DEF CarryFold, Numbered, f
<1> HIDE DEF st
<1> QED BY <1>10, <1>11, <1>12 DEF base, CarryRun

\* The trunks that go on: those that were placed, and those that no group took and
\* are in front of the next.
CarryState(from, s, a) ==
  /\ s \in Growing /\ s.active = from.active /\ s.taken = from.taken /\ s.served = from.served /\ s.layer = from.layer
  /\ Longer(from.trunks, s.trunks) /\ Adds(from.trunks, s.trunks, {}) /\ Distinct(s.new) /\ On(s.new, s.trunks)
  /\ \A b \in DOMAIN from.active \ from.taken : b > a => Free(s.new, from.active[b].trunk)

\* A step of it adds the end of a trunk that no group took, and that is not among the new ones.
LEMMA CarryStepKeeps ==
  ASSUME NEW from, NEW s, NEW a \in Nat, a > 0, a \in DOMAIN from.active, from \in Growing,
         Distinct(from.active), On(from.active, from.trunks), CarryState(from, s, a - 1),
         NEW u, CarryIs(s, a, from.active[a], u)
  PROVE  CarryState(from, u, a)
<1>1. PICK tips \in Seq(Tip) : tips = from.active
  BY DEF Growing
<1>2. PICK n \in Nat : DOMAIN tips = 1..n
  <2>1. Len(tips) \in Nat /\ DOMAIN tips = 1..Len(tips)
    OBVIOUS
  <2> QED BY <2>1
<1>3. PICK tip \in Tip : tip = tips[a]
  BY <1>1
<1>4. PICK T, U : T = s.trunks /\ U = u.trunks
  OBVIOUS
<1>5. Longer(from.trunks, U) /\ Adds(from.trunks, U, {})
  BY <1>4 DEF Longer, Adds, CarryState, CarryIs
<1>6. PICK old \in Seq(Tip) : old = s.new
  BY DEF CarryState, Growing
<1>7. Longer(T, U) /\ On(old, T) /\ Distinct(old)
  BY <1>4, <1>6 DEF CarryState, CarryIs
<1>8. u \in Growing /\ u.active = from.active /\ u.taken = from.taken /\ u.served = from.served /\ u.layer = from.layer
  BY DEF CarryState, CarryIs
<1>9. \A b \in DOMAIN tips \ from.taken : b > a - 1 => Free(old, tips[b].trunk)
  BY <1>1, <1>6 DEF CarryState
<1>10. \A b \in DOMAIN tips : b > a => b > a - 1 /\ b # a
  BY <1>2
<1>11. PICK new : new = u.new
  OBVIOUS
<1>12. CASE a \in from.taken
  <2>1. new = old
    BY <1>6, <1>11, <1>12 DEF CarryIs, CarryState
  <2>2. \A b \in DOMAIN tips \ from.taken : b > a => Free(old, tips[b].trunk)
    BY <1>9, <1>10
  <2>3. On(new, U)
    BY <1>7, <2>1 DEF On, Longer
  <2> QED BY <1>1, <1>4, <1>5, <1>7, <1>8, <1>11, <2>1, <2>2, <2>3 DEF CarryState
<1>13. CASE a \notin from.taken
  <2>1. new = Append(old, tip)
    BY <1>1, <1>3, <1>6, <1>11, <1>13 DEF CarryIs, CarryState
  <2>2. a > a - 1 /\ a \in DOMAIN tips \ from.taken
    BY <1>1, <1>13
  <2>3. Free(old, tip.trunk)
    BY <1>3, <1>9, <2>2
  <2>4. tip.trunk \in DOMAIN U
    BY <1>1, <1>3, <1>5 DEF On, Longer
  <2>5. On(new, U) /\ Distinct(new) /\ WithTip(old, tip, new)
    BY ONLY <1>3, <1>6, <1>7, <2>1, <2>3, <2>4, TipAdded
  <2>6. ASSUME NEW b \in DOMAIN tips \ from.taken, b > a PROVE Free(new, tips[b].trunk)
    <3>1. b > a - 1 /\ b # a
      BY <1>10, <2>6
    <3>2. Free(old, tips[b].trunk)
      BY <1>9, <3>1
    <3>3. tips[b].trunk # tip.trunk
      BY <1>1, <1>3, <3>1 DEF Distinct
    <3> QED BY <2>5, <3>2, <3>3 DEF Free, WithTip
  <2> QED BY <1>1, <1>4, <1>5, <1>7, <1>8, <1>11, <2>5, <2>6 DEF CarryState
<1> QED BY <1>12, <1>13

\* When all are carried on, each trunk has one end at most.
LEMMA CarryingKeeps ==
  ASSUME NEW from, NEW i \in Nat, PlaceState(from, i)
  PROVE  \E a \in Nat : CarryState(from, AllCarried(from, [b \in DOMAIN from.active |-> b]), a)
<1>1. PICK tips \in Seq(Tip) : tips = from.active
  BY DEF PlaceState, Growing
<1>2. PICK n \in Nat : n = Len(tips) /\ DOMAIN tips = 1..n
  OBVIOUS
<1>3. from \in Going(tips) /\ from \in Growing /\ Distinct(from.active) /\ On(from.active, from.trunks)
  BY <1>1 DEF Going, PlaceState
<1>4a. PICK marks : marks = [b \in DOMAIN from.active |-> b]
  OBVIOUS
<1>4b. Numbered(marks, n)
  BY <1>1, <1>2, <1>4a DEF Numbered
<1>4c. PICK st : CarryRun(st, n, tips, from, marks)
  <2>1. TipsOf(tips, n)
    BY <1>2 DEF TipsOf
  <2> QED BY <1>3, <1>4b, <2>1, CarryStates
<1>4. /\ st \in [0..n -> Going(tips)] /\ st[0] = from
      /\ \A a \in 1..n : st[a] = CarryStep(st[a - 1], marks[a])
      /\ AllCarried(from, marks) = st[n]
  BY <1>4c DEF CarryRun
<1> DEFINE Good == {a \in Nat : a <= n => CarryState(from, st[a], a)}
<1>5. 0 \in Good
  <2>1. /\ Longer(from.trunks, from.trunks) /\ Adds(from.trunks, from.trunks, {})
        /\ Distinct(from.new) /\ On(from.new, from.trunks) /\ from \in Growing
    BY DEF Longer, Adds, PlaceState
  <2>2. \A b \in DOMAIN from.active \ from.taken : Free(from.new, from.active[b].trunk)
    BY DEF PlaceState, Free
  <2>3. CarryState(from, from, 0)
    BY <2>1, <2>2 DEF CarryState
  <2> QED BY <1>4, <2>3
<1>6. \A a \in Nat : a \in Good => a + 1 \in Good
  <2>1. ASSUME NEW a \in Nat, a \in Good, a + 1 <= n PROVE CarryState(from, st[a + 1], a + 1)
    <3>1. PICK d \in Nat : d = a + 1 /\ d - 1 = a /\ d \in 1..n /\ d > 0
      BY <2>1
    <3>2. PICK s : s = st[a]
      OBVIOUS
    <3>3. CarryState(from, s, d - 1) /\ s \in Going(tips)
      <4>1. a \in 0..n
        BY <3>1
      <4> QED BY <1>4, <2>1, <3>1, <3>2, <4>1
    <3>4. PICK u : u = CarryStep(s, d)
      OBVIOUS
    <3>5. st[d] = u
      BY <1>4, <1>4b, <3>1, <3>2, <3>4 DEF Numbered
    <3>6. CarryIs(s, d, from.active[d], u)
      BY <1>1, <1>2, <3>1, <3>3, <3>4, CarryStepGoes
    <3>7. CarryState(from, u, d)
      BY <1>1, <1>2, <1>3, <3>1, <3>3, <3>6, CarryStepKeeps
    <3> QED BY <3>1, <3>5, <3>7
  <2> QED BY <2>1
<1>7. n \in Good
  <2> HIDE DEF Good
  <2> QED BY <1>5, <1>6, InductionOverSet
<1>8. n \in Nat /\ CarryState(from, AllCarried(from, marks), n)
  BY <1>2, <1>4, <1>7
<1> QED BY Zenon, <1>4a, <1>8

\* A layer: the groups are placed, and the other trunks go on.
FreshLayer(s, i) == [s EXCEPT !.layer = i, !.taken = {}, !.new = <<>>]
Marks(s)    == [a \in DOMAIN s.active |-> a]
Onward(s)   == [s EXCEPT !.active = s.new]

\* A layer is the placing of its groups, and then the carrying.
LEMMA GrowTrunksIs ==
  ASSUME NEW layers, NEW s, NEW i
  PROVE  GrowTrunks(layers, s, i) = CarryOn(AllPlaced(Overhangs(layers, i), FreshLayer(s, i)))
BY Zenon DEF GrowTrunks, AllPlaced, FreshLayer

\* After the carrying, the new ends are the active ones.
LEMMA CarryOnIs == ASSUME NEW s PROVE CarryOn(s) = Onward(AllCarried(s, Marks(s)))
BY Zenon DEF CarryOn, AllCarried, Marks, Onward

\* What hangs is a column.
LEMMA OverhangsAreColumns == ASSUME NEW layers, NEW i PROVE Overhangs(layers, i) \in SUBSET Columns
BY DEF Overhangs

\* What a layer starts from.
LEMMA FreshIs ==
  ASSUME NEW s \in Growing, NEW i \in Nat, NEW u, u = FreshLayer(s, i)
  PROVE  /\ u \in Growing /\ u.layer = i /\ u.taken = {} /\ u.new = <<>>
         /\ u.trunks = s.trunks /\ u.active = s.active /\ u.served = s.served
<1>1. <<>> \in Seq(Tip) /\ {} \in SUBSET Nat
  OBVIOUS
<1>2. PICK none \in Seq(Tip), nobody \in SUBSET Nat : none = <<>> /\ nobody = {}
  BY <1>1
<1>3. u = [s EXCEPT !.layer = i, !.taken = nobody, !.new = none]
  BY <1>2 DEF FreshLayer
<1> QED BY <1>2, <1>3 DEF Growing

\* What a layer leaves.
LEMMA OnwardIs ==
  ASSUME NEW s \in Growing, NEW u, u = Onward(s)
  PROVE  u \in Growing /\ u.active = s.new /\ u.trunks = s.trunks /\ u.served = s.served
BY DEF Onward, Growing

\* Carrying on is a step of trunks.
LEMMA CarriedGrows ==
  ASSUME NEW from \in Growing
  PROVE  AllCarried(from, Marks(from)) \in Growing
<1>1. PICK tips \in Seq(Tip) : tips = from.active
  BY DEF Growing
<1>2. PICK n \in Nat : n = Len(tips) /\ DOMAIN tips = 1..n
  OBVIOUS
<1>3. from \in Going(tips) /\ TipsOf(tips, n)
  BY <1>1, <1>2 DEF Going, TipsOf
<1>4. PICK marks : marks = Marks(from)
  OBVIOUS
<1>5. Numbered(marks, n)
  BY <1>1, <1>2, <1>4 DEF Numbered, Marks
<1>6. PICK st : CarryRun(st, n, tips, from, marks)
  BY <1>3, <1>5, CarryStates
<1>7. n \in 0..n
  OBVIOUS
<1>8. AllCarried(from, marks) \in Growing
  BY <1>6, <1>7 DEF CarryRun, Going
<1> QED BY <1>4, <1>8

\* Placing is a step of trunks.
LEMMA PlacingGrows ==
  ASSUME NEW some \in SUBSET Columns, NEW fresh \in Growing
  PROVE  AllPlaced(some, fresh) \in Growing
<1>1. PICK n \in Nat : DOMAIN Samples = 1..n
  BY ColumnsAre
<1>2. PICK st \in [0..n -> Growing] :
         /\ st[0] = fresh
         /\ \A c \in 1..n : st[c] = PlaceStep(some, st[c - 1], Samples[c])
         /\ AllPlaced(some, fresh) = st[n]
  BY <1>1, PlaceStates, ZenonT(30)
<1> QED BY <1>2

\* A layer is a step of trunks.
LEMMA GrowTrunksGrows ==
  ASSUME NEW layers, NEW s \in Growing, NEW i \in Nat
  PROVE  GrowTrunks(layers, s, i) \in Growing
<1>1. PICK fresh \in Growing : fresh = FreshLayer(s, i)
  BY FreshIs
<1>2. PICK some \in SUBSET Columns : some = Overhangs(layers, i)
  BY OverhangsAreColumns
<1>3. PICK from \in Growing : from = AllPlaced(some, fresh)
  BY PlacingGrows
<1>4. PICK t \in Growing : t = AllCarried(from, Marks(from))
  BY CarriedGrows
<1>5. Onward(t) \in Growing
  BY OnwardIs
<1>6. GrowTrunks(layers, s, i) = CarryOn(from)
  BY <1>1, <1>2, <1>3, GrowTrunksIs
<1> QED BY <1>4, <1>5, <1>6, CarryOnIs

\* After a layer: each column that hangs has its claim, and a trunk of its group.
ClaimedIn(claims, i, some) == \A p \in some : \E c \in claims : c.layer = i /\ p \in c.cluster
LayerState(layers, s, i) ==
  /\ s \in Growing /\ Distinct(s.active) /\ On(s.active, s.trunks)
  /\ Held(s.served, s.trunks) /\ OnlyAsked(s.served, s.trunks) /\ Alone(s.served)
  /\ \A c \in s.served : c.layer <= i
  /\ \A l \in 1..i : ClaimedIn(s.served, l, Overhangs(layers, l))

\* What holds after a layer is what the next one starts from: no claim is of that one yet.
LEMMA LayerStarts ==
  ASSUME NEW layers, NEW s, NEW i \in Nat, i > 0, LayerState(layers, s, i - 1), NEW u, u = FreshLayer(s, i)
  PROVE  PlaceState(u, i)
<1>1. s \in Growing
  BY DEF LayerState
<1>2. /\ u \in Growing /\ u.layer = i /\ u.taken = {} /\ u.new = <<>>
      /\ u.trunks = s.trunks /\ u.active = s.active /\ u.served = s.served
  BY <1>1, FreshIs
<1>3. DOMAIN u.new = {}
  BY <1>2
<1>4. Distinct(u.new) /\ On(u.new, u.trunks)
  BY <1>3 DEF Distinct, On
<1>5. \A c \in u.served : c.layer <= i /\ c.layer # i
  <2>1. ASSUME NEW c \in u.served PROVE c.layer <= i /\ c.layer # i
    <3>1. c \in TrunkClaim
      BY <1>2 DEF Growing
    <3>2. PICK l \in Nat : l = c.layer
      BY <3>1 DEF TrunkClaim
    <3>3. l <= i - 1
      BY <1>2, <2>1, <3>2 DEF LayerState
    <3> QED BY <3>2, <3>3
  <2> QED BY <2>1
<1> QED BY <1>2, <1>3, <1>4, <1>5 DEF PlaceState, LayerState

\* A layer keeps what holds after the one before it, and its own overhangs have their claims.
LEMMA GrowTrunksKeeps ==
  ASSUME NEW layers, NEW s, NEW i \in Nat, i > 0, LayerState(layers, s, i - 1)
  PROVE  LayerState(layers, GrowTrunks(layers, s, i), i)
<1>1. PICK fresh : fresh = FreshLayer(s, i)
  OBVIOUS
<1>2. PlaceState(fresh, i) /\ fresh.served = s.served
  <2>1. s \in Growing
    BY DEF LayerState
  <2> QED BY <1>1, <2>1, LayerStarts, FreshIs
<1>3. PICK some \in SUBSET Columns : some = Overhangs(layers, i)
  BY OverhangsAreColumns
<1>4. PICK from : from = AllPlaced(some, fresh)
  OBVIOUS
<1>5. /\ PlaceState(from, i) /\ fresh.served \subseteq from.served
      /\ \A first \in Firsts(some) : ClaimedFor(from.served, i, Group(some, first))
  BY <1>2, <1>4, PlacingKeeps
<1>6. PICK t : t = AllCarried(from, Marks(from))
  OBVIOUS
<1>7. PICK a \in Nat : CarryState(from, t, a)
  BY <1>5, <1>6, CarryingKeeps DEF Marks
<1>8. PICK u : u = Onward(t)
  OBVIOUS
<1>9. u = GrowTrunks(layers, s, i)
  BY <1>1, <1>3, <1>4, <1>6, <1>8, GrowTrunksIs, CarryOnIs
<1>10. t \in Growing /\ u \in Growing /\ u.active = t.new /\ u.trunks = t.trunks /\ u.served = t.served
  BY <1>7, <1>8, OnwardIs DEF CarryState
<1>11. /\ u.served = from.served /\ Longer(from.trunks, u.trunks) /\ Adds(from.trunks, u.trunks, {})
       /\ Distinct(u.active) /\ On(u.active, u.trunks)
  BY <1>7, <1>10 DEF CarryState
<1>12. Held(u.served, u.trunks) /\ OnlyAsked(u.served, u.trunks) /\ Alone(u.served) /\ \A c \in u.served : c.layer <= i
  <2>1. OnlyAsked(from.served, from.trunks) /\ \A p \in {} : \E c \in u.served : p = AskedPlace(c)
    BY <1>5 DEF PlaceState
  <2>2. OnlyAsked(u.served, u.trunks)
    BY <1>11, <2>1, AskedStays
  <2> QED BY <1>5, <1>11, <2>2, HeldStays DEF PlaceState
<1>13. \A l \in 1..i : l # i => l \in 1..(i - 1)
  OBVIOUS
<1>14. ClaimedIn(u.served, i, some)
  <2>1. ASSUME NEW p \in some PROVE \E c \in u.served : c.layer = i /\ p \in c.cluster
    <3>1. PICK first \in Firsts(some) : p \in Group(some, first)
      BY GroupsCover
    <3>2. ClaimedFor(from.served, i, Group(some, first))
      BY <1>5
    <3> QED BY <1>11, <3>1, <3>2 DEF ClaimedFor
  <2> QED BY <2>1 DEF ClaimedIn
<1>15. \A l \in 1..(i - 1) : ClaimedIn(u.served, l, Overhangs(layers, l))
  <2>1. s.served \subseteq u.served
    BY <1>2, <1>5, <1>11
  <2>2. \A l \in 1..(i - 1) : ClaimedIn(s.served, l, Overhangs(layers, l))
    BY DEF LayerState
  <2> QED BY <2>1, <2>2 DEF ClaimedIn
<1>16. \A l \in 1..i : ClaimedIn(u.served, l, Overhangs(layers, l))
  BY <1>3, <1>13, <1>14, <1>15
<1>17. LayerState(layers, u, i)
  BY <1>10, <1>11, <1>12, <1>16 DEF LayerState
<1> QED BY <1>9, <1>17

Bare == [trunks |-> <<>>, active |-> <<>>, new |-> <<>>, taken |-> {}, served |-> {}, layer |-> 0]

\* The bed, without trunks.
LEMMA BareGrows == Bare \in Growing
<1>1. <<>> \in Seq(Upright) /\ <<>> \in Seq(Tip)
  OBVIOUS
<1> QED BY <1>1 DEF Bare, Growing

BuildFold(layers, marks) ==
  CHOOSE iter : iter = [z \in SUBSET (DOMAIN marks) |->
    IF z = {} THEN Bare ELSE GrowTrunks(layers, iter[z \ {Max(z)}], marks[Max(z)])]

AllBuilt(layers, marks) == FoldLeft(LAMBDA step, i : GrowTrunks(layers, step, i), Bare, marks)

\* build_trunks() as a fold over the layers.
LEMMA BuildingIsAFold == ASSUME NEW layers, NEW marks PROVE AllBuilt(layers, marks) = BuildFold(layers, marks)[DOMAIN marks]
BY Zenon DEF AllBuilt, FoldLeft, MapThenFoldSet, BuildFold

\* The layers are taken from the bed up.
LEMMA BuildTrunksIs == ASSUME NEW layers PROVE BuildTrunks(layers) = AllBuilt(layers, [i \in DOMAIN layers |-> i])
BY Zenon DEF BuildTrunks, AllBuilt, Bare

BuildRun(st, n, layers, marks) ==
  /\ st \in [0..n -> Growing] /\ st[0] = Bare
  /\ \A i \in 1..n : st[i] = GrowTrunks(layers, st[i - 1], marks[i])
  /\ AllBuilt(layers, marks) = st[n]

\* The states on the way.
LEMMA BuildStates ==
  ASSUME NEW layers, NEW n \in Nat, NEW marks, Numbered(marks, n)
  PROVE  \E st : BuildRun(st, n, layers, marks)
<1> DEFINE base == Bare
           step == [x \in Growing \X (1..n) |-> GrowTrunks(layers, x[1], marks[x[2]])]
           Body(g, z) == IF z = {} THEN base ELSE GrowTrunks(layers, g[z \ {Max(z)}], marks[Max(z)])
           f == BuildFold(layers, marks)
<1>1. base \in Growing
  BY BareGrows
<1>2. step \in [Growing \X (1..n) -> Growing]
  <2>1. ASSUME NEW x \in Growing \X (1..n) PROVE GrowTrunks(layers, x[1], marks[x[2]]) \in Growing
    <3>1. x[1] \in Growing /\ x[2] \in 1..n
      OBVIOUS
    <3> QED BY <3>1, GrowTrunksGrows DEF Numbered
  <2> QED BY <2>1
<1>3. \A t \in Growing, i \in 1..n : step[<<t, i>>] = GrowTrunks(layers, t, marks[i])
  OBVIOUS
<1> HIDE DEF base, step
<1>4. PICK g : IsFold(n, Growing, base, step, g)
  BY <1>1, <1>2, FoldSteps
<1>4a. g \in [SUBSET (1..n) -> Growing] /\ \A z \in SUBSET (1..n) : g[z] = Next1(base, step, g, z)
  BY <1>4 DEF IsFold
<1>5. g = [z \in SUBSET (1..n) |-> Body(g, z)]
  <2>1. ASSUME NEW z \in SUBSET (1..n) PROVE g[z] = Body(g, z)
    <3>1. CASE z = {}
      BY <1>4a, <3>1 DEF Next1
    <3>2. CASE z # {}
      <4>1. PICK m, r : m = Max(z) /\ r = z \ {m}
        OBVIOUS
      <4>2. m \in 1..n /\ r \in SUBSET (1..n)
        BY <3>2, <4>1, SubsetsOfFirst
      <4>3. g[z] = step[<<g[r], m>>]
        BY <1>4a, <3>2, <4>1 DEF Next1
      <4> QED BY <1>3, <1>4a, <3>2, <4>1, <4>2, <4>3
    <3> QED BY <3>1, <3>2
  <2>2. g = [z \in SUBSET (1..n) |-> g[z]]
    BY <1>4a
  <2> HIDE DEF Body
  <2> QED BY <2>1, <2>2
<1>6. f = [z \in SUBSET (1..n) |-> Body(f, z)]
  <2>1. f = CHOOSE iter : iter = [z \in SUBSET (1..n) |-> Body(iter, z)]
    BY DEF Numbered, BuildFold, base
  <2> HIDE DEF f, Body
  <2> QED BY <1>5, <2>1
<1> HIDE DEF f
<1>7. f[{}] = base
  BY <1>6
<1>8. \A z \in SUBSET (1..n) : z # {} /\ f[z \ {Max(z)}] \in Growing => f[z] = step[<<f[z \ {Max(z)}], Max(z)>>]
  <2>1. ASSUME NEW z \in SUBSET (1..n), z # {}, f[z \ {Max(z)}] \in Growing PROVE f[z] = step[<<f[z \ {Max(z)}], Max(z)>>]
    <3>1. PICK m, r : m = Max(z) /\ r = z \ {m}
      OBVIOUS
    <3>2. m \in 1..n /\ r \in SUBSET (1..n)
      BY <2>1, <3>1, SubsetsOfFirst
    <3>3. f[z] = GrowTrunks(layers, f[r], marks[m])
      BY <1>6, <2>1, <3>1
    <3> QED BY <1>3, <2>1, <3>1, <3>2, <3>3
  <2> QED BY <2>1
<1>9. f[1..0] = base /\ (\A i \in 1..n : f[1..i] = step[<<f[1..(i - 1)], i>>]) /\ (\A i \in 0..n : f[1..i] \in Growing)
  <2>1. GoesAsFold(n, Growing, base, step, f)
    BY <1>7, <1>8 DEF GoesAsFold
  <2>2. AdvancesBy(n, Growing, base, step, f)
    BY <1>1, <1>2, <2>1, FoldStates
  <2> QED BY <2>2 DEF AdvancesBy
<1> DEFINE st == [i \in 0..n |-> f[1..i]]
<1>10. st \in [0..n -> Growing] /\ st[0] = base /\ st[n] = f[1..n]
  BY <1>9
<1>11. \A i \in 1..n : st[i] = GrowTrunks(layers, st[i - 1], marks[i])
  <2>1. ASSUME NEW i \in 1..n PROVE st[i] = GrowTrunks(layers, st[i - 1], marks[i])
    <3>1. i - 1 \in 0..n /\ i \in 0..n
      OBVIOUS
    <3>2. st[i] = f[1..i] /\ st[i - 1] = f[1..(i - 1)] /\ f[1..(i - 1)] \in Growing
      BY <1>9, <3>1
    <3> QED BY <1>3, <1>9, <3>2
  <2> QED BY <2>1
<1>12. AllBuilt(layers, marks) = f[1..n]
  BY BuildingIsAFold DEF BuildFold, Numbered, f
<1> HIDE DEF st
<1> QED BY <1>10, <1>11, <1>12 DEF base, BuildRun

\* When all layers are done, every column that hangs is in the group of a claim.
LEMMA TrunksAreBuilt ==
  ASSUME NEW layers, NEW n \in Nat, DOMAIN layers = 1..n
  PROVE  LayerState(layers, BuildTrunks(layers), n)
<1>1. PICK marks : marks = [i \in DOMAIN layers |-> i]
  OBVIOUS
<1>2. Numbered(marks, n)
  BY <1>1 DEF Numbered
<1>3a. PICK st : BuildRun(st, n, layers, marks)
  BY <1>2, BuildStates
<1>3. /\ st \in [0..n -> Growing] /\ st[0] = Bare
      /\ \A i \in 1..n : st[i] = GrowTrunks(layers, st[i - 1], marks[i])
      /\ AllBuilt(layers, marks) = st[n]
  BY <1>3a DEF BuildRun
<1> DEFINE Good == {i \in Nat : i <= n => LayerState(layers, st[i], i)}
<1>4. 0 \in Good
  <2>1. Bare.active = <<>> /\ Bare.served = {} /\ Bare.trunks = <<>>
    BY DEF Bare
  <2>2. DOMAIN Bare.active = {} /\ DOMAIN Bare.trunks = {} /\ 1..0 = {}
    BY <2>1
  <2>3. LayerState(layers, Bare, 0)
    BY <2>1, <2>2, BareGrows DEF LayerState, Distinct, On, Held, OnlyAsked, OnLines, Alone
  <2> QED BY <1>3, <2>3
<1>5. \A i \in Nat : i \in Good => i + 1 \in Good
  <2>1. ASSUME NEW i \in Nat, i \in Good, i + 1 <= n PROVE LayerState(layers, st[i + 1], i + 1)
    <3>1. PICK d \in Nat : d = i + 1 /\ d - 1 = i /\ d \in 1..n /\ d > 0
      BY <2>1
    <3>2. PICK s : s = st[i]
      OBVIOUS
    <3>3. LayerState(layers, s, d - 1)
      BY <2>1, <3>1, <3>2
    <3>4. LayerState(layers, GrowTrunks(layers, s, d), d)
      BY <3>1, <3>3, GrowTrunksKeeps
    <3>5. st[d] = GrowTrunks(layers, s, d)
      BY <1>2, <1>3, <3>1, <3>2 DEF Numbered
    <3> QED BY <3>1, <3>4, <3>5
  <2> QED BY <2>1
<1>6. n \in Good
  <2> HIDE DEF Good
  <2> QED BY <1>4, <1>5, InductionOverSet
<1>7. LayerState(layers, AllBuilt(layers, marks), n)
  BY <1>3, <1>6
<1> QED BY Zenon, <1>1, <1>7, BuildTrunksIs

\* The lesser of two numbers.
LEMMA LesserIs ==
  ASSUME NEW a \in Nat, NEW b \in Nat
  PROVE  Min({a, b}) \in {a, b} /\ Min({a, b}) <= a /\ Min({a, b}) <= b
<1>1. PICK pair : pair = {a, b}
  OBVIOUS
<1>2. PICK x \in pair : \A y \in pair : x <= y
  BY <1>1
<1>3. pair \subseteq Int
  BY <1>1
<1>4. Min(pair) = x
  BY <1>2, <1>3, LeastOf
<1> QED BY <1>1, <1>2, <1>4

\* Where a trunk forks is one of its places, or none.
LEMMA ForkInTrunk ==
  ASSUME NEW layers, NEW n \in Nat, Len(layers) = n, NEW line \in Seq(Int)
  PROVE  ForkAt(layers, line) \in 0..Len(line)
<1>1. PICK m \in Nat : m = Len(line)
  OBVIOUS
<1> DEFINE wide == {i \in 2..Len(layers) :
                    LET centre == line[Min({i, Len(line)})]
                        near   == {p \in Overhangs(layers, i) : Distance(p, centre) < 3 * MergeDistance}
                    IN  near # {} /\ Max(near) - Min(near) > SplitDistance}
<1>2. wide \subseteq 2..n
  OBVIOUS
<1>3. ForkAt(layers, line) = IF m < 3 \/ wide = {} THEN 0 ELSE Min({Min(wide), m})
  BY <1>1 DEF ForkAt
<1> HIDE DEF wide
<1>4. CASE m < 3 \/ wide = {}
  BY <1>1, <1>3, <1>4
<1>5. CASE ~(m < 3 \/ wide = {})
  <2>1. wide \subseteq Nat
    BY <1>2
  <2>2. PICK f \in wide : \A y \in wide : f <= y
    BY <1>5, <2>1, LeastElement
  <2>2a. wide \subseteq Int
    BY <2>1
  <2>3. Min(wide) = f
    BY <2>2, <2>2a, LeastOf
  <2>4. f \in Nat
    BY <2>1, <2>2
  <2>5. Min({f, m}) \in {f, m} /\ Min({f, m}) <= m /\ Min({f, m}) \in Nat
    BY <2>4, LesserIs
  <2> QED BY <1>1, <1>3, <1>5, <2>3, <2>5
<1> QED BY <1>4, <1>5

\* The stem and the branch have what the trunk had.
Rest(layers, line) == SubSeq(line, ForkAt(layers, line), Len(line))

\* What a trunk reaches is reached by its stem or by its branch, and nothing else is.
LEMMA StemAndRest ==
  ASSUME NEW layers, NEW n \in Nat, Len(layers) = n, NEW line \in Upright
  PROVE  /\ Stem(layers, line) \in Upright /\ ToSet(Stem(layers, line)) \subseteq ToSet(line)
         /\ ForkAt(layers, line) # 0 => Rest(layers, line) \in Upright /\ ToSet(Rest(layers, line)) \subseteq ToSet(line)
         /\ \A p \in ToSet(line) : p \in ToSet(Stem(layers, line)) \/ (ForkAt(layers, line) # 0 /\ p \in ToSet(Rest(layers, line)))
<1>1. PICK m \in Nat : m = Len(line) /\ DOMAIN line = 1..m /\ (\A i \in 1..m : line[i] \in Int) /\ line \in Seq(Int)
  BY DEF Upright
<1>2. PICK f \in 0..m : f = ForkAt(layers, line)
  BY <1>1, ForkInTrunk
<1>3. CASE f = 0
  BY <1>2, <1>3 DEF Stem
<1>4. CASE f # 0
  <2>1. PICK stem : stem = SubSeq(line, 1, f)
    OBVIOUS
  <2>2. PICK tail : tail = SubSeq(line, f, m)
    OBVIOUS
  <2>3. f \in Int /\ m \in Int /\ 1 <= f /\ f <= m
    BY <1>4
  <2>4. stem \in Seq(Int) /\ Len(stem) = f /\ \A i \in 1..f : stem[i] = line[i]
    <3>1. \A i \in 1..f : line[i] \in Int
      BY <1>1, <2>3
    <3>2. /\ stem \in Seq(Int) /\ Len(stem) = IF 1 <= f THEN f - 1 + 1 ELSE 0
          /\ \A i \in 1..(f - 1 + 1) : stem[i] = line[1 + i - 1]
      BY <2>1, <2>3, <3>1, SubSeqProperties
    <3>3. f - 1 + 1 = f /\ \A i \in 1..f : 1 + i - 1 = i
      BY <2>3
    <3> QED BY <2>3, <3>2, <3>3
  <2>5. tail \in Seq(Int) /\ Len(tail) = m - f + 1 /\ \A i \in 1..(m - f + 1) : tail[i] = line[f + i - 1]
    <3>1. \A i \in f..m : line[i] \in Int
      BY <1>1, <2>3
    <3> QED BY <2>2, <2>3, <3>1, SubSeqProperties
  <2>6. DOMAIN stem = 1..f /\ DOMAIN tail = 1..(m - f + 1)
    BY <2>3, <2>4, <2>5
  <2>7. ASSUME NEW p \in ToSet(line) PROVE p \in ToSet(stem) \/ p \in ToSet(tail)
    <3>1. PICK x \in 1..m : p = line[x]
      BY <1>1, <2>7 DEF ToSet
    <3>2. CASE x <= f
      <4>1. x \in 1..f /\ stem[x] = p
        BY <2>3, <2>4, <3>1, <3>2
      <4> QED BY <2>6, <4>1 DEF ToSet
    <3>3. CASE f < x
      <4>1. PICK y \in Int : y = x - f + 1
        BY <2>3
      <4>2. y \in 1..(m - f + 1) /\ f + y - 1 = x
        BY <2>3, <3>1, <3>3, <4>1
      <4>3. tail[y] = p
        BY <2>5, <3>1, <4>2
      <4> QED BY <2>6, <4>2, <4>3 DEF ToSet
    <3> QED BY <2>3, <3>1, <3>2, <3>3
  <2>8. Stem(layers, line) = stem /\ Rest(layers, line) = tail
    BY <1>1, <1>2, <1>4, <2>1, <2>2 DEF Stem, Rest
  <2>9. ASSUME NEW p \in ToSet(stem) PROVE p \in ToSet(line)
    <3>1. PICK x \in 1..f : p = stem[x]
      BY <2>6, <2>9 DEF ToSet
    <3>2. x \in 1..m /\ p = line[x]
      BY <2>3, <2>4, <3>1
    <3> QED BY <1>1, <3>2 DEF ToSet
  <2>10. ASSUME NEW p \in ToSet(tail) PROVE p \in ToSet(line)
    <3>1. PICK x \in 1..(m - f + 1) : p = tail[x]
      BY <2>6, <2>10 DEF ToSet
    <3>2. PICK y \in Int : y = f + x - 1
      BY <2>3
    <3>3. y \in 1..m /\ p = line[y]
      BY <2>3, <2>5, <3>1, <3>2
    <3> QED BY <1>1, <3>3 DEF ToSet
  <2>11. stem \in Upright /\ tail \in Upright
    BY <2>3, <2>4, <2>5 DEF Upright
  <2> QED BY <1>2, <1>4, <2>7, <2>8, <2>9, <2>10, <2>11
<1> QED BY <1>3, <1>4

\* The branches are put behind the stems.
BranchStep(layers, all, t) == IF ForkAt(layers, t) = 0 THEN all ELSE Append(all, Rest(layers, t))
Stems(layers, ts) == [k \in DOMAIN ts |-> Stem(layers, ts[k])]

BranchFold(layers, ts) ==
  CHOOSE iter : iter = [z \in SUBSET (DOMAIN ts) |->
    IF z = {} THEN Stems(layers, ts) ELSE BranchStep(layers, iter[z \ {Max(z)}], ts[Max(z)])]

\* apply_branching() as a fold over the trunks.
LEMMA BranchingIsAFold == ASSUME NEW layers, NEW ts PROVE Branched(layers, ts) = BranchFold(layers, ts)[DOMAIN ts]
BY Zenon DEF Branched, FoldLeft, MapThenFoldSet, BranchFold, BranchStep, Rest, Stems

Trunks(ts, n)    == ts \in Seq(Upright) /\ DOMAIN ts = 1..n
Layered(layers)  == Len(layers) \in Nat

\* The stems, each in the place of its trunk.
LEMMA StemsAreLines ==
  ASSUME NEW layers, Layered(layers), NEW n \in Nat, NEW ts, Trunks(ts, n)
  PROVE  /\ Stems(layers, ts) \in Seq(Upright) /\ DOMAIN Stems(layers, ts) = 1..n
         /\ (\A k \in 1..n : Stems(layers, ts)[k] = Stem(layers, ts[k])) /\ Adds(ts, Stems(layers, ts), {})
<1>1. DOMAIN ts = 1..n /\ \A k \in 1..n : ts[k] \in Upright
  BY DEF Trunks
<1>2. PICK l \in Nat : l = Len(layers)
  BY DEF Layered
<1>3. \A k \in 1..n : Stem(layers, ts[k]) \in Upright /\ ToSet(Stem(layers, ts[k])) \subseteq ToSet(ts[k])
  BY <1>1, <1>2, StemAndRest
<1>4. PICK stems : stems = Stems(layers, ts)
  OBVIOUS
<1>5. stems = [k \in 1..n |-> Stem(layers, ts[k])]
  BY <1>1, <1>4 DEF Stems
<1>6. stems \in [1..n -> Upright]
  BY <1>3, <1>5
<1>7. stems \in Seq(Upright)
  BY ONLY <1>6, n \in Nat, SeqDef
<1>8. Adds(ts, stems, {})
  BY <1>1, <1>3, <1>5 DEF Adds, OnLines
<1> QED BY <1>4, <1>5, <1>7, <1>8

\* A step of it makes lines.
LEMMA BranchStepIsLines ==
  ASSUME NEW layers, Layered(layers), NEW all \in Seq(Upright), NEW line \in Upright
  PROVE  BranchStep(layers, all, line) \in Seq(Upright)
<1>1. PICK l \in Nat : l = Len(layers)
  BY DEF Layered
<1>2. ForkAt(layers, line) # 0 => Rest(layers, line) \in Upright
  BY <1>1, StemAndRest
<1> QED BY <1>2, AppendProperties DEF BranchStep

BranchRun(st, n, layers, ts) ==
  /\ st \in [0..n -> Seq(Upright)] /\ st[0] = Stems(layers, ts)
  /\ \A i \in 1..n : st[i] = BranchStep(layers, st[i - 1], ts[i])
  /\ Branched(layers, ts) = st[n]

\* The states on the way.
LEMMA BranchStates ==
  ASSUME NEW layers, Layered(layers), NEW n \in Nat, NEW ts, Trunks(ts, n)
  PROVE  \E st : BranchRun(st, n, layers, ts)
<1> DEFINE base == Stems(layers, ts)
           step == [x \in Seq(Upright) \X (1..n) |-> BranchStep(layers, x[1], ts[x[2]])]
           Body(g, z) == IF z = {} THEN base ELSE BranchStep(layers, g[z \ {Max(z)}], ts[Max(z)])
           f == BranchFold(layers, ts)
<1>1. base \in Seq(Upright)
  BY StemsAreLines
<1>2. step \in [Seq(Upright) \X (1..n) -> Seq(Upright)]
  <2>1. ASSUME NEW x \in Seq(Upright) \X (1..n) PROVE BranchStep(layers, x[1], ts[x[2]]) \in Seq(Upright)
    <3>1. x[1] \in Seq(Upright) /\ x[2] \in 1..n
      OBVIOUS
    <3> QED BY <3>1, BranchStepIsLines DEF Trunks
  <2> QED BY <2>1
<1>3. \A t \in Seq(Upright), i \in 1..n : step[<<t, i>>] = BranchStep(layers, t, ts[i])
  OBVIOUS
<1> HIDE DEF base, step
<1>4. PICK g : IsFold(n, Seq(Upright), base, step, g)
  BY <1>1, <1>2, FoldSteps
<1>4a. g \in [SUBSET (1..n) -> Seq(Upright)] /\ \A z \in SUBSET (1..n) : g[z] = Next1(base, step, g, z)
  BY <1>4 DEF IsFold
<1>5. g = [z \in SUBSET (1..n) |-> Body(g, z)]
  <2>1. ASSUME NEW z \in SUBSET (1..n) PROVE g[z] = Body(g, z)
    <3>1. CASE z = {}
      BY <1>4a, <3>1 DEF Next1
    <3>2. CASE z # {}
      <4>1. PICK m, r : m = Max(z) /\ r = z \ {m}
        OBVIOUS
      <4>2. m \in 1..n /\ r \in SUBSET (1..n)
        BY <3>2, <4>1, SubsetsOfFirst
      <4>3. g[z] = step[<<g[r], m>>]
        BY <1>4a, <3>2, <4>1 DEF Next1
      <4> QED BY <1>3, <1>4a, <3>2, <4>1, <4>2, <4>3
    <3> QED BY <3>1, <3>2
  <2>2. g = [z \in SUBSET (1..n) |-> g[z]]
    BY <1>4a
  <2> HIDE DEF Body
  <2> QED BY <2>1, <2>2
<1>6. f = [z \in SUBSET (1..n) |-> Body(f, z)]
  <2>1. f = CHOOSE iter : iter = [z \in SUBSET (1..n) |-> Body(iter, z)]
    BY DEF Trunks, BranchFold, base
  <2> HIDE DEF f, Body
  <2> QED BY <1>5, <2>1
<1> HIDE DEF f
<1>7. f[{}] = base
  BY <1>6
<1>8. \A z \in SUBSET (1..n) : z # {} /\ f[z \ {Max(z)}] \in Seq(Upright) => f[z] = step[<<f[z \ {Max(z)}], Max(z)>>]
  <2>1. ASSUME NEW z \in SUBSET (1..n), z # {}, f[z \ {Max(z)}] \in Seq(Upright) PROVE f[z] = step[<<f[z \ {Max(z)}], Max(z)>>]
    <3>1. PICK m, r : m = Max(z) /\ r = z \ {m}
      OBVIOUS
    <3>2. m \in 1..n /\ r \in SUBSET (1..n)
      BY <2>1, <3>1, SubsetsOfFirst
    <3>3. f[z] = BranchStep(layers, f[r], ts[m])
      BY <1>6, <2>1, <3>1
    <3> QED BY <1>3, <2>1, <3>1, <3>2, <3>3
  <2> QED BY <2>1
<1>9. f[1..0] = base /\ (\A i \in 1..n : f[1..i] = step[<<f[1..(i - 1)], i>>]) /\ (\A i \in 0..n : f[1..i] \in Seq(Upright))
  <2>1. GoesAsFold(n, Seq(Upright), base, step, f)
    BY <1>7, <1>8 DEF GoesAsFold
  <2>2. AdvancesBy(n, Seq(Upright), base, step, f)
    BY <1>1, <1>2, <2>1, FoldStates
  <2> QED BY <2>2 DEF AdvancesBy
<1> DEFINE st == [i \in 0..n |-> f[1..i]]
<1>10. st \in [0..n -> Seq(Upright)] /\ st[0] = base /\ st[n] = f[1..n]
  BY <1>9
<1>11. \A i \in 1..n : st[i] = BranchStep(layers, st[i - 1], ts[i])
  <2>1. ASSUME NEW i \in 1..n PROVE st[i] = BranchStep(layers, st[i - 1], ts[i])
    <3>1. i - 1 \in 0..n /\ i \in 0..n
      OBVIOUS
    <3>2. st[i] = f[1..i] /\ st[i - 1] = f[1..(i - 1)] /\ f[1..(i - 1)] \in Seq(Upright)
      BY <1>9, <3>1
    <3> QED BY <1>3, <1>9, <3>2
  <2> QED BY <2>1
<1>12. Branched(layers, ts) = f[1..n]
  BY BranchingIsAFold DEF BranchFold, Trunks, f
<1> HIDE DEF st
<1> QED BY <1>10, <1>11, <1>12 DEF base, BranchRun

\* The stems stay where they are, each branch so far is there, and no point is new.
BranchedTo(layers, ts, all, i) ==
  /\ all \in Seq(Upright) /\ Adds(ts, all, {})
  /\ \A k \in DOMAIN ts : k \in DOMAIN all /\ all[k] = Stem(layers, ts[k])
  /\ \A k \in 1..i : ForkAt(layers, ts[k]) # 0 => \E j \in DOMAIN all : all[j] = Rest(layers, ts[k])

\* A step of it leaves the stems, and adds the branch of its trunk.
LEMMA BranchStepKeeps ==
  ASSUME NEW layers, Layered(layers), NEW ts, NEW i \in Nat, i > 0, i \in DOMAIN ts, ts[i] \in Upright,
         NEW all, BranchedTo(layers, ts, all, i - 1), NEW u, u = BranchStep(layers, all, ts[i])
  PROVE  BranchedTo(layers, ts, u, i)
<1>1. PICK line \in Upright : line = ts[i]
  OBVIOUS
<1>2. PICK old \in Seq(Upright) : old = all
  BY DEF BranchedTo
<1>3. u \in Seq(Upright) /\ u = BranchStep(layers, old, line)
  BY <1>1, <1>2, BranchStepIsLines
<1>4. \A k \in 1..i : k = i \/ k \in 1..(i - 1)
  OBVIOUS
<1>5. CASE ForkAt(layers, line) = 0
  <2>1. u = old
    BY <1>3, <1>5 DEF BranchStep
  <2> QED BY <1>1, <1>2, <1>4, <1>5, <2>1 DEF BranchedTo
<1>6. CASE ForkAt(layers, line) # 0
  <2>1. PICK tail : tail = Rest(layers, line)
    OBVIOUS
  <2>2. tail \in Upright /\ ToSet(tail) \subseteq ToSet(line)
    <3>1. PICK l \in Nat : l = Len(layers)
      BY DEF Layered
    <3> QED BY <1>6, <2>1, <3>1, StemAndRest
  <2>3. u = Append(old, tail)
    BY <1>3, <1>6, <2>1 DEF BranchStep
  <2>4. PICK n \in Nat : n = Len(old) /\ DOMAIN old = 1..n
    OBVIOUS
  <2>5. Len(u) = n + 1 /\ u[n + 1] = tail /\ \A j \in 1..n : u[j] = old[j]
    BY <2>2, <2>3, <2>4, AppendProperties
  <2>6. DOMAIN u = 1..(n + 1) /\ n + 1 \in 1..(n + 1) /\ 1..n \subseteq 1..(n + 1)
    BY <1>3, <2>5
  <2>7. \A k \in DOMAIN ts : k \in DOMAIN u /\ u[k] = Stem(layers, ts[k])
    BY <1>2, <2>4, <2>5, <2>6 DEF BranchedTo
  <2>8. \A k \in 1..(i - 1) : ForkAt(layers, ts[k]) # 0 => \E j \in DOMAIN u : u[j] = Rest(layers, ts[k])
    <3>1. ASSUME NEW k \in 1..(i - 1), ForkAt(layers, ts[k]) # 0 PROVE \E j \in DOMAIN u : u[j] = Rest(layers, ts[k])
      <4>1. PICK j \in DOMAIN old : old[j] = Rest(layers, ts[k])
        BY <1>2, <3>1 DEF BranchedTo
      <4> QED BY <2>4, <2>5, <2>6, <4>1
    <3> QED BY <3>1
  <2>9. \E j \in DOMAIN u : u[j] = Rest(layers, ts[i])
    BY <1>1, <2>1, <2>5, <2>6
  <2>10. Adds(ts, u, {})
    <3>1. Adds(old, u, ToSet(tail))
      BY <2>2, <2>3, TrunkAdded
    <3>2. Adds(ts, old, {}) /\ \A p \in ToSet(tail) : OnLines(ts, p)
      BY <1>1, <1>2, <2>2 DEF BranchedTo, OnLines
    <3> QED BY ONLY <3>1, <3>2 DEF Adds
  <2> QED BY ONLY <1>3, <1>4, <2>7, <2>8, <2>9, <2>10 DEF BranchedTo
<1> QED BY <1>5, <1>6

\* A point that a trunk reached is reached after branching, and no other.
LEMMA BranchingKeepsPoints ==
  ASSUME NEW layers, Layered(layers), NEW n \in Nat, NEW ts, Trunks(ts, n), NEW all, all = Branched(layers, ts)
  PROVE  all \in Seq(Upright) /\ Adds(ts, all, {}) /\ \A p : OnLines(ts, p) => OnLines(all, p)
<1>1. DOMAIN ts = 1..n /\ \A i \in 1..n : ts[i] \in Upright
  BY DEF Trunks
<1>2. PICK st : BranchRun(st, n, layers, ts)
  BY BranchStates
<1>3. /\ st \in [0..n -> Seq(Upright)] /\ st[0] = Stems(layers, ts)
      /\ \A i \in 1..n : st[i] = BranchStep(layers, st[i - 1], ts[i])
      /\ Branched(layers, ts) = st[n]
  BY <1>2 DEF BranchRun
<1> DEFINE Good == {i \in Nat : i <= n => BranchedTo(layers, ts, st[i], i)}
<1>4. 0 \in Good
  <2>1. 1..0 = {}
    OBVIOUS
  <2>2. /\ Stems(layers, ts) \in Seq(Upright) /\ DOMAIN Stems(layers, ts) = 1..n
        /\ (\A i \in 1..n : Stems(layers, ts)[i] = Stem(layers, ts[i])) /\ Adds(ts, Stems(layers, ts), {})
    BY StemsAreLines
  <2>3. BranchedTo(layers, ts, st[0], 0)
    BY <1>1, <1>3, <2>1, <2>2 DEF BranchedTo
  <2> QED BY <2>3
<1>5. \A i \in Nat : i \in Good => i + 1 \in Good
  <2>1. ASSUME NEW i \in Nat, i \in Good, i + 1 <= n PROVE BranchedTo(layers, ts, st[i + 1], i + 1)
    <3>1. PICK d \in Nat : d = i + 1 /\ d - 1 = i /\ d \in 1..n /\ d > 0
      BY <2>1
    <3>2. PICK there : there = st[i]
      OBVIOUS
    <3>3. BranchedTo(layers, ts, there, d - 1)
      BY <2>1, <3>1, <3>2
    <3>4. st[d] = BranchStep(layers, there, ts[d])
      BY <1>3, <3>1, <3>2
    <3>5. d \in DOMAIN ts /\ ts[d] \in Upright
      BY <1>1, <3>1
    <3>6. BranchedTo(layers, ts, st[d], d)
      BY <3>1, <3>3, <3>4, <3>5, BranchStepKeeps
    <3> QED BY <3>1, <3>6
  <2> QED BY <2>1
<1>6. n \in Good
  <2> HIDE DEF Good
  <2> QED BY <1>4, <1>5, InductionOverSet
<1>7. BranchedTo(layers, ts, all, n)
  BY <1>3, <1>6
<1>8. PICK l \in Nat : l = Len(layers)
  BY DEF Layered
<1>9. ASSUME NEW p, OnLines(ts, p) PROVE OnLines(all, p)
  <2>1. PICK k \in 1..n : p \in ToSet(ts[k])
    BY <1>1, <1>9 DEF OnLines
  <2>2. PICK line \in Upright : line = ts[k]
    BY <1>1
  <2>3. p \in ToSet(Stem(layers, line)) \/ (ForkAt(layers, line) # 0 /\ p \in ToSet(Rest(layers, line)))
    BY <1>8, <2>1, <2>2, StemAndRest
  <2> QED BY <1>1, <1>7, <2>2, <2>3 DEF BranchedTo, OnLines
<1> QED BY <1>7, <1>9 DEF BranchedTo

\* The greater of two numbers.
LEMMA GreaterIs ==
  ASSUME NEW a \in Int, NEW b \in Int
  PROVE  Max({a, b}) = IF a < b THEN b ELSE a
<1>1. PICK pair : pair = {a, b}
  OBVIOUS
<1>2. pair \subseteq Int /\ pair # {} /\ IsFiniteSet(pair)
  <2>1. IsFiniteSet({a}) /\ pair = {a} \cup {b}
    BY <1>1, FS_Singleton
  <2> QED BY <1>1, <2>1, FS_AddElement
<1>3. Max(pair) \in pair /\ \A y \in pair : y <= Max(pair)
  BY <1>2, GreatestOf
<1>4. PICK m \in {a, b} : m = Max(pair) /\ a <= m /\ b <= m
  BY <1>1, <1>3
<1> QED BY <1>1, <1>4

\* The topmost layer with a pillar: below the gap, and one layer is always left.
LEMMA TopIs ==
  ASSUME NEW i \in Nat, NEW g \in Nat, NEW k \in Nat, k > 0
  PROVE  k <= Top(i, g) <=> k <= i - 1 - g /\ k < i - 1
<1>1. PICK h \in Int : h = Max({g, 1}) /\ h = IF g < 1 THEN 1 ELSE g
  <2>1. Max({g, 1}) = IF g < 1 THEN 1 ELSE g
    BY GreaterIs
  <2> QED BY <2>1
<1>2. PICK r \in Int : r = i - 1 - h
  BY <1>1
<1>3. Max({0, r}) = IF 0 < r THEN r ELSE 0
  BY GreaterIs
<1>4. Top(i, g) = IF 0 < r THEN r ELSE 0
  BY <1>1, <1>2, <1>3 DEF Top
<1> QED BY <1>1, <1>2, <1>4

\* A pillar stands on a free layer if, and only if, something above needs it.
LEMMA PillarsWhereNeeded ==
  ASSUME NEW layers, NEW n \in Nat, DOMAIN layers = 1..n, NEW g \in Nat, NEW k \in 1..n, NEW p \in Columns
  PROVE  Pillars(layers, g)[k][p] > 0 <=>
            ~Covered(layers[k], p) /\ \E i \in 1..n : Unbacked(layers, i, p) /\ k <= i - 1 - g /\ k < i - 1
<1>1. PICK above : above = {i \in DOMAIN layers : Unbacked(layers, i, p) /\ k <= Top(i, g)}
  OBVIOUS
<1>2. Pillars(layers, g)[k][p] = IF Covered(layers[k], p) THEN 0 ELSE Cardinality(above)
  BY <1>1 DEF Pillars
<1>3. above = {i \in 1..n : Unbacked(layers, i, p) /\ k <= i - 1 - g /\ k < i - 1}
  <2>1. \A i \in 1..n : k <= Top(i, g) <=> k <= i - 1 - g /\ k < i - 1
    BY TopIs
  <2> QED BY <1>1, <2>1
<1>4. IsFiniteSet(above)
  <2>1. IsFiniteSet(1..n) /\ above \subseteq 1..n
    BY <1>3, FS_Interval
  <2> QED BY <2>1, FS_Subset
<1>5. Cardinality(above) \in Nat /\ (Cardinality(above) = 0 <=> above = {})
  BY <1>4, FS_CardinalityType, FS_EmptySet
<1>6. Cardinality(above) > 0 <=> above # {}
  BY <1>5
<1> QED BY <1>2, <1>3, <1>6

\* What the two operations leave behind, which is all that the proof remembers of them.
SupportsMade ==
  /\ part \in Parts /\ gap \in Nat
  /\ style = "Pillars" => pillars = Pillars(part, gap)
  /\ style = "Tree" => trunks = Branched(part, BuildTrunks(part).trunks) /\ served = BuildTrunks(part).served

\* A part is a sequence of layers.
LEMMA PartIsLayers == ASSUME part \in Parts PROVE \E n \in Nat : DOMAIN part = 1..n /\ Len(part) = n
<1>1. part \in Seq(SUBSET [lo : Int, hi : Int, ccw : BOOLEAN])
  BY SupportsAssumption
<1> QED BY <1>1

\* The pillars stand where something hangs above the gap, outside the part, and nowhere else.
LEMMA PillarsHold ==
  ASSUME SupportsMade, style = "Pillars", NEW p \in Columns
  PROVE  /\ \A i \in DOMAIN part, k \in DOMAIN part :
                Hangs(i, p) /\ k <= i - 1 - gap /\ k < i - 1 /\ ~Covered(part[k], p) => pillars[k][p] > 0
         /\ \A k \in DOMAIN part :
                pillars[k][p] > 0 => ~Covered(part[k], p) /\ \E i \in (k + 2)..Len(part) : Covered(part[i], p)
<1>1. PICK n \in Nat : DOMAIN part = 1..n /\ Len(part) = n
  BY PartIsLayers DEF SupportsMade
<1>2. gap \in Nat /\ pillars = Pillars(part, gap)
  BY DEF SupportsMade
<1>3. \A k \in 1..n : pillars[k][p] > 0 <=>
            ~Covered(part[k], p) /\ \E i \in 1..n : Unbacked(part, i, p) /\ k <= i - 1 - gap /\ k < i - 1
  BY <1>1, <1>2, PillarsWhereNeeded
<1>4. ASSUME NEW i \in DOMAIN part, NEW k \in DOMAIN part, Hangs(i, p), k <= i - 1 - gap, k < i - 1, ~Covered(part[k], p)
      PROVE  pillars[k][p] > 0
  <2>1. Unbacked(part, i, p)
    BY <1>4 DEF Unbacked, Hangs
  <2> QED BY <1>1, <1>3, <1>4, <2>1
<1>5. ASSUME NEW k \in DOMAIN part, pillars[k][p] > 0
      PROVE  ~Covered(part[k], p) /\ \E i \in (k + 2)..Len(part) : Covered(part[i], p)
  <2>1. k \in 1..n /\ ~Covered(part[k], p)
    BY <1>1, <1>3, <1>5
  <2>2. PICK i \in 1..n : Unbacked(part, i, p) /\ k < i - 1
    BY <1>3, <1>5, <2>1
  <2>3. i \in (k + 2)..n
    BY <2>1, <2>2
  <2>4. Covered(part[i], p)
    BY <2>2 DEF Unbacked
  <2> QED BY <1>1, <2>1, <2>3, <2>4
<1> QED BY <1>4, <1>5

\* What is printed of the trunks in a layer is points of them.
LEMMA CentresAreOnLines ==
  ASSUME NEW ts \in Seq(Upright), NEW i \in Nat, i > 0, NEW p \in Centres(ts, i)
  PROVE  OnLines(ts, p)
<1>1. PICK k \in DOMAIN ts : p = ts[k][Min({i, Len(ts[k])})]
  BY DEF Centres
<1>2. PICK line \in Upright : line = ts[k]
  OBVIOUS
<1>3. PICK m \in Nat : m = Len(line) /\ m > 0 /\ DOMAIN line = 1..m
  BY DEF Upright
<1>4. PICK x \in {i, m} : x = Min({i, m}) /\ x <= m
  BY <1>3, LesserIs
<1>5. x \in DOMAIN line /\ p = line[x]
  BY <1>1, <1>2, <1>3, <1>4
<1> QED BY <1>2, <1>5 DEF OnLines, ToSet

\* The trunks reach every group that hangs, each its own, and go nowhere else.
LEMMA TrunksHold ==
  ASSUME SupportsMade, style = "Tree"
  PROVE  /\ \A i \in DOMAIN part : \A p \in Overhangs(part, i) : \E s \in served : s.layer = i /\ p \in s.cluster
         /\ \A s, r \in served : s.layer = r.layer /\ s.trunk = r.trunk => s = r
         /\ \A s \in served : \E k \in DOMAIN trunks : AskedPlace(s) \in ToSet(trunks[k])
         /\ \A i \in DOMAIN part : \A p \in Printed(part, trunks, i) :
                ~Covered(part[i], p) /\ \E s \in served : p = AskedPlace(s)
<1>1. PICK n \in Nat : DOMAIN part = 1..n /\ Len(part) = n
  BY PartIsLayers DEF SupportsMade
<1>2. PICK built : built = BuildTrunks(part)
  OBVIOUS
<1>3. LayerState(part, built, n)
  BY <1>1, <1>2, TrunksAreBuilt
<1>4. served = built.served /\ trunks = Branched(part, built.trunks)
  BY <1>2 DEF SupportsMade
<1>5. \A i \in DOMAIN part : \A p \in Overhangs(part, i) : \E s \in served : s.layer = i /\ p \in s.cluster
  BY <1>1, <1>3, <1>4 DEF LayerState, ClaimedIn
<1>6. Alone(served) /\ Held(served, built.trunks) /\ OnlyAsked(served, built.trunks)
  BY <1>3, <1>4 DEF LayerState
<1>7. PICK ts : ts = built.trunks
  OBVIOUS
<1>8. PICK m \in Nat : Trunks(ts, m)
  <2>1. ts \in Seq(Upright)
    BY <1>3, <1>7 DEF LayerState, Growing
  <2> QED BY <2>1 DEF Trunks
<1>9. trunks \in Seq(Upright) /\ Adds(ts, trunks, {}) /\ \A p : OnLines(ts, p) => OnLines(trunks, p)
  <2>1. Layered(part)
    BY <1>1 DEF Layered
  <2> QED BY <1>4, <1>7, <1>8, <2>1, BranchingKeepsPoints
<1>10. ASSUME NEW s \in served PROVE \E k \in DOMAIN trunks : AskedPlace(s) \in ToSet(trunks[k])
  <2>1. OnLines(ts, AskedPlace(s))
    BY <1>6, <1>7 DEF Held, OnLines
  <2> QED BY <1>9, <2>1 DEF OnLines
<1>11. ASSUME NEW i \in DOMAIN part, NEW p \in Printed(part, trunks, i)
       PROVE  ~Covered(part[i], p) /\ \E s \in served : p = AskedPlace(s)
  <2>1. i \in Nat /\ i > 0 /\ p \in Centres(trunks, i) /\ ~Covered(part[i], p)
    BY <1>1 DEF Printed
  <2>2. OnLines(trunks, p)
    BY <1>9, <2>1, CentresAreOnLines
  <2>3. OnLines(ts, p)
    BY <1>9, <2>2 DEF Adds
  <2> QED BY <1>6, <1>7, <2>1, <2>3 DEF OnlyAsked
<1> QED BY <1>5, <1>6, <1>10, <1>11 DEF Alone

\* What the operations leave holds what hangs.
LEMMA MadeIsHeld == ASSUME SupportsMade PROVE OverhangsAreHeld
BY PillarsHold, TrunksHold DEF OverhangsAreHeld

\* A step of the supports keeps what the operations leave.
LEMMA SupportsStep == ASSUME SupportsMade, [SupportsNext]_supportVars PROVE SupportsMade'
<1>1. ASSUME NEW g \in Gaps, GenerateSupports(g) PROVE SupportsMade'
  <2>1. g \in Nat
    BY SupportsAssumption
  <2> QED BY <1>1, <2>1 DEF GenerateSupports, SupportsMade
<1>2. CASE GenerateTreeSupports
  BY <1>2 DEF GenerateTreeSupports, SupportsMade
<1>3. CASE UNCHANGED supportVars
  BY <1>3 DEF supportVars, SupportsMade
<1> QED BY <1>1, <1>2, <1>3 DEF SupportsNext

\* For every part: pillars stand under what hangs and nowhere else; each group of
\* columns that hangs has a trunk of its own, its middle is a point of some trunk
\* or branch, and nothing is printed where no group asked for it (support.rs:111,
\* tree_support.rs:137, 196). That a trunk stands under its group is not said: see
\* TreesReachTheirOverhang.
THEOREM OverhangsStayHeld == SupportsSpec => []OverhangsAreHeld
<1>1. SupportsInit => SupportsMade
  BY SMTT(25) DEF SupportsInit, SupportsMade
<1>2. SupportsMade /\ [SupportsNext]_supportVars => SupportsMade'
  BY SupportsStep
<1>3. SupportsMade => OverhangsAreHeld
  BY MadeIsHeld
<1> QED BY <1>1, <1>2, <1>3, PTL DEF SupportsSpec
=============================================================================
