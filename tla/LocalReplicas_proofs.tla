------------------------ MODULE LocalReplicas_proofs ------------------------
(***************************************************************************)
(* Theorems about LocalReplicas for any replicas, keys, names, texts and   *)
(* bounds. The invariant says that every document is the Meaning of the    *)
(* operations learnt there, which needs every clock to be used once, which *)
(* needs every issued stamp to be at most the clock of its replica.        *)
(***************************************************************************)
EXTENDS LocalReplicas, TLAPS

--------------------------------------------------------------------------
(* The algebra of the document: Apply and Merge compute the Meaning of the *)
(* operations they are given, provided no two of them share a clock.       *)

\* The order of clocks is strict and total (clock.rs, Ord::cmp).
LEMMA ClockOrder ==
  ASSUME NEW a \in Clock, NEW b \in Clock, NEW c \in Clock
  PROVE  /\ ~ClockLess(a, a)
         /\ ClockLess(a, b) /\ ClockLess(b, c) => ClockLess(a, c)
         /\ ClockLess(a, b) \/ ClockLess(b, a) \/ a = b
  BY DEF Clock, ClockLess

\* A stamp taken after observing a clock is above it, whatever the wall says
\* (HybridClock::observe then tick).
LEMMA TickAboveObserved ==
  ASSUME NEW c \in Clock, NEW o \in Clock, NEW wall \in Nat
  PROVE  /\ ClockLess(o, Tick(Observe(c, o), wall))
         /\ ClockLess(c, Tick(c, wall))
         /\ Tick(c, wall) \in Clock
         /\ Observe(c, o) \in Clock
  BY DEF Clock, ClockLess, Tick, Observe, MaxOf

\* Writes to one register under which every clock is used once.
UniqueWrites(writes) == \A v, w \in writes : v.clock = w.clock => v = w

\* A set of writes that has a latest one unless it is empty (every finite set).
HasLatest(writes) == writes # {} => Latest(writes) # {}

\* The register that two sets of writes leave when their winners meet is the
\* winner of all of them (Register::merge).
LEMMA LatestOfUnion ==
  ASSUME NEW V \in SUBSET Register, NEW W \in SUBSET Register,
         UniqueWrites(V \cup W), HasLatest(V), HasLatest(W)
  PROVE  /\ Latest(V \cup W) = LWW(Latest(V), Latest(W))
         /\ HasLatest(V \cup W)
<1>. USE DEF Register
<1>1. CASE V = {}
  BY <1>1 DEF Latest, LWW, HasLatest
<1>2. CASE W = {}
  BY <1>2 DEF Latest, LWW, HasLatest
<1>3. CASE V # {} /\ W # {}
  <2>1. PICK v \in V : v \in Latest(V)
    BY <1>3 DEF HasLatest, Latest
  <2>2. PICK w \in W : w \in Latest(W)
    BY <1>3 DEF HasLatest, Latest
  <2>3. Latest(V) = {v}
    <3>1. ASSUME NEW u \in Latest(V) PROVE u = v
      <4>1. ~ClockLess(u.clock, v.clock) /\ ~ClockLess(v.clock, u.clock) /\ u \in V
        BY <2>1 DEF Latest
      <4>2. u.clock = v.clock
        BY <4>1, ClockOrder
      <4>3. QED  BY <4>1, <4>2 DEF UniqueWrites
    <3>2. QED  BY <3>1, <2>1
  <2>4. Latest(W) = {w}
    <3>1. ASSUME NEW u \in Latest(W) PROVE u = w
      <4>1. ~ClockLess(u.clock, w.clock) /\ ~ClockLess(w.clock, u.clock) /\ u \in W
        BY <2>2 DEF Latest
      <4>2. u.clock = w.clock
        BY <4>1, ClockOrder
      <4>3. QED  BY <4>1, <4>2 DEF UniqueWrites
    <3>2. QED  BY <3>1, <2>2
  <2>5. CASE ClockLess(v.clock, w.clock)
    <3>1. \A u \in V \cup W : ~ClockLess(w.clock, u.clock)
      <4>1. ASSUME NEW u \in V, ClockLess(w.clock, u.clock) PROVE FALSE
        BY <2>1, <2>5, <4>1, ClockOrder DEF Latest
      <4>2. QED  BY <4>1, <2>2 DEF Latest
    <3>2. ASSUME NEW u \in Latest(V \cup W) PROVE u = w
      <4>1. u \in V \cup W /\ ~ClockLess(u.clock, w.clock)
        BY DEF Latest
      <4>2. u.clock = w.clock
        BY <4>1, <3>1, ClockOrder
      <4>3. QED  BY <4>1, <4>2 DEF UniqueWrites
    <3>3. w \in Latest(V \cup W)
      BY <3>1 DEF Latest
    <3>4. LWW({v}, {w}) = {w}
      BY <2>5 DEF LWW
    <3>5. QED  BY <2>3, <2>4, <3>2, <3>3, <3>4 DEF HasLatest
  <2>6. CASE ~ClockLess(v.clock, w.clock)
    <3>1. \A u \in V \cup W : ~ClockLess(v.clock, u.clock)
      <4>1. ASSUME NEW u \in W, ClockLess(v.clock, u.clock) PROVE FALSE
        <5>1. ~ClockLess(w.clock, u.clock)
          BY <2>2 DEF Latest
        <5>2. w.clock = v.clock \/ ClockLess(w.clock, v.clock)
          BY <2>6, ClockOrder
        <5>3. QED  BY <4>1, <5>1, <5>2, ClockOrder
      <4>2. QED  BY <4>1, <2>1 DEF Latest
    <3>2. ASSUME NEW u \in Latest(V \cup W) PROVE u = v
      <4>1. u \in V \cup W /\ ~ClockLess(u.clock, v.clock)
        BY DEF Latest
      <4>2. u.clock = v.clock
        BY <4>1, <3>1, ClockOrder
      <4>3. QED  BY <4>1, <4>2 DEF UniqueWrites
    <3>3. v \in Latest(V \cup W)
      BY <3>1 DEF Latest
    <3>4. LWW({v}, {w}) = {v}
      BY <2>6 DEF LWW
    <3>5. QED  BY <2>3, <2>4, <3>2, <3>3, <3>4 DEF HasLatest
  <2>7. QED  BY <2>5, <2>6
<1>4. QED  BY <1>1, <1>2, <1>3

\* Operations no two of which carry the same clock.
UniqueOps(ops) == \A o, p \in {q \in ops : Stamped(q)} : Stamp(o) = Stamp(p) => o = p

\* Every register the operations write has a latest write.
HasWinners(ops) ==
  \A k \in Key : /\ HasLatest(KindWrites(ops, k))
                 /\ HasLatest(PositionWrites(ops, k))
                 /\ \A n \in Name : HasLatest(ParamWrites(ops, k, n))

LEMMA WritesAreRegisters ==
  ASSUME NEW S \in SUBSET Op, NEW k, NEW n
  PROVE  /\ KindWrites(S, k) \in SUBSET Register
         /\ PositionWrites(S, k) \in SUBSET Register
         /\ ParamWrites(S, k, n) \in SUBSET Register
<1>1. \A o \in S : /\ o.type = "AddFeature" => /\ o.kind \in Text /\ o.tag \in Clock
                                               /\ o.position \in Text
                   /\ o.type = "SetParam" => o.value \in Text /\ o.clock \in Clock
                   /\ o.type = "SetPosition" => o.position \in Text /\ o.clock \in Clock
  BY DEF Op
<1>2. QED
  BY <1>1 DEF KindWrites, PositionWrites, ParamWrites, OpsOn, Register

\* The writes of operations with unique clocks have unique clocks.
LEMMA WritesAreUnique ==
  ASSUME NEW S \in SUBSET Op, UniqueOps(S), NEW k, NEW n
  PROVE  /\ UniqueWrites(KindWrites(S, k))
         /\ UniqueWrites(PositionWrites(S, k))
         /\ UniqueWrites(ParamWrites(S, k, n))
<1>1. UniqueWrites(KindWrites(S, k))
  <2>. SUFFICES ASSUME NEW v \in KindWrites(S, k), NEW w \in KindWrites(S, k),
                       v.clock = w.clock
                PROVE  v = w
    BY DEF UniqueWrites
  <2>1. PICK o \in S : o.type = "AddFeature" /\ v = [value |-> o.kind, clock |-> o.tag]
    BY DEF KindWrites, OpsOn
  <2>2. PICK p \in S : p.type = "AddFeature" /\ w = [value |-> p.kind, clock |-> p.tag]
    BY DEF KindWrites, OpsOn
  <2>3. o = p
    BY <2>1, <2>2 DEF UniqueOps, Stamped, Stamp
  <2>4. QED  BY <2>1, <2>2, <2>3
<1>2. UniqueWrites(ParamWrites(S, k, n))
  <2>. SUFFICES ASSUME NEW v \in ParamWrites(S, k, n), NEW w \in ParamWrites(S, k, n),
                       v.clock = w.clock
                PROVE  v = w
    BY DEF UniqueWrites
  <2>1. PICK o \in S : o.type = "SetParam" /\ v = [value |-> o.value, clock |-> o.clock]
    BY DEF ParamWrites, OpsOn
  <2>2. PICK p \in S : p.type = "SetParam" /\ w = [value |-> p.value, clock |-> p.clock]
    BY DEF ParamWrites, OpsOn
  <2>3. o = p
    BY <2>1, <2>2 DEF UniqueOps, Stamped, Stamp
  <2>4. QED  BY <2>1, <2>2, <2>3
<1>3. UniqueWrites(PositionWrites(S, k))
  <2>. SUFFICES ASSUME NEW v \in PositionWrites(S, k), NEW w \in PositionWrites(S, k),
                       v.clock = w.clock
                PROVE  v = w
    BY DEF UniqueWrites
  <2>1. PICK o \in S : Stamped(o) /\ v = [value |-> o.position, clock |-> Stamp(o)]
    BY DEF PositionWrites, OpsOn, Stamped, Stamp
  <2>2. PICK p \in S : Stamped(p) /\ w = [value |-> p.position, clock |-> Stamp(p)]
    BY DEF PositionWrites, OpsOn, Stamped, Stamp
  <2>3. o = p
    BY <2>1, <2>2 DEF UniqueOps
  <2>4. QED  BY <2>1, <2>2, <2>3
<1>4. QED  BY <1>1, <1>2, <1>3

\* The document of a set of operations is a document.
LEMMA MeaningIsDoc ==
  ASSUME NEW S \in SUBSET Op
  PROVE  /\ Meaning(S) \in Doc
         /\ \A k : FeatureMeaning(S, k) \in FeatureState
<1>1. ASSUME NEW k PROVE FeatureMeaning(S, k) \in FeatureState
  <2>1. /\ Latest(KindWrites(S, k)) \in SUBSET Register
        /\ Latest(PositionWrites(S, k)) \in SUBSET Register
        /\ [n \in Name |-> Latest(ParamWrites(S, k, n))] \in [Name -> SUBSET Register]
    BY WritesAreRegisters DEF Latest
  <2>2. /\ {o.tag : o \in OpsOn(S, "AddFeature", k)} \in SUBSET Clock
        /\ UNION {o.observed_tags : o \in OpsOn(S, "RemoveFeature", k)} \in SUBSET Clock
    BY DEF OpsOn, Op
  <2>3. QED  BY <2>1, <2>2 DEF FeatureMeaning, FeatureState
<1>2. {o.key : o \in S} \in SUBSET Key
  BY DEF Op
<1>3. QED  BY <1>1, <1>2 DEF Meaning, Doc

LEMMA KindWritesOfUnion ==
  ASSUME NEW S, NEW T, NEW k
  PROVE  KindWrites(S \cup T, k) = KindWrites(S, k) \cup KindWrites(T, k)
  BY DEF KindWrites, OpsOn

LEMMA PositionWritesOfUnion ==
  ASSUME NEW S, NEW T, NEW k
  PROVE  PositionWrites(S \cup T, k) = PositionWrites(S, k) \cup PositionWrites(T, k)
  BY DEF PositionWrites, OpsOn

LEMMA ParamWritesOfUnion ==
  ASSUME NEW S, NEW T, NEW k, NEW n
  PROVE  ParamWrites(S \cup T, k, n) = ParamWrites(S, k, n) \cup ParamWrites(T, k, n)
  BY DEF ParamWrites, OpsOn

\* Merging the documents of two sets of operations gives the document of all
\* of them (CrdtDoc::merge), whatever the sets have in common.
THEOREM MergeMeaning ==
  ASSUME NEW S \in SUBSET Op, NEW T \in SUBSET Op, UniqueOps(S \cup T),
         HasWinners(S), HasWinners(T)
  PROVE  /\ Merge(Meaning(S), Meaning(T)) = Meaning(S \cup T)
         /\ HasWinners(S \cup T)
<1>. DEFINE U == S \cup T
<1>1. S \in SUBSET Op /\ T \in SUBSET Op /\ U \in SUBSET Op /\ UniqueOps(U)
  OBVIOUS
<1>. HIDE DEF U
<1>2. ASSUME NEW k \in Key
      PROVE  /\ Latest(KindWrites(U, k)) = LWW(Latest(KindWrites(S, k)), Latest(KindWrites(T, k)))
             /\ HasLatest(KindWrites(U, k))
  <2>1. KindWrites(U, k) = KindWrites(S, k) \cup KindWrites(T, k)
    BY KindWritesOfUnion DEF U
  <2>2. KindWrites(U, k) \in SUBSET Register /\ UniqueWrites(KindWrites(U, k))
    BY <1>1, WritesAreRegisters, WritesAreUnique
  <2>3. HasLatest(KindWrites(S, k)) /\ HasLatest(KindWrites(T, k))
    BY DEF HasWinners
  <2>4. QED  BY <2>1, <2>2, <2>3, LatestOfUnion
<1>3. ASSUME NEW k \in Key
      PROVE  /\ Latest(PositionWrites(U, k))
                   = LWW(Latest(PositionWrites(S, k)), Latest(PositionWrites(T, k)))
             /\ HasLatest(PositionWrites(U, k))
  <2>1. PositionWrites(U, k) = PositionWrites(S, k) \cup PositionWrites(T, k)
    BY PositionWritesOfUnion DEF U
  <2>2. PositionWrites(U, k) \in SUBSET Register /\ UniqueWrites(PositionWrites(U, k))
    BY <1>1, WritesAreRegisters, WritesAreUnique
  <2>3. HasLatest(PositionWrites(S, k)) /\ HasLatest(PositionWrites(T, k))
    BY DEF HasWinners
  <2>4. QED  BY <2>1, <2>2, <2>3, LatestOfUnion
<1>4. ASSUME NEW k \in Key, NEW n \in Name
      PROVE  /\ Latest(ParamWrites(U, k, n))
                   = LWW(Latest(ParamWrites(S, k, n)), Latest(ParamWrites(T, k, n)))
             /\ HasLatest(ParamWrites(U, k, n))
  <2>1. ParamWrites(U, k, n) = ParamWrites(S, k, n) \cup ParamWrites(T, k, n)
    BY ParamWritesOfUnion DEF U
  <2>2. ParamWrites(U, k, n) \in SUBSET Register /\ UniqueWrites(ParamWrites(U, k, n))
    BY <1>1, WritesAreRegisters, WritesAreUnique
  <2>3. HasLatest(ParamWrites(S, k, n)) /\ HasLatest(ParamWrites(T, k, n))
    BY DEF HasWinners
  <2>4. QED  BY <2>1, <2>2, <2>3, LatestOfUnion
<1>5. HasWinners(U)
  BY <1>2, <1>3, <1>4 DEF HasWinners
<1>6. ASSUME NEW k \in Key
      PROVE  MergeFeature(FeatureMeaning(S, k), FeatureMeaning(T, k)) = FeatureMeaning(U, k)
  <2>1. /\ {o.tag : o \in OpsOn(U, "AddFeature", k)}
              = {o.tag : o \in OpsOn(S, "AddFeature", k)}
                  \cup {o.tag : o \in OpsOn(T, "AddFeature", k)}
        /\ UNION {o.observed_tags : o \in OpsOn(U, "RemoveFeature", k)}
              = (UNION {o.observed_tags : o \in OpsOn(S, "RemoveFeature", k)})
                  \cup (UNION {o.observed_tags : o \in OpsOn(T, "RemoveFeature", k)})
    BY DEF OpsOn, U
  <2>2. QED  BY <2>1, <1>2, <1>3, <1>4 DEF MergeFeature, FeatureMeaning
<1>7. {o.key : o \in U} = {o.key : o \in S} \cup {o.key : o \in T}
  BY DEF U
<1>8. Merge(Meaning(S), Meaning(T)) = Meaning(U)
  BY <1>6, <1>7 DEF Merge, Meaning
<1>9. QED  BY <1>5, <1>8 DEF U

LEMMA LatestOfOne ==
  ASSUME NEW w \in Register
  PROVE  Latest({w}) = {w}
  BY ClockOrder DEF Latest, Register

LEMMA LatestOfNone == Latest({}) = {}
  BY DEF Latest

LEMMA LWWOfNone ==
  ASSUME NEW m PROVE LWW(m, {}) = m
  BY DEF LWW

LEMMA OpsOfOne ==
  ASSUME NEW op, NEW t, NEW k
  PROVE  OpsOn({op}, t, k) = IF op.type = t /\ op.key = k THEN {op} ELSE {}
  BY DEF OpsOn

LEMMA KindWritesOfOne ==
  ASSUME NEW op, NEW k
  PROVE  KindWrites({op}, k) = IF op.type = "AddFeature" /\ op.key = k
                               THEN Written(op.kind, op.tag) ELSE {}
  BY OpsOfOne DEF KindWrites, Written

LEMMA PositionWritesOfOne ==
  ASSUME NEW op, NEW k
  PROVE  PositionWrites({op}, k)
           = IF op.type = "AddFeature" /\ op.key = k THEN Written(op.position, op.tag)
             ELSE IF op.type = "SetPosition" /\ op.key = k THEN Written(op.position, op.clock)
             ELSE {}
  BY OpsOfOne DEF PositionWrites, Written

LEMMA ParamWritesOfOne ==
  ASSUME NEW op, NEW k, NEW n
  PROVE  ParamWrites({op}, k, n) = IF op.type = "SetParam" /\ op.key = k /\ op.name = n
                                   THEN Written(op.value, op.clock) ELSE {}
  BY OpsOfOne DEF ParamWrites, Written

\* The fields an EXCEPT leaves alone, for the updates of a feature.
LEMMA UpdateRemove ==
  ASSUME NEW f \in FeatureState, NEW a
  PROVE  [f EXCEPT !.removed_tags = a]
           = [kind |-> f.kind, position |-> f.position, params |-> f.params,
              add_tags |-> f.add_tags, removed_tags |-> a]
  BY DEF FeatureState

LEMMA UpdateParams ==
  ASSUME NEW f \in FeatureState, NEW a
  PROVE  [f EXCEPT !.params = a]
           = [kind |-> f.kind, position |-> f.position, params |-> a,
              add_tags |-> f.add_tags, removed_tags |-> f.removed_tags]
  BY DEF FeatureState

LEMMA UpdatePosition ==
  ASSUME NEW f \in FeatureState, NEW a
  PROVE  [f EXCEPT !.position = a]
           = [kind |-> f.kind, position |-> a, params |-> f.params,
              add_tags |-> f.add_tags, removed_tags |-> f.removed_tags]
  BY DEF FeatureState

\* Applying an operation is merging the document of that operation alone: the
\* two ways edits reach a node agree (the test state_merge_matches_op_apply).
LEMMA ApplyIsMerge ==
  ASSUME NEW S \in SUBSET Op, NEW op \in Op
  PROVE  Apply(Meaning(S), op) = Merge(Meaning(S), Meaning({op}))
<1>1. op.key \in Key
  BY DEF Op
<1>2. ASSUME NEW k \in Key, NEW f \in FeatureState, k # op.key
      PROVE  MergeFeature(f, FeatureMeaning({op}, k)) = f
  <2>. DEFINE g == FeatureMeaning({op}, k)
  <2>1. /\ KindWrites({op}, k) = {} /\ PositionWrites({op}, k) = {}
        /\ \A m : ParamWrites({op}, k, m) = {}
    BY <1>2, KindWritesOfOne, PositionWritesOfOne, ParamWritesOfOne
  <2>2. /\ OpsOn({op}, "AddFeature", k) = {}
        /\ OpsOn({op}, "RemoveFeature", k) = {}
    BY <1>2, OpsOfOne
  <2>3. /\ g.kind = {} /\ g.position = {} /\ g.add_tags = {} /\ g.removed_tags = {}
        /\ \A m \in Name : g.params[m] = {}
    BY <2>1, <2>2, LatestOfNone DEF FeatureMeaning
  <2>. HIDE DEF g
  <2>4. f.params = [m \in Name |-> f.params[m]]
    BY DEF FeatureState
  <2>5. [m \in Name |-> LWW(f.params[m], g.params[m])] = f.params
    BY <2>3, <2>4, LWWOfNone
  <2>6. MergeFeature(f, g) = [kind |-> f.kind, position |-> f.position, params |-> f.params,
                              add_tags |-> f.add_tags, removed_tags |-> f.removed_tags]
    BY <2>3, <2>5, LWWOfNone DEF MergeFeature
  <2>7. QED  BY <2>6 DEF FeatureState, g
<1>3. ASSUME NEW f \in FeatureState
      PROVE  ApplyTo(f, op) = MergeFeature(f, FeatureMeaning({op}, op.key))
  <2>. DEFINE g == FeatureMeaning({op}, op.key)
  <2>0. /\ g.kind = Latest(KindWrites({op}, op.key))
        /\ g.position = Latest(PositionWrites({op}, op.key))
        /\ \A m \in Name : g.params[m] = Latest(ParamWrites({op}, op.key, m))
        /\ g.add_tags = {o.tag : o \in OpsOn({op}, "AddFeature", op.key)}
        /\ g.removed_tags = UNION {o.observed_tags : o \in OpsOn({op}, "RemoveFeature", op.key)}
    BY DEF FeatureMeaning
  <2>1. f.params = [m \in Name |-> f.params[m]]
    BY DEF FeatureState
  <2>. HIDE DEF g
  <2>2. CASE op.type = "AddFeature"
    <3>1. /\ Latest(Written(op.kind, op.tag)) = Written(op.kind, op.tag)
          /\ Latest(Written(op.position, op.tag)) = Written(op.position, op.tag)
      BY <2>2, LatestOfOne DEF Op, Register, Written
    <3>2. g.kind = Written(op.kind, op.tag)
      BY <2>0, <2>2, <3>1, KindWritesOfOne, LatestOfNone
    <3>3. g.position = Written(op.position, op.tag)
      BY <2>0, <2>2, <3>1, PositionWritesOfOne, LatestOfNone
    <3>4. g.add_tags = {op.tag}
      BY <2>0, <2>2, OpsOfOne
    <3>5. g.removed_tags = {}
      BY <2>0, <2>2, OpsOfOne
    <3>6. \A m \in Name : g.params[m] = {}
      BY <2>0, <2>2, ParamWritesOfOne, LatestOfNone
    <3>7. [m \in Name |-> LWW(f.params[m], g.params[m])] = f.params
      BY <2>1, <3>6, LWWOfNone
    <3>8. MergeFeature(f, g)
            = [kind |-> LWW(f.kind, Written(op.kind, op.tag)), position |-> LWW(f.position, Written(op.position, op.tag)),
               params |-> f.params,
               add_tags |-> f.add_tags \cup {op.tag}, removed_tags |-> f.removed_tags]
      BY <3>2, <3>3, <3>4, <3>5, <3>7, LWWOfNone DEF MergeFeature
    <3>9. ApplyAdd(f, op) = MergeFeature(f, g)
      BY <3>8 DEF ApplyAdd
    <3>10. QED  BY <3>9, <2>2 DEF ApplyTo, g
  <2>3. CASE op.type = "RemoveFeature"
    <3>2. g.kind = {}
      BY <2>0, <2>3, KindWritesOfOne, LatestOfNone
    <3>3. g.position = {}
      BY <2>0, <2>3, PositionWritesOfOne, LatestOfNone
    <3>4. g.add_tags = {}
      BY <2>0, <2>3, OpsOfOne
    <3>5. g.removed_tags = op.observed_tags
      BY <2>0, <2>3, OpsOfOne
    <3>6. \A m \in Name : g.params[m] = {}
      BY <2>0, <2>3, ParamWritesOfOne, LatestOfNone
    <3>7. [m \in Name |-> LWW(f.params[m], g.params[m])] = f.params
      BY <2>1, <3>6, LWWOfNone
    <3>8. MergeFeature(f, g)
            = [kind |-> f.kind, position |-> f.position,
               params |-> f.params,
               add_tags |-> f.add_tags, removed_tags |-> f.removed_tags \cup op.observed_tags]
      BY <3>2, <3>3, <3>4, <3>5, <3>7, LWWOfNone DEF MergeFeature
    <3>9. ApplyRemove(f, op) = MergeFeature(f, g)
      BY <3>8, UpdateRemove, Zenon DEF ApplyRemove
    <3>10. QED  BY <3>9, <2>3 DEF ApplyTo, g
  <2>4. CASE op.type = "SetParam"
    <3>1. op.name \in Name /\ Latest(Written(op.value, op.clock)) = Written(op.value, op.clock)
      BY <2>4, LatestOfOne DEF Op, Register, Written
    <3>2. g.kind = {}
      BY <2>0, <2>4, <3>1, KindWritesOfOne, LatestOfNone
    <3>3. g.position = {}
      BY <2>0, <2>4, <3>1, PositionWritesOfOne, LatestOfNone
    <3>4. g.add_tags = {}
      BY <2>0, <2>4, OpsOfOne
    <3>5. g.removed_tags = {}
      BY <2>0, <2>4, OpsOfOne
    <3>6. \A m \in Name : g.params[m] = IF m = op.name THEN Written(op.value, op.clock) ELSE {}
      <4>. SUFFICES ASSUME NEW m \in Name
                    PROVE  g.params[m] = IF m = op.name THEN Written(op.value, op.clock) ELSE {}
        OBVIOUS
      <4>1. ParamWrites({op}, op.key, m)
              = IF m = op.name THEN Written(op.value, op.clock) ELSE {}
        BY <2>4, ParamWritesOfOne
      <4>2. QED  BY <2>0, <4>1, <3>1, LatestOfNone
    <3>7. [m \in Name |-> LWW(f.params[m], g.params[m])]
            = [f.params EXCEPT ![op.name] = LWW(@, Written(op.value, op.clock))]
      BY <2>1, <3>1, <3>6, LWWOfNone
    <3>8. MergeFeature(f, g)
            = [kind |-> f.kind, position |-> f.position,
               params |-> [f.params EXCEPT ![op.name] = LWW(@, Written(op.value, op.clock))],
               add_tags |-> f.add_tags, removed_tags |-> f.removed_tags]
      BY <3>2, <3>3, <3>4, <3>5, <3>7, LWWOfNone DEF MergeFeature
    <3>9. ApplySetParam(f, op) = MergeFeature(f, g)
      BY <3>8, UpdateParams, Zenon DEF ApplySetParam
    <3>10. QED  BY <3>9, <2>4 DEF ApplyTo, g
  <2>5. CASE op.type = "SetPosition"
    <3>1. Latest(Written(op.position, op.clock)) = Written(op.position, op.clock)
      BY <2>5, LatestOfOne DEF Op, Register, Written
    <3>2. g.kind = {}
      BY <2>0, <2>5, <3>1, KindWritesOfOne, LatestOfNone
    <3>3. g.position = Written(op.position, op.clock)
      BY <2>0, <2>5, <3>1, PositionWritesOfOne, LatestOfNone
    <3>4. g.add_tags = {}
      BY <2>0, <2>5, OpsOfOne
    <3>5. g.removed_tags = {}
      BY <2>0, <2>5, OpsOfOne
    <3>6. \A m \in Name : g.params[m] = {}
      BY <2>0, <2>5, ParamWritesOfOne, LatestOfNone
    <3>7. [m \in Name |-> LWW(f.params[m], g.params[m])] = f.params
      BY <2>1, <3>6, LWWOfNone
    <3>8. MergeFeature(f, g)
            = [kind |-> f.kind, position |-> LWW(f.position, Written(op.position, op.clock)),
               params |-> f.params,
               add_tags |-> f.add_tags, removed_tags |-> f.removed_tags]
      BY <3>2, <3>3, <3>4, <3>5, <3>7, LWWOfNone DEF MergeFeature
    <3>9. ApplySetPosition(f, op) = MergeFeature(f, g)
      BY <3>8, UpdatePosition, Zenon DEF ApplySetPosition
    <3>10. QED  BY <3>9, <2>5 DEF ApplyTo, g
  <2>6. QED
    BY <2>2, <2>3, <2>4, <2>5 DEF Op
<1>4. /\ \A k \in Key : FeatureMeaning(S, k) \in FeatureState
      /\ {o.key : o \in {op}} = {op.key}
  BY MeaningIsDoc
<1>5. [[k \in Key |-> FeatureMeaning(S, k)] EXCEPT ![op.key] = ApplyTo(@, op)]
        = [k \in Key |-> MergeFeature(FeatureMeaning(S, k), FeatureMeaning({op}, k))]
  BY <1>1, <1>2, <1>3, <1>4
<1>6. QED
  BY <1>4, <1>5 DEF Apply, Merge, Meaning

LEMMA WinnersOfOne ==
  ASSUME NEW op \in Op
  PROVE  HasWinners({op})
<1>1. ASSUME NEW W \in SUBSET Register, \A v, w \in W : v = w
      PROVE  HasLatest(W)
  BY <1>1, ClockOrder DEF HasLatest, Latest, Register
<1>2. ASSUME NEW k \in Key
      PROVE  /\ HasLatest(KindWrites({op}, k))
             /\ HasLatest(PositionWrites({op}, k))
  <2>1. /\ KindWrites({op}, k) \in SUBSET Register
        /\ PositionWrites({op}, k) \in SUBSET Register
    BY WritesAreRegisters
  <2>2. /\ \A v, w \in KindWrites({op}, k) : v = w
        /\ \A v, w \in PositionWrites({op}, k) : v = w
    <3>1. \A x, y : \A v, w \in Written(x, y) : v = w
      BY DEF Written
    <3>2. \A v, w \in KindWrites({op}, k) : v = w
      BY <3>1, KindWritesOfOne
    <3>3. \A v, w \in PositionWrites({op}, k) : v = w
      BY <3>1, PositionWritesOfOne
    <3>4. QED  BY <3>2, <3>3
  <2>3. QED  BY <2>1, <2>2, <1>1
<1>3. ASSUME NEW k \in Key, NEW n \in Name
      PROVE  HasLatest(ParamWrites({op}, k, n))
  <2>1. ParamWrites({op}, k, n) \in SUBSET Register
    BY WritesAreRegisters
  <2>2. \A v, w \in ParamWrites({op}, k, n) : v = w
    BY ParamWritesOfOne DEF Written
  <2>3. QED  BY <2>1, <2>2, <1>1
<1>4. QED  BY <1>2, <1>3 DEF HasWinners

\* Applying an operation to the document of a set of operations gives the
\* document of the set with the operation added, known or not
\* (CrdtDoc::apply: commutative and idempotent).
THEOREM ApplyMeaning ==
  ASSUME NEW S \in SUBSET Op, NEW op \in Op, UniqueOps(S \cup {op}), HasWinners(S)
  PROVE  /\ Apply(Meaning(S), op) = Meaning(S \cup {op})
         /\ HasWinners(S \cup {op})
<1>1. {op} \in SUBSET Op /\ HasWinners({op})
  BY WinnersOfOne
<1>2. QED
  BY <1>1, ApplyIsMerge, MergeMeaning

--------------------------------------------------------------------------
(* The replicas.                                                           *)

\* The parts of the state the documents are computed from.
HistoryOK == /\ clock \in [Replica -> Clock]
             /\ next_key \in [Replica -> 1 .. MaxFeatures + 1]
             /\ issued \subseteq Op
             /\ learnt \in [Node -> SUBSET issued]
             /\ past \in [issued -> SUBSET issued]

\* A replica stamps under its own id, and never above its own clock.
StampsBelowClocks ==
  /\ \A r \in Replica : clock[r].replica = r /\ clock[r].wall_ms = 0
  /\ \A o \in {q \in issued : Stamped(q)} :
       /\ Stamp(o).replica \in Replica /\ Stamp(o).wall_ms = 0
       /\ Stamp(o).lamport <= clock[Stamp(o).replica].lamport

DocsAreMeanings ==
  /\ doc = [n \in Node |-> Meaning(learnt[n])]
  /\ \A n \in Node : HasWinners(learnt[n])

\* A remove tombstones the tags of the adds in its causal past.
RemovesObserve ==
  \A rm \in {q \in issued : ~Stamped(q)} :
    rm.observed_tags = {a.tag : a \in OpsOn(past[rm], "AddFeature", rm.key)}

IInv == /\ HistoryOK
        /\ StampsBelowClocks
        /\ UniqueStamps
        /\ DocsAreMeanings
        /\ RemovesObserve

-----------------------------------------------------------------------------
\* What the five local edits have in common.
Edit(r, op) ==
  /\ Issue(r, op)
  /\ next_key' \in [Replica -> 1 .. MaxFeatures + 1]
  /\ \/ /\ Stamped(op) /\ Stamp(op) = NextStamp(r)
        /\ clock' = [clock EXCEPT ![r] = NextStamp(r)]
     \/ /\ ~Stamped(op) /\ op.observed_tags = ObservedTags(doc[r], op.key)
        /\ clock' = clock

\* A node learns of operations that were issued before.
Grow(n, ops) ==
  /\ doc' = [doc EXCEPT ![n] = Meaning(learnt[n] \cup ops)]
  /\ learnt' = [learnt EXCEPT ![n] = @ \cup ops]
  /\ HasWinners(learnt[n] \cup ops)
  /\ UNCHANGED <<next_key, past>>

LEMMA DocTyped ==
  ASSUME IInv
  PROVE  /\ doc \in [Node -> Doc]
         /\ \A n \in Node : doc[n] = Meaning(learnt[n])
         /\ \A n \in Node : learnt[n] \in SUBSET Op
  BY MeaningIsDoc DEF IInv, HistoryOK, DocsAreMeanings

LEMMA EditCases ==
  ASSUME IInv, NEW r \in Replica, LocalEdit(r)
  PROVE  \E op \in Op : Edit(r, op)
<1>. DEFINE st == NextStamp(r)
<1>1. st \in Clock
  BY DEF IInv, HistoryOK, NextStamp, Tick, Clock, MaxOf
<1>2. /\ Known(r) \subseteq Key
      /\ \A k \in Key : ObservedTags(doc[r], k) \in SUBSET Clock
  BY DocTyped DEF Known, Doc, Node, ObservedTags, FeatureState
<1>3. next_key \in [Replica -> 1 .. MaxFeatures + 1]
  BY DEF IInv, HistoryOK
<1>. HIDE DEF st
<1>4. ASSUME NEW kind \in Text, NEW position \in Text, AddFeature(r, kind, position)
      PROVE  \E op \in Op : Edit(r, op)
  <2>. DEFINE op == [type |-> "AddFeature", key |-> <<r, next_key[r]>>, kind |-> kind,
                     tag |-> st, position |-> position]
  <2>1. <<r, next_key[r]>> \in Key
    BY <1>3, <1>4, KeyAssumption, BoundAssumption DEF AddFeature
  <2>2. op \in Op
    BY <1>1, <2>1 DEF Op
  <2>3. next_key' \in [Replica -> 1 .. MaxFeatures + 1]
    BY <1>3, <1>4, BoundAssumption DEF AddFeature
  <2>4. Edit(r, op)
    BY <1>4, <2>3 DEF AddFeature, Edit, Stamped, Stamp, st
  <2>5. QED  BY <2>2, <2>4
<1>5. ASSUME NEW k \in Known(r), NEW kind \in Text, NEW position \in Text,
             ReAddFeature(r, k, kind, position)
      PROVE  \E op \in Op : Edit(r, op)
  <2>. DEFINE op == [type |-> "AddFeature", key |-> k, kind |-> kind,
                     tag |-> st, position |-> position]
  <2>1. op \in Op
    BY <1>1, <1>2 DEF Op
  <2>2. Edit(r, op)
    BY <1>3, <1>5 DEF ReAddFeature, Edit, Stamped, Stamp, st
  <2>3. QED  BY <2>1, <2>2
<1>6. ASSUME NEW k \in Known(r), NEW name \in Name, NEW value \in Text,
             SetParam(r, k, name, value)
      PROVE  \E op \in Op : Edit(r, op)
  <2>. DEFINE op == [type |-> "SetParam", key |-> k, name |-> name, value |-> value,
                     clock |-> st]
  <2>1. op \in Op
    BY <1>1, <1>2 DEF Op
  <2>2. Edit(r, op)
    BY <1>3, <1>6 DEF SetParam, Edit, Stamped, Stamp, st
  <2>3. QED  BY <2>1, <2>2
<1>7. ASSUME NEW k \in Known(r), NEW position \in Text, SetPosition(r, k, position)
      PROVE  \E op \in Op : Edit(r, op)
  <2>. DEFINE op == [type |-> "SetPosition", key |-> k, position |-> position, clock |-> st]
  <2>1. op \in Op
    BY <1>1, <1>2 DEF Op
  <2>2. Edit(r, op)
    BY <1>3, <1>7 DEF SetPosition, Edit, Stamped, Stamp, st
  <2>3. QED  BY <2>1, <2>2
<1>8. ASSUME NEW k \in Known(r), RemoveFeature(r, k)
      PROVE  \E op \in Op : Edit(r, op)
  <2>. DEFINE op == [type |-> "RemoveFeature", key |-> k,
                     observed_tags |-> ObservedTags(doc[r], k)]
  <2>1. op \in Op
    BY <1>2 DEF Op
  <2>2. Edit(r, op)
    BY <1>3, <1>8 DEF RemoveFeature, Edit, Stamped
  <2>3. QED  BY <2>1, <2>2
<1>9. QED
  BY <1>4, <1>5, <1>6, <1>7, <1>8 DEF LocalEdit

-----------------------------------------------------------------------------
LEMMA MeaningOfNone == Meaning({}) = NewDoc /\ HasWinners({})
<1>1. \A k : /\ KindWrites({}, k) = {} /\ PositionWrites({}, k) = {}
             /\ OpsOn({}, "AddFeature", k) = {} /\ OpsOn({}, "RemoveFeature", k) = {}
  BY DEF KindWrites, PositionWrites, OpsOn
<1>2. \A k, n : ParamWrites({}, k, n) = {}
  BY DEF ParamWrites, OpsOn
<1>3. \A k : FeatureMeaning({}, k) = NewFeature
  BY <1>1, <1>2, LatestOfNone DEF FeatureMeaning, NewFeature
<1>4. Meaning({}) = NewDoc
  BY <1>3 DEF Meaning, NewDoc
<1>5. HasWinners({})
  BY <1>1, <1>2 DEF HasWinners, HasLatest
<1>6. QED  BY <1>4, <1>5

LEMMA InitIInv == Init => IInv
<1>. SUFFICES ASSUME Init PROVE IInv
  OBVIOUS
<1>1. issued = {}
  BY DEF Init, issued
<1>2. HistoryOK
  <2>1. clock \in [Replica -> Clock]
    BY ReplicaAssumption DEF Init, NewClock, Clock
  <2>2. next_key \in [Replica -> 1 .. MaxFeatures + 1]
    BY BoundAssumption DEF Init
  <2>3. learnt \in [Node -> SUBSET issued] /\ past \in [issued -> SUBSET issued]
    BY <1>1 DEF Init
  <2>4. QED  BY <1>1, <2>1, <2>2, <2>3 DEF HistoryOK
<1>3. StampsBelowClocks /\ UniqueStamps /\ RemovesObserve
  BY <1>1 DEF Init, NewClock, StampsBelowClocks, UniqueStamps, RemovesObserve
<1>4. DocsAreMeanings
  BY MeaningOfNone DEF Init, DocsAreMeanings
<1>5. QED  BY <1>2, <1>3, <1>4 DEF IInv

\* What an edit does to the history.
LEMMA EditHistory ==
  ASSUME IInv, NEW r \in Replica, NEW op \in Op, Edit(r, op)
  PROVE  /\ issued' = issued \cup {op}
         /\ HistoryOK'
         /\ \A o \in issued : past'[o] = past[o]
         /\ op \notin issued => past'[op] = learnt[r]
         /\ \A n \in Node : learnt'[n] = IF n = r THEN learnt[n] \cup {op} ELSE learnt[n]
<1>1. past' = [o \in issued \cup {op} |-> IF o \in issued THEN past[o] ELSE learnt[r]]
  BY DEF Edit, Issue
<1>2. issued' = issued \cup {op}
  BY <1>1 DEF issued
<1>3. HistoryOK
  BY DEF IInv
<1>4. r \in Node
  BY DEF Node
<1>5. clock' \in [Replica -> Clock]
  <2>1. NextStamp(r) \in Clock
    BY <1>3 DEF HistoryOK, NextStamp, Tick, Clock, MaxOf
  <2>2. QED  BY <1>3, <2>1 DEF Edit, HistoryOK
<1>6. past' \in [issued' -> SUBSET issued']
  BY <1>1, <1>2, <1>3, <1>4 DEF HistoryOK
<1>7. \A n \in Node : learnt'[n] = IF n = r THEN learnt[n] \cup {op} ELSE learnt[n]
  BY <1>3, <1>4 DEF Edit, Issue, HistoryOK
<1>8. learnt' \in [Node -> SUBSET issued']
  BY <1>2, <1>3, <1>4 DEF Edit, Issue, HistoryOK
<1>9. next_key' \in [Replica -> 1 .. MaxFeatures + 1]
  BY DEF Edit
<1>10. issued' \subseteq Op
  BY <1>2, <1>3 DEF HistoryOK
<1>11. HistoryOK'
  BY <1>5, <1>6, <1>8, <1>9, <1>10 DEF HistoryOK
<1>12. QED  BY <1>1, <1>2, <1>7, <1>11

\* The stamp of an edit is above every stamp its replica has used.
LEMMA EditStamps ==
  ASSUME IInv, NEW r \in Replica, NEW op \in Op, Edit(r, op)
  PROVE  StampsBelowClocks' /\ UniqueStamps'
<1>. DEFINE st == NextStamp(r)
<1>1. issued' = issued \cup {op}
  BY EditHistory
<1>2. /\ clock \in [Replica -> Clock]
      /\ issued \subseteq Op
      /\ StampsBelowClocks
      /\ UniqueStamps
  BY DEF IInv, HistoryOK
<1>3. CASE ~Stamped(op)
  <2>1. clock' = clock
    BY <1>3 DEF Edit
  <2>2. \A o \in issued' : Stamped(o) => o \in issued
    BY <1>1, <1>3
  <2>3. QED  BY <1>2, <2>1, <2>2 DEF StampsBelowClocks, UniqueStamps
<1>4. CASE Stamped(op)
  <2>1. /\ Stamp(op) = st
        /\ clock' = [clock EXCEPT ![r] = st]
    BY <1>4 DEF Edit
  <2>2. /\ st.replica = r /\ st.wall_ms = 0
        /\ st.lamport = clock[r].lamport + 1
        /\ clock[r].lamport \in Nat
    BY <1>2 DEF StampsBelowClocks, NextStamp, Tick, MaxOf, Clock
  <2>. HIDE DEF st
  <2>3. \A q \in Replica : /\ clock'[q].replica = q /\ clock'[q].wall_ms = 0
                           /\ clock[q].lamport \in Nat /\ clock'[q].lamport \in Nat
                           /\ clock[q].lamport <= clock'[q].lamport
    <3>1. TAKE q \in Replica
    <3>2. clock'[q] = IF q = r THEN st ELSE clock[q]
      BY <1>2, <2>1
    <3>3. clock[q].lamport \in Nat
      BY <1>2 DEF Clock
    <3>4. clock[q].replica = q /\ clock[q].wall_ms = 0
      BY <1>2 DEF StampsBelowClocks
    <3>5. QED  BY <2>2, <3>2, <3>3, <3>4
  <2>4. \A o \in issued : Stamped(o) => Stamp(o) \in Clock
    BY <1>2 DEF Stamped, Stamp, Op
  <2>5. \A o \in issued : Stamped(o) =>
          /\ Stamp(o).replica \in Replica /\ Stamp(o).wall_ms = 0
          /\ Stamp(o).lamport <= clock[Stamp(o).replica].lamport
          /\ Stamp(o).lamport \in Nat
    BY <1>2, <2>4 DEF StampsBelowClocks, Clock
  <2>6. StampsBelowClocks'
    <3>1. ASSUME NEW o \in issued', Stamped(o)
          PROVE  /\ Stamp(o).replica \in Replica /\ Stamp(o).wall_ms = 0
                 /\ Stamp(o).lamport <= clock'[Stamp(o).replica].lamport
      <4>1. CASE o \in issued
        BY <2>3, <2>5, <3>1, <4>1
      <4>2. CASE o = op
        <5>1. clock'[r] = st
          BY <1>2, <2>1
        <5>2. QED  BY <2>1, <2>2, <4>2, <5>1
      <4>3. QED  BY <1>1, <4>1, <4>2
    <3>2. QED  BY <2>3, <3>1 DEF StampsBelowClocks
  <2>7. \A o \in issued : Stamped(o) => Stamp(o) # st
    BY <2>2, <2>5
  <2>8. UniqueStamps'
    BY <1>1, <1>2, <2>1, <2>7 DEF UniqueStamps
  <2>9. QED  BY <2>6, <2>8
<1>5. QED  BY <1>3, <1>4
LEMMA EditDocs ==
  ASSUME IInv, NEW r \in Replica, NEW op \in Op, Edit(r, op)
  PROVE  DocsAreMeanings' /\ RemovesObserve'
<1>1. /\ issued' = issued \cup {op}
      /\ HistoryOK'
      /\ \A o \in issued : past'[o] = past[o]
      /\ op \notin issued => past'[op] = learnt[r]
      /\ \A n \in Node : learnt'[n] = IF n = r THEN learnt[n] \cup {op} ELSE learnt[n]
  BY EditHistory
<1>2. UniqueOps(learnt[r] \cup {op})
  <2>1. UniqueStamps'
    BY EditStamps
  <2>2. learnt[r] \cup {op} \subseteq issued'
    BY <1>1 DEF HistoryOK, Node
  <2>3. QED  BY <2>1, <2>2 DEF UniqueStamps, UniqueOps
<1>3. /\ doc = [n \in Node |-> Meaning(learnt[n])]
      /\ \A n \in Node : HasWinners(learnt[n]) /\ learnt[n] \in SUBSET Op
  BY DocTyped DEF IInv, DocsAreMeanings
<1>4. r \in Node
  BY DEF Node
<1>5. /\ Apply(doc[r], op) = Meaning(learnt[r] \cup {op})
      /\ HasWinners(learnt[r] \cup {op})
  <2>1. /\ Apply(Meaning(learnt[r]), op) = Meaning(learnt[r] \cup {op})
        /\ HasWinners(learnt[r] \cup {op})
    BY <1>2, <1>3, <1>4, ApplyMeaning
  <2>2. doc[r] = Meaning(learnt[r])
    BY <1>3, <1>4
  <2>3. QED  BY <2>1, <2>2
<1>6. doc' = [doc EXCEPT ![r] = Meaning(learnt[r] \cup {op})]
  BY <1>5 DEF Edit, Issue
<1>7. DocsAreMeanings'
  <2>1. doc' = [n \in Node |-> Meaning(learnt'[n])]
    BY <1>1, <1>3, <1>6
  <2>2. \A n \in Node : HasWinners(learnt'[n])
    BY <1>1, <1>3, <1>5
  <2>3. QED  BY <2>1, <2>2 DEF DocsAreMeanings
<1>8. RemovesObserve'
  <2>1. ASSUME NEW rm \in issued', ~Stamped(rm)
        PROVE  rm.observed_tags = {a.tag : a \in OpsOn(past'[rm], "AddFeature", rm.key)}
    <3>1. CASE rm \in issued
      BY <1>1, <2>1, <3>1 DEF IInv, RemovesObserve
    <3>2. CASE rm \notin issued
      <4>1. rm = op /\ past'[rm] = learnt[r]
        BY <1>1, <3>2
      <4>2. rm.observed_tags = ObservedTags(doc[r], rm.key)
        BY <2>1, <4>1 DEF Edit
      <4>3. doc[r] = Meaning(learnt[r])
        BY <1>3, <1>4
      <4>4. rm.key \in Key
        BY <4>1 DEF Op
      <4>5. QED  BY <4>1, <4>2, <4>3, <4>4 DEF ObservedTags, Meaning, FeatureMeaning
    <3>3. QED  BY <3>1, <3>2
  <2>2. QED  BY <2>1 DEF RemovesObserve
<1>9. QED  BY <1>7, <1>8

LEMMA EditPreserves ==
  ASSUME IInv, NEW r \in Replica, NEW op \in Op, Edit(r, op)
  PROVE  IInv'
  BY EditHistory, EditStamps, EditDocs DEF IInv

-----------------------------------------------------------------------------
\* Clocks that observe keep their replica and never go back.
ClocksGrow ==
  /\ clock' \in [Replica -> Clock]
  /\ \A r \in Replica : /\ clock'[r].replica = r /\ clock'[r].wall_ms = 0
                        /\ clock[r].lamport <= clock'[r].lamport

LEMMA ClocksStay ==
  ASSUME IInv, UNCHANGED clock
  PROVE  ClocksGrow
  BY DEF IInv, HistoryOK, StampsBelowClocks, ClocksGrow, Clock

LEMMA LearntIsUnique ==
  ASSUME IInv, NEW S \in SUBSET issued
  PROVE  UniqueOps(S) /\ S \in SUBSET Op
  BY DEF IInv, HistoryOK, UniqueStamps, UniqueOps

LEMMA ApplyGrows ==
  ASSUME IInv, NEW n \in Node, NEW op \in issued,
         doc' = [doc EXCEPT ![n] = Apply(@, op)],
         learnt' = [learnt EXCEPT ![n] = @ \cup {op}],
         UNCHANGED <<next_key, past>>
  PROVE  Grow(n, {op})
<1>1. learnt[n] \in SUBSET issued
  BY DEF IInv, HistoryOK
<1>2. UniqueOps(learnt[n] \cup {op}) /\ learnt[n] \in SUBSET Op /\ op \in Op
  BY <1>1, LearntIsUnique
<1>3. doc[n] = Meaning(learnt[n]) /\ HasWinners(learnt[n])
  BY DocTyped DEF IInv, DocsAreMeanings
<1>4. /\ Apply(doc[n], op) = Meaning(learnt[n] \cup {op})
      /\ HasWinners(learnt[n] \cup {op})
  BY <1>2, <1>3, ApplyMeaning
<1>5. QED  BY <1>4 DEF Grow

LEMMA ReceiveGrows ==
  ASSUME IInv, NEW r \in Replica, NEW op \in issued, Receive(r, op)
  PROVE  Grow(r, {op}) /\ ClocksGrow
<1>1. Grow(r, {op})
  BY ApplyGrows DEF Receive, Node
<1>2. /\ clock \in [Replica -> Clock]
      /\ \A q \in Replica : clock[q].replica = q /\ clock[q].wall_ms = 0
      /\ issued \subseteq Op
  BY DEF IInv, HistoryOK, StampsBelowClocks
<1>3. CASE ~Stamped(op)
  <2>1. UNCHANGED clock
    BY <1>3 DEF Receive
  <2>2. QED  BY <1>1, <2>1, ClocksStay
<1>4. CASE Stamped(op)
  <2>. DEFINE ob == Observe(clock[r], Stamp(op))
  <2>1. Stamp(op) \in Clock /\ Stamp(op).wall_ms = 0
    BY <1>2, <1>4 DEF Stamped, Stamp, Op, IInv, StampsBelowClocks
  <2>2. /\ ob \in Clock /\ ob.replica = r /\ ob.wall_ms = 0
        /\ clock[r].lamport <= ob.lamport
    BY <1>2, <2>1 DEF Observe, MaxOf, Clock
  <2>3. clock' = [clock EXCEPT ![r] = ob]
    BY <1>4 DEF Receive
  <2>. HIDE DEF ob
  <2>4. clock' \in [Replica -> Clock]
    BY <1>2, <2>2, <2>3
  <2>5. ASSUME NEW q \in Replica
        PROVE  /\ clock'[q].replica = q /\ clock'[q].wall_ms = 0
               /\ clock[q].lamport <= clock'[q].lamport
    <3>1. clock'[q] = IF q = r THEN ob ELSE clock[q]
      BY <1>2, <2>3
    <3>2. clock[q].lamport \in Nat
      BY <1>2 DEF Clock
    <3>3. QED  BY <1>2, <2>2, <3>1, <3>2
  <2>6. QED  BY <1>1, <2>4, <2>5 DEF ClocksGrow
<1>5. QED  BY <1>1, <1>3, <1>4

LEMMA MergeSnapshotGrows ==
  ASSUME IInv, NEW r \in Replica, MergeSnapshot(r)
  PROVE  Grow(r, learnt[Hub])
<1>1. r \in Node /\ Hub \in Node
  BY DEF Node
<1>2. learnt[r] \cup learnt[Hub] \in SUBSET issued
  BY <1>1 DEF IInv, HistoryOK
<1>3. /\ UniqueOps(learnt[r] \cup learnt[Hub])
      /\ learnt[r] \in SUBSET Op /\ learnt[Hub] \in SUBSET Op
  BY <1>2, LearntIsUnique
<1>4. /\ doc[r] = Meaning(learnt[r]) /\ HasWinners(learnt[r])
      /\ doc[Hub] = Meaning(learnt[Hub]) /\ HasWinners(learnt[Hub])
  BY <1>1, DocTyped DEF IInv, DocsAreMeanings
<1>5. /\ Merge(Meaning(learnt[r]), Meaning(learnt[Hub])) = Meaning(learnt[r] \cup learnt[Hub])
      /\ HasWinners(learnt[r] \cup learnt[Hub])
  BY <1>3, <1>4, MergeMeaning
<1>6. QED  BY <1>4, <1>5 DEF MergeSnapshot, Grow

LEMMA GrowPreserves ==
  ASSUME IInv, NEW n \in Node, NEW ops \in SUBSET issued, Grow(n, ops), ClocksGrow
  PROVE  IInv'
<1>1. issued' = issued /\ past' = past
  BY DEF Grow, issued
<1>2. HistoryOK /\ next_key' = next_key
  BY DEF IInv, Grow
<1>3. HistoryOK'
  BY <1>1, <1>2 DEF HistoryOK, Grow, ClocksGrow
<1>4. StampsBelowClocks'
  <2>1. ASSUME NEW o \in issued, Stamped(o)
        PROVE  /\ Stamp(o).replica \in Replica /\ Stamp(o).wall_ms = 0
               /\ Stamp(o).lamport <= clock'[Stamp(o).replica].lamport
    <3>1. Stamp(o) \in Clock
      BY <1>2, <2>1 DEF HistoryOK, Stamped, Stamp, Op
    <3>2. /\ Stamp(o).replica \in Replica /\ Stamp(o).wall_ms = 0
          /\ Stamp(o).lamport <= clock[Stamp(o).replica].lamport
      BY <2>1 DEF IInv, StampsBelowClocks
    <3>3. /\ clock[Stamp(o).replica].lamport \in Nat
          /\ clock'[Stamp(o).replica].lamport \in Nat
          /\ clock[Stamp(o).replica].lamport <= clock'[Stamp(o).replica].lamport
      BY <1>2, <3>2 DEF HistoryOK, ClocksGrow, Clock
    <3>4. QED  BY <3>1, <3>2, <3>3 DEF Clock
  <2>2. QED  BY <1>1, <2>1 DEF StampsBelowClocks, ClocksGrow
<1>5. UniqueStamps' /\ RemovesObserve'
  BY <1>1 DEF IInv, UniqueStamps, RemovesObserve
<1>6. DocsAreMeanings'
  <2>1. \A m \in Node : learnt'[m] = IF m = n THEN learnt[n] \cup ops ELSE learnt[m]
    BY <1>2 DEF Grow, HistoryOK
  <2>2. doc = [m \in Node |-> Meaning(learnt[m])] /\ \A m \in Node : HasWinners(learnt[m])
    BY DEF IInv, DocsAreMeanings
  <2>3. doc' = [m \in Node |-> Meaning(learnt'[m])]
    BY <2>1, <2>2 DEF Grow
  <2>4. \A m \in Node : HasWinners(learnt'[m])
    BY <2>1, <2>2 DEF Grow
  <2>5. QED  BY <2>3, <2>4 DEF DocsAreMeanings
<1>7. QED  BY <1>3, <1>4, <1>5, <1>6 DEF IInv
-----------------------------------------------------------------------------
\* One fact per kind of step, for every theorem below.
LEMMA StepCases ==
  ASSUME IInv, Next
  PROVE  \/ \E r \in Replica, op \in Op : Edit(r, op)
         \/ ClocksGrow /\ \E n \in Node, ops \in SUBSET issued : Grow(n, ops)
<1>1. ASSUME NEW r \in Replica, LocalEdit(r)
      PROVE  \E op \in Op : Edit(r, op)
  BY <1>1, EditCases
<1>2. ASSUME NEW r \in Replica, MergeSnapshot(r)
      PROVE  ClocksGrow /\ \E n \in Node, ops \in SUBSET issued : Grow(n, ops)
  <2>1. Grow(r, learnt[Hub])
    BY <1>2, MergeSnapshotGrows
  <2>2. ClocksGrow
    BY <1>2, ClocksStay DEF MergeSnapshot
  <2>3. learnt[Hub] \in SUBSET issued /\ r \in Node
    BY DEF IInv, HistoryOK, Node
  <2>4. QED  BY <2>1, <2>2, <2>3
<1>3. ASSUME NEW r \in Replica, NEW op \in issued, Receive(r, op)
      PROVE  ClocksGrow /\ \E n \in Node, ops \in SUBSET issued : Grow(n, ops)
  <2>1. r \in Node /\ {op} \in SUBSET issued
    BY DEF Node
  <2>2. QED  BY <1>3, <2>1, ReceiveGrows
<1>4. ASSUME NEW op \in issued, HubApply(op)
      PROVE  ClocksGrow /\ \E n \in Node, ops \in SUBSET issued : Grow(n, ops)
  <2>1. Hub \in Node /\ {op} \in SUBSET issued
    BY DEF Node
  <2>2. Grow(Hub, {op})
    BY <1>4, <2>1, ApplyGrows DEF HubApply
  <2>3. ClocksGrow
    BY <1>4, ClocksStay DEF HubApply
  <2>4. QED  BY <2>1, <2>2, <2>3
<1>5. QED  BY <1>1, <1>2, <1>3, <1>4 DEF Next, Deliver

LEMMA StepPreserves == IInv /\ [Next]_vars => IInv'
<1>. SUFFICES ASSUME IInv, [Next]_vars PROVE IInv'
  OBVIOUS
<1>1. CASE Next
  BY <1>1, StepCases, EditPreserves, GrowPreserves
<1>2. CASE UNCHANGED vars
  <2>1. issued' = issued
    BY <1>2 DEF vars, issued
  <2>2. HistoryOK' /\ StampsBelowClocks' /\ UniqueStamps'
    BY <1>2, <2>1 DEF vars, IInv, HistoryOK, StampsBelowClocks, UniqueStamps
  <2>3. DocsAreMeanings' /\ RemovesObserve'
    BY <1>2, <2>1 DEF vars, IInv, DocsAreMeanings, RemovesObserve
  <2>4. QED  BY <2>2, <2>3 DEF IInv
<1>3. QED  BY <1>1, <1>2

LEMMA AlwaysIInv == Spec => []IInv
  BY InitIInv, StepPreserves, PTL DEF Spec

\* The state is well typed, for any number of replicas and operations.
THEOREM TypeCorrect == Spec => []TypeOK
<1>1. IInv => TypeOK
  BY DocTyped DEF IInv, HistoryOK, TypeOK
<1>2. QED  BY <1>1, AlwaysIInv, PTL

\* No two stamped operations ever carry the same clock, although a remove
\* does not tick and a snapshot does not observe (LocalReplica::tick).
THEOREM ClocksAreUnique == Spec => []UniqueStamps
<1>1. IInv => UniqueStamps
  BY DEF IInv
<1>2. QED  BY <1>1, AlwaysIInv, PTL

\* Nodes that learnt of the same operations hold the same document: delivery
\* order, duplicates and snapshots never matter (module comment of crdt.rs).
THEOREM Converges == Spec => []Convergence
<1>1. IInv => Convergence
  BY DocTyped DEF Convergence
<1>2. QED  BY <1>1, AlwaysIInv, PTL

\* A feature exists exactly when an add is known that no known remove had
\* seen (CrdtDoc::apply, RemoveFeature, and FeatureState::exists).
THEOREM RemovesAreObserved == Spec => []ObservedRemove
<1>1. IInv => ObservedRemove
  <2>. SUFFICES ASSUME IInv, NEW n \in Node, NEW k \in Key
                PROVE  Live(doc[n], k) <=>
                         \E a \in OpsOn(learnt[n], "AddFeature", k) :
                            \A rm \in OpsOn(learnt[n], "RemoveFeature", k) : a \notin past[rm]
    BY DEF ObservedRemove
  <2>. DEFINE adds == OpsOn(learnt[n], "AddFeature", k)
              removes == OpsOn(learnt[n], "RemoveFeature", k)
  <2>1. /\ learnt[n] \in SUBSET issued
        /\ past \in [issued -> SUBSET issued]
    BY DEF IInv, HistoryOK
  <2>2. Live(doc[n], k) <=>
          {a.tag : a \in adds} \ UNION {rm.observed_tags : rm \in removes} # {}
    <3>1. doc[n] = Meaning(learnt[n])
      BY DocTyped
    <3>2. doc[n].features[k] = FeatureMeaning(learnt[n], k)
      BY <3>1 DEF Meaning
    <3>3. /\ FeatureMeaning(learnt[n], k).add_tags = {a.tag : a \in adds}
          /\ FeatureMeaning(learnt[n], k).removed_tags = UNION {rm.observed_tags : rm \in removes}
      BY DEF FeatureMeaning
    <3>4. QED  BY <3>2, <3>3 DEF Live, Exists
  <2>3. ASSUME NEW a \in adds, NEW rm \in removes
        PROVE  a.tag \in rm.observed_tags <=> a \in past[rm]
    <3>1. /\ a \in issued /\ a.type = "AddFeature" /\ a.key = k
          /\ rm \in issued /\ rm.type = "RemoveFeature" /\ rm.key = k
      BY <2>1 DEF OpsOn
    <3>2. rm.observed_tags = {b.tag : b \in OpsOn(past[rm], "AddFeature", k)}
      BY <3>1 DEF IInv, RemovesObserve, Stamped
    <3>3. \A b \in OpsOn(past[rm], "AddFeature", k) : a.tag = b.tag => a = b
      BY <2>1, <3>1 DEF OpsOn, IInv, UniqueStamps, Stamped, Stamp
    <3>4. a \in past[rm] => a \in OpsOn(past[rm], "AddFeature", k)
      BY <3>1 DEF OpsOn
    <3>5. a \in OpsOn(past[rm], "AddFeature", k) => a \in past[rm]
      BY DEF OpsOn
    <3>6. QED  BY <3>2, <3>3, <3>4, <3>5
  <2>. HIDE DEF adds, removes
  <2>4. Live(doc[n], k) <=> \E a \in adds : \A rm \in removes : a.tag \notin rm.observed_tags
    BY <2>2
  <2>5. QED  BY <2>3, <2>4 DEF adds, removes
<1>2. QED  BY <1>1, AlwaysIInv, PTL

-----------------------------------------------------------------------------
\* A step adds to what the nodes learnt, and to what was issued.
LEMMA StepLearns ==
  ASSUME IInv, [Next]_vars
  PROVE  /\ \A n \in Node : learnt[n] \subseteq learnt'[n]
         /\ issued \subseteq issued'
<1>1. ASSUME NEW r \in Replica, NEW op \in Op, Edit(r, op)
      PROVE  /\ \A n \in Node : learnt[n] \subseteq learnt'[n]
             /\ issued \subseteq issued'
  BY <1>1, EditHistory
<1>2. ASSUME NEW n \in Node, NEW ops \in SUBSET issued, Grow(n, ops)
      PROVE  /\ \A m \in Node : learnt[m] \subseteq learnt'[m]
             /\ issued \subseteq issued'
  BY <1>2 DEF Grow, issued, IInv, HistoryOK
<1>3. CASE UNCHANGED vars
  BY <1>3 DEF vars, issued
<1>4. CASE Next
  BY <1>1, <1>2, <1>4, StepCases
<1>5. QED  BY <1>3, <1>4

\* A removed feature never comes back without a new add: neither a replayed
\* operation nor a stale snapshot of the hub undoes a tombstone.
THEOREM NothingResurrects == Spec => NoResurrection
<1>1. ASSUME IInv, IInv', [Next]_vars, NEW n \in Node, NEW k \in Key,
             ~Live(doc[n], k), Live(doc'[n], k)
      PROVE  ObservedTags(doc'[n], k) \ ObservedTags(doc[n], k) # {}
  <2>. DEFINE tags(S) == FeatureMeaning(S, k).add_tags
              tombs(S) == FeatureMeaning(S, k).removed_tags
  <2>1. /\ doc[n].features[k] = FeatureMeaning(learnt[n], k)
        /\ doc'[n].features[k] = FeatureMeaning(learnt'[n], k)
    BY <1>1 DEF IInv, DocsAreMeanings, Meaning
  <2>2. learnt[n] \subseteq learnt'[n]
    BY <1>1, StepLearns
  <2>3. tombs(learnt[n]) \subseteq tombs(learnt'[n])
    BY <2>2 DEF FeatureMeaning, OpsOn
  <2>4. /\ tags(learnt[n]) \ tombs(learnt[n]) = {}
        /\ tags(learnt'[n]) \ tombs(learnt'[n]) # {}
    BY <1>1, <2>1 DEF Live, Exists
  <2>5. tags(learnt'[n]) \ tags(learnt[n]) # {}
    BY <2>3, <2>4
  <2>6. QED  BY <2>1, <2>5 DEF ObservedTags
<1>2. ASSUME IInv, IInv', [Next]_vars
      PROVE  [\A n \in Node : \A k \in Key :
                ~Live(doc[n], k) /\ Live(doc'[n], k)
                  => ObservedTags(doc'[n], k) \ ObservedTags(doc[n], k) # {}]_vars
  BY <1>1, <1>2
<1>3. QED  BY <1>2, AlwaysIInv, PTL DEF Spec, NoResurrection

-----------------------------------------------------------------------------
\* The instance of the promise speaks of the same documents.
LEMMA PromisedMeaning ==
  ASSUME NEW S
  PROVE  Promise!Meaning(S) = Meaning(S) /\ Promise!NewDoc = NewDoc
<1>1. \A W : Promise!Latest(W) = Latest(W)
  BY DEF Promise!Latest, Latest, Promise!ClockLess, ClockLess
<1>2. \A t, k : Promise!OpsOn(S, t, k) = OpsOn(S, t, k)
  BY DEF Promise!OpsOn, OpsOn
<1>3. \A k : /\ Promise!KindWrites(S, k) = KindWrites(S, k)
             /\ Promise!PositionWrites(S, k) = PositionWrites(S, k)
  BY <1>2 DEF Promise!KindWrites, KindWrites, Promise!PositionWrites, PositionWrites
<1>4. \A k, n : Promise!ParamWrites(S, k, n) = ParamWrites(S, k, n)
  BY <1>2 DEF Promise!ParamWrites, ParamWrites
<1>5. \A k : Promise!FeatureMeaning(S, k) = FeatureMeaning(S, k)
  BY <1>1, <1>2, <1>3, <1>4 DEF Promise!FeatureMeaning, FeatureMeaning
<1>6. Promise!Meaning(S) = Meaning(S)
  BY <1>5 DEF Promise!Meaning, Meaning
<1>7. Promise!NewDoc = NewDoc
  BY DEF Promise!NewDoc, NewDoc, Promise!NewFeature, NewFeature
<1>8. QED  BY <1>6, <1>7

\* LocalReplicas implements OpSetDoc: every document is at every moment the
\* Meaning of the set of operations learnt, and edits and deliveries are the
\* only ways a node learns.
THEOREM Implements == Spec => ImplementsOpSetDoc
<1>1. Init => Promise!Init
  BY PromisedMeaning DEF Init, Promise!Init, issued
<1>2. ASSUME IInv, IInv', [Next]_vars
      PROVE  [Promise!Next]_Promise!vars
  <2>1. ASSUME NEW r \in Replica, NEW op \in Op, Edit(r, op)
        PROVE  Promise!Next
    <3>1. issued' = issued \cup {op} /\ op \in issued'
      BY <1>2, <2>1, EditHistory
    <3>2. learnt' = [learnt EXCEPT ![r] = @ \cup {op}]
      BY <2>1 DEF Edit, Issue
    <3>3. doc' = [doc EXCEPT ![r] = Meaning(learnt[r] \cup {op})]
      <4>1. /\ doc' = [doc EXCEPT ![r] = Apply(@, op)]
            /\ doc = [n \in Node |-> Meaning(learnt[n])]
            /\ doc' = [n \in Node |-> Meaning(learnt'[n])]
            /\ r \in Node /\ learnt \in [Node -> SUBSET issued]
        BY <1>2, <2>1 DEF Edit, Issue, IInv, DocsAreMeanings, Node, HistoryOK
      <4>2. doc'[r] = Meaning(learnt[r] \cup {op}) /\ doc'[r] = Apply(doc[r], op)
        BY <3>2, <4>1
      <4>3. QED  BY <4>1, <4>2
    <3>4. Promise!Learn(r, {op})
      BY <3>2, <3>3, PromisedMeaning DEF Promise!Learn
    <3>5. r \in Node
      BY DEF Node
    <3>6. QED  BY <3>1, <3>4, <3>5 DEF Promise!Next, Promise!Issue
  <2>2. ASSUME NEW n \in Node, NEW ops \in SUBSET issued, Grow(n, ops)
        PROVE  Promise!Next
    <3>1. Promise!Learn(n, ops)
      BY <2>2, PromisedMeaning DEF Grow, Promise!Learn
    <3>2. issued' = issued
      BY <2>2 DEF Grow, issued
    <3>3. QED  BY <3>1, <3>2 DEF Promise!Next, Promise!Receive
  <2>3. CASE UNCHANGED vars
    BY <2>3 DEF vars, Promise!vars, issued
  <2>4. CASE Next
    BY <1>2, <2>1, <2>2, <2>4, StepCases
  <2>5. QED  BY <1>2, <2>3, <2>4
<1>3. QED  BY <1>1, <1>2, AlwaysIInv, PTL DEF Spec, ImplementsOpSetDoc, Promise!Spec

-----------------------------------------------------------------------------
\* Sessions that receive every edit as an operation: what a replica knows is
\* below its clock, so what it writes is above what it knows.
KnownBelowClocks ==
  \A r \in Replica : \A o \in {q \in learnt[r] : Stamped(q)} :
    Stamp(o).lamport <= clock[r].lamport

CausalStamps ==
  \A p \in {q \in issued : Stamped(q)} : \A o \in {q \in past[p] : Stamped(q)} :
    Stamp(o).lamport < Stamp(p).lamport

CausalInv == IInv /\ KnownBelowClocks /\ CausalStamps

LEMMA InitCausalInv == Init => CausalInv
<1>. SUFFICES ASSUME Init PROVE CausalInv
  OBVIOUS
<1>1. issued = {} /\ \A n \in Node : learnt[n] = {}
  BY DEF Init, issued
<1>2. KnownBelowClocks /\ CausalStamps
  BY <1>1 DEF KnownBelowClocks, CausalStamps, Node
<1>3. QED  BY <1>2, InitIInv DEF CausalInv

LEMMA StampTyped ==
  ASSUME IInv, NEW o \in issued, Stamped(o)
  PROVE  Stamp(o) \in Clock /\ Stamp(o).lamport \in Nat /\ Stamp(o).wall_ms = 0
<1>1. Stamp(o) \in Clock
  BY DEF IInv, HistoryOK, Stamped, Stamp, Op
<1>2. QED  BY <1>1 DEF IInv, StampsBelowClocks, Clock

LEMMA EditKeepsCauses ==
  ASSUME CausalInv, NEW r \in Replica, NEW op \in Op, Edit(r, op)
  PROVE  KnownBelowClocks' /\ CausalStamps'
<1>. IInv
  BY DEF CausalInv
<1>1. /\ issued' = issued \cup {op}
      /\ \A o \in issued : past'[o] = past[o]
      /\ op \notin issued => past'[op] = learnt[r]
      /\ \A n \in Node : learnt'[n] = IF n = r THEN learnt[n] \cup {op} ELSE learnt[n]
  BY EditHistory
<1>2. /\ clock \in [Replica -> Clock]
      /\ learnt \in [Node -> SUBSET issued]
      /\ past \in [issued -> SUBSET issued]
      /\ \A q \in Replica : clock[q].lamport \in Nat /\ clock[q].replica = q
  BY DEF IInv, HistoryOK, Clock, StampsBelowClocks
<1>3. Replica \subseteq Node
  BY DEF Node
<1>4. CASE ~Stamped(op)
  <2>1. clock' = clock
    BY <1>4 DEF Edit
  <2>2. KnownBelowClocks'
    BY <1>1, <1>3, <1>4, <2>1 DEF CausalInv, KnownBelowClocks
  <2>3. CausalStamps'
    BY <1>1, <1>4 DEF CausalInv, CausalStamps
  <2>4. QED  BY <2>2, <2>3
<1>5. CASE Stamped(op)
  <2>1. /\ Stamp(op).lamport = clock[r].lamport + 1
        /\ Stamp(op).replica = r
        /\ \A q \in Replica : clock'[q].lamport
             = IF q = r THEN clock[r].lamport + 1 ELSE clock[q].lamport
    BY <1>2, <1>5 DEF Edit, NextStamp, Tick
  <2>2. op \notin issued
    BY <1>2, <1>5, <2>1 DEF IInv, StampsBelowClocks
  <2>3. KnownBelowClocks'
    <3>1. ASSUME NEW q \in Replica, NEW o \in learnt'[q], Stamped(o)
          PROVE  Stamp(o).lamport <= clock'[q].lamport
      <4>1. CASE o \in learnt[q]
        <5>1. Stamp(o).lamport <= clock[q].lamport
          BY <3>1, <4>1 DEF CausalInv, KnownBelowClocks
        <5>2. Stamp(o).lamport \in Nat
          BY <1>2, <1>3, <3>1, <4>1, StampTyped
        <5>3. QED  BY <1>2, <2>1, <5>1, <5>2
      <4>2. CASE o \notin learnt[q]
        <5>1. o = op /\ q = r
          BY <1>1, <1>3, <3>1, <4>2
        <5>2. QED  BY <1>2, <2>1, <5>1
      <4>3. QED  BY <4>1, <4>2
    <3>2. QED  BY <3>1 DEF KnownBelowClocks
  <2>4. CausalStamps'
    <3>1. ASSUME NEW p \in issued', Stamped(p), NEW o \in past'[p], Stamped(o)
          PROVE  Stamp(o).lamport < Stamp(p).lamport
      <4>1. CASE p \in issued
        BY <1>1, <3>1, <4>1 DEF CausalInv, CausalStamps
      <4>2. CASE p \notin issued
        <5>1. p = op /\ o \in learnt[r]
          BY <1>1, <2>2, <3>1, <4>2
        <5>2. Stamp(o).lamport <= clock[r].lamport
          BY <3>1, <5>1 DEF CausalInv, KnownBelowClocks
        <5>3. Stamp(o).lamport \in Nat
          BY <1>2, <1>3, <3>1, <5>1, StampTyped
        <5>4. QED  BY <1>2, <2>1, <5>1, <5>2, <5>3
      <4>3. QED  BY <4>1, <4>2
    <3>2. QED  BY <3>1 DEF CausalStamps
  <2>5. QED  BY <2>3, <2>4
<1>6. QED  BY <1>4, <1>5

LEMMA ReceiveKeepsCauses ==
  ASSUME CausalInv, NEW r \in Replica, NEW op \in issued, Receive(r, op)
  PROVE  KnownBelowClocks' /\ CausalStamps'
<1>. IInv
  BY DEF CausalInv
<1>1. /\ clock \in [Replica -> Clock]
      /\ learnt \in [Node -> SUBSET issued]
      /\ \A q \in Replica : clock[q].lamport \in Nat
      /\ Replica \subseteq Node
  BY DEF IInv, HistoryOK, Clock, Node
<1>2. \A q \in Replica : learnt'[q] = IF q = r THEN learnt[q] \cup {op} ELSE learnt[q]
  BY <1>1 DEF Receive
<1>3. Stamped(op) => clock'[r].lamport = MaxOf(clock[r].lamport, Stamp(op).lamport)
  BY <1>1 DEF Receive, Observe
<1>4. \A q \in Replica : q # r \/ ~Stamped(op) => clock'[q].lamport = clock[q].lamport
  BY <1>1 DEF Receive
<1>5. ASSUME NEW q \in Replica, NEW o \in learnt'[q], Stamped(o)
      PROVE  Stamp(o).lamport <= clock'[q].lamport
  <2>1. o \in issued
    BY <1>1, <1>2, <1>5
  <2>2. Stamp(o).lamport \in Nat
    BY <1>5, <2>1, StampTyped
  <2>3. Stamped(op) => Stamp(op).lamport \in Nat
    BY StampTyped
  <2>4. CASE o \in learnt[q]
    <3>1. Stamp(o).lamport <= clock[q].lamport
      BY <1>5, <2>4 DEF CausalInv, KnownBelowClocks
    <3>2. QED  BY <1>1, <1>3, <1>4, <2>2, <2>3, <3>1 DEF MaxOf
  <2>5. CASE o \notin learnt[q]
    <3>1. o = op /\ q = r
      BY <1>2, <1>5, <2>5
    <3>2. QED  BY <1>1, <1>3, <1>5, <2>2, <3>1 DEF MaxOf
  <2>6. QED  BY <2>4, <2>5
<1>6. KnownBelowClocks'
  BY <1>5 DEF KnownBelowClocks
<1>7. issued' = issued /\ past' = past
  BY DEF Receive, issued
<1>8. CausalStamps'
  BY <1>7 DEF CausalInv, CausalStamps
<1>9. QED  BY <1>6, <1>8

LEMMA CausalStep == CausalInv /\ [NextOps]_vars => CausalInv'
<1>. SUFFICES ASSUME CausalInv, [NextOps]_vars PROVE CausalInv'
  OBVIOUS
<1>. IInv
  BY DEF CausalInv
<1>1. IInv'
  BY StepPreserves DEF NextOps, Next
<1>2. ASSUME NEW r \in Replica, LocalEdit(r)
      PROVE  KnownBelowClocks' /\ CausalStamps'
  BY <1>2, EditCases, EditKeepsCauses
<1>3. ASSUME NEW r \in Replica, NEW op \in issued, Receive(r, op)
      PROVE  KnownBelowClocks' /\ CausalStamps'
  BY <1>3, ReceiveKeepsCauses
<1>4. ASSUME NEW op \in issued, HubApply(op)
      PROVE  KnownBelowClocks' /\ CausalStamps'
  <2>1. clock' = clock /\ past' = past /\ issued' = issued
    BY <1>4 DEF HubApply, issued
  <2>2. \A r \in Replica : learnt'[r] = learnt[r]
    BY <1>4, ReplicaAssumption DEF HubApply, IInv, HistoryOK, Node
  <2>3. QED  BY <2>1, <2>2 DEF CausalInv, KnownBelowClocks, CausalStamps
<1>5. ASSUME UNCHANGED vars
      PROVE  KnownBelowClocks' /\ CausalStamps'
  <2>1. clock' = clock /\ past' = past /\ issued' = issued /\ learnt' = learnt
    BY <1>5 DEF vars, issued
  <2>2. QED  BY <2>1 DEF CausalInv, KnownBelowClocks, CausalStamps
<1>6. KnownBelowClocks' /\ CausalStamps'
  BY <1>2, <1>3, <1>4, <1>5 DEF NextOps, Deliver
<1>7. QED  BY <1>1, <1>6 DEF CausalInv

\* Last writer wins causally as long as every edit arrives as an operation
\* (LocalReplica::receive observes before it applies).
THEOREM LastWriterWins == SpecOps => []NoStaleWinner
<1>1. CausalInv => NoStaleWinner
  <2>. SUFFICES ASSUME CausalInv, NEW n \in Node, NEW o \in learnt[n], NEW p \in learnt[n],
                       o.type = "SetParam", p.type = "SetParam",
                       o.key = p.key, o.name = p.name, o \in past[p]
                PROVE  doc[n].features[o.key].params[o.name] # Written(o.value, o.clock)
    BY DEF NoStaleWinner
  <2>. IInv
    BY DEF CausalInv
  <2>1. o \in issued /\ p \in issued /\ o \in Op /\ p \in Op
    BY DEF IInv, HistoryOK
  <2>2. Stamped(o) /\ Stamped(p) /\ Stamp(o) = o.clock /\ Stamp(p) = p.clock
    BY DEF Stamped, Stamp
  <2>3. ClockLess(o.clock, p.clock)
    BY <2>1, <2>2, StampTyped DEF CausalInv, CausalStamps, ClockLess
  <2>4. o.key \in Key /\ o.name \in Name
    BY <2>1 DEF Op
  <2>5. doc[n].features[o.key].params[o.name] = Latest(ParamWrites(learnt[n], o.key, o.name))
    BY <2>4, DocTyped DEF Meaning, FeatureMeaning
  <2>. DEFINE w == [value |-> o.value, clock |-> o.clock]
              v == [value |-> p.value, clock |-> p.clock]
  <2>6. v \in ParamWrites(learnt[n], o.key, o.name)
    BY DEF ParamWrites, OpsOn
  <2>7. w \notin Latest(ParamWrites(learnt[n], o.key, o.name))
    BY <2>3, <2>6 DEF Latest
  <2>8. QED  BY <2>5, <2>7 DEF Written
<1>2. QED  BY <1>1, InitCausalInv, CausalStep, PTL DEF SpecOps
=============================================================================
