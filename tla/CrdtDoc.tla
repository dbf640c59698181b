------------------------------ MODULE CrdtDoc ------------------------------
(***************************************************************************)
(* The replicated document of collab/src/crdt.rs: features with an OR-Set  *)
(* of add tags, LWW registers for kind, position and parameters, and the   *)
(* two ways state moves, applying an operation and merging a document.     *)
(*                                                                         *)
(* keys are the keys the feature map holds; a key it does not hold maps to *)
(* NewFeature, the FeatureState::default() its entry would start from. An  *)
(* Option<Register> is a set of at most one register.                      *)
(***************************************************************************)
EXTENDS Integers

CONSTANTS Key,       \* feature keys
          Name,      \* parameter names
          Text       \* kinds, positions and parameter values

-----------------------------------------------------------------------------
(* Timestamps (collab/src/clock.rs): a wall clock reading, a Lamport counter *)
(* and the originating replica, ordered lexicographically in that order.     *)
\* ReplicaId is a newtype over u64; its order is the final tie-break.
Clock == [wall_ms : Nat, lamport : Nat, replica : Nat]

NewClock(r) == [wall_ms |-> 0, lamport |-> 0, replica |-> r]

MaxOf(a, b) == IF a < b THEN b ELSE a

\* tick() advances the clock and returns a copy of it: the new state of the
\* clock and the timestamp handed out are the same value.
Tick(c, wall) == [wall_ms |-> MaxOf(c.wall_ms, wall),
                  lamport |-> c.lamport + 1,
                  replica |-> c.replica]

Observe(c, other) == [wall_ms |-> MaxOf(c.wall_ms, other.wall_ms),
                      lamport |-> MaxOf(c.lamport, other.lamport),
                      replica |-> c.replica]

\* Ord::cmp: wall_ms, then lamport, then replica.
ClockLess(a, b) ==
  \/ a.wall_ms < b.wall_ms
  \/ a.wall_ms = b.wall_ms /\ a.lamport < b.lamport
  \/ a.wall_ms = b.wall_ms /\ a.lamport = b.lamport /\ a.replica < b.replica

-----------------------------------------------------------------------------
(* The document. *)

Register == [value : Text, clock : Clock]

FeatureState == [kind         : SUBSET Register,
                 position     : SUBSET Register,
                 params       : [Name -> SUBSET Register],
                 add_tags     : SUBSET Clock,
                 removed_tags : SUBSET Clock]

Doc == [keys : SUBSET Key, features : [Key -> FeatureState]]

Op == [type : {"AddFeature"}, key : Key, kind : Text, tag : Clock, position : Text]
        \cup [type : {"RemoveFeature"}, key : Key, observed_tags : SUBSET Clock]
        \cup [type : {"SetParam"}, key : Key, name : Name, value : Text, clock : Clock]
        \cup [type : {"SetPosition"}, key : Key, position : Text, clock : Clock]

NewFeature == [kind |-> {}, position |-> {}, params |-> [n \in Name |-> {}],
               add_tags |-> {}, removed_tags |-> {}]

NewDoc == [keys |-> {}, features |-> [k \in Key |-> NewFeature]]

\* Op::clock(): a remove carries none.
Stamped(op) == op.type # "RemoveFeature"
Stamp(op) == IF op.type = "AddFeature" THEN op.tag ELSE op.clock

Written(value, clock) == {[value |-> value, clock |-> clock]}

\* A mutation of LWW: the write that arrives last wins, whatever its clock.
LWWLastArrival(mine, theirs) == IF theirs # {} THEN theirs ELSE mine

\* Register::merge under the Option: an empty register takes the write, a set
\* one only a write with a strictly higher clock.
LWW(mine, theirs) ==
  IF \E t \in theirs : \A m \in mine : ClockLess(m.clock, t.clock)
  THEN theirs ELSE mine

ApplyAdd(f, op) ==
  [kind         |-> LWW(f.kind, Written(op.kind, op.tag)),
   position     |-> LWW(f.position, Written(op.position, op.tag)),
   params       |-> f.params,
   add_tags     |-> f.add_tags \cup {op.tag},
   removed_tags |-> f.removed_tags]

ApplyRemove(f, op) == [f EXCEPT !.removed_tags = @ \cup op.observed_tags]

ApplySetParam(f, op) ==
  [f EXCEPT !.params = [f.params EXCEPT ![op.name] = LWW(@, Written(op.value, op.clock))]]

\* A mutation of ApplySetPosition: it assigns without comparing clocks.
ApplySetPositionBlind(f, op) == [f EXCEPT !.position = Written(op.position, op.clock)]

ApplySetPosition(f, op) ==
  [f EXCEPT !.position = LWW(@, Written(op.position, op.clock))]

ApplyTo(f, op) == CASE op.type = "AddFeature"    -> ApplyAdd(f, op)
                    [] op.type = "RemoveFeature" -> ApplyRemove(f, op)
                    [] op.type = "SetParam"      -> ApplySetParam(f, op)
                    [] op.type = "SetPosition"   -> ApplySetPosition(f, op)

Apply(doc, op) ==
  [keys     |-> doc.keys \cup {op.key},
   features |-> [doc.features EXCEPT ![op.key] = ApplyTo(@, op)]]

MergeFeature(f, g) ==
  [kind         |-> LWW(f.kind, g.kind),
   position     |-> LWW(f.position, g.position),
   params       |-> [n \in Name |-> LWW(f.params[n], g.params[n])],
   add_tags     |-> f.add_tags \cup g.add_tags,
   removed_tags |-> f.removed_tags \cup g.removed_tags]

\* CrdtDoc::merge walks the features of the other document; merging the
\* NewFeature of a key it does not hold changes nothing.
Merge(doc, other) ==
  [keys     |-> doc.keys \cup other.keys,
   features |-> [k \in Key |-> MergeFeature(doc.features[k], other.features[k])]]

\* A feature exists iff an add tag is not shadowed by a remove.
Exists(f) == f.add_tags \ f.removed_tags # {}

Live(doc, k) == Exists(doc.features[k])

ObservedTags(doc, k) == doc.features[k].add_tags

-----------------------------------------------------------------------------
(* The document a set of operations stands for, written from the operations  *)
(* alone and not from the order in which crdt.rs applies them: the reference *)
(* definition that Apply and Merge are held against.                         *)
OpsOn(ops, t, k) == {o \in ops : o.type = t /\ o.key = k}

KindWrites(ops, k) ==
  {[value |-> o.kind, clock |-> o.tag] : o \in OpsOn(ops, "AddFeature", k)}

PositionWrites(ops, k) ==
  {[value |-> o.position, clock |-> o.tag] : o \in OpsOn(ops, "AddFeature", k)}
    \cup {[value |-> o.position, clock |-> o.clock] : o \in OpsOn(ops, "SetPosition", k)}

ParamWrites(ops, k, n) ==
  {[value |-> o.value, clock |-> o.clock] :
     o \in {p \in OpsOn(ops, "SetParam", k) : p.name = n}}

\* The write with the highest clock, if there is a write at all.
Latest(writes) == {w \in writes : \A v \in writes : ~ClockLess(w.clock, v.clock)}

FeatureMeaning(ops, k) ==
  [kind         |-> Latest(KindWrites(ops, k)),
   position     |-> Latest(PositionWrites(ops, k)),
   params       |-> [n \in Name |-> Latest(ParamWrites(ops, k, n))],
   add_tags     |-> {o.tag : o \in OpsOn(ops, "AddFeature", k)},
   removed_tags |-> UNION {o.observed_tags : o \in OpsOn(ops, "RemoveFeature", k)}]

Meaning(ops) == [keys     |-> {o.key : o \in ops},
                 features |-> [k \in Key |-> FeatureMeaning(ops, k)]]
=============================================================================
