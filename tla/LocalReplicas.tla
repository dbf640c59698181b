---------------------------- MODULE LocalReplicas ----------------------------
(***************************************************************************)
(* Collaborating replicas (LocalReplica of collab/src/crdt.rs, as driven   *)
(* by the browser session of collab/src/wasm.rs) and the authoritative     *)
(* document of the hub (Room.doc of collab/src/server.rs), over a network  *)
(* that delivers any issued operation to any node, in any order, any       *)
(* number of times or never. SyncSystem has the connections, queues and    *)
(* locks that this network stands for.                                     *)
(*                                                                         *)
(* past and learnt are history: past maps every issued operation to the    *)
(* operations its issuer had learnt of, which is its causal past.          *)
(***************************************************************************)
EXTENDS CrdtDoc, FiniteSets

CONSTANTS Replica,      \* ids of the replicas (the final tie-break of clocks)
          Hub,          \* the node holding the authoritative document
          MaxFeatures,  \* bound: features a replica adds under fresh keys
          MaxOps        \* bound: operations issued in all

ASSUME ReplicaAssumption == Replica \subseteq Nat /\ Hub \notin Replica
ASSUME BoundAssumption == MaxFeatures \in Nat /\ MaxOps \in Nat

\* next_key starts at (id << 32) + 1 and counts up: the pair abstracts it.
ASSUME KeyAssumption == Key = Replica \X (1 .. MaxFeatures)

Node == Replica \cup {Hub}

VARIABLES clock,     \* replica -> its HybridClock
          next_key,  \* replica -> the number of the next feature it adds
          doc,       \* node -> its document
          learnt,    \* history: node -> operations applied or merged there
          past       \* history: issued operation -> its causal past

vars == <<clock, next_key, doc, learnt, past>>

issued == DOMAIN past

Init == /\ clock = [r \in Replica |-> NewClock(r)]
        /\ next_key = [r \in Replica |-> 1]
        /\ doc = [n \in Node |-> NewDoc]
        /\ learnt = [n \in Node |-> {}]
        /\ past = [o \in {} |-> {}]

\* The keys a user of r can name: those of the entries of its document.
Known(r) == doc[r].keys

-----------------------------------------------------------------------------
\* LocalReplica::tick passes 0 for the wall clock.
NextStamp(r) == Tick(clock[r], 0)

\* Every local edit builds its op, applies it to the own document and hands
\* it to the transport.
Issue(r, op) ==
  /\ Cardinality(issued) < MaxOps
  /\ doc' = [doc EXCEPT ![r] = Apply(@, op)]
  /\ learnt' = [learnt EXCEPT ![r] = @ \cup {op}]
  /\ past' = [o \in issued \cup {op} |-> IF o \in issued THEN past[o] ELSE learnt[r]]

AddFeature(r, kind, position) ==
  /\ next_key[r] <= MaxFeatures
  /\ next_key' = [next_key EXCEPT ![r] = @ + 1]
  /\ clock' = [clock EXCEPT ![r] = NextStamp(r)]
  /\ Issue(r, [type |-> "AddFeature", key |-> <<r, next_key[r]>>, kind |-> kind,
               tag |-> NextStamp(r), position |-> position])

\* An AddFeature for a key that has one: no method of LocalReplica builds it,
\* peers and the tests of crdt.rs do, with a fresh tag from the same clock.
ReAddFeature(r, k, kind, position) ==
  /\ clock' = [clock EXCEPT ![r] = NextStamp(r)]
  /\ UNCHANGED next_key
  /\ Issue(r, [type |-> "AddFeature", key |-> k, kind |-> kind,
               tag |-> NextStamp(r), position |-> position])

SetParam(r, k, name, value) ==
  /\ clock' = [clock EXCEPT ![r] = NextStamp(r)]
  /\ UNCHANGED next_key
  /\ Issue(r, [type |-> "SetParam", key |-> k, name |-> name, value |-> value,
               clock |-> NextStamp(r)])

\* SetPosition likewise has no method: the op is built by a peer.
SetPosition(r, k, position) ==
  /\ clock' = [clock EXCEPT ![r] = NextStamp(r)]
  /\ UNCHANGED next_key
  /\ Issue(r, [type |-> "SetPosition", key |-> k, position |-> position,
               clock |-> NextStamp(r)])

\* A remove tombstones the tags observed and does not tick the clock.
RemoveFeature(r, k) ==
  /\ UNCHANGED <<clock, next_key>>
  /\ Issue(r, [type |-> "RemoveFeature", key |-> k,
               observed_tags |-> ObservedTags(doc[r], k)])

\* LocalReplica::receive: observe the clock of the op, then apply it.
Receive(r, op) ==
  /\ clock' = IF Stamped(op)
              THEN [clock EXCEPT ![r] = Observe(@, Stamp(op))]
              ELSE clock
  /\ doc' = [doc EXCEPT ![r] = Apply(@, op)]
  /\ learnt' = [learnt EXCEPT ![r] = @ \cup {op}]
  /\ UNCHANGED <<next_key, past>>

\* SyncHub::on_ops applies to the authoritative document, which has no clock.
HubApply(op) ==
  /\ doc' = [doc EXCEPT ![Hub] = Apply(@, op)]
  /\ learnt' = [learnt EXCEPT ![Hub] = @ \cup {op}]
  /\ UNCHANGED <<clock, next_key, past>>

\* Welcome and Snapshot: the session merges the document of the hub. The
\* clock of the replica is not advanced.
MergeSnapshot(r) ==
  /\ doc' = [doc EXCEPT ![r] = Merge(@, doc[Hub])]
  /\ learnt' = [learnt EXCEPT ![r] = @ \cup learnt[Hub]]
  /\ UNCHANGED <<clock, next_key, past>>

LocalEdit(r) ==
  \/ \E kind, position \in Text : AddFeature(r, kind, position)
  \/ \E k \in Known(r) :
       \/ \E kind, position \in Text : ReAddFeature(r, k, kind, position)
       \/ \E name \in Name, value \in Text : SetParam(r, k, name, value)
       \/ \E position \in Text : SetPosition(r, k, position)
       \/ RemoveFeature(r, k)

Deliver == \/ \E r \in Replica, op \in issued : Receive(r, op)
           \/ \E op \in issued : HubApply(op)

Next == \/ \E r \in Replica : LocalEdit(r) \/ MergeSnapshot(r)
        \/ Deliver

Spec == Init /\ [][Next]_vars

\* Sessions that were connected from the start: every remote edit reaches
\* them as an operation, none through a snapshot.
NextOps == \/ \E r \in Replica : LocalEdit(r)
           \/ Deliver

SpecOps == Init /\ [][NextOps]_vars

-----------------------------------------------------------------------------
TypeOK == /\ clock \in [Replica -> Clock]
          /\ next_key \in [Replica -> 1 .. MaxFeatures + 1]
          /\ doc \in [Node -> Doc]
          /\ issued \subseteq Op
          /\ learnt \in [Node -> SUBSET issued]
          /\ past \in [issued -> SUBSET issued]

\* Convergence: two nodes that have learnt of the same operations hold the
\* same document, however the operations reached them (the promise of the
\* module comment of crdt.rs, and what tests/load.rs samples).
Convergence == \A m, n \in Node : learnt[m] = learnt[n] => doc[m] = doc[n]

\* Clocks are unique: no two stamped operations carry the same clock, so the
\* strict comparison of Register::merge always has a winner.
UniqueStamps ==
  \A o, p \in {q \in issued : Stamped(q)} : Stamp(o) = Stamp(p) => o = p

\* Observed remove: a feature exists at a node iff the node knows an add of it
\* that no remove it knows had in its causal past. A concurrent add survives;
\* an add the remover knew of, by whatever way, does not.
ObservedRemove ==
  \A n \in Node : \A k \in Key :
    Live(doc[n], k) <=> \E a \in OpsOn(learnt[n], "AddFeature", k) :
                            \A rm \in OpsOn(learnt[n], "RemoveFeature", k) : a \notin past[rm]

\* No resurrection: a removed feature comes back at a node only in a step
\* that brings the node an add tag it did not have.
NoResurrection ==
  [][\A n \in Node : \A k \in Key :
       ~Live(doc[n], k) /\ Live(doc'[n], k)
         => ObservedTags(doc'[n], k) \ ObservedTags(doc[n], k) # {}]_vars

\* Last writer wins: the write that holds a parameter at a node was made
\* without knowledge of any other write to it the node knows; it is never an
\* edit that a later author saw and overwrote.
NoStaleWinner ==
  \A n \in Node : \A o, p \in learnt[n] :
    /\ o.type = "SetParam" /\ p.type = "SetParam"
    /\ o.key = p.key /\ o.name = p.name
    /\ o \in past[p]
    => doc[n].features[o.key].params[o.name] # Written(o.value, o.clock)

\* LocalReplicas implements the promise: a document is a function of the set
\* of operations learnt (module comment of crdt.rs, lines 17-18).
Promise == INSTANCE OpSetDoc
ImplementsOpSetDoc == Promise!Spec
=============================================================================
