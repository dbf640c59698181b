---------------------------- MODULE EdgeRounding ----------------------------
(* Chamfers and fillets (geometry/edges.rs): the edges that are selected get  *)
(* a cutting tool each, tools with disjoint bounds are gathered into batches, *)
(* and every batch is one boolean, refused if it would destroy the solid.     *)
(*                                                                            *)
(* An edge is what decides its fate: its kind, whether it can be framed and   *)
(* gets a tool, and the bounds of the tool, here an interval. What a boolean  *)
(* does to the solid is chosen: it may destroy it, and it adds triangles.     *)
EXTENDS Integers, Sequences, FiniteSets, SequencesExt

CONSTANTS
    Bodies,           \* the solids that are rounded: sequences of edges [kind, framed, tooled, low, high]
    EdgeBudget,       \* ROUNDING_EDGE_BUDGET
    TriangleBudget,   \* ROUNDING_TRIANGLE_BUDGET
    Growth            \* the triangles that a boolean may add

ASSUME RoundingAssumption ==
    /\ EdgeBudget \in Nat
    /\ \A body \in Bodies : body = [i \in 1..Len(body) |-> body[i]] /\ Len(body) \in Nat
                            /\ \A i \in 1..Len(body) : body[i].low \in Int /\ body[i].high \in Int

VARIABLES
    edges,      \* the classified edges of the solid
    filter,     \* the edge_filter of the call
    tools,      \* the edges that have a tool, in order
    batches,    \* the batches that are left: sequences of edges
    triangles,  \* of the working mesh
    cut,        \* the edges that were rounded, in order
    refused,    \* those of batches that would have destroyed the solid
    phase       \* "Idle", "Cutting" or "Healed"

roundingVars == <<edges, filter, tools, batches, triangles, cut, refused, phase>>

\* selection(): no filter means all; indices out of range are dropped. They are
\* sorted, so that the edges are met in their own order.
Selection(all, picked) == IF picked = <<>> THEN DOMAIN all ELSE {i \in DOMAIN all : \E n \in DOMAIN picked : picked[n] = i}

IsRoundable(edge) == edge.kind = "Convex"

\* The loop of chamfer_edges() and fillet_edges(): of the selected edges, those
\* that can be framed and get a tool, until there are EdgeBudget tools.
Tools(all, picked) ==
    FoldLeft(LAMBDA made, i :
                 IF /\ Len(made) < EdgeBudget /\ i \in Selection(all, picked)
                    /\ IsRoundable(all[i]) /\ all[i].framed /\ all[i].tooled
                 THEN Append(made, i) ELSE made,
             <<>>, [i \in DOMAIN all |-> i])

\* A mutation of Disjoint: bounds are disjoint if they are not the same.
DisjointLax(e, f) == e.low # f.low

\* aabb_disjoint(): bounds that touch are disjoint.
Disjoint(e, f) == e.high <= f.low \/ f.high <= e.low

\* batch_tools(): a tool joins the first batch of which all bounds are disjoint
\* from its own, and starts one if there is none.
Batches(all, list) ==
    FoldLeft(LAMBDA done, tool :
                 LET fits == {b \in DOMAIN done : \A i \in DOMAIN done[b] : Disjoint(all[done[b][i]], all[tool])}
                 IN  IF fits = {} THEN Append(done, <<tool>>)
                     ELSE LET b == CHOOSE b \in fits : \A c \in fits : b <= c IN [done EXCEPT ![b] = Append(@, tool)],
             <<>>, list)

--------------------------------------------------------------------------
RoundingInit ==
    /\ edges \in Bodies
    /\ filter = <<>> /\ tools = <<>> /\ batches = <<>> /\ triangles = 0 /\ cut = <<>> /\ refused = {} /\ phase = "Idle"

\* chamfer_edges() and fillet_edges(), up to their booleans. A size that is
\* not positive leaves the solid as it is and is not a call here.
Round(picked) ==
    /\ phase = "Idle"
    /\ filter' = picked
    /\ tools' = Tools(edges, picked)
    /\ batches' = Batches(edges, tools')
    /\ phase' = IF tools' = <<>> THEN "Healed" ELSE "Cutting"
    /\ UNCHANGED <<edges, triangles, cut, refused>>

\* A pass of apply_tools(): nothing more is cut over the budget.
StopCutting ==
    /\ phase = "Cutting"
    /\ batches = <<>> \/ triangles > TriangleBudget
    /\ phase' = "Healed"
    /\ UNCHANGED <<edges, filter, tools, batches, triangles, cut, refused>>

\* guarded_subtract(): the candidate, or the solid as it was.
CutBatch(destroys, more) ==
    /\ phase = "Cutting" /\ batches # <<>> /\ triangles <= TriangleBudget
    /\ batches' = Tail(batches)
    /\ IF destroys THEN refused' = refused \cup ToSet(Head(batches)) /\ UNCHANGED <<cut, triangles>>
       ELSE cut' = cut \o Head(batches) /\ triangles' = triangles + more /\ UNCHANGED refused
    /\ UNCHANGED <<edges, filter, tools, phase>>

RoundingNext ==
    \/ \E picked \in BoundedSeq(1..3, 2) : Round(picked)
    \/ \E destroys \in BOOLEAN, more \in Growth : CutBatch(destroys, more)
    \/ StopCutting

RoundingSpec == RoundingInit /\ [][RoundingNext]_roundingVars

--------------------------------------------------------------------------
Asked == IF filter = <<>> THEN DOMAIN edges ELSE ToSet(filter) \cap DOMAIN edges
Able  == {i \in Asked : edges[i].kind = "Convex" /\ edges[i].framed /\ edges[i].tooled}

\* Every edge that was asked for and can be rounded is cut once, or its batch
\* was refused, or a budget ran out, and then the mesh is over it or the edges
\* cut are the first ones; no other edge is touched; and the tools of a batch
\* never overlap, which the boolean engine could not take (edges.rs:460).
RoundedOnce ==
    /\ phase # "Idle" =>
          /\ ToSet(tools) \subseteq Able
          /\ ToSet(tools) = Able \/ (Len(tools) = EdgeBudget /\ \A i \in ToSet(tools), j \in Able \ ToSet(tools) : i < j)
          /\ \A b \in DOMAIN batches : \A i, j \in ToSet(batches[b]) :
                i = j \/ edges[i].high <= edges[j].low \/ edges[j].high <= edges[i].low
          /\ Len(tools) = Len(cut) + Cardinality(refused) + Len(FlattenSeq(batches))
          /\ ToSet(tools) = ToSet(cut) \cup refused \cup ToSet(FlattenSeq(batches))
    /\ phase = "Healed" /\ batches # <<>> => triangles > TriangleBudget
=============================================================================
