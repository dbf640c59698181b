--------------------------- MODULE LayerSupports ---------------------------
(* What holds a layer up: pillars (support.rs) and trees (tree_support.rs),   *)
(* found by comparing each layer with the one below.                          *)
(*                                                                            *)
(* The part is cut by a vertical plane, in which the sample points are the    *)
(* columns and a contour is an interval of them. A contour is wound one way   *)
(* or the other, as the stitching left it. Layers have one height, so that an *)
(* angle is the number of columns that a layer may reach over the one below.  *)
(* Left out: the radii of a trunk and its smoothing, which is the last pass   *)
(* over its points (smooth_trunks).                                           *)
EXTENDS Integers, Sequences, FiniteSets, SequencesExt, FiniteSetsExt, Folds

CONSTANTS
    Parts,     \* the parts that are printed: sequences of layers, sets of contours [lo, hi, ccw]
    Columns,   \* the sample points, 1..n
    Allowance, \* the columns that may overhang by the angle
    Gaps,      \* the z_gap_layers that are tried
    MergeDistance, SplitDistance

VARIABLES
    part,     \* the layers, from the bed up
    style,    \* "None", "Pillars" or "Tree"
    gap,      \* z_gap_layers
    pillars,  \* how many pillars each sample has, for each layer
    trunks,   \* sequences of columns, from the bed up
    served    \* what the trunks were made for: pairs of layer and cluster, with the trunk

supportVars == <<part, style, gap, pillars, trunks, served>>

ASSUME SupportsAssumption ==
    /\ IsFiniteSet(Columns) /\ Columns = 1..Cardinality(Columns)
    /\ Parts \subseteq Seq(SUBSET [lo : Int, hi : Int, ccw : BOOLEAN])
    /\ Gaps \subseteq Nat

\* point_in_any()
Covered(layer, p) == \E c \in layer : c.lo <= p /\ p <= c.hi

\* offset_contour() takes the contour to be counter-clockwise: one that is not
\* shrinks where it should grow.
Grown(layer, d) == {IF c.ccw THEN [c EXCEPT !.lo = @ - d, !.hi = @ + d] ELSE [c EXCEPT !.lo = @ + d, !.hi = @ - d] : c \in layer}

\* The sample has material, and it had none in the layer below or was not in
\* what that layer grows to, which is itself for the first one.
Unbacked(layers, i, p) ==
    /\ Covered(layers[i], p)
    /\ i = 1 \/ ~Covered(layers[i - 1], p) \/ ~Covered(Grown(layers[i - 1], IF i = 2 THEN 0 ELSE Allowance), p)

\* The layers below an overhang that get a pillar: max(z_gap, 1) are left.
Top(i, g) == Max({0, i - 1 - Max({g, 1})})

\* generate_supports(): one pillar for each overhang above, also if there is
\* one already.
Pillars(layers, g) ==
    [k \in DOMAIN layers |->
        [p \in Columns |-> IF Covered(layers[k], p) THEN 0
                           ELSE Cardinality({i \in DOMAIN layers : Unbacked(layers, i, p) /\ k <= Top(i, g)})]]

\* detect_overhang_points()
Overhangs(layers, i) ==
    IF i = 1 THEN {} ELSE {p \in Columns : Covered(layers[i], p) /\ ~Covered(Grown(layers[i - 1], Allowance), p)}

\* The sample points in the order of the grid.
Samples == [p \in Columns |-> p]

\* cluster_points(): runs of points of which each is near the next. Each has a
\* first point, by which the groups are ordered.
Firsts(points) == {p \in points : ~\E q \in points : q < p /\ p - q <= MergeDistance}
Group(points, first) == {p \in points : first <= p /\ \A q \in Firsts(points) : q <= first \/ p < q}

Distance(p, q) == IF p < q THEN q - p ELSE p - q

\* medoid_of(): the point that is nearest to the mean, the first of two.
Medoid(points) ==
    LET sum   == FoldLeft(LAMBDA total, p : IF p \in points THEN total + p ELSE total, 0, Samples)
        off(p) == Distance(p * Cardinality(points), sum)
    IN  Min({p \in points : \A q \in points : off(p) <= off(q)})

\* An active trunk that no cluster of this layer has taken, the nearest one that
\* is nearer than twice the merge distance.
NearestTrunk(active, taken, at) ==
    LET near == {a \in DOMAIN active \ taken : Distance(active[a].at, at) < 2 * MergeDistance}
    IN  {a \in near : \A b \in near : Distance(active[a].at, at) < Distance(active[b].at, at)
                                      \/ (Distance(active[a].at, at) = Distance(active[b].at, at) /\ a <= b)}

\* A mutation of Taken: a trunk may be taken twice in a layer.
TakenNot(step, found) == step.taken

\* matched_active
Taken(step, found) == step.taken \cup found

\* A cluster goes on with a trunk, or starts one that stands on the bed.
Place(step, cluster) ==
    LET at    == Medoid(cluster)
        found == NearestTrunk(step.active, step.taken, at)
        t     == IF found = {} THEN Len(step.trunks) + 1 ELSE step.active[CHOOSE a \in found : TRUE].trunk
    IN  [step EXCEPT !.trunks = IF found = {} THEN Append(@, <<at, at>>) ELSE [step.trunks EXCEPT ![t] = Append(@, at)],
                     !.taken = Taken(step, found),
                     !.new = Append(@, [at |-> at, trunk |-> t]),
                     !.served = @ \cup {[layer |-> step.layer, cluster |-> cluster, trunk |-> t]}]

\* A trunk that no cluster took goes straight up.
Carried(step, a) ==
    IF a \in step.taken THEN step
    ELSE [step EXCEPT !.trunks = [step.trunks EXCEPT ![step.active[a].trunk] = Append(@, Last(@))],
                      !.new = Append(@, step.active[a])]

\* Those come last.
CarryOn(step) ==
    LET carried == FoldLeft(Carried, step, [a \in DOMAIN step.active |-> a])
    IN  [carried EXCEPT !.active = carried.new]

\* A layer of build_trunks(). Without overhangs, all trunks go straight up.
GrowTrunks(layers, step, i) ==
    LET points == Overhangs(layers, i)
        fresh  == [step EXCEPT !.layer = i, !.taken = {}, !.new = <<>>]
        PlaceFrom(s, p) == IF p \in Firsts(points) THEN Place(s, Group(points, p)) ELSE s
    IN  CarryOn(FoldLeft(PlaceFrom, fresh, Samples))

BuildTrunks(layers) ==
    FoldLeft(LAMBDA step, i : GrowTrunks(layers, step, i),
             [trunks |-> <<>>, active |-> <<>>, new |-> <<>>, taken |-> {}, served |-> {}, layer |-> 0],
             [i \in DOMAIN layers |-> i])

\* Where a trunk forks, 0 if it does not: at the first layer at which the points
\* near it are too far apart, or at its end.
ForkAt(layers, trunk) ==
    LET wide == {i \in 2..Len(layers) :
                    LET centre == trunk[Min({i, Len(trunk)})]
                        near   == {p \in Overhangs(layers, i) : Distance(p, centre) < 3 * MergeDistance}
                    IN  near # {} /\ Max(near) - Min(near) > SplitDistance}
    IN  IF Len(trunk) < 3 \/ wide = {} THEN 0 ELSE Min({Min(wide), Len(trunk)})

\* The trunk ends where it forks, and the branch is the rest.
Stem(layers, trunk) == LET fork == ForkAt(layers, trunk) IN IF fork = 0 THEN trunk ELSE SubSeq(trunk, 1, fork)

\* apply_branching(): the branches come after all trunks.
Branched(layers, ts) ==
    LET Branch(all, t) == LET fork == ForkAt(layers, t) IN IF fork = 0 THEN all ELSE Append(all, SubSeq(t, fork, Len(t)))
    IN  FoldLeft(Branch, [k \in DOMAIN ts |-> Stem(layers, ts[k])], ts)

\* The centres of a layer: the trunk is read at the index of the layer, whichever
\* layer it starts at, or at its end. None is printed inside the part.
Centres(ts, i) == {ts[k][Min({i, Len(ts[k])})] : k \in DOMAIN ts}
Printed(layers, ts, i) == {p \in Centres(ts, i) : ~Covered(layers[i], p)}

--------------------------------------------------------------------------
SupportsInit ==
    /\ part \in Parts /\ style = "None" /\ gap = 0
    /\ pillars = <<>> /\ trunks = <<>> /\ served = {}

GenerateSupports(g) ==
    /\ style = "None"
    /\ style' = "Pillars" /\ gap' = g /\ pillars' = Pillars(part, g)
    /\ UNCHANGED <<part, trunks, served>>

\* The gap is computed and not used (tree_support.rs:246).
GenerateTreeSupports ==
    /\ style = "None"
    /\ style' = "Tree"
    /\ LET built == BuildTrunks(part) IN trunks' = Branched(part, built.trunks) /\ served' = built.served
    /\ UNCHANGED <<part, gap, pillars>>

SupportsNext == (\E g \in Gaps : GenerateSupports(g)) \/ GenerateTreeSupports

SupportsSpec == SupportsInit /\ [][SupportsNext]_supportVars

--------------------------------------------------------------------------
\* What hangs over nothing in its own column.
Hangs(i, p) == i > 1 /\ Covered(part[i], p) /\ ~Covered(part[i - 1], p)

\* The place at which a group asks for a trunk.
AskedPlace(s) == Medoid(s.cluster)

\* Pillars hold what hangs: on every free layer from the bed to the gap under it,
\* none of them in the part and none that nothing is above. Trees are made for
\* it: a column that is beyond what the layer below grows to is in a group that
\* asked for a trunk in that layer; no other group of the layer has that trunk;
\* the middle of the group is a point of some trunk or branch, at whichever
\* height; and a layer is printed only where some group asked, outside the part
\* (support.rs:111, tree_support.rs:137, 196).
OverhangsAreHeld ==
    /\ style = "Pillars" =>
          \A p \in Columns :
              /\ \A i \in DOMAIN part, k \in DOMAIN part :
                     Hangs(i, p) /\ k <= i - 1 - gap /\ k < i - 1 /\ ~Covered(part[k], p) => pillars[k][p] > 0
              /\ \A k \in DOMAIN part :
                     pillars[k][p] > 0 => ~Covered(part[k], p) /\ \E i \in (k + 2)..Len(part) : Covered(part[i], p)
    /\ style = "Tree" =>
          /\ \A i \in DOMAIN part : \A p \in Overhangs(part, i) : \E s \in served : s.layer = i /\ p \in s.cluster
          /\ \A s, r \in served : s.layer = r.layer /\ s.trunk = r.trunk => s = r
          /\ \A s \in served : \E k \in DOMAIN trunks : AskedPlace(s) \in ToSet(trunks[k])
          /\ \A i \in DOMAIN part : \A p \in Printed(part, trunks, i) :
                 ~Covered(part[i], p) /\ \E s \in served : p = AskedPlace(s)

\* "A polyline from the build plate to an overhang tip": under each group a trunk
\* stands as near to its middle as one may lean in a layer. But the points of a
\* trunk that starts above the second layer are those of its own layers, and are
\* read as if it started at the second: under the group stands what was meant
\* for a layer above it.
TreesReachTheirOverhang ==
    style = "Tree" => \A s \in served : \E p \in Centres(trunks, s.layer - 1) : Distance(p, AskedPlace(s)) < 2 * MergeDistance
=============================================================================
