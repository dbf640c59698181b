----------------------------- MODULE MeshLayers -----------------------------
(* From a solid to the layers of a print: the repair pass (repair.rs), the    *)
(* heights of the layers (layers.rs, adaptive.rs), the cut of every triangle  *)
(* and the greedy stitching of the cuts into contours (layers.rs).            *)
(*                                                                            *)
(* A vertex is its cell on the welding grid, which of the points of the cell  *)
(* it is, and its height. A point of a cut is the mesh edge it lies on, the   *)
(* set of its two vertices: edges of one solid meet nowhere else. A face also *)
(* has the layer height that its slope allows.                                *)
EXTENDS Integers, Sequences, FiniteSets, SequencesExt, FiniteSetsExt, Folds

CONSTANTS
    Solids,         \* sequences of faces [v |-> <<vertex, vertex, vertex>>, allows |-> height]
    LayerHeights,   \* the layer_height and first_layer_height that are tried
    MaxHeight       \* max_layer_height of the adaptive settings; min_layer_height is 1

VARIABLES
    solid,    \* the faces that are cut
    report,   \* of the repair, as repair_mesh returns it
    layers,   \* sequences of [z, contours]
    cutting   \* "Loaded", "Repaired" or "Cut"

layerVars == <<solid, report, layers, cutting>>

NoReport == [removed |-> 0, edges |-> 0]

VerticesOf(faces) == UNION {ToSet(faces[i].v) : i \in DOMAIN faces}
Lowest(faces)  == Min({v.z : v \in VerticesOf(faces)})
Highest(faces) == Max({v.z : v \in VerticesOf(faces)})
EdgesOf(f)     == {{f.v[1], f.v[2]}, {f.v[2], f.v[3]}, {f.v[3], f.v[1]}}
FacesAround(faces, e) == {i \in DOMAIN faces : e \in EdgesOf(faces[i])}

\* The vertex that comes first in its cell stands for the others.
Welded(v) == [v EXCEPT !.nth = 1]

\* A face that has a vertex twice has no area.
Degenerate(f) == Cardinality(ToSet(f.v)) < 3

\* repair_mesh(): vertices are welded, then degenerate faces are dropped.
Repaired(faces) ==
    LET welded == [i \in DOMAIN faces |-> [faces[i] EXCEPT !.v = <<Welded(@[1]), Welded(@[2]), Welded(@[3])>>]]
    IN  SelectSeq(welded, LAMBDA f : ~Degenerate(f))

Diagnosis(before, after) ==
    [removed |-> Len(before) - Len(after),
     edges |-> Cardinality({e \in UNION {EdgesOf(after[i]) : i \in DOMAIN after} : Cardinality(FacesAround(after, e)) # 2})]

--------------------------------------------------------------------------
\* intersect_triangle(): vertices in the plane are passed over; the pairs of one
\* above and one below are the points, and less than two are no segment.
Cut(f, z) ==
    LET above == SelectSeq(f.v, LAMBDA v : v.z > z)
        below == SelectSeq(f.v, LAMBDA v : v.z < z)
    IN  IF Len(above) * Len(below) < 2 THEN <<>>
        ELSE LET last == <<Len(above), Len(below)>>
             IN  << <<{above[1], below[1]}, {above[last[1]], below[last[2]]}>> >>

Segments(faces, z) == FlattenSeq([i \in DOMAIN faces |-> Cut(faces[i], z)])

\* A mutation of FarEnd: only segments that start at the tail go on.
FarEndDirected(seg, tail) == IF seg[1] = tail THEN {seg[2]} ELSE {}

\* The other end of a segment that has an end at the tail.
FarEnd(seg, tail) == IF seg[1] = tail THEN {seg[2]} ELSE IF seg[2] = tail THEN {seg[1]} ELSE {}

\* A loop of stitch_segments(): the first unused segment at the tail is taken,
\* until the loop is back at its first point or nothing connects.
RECURSIVE Walk(_, _, _)
Walk(segs, used, pts) ==
    LET next == {i \in DOMAIN segs \ used : FarEnd(segs[i], Last(pts)) # {}}
    IN  IF next = {} THEN [pts |-> pts, used |-> used]
        ELSE LET i   == Min(next)
                 far == CHOOSE p \in FarEnd(segs[i], Last(pts)) : TRUE
             IN  IF far = pts[1] THEN [pts |-> pts, used |-> used \cup {i}]
                 ELSE Walk(segs, used \cup {i}, Append(pts, far))

\* stitch_segments(): loops of less than three points are dropped.
Stitched(segs) ==
    FoldLeft(LAMBDA acc, i :
                 IF i \in acc.used THEN acc
                 ELSE LET walk == Walk(segs, acc.used \cup {i}, segs[i])
                      IN  [used |-> walk.used, loops |-> IF Len(walk.pts) < 3 THEN acc.loops ELSE Append(acc.loops, walk.pts)],
             [used |-> {}, loops |-> <<>>], [i \in DOMAIN segs |-> i]).loops

\* slice_solid_at_zs(): planes that give no contour are no layers.
LayersAt(faces, zs) ==
    SelectSeq([i \in DOMAIN zs |-> [z |-> zs[i], contours |-> Stitched(Segments(faces, zs[i]))]], LAMBDA l : l.contours # <<>>)

\* The planes of slice_solid().
UniformZs(low, high, height, first) == [i \in 1..((high - low - first) \div height + 1) |-> low + first + (i - 1) * height]

\* slope_profile(): the least height allowed by a face that is at z.
Allowed(faces, z) ==
    Min({MaxHeight} \cup {faces[i].allows : i \in {j \in DOMAIN faces : \E v, w \in ToSet(faces[j].v) : v.z <= z /\ z <= w.z}})

\* adaptive_layer_zs(): each step is as high as the slope allows where it
\* starts, and the top is added if the last step has passed it.
RECURSIVE StepsFrom(_, _, _)
StepsFrom(faces, z, high) == IF z > high THEN <<>> ELSE <<z>> \o StepsFrom(faces, z + Allowed(faces, z), high)
AdaptiveZs(faces, low, high, first) ==
    LET zs == StepsFrom(faces, low + first, high)
    IN  IF zs # <<>> /\ Last(zs) < high THEN Append(zs, high) ELSE zs

--------------------------------------------------------------------------
LayersInit == solid \in Solids /\ report = NoReport /\ layers = <<>> /\ cutting = "Loaded"

\* The first step of slice_solid_to_gcode(), if settings.repair_mesh.
RepairMesh ==
    /\ cutting = "Loaded"
    /\ solid' = Repaired(solid)
    /\ report' = Diagnosis(solid, solid')
    /\ cutting' = "Repaired"
    /\ UNCHANGED layers

\* The second one. A solid without faces has no bounds and no layers.
CutLayers(zs) == cutting # "Cut" /\ layers' = LayersAt(solid, zs) /\ cutting' = "Cut" /\ UNCHANGED <<solid, report>>

CutUniform(height, first) == solid # <<>> /\ CutLayers(UniformZs(Lowest(solid), Highest(solid), height, first))
CutAdaptive(first)        == solid # <<>> /\ CutLayers(AdaptiveZs(solid, Lowest(solid), Highest(solid), first))

LayersNext ==
    \/ RepairMesh
    \/ \E height, first \in LayerHeights : CutUniform(height, first)
    \/ \E first \in LayerHeights : CutAdaptive(first)

--------------------------------------------------------------------------
Crossing(z) == {i \in DOMAIN solid : (\E v \in ToSet(solid[i].v) : v.z > z) /\ (\E v \in ToSet(solid[i].v) : v.z < z)}
Sides(loop) == {{loop[k], loop[IF k = Len(loop) THEN 1 ELSE k + 1]} : k \in DOMAIN loop}
Missed(z)   == \A v \in VerticesOf(solid) : v.z # z
Sound ==
    /\ \A e \in UNION {EdgesOf(solid[i]) : i \in DOMAIN solid} : Cardinality(FacesAround(solid, e)) % 2 = 0
    /\ \A i, j \in DOMAIN solid : i # j => ToSet(solid[i].v) # ToSet(solid[j].v)
Joins(f, side) == UNION side \subseteq ToSet(f.v) /\ side \subseteq EdgesOf(f)

\* A solid on whose edges an even number of faces meet, as it is or once it is
\* repaired, is cut into closed loops by a plane that meets none of its vertices,
\* whatever the order and the direction of its faces and wherever it touches
\* itself: every side of a loop is the cut of a face, every face that the plane
\* crosses is on a side (faces that lie on each other aside, whose loop of two
\* points is dropped), and the layers rise (layers.rs:238, repair.rs:27).
ContoursClose ==
    cutting = "Cut" =>
        /\ \A k \in 1..(Len(layers) - 1) : layers[k].z < layers[k + 1].z
        /\ Sound => \A k \in DOMAIN layers : Missed(layers[k].z) =>
              LET loops == layers[k].contours
              IN  /\ \A n \in DOMAIN loops : \A side \in Sides(loops[n]) : \E i \in Crossing(layers[k].z) : Joins(solid[i], side)
                  /\ \A i \in Crossing(layers[k].z) : \E n \in DOMAIN loops : \E side \in Sides(loops[n]) : Joins(solid[i], side)
=============================================================================
