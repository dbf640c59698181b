--------------------------- MODULE BooleanSolids ----------------------------
(* The boolean engine of the kernel (geometry/csg_bsp.rs) in the plane: a     *)
(* solid is a list of oriented faces, and a boolean splits the faces of each  *)
(* operand by a binary space partition of the other.                          *)
(*                                                                            *)
(* A face is the stretch lo..hi of a line, x = at (axis 1) or y = at (axis    *)
(* 2), that looks along the axis in the direction `out`: the walls of upright *)
(* columns over a grid, seen from above. They are split exactly; the planes'  *)
(* tolerance, slivers, welding and healing are left out. The code walks the   *)
(* tree with a stack of its own where this recurses.                          *)
EXTENDS Integers, Sequences, FiniteSets, SequencesExt

CONSTANTS Grid,      \* the columns of material are cells of 0..(Grid - 1) squared
          MaxSteps   \* bound: the booleans in a row

VARIABLES solid,   \* the result so far
          cells,   \* the cells that it should cover
          steps

solidVars == <<solid, cells, steps>>

Flip(face) == [face EXCEPT !.out = -@]

\* split_polygon(): the pieces of a face in front of a plane, behind it, and
\* in it, looking the same way or the other. A plane is that of a face.
Split(plane, face) ==
    LET none == [front |-> <<>>, back |-> <<>>, same |-> <<>>, opposite |-> <<>>]
        side == (face.at - plane.at) * plane.out
        low  == IF face.lo < plane.at THEN <<[face EXCEPT !.hi = IF @ < plane.at THEN @ ELSE plane.at]>> ELSE <<>>
        high == IF face.hi > plane.at THEN <<[face EXCEPT !.lo = IF @ > plane.at THEN @ ELSE plane.at]>> ELSE <<>>
    IN  CASE face.axis # plane.axis /\ plane.out = 1  -> [none EXCEPT !.front = high, !.back = low]
          [] face.axis # plane.axis /\ plane.out = -1 -> [none EXCEPT !.front = low, !.back = high]
          [] face.axis = plane.axis /\ side > 0 -> [none EXCEPT !.front = <<face>>]
          [] face.axis = plane.axis /\ side < 0 -> [none EXCEPT !.back = <<face>>]
          [] face.axis = plane.axis /\ side = 0 ->
                IF face.out = plane.out THEN [none EXCEPT !.same = <<face>>] ELSE [none EXCEPT !.opposite = <<face>>]

Pieces(plane, faces, part) == FlattenSeq([i \in DOMAIN faces |-> Split(plane, faces[i])[part]])

\* A tree is a node with its plane, the faces in it and two subtrees.
Leaf == <<>>

RECURSIVE Build(_, _)
Build(tree, faces) ==
    IF faces = <<>> THEN tree
    ELSE LET node == IF tree = Leaf THEN [plane |-> faces[1], faces |-> <<>>, front |-> Leaf, back |-> Leaf] ELSE tree
         IN  [plane |-> node.plane,
              faces |-> node.faces \o Pieces(node.plane, faces, "same") \o Pieces(node.plane, faces, "opposite"),
              front |-> Build(node.front, Pieces(node.plane, faces, "front")),
              back  |-> Build(node.back, Pieces(node.plane, faces, "back"))]

FromSolid(s) == Build(Leaf, s)

RECURSIVE Invert(_)
Invert(tree) ==
    IF tree = Leaf THEN Leaf
    ELSE [plane |-> Flip(tree.plane), faces |-> [i \in DOMAIN tree.faces |-> Flip(tree.faces[i])],
          front |-> Invert(tree.back), back |-> Invert(tree.front)]

\* A mutation of Inner: faces in a plane that look the other way are outside.
InnerLax(plane, faces) == Pieces(plane, faces, "back")

\* What goes to the back: a face in the plane that looks the other way is inside.
Inner(plane, faces) == Pieces(plane, faces, "back") \o Pieces(plane, faces, "opposite")

\* clip_polygons(): without a subtree, what is in front stays and what is behind goes.
RECURSIVE ClipPolygons(_, _)
ClipPolygons(tree, faces) ==
    IF tree = Leaf THEN faces
    ELSE LET outer == Pieces(tree.plane, faces, "front") \o Pieces(tree.plane, faces, "same")
         IN  ClipPolygons(tree.front, outer)
             \o (IF tree.back = Leaf THEN <<>> ELSE ClipPolygons(tree.back, Inner(tree.plane, faces)))

RECURSIVE ClipTo(_, _)
ClipTo(tree, other) ==
    IF tree = Leaf THEN Leaf
    ELSE [tree EXCEPT !.faces = ClipPolygons(other, @), !.front = ClipTo(@, other), !.back = ClipTo(@, other)]

RECURSIVE AllPolygons(_)
AllPolygons(tree) ==
    IF tree = Leaf THEN <<>> ELSE tree.faces \o AllPolygons(tree.front) \o AllPolygons(tree.back)

\* The bounds of a solid along an axis; touching counts as separated.
Reach(s, axis) == {s[i].at : i \in {i \in DOMAIN s : s[i].axis = axis}}
Separated(a, b) == \E axis \in {1, 2} :
    \/ \A p \in Reach(a, axis), q \in Reach(b, axis) : p <= q
    \/ \A p \in Reach(a, axis), q \in Reach(b, axis) : q <= p

Union(a, b) ==
    IF a = <<>> THEN b
    ELSE IF b = <<>> THEN a
    ELSE IF Separated(a, b) THEN a \o b
    ELSE LET ta == ClipTo(FromSolid(a), FromSolid(b))
             tb == Invert(ClipTo(Invert(ClipTo(FromSolid(b), ta)), ta))
         IN  AllPolygons(Build(ta, AllPolygons(tb)))

Subtract(a, b) ==
    IF a = <<>> THEN <<>>
    ELSE IF b = <<>> \/ Separated(a, b) THEN a
    ELSE LET ta == ClipTo(Invert(FromSolid(a)), FromSolid(b))
             tb == Invert(ClipTo(Invert(ClipTo(FromSolid(b), ta)), ta))
         IN  AllPolygons(Invert(Build(ta, AllPolygons(tb))))

Intersect(a, b) ==
    IF a = <<>> \/ b = <<>> \/ Separated(a, b) THEN <<>>
    ELSE LET ia == Invert(FromSolid(a))
             ib == Invert(ClipTo(FromSolid(b), ia))
             ta == ClipTo(ia, ib)
             tb == ClipTo(ib, ta)
         IN  AllPolygons(Invert(Build(ta, AllPolygons(tb))))

--------------------------------------------------------------------------
\* box_solid(), without its lids.
Box(x0, y0, x1, y1) ==
    << [axis |-> 2, at |-> y0, out |-> -1, lo |-> x0, hi |-> x1], [axis |-> 2, at |-> y1, out |-> 1, lo |-> x0, hi |-> x1],
       [axis |-> 1, at |-> x0, out |-> -1, lo |-> y0, hi |-> y1], [axis |-> 1, at |-> x1, out |-> 1, lo |-> y0, hi |-> y1] >>

Covered(x0, y0, x1, y1) == (x0..(x1 - 1)) \X (y0..(y1 - 1))

SolidInit == solid = <<>> /\ cells = {} /\ steps = 0

\* Feature::evaluate(), Boolean: one of the three with a box.
Combine(x0, y0, x1, y1) ==
    LET box == Box(x0, y0, x1, y1)
    IN  \/ solid' = Union(solid, box) /\ cells' = cells \cup Covered(x0, y0, x1, y1)
        \/ solid' = Subtract(solid, box) /\ cells' = cells \ Covered(x0, y0, x1, y1)
        \/ solid' = Intersect(solid, box) /\ cells' = cells \cap Covered(x0, y0, x1, y1)

\* cut_half_space(): what is before the plane goes, by an intersection with a
\* box on its other side that is larger than the solid; if nothing is, no cut.
KeepBox(axis, at, out) ==
    LET far == 8 * Grid
        low == IF out = 1 THEN at - far ELSE at
    IN  IF axis = 1 THEN Box(low, -far, low + far, far) ELSE Box(-far, low, far, low + far)

CutHalfSpace(axis, at, out) ==
    /\ solid' = IF \A p \in Reach(solid, axis) : (p - at) * out <= 0 THEN solid ELSE Intersect(solid, KeepBox(axis, at, out))
    /\ cells' = {cell \in cells : (2 * (cell[axis] - at) + 1) * out <= 0}

SolidNext ==
    /\ steps < MaxSteps
    /\ steps' = steps + 1
    /\ \/ \E x0, y0 \in 0..(Grid - 1) : \E x1 \in (x0 + 1)..Grid, y1 \in (y0 + 1)..Grid : Combine(x0, y0, x1, y1)
       \/ \E axis \in {1, 2}, at \in 1..(Grid - 1), out \in {-1, 1} : CutHalfSpace(axis, at, out)

\* How often a ray from below the cell, or from its left, enters more than it leaves.
Winding(axis, cell) ==
    LET other == 3 - axis
        crossed == {i \in DOMAIN solid : /\ solid[i].axis = axis /\ solid[i].at <= cell[axis]
                                         /\ solid[i].lo <= cell[other] /\ cell[other] < solid[i].hi}
    IN  FoldSet(LAMBDA i, sum : sum - solid[i].out, 0, crossed)

\* A sequence of unions, differences and intersections covers the cells that
\* the same operations on sets of cells, and cuts by planes, give, once each and the same seen from
\* two sides, for operands that overlap, touch, contain each other or share
\* walls (csg_bsp.rs:49, the usual cases).
BooleansAreSets ==
    \A cell \in (0..Grid) \X (0..Grid), axis \in {1, 2} : Winding(axis, cell) = IF cell \in cells THEN 1 ELSE 0
=============================================================================
