----------------------------- MODULE SheetWork ------------------------------
(* What a shop makes of an open sheet: the paths of a milling tool (cam.rs)   *)
(* and a flat pattern with its bends (sheet_metal.rs).                        *)
(*                                                                            *)
(* A sheet has numbered vertices on a grid of half millimetres and triangles, *)
(* the edges of its outline along the axes, a base face that an axis is       *)
(* normal to. The maps of the code give their entries in any order: an        *)
(* outline starts with any boundary edge, and a fork takes any branch. A      *)
(* corner of a contour is moved by the radius of the tool along its           *)
(* "towards". Feeds, speeds and the estimate of the time are left out.        *)
EXTENDS Integers, Sequences, FiniteSets, SequencesExt, FiniteSetsExt, Vectors

CONSTANTS
    Sheets,      \* [vertices |-> a sequence of places, faces |-> a sequence of triples of their numbers]
    Holes,       \* the sequences of places to drill
    Diameter,    \* of the tool, in the unit of the grid
    StepOvers    \* the shares of it from row to row, in percent: 50 or less

VARIABLES
    sheet,
    made      \* a toolpath or a flat pattern, or Nothing

sheetVars == <<sheet, made>>

SafeZ   == 10
Nothing == [name |-> "nothing"]

EdgeFaces(e) == {i \in DOMAIN sheet.faces : e \subseteq ToSet(sheet.faces[i])}
SheetEdges   == UNION {{{f[1], f[2]}, {f[2], f[3]}, {f[3], f[1]}} : f \in ToSet(sheet.faces)}
Boundary     == {e \in SheetEdges : Cardinality(EdgeFaces(e)) = 1}
SheetBounds  == [end \in {"min", "max"} |-> [k \in 1..3 |->
                    LET along == {v[k] : v \in ToSet(sheet.vertices)} IN IF end = "min" THEN Min(along) ELSE Max(along)]]

\* A mutation of VisitKey: an edge that was walked may be walked back.
VisitKeyDirected(a, b) == <<a, b>>

VisitKey(a, b) == {a, b}

\* order_boundary_2d(), order_boundary_edges(): the walks along edges not yet
\* visited, up to the start or to where there is none. The first edge is walked
\* from its smaller vertex.
RECURSIVE WalksFrom(_, _, _)
WalksFrom(edges, path, visited) ==
    LET here   == Last(path)
        onward == {n \in UNION edges : {here, n} \in edges /\ VisitKey(here, n) \notin visited}
    IN  IF onward = {} \/ here = path[1] THEN {path}
        ELSE UNION {WalksFrom(edges, Append(path, n), visited \cup {VisitKey(here, n)}) : n \in onward}

Walks(edges) == UNION {WalksFrom(edges, <<Min(e), Max(e)>>, {VisitKey(Min(e), Max(e))}) : e \in edges}

\* A contour does not repeat its start; an outline of the flat pattern does, and
\* is empty where nothing is open.
ContourOutlines == {IF Last(w) = w[1] THEN Front(w) ELSE w : w \in Walks(Boundary)}
FlatOutlines    == IF Boundary = {} THEN {<<>>} ELSE Walks(Boundary)

--------------------------------------------------------------------------
Rapid(to, z)   == [kind |-> "Rapid", to |-> to, z |-> z]
Feed(to, z)    == [kind |-> "Feed", to |-> to, z |-> z]
Drill(to, z)   == [kind |-> "Drill", to |-> to, z |-> z]
Toolpath(n, d, moves) == [name |-> n, depth |-> d, moves |-> moves]

\* The right side of an edge, which is the outer one of a counterclockwise loop.
RightOf(p, q) == Unit(<<q[2] - p[2], p[1] - q[1]>>)

\* offset_point_outward()
OffsetPointOutward(b, i) ==
    LET prev == b[((i + Len(b) - 2) % Len(b)) + 1]
        next == b[(i % Len(b)) + 1]
    IN  [corner |-> b[i], towards |-> Plus(RightOf(prev, b[i]), RightOf(b[i], next))]

\* contour_follow()
ContourFollow(b, depth) ==
    LET at(i) == OffsetPointOutward(b, i)
    IN  Toolpath("contour-follow", depth,
            <<Rapid(at(1), SafeZ), Feed(at(1), depth)>> \o [i \in 1..(Len(b) - 1) |-> Feed(at(i + 1), depth)]
            \o <<Feed(at(1), depth), Rapid(at(1), SafeZ)>>)

StepOver(percent) == (Diameter * Max({percent, 10})) \div 100

\* rect_pocket(): rows to and fro; between them the tool is a unit above the bottom.
RectPocket(low, high, depth, percent) ==
    LET step  == StepOver(percent)
        rows  == [k \in 1..Max({0, (high[2] - low[2] - step \div 2) \div step + 1}) |-> low[2] + step \div 2 + (k - 1) * step]
        from(k) == <<IF k % 2 = 1 THEN low[1] ELSE high[1], rows[k]>>
        to(k)   == <<IF k % 2 = 1 THEN high[1] ELSE low[1], rows[k]>>
    IN  Toolpath("rect-pocket", depth,
            <<Rapid(low, SafeZ), Feed(low, depth)>>
            \o FlattenSeq([k \in DOMAIN rows |-> <<Rapid(from(k), depth + 1), Feed(from(k), depth), Feed(to(k), depth)>>])
            \o <<Rapid(low, SafeZ)>>)

\* drill_cycle()
DrillCycle(holes, depth) ==
    Toolpath("drill-cycle", depth, FlattenSeq([i \in DOMAIN holes |-> <<Rapid(holes[i], SafeZ), Drill(holes[i], 1), Rapid(holes[i], SafeZ)>>]))

--------------------------------------------------------------------------
FaceCorners(i) == LET f == sheet.faces[i] IN <<sheet.vertices[f[1]], sheet.vertices[f[2]], sheet.vertices[f[3]]>>
FaceSpan(i)      == LET c == FaceCorners(i) IN Cross(Minus(c[2], c[1]), Minus(c[3], c[1]))

\* The cosine of two normals as its sign, its square as a numerator and a denominator.
Cosine(i, j) == LET d == Dot(FaceSpan(i), FaceSpan(j)) IN [num |-> d * Abs(d), den |-> Dot(FaceSpan(i), FaceSpan(i)) * Dot(FaceSpan(j), FaceSpan(j))]

\* A bend is any edge between two faces that do not point the same way.
BendOf(e) ==
    LET one == Min(EdgeFaces(e))
    IN  [from |-> Min(e), to |-> Max(e), cosine |-> Cosine(one, Max(EdgeFaces(e))), up |-> FaceSpan(one)[3] > 0]
Bends == {b \in {BendOf(e) : e \in {d \in SheetEdges : Cardinality(EdgeFaces(d)) = 2}} : b.cosine.num # b.cosine.den}

\* The bends by their angle, the largest first.
BendOrders(bends) == {s \in SetToSeqs(bends) : \A i, j \in DOMAIN s : i < j => s[i].cosine.num * s[j].cosine.den <= s[j].cosine.num * s[i].cosine.den}

\* The base is the last of the largest faces.
BaseFace ==
    LET area2 == [i \in DOMAIN sheet.faces |-> Dot(FaceSpan(i), FaceSpan(i))] \o <<>>
    IN  Max({i \in DOMAIN area2 : \A j \in DOMAIN area2 : area2[j] <= area2[i]})

\* project_to_face_plane(): a shadow on the base, not a development.
Projected(v, base) ==
    LET up == FaceSpan(base)
        n  == <<Sign(up[1]), Sign(up[2]), Sign(up[3])>>
        u  == Cross(n, IF n[1] = 0 THEN <<1, 0, 0>> ELSE <<0, 1, 0>>)
        d  == Minus(sheet.vertices[v], FaceCorners(base)[1])
    IN  <<Dot(d, u), Dot(d, Cross(n, u))>>

--------------------------------------------------------------------------
SheetInit == sheet \in Sheets /\ made = Nothing

Make(result) == made = Nothing /\ made' = result /\ sheet' = sheet

\* contour_from_solid(): none for a closed solid.
MakeContour ==
    \E outline \in ContourOutlines :
        Make(ContourFollow([i \in DOMAIN outline |-> SubSeq(sheet.vertices[outline[i]], 1, 2)], SheetBounds["min"][3]))

\* rect_pocket() and job_from_solid(), which steps over by a half.
MakePocket ==
    \E percent \in StepOvers :
        Make(RectPocket(SubSeq(SheetBounds["min"], 1, 2), SubSeq(SheetBounds["max"], 1, 2), SheetBounds["min"][3], percent))

MakeDrills == \E holes \in Holes : Make(DrillCycle(holes, SheetBounds["min"][3]))

\* unfold_solid()
UnfoldSheet ==
    LET shadow == [v \in DOMAIN sheet.vertices |-> Projected(v, BaseFace)] \o <<>>
    IN  \E w \in FlatOutlines, bends \in BendOrders(Bends) :
            Make([name    |-> "flat-pattern",
                  outline |-> [i \in DOMAIN w |-> shadow[w[i]]],
                  bends   |-> [i \in DOMAIN bends |-> [bends[i] EXCEPT !.from = shadow[@], !.to = shadow[@]]]])

SheetNext == MakeContour \/ MakePocket \/ MakeDrills \/ UnfoldSheet

--------------------------------------------------------------------------
\* The outline of a sheet in one loop: every vertex has two edges of it, and
\* none is left out of a way round.
OneLoop(edges) ==
    /\ \A v \in UNION edges : Cardinality({e \in edges : v \in e}) = 2
    /\ \A part \in SUBSET edges \ {{}, edges} : UNION part \cap UNION (edges \ part) # {}

\* Where the tool feeds at the bottom of its work, as pairs of places.
CutsOf(path) ==
    {<<path.moves[i].to, path.moves[i + 1].to>> : i \in {j \in 1..(Len(path.moves) - 1) :
        path.moves[j].z = path.depth /\ path.moves[j + 1].z = path.depth /\ path.moves[j + 1].kind = "Feed"}}

Ends(line) == {{line[i], line[i + 1]} : i \in 1..(Len(line) - 1)}

\* In whatever order the maps give the edges, a contour cuts along each edge of a
\* sheet's one loop once and ends where it began, and so does the outline of the
\* flat pattern along their shadows; the rows of a pocket that step over by a half
\* of the tool or less leave nothing uncut between its sides (cam.rs:98, 331,
\* sheet_metal.rs:267).
WorkIsCovered ==
    LET cuts == CutsOf(made)
        low  == SheetBounds["min"]
        high == SheetBounds["max"]
    IN  /\ made.name = "contour-follow" /\ OneLoop(Boundary) =>
               /\ Cardinality(cuts) = Cardinality(Boundary)
               /\ {{c[1].corner, c[2].corner} : c \in cuts} = {{SubSeq(sheet.vertices[v], 1, 2) : v \in e} : e \in Boundary}
        /\ made.name = "flat-pattern" /\ OneLoop(Boundary) =>
               LET base == BaseFace
               IN  /\ Len(made.outline) = Cardinality(Boundary) + 1 /\ made.outline[1] = Last(made.outline)
                   /\ Ends(made.outline) = {{Projected(v, base) : v \in e} : e \in Boundary}
        /\ made.name = "rect-pocket" =>
               \A y \in low[2]..high[2] : \E c \in cuts :
                   /\ c[1][2] = c[2][2] /\ 2 * Abs(y - c[1][2]) <= Diameter
                   /\ {c[1][1], c[2][1]} = {low[1], high[1]}
=============================================================================
