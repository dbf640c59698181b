---------------------------- MODULE FacetedMesh -----------------------------
(* Meshes of the kernel: the features that make them from a profile           *)
(* (geometry/features.rs), the edges derived from them (geometry/edges.rs)    *)
(* and the healing of T-junctions that booleans leave (csg_bsp.rs).           *)
(*                                                                            *)
(* A vertex is its position on an integer grid, so vertices are welded; a     *)
(* face is a triple of them. On a revolution the third coordinate is the      *)
(* number of the ring. Tolerances, areas and slivers are left out.            *)
EXTENDS Integers, Sequences, FiniteSets, SequencesExt, Vectors

CONSTANTS Profiles,    \* closed profiles: sequences of points <<x, y>>, counter-clockwise
          MaxSplits    \* bound: the one-sided splits before healing

VARIABLES mesh,     \* a sequence of faces
          made,     \* how it was made: [kind, profile]
          splits

meshVars == <<mesh, made, splits>>

--------------------------------------------------------------------------
(* Features. Ring k of a profile is the profile at that height.             *)

At(p, k) == <<p[1], p[2], k>>
Following(profile, i) == profile[(i % Len(profile)) + 1]

\* The side walls between two rings.
Walls(profile, low, high) ==
    FlattenSeq([i \in DOMAIN profile |->
        LET p == profile[i]
            q == Following(profile, i)
        IN  << <<At(p, low), At(q, low), At(q, high)>>, <<At(p, low), At(q, high), At(p, high)>> >>])

\* tessellate_polygon_z(): a fan from the first point.
Fan(profile, k) == [i \in 1..(Len(profile) - 2) |-> <<At(profile[1], k), At(profile[i + 1], k), At(profile[i + 2], k)>>]

Reversed(faces) == [i \in DOMAIN faces |-> <<faces[i][1], faces[i][3], faces[i][2]>>]

\* Six times the volume, and the faces with their winding reversed if it is negative.
Volume(m) == FoldSet(LAMBDA i, sum : sum + Dot(m[i][1], Cross(m[i][2], m[i][3])), 0, DOMAIN m)
Outward(m) == IF Volume(m) < 0 THEN Reversed(m) ELSE m

ExtrudeProfile(profile, height) == Reversed(Fan(profile, 0)) \o Fan(profile, height) \o Walls(profile, 0, height)

SweepProfile(profile, heights) ==
    FlattenSeq([k \in 1..(Len(heights) - 1) |-> Walls(profile, heights[k], heights[k + 1])])

\* Both ends are fans that look up.
LoftProfile(profile, height) == Walls(profile, 0, height) \o Fan(profile, 0) \o Fan(profile, height)

\* A part of a turn: `rings` steps around the X axis, with no ends.
RevolveProfile(profile, rings) ==
    Reversed(FlattenSeq([i \in DOMAIN profile |-> FlattenSeq([k \in 1..rings |->
        LET p == profile[i]
            q == Following(profile, i)
        IN  << <<At(p, k - 1), At(p, k), At(q, k)>>, <<At(p, k - 1), At(q, k), At(q, k - 1)>> >>])]))

\* The quads of a parallelepiped, of its corners 1 to 8.
Quads == << <<1, 4, 3, 2>>, <<5, 6, 7, 8>>, <<1, 2, 6, 5>>, <<4, 8, 7, 3>>, <<1, 5, 8, 4>>, <<2, 3, 7, 6>> >>

\* parallelepiped(): spanned from the origin by three vectors, in any order.
Parallelepiped(e1, e2, e3) ==
    LET o == <<0, 0, 0>>
        base == <<o, e1, Plus(e1, e2), e2>>
        corners == base \o [i \in 1..4 |-> Plus(base[i], e3)]
    IN  Outward(FlattenSeq([q \in DOMAIN Quads |->
            LET C(k) == corners[Quads[q][k]] IN << <<C(1), C(2), C(3)>>, <<C(1), C(3), C(4)>> >>]))

\* edge_tool(): a cross-section swept along the edge, capped by fans from its
\* second point, the apex.
EdgeTool(cross) ==
    LET rest == SelectSeq([i \in DOMAIN cross |-> i], LAMBDA i : i # 2 /\ (i % Len(cross)) + 1 # 2)
        Caps(i) == LET p == cross[i]
                       q == Following(cross, i)
                   IN  << <<At(cross[2], 0), At(q, 0), At(p, 0)>>, <<At(cross[2], 4), At(p, 4), At(q, 4)>> >>
    IN  Outward(Walls(cross, 0, 4) \o FlattenSeq([k \in DOMAIN rest |-> Caps(rest[k])]))

--------------------------------------------------------------------------
(* Edges.                                                                   *)

Sides(face) == {<<face[1], face[2]>>, <<face[2], face[3]>>, <<face[3], face[1]>>}
Edges(m) == UNION {Sides(m[i]) : i \in DOMAIN m}
FacesAt(m, a, b) == {i \in DOMAIN m : Sides(m[i]) \cap {<<a, b>>, <<b, a>>} # {}}

Normal(face) == Cross(Minus(face[2], face[1]), Minus(face[3], face[1]))

\* classify_edges(): by the number of faces, then by how two of them fold,
\* seen along the edge as the first of them runs.
Kind(m, a, b) ==
    LET fs == FacesAt(m, a, b)
        first == CHOOSE i \in fs : \A j \in fs : i <= j
        second == CHOOSE i \in fs : \A j \in fs : i >= j
        along == IF <<a, b>> \in Sides(m[first]) THEN Minus(b, a) ELSE Minus(a, b)
        fold == Dot(Cross(Normal(m[first]), Normal(m[second])), along)
    IN  CASE Cardinality(fs) = 1 -> "Boundary"
          [] Cardinality(fs) > 2 -> "NonManifold"
          [] Cardinality(fs) = 2 -> IF fold = 0 THEN "Smooth" ELSE IF fold > 0 THEN "Convex" ELSE "Concave"

--------------------------------------------------------------------------
(* Healing.                                                                 *)

\* The place of p on the way from a to b, as Dot with b - a, if it lies
\* strictly between them.
Within(p, a, b) ==
    /\ Cross(Minus(p, a), Minus(b, a)) = <<0, 0, 0>>
    /\ Dot(Minus(p, a), Minus(b, a)) > 0
    /\ Dot(Minus(p, b), Minus(a, b)) > 0

\* vertex_inside_segment(): the candidate nearest to a, if any.
Inside(a, b, candidates) ==
    LET between == {p \in candidates : Within(p, a, b)}
    IN  {p \in between : \A q \in between : Dot(Minus(p, a), Minus(b, a)) <= Dot(Minus(q, a), Minus(b, a))}

\* A mutation of Halves: the second half keeps the corner that the first has.
HalvesTwice(face, k, v) == << [face EXCEPT ![(k % 3) + 1] = v], [face EXCEPT ![(k % 3) + 1] = v] >>

\* A face split at v on its side k.
Halves(face, k, v) == << [face EXCEPT ![(k % 3) + 1] = v], [face EXCEPT ![k] = v] >>

\* A pass: every face with an open side that has a vertex inside is split once.
Pass(m) ==
    LET open == {e \in Edges(m) : Cardinality(FacesAt(m, e[1], e[2])) = 1}
        candidates == UNION {{e[1], e[2]} : e \in open}
        Side(face, k) == <<face[k], face[(k % 3) + 1]>>
        Splits(face) == {k \in 1..3 : Side(face, k) \in open /\ Inside(Side(face, k)[1], Side(face, k)[2], candidates) # {}}
        Healed(face) ==
            IF Splits(face) = {} THEN <<face>>
            ELSE LET k == CHOOSE k \in Splits(face) : \A j \in Splits(face) : k <= j
                     v == CHOOSE v \in Inside(Side(face, k)[1], Side(face, k)[2], candidates) : TRUE
                 IN  Halves(face, k, v)
    IN  FlattenSeq([i \in DOMAIN m |-> Healed(m[i])])

\* heal_t_junctions(): until nothing changes, 32 times at most.
RECURSIVE HealFor(_, _)
HealFor(m, passes) == IF passes = 0 \/ Pass(m) = m THEN m ELSE HealFor(Pass(m), passes - 1)
Heal(m) == HealFor(m, 32)

--------------------------------------------------------------------------
MeshInit == mesh = <<>> /\ made = [kind |-> "None", profile |-> <<>>] /\ splits = 0

Make(kind, profile, faces) == mesh' = faces /\ made' = [kind |-> kind, profile |-> profile] /\ splits' = 0

\* What a boolean does to one side of an edge: a face is cut at the middle of
\* a side, where the positions have one.
SplitOneSide(i, k) ==
    LET a == mesh[i][k]
        b == mesh[i][(k % 3) + 1]
    IN  /\ splits < MaxSplits
        /\ \A c \in 1..3 : (a[c] + b[c]) % 2 = 0
        /\ mesh' = SubSeq(mesh, 1, i - 1) \o Halves(mesh[i], k, [c \in 1..3 |-> (a[c] + b[c]) \div 2]) \o SubSeq(mesh, i + 1, Len(mesh))
        /\ splits' = splits + 1
        /\ UNCHANGED made

MeshNext ==
    \/ mesh = <<>> /\ \E profile \in Profiles :
          \/ Make("Extrude", profile, ExtrudeProfile(profile, 4))
          \/ Make("Sweep", profile, SweepProfile(profile, <<0, 2, 4>>))
          \/ Make("Loft", profile, LoftProfile(profile, 4))
          \/ Make("Revolve", profile, RevolveProfile(profile, 3))
          \/ Make("Tool", profile, EdgeTool(profile))
          \/ Make("Tool", Reverse(profile), EdgeTool(Reverse(profile)))
    \/ mesh = <<>> /\ \E e1, e2, e3 \in {<<4, 0, 0>>, <<0, 4, 0>>, <<0, 2, 4>>} :
          Cardinality({e1, e2, e3}) = 3 /\ Make("Tool", <<>>, Parallelepiped(e1, e2, e3))
    \/ made.kind = "Extrude" /\ \E i \in DOMAIN mesh, k \in 1..3 : SplitOneSide(i, k)

--------------------------------------------------------------------------
\* Every side of a face is the side of one other face, run the other way.
Closed(m) ==
    /\ \A i, j \in DOMAIN m : i # j => Sides(m[i]) \cap Sides(m[j]) = {}
    /\ \A e \in Edges(m) : <<e[2], e[1]>> \in Edges(m)

\* The sides that have no such partner.
Unpaired(m) == {e \in Edges(m) : <<e[2], e[1]>> \notin Edges(m)}

Notches(profile) ==
    {i \in DOMAIN profile :
        LET p == profile[i]
            q == Following(profile, i)
            r == Following(profile, (i % Len(profile)) + 1)
        IN  (q[1] - p[1]) * (r[2] - q[2]) - (q[2] - p[2]) * (r[1] - q[1]) < 0}

\* Extrusions and the tools of the booleans are closed and face outward, for a
\* frame of either hand, and an extrusion has a concave edge where the profile
\* has a notch, which rounding leaves alone (edges.rs:218); a sweep or a revolution is open at its two ends only, and a loft is
\* unpaired at its lower end only, whose fan looks inward; and an extrusion of
\* which sides were split from one side is closed again once it is healed
\* (csg_bsp.rs:606, "combinatorially closed").
MeshesCloseUp ==
    LET rings == {e[1][3] : e \in Unpaired(mesh)}
        level == \A e \in Unpaired(mesh) : e[1][3] = e[2][3]
    IN  CASE made.kind = "Extrude" ->
                /\ LET healed == Heal(mesh) IN Closed(healed) /\ Volume(healed) > 0 /\ (splits = 0 => healed = mesh)
                /\ splits = 0 =>
                      /\ \A e \in Edges(mesh) : Kind(mesh, e[1], e[2]) = Kind(mesh, e[2], e[1])
                      /\ Cardinality({e \in Edges(mesh) : Kind(mesh, e[1], e[2]) = "Concave"}) = 2 * Cardinality(Notches(made.profile))
          [] made.kind = "Tool"    -> Closed(mesh) /\ Volume(mesh) > 0
          [] made.kind = "Sweep"   -> level /\ rings = {0, 4}
          [] made.kind = "Loft"    -> level /\ rings = {0}
          [] made.kind = "Revolve" -> level /\ rings = {0, 3}
          [] OTHER                 -> mesh = <<>>
=============================================================================
