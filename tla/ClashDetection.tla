--------------------------- MODULE ClashDetection ---------------------------
(* Which parts of an assembly run into one another as they move              *)
(* (tpt-vertex-simulation, contact.rs).                                       *)
(*                                                                            *)
(* A body is a sequence of triangles of places on the integer grid; a part is *)
(* a body moved by its place. Distances are squared. A quotient is a pair of  *)
(* a numerator and a positive denominator, so that the tests are exact and    *)
(* the tolerances of the code (1e-9, 1e-12) stand for zero.                   *)
EXTENDS Integers, Sequences, FiniteSets, FiniteSetsExt, Vectors

CONSTANTS
    Bodies,     \* PartId -> a sequence of triangles, numbered from 1
    Drives      \* the moves of a part in one frame

VARIABLES
    places,     \* PartId -> where it is
    contacts    \* the pairs of the frame, or {} while parts still move

clashVars == <<places, contacts>>

SolidOf(p) == [i \in DOMAIN Bodies[p] |-> [n \in 1..3 |-> Plus(Bodies[p][i][n], places[p])]]
Vertices(s) == {s[i][n] : i \in DOMAIN s, n \in 1..3}

\* Solid::bounds()
Aabb(s) == LET along(k) == {v[k] : v \in Vertices(s)}
           IN  [min |-> [k \in 1..3 |-> Min(along(k))], max |-> [k \in 1..3 |-> Max(along(k))]]

\* A mutation of Overlaps: boxes that only touch.
OverlapsOrTouches(a, b) == \A k \in 1..3 : a.min[k] <= b.max[k] /\ a.max[k] >= b.min[k]

Overlaps(a, b) == \A k \in 1..3 : a.min[k] < b.max[k] /\ a.max[k] > b.min[k]
Gap2(a, b) ==
    LET along(k) == Max({a.min[k] - b.max[k], b.min[k] - a.max[k], 0})
    IN  Dot([k \in 1..3 |-> along(k)], [k \in 1..3 |-> along(k)])

--------------------------------------------------------------------------
(* Moller's test of two triangles.                                           *)
PlaneNormal(t) == Cross(Minus(t[2], t[1]), Minus(t[3], t[1]))

\* How far the corners of a triangle are from the plane of another.
Heights(t, n, u) == [k \in 1..3 |-> Dot(n, Minus(t[k], u[1]))]
SameSignNonzero(d) == Sign(d[1]) # 0 /\ Sign(d[1]) = Sign(d[2]) /\ Sign(d[2]) = Sign(d[3])

Turned(k, by) == ((k - 1 + by) % 3) + 1

\* The corners that are alone on their side of the plane.
Apex(d) == {k \in 1..3 : \A by \in 1..2 : (d[k] >= 0) # (d[Turned(k, by)] >= 0)}

\* Where the edge from corner a to corner b crosses the plane, along the line.
CrossesAt(p, d, a, b) ==
    LET s == Sign(d[a] - d[b])
    IN  <<s * (p[a] * (d[a] - d[b]) + (p[b] - p[a]) * d[a]), s * (d[a] - d[b])>>
AtMost(q, r) == q[1] * r[2] <= r[1] * q[2]

\* interval(): without an apex, the first corner
Interval(p, d) ==
    IF Apex(d) = {} THEN << <<p[1], 1>>, <<p[1], 1>> >>
    ELSE LET a == CHOOSE k \in Apex(d) : TRUE
             ends == <<CrossesAt(p, d, a, Turned(a, 1)), CrossesAt(p, d, a, Turned(a, 2))>>
         IN  IF AtMost(ends[1], ends[2]) THEN ends ELSE <<ends[2], ends[1]>>

Widest(v) == CHOOSE k \in 1..3 : /\ \A j \in 1..3 : Abs(v[k]) >= Abs(v[j])
                                 /\ \A j \in 1..(k - 1) : Abs(v[k]) > Abs(v[j])

\* coplanar_tri_tri() and what it calls, on the two axes that are left
Cross2(o, a, b) == (a[1] - o[1]) * (b[2] - o[2]) - (a[2] - o[2]) * (b[1] - o[1])
PointInTri2d(p, t) == LET d == {Cross2(t[k], t[Turned(k, 1)], p) : k \in 1..3} IN ~((\E x \in d : x < 0) /\ (\E x \in d : x > 0))
SegSegIntersect2d(p, q, r, s) ==
    (Cross2(r, s, p) > 0) # (Cross2(r, s, q) > 0) /\ (Cross2(p, q, r) > 0) # (Cross2(p, q, s) > 0)
CoplanarTriTri(v, u, n) ==
    LET a == Abs(n[1])
        b == Abs(n[2])
        c == Abs(n[3])
        p2(p) == IF a <= c /\ b <= c THEN <<p[1], p[2]>> ELSE IF b >= a THEN <<p[1], p[3]>> ELSE <<p[2], p[3]>>
        t1 == <<p2(v[1]), p2(v[2]), p2(v[3])>>
        t2 == <<p2(u[1]), p2(u[2]), p2(u[3])>>
    IN  \/ \E k \in 1..3 : PointInTri2d(t1[k], t2) \/ PointInTri2d(t2[k], t1)
        \/ \E i \in 1..3, j \in 1..3 : SegSegIntersect2d(t1[i], t1[Turned(i, 1)], t2[j], t2[Turned(j, 1)])

TriTriIntersect(v, u) ==
    LET n2 == PlaneNormal(u)
        n1 == PlaneNormal(v)
        dv == Heights(v, n2, u)
        du == Heights(u, n1, v)
        line == Cross(n1, n2)
        k  == Widest(line)
        t1 == Interval([j \in 1..3 |-> v[j][k]], dv)
        t2 == Interval([j \in 1..3 |-> u[j][k]], du)
    IN  /\ ~SameSignNonzero(dv)
        /\ ~SameSignNonzero(du)
        /\ IF line = <<0, 0, 0>> THEN CoplanarTriTri(v, u, n1) ELSE AtMost(t1[1], t2[2]) /\ AtMost(t2[1], t1[2])

--------------------------------------------------------------------------
MinVertexDistance2(sa, sb) == Min({Dot(Minus(v, u), Minus(v, u)) : v \in Vertices(sa), u \in Vertices(sb)})

\* check_pair()
CheckPair(a, b) ==
    LET sa == SolidOf(a)
        sb == SolidOf(b)
        apart == ~Overlaps(Aabb(sa), Aabb(sb))
        meets == ~apart /\ \E i \in DOMAIN sa, j \in DOMAIN sb : TriTriIntersect(sa[i], sb[j])
    IN  [a |-> a, b |-> b, interfering |-> meets,
         clearance |-> IF meets THEN 0 ELSE IF apart THEN Gap2(Aabb(sa), Aabb(sb)) ELSE MinVertexDistance2(sa, sb)]

ClashInit == places = [p \in DOMAIN Bodies |-> <<0, 0, 0>>] /\ contacts = {}

\* A frame of the motion study moves a part.
MovePart(p, by) == places' = [places EXCEPT ![p] = Plus(@, by)] /\ contacts' = {}

DetectInterference ==
    /\ contacts = {}
    /\ contacts' = {CheckPair(Min(pair), Max(pair)) : pair \in kSubset(2, DOMAIN Bodies)}
    /\ places' = places

ClashNext ==
    \/ DetectInterference
    \/ \E p \in DOMAIN Bodies, by \in Drives : contacts # {} /\ MovePart(p, by)

--------------------------------------------------------------------------
Spread(s, n) == {Dot(n, v) : v \in Vertices(s)}
SolidEdges(s) == {Minus(s[i][Turned(n, 1)], s[i][n]) : i \in DOMAIN s, n \in 1..3}
Disjoint(sa, sb) ==
    \E n \in {PlaneNormal(sa[i]) : i \in DOMAIN sa} \cup {PlaneNormal(sb[i]) : i \in DOMAIN sb}
             \cup {Cross(e, f) : e \in SolidEdges(sa), f \in SolidEdges(sb)} :
        Max(Spread(sa, n)) < Min(Spread(sb, n)) \/ Max(Spread(sb, n)) < Min(Spread(sa, n))
BoxesShareVolume(sa, sb) ==
    \A n \in {<<1, 0, 0>>, <<0, 1, 0>>, <<0, 0, 1>>} : Max(Spread(sa, n)) > Min(Spread(sb, n)) /\ Max(Spread(sb, n)) > Min(Spread(sa, n))
StrictlyInside(sa, sb) == \A v \in Vertices(sa) : \A i \in DOMAIN sb : Dot(PlaneNormal(sb[i]), Minus(v, sb[i][1])) < 0

\* Of convex bodies, two are reported as interfering when their surfaces meet and
\* their boxes share volume: no axis separates them and neither is inside the
\* other; a reported clearance is never more than the vertices are apart. The
\* test works on one triangle of each at a time, with rules for corners on the
\* plane of the other (contact.rs:93, 153).
ContactsAreExact ==
    \A c \in contacts :
        LET sa == SolidOf(c.a)
            sb == SolidOf(c.b)
        IN  /\ c.interfering <=> /\ BoxesShareVolume(sa, sb)
                                 /\ ~Disjoint(sa, sb) /\ ~StrictlyInside(sa, sb) /\ ~StrictlyInside(sb, sa)
            /\ ~c.interfering => c.clearance <= MinVertexDistance2(sa, sb)
=============================================================================
