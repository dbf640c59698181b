----------------------------- MODULE TetMeshes ------------------------------
(* From a solid to the tetrahedra of an analysis (mesh.rs), and their         *)
(* refinement where the error is large (adaptivity.rs).                       *)
(*                                                                            *)
(* Places are on a grid that is Cell times finer than the lattice, so that    *)
(* the centres of the cells and the midpoints of MaxLevels bisections are on  *)
(* it. A node is its place, a tetrahedron is the set of its four nodes; nodes *)
(* that no tetrahedron uses are left out. What the solver and the estimator   *)
(* compute is open: any set of elements may have too large an error.          *)
EXTENDS Integers, Sequences, FiniteSets, FiniteSetsExt, Folds, Vectors

CONSTANTS
    Shells,     \* [faces |-> a sequence of triples of places, boxes |-> what is inside, pairs of corners]
    Cell,       \* the edge of the lattice
    Tried,      \* a place
    MaxLevels

VARIABLES
    shell,    \* the solid
    tets,     \* the mesh
    errors,   \* the history: how many elements had too large an error, level by level
    meshing   \* "Shell", "Refused", "Solving" or "Done"

tetVars == <<shell, tets, errors, meshing>>

ShellEdges(f) == {{f[1], f[2]}, {f[2], f[3]}, {f[3], f[1]}}

\* validate_watertight()
Watertight(faces) ==
    /\ Len(faces) >= 4
    /\ \A e \in UNION {ShellEdges(faces[i]) : i \in DOMAIN faces} : Cardinality({i \in DOMAIN faces : e \in ShellEdges(faces[i])}) = 2

\* tri_cross_z(), and whether the crossing is above q: the two weights are taken
\* by the area of q with b and c, where that of the face belongs.
CrossedAbove(q, f) ==
    LET area(v, w) == (v[2] - q[2]) * (w[3] - q[3]) - (w[2] - q[2]) * (v[3] - q[3])
        s == Sign(area(f[2], f[3]))
        d == s * area(f[2], f[3])
        u == s * area(f[1], f[3])
        v == s * area(f[2], f[1])
    IN  /\ d # 0 /\ u >= 0 /\ v >= 0 /\ u + v <= d
        /\ d * f[1][3] + u * (f[2][3] - f[1][3]) + v * (f[3][3] - f[1][3]) > d * q[3]

\* point_in_solid()
PointInSolid(faces, q) == Cardinality({i \in DOMAIN faces : CrossedAbove(q, faces[i])}) % 2 = 1

Bound(faces, k, Choose(_)) == Choose({faces[i][n][k] : i \in DOMAIN faces, n \in 1..3})
Cells(faces) ==
    LET low(k)   == Bound(faces, k, Min)
        steps(k) == 0..((Bound(faces, k, Max) - low(k) + Cell - 1) \div Cell - 1)
    IN  {<<low(1) + i * Cell, low(2) + j * Cell, low(3) + k * Cell>> : i \in steps(1), j \in steps(2), k \in steps(3)}
CentreOf(c) == <<c[1] + Cell \div 2, c[2] + Cell \div 2, c[3] + Cell \div 2>>
MeshedCells(faces) == {c \in Cells(faces) : PointInSolid(faces, CentreOf(c))}

\* The six tetrahedra of a cell, around its diagonal from corner 0 to corner 6.
Corners == << <<0, 0, 0>>, <<1, 0, 0>>, <<1, 1, 0>>, <<0, 1, 0>>, <<0, 0, 1>>, <<1, 0, 1>>, <<1, 1, 1>>, <<0, 1, 1>> >>
TetsLocal == {{0, 1, 2, 6}, {0, 2, 3, 6}, {0, 3, 7, 6}, {0, 7, 4, 6}, {0, 4, 5, 6}, {0, 5, 1, 6}}
TetsOf(c) == {{Plus(c, Times(Corners[n + 1], Cell)) : n \in t} : t \in TetsLocal}

--------------------------------------------------------------------------
TetEdges(t) == {e \in SUBSET t : Cardinality(e) = 2}
TetFaces(t) == {f \in SUBSET t : Cardinality(f) = 3}
Length2(e)  == Max({Dot(Minus(p, q), Minus(p, q)) : p \in e, q \in e})
Midpoint(e) == Half(FoldSet(LAMBDA p, sum : Plus(p, sum), <<0, 0, 0>>, e))

\* The elements whose edges refine_mesh() marks: the frontier takes in every
\* element that has an edge with one of them.
RECURSIVE Reached(_)
Reached(marked) ==
    LET next == {t \in tets : \E s \in marked : Cardinality(t \cap s) >= 2}
    IN  IF next = marked THEN marked ELSE Reached(next)

\* A mutation of SplitEdge: the shortest edge instead of the longest.
ShortestEdge(t) == CHOOSE e \in TetEdges(t) : \A d \in TetEdges(t) : Length2(d) >= Length2(e)

SplitEdge(t) == CHOOSE e \in TetEdges(t) : \A d \in TetEdges(t) : Length2(d) <= Length2(e)

Bisected(t) == LET e == SplitEdge(t) IN {(t \ {p}) \cup {Midpoint(e)} : p \in e}

\* refine_mesh()
Refined(marked) == LET split == Reached(marked) IN (tets \ split) \cup UNION {Bisected(t) : t \in split}

\* surface_triangles() of contact_fea.rs
SurfaceOf(mesh) == {f \in UNION {TetFaces(t) : t \in mesh} : Cardinality({t \in mesh : f \subseteq t}) = 1}

--------------------------------------------------------------------------
TetInit == shell \in Shells /\ tets = {} /\ errors = <<>> /\ meshing = "Shell"

\* tetrahedralize()
Tetrahedralize ==
    /\ meshing = "Shell"
    /\ tets' = IF Watertight(shell.faces) THEN UNION {TetsOf(c) : c \in MeshedCells(shell.faces)} ELSE {}
    /\ meshing' = IF tets' = {} THEN "Refused" ELSE "Solving"
    /\ UNCHANGED <<shell, errors>>

\* A turn of the loop of adaptive_refine(): the errors above the tolerance are
\* kept and their elements are refined; the mesh of the last turn is not solved.
RefineLevel(marked) ==
    /\ meshing = "Solving" /\ Len(errors) < MaxLevels
    /\ errors' = Append(errors, Cardinality(marked))
    /\ tets' = IF marked = {} THEN tets ELSE Refined(marked)
    /\ meshing' = IF marked = {} \/ Len(errors') = MaxLevels THEN "Done" ELSE "Solving"
    /\ shell' = shell

\* Which elements are marked makes no difference beyond what they reach: none of
\* them, all of them and each of those that have the node Tried are marked.
TetNext ==
    \/ Tetrahedralize
    \/ \E marked \in {{}, tets} \cup {{t} : t \in {s \in tets : Tried \in s}} : RefineLevel(marked)

--------------------------------------------------------------------------
Volume6(t) ==
    LET a == CHOOSE p \in t : TRUE
        b == CHOOSE p \in t \ {a} : TRUE
        c == CHOOSE p \in t \ {a, b} : TRUE
        d == CHOOSE p \in t \ {a, b, c} : TRUE
    IN  Abs(Dot(Minus(b, a), Cross(Minus(c, a), Minus(d, a))))

\* However often and wherever it is refined, a mesh fills its cells and conforms:
\* its elements have the volume of the cells it started with, two of them that
\* touch in a face share all of it (no edge has a node in its middle), and the
\* faces of only one element close up (adaptivity.rs:149, mesh.rs:151).
MeshConforms ==
    meshing \in {"Solving", "Done"} =>
        LET surface == SurfaceOf(tets)
            nodes   == UNION tets
            cells   == MeshedCells(shell.faces)
        IN  /\ FoldSet(LAMBDA t, sum : sum + Volume6(t), 0, tets) = 6 * Cell * Cell * Cell * Cardinality(cells)
            /\ \A t \in tets : \A e \in TetEdges(t) : Midpoint(e) \notin nodes
            /\ \A t \in tets : \A f \in TetFaces(t) : Cardinality({s \in tets : f \subseteq s}) <= 2
            /\ \A f \in surface : \A e \in {{p, q} : p \in f, q \in f} :
                   Cardinality(e) = 2 => Cardinality({g \in surface : e \subseteq g}) % 2 = 0

\* The cells that are meshed are those whose centre is inside the solid.
\* mesh.rs:88 says "Nodes strictly inside the solid and cells fully inside are
\* retained."
CellsAreInside ==
    meshing = "Solving" /\ errors = <<>> =>
        \A c \in MeshedCells(shell.faces) : \E b \in shell.boxes : \A k \in 1..3 : b[1][k] < CentreOf(c)[k] /\ CentreOf(c)[k] < b[2][k]
=============================================================================
