------------------------------ MODULE StepFile ------------------------------
(* A solid written as a STEP file and read back (manufacturing, step.rs).     *)
(*                                                                            *)
(* A solid is a sequence of places and of triangles of their indices. A file  *)
(* is the sequence of its entities: a keyword, the numbers it refers to, and  *)
(* its own data, a place or an orientation. Names and the wording of the      *)
(* header are left out; the map from a number to its entity is the sequence,  *)
(* whose order stands for the order of a hash map that nothing depends on.    *)
EXTENDS Integers, Sequences, FiniteSets, FiniteSetsExt, SequencesExt

CONSTANTS
    Models      \* the solids: [vertices |-> places, faces |-> triples of indices]

VARIABLES
    model,      \* the solid at hand
    file,       \* the entities, or << >>
    original    \* the history: the solid the file came from

stepVars == <<model, file, original>>

NoData == <<>>
Entity(kw, refs, data) == [kw |-> kw, refs |-> refs, data |-> data]

--------------------------------------------------------------------------
(* StepBuilder: the lines so far, and the EDGE_CURVE of each pair of vertices. *)
Line(b, e) == [b EXCEPT !.lines = Append(@, e)]
Lines(b, es) == [b EXCEPT !.lines = @ \o es]
Last1(b) == Len(b.lines)

VertexPoint(v) == 2 * v + 1

Key(a, c) == IF a <= c THEN <<a, c>> ELSE <<c, a>>

\* edge_of()
EdgeOf(b, a, c) ==
    IF Key(a, c) \in DOMAIN b.curves THEN b
    ELSE LET n == Last1(b)
             ends == <<VertexPoint(Key(a, c)[1]), VertexPoint(Key(a, c)[2])>>
             written == Lines(b, <<Entity("DIRECTION", <<>>, NoData), Entity("VECTOR", <<n + 1>>, NoData),
                                   Entity("CARTESIAN_POINT", <<>>, <<0, 0, 0>>), Entity("LINE", <<n + 3, n + 2>>, NoData),
                                   Entity("EDGE_CURVE", ends \o <<n + 4>>, NoData)>>)
         IN  [written EXCEPT !.curves = (Key(a, c) :> (n + 5)) @@ @]

\* A mutation of Along: every edge is taken from its first vertex to its second.
AlongAlways(a, c) == TRUE

\* Whether a face runs along an edge from its first vertex to its second.
Along(a, c) == a <= c

\* An ADVANCED_FACE with its loop and its plane.
FaceLines(b, m, f) ==
    LET n == Last1(b)
        oriented(a, c) == Entity("ORIENTED_EDGE", <<b.curves[Key(a, c)]>>, <<Along(a, c)>>)
    IN  Lines(b, <<oriented(f[1], f[2]), oriented(f[2], f[3]), oriented(f[3], f[1]),
                   Entity("EDGE_LOOP", <<n + 1, n + 2, n + 3>>, NoData), Entity("FACE_OUTER_BOUND", <<n + 4>>, NoData),
                   Entity("CARTESIAN_POINT", <<>>, m.vertices[f[1]]), Entity("DIRECTION", <<>>, NoData),
                   Entity("DIRECTION", <<>>, NoData), Entity("AXIS2_PLACEMENT_3D", <<n + 6, n + 7, n + 8>>, NoData),
                   Entity("PLANE", <<n + 9>>, NoData), Entity("ADVANCED_FACE", <<n + 5, n + 10>>, NoData)>>)
WithFace(b, m, f) ==
    LET edged == EdgeOf(EdgeOf(EdgeOf(b, f[1], f[2]), f[2], f[3]), f[3], f[1])
        faced == FaceLines(edged, m, f)
    IN  [faced EXCEPT !.faces = Append(@, Last1(faced))]

\* export_step(): the context is line 1, its units are the last three, put in by finish()
ExportStep(m) ==
    LET points(v) == <<Entity("CARTESIAN_POINT", <<>>, m.vertices[v]), Entity("VERTEX_POINT", <<2 * v>>, NoData)>>
        start == [lines |-> <<Entity("CONTEXT", <<>>, NoData)>> \o FlattenSeq([v \in DOMAIN m.vertices |-> points(v)]),
                  curves |-> << >>, faces |-> <<>>]
        b == FoldLeft(LAMBDA sofar, f : WithFace(sofar, m, f), start, m.faces)
        n == Last1(b)
        whole == Lines(b, <<Entity("CLOSED_SHELL", b.faces, NoData), Entity("MANIFOLD_SOLID_BREP", <<n + 1>>, NoData),
                            Entity("ADVANCED_BREP_SHAPE_REPRESENTATION", <<n + 2, 1>>, NoData),
                            Entity("UNIT", <<>>, NoData), Entity("UNIT", <<>>, NoData), Entity("UNIT", <<>>, NoData)>>)
    IN  [whole.lines EXCEPT ![1].refs = <<n + 4, n + 5, n + 6>>]

--------------------------------------------------------------------------
(* The importer.                                                             *)
Of(text, kws) == {i \in DOMAIN text : text[i].kw \in kws}
Points(text) == [i \in Of(text, {"CARTESIAN_POINT"}) |-> text[i].data]
VertexCoords(text) ==
    [i \in {v \in Of(text, {"VERTEX_POINT"}) : text[v].refs # <<>> /\ text[v].refs[1] \in DOMAIN Points(text)} |-> Points(text)[text[i].refs[1]]]
EdgeCurves(text) == {i \in Of(text, {"EDGE_CURVE"}) : Len(text[i].refs) >= 2}

\* Where an oriented edge begins: {} when it does not lead to a place.
StartOf(text, oe) ==
    {VertexCoords(text)[v] : v \in
        {w \in DOMAIN VertexCoords(text) :
            /\ text[oe].kw = "ORIENTED_EDGE"
            /\ LET ec == Last(text[oe].refs)
               IN  ec \in EdgeCurves(text) /\ w = text[ec].refs[IF text[oe].data[1] THEN 1 ELSE 2]}}

\* resolve_loop()
ResolveLoop(text, l) ==
    LET starts == [i \in DOMAIN text[l].refs |-> StartOf(text, text[l].refs[i])]
    IN  IF text[l].kw = "EDGE_LOOP" /\ Len(starts) >= 3 /\ (\A i \in DOMAIN starts : starts[i] # {})
        THEN [i \in DOMAIN starts |-> CHOOSE p \in starts[i] : TRUE] ELSE <<>>

\* Solid::add_triangle(), where vertices of one place are one
PushDedup(m, p) == IF p \in Range(m.vertices) THEN m ELSE [m EXCEPT !.vertices = Append(@, p)]
IndexOf(m, p) == Min({i \in DOMAIN m.vertices : m.vertices[i] = p})
AddTriangle(m, a, b, c) ==
    LET pushed == PushDedup(PushDedup(PushDedup(m, a), b), c)
    IN  [pushed EXCEPT !.faces = Append(@, <<IndexOf(pushed, a), IndexOf(pushed, b), IndexOf(pushed, c)>>)]
FanTriangulate(m, pts) == FoldLeft(LAMBDA sofar, i : AddTriangle(sofar, pts[1], pts[i], pts[i + 1]), m, [i \in 1..(Len(pts) - 2) |-> i + 1])

\* The loops of an ADVANCED_FACE: of each of its bounds, the first that resolves.
LoopsOf(text, face) ==
    LET bounds == SelectSeq(text[face].refs, LAMBDA r : r \in Of(text, {"FACE_OUTER_BOUND", "FACE_BOUND"}))
        first(bound) == SelectSeq([i \in DOMAIN text[bound].refs |-> ResolveLoop(text, text[bound].refs[i])], LAMBDA pts : pts # <<>>)
    IN  SelectSeq([i \in DOMAIN bounds |-> first(bounds[i])], LAMBDA loops : loops # <<>>)

ImportStep(text) ==
    LET empty == [vertices |-> <<>>, faces |-> <<>>]
        faces == SetToSortSeq(Of(text, {"ADVANCED_FACE"}), LAMBDA i, j : i < j)
        loops == FlattenSeq([i \in DOMAIN faces |-> LoopsOf(text, faces[i])])
    IN  FoldLeft(LAMBDA m, firsts : FanTriangulate(m, firsts[1]), empty, loops)

--------------------------------------------------------------------------
StepInit == model \in Models /\ file = <<>> /\ original = model

Export == file = <<>> /\ file' = ExportStep(model) /\ original' = model /\ model' = model

\* An error leaves the solid at hand.
Import ==
    /\ file # <<>>
    /\ LET read == ImportStep(file) IN model' = IF read.faces = <<>> THEN model ELSE read
    /\ file' = <<>>
    /\ original' = original

StepNext == Export \/ Import

--------------------------------------------------------------------------
TrianglesOf(m) == [i \in DOMAIN m.faces |-> [n \in 1..3 |-> m.vertices[m.faces[i][n]]]]
Occurrences(s, t) == Cardinality({i \in DOMAIN s : s[i] = t})

\* A file holds what it refers to, and a solid that is written and read again
\* has the same triangles with the same turn, however its edges are shared and
\* in whatever direction each face runs along them (step.rs:51, 203).
RereadIsTheSame ==
    /\ \A i \in DOMAIN file : \A r \in Range(file[i].refs) : r \in DOMAIN file
    /\ LET before == TrianglesOf(original)
           after  == TrianglesOf(model)
       IN  Len(before) = Len(after) /\ \A t \in Range(before) : Occurrences(before, t) = Occurrences(after, t)
=============================================================================
