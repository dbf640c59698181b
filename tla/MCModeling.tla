----------------------------- MODULE MCModeling -----------------------------
(* Instances of the kernel's components. They share no state: a behaviour is  *)
(* one of `machine`, and the other components rest.                           *)
EXTENDS FeatureTree, BooleanSolids, FacetedMesh, EdgeRounding, SketchSolver, AssemblyMotion

VARIABLE machine

\* The design table: a name with a comma, a name that is there twice, text with
\* a comma, with a quote, without characters, and one that looks like a number.
Float(n) == [type |-> "Float", v |-> n]
Text(chars) == [type |-> "Text", v |-> chars]
SomeConfigs ==
    {[name |-> <<"n", Comma>>, params |-> (<<0, "height">> :> Float(1))],
     [name |-> <<"m">>, params |-> (<<0, "height">> :> [type |-> "Int", v |-> 2] @@ <<1, "tx">> :> Float(3)
                                    @@ <<9, "note">> :> Text(<<Quote, Comma, "x">>) @@ <<9, "tag">> :> Text(<<>>))],
     [name |-> <<"m">>, params |-> (<<9, "note">> :> Text(<<"x", Comma, "y">>) @@ <<1, "tx">> :> [type |-> "Bool", v |-> "true"]
                                    @@ <<9, "tag">> :> Text(<<"1">>))]}

\* Lines, a polyline and an arc; the drawings that are told apart.
Entity(tag, flags, coords) == [tag |-> tag, flags |-> flags, coords |-> coords]
SomeSketches == {<<>>, <<Entity(0, <<>>, <<0, 0, 4, 0>>)>>, <<Entity(3, <<1>>, <<0, 0>>), Entity(2, <<1>>, <<4, 0, 0, 4, 0, 0>>)>>}
SomePaths == {<<>>, <<0, 0, 0, 0, 0, 4>>}

\* A triangle, a square and an L.
SomeProfiles ==
    {<< <<0, 0>>, <<4, 0>>, <<0, 4>> >>, << <<0, 0>>, <<4, 0>>, <<4, 4>>, <<0, 4>> >>,
     << <<0, 0>>, <<4, 0>>, <<4, 2>>, <<2, 2>>, <<2, 4>>, <<0, 4>> >>}

Edge(kind, framed, tooled, low) == [kind |-> kind, framed |-> framed, tooled |-> tooled, low |-> low, high |-> low + 2]
SomeBodies ==
    SeqOf({Edge("Convex", TRUE, TRUE, 0), Edge("Convex", TRUE, TRUE, 1), Edge("Convex", TRUE, TRUE, 2),
           Edge("Convex", TRUE, FALSE, 0), Edge("Convex", FALSE, TRUE, 0), Edge("Concave", TRUE, TRUE, 4)}, 4)

Relation(kind, ids, value) == [kind |-> kind, ids |-> ids, value |-> value]
SomeConstraints ==
    {Relation("Fixed", <<1>>, <<0, 0>>), Relation("Coincident", <<2, 3>>, 0), Relation("Horizontal", <<1, 2>>, 0),
     Relation("Vertical", <<3, 4>>, 0), Relation("Distance", <<1, 2>>, 16), Relation("EqualLength", <<1, 2, 3, 4>>, 0),
     Relation("EqualRadius", <<2, 1, 3, 4>>, 0), Relation("PointOnCircle", <<4, 1, 2>>, 0),
     Relation("Parallel", <<1, 2, 3, 4>>, 0), Relation("Perpendicular", <<1, 2, 3, 4>>, 0)}
SomePlaces == {<<0, 0>>, <<16, 0>>, <<0, 16>>}

Mate(kind, a, b, value, limits) == [kind |-> kind, a |-> a, b |-> b, value |-> value, limits |-> limits]
SomeMates ==
    {Mate("Coincident", 1, 2, 0, <<>>), Mate("Offset", 2, 3, <<4, 0, 0>>, <<>>), Mate("Offset", 3, 1, <<4, 0, 0>>, <<>>),
     Mate("Revolute", 1, 2, 1, <<0, 2>>), Mate("Revolute", 1, 2, 1, <<2, 0>>), Mate("Slider", 1, 3, 4, <<>>), Mate("Cylindrical", 2, 3, 1, <<>>)}
SomeRanges == {<<0, 2>>, <<0, 4>>}

--------------------------------------------------------------------------
RoundingRests == edges = <<>> /\ filter = <<>> /\ tools = <<>> /\ batches = <<>> /\ triangles = 0 /\ cut = <<>> /\ refused = {} /\ phase = "Idle"
SolverRests   == points = [id \in VertexId |-> <<0, 0>>] /\ constraints = <<>> /\ stats = NoStats

Init ==
    /\ machine \in {"tree", "booleans", "meshes", "rounding", "solver", "assembly"}
    /\ TreeInit /\ SolidInit /\ MeshInit /\ AssemblyInit
    /\ IF machine = "rounding" THEN RoundingInit ELSE RoundingRests
    /\ IF machine = "solver" THEN SolverInit /\ points[1] = <<0, 0>> ELSE SolverRests

Next ==
    \/ machine = "tree" /\ TreeNext /\ UNCHANGED <<machine, solidVars, meshVars, roundingVars, solverVars, assemblyVars>>
    \/ machine = "booleans" /\ SolidNext /\ UNCHANGED <<machine, treeVars, meshVars, roundingVars, solverVars, assemblyVars>>
    \/ machine = "meshes" /\ MeshNext /\ UNCHANGED <<machine, treeVars, solidVars, roundingVars, solverVars, assemblyVars>>
    \/ machine = "rounding" /\ RoundingNext /\ UNCHANGED <<machine, treeVars, solidVars, meshVars, solverVars, assemblyVars>>
    \/ machine = "solver" /\ SolverNext /\ UNCHANGED <<machine, treeVars, solidVars, meshVars, roundingVars, assemblyVars>>
    \/ machine = "assembly" /\ AssemblyNext /\ UNCHANGED <<machine, treeVars, solidVars, meshVars, roundingVars, solverVars>>

--------------------------------------------------------------------------
(* Bounds.                                                                  *)

\* Two solids that touch are united by putting them side by side, which leaves
\* a wall between them that is there twice; such results are not combined on.
DoubleWall ==
    \E i, j \in DOMAIN solid :
        /\ solid[i].axis = solid[j].axis /\ solid[i].at = solid[j].at /\ solid[i].out = -solid[j].out
        /\ solid[i].lo < solid[j].hi /\ solid[j].lo < solid[i].hi

\* The first box lies to the lower left: the others are its mirror images.
FirstBoxLow ==
    steps = 1 /\ cells # {} => \E low \in cells : \A cell \in cells : low[1] + cell[1] < Grid /\ low[2] + cell[2] < Grid

Bounds ==
    /\ configs = <<>> \/ next_id <= 1
    /\ Len(configs) <= 3
    /\ steps < 3 => ~DoubleWall
    /\ FirstBoxLow
    /\ Len(constraints) <= 2 \/ (Len(constraints) = 3 /\ constraints[1].kind \in {"Fixed", "Distance", "Coincident"})
    /\ \A i, j \in DOMAIN constraints : i # j => constraints[i] # constraints[j]
    /\ \A id \in VertexId, k \in 1..2 : points[id][k] % 8 = 0
    /\ Len(mates) <= IF player = NoPlayer THEN 2 ELSE 1
    /\ pose[3].at \in {<<0, 0, 0>>, <<8, 0, 0>>} \/ mates # <<>>
=============================================================================
