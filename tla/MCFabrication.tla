--------------------------- MODULE MCFabrication ----------------------------
(* Instances of what is done with a solid once it is modelled: slicing,       *)
(* printing, analysis, manufacturing and drawing. The components share no state: a      *)
(* behaviour is one of `machine`, and the other components rest.              *)
EXTENDS MeshLayers, LayerSupports, GcodeProgram, TetMeshes, ClashDetection,
        ContactCoupling, StepFile, SheetWork, SceneView, PrinterStatus

VARIABLE machine

--------------------------------------------------------------------------
(* Slicing: two tetrahedra, an octahedron with two vertices beside a plane,   *)
(* and one that needs repair, their faces in other orders and turns.          *)
V(cell, z) == [cell |-> cell, nth |-> 1, z |-> z]
Beside(v)  == [v EXCEPT !.nth = 2]
F(a, b, c) == [v |-> <<a, b, c>>, allows |-> IF a.z = b.z /\ b.z = c.z THEN 1 ELSE IF a.z + b.z + c.z > 6 THEN 2 ELSE 3]
Tetra(a, b, c, d) == <<F(a, b, c), F(a, b, d), F(b, c, d), F(c, a, d)>>
A == V("a", 0)
B == V("b", 0)
C == V("c", 4)
D == V("d", 6)
E == V("e", 2)
G == V("g", 6)
Octa == <<F(A, B, E), F(B, C, E), F(C, D, E), F(D, A, E), F(B, A, G), F(C, B, G), F(D, C, G), F(A, D, G)>>
Flipped(f) == [f EXCEPT !.v = <<@[2], @[1], @[3]>>]
Shuffled(faces) ==
    {[i \in DOMAIN faces |-> LET f == faces[((i * a + k) % Len(faces)) + 1] IN IF (i \div m) % 2 = 0 THEN f ELSE Flipped(f)] :
        a \in {n \in {1, 3, 5} : Len(faces) % n # 0}, k \in 0..(Len(faces) - 1), m \in {1, 2, 9}}
SomeSolids ==
    UNION {Shuffled(s) : s \in
        {Tetra(A, B, C, D), Octa, Tetra(A, D, B, E) \o Tetra(A, D, C, V("h", 2)),
         <<F(A, B, C), F(Beside(A), B, D), F(B, C, D), F(C, A, D), F(A, Beside(A), D)>>}}

Piece(lo, hi, ccw) == [lo |-> lo, hi |-> hi, ccw |-> ccw]
\* A tower that leans out at once at its fifth layer, and parts of four layers.
Tower == [i \in 1..7 |-> {Piece(1, IF i < 5 THEN 1 ELSE 3 * (i - 4), TRUE)}]
SomeParts ==
    {Tower} \cup [1..4 -> {{Piece(1, 9, TRUE)}, {Piece(4, 5, TRUE)}, {Piece(1, 3, TRUE), Piece(7, 9, TRUE)}, {Piece(2, 4, TRUE), Piece(7, 8, FALSE)},
              {Piece(1, 2, TRUE), Piece(8, 9, TRUE)}, {Piece(2, 8, FALSE)}}]

Rect(x, y, w, h) == << <<x, y>>, <<x + w, y>>, <<x + w, y + h>>, <<x, y + h>> >>
EllContour == << <<0, 0>>, <<300, 0>>, <<300, 100>>, <<100, 100>>, <<100, 300>>, <<0, 300>> >>
Pillar == Path(Append(Rect(384, 384, 32, 32), <<384, 384>>), 0, FALSE, Width)
Tag(role, tool) == [role |-> role, tool |-> tool]
Layer(z, contours, tags, supports) == [z |-> z, contours |-> contours, tags |-> tags, supports |-> supports, stress |-> 0]
SomeSettings == [walls |-> 2, density |-> 20, factor |-> 100, zigzag |-> TRUE, seam |-> <<"NearestTo", <<200, 210>> >>, thin |-> 15, bridging |-> TRUE, role |-> "Structural"]
SomeContours == {<<Rect(0, 0, 200, 200)>>, <<Reverse(Rect(0, 0, 30, 40)), Rect(300, 0, 100, 50)>>, <<EllContour>>}
EmptyJob == [layers |-> <<>>, settings |-> [SomeSettings EXCEPT !.density = 0, !.zigzag = FALSE, !.seam = <<>>, !.thin = 0, !.bridging = FALSE, !.role = "NonStructural"]]
SomeJobs ==
    {EmptyJob} \cup
    {[layers |-> <<Layer(24, below, tags, <<>>), Layer(44, above, tags, supports)>>, settings |-> SomeSettings] :
        below \in SomeContours, above \in SomeContours, supports \in {<<>>, <<Pillar>>},
        tags \in {<<>>, <<Tag("", 1)>>, <<Tag("NonStructural", 0), Tag("Structural", 1)>>}}
SomePrinters == {[retraction |-> 1000, hop |-> 20, maxZ |-> 25000, offsets |-> (1 :> <<20, 0>>), cooling |-> 50]}
SomePresets  == {<< <<"printer", "max_z", 30000>>, <<"firmware_retraction", "retract_length", 0>>, <<"extruder", "lift_z", 99>> >>}

--------------------------------------------------------------------------
(* Analysis: prisms as extrude_profile() makes them, with fans for the caps.  *)
Prism(outline, h) ==
    LET n == Len(outline)
        lo(i) == outline[i] \o <<0>>
        hi(i) == outline[i] \o <<h>>
        nx(i) == (i % n) + 1
    IN  [i \in 1..(n - 2) |-> <<lo(1), lo(i + 2), lo(i + 1)>>] \o [i \in 1..(n - 2) |-> <<hi(1), hi(i + 1), hi(i + 2)>>]
        \o [i \in 1..n |-> <<lo(i), lo(nx(i)), hi(nx(i))>>] \o [i \in 1..n |-> <<lo(i), hi(nx(i)), hi(i)>>]
Block(w, d, h) == [faces |-> Prism(Rect(0, 0, w, d), h), boxes |-> {<< <<0, 0, 0>>, <<w, d, h>> >>}]
OpenBlock == [Block(8, 8, 8) EXCEPT !.faces = Tail(@)]
SomeShells == {Block(8, 8, 8), Block(16, 8, 8), OpenBlock}
Origin == <<0, 0, 0>>

SomeBodies == <<Prism(Rect(0, 0, 4, 4), 4), Prism(Rect(0, 0, 2, 1), 1), Prism(<< <<0, 0>>, <<3, 0>>, <<0, 2>> >>, 2)>>
SomeDrives == {<<1, 0, 0>>, <<0, 1, 0>>, <<0, 0, 1>>}

TwoElements == [nodes |-> << <<0, 0, 0>>, <<6, 0, 0>>, <<0, 6, 0>>, <<0, 0, 6>>, <<6, 6, 6>> >>, tets |-> << <<1, 2, 3, 4>>, <<2, 3, 4, 5>> >>]
OneElement  == [nodes |-> << <<0, 0, 0>>, <<3, 1, 0>>, <<0, 3, 1>>, <<1, 0, 3>> >>, tets |-> << <<1, 2, 3, 4>> >>]
SomeMeshes  == <<TwoElements, OneElement>>
SomeOffsets == {<<x, y, z>> : x \in {-4, 1, 2, 4}, y \in {-3, 1, 3}, z \in {1, 2, 4}}
SomePairs   == {<<>>, << <<1, 2>>, <<2, 1>> >>, << <<2, 1>>, <<3, 1>> >>}

SomeTrials == {0, 4096 * 3, 4096 * 6}

--------------------------------------------------------------------------
(* Manufacturing.                                                            *)
Tetrahedron == [vertices |-> << <<0, 0, 0>>, <<2, 0, 0>>, <<0, 2, 0>>, <<0, 0, 2>> >>, faces |-> << <<1, 3, 2>>, <<1, 2, 4>>, <<2, 3, 4>>, <<3, 1, 4>> >>]
Loose == [vertices |-> << <<0, 0, 0>>, <<2, 0, 0>>, <<0, 2, 0>>, <<2, 0, 0>>, <<0, 2, 0>>, <<2, 2, 0>> >>, faces |-> << <<1, 2, 3>>, <<4, 6, 5>>, <<5, 4, 6>> >>]
Triples == {t \in (1..4) \X (1..4) \X (1..4) : t[1] # t[2] /\ t[2] # t[3] /\ t[3] # t[1]}
SomeModels == {Loose, Tetrahedron} \cup {[vertices |-> Tetrahedron.vertices, faces |-> <<s, t>>] : s \in {<<1, 2, 3>>, <<4, 3, 1>>}, t \in Triples}

\* A plate, an L, a channel with two bends, and two squares that touch in a corner.
Plate == [vertices |-> << <<0, 0, 0>>, <<8, 0, 0>>, <<8, 10, 0>>, <<0, 10, 0>> >>, faces |-> << <<1, 2, 3>>, <<1, 3, 4>> >>]
Ell   == [vertices |-> << <<0, 0, 0>>, <<8, 0, 0>>, <<8, 4, 0>>, <<4, 4, 0>>, <<4, 9, 0>>, <<0, 9, 0>> >>,
          faces |-> << <<1, 2, 3>>, <<1, 3, 4>>, <<1, 4, 5>>, <<1, 5, 6>> >>]
Channel == [vertices |-> << <<0, 0, 0>>, <<2, 0, 0>>, <<2, 2, 0>>, <<0, 2, 0>>, <<2, 2, 2>>, <<0, 2, 2>>, <<2, 0, 2>>, <<0, 0, 2>> >>,
            faces |-> << <<1, 2, 3>>, <<1, 3, 4>>, <<4, 3, 5>>, <<4, 5, 6>>, <<2, 1, 8>>, <<2, 8, 7>> >>]
Bow   == [vertices |-> << <<0, 0, 0>>, <<4, 0, 0>>, <<4, 4, 0>>, <<0, 4, 0>>, <<8, 4, 0>>, <<8, 8, 0>>, <<4, 8, 0>> >>,
          faces |-> << <<1, 2, 3>>, <<1, 3, 4>>, <<3, 5, 6>>, <<3, 6, 7>> >>]
SomeSheets == {Plate, Ell, Channel, Bow}
SomeHoles  == {<<>>, << <<2, 2>>, <<6, 2>> >>}

--------------------------------------------------------------------------
(* Drawing.                                                                  *)
SomeExtents == << <<2, 2, 2>>, <<1, 3, 1>> >>
SomeShifts  == {<<-4, 0, 0>>}
SomeCursors == {<<1, 0>>}

--------------------------------------------------------------------------
\* A printer that is watched from outside while the others are at work.
IdleUnit == [server |-> "octoprint", keyed |-> FALSE, says |-> FALSE, hot |-> 1, bed |-> {}, phase |-> "idle", done |-> 0]

CouplingRests == meshes = SomeMeshes /\ pairs = <<>> /\ all_constraints = <<>> /\ result = NoResult /\ coupling = "Detecting"

Init ==
    /\ machine \in {"layers", "supports", "program", "meshing", "clashes", "coupling", "loads", "step", "sheets", "scene", "status"}
    /\ (machine = "layers" \/ solid = Tetra(A, B, C, D)) /\ LayersInit
    /\ (machine = "supports" \/ part = [i \in 1..4 |-> {Piece(1, 9, TRUE)}]) /\ SupportsInit
    /\ (machine = "program" \/ job = EmptyJob) /\ ProgramInit
    /\ (machine = "meshing" \/ shell = OpenBlock) /\ TetInit
    /\ ClashInit
    /\ IF machine = "coupling" THEN CouplingInit ELSE CouplingRests
    /\ LoadInit
    /\ (machine = "step" \/ model = Loose) /\ StepInit
    /\ (machine = "sheets" \/ sheet = Plate) /\ SheetInit
    /\ SceneInit
    /\ (machine = "status" \/ unit = IdleUnit) /\ StatusInit

Next ==
    \/ machine = "layers" /\ LayersNext /\ UNCHANGED <<machine, supportVars, programVars, tetVars, clashVars, couplingVars, loadVars, stepVars, sheetVars, sceneVars, statusVars>>
    \/ machine = "supports" /\ SupportsNext /\ UNCHANGED <<machine, layerVars, programVars, tetVars, clashVars, couplingVars, loadVars, stepVars, sheetVars, sceneVars, statusVars>>
    \/ machine = "program" /\ ProgramNext /\ UNCHANGED <<machine, layerVars, supportVars, tetVars, clashVars, couplingVars, loadVars, stepVars, sheetVars, sceneVars, statusVars>>
    \/ machine = "meshing" /\ TetNext /\ UNCHANGED <<machine, layerVars, supportVars, programVars, clashVars, couplingVars, loadVars, stepVars, sheetVars, sceneVars, statusVars>>
    \/ machine = "clashes" /\ ClashNext /\ UNCHANGED <<machine, layerVars, supportVars, programVars, tetVars, couplingVars, loadVars, stepVars, sheetVars, sceneVars, statusVars>>
    \/ machine = "coupling" /\ CouplingNext /\ UNCHANGED <<machine, layerVars, supportVars, programVars, tetVars, clashVars, loadVars, stepVars, sheetVars, sceneVars, statusVars>>
    \/ machine = "loads" /\ LoadNext /\ UNCHANGED <<machine, layerVars, supportVars, programVars, tetVars, clashVars, couplingVars, stepVars, sheetVars, sceneVars, statusVars>>
    \/ machine = "step" /\ StepNext /\ UNCHANGED <<machine, layerVars, supportVars, programVars, tetVars, clashVars, couplingVars, loadVars, sheetVars, sceneVars, statusVars>>
    \/ machine = "sheets" /\ SheetNext /\ UNCHANGED <<machine, layerVars, supportVars, programVars, tetVars, clashVars, couplingVars, loadVars, stepVars, sceneVars, statusVars>>
    \/ machine = "scene" /\ SceneNext /\ UNCHANGED <<machine, layerVars, supportVars, programVars, tetVars, clashVars, couplingVars, loadVars, stepVars, sheetVars, statusVars>>
    \/ machine = "status" /\ StatusNext /\ UNCHANGED <<machine, layerVars, supportVars, programVars, tetVars, clashVars, couplingVars, loadVars, stepVars, sheetVars, sceneVars>>

--------------------------------------------------------------------------
(* Bounds.                                                                  *)

\* The first body stays and one of the others is driven, within the first one's box.
Bounds ==
    /\ \A p \in DOMAIN places, k \in 1..3 : places[p][k] \in 0..4
    /\ places[1] = Origin
    /\ places[2] = Origin \/ places[3] = Origin
=============================================================================
