----------------------------- MODULE SceneView ------------------------------
(* An assembly on the screen (renderer: scene.rs, renderer.rs, camera.rs,     *)
(* culling.rs, picking.rs): what is uploaded, highlighted, culled and picked. *)
(*                                                                            *)
(* Parts are boxes on the integer grid that only move, the camera looks along *)
(* an axis (quarter turns of yaw, no pitch) with a field of view of 90        *)
(* degrees. A plane of the frustum is the value of a linear form, scaled to   *)
(* integers; the GPU is a record of what was last written to it.              *)
EXTENDS Integers, Sequences, FiniteSets, FiniteSetsExt, SequencesExt, Vectors

CONSTANTS
    Extents,    \* PartId -> the far corner of its box, numbered from 1
    Shifts,     \* the moves of a part
    Cursors,    \* where the user points: halves of the screen, from -2 to 2
    Near, Far,  \* the depths that are drawn
    Views,      \* the distances and half-heights a zoom may reach
    MaxStray    \* how far a part moves

Point3 == Int \X Int \X Int

ASSUME SceneAssumption ==
    /\ Extents \in Seq(Point3) /\ Shifts \subseteq Point3
    /\ Near \in Nat /\ Far \in Nat /\ Near <= Far

VARIABLES
    assembly,   \* PartId -> its transform
    gpu,        \* the meshes, the uniforms and the pick list of the renderer
    camera,
    click       \* the last point picked and the node found there

sceneVars == <<assembly, gpu, camera, click>>

NoNode == 0
NoClick == [at |-> <<0, 0>>, node |-> NoNode, made |-> FALSE]

--------------------------------------------------------------------------
(* The scene: a node is [id, local, mesh, children], mesh 0 is none.         *)
Box(low, high) == [min |-> low, max |-> high]
MovedBox(b, by)   == Box(Plus(b.min, by), Plus(b.max, by))

\* Part::solid_in_assembly()
SolidInAssembly(p) == MovedBox(Box(<<0, 0, 0>>, Extents[p]), assembly[p])

\* The nodes with a level of children or none: scene_from_assembly() makes a
\* root and, below it, a node of each part.
Nodes(level) ==
    LET nodes(children) == [id : Nat, local : Point3, mesh : Nat, children : children]
    IN  nodes(IF level = 0 THEN {<<>>} ELSE Seq(nodes({<<>>})))

\* flatten_node(), of a node and where its parent is: itself, then its children
FlattenNode[level \in 0..1] ==
    [x \in Nodes(level) \X Point3 |->
        LET node  == x[1]
            world == Plus(x[2], node.local)
            below == [i \in DOMAIN node.children |-> FlattenNode[level - 1][<<node.children[i], world>>]]
        IN  (IF node.mesh = 0 THEN <<>> ELSE <<[node |-> node.id, world |-> world, mesh |-> node.mesh]>>) \o FlattenSeq(below)]

SceneFromAssembly ==
    LET nodes == [p \in DOMAIN Extents |-> [id |-> p, local |-> assembly[p], mesh |-> p, children |-> <<>>]]
    IN  [meshes |-> [p \in DOMAIN Extents |-> SolidInAssembly(p)],
         items  |-> FlattenNode[1][<<[id |-> 0, local |-> <<0, 0, 0>>, mesh |-> 0, children |-> nodes], <<0, 0, 0>> >>]]

\* A mutation of Uploaded: the selection is kept over a new scene.
UploadedKeeping(scene) ==
    [meshes   |-> scene.meshes,
     uniforms |-> [i \in DOMAIN scene.items |-> [world |-> scene.items[i].world, highlight |-> 0]],
     picks    |-> scene.items,
     highlighted |-> gpu.highlighted]

\* upload_scene()
Uploaded(scene) ==
    [meshes   |-> scene.meshes,
     uniforms |-> [i \in DOMAIN scene.items |-> [world |-> scene.items[i].world, highlight |-> 0]],
     picks    |-> scene.items,
     highlighted |-> NoNode]

\* draw_all(): the i-th uniforms with the i-th mesh, while there are both
DrawAll == [i \in 1..Min({Len(gpu.uniforms), Len(gpu.meshes)}) |->
               [box |-> MovedBox(gpu.meshes[i], gpu.uniforms[i].world), highlight |-> gpu.uniforms[i].highlight]]

--------------------------------------------------------------------------
(* The camera.                                                               *)
Away    == << <<0, 0, 1>>, <<1, 0, 0>>, <<0, 0, -1>>, <<-1, 0, 0>> >>[camera.yaw + 1]
Eye     == Plus(camera.target, Times(Away, camera.distance))
Forward == Times(Away, -1)
Right   == Cross(Forward, <<0, 1, 0>>)
Up      == Cross(Right, Forward)

\* Frustum::from_view_proj(): left, right, bottom, top, near and far, each
\* positive on the inside. The near plane is that of depths from -1 to 1.
Planes(p) ==
    LET v == Minus(p, Eye)
        r == Dot(v, Right)
        u == Dot(v, Up)
        d == Dot(v, Forward)
        h == IF camera.projection = "Orthographic" THEN camera.half ELSE d
        w == h * camera.aspect
    IN  <<w + r, w - r, h + u, h - u,
          IF camera.projection = "Orthographic" THEN d + Far - 2 * Near ELSE d * (2 * Far - Near) - Near * Far, Far - d>>

\* The normals of the planes: what a step along each axis adds to them.
Normals ==
    LET from == Planes(<<0, 0, 0>>)
        x    == Planes(<<1, 0, 0>>)
        y    == Planes(<<0, 1, 0>>)
        z    == Planes(<<0, 0, 1>>)
    IN  [i \in 1..6 |-> <<x[i] - from[i], y[i] - from[i], z[i] - from[i]>>]

\* A mutation of Positive: the corner least in the direction.
Negative(b, n) == LET c(k) == IF n[k] >= 0 THEN b.min[k] ELSE b.max[k] IN <<c(1), c(2), c(3)>>

\* The corner of a box most in the direction of a normal.
Positive(b, n) == LET c(k) == IF n[k] >= 0 THEN b.max[k] ELSE b.min[k] IN <<c(1), c(2), c(3)>>

\* That corner is outside of no plane.
IntersectsAabb(b) == LET normals == Normals IN \A i \in 1..6 : Planes(Positive(b, normals[i]))[i] >= 0

\* select_lod(), of the squares of the radius of the box and of its distance
SelectLod(b) ==
    LET centre2 == Plus(b.min, b.max)
        square(v) == Dot(v, v)
        radius2 == 10000 * square(Minus(Times(b.max, 2), centre2))
        away2   == square(Minus(centre2, Times(Eye, 2)))
    IN  IF away2 = 0 \/ radius2 > 225 * away2 THEN "High" ELSE IF radius2 > 16 * away2 THEN "Medium" ELSE "Low"

\* cull_and_batch(): (mesh, level of detail) -> how many
CullAndBatch(boxes) ==
    LET seen  == {i \in DOMAIN boxes : IntersectsAabb(boxes[i])}
        key(i) == <<gpu.picks[i].mesh, SelectLod(boxes[i])>>
    IN  [k \in {key(i) : i \in seen} |-> Cardinality({i \in seen : key(i) = k})]

--------------------------------------------------------------------------
(* Picking.                                                                  *)

\* unproject(), times Near * Far: the fourth coordinate is dropped, not divided by.
Unproject(at, z) ==
    LET aside == Plus(Times(Right, at[1] * camera.aspect), Times(Up, at[2]))
    IN  IF camera.projection = "Orthographic"
        THEN Plus(Times(aside, camera.half), Plus(Times(Eye, 2), Times(Forward, 2 * (Near + z * (Far - Near)))))
        ELSE Plus(Times(Plus(aside, Times(Forward, 2)), Near * Far), Times(Eye, 2 * (z * (Near - Far) + Far)))
ScreenRay(at) == [origin |-> Eye, direction |-> Minus(Unproject(at, 1), Unproject(at, 0))]

BoxFaces(b) ==
    LET c(x, y, z) == <<(IF x = 0 THEN b.min ELSE b.max)[1], (IF y = 0 THEN b.min ELSE b.max)[2], (IF z = 0 THEN b.min ELSE b.max)[3]>>
        quad(p, q, r, s) == {<<p, q, r>>, <<p, r, s>>}
    IN  quad(c(0, 0, 0), c(0, 1, 0), c(1, 1, 0), c(1, 0, 0)) \cup quad(c(0, 0, 1), c(1, 0, 1), c(1, 1, 1), c(0, 1, 1))
        \cup quad(c(0, 0, 0), c(1, 0, 0), c(1, 0, 1), c(0, 0, 1)) \cup quad(c(1, 1, 0), c(0, 1, 0), c(0, 1, 1), c(1, 1, 1))
        \cup quad(c(0, 1, 0), c(0, 0, 0), c(0, 0, 1), c(0, 1, 1)) \cup quad(c(1, 0, 0), c(1, 1, 0), c(1, 1, 1), c(1, 0, 1))

\* ray_triangle(): {} or the quotient of the distance, with a positive denominator
RayTriangle(ray, f) ==
    LET edge1 == Minus(f[2], f[1])
        edge2 == Minus(f[3], f[1])
        h   == Cross(ray.direction, edge2)
        det == Dot(edge1, h)
        s   == Minus(ray.origin, f[1])
        q   == Cross(s, edge1)
        u   == Sign(det) * Dot(s, h)
        v   == Sign(det) * Dot(ray.direction, q)
        t   == Sign(det) * Dot(edge2, q)
    IN  IF det # 0 /\ u >= 0 /\ v >= 0 /\ u + v <= Abs(det) /\ t > 0 THEN {<<t, Abs(det)>>} ELSE {}

Sooner(s, t) == s[1] * t[2] < t[1] * s[2]

Drawn(i) == MovedBox(gpu.meshes[gpu.picks[i].mesh], gpu.picks[i].world)
HitsOf(i, ray) == UNION {RayTriangle(ray, f) : f \in BoxFaces(Drawn(i))}

\* pick(): the first of the nodes that are hit soonest
PickWith(ray) ==
    LET hits == UNION {{<<i, t>> : t \in HitsOf(i, ray)} : i \in DOMAIN gpu.picks}
        soonest == {hit[1] : hit \in {h \in hits : \A other \in hits : ~Sooner(other[2], h[2])}}
    IN  IF hits = {} THEN NoNode ELSE gpu.picks[Min(soonest)].node

--------------------------------------------------------------------------
SceneInit ==
    /\ assembly = [p \in DOMAIN Extents |-> <<0, 0, 0>>]
    /\ gpu = [meshes |-> <<>>, uniforms |-> <<>>, picks |-> <<>>, highlighted |-> NoNode]
    /\ camera = [yaw |-> 0, target |-> <<0, 0, 0>>, distance |-> 8, projection |-> "Perspective", half |-> 8, aspect |-> 1]
    /\ click = NoClick

MovePartInScene(p, by) ==
    /\ Span(Plus(assembly[p], by)) <= MaxStray
    /\ assembly' = [assembly EXCEPT ![p] = Plus(@, by)]
    /\ UNCHANGED <<gpu, camera, click>>

UploadAssembly == gpu' = Uploaded(SceneFromAssembly) /\ click' = NoClick /\ UNCHANGED <<assembly, camera>>

\* set_highlighted()
SetHighlighted(node) ==
    /\ node # gpu.highlighted
    /\ gpu' = [gpu EXCEPT !.highlighted = node,
                          !.uniforms = [i \in DOMAIN gpu.picks |->
                              [world |-> gpu.picks[i].world, highlight |-> IF gpu.picks[i].node = node THEN 1 ELSE 0]]]
    /\ UNCHANGED <<assembly, camera, click>>

Look(c) == camera' = c /\ click' = NoClick /\ UNCHANGED <<assembly, gpu>>
Orbit   == Look([camera EXCEPT !.yaw = (@ + 1) % 4])
Zoom(by) ==
    LET scaled(n) == (n * by[1]) \div by[2]
        half == IF camera.projection = "Orthographic" THEN scaled(camera.half) ELSE camera.half
    IN  /\ {scaled(camera.distance), half} \subseteq Views
        /\ Look([camera EXCEPT !.distance = scaled(@), !.half = half])
ZoomIn  == Zoom(<<1, 2>>)
ZoomOut == Zoom(<<2, 1>>)
Pan  == camera.target = <<0, 0, 0>> /\ Look([camera EXCEPT !.target = Plus(@, Plus(Right, Up))])
ToggleProjection == Look([camera EXCEPT !.projection = IF @ = "Perspective" THEN "Orthographic" ELSE "Perspective"])
Resize == Look([camera EXCEPT !.aspect = 3 - @])

Pick(at) == click' = [at |-> at, node |-> PickWith(ScreenRay(at)), made |-> TRUE] /\ UNCHANGED <<assembly, gpu, camera>>

SceneNext ==
    \/ \E p \in DOMAIN Extents, by \in Shifts : MovePartInScene(p, by)
    \/ UploadAssembly
    \/ \E node \in {NoNode} \cup DOMAIN Extents : SetHighlighted(node)
    \/ Orbit \/ ZoomIn \/ ZoomOut \/ Pan \/ ToggleProjection \/ Resize
    \/ \E at \in Cursors : Pick(at)

SceneSpec == SceneInit /\ [][SceneNext]_sceneVars

--------------------------------------------------------------------------
InView(p) ==
    LET v == Minus(p, Eye)
        d == Dot(v, Forward)
        h == IF camera.projection = "Orthographic" THEN camera.half ELSE d
    IN  Near <= d /\ d <= Far /\ Abs(Dot(v, Right)) <= h * camera.aspect /\ Abs(Dot(v, Up)) <= h
PointsOf(b) == (b.min[1]..b.max[1]) \X (b.min[2]..b.max[2]) \X (b.min[3]..b.max[3])

\* Wherever the camera is turned and moved, culling takes away no part of which a
\* point is in view, and every part that is left is in one batch (culling.rs:118, 188).
CullingKeepsTheSeen ==
    LET boxes   == [i \in DOMAIN gpu.picks |-> Drawn(i)]
        batches == CullAndBatch(boxes)
        kept    == {i \in DOMAIN boxes : IntersectsAabb(boxes[i])}
    IN  /\ \A i \in DOMAIN boxes : (\E p \in PointsOf(boxes[i]) : InView(p)) => i \in kept
        /\ SumFunction(batches) = Cardinality(kept)

\* After any moves, uploads and selections, what is drawn is what a click tests,
\* and a part is emphasised exactly when its node is the one the renderer holds
\* as highlighted, so that selecting it again is rightly skipped (renderer.rs:322, 375).
SelectionIsShown ==
    /\ Len(DrawAll) = Len(gpu.picks)
    /\ \A i \in DOMAIN gpu.picks :
          /\ DrawAll[i].box = Drawn(i)
          /\ DrawAll[i].highlight = IF gpu.picks[i].node = gpu.highlighted THEN 1 ELSE 0
    /\ \A n \in {gpu.picks[i].node : i \in DOMAIN gpu.picks} : n \in DOMAIN assembly

\* What the user sees and what the renderer keeps agree: nothing in view is
\* missing, and what is emphasised and can be picked is what is drawn.
SceneIsShown == CullingKeepsTheSeen /\ SelectionIsShown

\* The ray through a point of the screen: its origin and its direction, times two.
CursorRay(at) ==
    LET aside == Plus(Times(Right, at[1] * camera.aspect), Times(Up, at[2]))
    IN  IF camera.projection = "Orthographic"
        THEN [origin |-> Plus(Eye, Times(aside, camera.half \div 2)), direction |-> Forward]
        ELSE [origin |-> Eye, direction |-> Plus(aside, Times(Forward, 2))]

\* renderer.rs:397 says of pick(): "Pick the nearest scene node under the given
\* normalized device coordinates".
PickIsUnderCursor == click.made => click.node = PickWith(CursorRay(click.at))
=============================================================================
