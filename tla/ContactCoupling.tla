-------------------------- MODULE ContactCoupling ---------------------------
(* The contacts of an analysis of several meshes (contact_fea.rs): which      *)
(* nodes of one mesh are held by which faces of another, and how the result   *)
(* of the one solve is split up again.                                        *)
(*                                                                            *)
(* Nodes are places on the integer grid. A distance to the plane of a face is *)
(* that of the product with its normal, as a sign, its square as a numerator  *)
(* and a denominator. The solver is below: here each node's displacement  *)
(* and each element's stress is known by its number in the global mesh. The   *)
(* stiffness of the penalty is left out: it only scales the forces.           *)
EXTENDS Integers, Sequences, FiniteSets, FiniteSetsExt, SequencesExt, Vectors

CONSTANTS
    Meshes,    \* a sequence of [nodes |-> places, tets |-> quadruples of the nodes' numbers]
    Offsets,   \* where the last of them may be
    Pairs      \* the sequences of contact pairs, of numbers of meshes

VARIABLES
    meshes,
    pairs,         \* those still to be looked at
    all_constraints,
    result,        \* ContactAnalysisResult, or NoResult
    coupling       \* "Detecting" or "Done"

couplingVars == <<meshes, pairs, all_constraints, result, coupling>>

NoResult == [displacements |-> <<>>, vonMises |-> <<>>, forces |-> <<>>]

\* compute_aabb(), overlaps(): boxes that touch overlap.
MeshesOverlap(a, b) ==
    \A k \in 1..3 :
        LET alongA == {n[k] : n \in ToSet(a.nodes)}
            alongB == {n[k] : n \in ToSet(b.nodes)}
        IN  Min(alongA) <= Max(alongB) /\ Max(alongA) >= Min(alongB)

\* surface_triangles(): the faces of one element, by the order of their nodes'
\* numbers and not around their normal.
SurfaceTriangles(m) ==
    {SetToSortSeq(f, <) : f \in {g \in SUBSET DOMAIN m.nodes : Cardinality(g) = 3 /\ Cardinality({i \in DOMAIN m.tets : g \subseteq ToSet(m.tets[i])}) = 1}}

FaceNormal(m, f) == Cross(Minus(m.nodes[f[2]], m.nodes[f[1]]), Minus(m.nodes[f[3]], m.nodes[f[1]]))

\* signed_distance_to_triangle(): how far p is from the plane of a face.
PlaneDistance(m, f, p) ==
    LET n == FaceNormal(m, f)
        d == Dot(n, Minus(p, m.nodes[f[1]]))
    IN  [sign |-> Sign(d), num |-> d * d, den |-> Dot(n, n)]
Closer(d, e) == d.num * e.den < e.num * d.den

\* ray_triangle_intersect() of the ray from p along x. The borders of a face are in it.
RayHits(m, f, p) ==
    LET edge1 == Minus(m.nodes[f[2]], m.nodes[f[1]])
        edge2 == Minus(m.nodes[f[3]], m.nodes[f[1]])
        a == edge1[3] * edge2[2] - edge1[2] * edge2[3]
        s == Minus(p, m.nodes[f[1]])
        q == Cross(s, edge1)
        u == Sign(a) * (s[3] * edge2[2] - s[2] * edge2[3])
        v == Sign(a) * q[1]
    IN  a # 0 /\ u >= 0 /\ v >= 0 /\ u + v <= Abs(a) /\ Sign(a) * Dot(edge2, q) > 0

\* A mutation of PointInMesh: any hit counts.
PointSeesMesh(m, p) == \E f \in SurfaceTriangles(m) : RayHits(m, f, p)

PointInMesh(m, p) == Cardinality({f \in SurfaceTriangles(m) : RayHits(m, f, p)}) % 2 = 1

\* The face that holds a node, of equals any one: the closest of all, where none
\* that the node is behind of is as close, and only of a mesh the node is in.
HoldingFaces(m, p) ==
    LET faces  == SurfaceTriangles(m)
        far    == [f \in faces |-> PlaneDistance(m, f, p)]
        behind == {f \in faces : far[f].sign < 0}
    IN  {f \in faces : /\ PointInMesh(m, p) /\ far[f].num > 0
                       /\ \A g \in faces : ~Closer(far[g], far[f])
                       /\ \A g \in behind : Closer(far[f], far[g])}

\* Where a mesh's nodes and elements begin in the global mesh.
NodesBefore(i) == FoldLeft(LAMBDA sum, m : sum + Len(m.nodes), 0, SubSeq(meshes, 1, i - 1))
TetsBefore(i)  == FoldLeft(LAMBDA sum, m : sum + Len(m.tets), 0, SubSeq(meshes, 1, i - 1))

GlobalNode(i, n) == n + NodesBefore(i)

--------------------------------------------------------------------------
Shifted(m, by) == [m EXCEPT !.nodes = [n \in DOMAIN @ |-> Plus(@[n], by)] \o <<>>]

CouplingInit ==
    /\ \E by \in Offsets : meshes = [Meshes EXCEPT ![Len(Meshes)] = Shifted(@, by)]
    /\ pairs \in Pairs /\ all_constraints = <<>> /\ result = NoResult /\ coupling = "Detecting"

\* The contacts of a pair. A pair of a mesh that is not there is passed over.
DetectPair ==
    /\ coupling = "Detecting" /\ pairs # <<>>
    /\ pairs' = Tail(pairs)
    /\ LET a == Head(pairs)[1]
           b == Head(pairs)[2]
       IN  IF {a, b} \subseteq DOMAIN meshes /\ MeshesOverlap(meshes[a], meshes[b])
           THEN LET holding == [n \in DOMAIN meshes[a].nodes |-> HoldingFaces(meshes[b], meshes[a].nodes[n])] \o <<>>
                    held    == SetToSortSeq({n \in DOMAIN holding : holding[n] # {}}, <)
                IN  \E face \in [ToSet(held) -> SurfaceTriangles(meshes[b])] :
                        /\ \A n \in ToSet(held) : face[n] \in holding[n]
                        /\ all_constraints' = all_constraints \o [i \in DOMAIN held |-> [node |-> GlobalNode(a, held[i]), mesh |-> b, face |-> face[held[i]]]]
           ELSE all_constraints' = all_constraints
    /\ UNCHANGED <<meshes, result, coupling>>

\* The force of a contact is its depth along the normal of its face, which is the
\* product with the normal times the normal, over the square of its length.
ForceOf(c) ==
    LET m == meshes[c.mesh]
        i == Max({j \in DOMAIN meshes : NodesBefore(j) < c.node})
        p == meshes[i].nodes[c.node - NodesBefore(i)]
        n == FaceNormal(m, c.face)
    IN  [num |-> Times(n, Abs(Dot(n, Minus(p, m.nodes[c.face[1]])))), den |-> Dot(n, n)]

\* run_contact_analysis() after the solve, which takes no constraint: a mesh gets
\* its nodes from where they begin, and its elements from where they would begin
\* if all meshes had as many.
SolveAndSplit ==
    /\ coupling = "Detecting" /\ pairs = <<>>
    /\ LET stresses == [t \in 1..TetsBefore(Len(meshes) + 1) |-> t]
           own(i)   == Len(meshes[i].tets)
       IN  result' = [displacements |-> [i \in DOMAIN meshes |-> [n \in 1..Len(meshes[i].nodes) |-> GlobalNode(i, n)]],
                      vonMises      |-> [i \in DOMAIN meshes |-> SubSeq(stresses, (i - 1) * own(i) + 1, Min({Len(stresses), i * own(i)}))],
                      forces        |-> [c \in DOMAIN all_constraints |-> ForceOf(all_constraints[c])]]
    /\ coupling' = "Done"
    /\ UNCHANGED <<meshes, pairs, all_constraints>>

CouplingNext == DetectPair \/ SolveAndSplit

--------------------------------------------------------------------------
\* Whether a place is in an element: on the inner side of each of its faces.
InTet(m, t, p) ==
    \A i \in 1..4 :
        LET f == [k \in 1..3 |-> t[((i + k - 1) % 4) + 1]]
        IN  Sign(Dot(FaceNormal(m, f), Minus(p, m.nodes[f[1]]))) * Sign(Dot(FaceNormal(m, f), Minus(m.nodes[t[i]], m.nodes[f[1]]))) >= 0

\* Every contact is of a node that is inside an element of the other mesh, found
\* by its number in the global mesh, and no node is held deeper than it is behind
\* any face of that mesh (contact_fea.rs:61, contact_fea.rs:388).
ContactsAreInside ==
    \A c \in ToSet(all_constraints) : \E i \in DOMAIN meshes \ {c.mesh} :
        LET n == c.node - NodesBefore(i)
            m == meshes[c.mesh]
        IN  /\ n \in DOMAIN meshes[i].nodes
            /\ \E t \in ToSet(m.tets) : InTet(m, t, meshes[i].nodes[n])
            /\ \A f \in SurfaceTriangles(m) : ~Closer(PlaneDistance(m, f, meshes[i].nodes[n]), PlaneDistance(m, c.face, meshes[i].nodes[n]))

\* The force of a contact takes its node out: towards the plane of the face.
\* contact_fea.rs:5 says "penetrating node pairs generate repulsive forces
\* proportional to the penetration depth".
ForcesRepel ==
    \A c \in DOMAIN result.forces :
        LET m == meshes[all_constraints[c].mesh]
            i == Max({j \in DOMAIN meshes : NodesBefore(j) < all_constraints[c].node})
            p == meshes[i].nodes[all_constraints[c].node - NodesBefore(i)]
        IN  Dot(result.forces[c].num, Minus(p, m.nodes[all_constraints[c].face[1]])) < 0

\* A mesh gets the stresses of its own elements (contact_fea.rs:329, "Per-mesh
\* von Mises stress fields.").
OwnStresses ==
    coupling = "Done" => \A i \in DOMAIN meshes : result.vonMises[i] = [t \in 1..Len(meshes[i].tets) |-> t + TetsBefore(i)]

--------------------------------------------------------------------------
(* The loads of an analysis put on in steps, each by iteration, on a material *)
(* that yields (nonlinear.rs, plasticity.rs). One element is followed. What   *)
(* the solver finds is open: the equivalent stress of the strain it arrives   *)
(* at is any of Trials, and the norms may be small or not. Stresses and       *)
(* strains are integers in units so small that the divisions of               *)
(* MaxIter * LoadCount returns are exact; the power laws of hardening and the *)
(* tangent matrices are left out.                                             *)
CONSTANTS
    LoadCount,  \* n_load_steps
    MaxIter,
    Trials,     \* equivalent trial stresses
    Yield,      \* the first yield stress
    Shear3,     \* three times the shear modulus
    Hardening   \* 0 for HardeningLaw::Perfect

\* What is a multiple of Grain[n] can be divided by a return's divisor n times.
Grain[n \in Nat] == IF n = 0 THEN 1 ELSE (Shear3 + Hardening) * Grain[n - 1]

\* Without an iteration nothing is solved, and the result says it converged.
ASSUME LoadStepsAssumption ==
    /\ LoadCount \in Nat \ {0} /\ MaxIter \in Nat \ {0} /\ Shear3 \in Nat \ {0} /\ Hardening \in Nat
    /\ \A stress \in Trials \cup {Yield} : stress \in Nat /\ stress % Grain[LoadCount * MaxIter] = 0

VARIABLES
    history,    \* the iterations: [step, iter, converged, strain]
    element,    \* [stress, strain], equivalent, the strain the accumulated plastic one
    analysis    \* "Running", "Converged" or "Stopped"

loadVars == <<history, element, analysis>>

YieldStress(strain) == Yield + Hardening * strain

\* A mutation of RadialReturn: the correction has the other sign.
RadialReturnBackwards(trial, strain) ==
    IF trial <= YieldStress(strain) THEN [stress |-> trial, strain |-> strain]
    ELSE LET more == (trial - YieldStress(strain)) \div (Shear3 + Hardening)
         IN  [stress |-> trial + Shear3 * more, strain |-> strain - more]

\* radial_return(): its iteration is exact after one turn for a linear law.
RadialReturn(trial, strain) ==
    IF trial <= YieldStress(strain) THEN [stress |-> trial, strain |-> strain]
    ELSE LET more == (trial - YieldStress(strain)) \div (Shear3 + Hardening)
         IN  [stress |-> trial - Shear3 * more, strain |-> strain + more]

Step == IF history = <<>> THEN 1 ELSE LET last == history[Len(history)] IN IF last.converged THEN last.step + 1 ELSE last.step
Iter == IF history = <<>> \/ history[Len(history)].converged THEN 0 ELSE history[Len(history)].iter + 1

LoadInit == history = <<>> /\ element = [stress |-> 0, strain |-> 0] /\ analysis = "Running"

\* An iteration: the material is asked first, with the strain of the last one.
Iterate(trial, converged) ==
    /\ analysis = "Running"
    /\ element' = RadialReturn(trial, element.strain)
    /\ history' = Append(history, [step |-> Step, iter |-> Iter, converged |-> converged, strain |-> element'.strain])
    /\ analysis' = IF converged THEN (IF Step = LoadCount THEN "Converged" ELSE "Running")
                   ELSE IF Iter = MaxIter - 1 THEN "Stopped" ELSE "Running"

LoadNext == \E trial \in Trials, converged \in BOOLEAN : Iterate(trial, converged)

LoadSpec == LoadInit /\ [][LoadNext]_loadVars

--------------------------------------------------------------------------
\* An analysis that says it converged carried the whole load, each step with a
\* last iteration that converged; one that stopped gave all of its iterations to
\* a step; and however the iterations go the stress is not beyond what the
\* material bears and the plastic strain never falls (nonlinear.rs:122, plasticity.rs:140).
LoadIsCarried ==
    /\ element.stress <= YieldStress(element.strain)
    /\ \A i, j \in DOMAIN history : i < j => history[i].strain <= history[j].strain
    /\ analysis = "Converged" => \A s \in 1..LoadCount : \E i \in DOMAIN history : history[i].step = s /\ history[i].converged
    /\ analysis = "Stopped" => /\ Len(history) >= MaxIter
                               /\ \A k \in 0..(MaxIter - 1) : LET h == history[Len(history) - k]
                                                              IN  ~h.converged /\ h.step = history[Len(history)].step
=============================================================================
