---------------------------- MODULE SketchSolver ----------------------------
(* The constraint solver of sketches (geometry/constraint.rs): sweeps of      *)
(* projections over the constraints, in order, until a sweep meets no         *)
(* residual or the sweeps run out.                                            *)
(*                                                                            *)
(* Coordinates are integers, of which the code's halving stays exact for as   *)
(* long as they are even; lengths and directions are exact along the axes.    *)
(* A sketch or a sweep that leaves this grid is not followed (`exact`).       *)
(* Weights are 1 and the tolerance is 0.                                      *)
EXTENDS Integers, Sequences, FiniteSets, SequencesExt, Vectors

CONSTANTS
    VertexId,      \* the points of the sketch
    Dragged,       \* the points that are moved by hand later
    Places,        \* where points are put
    Constraints,   \* the constraints that are added: [kind, ids, value]
    MaxIters       \* the sweeps that a call allows

\* How many points each kind of constraint names.
Arity == [Fixed |-> 1, Coincident |-> 2, Horizontal |-> 2, Vertical |-> 2, Distance |-> 2, PointOnCircle |-> 3,
          Parallel |-> 4, Perpendicular |-> 4, EqualLength |-> 4, EqualRadius |-> 4]

ASSUME SketchAssumption ==
    /\ Places \subseteq Int \X Int /\ MaxIters \in Nat
    /\ \A c \in Constraints :
          /\ c.kind \in DOMAIN Arity
          /\ c.ids \in Seq(VertexId) /\ Len(c.ids) = Arity[c.kind]
          /\ c.kind = "Fixed" => c.value \in Int \X Int
          /\ c.kind = "Distance" => c.value \in Int

VARIABLES
    points,        \* the position of every point: <<x, y>>
    constraints,   \* the list that is solved
    stats          \* what the last call answered: [residual, converged], none once the sketch is changed,
                   \* and whether its last sweep moved points for a residual of 0

solverVars == <<points, constraints, stats>>

NoStats == [residual |-> 0, converged |-> FALSE, turned |-> FALSE]

AlongAxis(v) == v[1] = 0 \/ v[2] = 0   \* then its Span is its length

\* move_point(), and moves one after the other: the later place of a point counts.
PutAt(id, place)     == [x \in {id} |-> place]
Later(first, second) == [x \in DOMAIN first \cup DOMAIN second |-> IF x \in DOMAIN second THEN second[x] ELSE first[x]]

\* A segment of the given middle and direction, as new places of its ends.
Ends(a, b, middle, half) == Later(PutAt(a, Minus(middle, half)), PutAt(b, Plus(middle, half)))

--------------------------------------------------------------------------
(* One projection. Its answer: where the points go, the residual, measured  *)
(* before they move, and whether all of it is exact.                        *)

Project(c, p) ==
    LET ids == c.ids
        P(k) == p[ids[k]]
        v == Minus(P(2), P(1))                                    \* the first segment
        w == IF Len(ids) = 4 THEN Minus(P(4), P(3)) ELSE <<0, 0>> \* the second
        middle1 == Half(Plus(P(1), P(2)))
        middle2 == Half(Plus(P(3), P(4)))
        \* The second segment turned into the direction `to`, about its middle.
        Turn(to, residual) ==
            [moves |-> Ends(ids[3], ids[4], middle2, Half(Times(to, Span(w)))), residual |-> residual,
             exact |-> AlongAxis(v) /\ AlongAxis(w) /\ Even(Plus(P(3), P(4))) /\ Span(w) % 2 = 0]
    IN  CASE c.kind = "Fixed" ->
                [moves |-> PutAt(ids[1], c.value), residual |-> Span(Minus(c.value, P(1))), exact |-> TRUE]
          [] c.kind = "Coincident" ->
                [moves |-> Later(PutAt(ids[1], middle1), PutAt(ids[2], middle1)), residual |-> Span(v), exact |-> Even(Plus(P(1), P(2)))]
          [] c.kind = "Horizontal" ->
                [moves |-> Later(PutAt(ids[1], <<P(1)[1], middle1[2]>>), PutAt(ids[2], <<P(2)[1], middle1[2]>>)),
                 residual |-> Abs(v[2]), exact |-> v[2] % 2 = 0]
          [] c.kind = "Vertical" ->
                [moves |-> Later(PutAt(ids[1], <<middle1[1], P(1)[2]>>), PutAt(ids[2], <<middle1[1], P(2)[2]>>)),
                 residual |-> Abs(v[1]), exact |-> v[1] % 2 = 0]
          [] c.kind = "Distance" ->
                LET diff == Span(v) - c.value
                    step == Times(Unit(v), diff \div 2)
                IN  [moves |-> Later(PutAt(ids[1], Plus(P(1), step)), PutAt(ids[2], Minus(P(2), step))),
                     residual |-> Abs(diff), exact |-> AlongAxis(v) /\ diff % 2 = 0]
          [] c.kind = "Parallel" -> Turn(Unit(v), 1 - Abs(Dot(Unit(w), Unit(v))))
          [] c.kind = "Perpendicular" -> Turn(<<-Unit(v)[2], Unit(v)[1]>>, Abs(Dot(Unit(w), Unit(v))))
          [] c.kind = "EqualLength" ->
                LET half == (Span(v) + Span(w)) \div 4
                IN  [moves |-> Later(Ends(ids[1], ids[2], middle1, Times(Unit(v), half)), Ends(ids[3], ids[4], middle2, Times(Unit(w), half))),
                     residual |-> Abs(Span(v) - Span(w)),
                     exact |-> AlongAxis(v) /\ AlongAxis(w) /\ (Span(v) + Span(w)) % 4 = 0 /\ Even(Plus(P(1), P(2))) /\ Even(Plus(P(3), P(4)))]
          [] c.kind = "EqualRadius" ->
                LET radius == (Span(v) + Span(w)) \div 2
                IN  [moves |-> Later(PutAt(ids[2], Plus(P(1), Times(Unit(v), radius))), PutAt(ids[4], Plus(P(3), Times(Unit(w), radius)))),
                     residual |-> Abs(Span(v) - Span(w)), exact |-> AlongAxis(v) /\ AlongAxis(w) /\ (Span(v) + Span(w)) % 2 = 0]
          [] c.kind = "PointOnCircle" ->
                LET rim == Minus(P(3), P(2))
                IN  [moves |-> PutAt(ids[1], Minus(P(2), Times(Unit(v), Span(rim)))),
                     residual |-> Abs(Span(v) - Span(rim)), exact |-> AlongAxis(v) /\ AlongAxis(rim)]

\* A mutation of Worst: the residual of the last constraint counts.
WorstLast(so_far, residual) == residual

Worst(so_far, residual) == IF residual > so_far THEN residual ELSE so_far

\* A sweep: every constraint sees where the ones before it put the points.
Sweep(p, list) ==
    FoldLeft(LAMBDA s, c :
                 LET r == Project(c, s.points)
                 IN  [points |-> Later(s.points, r.moves), residual |-> Worst(s.residual, r.residual), exact |-> s.exact /\ r.exact,
                      turned |-> s.turned \/ (r.residual = 0 /\ \E id \in DOMAIN r.moves : r.moves[id] # s.points[id])],
             [points |-> p, residual |-> 0, exact |-> TRUE, turned |-> FALSE], list)

\* solve(): sweeps until one meets nothing to correct.
Solved(p, list) ==
    FoldLeft(LAMBDA s, i : IF s.converged \/ ~s.exact THEN s
                           ELSE LET t == Sweep(s.points, list)
                                IN  [points |-> t.points, residual |-> t.residual, exact |-> t.exact, turned |-> t.turned,
                                     converged |-> t.exact /\ t.residual = 0],
             [points |-> p, residual |-> 1, exact |-> TRUE, turned |-> FALSE, converged |-> FALSE], [i \in 1..MaxIters |-> i])

--------------------------------------------------------------------------
SolverInit == points \in [VertexId -> Places] /\ constraints = <<>> /\ stats = NoStats

AddConstraint(c) == constraints' = Append(constraints, c) /\ stats' = NoStats /\ UNCHANGED points

MovePoint(id, to) == points' = [points EXCEPT ![id] = to] /\ stats' = NoStats /\ UNCHANGED constraints

Solve ==
    LET s == Solved(points, constraints)
    IN  /\ constraints # <<>>
        /\ s.exact
        /\ points' = [id \in VertexId |-> s.points[id]]
        /\ stats' = [residual |-> s.residual, converged |-> s.converged, turned |-> s.turned]
        /\ UNCHANGED constraints

SolverNext ==
    \/ \E c \in Constraints : AddConstraint(c)
    \/ \E id \in Dragged, to \in Places : MovePoint(id, to)
    \/ Solve

SolverSpec == SolverInit /\ [][SolverNext]_solverVars

--------------------------------------------------------------------------
Holds(c) ==
    LET P(k) == points[c.ids[k]]
        v == Minus(P(2), P(1))
        w == Minus(P(4), P(3))
    IN  CASE c.kind = "Fixed"         -> P(1) = c.value
          [] c.kind = "Coincident"    -> P(1) = P(2)
          [] c.kind = "Horizontal"    -> v[2] = 0
          [] c.kind = "Vertical"      -> v[1] = 0
          [] c.kind = "Distance"      -> Dot(v, v) = c.value * c.value
          [] c.kind = "Parallel"      -> v[1] * w[2] = v[2] * w[1]
          [] c.kind = "Perpendicular" -> Dot(v, w) = 0
          [] c.kind \in {"EqualLength", "EqualRadius"} -> Dot(v, v) = Dot(w, w)
          [] c.kind = "PointOnCircle" -> LET rim == Minus(P(3), P(2)) IN Dot(v, v) = Dot(rim, rim)

\* A sketch that the solver calls converged satisfies every constraint at the
\* places it was left at, whatever the order of the constraints, whatever they
\* did to each other's points and wherever the user dragged a point before
\* (constraint.rs:114, "0 = fully satisfied").
ConvergedMeansSolved == stats.converged => \A i \in DOMAIN constraints : Holds(constraints[i])

\* The same, but for the one step that breaks it: Parallel and Perpendicular
\* find nothing to correct in a segment that runs the opposite way or whose
\* reference has no length, and yet swap or join its ends (constraint.rs:213).
SolvedUnlessTurned == ~stats.turned => ConvergedMeansSolved
=============================================================================
