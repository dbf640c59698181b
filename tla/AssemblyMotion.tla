--------------------------- MODULE AssemblyMotion ---------------------------
(* An assembly of parts, its mates and their relaxation (kernel assembly.rs), *)
(* and the player that drives a joint through a motion study                  *)
(* (simulation motion.rs).                                                    *)
(*                                                                            *)
(* A pose is a position on an integer grid and a number of quarter turns      *)
(* about Z, so AxisAligned has nothing to turn and is left out; halving is    *)
(* followed while it is exact, and the tolerance is 0.                        *)
EXTENDS Integers, Sequences, FiniteSets, SequencesExt, Vectors

CONSTANTS
    PartId,       \* the parts that are added
    Mates,        \* the mates that are added: [kind, a, b, value, limits]; a joint moves b relative to a
    Ranges,       \* the ranges that a player scrubs: <<start, end>>
    MaxSolves     \* bound: the calls of solve_mates

\* A part is named, by a number that is not 0; a cylindrical joint has no limits.
ASSUME AssemblyAssumption ==
    /\ 0 \notin PartId
    /\ \A m \in Mates :
          /\ m = [kind |-> m.kind, a |-> m.a, b |-> m.b, value |-> m.value, limits |-> m.limits]
          /\ m.kind \in {"Coincident", "Offset", "Revolute", "Slider", "Cylindrical"} /\ {m.a, m.b} \subseteq PartId
          /\ m.kind = "Offset" => m.value \in Int \X Int \X Int
          /\ m.kind \notin {"Coincident", "Offset"} => m.value \in Int
          /\ IF m.kind = "Cylindrical" THEN m.limits = <<>> ELSE m.limits = <<>> \/ m.limits \in Int \X Int
    /\ Ranges \subseteq Int \X Int

VARIABLES
    pose,         \* the transform of every part: [at, turn]
    mates,
    residual,     \* the answer of the last solve_mates, -1 before or after a change
    player,       \* none, or its [part, start, end, current], and the frames it has shown
    rest,         \* the poses when the player was made
    solves

assemblyVars == <<pose, mates, residual, player, rest, solves>>

MateSweeps == 4    \* bound: the code's 60 sweeps

\* A vector after a number of quarter turns about Z.
Turned(v, turn) ==
    CASE turn % 4 = 0 -> v
      [] turn % 4 = 1 -> <<-v[2], v[1], v[3]>>
      [] turn % 4 = 2 -> <<-v[1], -v[2], v[3]>>
      [] turn % 4 = 3 -> <<v[2], -v[1], v[3]>>

Joints == {"Revolute", "Slider", "Cylindrical"}

\* A mutation of ClampLimits: limits the other way round are applied as well.
ClampAlways(value, limits) == IF limits = <<>> THEN value ELSE IF value < limits[1] THEN limits[1] ELSE IF value > limits[2] THEN limits[2] ELSE value

ClampLimits(value, limits) ==
    IF limits = <<>> \/ limits[2] < limits[1] THEN value
    ELSE IF value < limits[1] THEN limits[1] ELSE IF value > limits[2] THEN limits[2] ELSE value

\* apply_joint_rotation(): about Z through the base's origin, on top of the
\* pose that the mover has.
JointRotation(p, base, mover, turn) ==
    LET anchor == p[base].at
    IN  [p EXCEPT ![mover] = [at |-> Plus(Turned(Minus(@.at, anchor), turn), anchor), turn |-> (@.turn + turn) % 4]]

\* apply_joint_translation(): along the base's axis, from where the mover is.
JointTranslation(p, base, mover, axis, offset) ==
    LET along == Turned(axis, p[base].turn)
    IN  [p EXCEPT ![mover].at = Plus(@, [i \in 1..3 |-> along[i] * offset])]

\* apply_mate(): the poses after it, the residual before it.
ApplyMate(p, m) ==
    CASE m.kind = "Coincident" ->
            LET mid == Half(Plus(p[m.a].at, p[m.b].at))
            IN  [pose |-> [p EXCEPT ![m.a].at = mid, ![m.b].at = mid], residual |-> Span(Minus(p[m.a].at, p[m.b].at)),
                 exact |-> Even(Plus(p[m.a].at, p[m.b].at))]
      [] m.kind = "Offset" ->
            LET target == Plus(p[m.b].at, m.value)
            IN  [pose |-> [p EXCEPT ![m.a].at = target], residual |-> Span(Minus(target, p[m.a].at)), exact |-> TRUE]
      [] m.kind = "Revolute" ->
            [pose |-> JointRotation(p, m.a, m.b, ClampLimits(m.value, m.limits)), residual |-> 0, exact |-> TRUE]
      [] m.kind = "Slider" ->
            [pose |-> JointTranslation(p, m.a, m.b, <<1, 0, 0>>, ClampLimits(m.value, m.limits)), residual |-> 0, exact |-> TRUE]
      [] m.kind = "Cylindrical" ->
            [pose |-> JointTranslation(JointRotation(p, m.a, m.b, m.value), m.a, m.b, <<0, 0, 1>>, m.value), residual |-> 0, exact |-> TRUE]

\* solve_mates(): sweeps over the mates until one finds no residual.
MatesSolved(p, list) ==
    LET Sweep(s) ==
            FoldLeft(LAMBDA t, m : LET r == ApplyMate(t.pose, m)
                                   IN  [pose |-> r.pose, residual |-> IF r.residual > t.residual THEN r.residual ELSE t.residual, exact |-> t.exact /\ r.exact],
                     [s EXCEPT !.residual = 0], list)
    IN  FoldLeft(LAMBDA s, i : IF s.residual = 0 \/ ~s.exact THEN s ELSE Sweep(s),
                 [pose |-> p, residual |-> 1, exact |-> TRUE], [i \in 1..MateSweeps |-> i])

\* set_drive(): of every joint that moves the part; a cylindrical one is
\* turned and moved by the same value.
Driven(list, part, value) ==
    [i \in DOMAIN list |-> IF list[i].kind \in Joints /\ list[i].b = part THEN [list[i] EXCEPT !.value = value] ELSE list[i]]

--------------------------------------------------------------------------
NoPlayer == [part |-> 0, start |-> 0, end |-> 0, current |-> 0, frames |-> 0]

AssemblyInit ==
    /\ pose = [p \in PartId |-> [at |-> <<0, 0, 0>>, turn |-> 0]]
    /\ mates = <<>> /\ residual = -1
    /\ player = NoPlayer /\ rest = pose
    /\ solves = 0

PlacePart(p, at) == pose' = [pose EXCEPT ![p].at = at] /\ residual' = -1 /\ UNCHANGED <<mates, player, rest, solves>>

AddMate(m) == mates' = Append(mates, m) /\ residual' = -1 /\ UNCHANGED <<pose, player, rest, solves>>

SolveAll(list) ==
    LET s == MatesSolved(pose, list)
    IN  /\ solves < MaxSolves
        /\ s.exact
        /\ pose' = s.pose
        /\ residual' = s.residual
        /\ mates' = list
        /\ solves' = solves + 1

SolveMates == player = NoPlayer /\ SolveAll(mates) /\ UNCHANGED <<player, rest>>

\* MotionPlayer::new(), which takes the assembly over.
NewPlayer(part, range) ==
    /\ player = NoPlayer
    /\ player' = [part |-> part, start |-> range[1], end |-> range[2], current |-> range[1], frames |-> 0]
    /\ rest' = pose
    /\ residual' = -1
    /\ UNCHANGED <<pose, mates, solves>>

\* frame_at(): at t halves of the range.
FrameAt(t) ==
    LET value == player.start + (t * (player.end - player.start)) \div 2
    IN  /\ player # NoPlayer
        /\ player' = [player EXCEPT !.current = value, !.frames = @ + 1]
        /\ SolveAll(Driven(mates, player.part, value))
        /\ UNCHANGED rest

\* step(): half of the range further, to its end at most.
StepHalf ==
    /\ player # NoPlayer /\ player.start # player.end
    /\ LET t == (2 * Abs(player.current - player.start)) \div Abs(player.end - player.start) + 1 IN FrameAt(IF t > 2 THEN 2 ELSE t)

AssemblyNext ==
    \/ \E p \in PartId, at \in {<<8, 0, 0>>, <<0, 8, 0>>} : player = NoPlayer /\ PlacePart(p, at)
    \/ \E m \in Mates : player = NoPlayer /\ AddMate(m)
    \/ SolveMates
    \/ \E p \in PartId, r \in Ranges : NewPlayer(p, r)
    \/ \E t \in 0..2 : FrameAt(t)
    \/ StepHalf

AssemblySpec == AssemblyInit /\ [][AssemblyNext]_assemblyVars

--------------------------------------------------------------------------
MateHolds(m) ==
    CASE m.kind = "Coincident" -> pose[m.a].at = pose[m.b].at
      [] m.kind = "Offset"     -> pose[m.a].at = Plus(pose[m.b].at, m.value)
      [] OTHER                 -> TRUE

Movers == {mates[i].b : i \in {i \in DOMAIN mates : mates[i].kind \in Joints}}

Nearest(value, limits) ==
    IF limits = <<>> \/ limits[1] > limits[2] THEN value
    ELSE CHOOSE v \in limits[1]..limits[2] : \A w \in limits[1]..limits[2] : Abs(v - value) <= Abs(w - value)

\* Where a joint puts its mover: its resting pose, driven once.
Posed(m, value) ==
    LET v == Nearest(value, m.limits)
    IN  CASE m.kind = "Revolute"    -> JointRotation(rest, m.a, m.b, v)
          [] m.kind = "Slider"      -> JointTranslation(rest, m.a, m.b, <<1, 0, 0>>, v)
          [] m.kind = "Cylindrical" -> JointTranslation(JointRotation(rest, m.a, m.b, v), m.a, m.b, <<0, 0, 1>>, v)

\* A motion study of one joint: no other mates, and the player drives its mover.
Study == player # NoPlayer /\ Len(mates) = 1 /\ mates[1].kind \in Joints /\ mates[1].b = player.part

\* A residual of 0 means that the positional mates hold, for the parts that no
\* joint moves (a joint moves its part and answers 0), and the first frame of
\* a study, which is all that the desktop asks of a player (main.rs:473), is
\* the joint's resting pose driven once, within its limits.
MatesHold ==
    /\ residual = 0 => \A i \in DOMAIN mates : MateHolds(mates[i]) \/ {mates[i].a, mates[i].b} \cap Movers # {}
    /\ Study /\ player.frames = 1 => pose = Posed(mates[1], player.current)

\* Every frame of a study is a pose that follows from the drive, whatever was
\* played before (motion.rs:53, "`t = 0` maps to `start`, `t = 1` to `end`").
PoseFollowsDrive == Study /\ player.frames > 0 => pose = Posed(mates[1], player.current)
=============================================================================
