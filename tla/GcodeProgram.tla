---------------------------- MODULE GcodeProgram ----------------------------
(* A print job: its layers are planned (slice.rs), the plans are written as a *)
(* program (gcode.rs) for a printer whose profile may come from a preset      *)
(* (presets.rs), and the program is reviewed (gcode_validate.rs).             *)
(*                                                                            *)
(* A plan comes from the contours of a layer: walls (offset.rs), the fill of  *)
(* what is too thin for them (variable_width.rs), the seam (seam.rs), infill  *)
(* (infill.rs), the loop over the contours (slice.rs) and the order of the    *)
(* paths (path.rs). Contours are rectilinear polygons on an integer grid, so  *)
(* that offsets are exact: sequences of corners, without the first one again. *)
(* Scan lines of the infill run along y; the code turns them by 45 degrees.   *)
(*                                                                            *)
(* A command is a record of what it does. Heights and lengths are integers,   *)
(* 1 being the least bead height; filament is in units of a bead 1 wide and   *)
(* high and 1 long, so that an extrusion is width * height * distance.        *)
EXTENDS Integers, Sequences, FiniteSets, SequencesExt, FiniteSetsExt, Folds, Vectors

CONSTANTS
    Jobs,      \* [layers |-> <<[z, contours, tags, supports, stress]>>, settings]
    Printers,  \* [retraction, hop, maxZ, offsets |-> tool :> place, cooling]
    Presets,   \* sequences of lines [section, key, value]
    Width,     \* the extrusion width; its 20th part is the step of thin_wall_fill
    SampleSpacing  \* of the bridge detection

VARIABLES
    job,      \* what is printed
    printer,  \* the profile
    regions,  \* what is printed for each contour of the layer that was planned last
    plans,    \* a sequence of moves for each layer that is planned
    emitter,  \* what emit_gcode keeps from move to move
    gcode,    \* the program so far
    writing   \* "Planning", "Emitting", "Written"

programVars == <<job, printer, regions, plans, emitter, gcode, writing>>

--------------------------------------------------------------------------
(* The plan of a layer. *)
Cyclic(n, i) == ((i - 1) % n) + 1
Distance2(p, q) == Dot(Minus(p, q), Minus(p, q))

\* signed_area(), twice.
Area2(c) == FoldLeft(LAMBDA acc, i : acc + c[i][1] * c[Cyclic(Len(c), i + 1)][2] - c[Cyclic(Len(c), i + 1)][1] * c[i][2], 0, [i \in DOMAIN c |-> i])

OrientedCcw(c) == IF Area2(c) < 0 THEN Reverse(c) ELSE c

\* The outward normal of the side from p to q.
Outwards(p, q) == <<Sign(q[2] - p[2]), Sign(p[1] - q[1])>>

\* offset_contour(): each corner moves by the sum of the normals of its sides,
\* or by the one that they share.
Offset(c, d) ==
    [i \in DOMAIN c |->
        LET n1 == Outwards(c[Cyclic(Len(c), i + Len(c) - 1)], c[i])
            n2 == Outwards(c[i], c[Cyclic(Len(c), i + 1)])
        IN  Plus(c[i], Times(IF n1 = n2 THEN n1 ELSE Plus(n1, n2), d))]

\* walls_for(): insets by a half width, one and a half ..., up to the first one
\* that is too small. The area of one that has turned inside out is not.
WallsFor(c, count) ==
    LET inset(i) == Offset(OrientedCcw(c), -((Width * (2 * i - 1)) \div 2))
        small    == {i \in 1..count : Abs(Area2(inset(i))) < 2 * Width * Width}
    IN  [i \in 1..(IF small = {} THEN count ELSE Min(small) - 1) |-> inset(i)]

\* The march of thin_wall_fill(): on while the area shrinks.
RECURSIVE March(_, _)
March(c, d) ==
    LET step == Width \div 20
        next == Abs(Area2(Offset(c, -(d + step))))
    IN  IF next >= Abs(Area2(Offset(c, -d))) \/ next = 0 THEN d ELSE March(c, d + step)

Clamped(n, low, high) == IF n < low THEN low ELSE IF n > high THEN high ELSE n

\* thin_wall_fill(): one loop in the middle of what is left, as wide as that.
ThinWallFill(c, start, fraction) ==
    LET residual == 2 * (March(c, start) - start)
    IN  IF 100 * residual < Width * fraction THEN <<>>
        ELSE << [points |-> Offset(c, -((start + March(c, start)) \div 2)), width |-> Clamped(residual, (3 * Width) \div 10, 2 * Width)] >>

\* place_seam(): the corners from the one that is nearest, the first of two; or
\* from the sharpest one, the first where all corners are right ones.
PlaceSeam(c, seam) ==
    LET turns(i) == Outwards(c[Cyclic(Len(c), i + Len(c) - 1)], c[i]) # Outwards(c[i], c[Cyclic(Len(c), i + 1)])
        start == IF seam = <<>> THEN 1
                 ELSE IF seam[1] = "SharpestCorner" THEN Min({i \in DOMAIN c : turns(i)})
                 ELSE Min({i \in DOMAIN c : \A j \in DOMAIN c : Distance2(c[i], seam[2]) <= Distance2(c[j], seam[2])})
    IN  SubSeq(c, start, Len(c)) \o SubSeq(c, 1, start - 1)

\* Where the vertical at x meets the sides of a polygon, in order.
Crossings(c, x) ==
    SetToSortSeq({c[i][2] : i \in {j \in DOMAIN c : LET k == c[Cyclic(Len(c), j + 1)] IN c[j][2] = k[2] /\ (c[j][1] > x) # (k[1] > x)}}, <)

PointInPolygon(c, p) == Cardinality({k \in DOMAIN Crossings(c, p[1]) : Crossings(c, p[1])[k] > p[2]}) % 2 = 1

\* clip_line_to_polygon(): of the spans of a scan line that are inside, only the
\* first in its direction is a line.
Clip(c, x, flipped) ==
    LET ys == Crossings(c, x)
    IN  IF Len(ys) < 2 THEN <<>>
        ELSE IF flipped THEN << << <<x, ys[Len(ys)]>>, <<x, ys[Len(ys) - 1]>> >> >>
        ELSE << << <<x, ys[1]>>, <<x, ys[2]>> >> >>

\* generate_infill()
Infill(c, density, factor, zigzag) ==
    LET xs == {c[i][1] : i \in DOMAIN c}
        spacing == (Width * factor) \div density
    IN  FlattenSeq([k \in 1..((Max(xs) - Min(xs)) \div spacing + 1) |-> Clip(c, Min(xs) + (k - 1) * spacing, zigzag /\ k % 2 = 0)])

\* is_bridge(): nine tenths of the samples inside have nothing below, on a layer
\* that has something below.
IsBridge(c, below) ==
    LET xs == {c[i][1] : i \in DOMAIN c}
        ys == {c[i][2] : i \in DOMAIN c}
        samples == {p \in (Min(xs)..Max(xs)) \X (Min(ys)..Max(ys)) :
                       /\ (p[1] - Min(xs)) % SampleSpacing = SampleSpacing \div 2
                       /\ (p[2] - Min(ys)) % SampleSpacing = SampleSpacing \div 2
                       /\ PointInPolygon(c, p)}
        loose == {p \in samples : ~\E k \in DOMAIN below : PointInPolygon(below[k], p)}
    IN  below # <<>> /\ samples # {} /\ 10 * Cardinality(loose) >= 9 * Cardinality(samples)

--------------------------------------------------------------------------
\* BodyRole::wall_count() and infill_scale()
WallCount(role, n)   == IF role = "Structural" THEN Max({n, 3}) ELSE Clamped(n, 1, 2)
InfillScale(role, d) == IF role = "Structural" THEN Min({(d * 3) \div 2, 100}) ELSE (d * 3) \div 5

Path(points, tool, bridge, width) == [points |-> points, tool |-> tool, bridge |-> bridge, width |-> width]
Loop(c, tool, bridge, width)      == Path(IF Len(c) >= 3 THEN Append(c, c[1]) ELSE c, tool, bridge, width)

\* A contour in slice_solid_to_gcode(): the outer loop, the walls, and then the
\* fill of a thin region or else infill, denser where there is stress.
RegionPaths(c, below, tag, settings, stress) ==
    LET count  == WallCount(tag.role, settings.walls)
        bridge == settings.bridging /\ IsBridge(c, below)
        outer  == PlaceSeam(OrientedCcw(c), settings.seam)
        insets == WallsFor(outer, count)
        reach  == Max({0, (Width * (2 * Len(insets) - 1)) \div 2})
        thin   == IF settings.thin = 0 \/ Len(insets) >= count THEN <<>> ELSE ThinWallFill(outer, reach, settings.thin)
        walls  == <<outer>> \o insets
        density == IF stress = 0 THEN InfillScale(tag.role, settings.density) ELSE Min({100, Max({InfillScale(tag.role, settings.density), stress})})
        lines  == IF thin # <<>> \/ density = 0 THEN <<>> ELSE Infill(Last(walls), density, settings.factor, settings.zigzag)
    IN  [walls |-> [i \in DOMAIN walls |-> Loop(walls[i], tag.tool, bridge, Width)]
                   \o [i \in DOMAIN thin |-> Loop(thin[i].points, tag.tool, bridge, thin[i].width)],
         lines |-> [i \in DOMAIN lines |-> Path(lines[i], tag.tool, bridge, Width)]]

\* The tag of a region, with its role or the default one.
TagOf(layer, k, settings) ==
    IF k \notin DOMAIN layer.tags THEN [role |-> settings.role, tool |-> 0]
    ELSE [layer.tags[k] EXCEPT !.role = IF @ = "" THEN settings.role ELSE @]

\* What is printed for each contour of a layer.
RegionsOf(layer, below, settings) ==
    [k \in DOMAIN layer.contours |-> RegionPaths(layer.contours[k], below, TagOf(layer, k, settings), settings, layer.stress)]

\* The paths of a layer: the walls of all its contours, its supports, the infill.
LayerPaths(printed, supports) ==
    FlattenSeq([k \in DOMAIN printed |-> printed[k].walls]) \o supports \o FlattenSeq([k \in DOMAIN printed |-> printed[k].lines])

Travel(to)    == [kind |-> "Travel", to |-> to]
Extrude(path) == [kind |-> "Extrude", path |-> path]

\* The first of the paths that start nearest.
Nearest(paths, remaining, pos) ==
    Min({k \in DOMAIN remaining : \A j \in DOMAIN remaining : Distance2(paths[remaining[k]].points[1], pos) <= Distance2(paths[remaining[j]].points[1], pos)})

\* plan_layer(): from path to nearest path, with a travel if there is a way.
RECURSIVE Ordered(_, _, _)
Ordered(paths, remaining, pos) ==
    IF remaining = <<>> THEN <<>>
    ELSE LET k     == IF pos = <<>> THEN Nearest(paths, remaining, paths[remaining[1]].points[1]) ELSE Nearest(paths, remaining, pos)
             path  == paths[remaining[k]]
             moves == IF pos = <<>> \/ pos = path.points[1] THEN <<Extrude(path)>> ELSE <<Travel(path.points[1]), Extrude(path)>>
         IN  moves \o Ordered(paths, RemoveAt(remaining, k), Last(path.points))

PlanLayer(paths) == Ordered(paths, [i \in DOMAIN paths |-> i], <<>>)

--------------------------------------------------------------------------
(* The program. *)
FirstPosition == [e |-> 0, tool |-> 0, fan |-> -1, last |-> <<>>, lastZ |-> 0]

Command(op, value) == [op |-> op, value |-> value]
ExtrudeTo(to, e)   == [op |-> "G1E", value |-> to, e |-> e]
Header == <<Command("G90", 0), Command("M82", 0), Command("G21", 0), Command("M104", 0), Command("M140", 0), Command("G28", 0),
            Command("G1Z", 20), Command("M109", 0), Command("M190", 0)>>
Footer == <<Command("M107", 0), Command("M104", 0), Command("M140", 0), Command("G1Z", 30000), Command("M84", 0)>>

\* tool_offset()
OffsetOf(tool) == IF tool \in DOMAIN printer.offsets THEN printer.offsets[tool] ELSE <<0, 0>>
At(place, tool) == Plus(place, OffsetOf(tool))

Said(em, command) == [em EXCEPT !.text = Append(@, command)]

ChangeTool(em, tool) == IF em.tool = tool THEN em ELSE [Said(Said(em, Command("T", tool)), Command("M104", tool)) EXCEPT !.tool = tool]
SetFan(em, pct)      == IF em.fan = pct THEN em ELSE [Said(em, Command(IF pct = 0 THEN "M107" ELSE "M106", pct)) EXCEPT !.fan = pct]

\* A mutation of Travelled: the tool is changed when the extrusion starts.
TravelledFirst(em, move, z, tool) ==
    [em EXCEPT !.text = @ \o <<Command("G1e", em.e - printer.retraction), Command("G1Z", z + printer.hop), Command("G0", At(move.to, em.tool)),
                               Command("G1Z", z), Command("G1e", em.e)>>,
               !.last = move.to, !.lastZ = z]

\* A travel takes the tool of the extrusion that follows it, and then retracts,
\* hops, goes there, and undoes both.
Travelled(em, move, z, tool) ==
    LET at == ChangeTool(em, tool)
    IN  [at EXCEPT !.text = @ \o <<Command("G1e", em.e - printer.retraction), Command("G1Z", z + printer.hop), Command("G0", At(move.to, tool)),
                                   Command("G1Z", z), Command("G1e", em.e)>>,
                   !.last = move.to, !.lastZ = z]

\* The height of a bead is taken from the height of the move before it.
BeadHeight(em, z) == Max({1, Abs(z - em.lastZ)})

\* The i-th point of a path: nothing if it is where the one before is.
ToPoint(em, path, height, i) ==
    LET d == Span(Minus(path.points[i], path.points[i - 1]))
        e == em.e + path.width * height * d
    IN  IF d = 0 THEN em ELSE [Said(em, ExtrudeTo(At(path.points[i], em.tool), e)) EXCEPT !.e = e]

Extruded(em, path, z) ==
    LET ready == SetFan(ChangeTool(em, path.tool), IF path.bridge THEN 100 ELSE printer.cooling)
        there == IF em.last = path.points[1] THEN ready ELSE Said(ready, Command("G1", At(path.points[1], path.tool)))
        done  == FoldLeft(LAMBDA acc, i : ToPoint(acc, path, BeadHeight(em, z), i), there, [i \in 1..(Len(path.points) - 1) |-> i + 1])
    IN  [done EXCEPT !.last = Last(path.points), !.lastZ = z]

\* A layer of emit_gcode_calibrated()
LayerEmitted(em, moves, z) ==
    FoldLeft(LAMBDA acc, i :
                 IF moves[i].kind = "Travel" THEN Travelled(acc, moves[i], z, moves[i + 1].path.tool)
                 ELSE Extruded(acc, moves[i].path, z),
             [em EXCEPT !.text = <<Command("LAYER", z), Command("G1Z", z)>>], [i \in DOMAIN moves |-> i])

--------------------------------------------------------------------------
\* export_preset() and import_preset(): of the lines of a text, those with a
\* known section and key are taken, and later ones win.
ExportPreset(p) == << <<"printer", "max_z", p.maxZ>>, <<"firmware_retraction", "retract_length", p.retraction>>, <<"firmware_retraction", "lift_z", p.hop>> >>
ImportPreset(text, base) ==
    FoldLeft(LAMBDA p, line :
                 CASE line[1] = "printer" /\ line[2] = "max_z" -> [p EXCEPT !.maxZ = line[3]]
                   [] line[1] = "firmware_retraction" /\ line[2] = "retract_length" -> [p EXCEPT !.retraction = line[3]]
                   [] line[1] = "firmware_retraction" /\ line[2] = "lift_z" -> [p EXCEPT !.hop = line[3]]
                   [] OTHER -> p,
             base, text)

ProgramInit ==
    /\ job \in Jobs /\ printer \in Printers
    /\ regions = <<>> /\ plans = <<>> /\ emitter = FirstPosition /\ gcode = <<>> /\ writing = "Planning"

TakePreset(text) ==
    /\ writing = "Planning" /\ plans = <<>>
    /\ printer' = ImportPreset(text, printer)
    /\ UNCHANGED <<job, regions, plans, emitter, gcode, writing>>

\* A turn of the loop of slice_solid_to_gcode()
PlanNextLayer ==
    /\ writing = "Planning" /\ Len(plans) < Len(job.layers)
    /\ LET li == Len(plans) + 1
           below == IF li = 1 THEN <<>> ELSE job.layers[li - 1].contours
       IN  /\ regions' = RegionsOf(job.layers[li], below, job.settings)
           /\ plans' = Append(plans, PlanLayer(LayerPaths(regions', job.layers[li].supports)))
    /\ UNCHANGED <<job, printer, emitter, gcode, writing>>

StartProgram ==
    /\ writing = "Planning" /\ Len(plans) = Len(job.layers)
    /\ writing' = "Emitting" /\ gcode' = Header /\ plans' = plans
    /\ UNCHANGED <<job, printer, regions, emitter>>

LayersEmitted == Cardinality({i \in DOMAIN gcode : gcode[i].op = "LAYER"})

EmitLayer ==
    /\ writing = "Emitting" /\ LayersEmitted < Len(plans)
    /\ LET li == LayersEmitted + 1
           em == LayerEmitted([e |-> emitter.e, tool |-> emitter.tool, fan |-> emitter.fan, last |-> emitter.last, lastZ |-> emitter.lastZ, text |-> <<>>],
                              plans[li], job.layers[li].z)
       IN  emitter' = [f \in DOMAIN emitter |-> em[f]] /\ gcode' = gcode \o em.text
    /\ UNCHANGED <<job, printer, regions, plans, writing>>

EndProgram ==
    /\ writing = "Emitting" /\ LayersEmitted = Len(plans)
    /\ writing' = "Written" /\ gcode' = gcode \o Footer
    /\ UNCHANGED <<job, printer, regions, plans, emitter>>

ProgramNext == (\E text \in Presets \cup {ExportPreset(printer)} : TakePreset(text)) \/ PlanNextLayer \/ StartProgram \/ EmitLayer \/ EndProgram

--------------------------------------------------------------------------
\* validate_gcode(): what it finds. It knows no tool changes and checks no lower
\* bounds. (Modes other than absolute extrusion are not written.)
SupportedCodes == {"G0", "G1", "G1Z", "G1E", "G1e", "G21", "G28", "G90", "M82", "M104", "M109", "M140", "M190", "M106", "M107", "M84"}
Issues(text, limitZ) ==
    LET extrudes(c) == c.op \in {"G1E", "G1e"}
        e(c)        == IF c.op = "G1E" THEN c.e ELSE c.value
        first       == {i \in DOMAIN text : extrudes(text[i]) /\ \A j \in 1..(i - 1) : ~extrudes(text[j])}
    IN  {"Unsupported" : c \in {d \in ToSet(text) : d.op \notin SupportedCodes \cup {"T", "LAYER"}}}
        \cup {"NegativeExtrusion" : c \in {d \in ToSet(text) : extrudes(d) /\ e(d) < 0}}
        \cup {"OutOfBounds" : c \in {d \in ToSet(text) : d.op = "G1Z" /\ d.value > limitZ}}
        \cup {"MissingHome" : i \in {j \in first : ~\E k \in 1..(j - 1) : text[k].op = "G28"}}
        \cup (IF first = {} THEN {"NoExtrusion"} ELSE {})

\* What a printer does with a program, external to the code: it keeps where its
\* nozzle is, and lays down a bead from there to where an extrusion ends.
Executed(text) ==
    FoldLeft(LAMBDA m, c :
                 CASE c.op \in {"G0", "G1"} -> [m EXCEPT !.at = c.value]
                   [] c.op = "G1Z" -> [m EXCEPT !.z = c.value]
                   [] c.op = "T"   -> [m EXCEPT !.tool = c.value]
                   [] c.op \in {"M106", "M107"} -> [m EXCEPT !.fan = c.value]
                   [] c.op = "G1e" -> [m EXCEPT !.e = c.value]
                   [] c.op = "G1E" -> [m EXCEPT !.at = c.value, !.e = c.e,
                                                !.beads = Append(@, [from |-> m.at, to |-> c.value, z |-> m.z, tool |-> m.tool, fan |-> m.fan, e |-> c.e - m.e])]
                   [] OTHER -> m,
             [at |-> <<0, 0>>, z |-> 0, tool |-> 0, fan |-> 0, e |-> 0, beads |-> <<>>], text)

Paths(li) == LET ps == SelectSeq(plans[li], LAMBDA m : m.kind = "Extrude") IN [k \in DOMAIN ps |-> ps[k].path]
Beads(path, li) ==
    LET z      == job.layers[li].z
        height == z - IF li = 1 THEN 0 ELSE job.layers[li - 1].z
        steps  == SelectSeq([i \in 1..(Len(path.points) - 1) |-> i], LAMBDA i : path.points[i] # path.points[i + 1])
    IN  [k \in DOMAIN steps |->
            LET from == path.points[steps[k]]
                to   == path.points[steps[k] + 1]
            IN  [from |-> At(from, path.tool), to |-> At(to, path.tool), z |-> z, tool |-> path.tool,
                 fan |-> IF path.bridge THEN 100 ELSE printer.cooling, e |-> path.width * height * Span(Minus(to, from))]]
Planned == FlattenSeq([li \in DOMAIN plans |-> FlattenSeq([k \in DOMAIN Paths(li) |-> Beads(Paths(li)[k], li)])])
Places(beads) == [k \in DOMAIN beads |-> [f \in {"from", "to", "z", "tool", "fan"} |-> beads[k][f]]]

\* The tool changes where one path ends and the next one begins: the printer is
\* not told to go to where the other nozzle has to be.
InPlace(a, b) == a.tool # b.tool /\ Last(a.points) = b.points[1]
ToolStays ==
    LET all == FlattenSeq([li \in DOMAIN plans |-> Paths(li)])
    IN  \A k \in 1..(Len(all) - 1) : ~InPlace(all[k], all[k + 1])

\* The program that is written makes the printer lay down the beads of the plan
\* and no others, in its order: each from where the path starts, at the height
\* of its layer (no hop is left undone), with its tool, at the place of that
\* tool's nozzle, with its fan, and with filament; every path of the layer is
\* in its plan once; and the filament that was drawn back is given back
\* (path.rs:100, gcode.rs:173).
PrintedAsPlanned ==
    /\ writing = "Written" /\ ToolStays =>
          LET done == Executed(gcode)
              planned == Planned
          IN  /\ Places(done.beads) = Places(planned)
              /\ \A k \in DOMAIN done.beads : done.beads[k].e > 0
              /\ done.e = emitter.e
              /\ Issues(gcode, 30000) \subseteq {"NegativeExtrusion"} \cup (IF planned = <<>> THEN {"NoExtrusion"} ELSE {})
    /\ writing = "Planning" /\ plans # <<>> =>
          LET li    == Len(plans)
              paths == LayerPaths(regions, job.layers[li].supports)
          IN  \A p \in ToSet(paths) \cup ToSet(Paths(li)) :
                 Cardinality({k \in DOMAIN paths : paths[k] = p}) = Cardinality({k \in DOMAIN Paths(li) : Paths(li)[k] = p})

\* Each bead has the filament for its width and the height of its layer above
\* the one below (gcode.rs:227).
BeadsFillTheirLayer ==
    writing = "Written" =>
        LET laid == Executed(gcode).beads
            planned == Planned
        IN  \A k \in DOMAIN laid : laid[k].e = planned[k].e
=============================================================================
