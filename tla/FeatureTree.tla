---------------------------- MODULE FeatureTree -----------------------------
(* The parametric model of the kernel: the tree of features with its          *)
(* topological evaluation (feature_tree.rs), the design table whose active    *)
(* configuration is applied to it (design_table.rs), and the manifest by      *)
(* which versions are compared (versioning/src/manifest.rs).                  *)
(*                                                                            *)
(* Geometry is left out: a feature is its kind, its parents and the numeric   *)
(* parameters a configuration can reach. What is drawn, its sketches, path    *)
(* and operator, matters to the manifest alone, and is any of Drawings there. *)
(* Text is a sequence of characters where the CSV form cuts it.               *)
EXTENDS Integers, Sequences, FiniteSets, SequencesExt

CONSTANTS
    FeatureId,   \* the ids that a call may name, 0..n
    Kinds,       \* the kinds of feature that are used
    Configs,     \* the configurations that are added: [name, params]
    Sketches,    \* sketches: sequences of [tag, flags, coords]
    Paths        \* paths of a sweep: sequences of numbers

VARIABLES
    features,   \* the features by id
    order,      \* their ids in history order
    next_id,
    configs,    \* the design table: a sequence of [name, params]
    active,     \* the index of the active configuration, 0 for none
    chosen      \* the configuration that was activated, if it still is

treeVars == <<features, order, next_id, configs, active, chosen>>

\* Per kind, its number of parents and its numeric parameters.
Shape(kind) ==
    CASE kind = "Extrude"   -> [parents |-> 0, params |-> {"height"}]
      [] kind = "Revolve"   -> [parents |-> 0, params |-> {"angle", "segments"}]
      [] kind = "Sweep"     -> [parents |-> 0, params |-> {}]
      [] kind = "Loft"      -> [parents |-> 0, params |-> {"height"}]
      [] kind = "Boolean"   -> [parents |-> 2, params |-> {}]
      [] kind = "Fillet"    -> [parents |-> 1, params |-> {"radius"}]
      [] kind = "Chamfer"   -> [parents |-> 1, params |-> {"distance"}]
      [] kind = "Transform" -> [parents |-> 1, params |-> {"tx", "ty", "tz", "rx", "ry", "rz"}]

Feature ==
    UNION {{[kind |-> kind, parents |-> ps, params |-> [name \in Shape(kind).params |-> 0]] :
               ps \in [1..Shape(kind).parents -> FeatureId]} : kind \in Kinds}

ASSUME FeatureTreeAssumption ==
    /\ IsFiniteSet(FeatureId) /\ FeatureId = 0..(Cardinality(FeatureId) - 1)
    /\ Kinds \subseteq {"Extrude", "Revolve", "Sweep", "Loft", "Boolean", "Fillet", "Chamfer", "Transform"}

--------------------------------------------------------------------------
(* Operations on the tree.                                                  *)

\* `after` is a sequence of at most one id; an unknown id appends.
AddFeature(feature, after) ==
    /\ next_id \in FeatureId
    /\ features' = [id \in DOMAIN features \cup {next_id} |-> IF id = next_id THEN feature ELSE features[id]]
    /\ LET at == IF after = <<>> THEN 0 ELSE SelectInSeq(order, LAMBDA id : id = after[1])
       IN  order' = IF at = 0 THEN Append(order, next_id) ELSE InsertAt(order, at + 1, next_id)
    /\ next_id' = next_id + 1
    /\ UNCHANGED <<configs, active, chosen>>

UpdateFeature(id, feature) ==
    /\ id \in DOMAIN features
    /\ features' = [features EXCEPT ![id] = feature]
    /\ UNCHANGED <<order, next_id, configs, active, chosen>>

\* retain(): what is left of a list without an id.
Retained(ids, id) == FoldLeft(LAMBDA kept, f : IF f = id THEN kept ELSE Append(kept, f), <<>>, ids)

\* Nothing is done about features that name the removed one.
RemoveFeature(id) ==
    /\ features' = [f \in DOMAIN features \ {id} |-> features[f]]
    /\ order' = Retained(order, id)
    /\ UNCHANGED <<next_id, configs, active, chosen>>

\* A mutation of Known: a parent is taken for known if an id of its was given out.
KnownOnce(p) == p < next_id

Known(p) == p \in DOMAIN features

\* Where topo_order() is. A call of visit() inside another is for an id that is
\* not in progress, so that calls are never deeper than Depth.
VisitState ==
    [visited : SUBSET FeatureId, progress : SUBSET FeatureId, result : Seq(FeatureId),
     error : {"", "MissingParent", "Cycle", "TooDeep"}]
Depth == Cardinality(FeatureId) + 1

\* A parent in the loop of visit(), which calls itself as `visit`.
VisitParent(visit, s, p) ==
    IF s.error # "" THEN s ELSE IF ~Known(p) THEN [s EXCEPT !.error = "MissingParent"] ELSE visit[p][s]

VisitParents(visit, s, parents) == FoldLeft(LAMBDA t, p : VisitParent(visit, t, p), s, parents)

\* The body of visit(): depth first, parents before the feature; `error` ends it.
VisitBody(visit, s, id) ==
    IF s.error # "" \/ id \in s.visited THEN s
    ELSE IF id \in s.progress THEN [s EXCEPT !.error = "Cycle"]
    ELSE LET done == VisitParents(visit, [s EXCEPT !.progress = @ \cup {id}],
                                  IF id \in DOMAIN features THEN features[id].parents ELSE <<>>)
         IN  IF done.error # "" THEN done
             ELSE [done EXCEPT !.progress = @ \ {id}, !.visited = @ \cup {id}, !.result = Append(@, id)]

Visit[depth \in 0..Depth] ==
    [id \in FeatureId |-> [s \in VisitState |->
        IF depth = 0 THEN [s EXCEPT !.error = "TooDeep"] ELSE VisitBody(Visit[depth - 1], s, id)]]

TopoOrder == FoldLeft(LAMBDA s, id : Visit[Depth][id][s], [visited |-> {}, progress |-> {}, result |-> <<>>, error |-> ""], order)

\* evaluate(): a solid is known by what went into it; a parent that has no
\* solid yet counts as the empty one.
Empty == <<>>
Solids ==
    LET Build(done, id) ==
            LET f == features[id]
                Input(p) == IF p \in DOMAIN done THEN done[p] ELSE Empty
            IN  [g \in DOMAIN done \cup {id} |->
                    IF g = id THEN <<id, f.params, [i \in DOMAIN f.parents |-> Input(f.parents[i])]>> ELSE done[g]]
    IN  FoldLeft(Build, <<>>, TopoOrder.result)

--------------------------------------------------------------------------
(* The design table. A key of a configuration is <<feature id, parameter>>. *)

\* The active index after a removal.
IndexAfter(index, removed) == IF index = removed THEN 0 ELSE IF index > removed THEN index - 1 ELSE index

AddConfig(config) ==
    /\ configs' = Append(configs, config)
    /\ UNCHANGED <<features, order, next_id, active, chosen>>

RemoveConfig(i) ==
    /\ i \in DOMAIN configs
    /\ configs' = RemoveAt(configs, i)
    /\ active' = IndexAfter(active, i)
    /\ chosen' = IF i = active THEN <<>> ELSE chosen
    /\ UNCHANGED <<features, order, next_id>>

SetActive(i) ==
    /\ i \in DOMAIN configs
    /\ active' = i
    /\ chosen' = <<configs[i]>>
    /\ UNCHANGED <<features, order, next_id, configs>>

ClearActive == active' = 0 /\ chosen' = <<>> /\ UNCHANGED <<features, order, next_id, configs>>

IsNumber(value) == value.type \in {"Float", "Int"}

\* apply_param(): every numeric parameter but "segments"; other values and
\* keys of features that are gone are passed over.
Overridden(tree, id, param, params) ==
    LET key == <<id, param>>
    IN  IF param # "segments" /\ key \in DOMAIN params /\ IsNumber(params[key]) THEN params[key].v
        ELSE tree[id].params[param]

Applied(tree, params) ==
    [id \in DOMAIN tree |-> [tree[id] EXCEPT !.params = [param \in DOMAIN @ |-> Overridden(tree, id, param, params)]]]

ApplyActive ==
    /\ active # 0
    /\ features' = Applied(features, configs[active].params)
    /\ UNCHANGED <<order, next_id, configs, active, chosen>>

\* extract_params() of all features.
Extracted(tree) ==
    [key \in UNION {{<<id, param>> : param \in DOMAIN tree[id].params} : id \in DOMAIN tree} |->
        [type |-> IF key[2] = "segments" THEN "Int" ELSE "Float", v |-> tree[key[1]].params[key[2]]]]

--------------------------------------------------------------------------
(* The table as CSV: lines of characters, a number or a Boolean being one.  *)
(* Left out: white space at the ends of a field, which is trimmed, and text   *)
(* with a line break, which cuts its row.                                     *)

Comma == ","
Quote == "\""

\* A mutation of Escaped: text is written as it is.
EscapedNot(text) == text

Doubled(text) == FlattenSeq([i \in DOMAIN text |-> IF text[i] = Quote THEN <<Quote, Quote>> ELSE <<text[i]>>])

Escaped(text) == IF Contains(text, Comma) \/ Contains(text, Quote) THEN <<Quote>> \o Doubled(text) \o <<Quote>> ELSE text

\* A number loses its type: 1.0 is written as 1.
Written(value) == IF IsNumber(value) THEN <<ToString(value.v)>> ELSE IF value.type = "Bool" THEN <<value.v>> ELSE Escaped(value.v)

\* What is read is a number if it can be, then a Boolean, then text.
Read(raw) ==
    CASE \E n \in 0..9 : raw = <<ToString(n)>> -> [type |-> "Float", v |-> CHOOSE n \in 0..9 : raw = <<ToString(n)>>]
      [] raw \in {<<"true">>, <<"false">>}     -> [type |-> "Bool", v |-> raw[1]]
      [] OTHER                                 -> [type |-> "Text", v |-> raw]

Keys == SetToSeq(UNION {DOMAIN configs[i].params : i \in DOMAIN configs})

Line(config, keys) ==
    config.name \o FlattenSeq([k \in DOMAIN keys |->
        <<Comma>> \o (IF keys[k] \in DOMAIN config.params THEN Written(config.params[keys[k]]) ELSE <<>>)])

StripQuotes(field) ==
    IF Len(field) >= 2 /\ field[1] = Quote /\ Last(field) = Quote THEN SubSeq(field, 2, Len(field) - 1) ELSE field

\* parse_csv_line(): quotes are toggled, fields cut at commas outside them.
ParseLine(line) ==
    LET Char(s, c) ==
            IF c = Comma /\ ~s.quoted THEN [s EXCEPT !.fields = Append(@, StripQuotes(s.field)), !.field = <<>>]
            ELSE [s EXCEPT !.field = Append(@, c), !.quoted = IF c = Quote THEN ~@ ELSE @]
        end == FoldLeft(Char, [fields |-> <<>>, field |-> <<>>, quoted |-> FALSE], line)
    IN  Append(end.fields, StripQuotes(end.field))

\* from_csv(), a line of it: an empty field is no parameter.
FromLine(line, keys) ==
    LET fields == ParseLine(line)
        present == {k \in DOMAIN keys : k + 1 \in DOMAIN fields /\ fields[k + 1] # <<>>}
    IN  [name |-> fields[1],
         params |-> [key \in {keys[k] : k \in present} |-> Read(fields[1 + CHOOSE k \in present : keys[k] = key])]]

--------------------------------------------------------------------------
(* The manifest: of every feature its id, kind and the hash of what it is,    *)
(* taken here for the sequence of bytes and numbers that is hashed.           *)

Bytes(bs)   == [i \in DOMAIN bs |-> <<"byte", bs[i]>>]
Numbers(ns) == [i \in DOMAIN ns |-> <<"number", ns[i]>>]

\* hash_sketch(), an entity: an arc is flagged after its points.
HashEntity(e) ==
    Bytes(<<e.tag>>) \o (IF e.tag = 2 THEN Numbers(e.coords) \o Bytes(e.flags) ELSE Bytes(e.flags) \o Numbers(e.coords))

HashSketch(sketch) == FlattenSeq([i \in DOMAIN sketch |-> HashEntity(sketch[i])])

\* What is drawn for a feature of a kind.
NoDrawing == [op |-> <<>>, sketches |-> <<>>, path |-> <<>>]
Drawings(kind) ==
    CASE kind \in {"Extrude", "Revolve"} -> {[NoDrawing EXCEPT !.sketches = <<s>>] : s \in Sketches}
      [] kind = "Sweep"   -> {[NoDrawing EXCEPT !.sketches = <<s>>, !.path = path] : s \in Sketches, path \in Paths}
      [] kind = "Loft"    -> {[NoDrawing EXCEPT !.sketches = <<s, t>>] : s, t \in Sketches}
      [] kind = "Boolean" -> {[NoDrawing EXCEPT !.op = <<tag>>] : tag \in 0..2}
      [] OTHER            -> {NoDrawing}

\* The numeric parameters in the order of the code.
ParamsOf(f) == SelectSeq(<<"height", "angle", "segments", "radius", "distance", "tx", "ty", "tz", "rx", "ry", "rz">>,
                         LAMBDA name : name \in DOMAIN f.params)

\* hash_feature()
HashFeature(f, drawing) ==
    << <<"kind", f.kind>> >> \o FlattenSeq([i \in DOMAIN drawing.sketches |-> HashSketch(drawing.sketches[i])])
    \o Numbers(drawing.path) \o Bytes(drawing.op) \o Numbers(f.parents)
    \o Numbers([i \in DOMAIN ParamsOf(f) |-> f.params[ParamsOf(f)[i]]])

\* manifest_from_tree(), with the drawings of the features.
Manifest(drawn) ==
    LET known == SelectSeq(order, LAMBDA id : id \in DOMAIN features)
    IN  [i \in DOMAIN known |-> [id |-> known[i], kind |-> features[known[i]].kind,
                                 param_hash |-> HashFeature(features[known[i]], drawn[known[i]])]]

--------------------------------------------------------------------------
TreeInit ==
    /\ features = <<>> /\ order = <<>> /\ next_id = 0
    /\ configs = <<>> /\ active = 0 /\ chosen = <<>>

TreeNext ==
    \/ \E f \in Feature, after \in {<<>>} \cup {<<id>> : id \in FeatureId} : AddFeature(f, after)
    \/ \E id \in FeatureId, f \in Feature : UpdateFeature(id, f)
    \/ \E id \in DOMAIN features : RemoveFeature(id)
    \/ \E c \in Configs : AddConfig(c)
    \/ \E i \in DOMAIN configs : RemoveConfig(i) \/ SetActive(i)
    \/ ClearActive
    \/ ApplyActive

TreeSpec == TreeInit /\ [][TreeNext]_treeVars

--------------------------------------------------------------------------
(* Correctness.                                                             *)

Needs(id) == Range(features[id].parents)

\* The features that some features need, however far: what every set has that has
\* these, and with a feature those that it needs.
Ancestors(ids) ==
    {a \in FeatureId : \A all \in SUBSET FeatureId :
        ids \subseteq all /\ (\A id \in all \cap DOMAIN features : Needs(id) \subseteq all) => a \in all}

Holes  == {id \in DOMAIN features : ~(Needs(id) \subseteq DOMAIN features)}
Cycles == {id \in DOMAIN features : id \in Ancestors(Needs(id))}

\* After any sequence of additions, changes and removals, evaluation answers
\* with an order of all features, parents first, if the graph has no cycle and
\* no hole, and names a real cycle or hole if not (feature_tree.rs:186, 232).
EvaluationIsSound ==
    LET topo == TopoOrder
    IN  /\ topo.error \in {"", "MissingParent", "Cycle"}
        /\ (topo.error = "") = (Holes \cup Cycles = {})
        /\ topo.error = "MissingParent" => Holes # {}
        /\ topo.error = "Cycle" => Cycles # {}
        /\ topo.error = "" =>
              /\ Range(topo.result) = DOMAIN features /\ Len(topo.result) = Cardinality(DOMAIN features)
              /\ \A i, j \in DOMAIN topo.result : topo.result[i] \in Needs(topo.result[j]) => i < j

\* The active configuration is the one that was activated, however the table
\* changes around it (design_table.rs:81).
ActiveIsChosen == IF active = 0 THEN chosen = <<>> ELSE active \in DOMAIN configs /\ chosen = <<configs[active]>>

\* What was extracted from the tree puts it back whatever configuration is
\* applied to it in between (design_table.rs).
ExtractedRestores == \A i \in DOMAIN configs : Applied(Applied(features, configs[i].params), Extracted(features)) = features

\* What a table comes back as from CSV. A number is floating-point, a text that
\* looks like a number or a Boolean is one, one without characters is not there,
\* and the quotes in a text are twice as many.
Unwritten(value) == value.type = "Text" /\ value.v = <<>>
Returned(value) ==
    CASE IsNumber(value)      -> [value EXCEPT !.type = "Float"]
      [] value.type = "Bool"  -> value
      [] value.type = "Text"  -> Read(Doubled(value.v))
ReturnedAll(config) ==
    [config EXCEPT !.params = [key \in {k \in DOMAIN @ : ~Unwritten(@[k])} |-> Returned(@[key])]]

\* A name is written as it is: one with a comma or a quote does not come back.
PlainName(config) == ~Contains(config.name, Comma) /\ ~Contains(config.name, Quote)

\* A table that is written and read has every configuration with a plain name,
\* each value in the column of its own key, as above (design_table.rs:206, 218,
\* 273, 315).
TableIsKept ==
    /\ ActiveIsChosen
    /\ LET keys == Keys IN \A i \in DOMAIN configs :
          PlainName(configs[i]) => FromLine(Line(configs[i], keys), keys) = ReturnedAll(configs[i])
    /\ ExtractedRestores

\* "Escape commas and quotes in text values": it should come back as it was, but
\* for the kind of number (design_table.rs:213). Not so: quotes are doubled by
\* to_csv() and not undoubled by from_csv(), names are not escaped at all, and
\* quoting a text does not keep it from being read as a number.
CsvKeepsTables ==
    LET keys == Keys IN \A i \in DOMAIN configs :
        FromLine(Line(configs[i], keys), keys) =
            [configs[i] EXCEPT !.params = [key \in DOMAIN @ |-> IF IsNumber(@[key]) THEN [@[key] EXCEPT !.type = "Float"] ELSE @[key]]]

\* An entry of the manifest tells its feature from every other of its kind, and
\* what is drawn for it from every other drawing, but for what nothing is hashed
\* between: the sketches of a loft, and a polyline that ends a sketch and the
\* path of the sweep (manifest.rs:7). The entries stand in the order of the history.
ManifestTells ==
    /\ [i \in DOMAIN order |-> Manifest([id \in DOMAIN features |-> NoDrawing])[i].id] = order
    /\ LET all == UNION {{[f |-> features[id], drawn |-> g, hash |-> HashFeature(features[id], g)] :
                             g \in Drawings(features[id].kind)} : id \in DOMAIN features}
       IN  \A p, q \in all : p.hash = q.hash =>
              /\ p.f = q.f
              /\ CASE p.f.kind = "Loft"  -> FlattenSeq(p.drawn.sketches) = FlattenSeq(q.drawn.sketches)
                   [] p.f.kind = "Sweep" -> p = q \/ \E s \in {p.drawn.sketches[1], q.drawn.sketches[1]} : s # <<>> /\ Last(s).tag = 3
                   [] OTHER              -> p = q

\* The table and the manifest keep what is in the tree: a configuration can be
\* applied and undone, its CSV file brings back every plainly named row with only
\* the losses that Returned lists, and the manifest of a version tells apart all
\* that ManifestTells does not except.
DesignIsKept == TableIsKept /\ ManifestTells
=============================================================================
