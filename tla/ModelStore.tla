----------------------------- MODULE ModelStore -----------------------------
(* The model of the browser (state/store.ts): the features, and two stacks of *)
(* snapshots for undo and redo; and the sketch editor that adds to it         *)
(* (state/sketchStore.ts, components/SketchEditor.tsx).                       *)
(*                                                                            *)
(* A feature's type and parameters are one value. Ids are made from the clock *)
(* in milliseconds and are fresh: `used` has the ids that were given. Points  *)
(* of a sketch are abstracted to whether the pointer has moved a unit away    *)
(* from where it was pressed, entities to the tools they were drawn with.     *)
EXTENDS Integers, Sequences, FiniteSets, Functions

CONSTANTS
    Feature,     \* ids of features
    Initial,     \* the ids of the features a session starts with
    Value,       \* contents of features
    Default,     \* the content of a feature that was just added
    MaxUndo,     \* bound on the snapshots kept
    MaxEntities  \* bound on the entities of a sketch

ASSUME StoreAssumption ==
    /\ Initial \subseteq Feature
    /\ Default \in Value
    /\ MaxUndo \in Nat /\ MaxEntities \in Nat

VARIABLES
    features, past, future, used,  \* the model
    open, tool, draft, entities    \* the sketch

model == <<features, past, future, used>>
sketch == <<open, tool, draft, entities>>

\* A list of features: their contents by id.
FeatureList == UNION {[D -> Value] : D \in SUBSET Feature}

Tool == {"select", "line", "circle"}

--------------------------------------------------------------------------
(* The model.                                                               *)

ModelInit ==
    /\ features = [f \in Initial |-> Default]
    /\ past = <<>> /\ future = <<>>
    /\ used = Initial

Pop(stack) == SubSeq(stack, 1, Len(stack) - 1)
Top(stack) == stack[Len(stack)]

\* A mutation of Edit: what was undone stays on the stack of redo.
EditOnly(new) ==
    /\ Len(past) < MaxUndo
    /\ past' = Append(past, features)
    /\ features' = new
    /\ UNCHANGED future

\* What every edit of the model does first: past.push, future.length = 0.
Edit(new) ==
    /\ Len(past) < MaxUndo
    /\ past' = Append(past, features)
    /\ future' = <<>>
    /\ features' = new

Extended(ids) == [f \in DOMAIN features \cup ids |-> IF f \in ids THEN Default ELSE features[f]]

AddFeature(id) ==
    /\ id \notin used
    /\ used' = used \cup {id}
    /\ Edit(Extended({id}))
    /\ UNCHANGED sketch

UpdateParam(id, value) ==
    /\ id \in DOMAIN features
    /\ Edit([features EXCEPT ![id] = value])
    /\ UNCHANGED <<used, sketch>>

\* The editor's button is disabled without entities. The sketch and the body
\* are added in one edit, and the editor is emptied and closed.
CommitSketch(sketchId, bodyId) ==
    /\ open /\ entities # <<>>
    /\ sketchId # bodyId /\ {sketchId, bodyId} \cap used = {}
    /\ used' = used \cup {sketchId, bodyId}
    /\ Edit(Extended({sketchId, bodyId}))
    /\ entities' = <<>> /\ draft' = "none" /\ open' = FALSE
    /\ UNCHANGED tool

Undo ==
    /\ past # <<>>
    /\ future' = Append(future, features)
    /\ features' = Top(past) /\ past' = Pop(past)
    /\ UNCHANGED <<used, sketch>>

Redo ==
    /\ future # <<>>
    /\ past' = Append(past, features)
    /\ features' = Top(future) /\ future' = Pop(future)
    /\ UNCHANGED <<used, sketch>>

--------------------------------------------------------------------------
(* The sketch editor. Pointer events reach it only while it is open.        *)

SketchInit == open = FALSE /\ tool = "line" /\ draft = "none" /\ entities = <<>>

OpenEditor == open' = TRUE /\ UNCHANGED <<tool, draft, entities, model>>

CloseEditor ==
    /\ open
    /\ open' = FALSE /\ draft' = "none"
    /\ UNCHANGED <<tool, entities, model>>

SetTool(t) ==
    /\ open
    /\ tool' = t /\ draft' = "none"
    /\ UNCHANGED <<open, entities, model>>

BeginPoint ==
    /\ open /\ tool # "select" /\ draft = "none"
    /\ draft' = "point"
    /\ UNCHANGED <<open, tool, entities, model>>

UpdateDraft(shape) ==
    /\ open /\ draft # "none"
    /\ draft' = shape
    /\ UNCHANGED <<open, tool, entities, model>>

\* A draft shorter than one unit is dropped.
CommitDraft ==
    /\ open /\ draft # "none"
    /\ draft' = "none"
    /\ IF draft = "point" THEN UNCHANGED entities
       ELSE /\ Len(entities) < MaxEntities
            /\ entities' = Append(entities, IF tool = "circle" THEN "circle" ELSE "line")
    /\ UNCHANGED <<open, tool, model>>

ClearSketch == open /\ entities' = <<>> /\ draft' = "none" /\ UNCHANGED <<open, tool, model>>

SketchStep ==
    \/ OpenEditor \/ CloseEditor \/ BeginPoint \/ CommitDraft \/ ClearSketch
    \/ \E t \in Tool : SetTool(t)
    \/ \E shape \in {"point", "drawn"} : UpdateDraft(shape)

ModelStep ==
    \/ \E id \in Feature : AddFeature(id)
    \/ \E id \in Feature, v \in Value : UpdateParam(id, v)
    \/ \E s, b \in Feature : CommitSketch(s, b)
    \/ Undo \/ Redo

--------------------------------------------------------------------------
(* Correctness.                                                             *)

ModelTypeOK ==
    /\ features \in FeatureList
    /\ past \in Seq(FeatureList) /\ future \in Seq(FeatureList)
    /\ used \in SUBSET Feature /\ DOMAIN features \subseteq used
    /\ open \in BOOLEAN /\ tool \in Tool
    /\ draft \in {"none", "point", "drawn"} /\ entities \in Seq({"line", "circle"})

\* Something is being drawn only in an open editor and with a tool that draws:
\* commitDraft() gives an entity the tool of the moment it ends, so a draft
\* that outlived its tool or its editor would become an entity never drawn.
DraftNeedsTool == draft # "none" => open /\ tool # "select"

\* Undo and redo walk a single line of states: what undo leaves, redo comes
\* back to, through any number of both, and an edit forgets what was undone.
Undoable == INSTANCE UndoHistory WITH
    State <- FeatureList,
    line <- [i \in 1..(Len(past) + 1 + Len(future)) |->
                IF i <= Len(past) THEN past[i]
                ELSE IF i = Len(past) + 1 THEN features
                ELSE future[Len(past) + 2 + Len(future) - i]],
    last <- Len(past) + 1 + Len(future),
    at <- Len(past) + 1
UndoWalksALine == Undoable!Spec
=============================================================================
