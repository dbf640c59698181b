# Verification of TPT Vertex

TLA+ specifications of TPT Vertex, a collaborative parametric CAD program, with
TLC configurations that model-check them on small instances and theorems that
TLAPS proves for every value of the constants. Every definition is translated
from the source; `PROJECT.json` maps each one to the lines it stands for. A
comment that begins "A mutation of" marks an operator that no specification
uses: it is the definition after it with a plausible mistake, kept to show that
the properties tell the two apart.

Contents: [the system](#the-system), [the modules](#the-modules), [what the runs
show](#what-the-runs-show), [what is proved](#what-is-proved), [where the code
and its documentation disagree](#where-the-code-and-its-documentation-disagree),
[what is not modelled](#what-is-not-modelled), [the plan](#the-plan).

## The system

Vertex is a CAD program in three layers. The browser (or the desktop shell)
keeps a model; a kernel of Rust crates turns the model into a solid; and what
takes a solid (slicer, simulation, manufacturing, renderer) turns it into a
program for a printer, an analysis, a file or a picture. Beside them a
collaboration server keeps documents that several people edit, a platform keeps
people and permissions, and the desktop process keeps printers.

| Part | State it keeps | Operations | Talks to |
| --- | --- | --- | --- |
| CRDT document (`collab/src/crdt.rs`, `clock.rs`) | features: LWW registers for kind, position and parameters, add tags, tombstones; a hybrid clock per replica | add, remove, set parameter, set position, apply, merge, receive | wrapped by the session and by the hub |
| Session (`collab/src/wasm.rs`) | a document, a clock, pending operations | local edits, folding server messages | the client, through JSON |
| Client (`frontend/src/collab/client.ts`) | socket, status, offline queue, reconnect timer, peers, level | connect, disconnect, sendOps, cursor, setAccess, callbacks | the server, over a WebSocket |
| Server (`collab/src/bin/sync_server.rs`) | a sender per connection, the hub behind a lock | accept, read, handle, dispatch, end of stream | clients, the hub |
| Hub (`collab/src/server.rs`, `presence.rs`, `protocol.rs`) | per room: document, members with levels, presence; the room of each connection | Join, Ops, Presence, SetAccess, Resync, Leave, disconnect | answers are returned to the server |
| Version repository (`versioning/src`) | commits by content, branches, HEAD, current branch | create_branch, checkout, commit, merge, commit_merge | manifests of the feature tree |
| Version store (`frontend/src/state/versionStore.ts`) | commits, branches, conflicts | commit, createBranch, checkout, merge, resolveConflict, applyMerge | reads and writes the model store |
| Model and sketch store (`store.ts`, `sketchStore.ts`) | features, undo and redo stacks, the sketch being drawn | addFeature, commitSketch, updateParam, undo, redo | each other, the views |
| Saved printers (`desktop/src-tauri/src/printer.rs`, `printer-link/src/keychain.rs`) | a JSON file of targets, keys in the OS keychain | list (and migrate), save, delete, keys | the panels, whose calls it answers one by one |
| Print session (`SlicerPanel.tsx`, `PrinterSetupWizard.tsx`, `PrinterPanel.tsx`, `printer-link/src`) | slice result, stream progress, wizard step | slice, send, stream, test, back, finish | awaits commands of the desktop process, which speak HTTP to a printer |
| Platform (`platform/src`) | users, sessions, organizations, teams, projects, grants | sign up, log in and out, share, permission_for | levels have the names the hub uses |
| Feature tree, design table (`tpt-vertex-kernel/src`) | features in order, active configuration | add, update, remove, evaluate; add, remove, apply, CSV | kernel geometry; manifests for versioning |
| Kernel geometry (`tpt-vertex-kernel/src/geometry`) | none: a solid in, a solid out | sketch features, booleans, healing, edges, chamfers and fillets, the constraint solver | the feature tree |
| Assembly and motion (`assembly.rs`, `motion.rs`) | poses, mates, a player | solve, set_drive, add, play, step | the renderer, the clash check |
| Slicer (`tpt-vertex-slicer/src`) | none between calls; an emitter within one | repair, layers, supports, walls, infill, plan, emit, review | takes a solid |
| Simulation (`tpt-vertex-simulation/src`) | none between calls; load and iteration state within one | mesh, refine, find contacts, solve in steps | takes solids |
| Manufacturing (`manufacturing/src`) | none | STEP, tool paths, flat patterns | takes a solid |
| Renderer (`renderer/src`) | uploaded meshes and instances, highlighted node, camera | upload, highlight, cull, pick, camera moves | an assembly |

What is hard in it, and what makes each part correct:

* **Document.** Operations arrive in any order, repeatedly, late, or inside a
  snapshot. Correct means: the document is a function of the set of operations
  learnt; a remove affects the adds its author had seen and no other; clocks
  never tie; the winner of a register is never a value its rival had seen.
* **Hub, server and client.** One task per connection, two locks that are taken
  one after the other, a reconnect that overlaps the connection it replaces,
  frames queued offline, written to a dead socket, or dispatched in another
  order than they were handled. Correct means: no gap between a snapshot and the
  stream of edits after it, membership and presence that match the connections
  that exist, accepted edits that reach every member in the end, and edits that
  are not lost.
* **Client sockets.** Callbacks of an old socket run after the next one was made
  and act on `this.socket`; a timer races calls of the user. Correct means: one
  session over one socket, each begun by a Join, nothing vanishing in the
  client, every outage ending, and disconnect being final.
* **Versions.** Long sequences of branches, checkouts, edits, undos and merges;
  HEAD kept beside the branch it belongs to; hand-written walks over a history
  with merges; a merge that writes a store with an undo history of its own.
  Correct means: nothing that was committed on a branch leaves it, merge bases
  and conflicts are what the history says, and undo comes back to what it left.
* **Printers.** The commands of the desktop process are synchronous and run on
  its main thread, one after the other; but an action of the user is a chain of
  them, the chains of two dialogs interleave at every await, answers come after
  the user moved on, a key and its record are written one after the other, and
  requests to a printer are lost before or after they are served. Correct means:
  a key never outlives its record or is dropped while moved, the panel shows
  what is saved, layers reach a printer in order and once.
* **People.** Text that is put together and cut again, grants of three kinds
  through teams and memberships that come and go.
* **Kernel, slicer, simulation, manufacturing.** Long chains of steps over
  lists and maps where a late step relies on what an early one left: features
  that refer to removed ones, faces in one plane, edges that one side of a
  boolean split and the other did not, sweeps that undo each other, cuts stitched
  in whatever order faces come, an emitter that carries its place from path to
  path, elements split beside others that are not, a solver that gives up within
  a step. Correct means what a result has to be whatever the order: a
  solid's boundary closes up and bounds the right set, a contour is a loop, an
  overhang is held, a program lays down its plan, a mesh conforms.
* **Renderer.** What is on the GPU, what is highlighted and what the scene says
  are kept apart and updated apart; culling and picking invert the camera.

The hazards, each at its line with the properties that cover it, are listed in
`PROJECT.json`; hazards that no property covers are in [the plan](#the-plan).

## The modules

Every component has a module with its state, one action per operation, and the
properties about it. Components that share state are composed: `SyncSystem`
EXTENDS the hub and the server; `VersionStore` EXTENDS the model store;
`SlicerSession` EXTENDS the saved printers. Components that share none, and only
hand a finished result on, are checked in one run without being composed:
`MCRecords`, `MCModeling` and `MCFabrication` have a variable `machine` that
says which of them a behaviour is about, the others rest, and what one component
hands to another is a set of instances (`SomeSolids`, `SomeJobs`, ...). Some
properties are conjunctions of named parts that belong to one question; the
parts are stated one by one in the module.

### Document and replicas

| Module | Models |
| --- | --- |
| `CrdtDoc` | `clock.rs`: tick, observe, the lexicographic order with the replica id last; `crdt.rs`: registers, `apply` for the four operations, `merge`; and the reference definition, the document a *set* of operations stands for |
| `OpSetDoc` | the abstract specification: nodes issue and learn operations, documents are `Meaning` of what was learnt |
| `LocalReplicas` | replicas and the hub's document over a network that delivers anything in any order, repeatedly or never, and snapshots; implements `OpSetDoc` |

A register is a set with at most one write, so that "never written" needs no
special value. A document is its set of known keys and a total function from
keys to feature states. A key, `(replica << 32) + n` in the code, is the pair.
`past` and `learnt` are history variables: they record the causal past of each
operation and what each node has learnt, and no action reads them.
`LocalReplica` passes 0 as the wall clock (`crdt.rs:320`), so `Tick(clock, 0)`
is what the code runs. `SetPosition` and re-adds have no method of
`LocalReplica`; they are operations a peer can send, and the tests of `crdt.rs`
build them.

### Collaboration over connections

| Module | Models |
| --- | --- |
| `SyncHub` | `server.rs`: each message as an action on rooms, members, presence, levels |
| `SyncServer` | `sync_server.rs`: a task per connection, with a step for handling under the hub lock and another for dispatching under the peers lock |
| `SyncSystem` | clients, sockets, server and hub together; the client of `client.ts` with one socket at a time |
| `CollabClient` | the overlapping sockets, calls and timers of one client |

In `SyncSystem` a document is the set of operations in it: `LocalReplicas`
shows, and `Convergence` is proved, that this is all that tells documents apart.
The five states of a task are the points of `serve_conn` where another task can
run: *reading*, *dispatching* (the hub lock released, the peers lock not yet
taken), *leaving* and *closing* (the same after the end of the stream), *done*.
What `handle` returned waits in `outbound[c]`. A socket is *open*, *closed* (the
client ended it; what was sent is delivered) or *broken* (it delivers any part
of what it holds, and both ends notice in their own time). `SyncSystem` calls
`connect()` again only after the close of the last socket was seen;
`CollabClient` drops that assumption, and its `OneSocket` says when it is right.
`MCSyncSystem` runs both, one at a time (`machine`): they share no state, and
nothing that fairness asks for can happen in the one that rests.

### Versions

| Module | Models |
| --- | --- |
| `VersionRepo` | `repo.rs`, `diff.rs`, manifests: every operation of `Repository`, with the depth-first walk of `ancestors` step by step |
| `VersionHistory` | the abstract specification: branches only move forward, and only while they are worked on; implemented by `VersionRepo` and by `VersionStore` |
| `ModelStore` | `store.ts`, `sketchStore.ts`: every edit, undo, redo, and the sketch editor with its drafts |
| `UndoHistory` | the abstract specification: one line of states and a position on it; implemented by `ModelStore` and, through it, `VersionStore` |
| `VersionStore` | `versionStore.ts` over `ModelStore`: commit, branches, checkout, merge with its breadth-first base, conflicts, applyMerge |

A commit's id in `VersionRepo`, the SHA-256 of its content, is the position of
the commit in a sequence without duplicates: equal content has one id, as in the
code, and collisions do not exist. A manifest is a map from features to
parameter hashes; the order of its entries and the message are a `Label`, which
only the id depends on. `checkout` of an unknown branch and `commit_merge` of an
unknown commit answer an error and change nothing; they are not steps.

In the stores of the browser a feature's type and parameters are one value, a
sketch is the list of its entities' tools and the drafts of the tool that is
held. An edit after an undo drops the redone states, a merge writes the features
without a snapshot: that is what `Overwrite` of `UndoHistory` allows and nothing
else does.

### Printers and people

| Module | Models |
| --- | --- |
| `SavedPrinters` | `printer.rs`, `keychain.rs`, `PrinterPanel.tsx`, `PrinterSetupWizard.tsx`: commands, file, keychain, the two dialogs and the queue of calls that wait for an answer; faults and restarts |
| `SlicerSession` | `SlicerPanel.tsx`, `slicer.ts` over `SavedPrinters`: slice, send, stream layer by layer, close and open again; and the clients of `printer-link`, what each command asks of a printer, request by request, with the request or its answer lost |
| `PrinterStatus` | `client.rs`, `discovery.rs` and the three clients of `printer-link`: scan, connect, status, pause, resume, cancel; what `telemetry.rs` and `feedback.rs` make of a series of readings |
| `Workspace` | `platform/src`: accounts, sessions, organizations, teams, one project and its grants |

`calls` is the queue of calls whose command has not run: taking its head is
running the command *and* what the page does after its `await`, while the user
acts at any time in between. `faulty` says whether a
call failed or the process ended before now.
A printer (`device`) is external: a file in storage, the one selected, what runs,
and the chunks it was fed; a request is served or not, and the caller sees
success only if the answer came back too.

### Kernel

| Module | Models |
| --- | --- |
| `FeatureTree` | `feature_tree.rs`, `design_table.rs`: add, update, remove, the topological evaluation with its errors; configurations, CSV; the manifest (`manifest.rs`) by which versions are compared |
| `BooleanSolids` | `csg_bsp.rs`: union, difference, intersection by partition trees, in the plane |
| `FacetedMesh` | `features.rs`, `edges.rs`, `csg_bsp.rs`: extrusion, revolution, loft; edges and their kinds; healing of T-junctions |
| `EdgeRounding` | `edges.rs`: choice of edges, tools, batches with disjoint bounds, budgets, refused booleans |
| `SketchSolver` | `constraint.rs`: sweeps of projections over the constraints |
| `AssemblyMotion` | `assembly.rs`, `motion.rs`: mates, their relaxation, the player that drives a joint |
| `Vectors` | `math/vec.rs` over integers |

### What takes a solid

| Module | Models |
| --- | --- |
| `MeshLayers` | `repair.rs`, `layers.rs`, `adaptive.rs`: repair, planes, cuts, stitching |
| `LayerSupports` | `support.rs`, `tree_support.rs`: overhangs, pillars, trunks and their groups |
| `GcodeProgram` | `offset.rs`, `variable_width.rs`, `seam.rs`, `infill.rs`, `slice.rs`, `path.rs`: from contours to an ordered plan; `gcode.rs`, `presets.rs`, `gcode_validate.rs`: from plans to a program, and its review |
| `TetMeshes` | `mesh.rs`, `adaptivity.rs`: lattice mesh and refinement |
| `ClashDetection` | `contact.rs`: boxes, triangle distances, parts that clash as they move |
| `ContactCoupling` | `contact_fea.rs`: which nodes are held by which faces, and the result split per mesh; `nonlinear.rs`, `plasticity.rs`: load steps, iterations, yielding |
| `StepFile` | `step.rs`: write and read |
| `SheetWork` | `cam.rs`, `sheet_metal.rs`: outlines, offsets, pockets, drilling, flat patterns |
| `SceneView` | `scene.rs`, `renderer.rs`, `camera.rs`, `culling.rs`, `picking.rs`: upload, highlight, camera, culling, pick |

Numbers are the abstraction here. Geometry is on integer grids chosen so that
the code's divisions are exact (each module's header names its grid); a test
against a tolerance is the exact test it stands for; a length is exact along an
axis, and modules avoid or bound it elsewhere. What this leaves is the control:
which list is walked in what order, what is split, kept, skipped or refused. What
a numerical solver finds is a nondeterministic choice. What is lost is rounding,
near-coincidence and slivers, and nothing here speaks of them. Maps that the
code iterates in hash order are iterated in any order (`SheetWork`), unless
nothing depends on it (`StepFile`).

## What the runs show

Runs are `MC*.tla` with the `.cfg` that `PROJECT.json` names; `repo` and `bed`
need no definitions of their own and run `VersionRepo` and `PrinterStatus`. Deadlock is
checked in `repo`; elsewhere the bounded system stops when its operations,
sockets, calls or steps are used up, and `CHECK_DEADLOCK FALSE` says so.

| Run | Instance | Shows |
| --- | --- | --- |
| `replicas` | 2 replicas and the hub, 1 feature each, 3 operations, 2 values with symmetry | `Convergence` and the refinement of `OpSetDoc`, under every delivery, duplicate, loss and snapshot |
| `sync` | 2 clients (owner and editor, or editor and an unknown token), 2 connections, up to 3 of: 2 edits, a cursor move, a change of level, a break, a disconnect | `OnlyThroughHub`: what is learnt went through the hub, presence belongs to members, a refused client stays out; `NoEditLost`; `QuietAgreement`: documents agree when everything arrived |
| `sync_live` (room) | 2 editors, 3 connections, an edit and a break, so that a reconnect overlaps | `RoomsAreServed`: no gap after a Welcome, distinct and served members; with fairness, `MembersLearnAll` |
| `sync_live` (client) | one client: 4 sockets, 2 edits, 4 calls of connect and disconnect, a queue of 3 | `OneSession`: one socket unless calls overlap, Join first, nothing vanishes; `NoUnwantedSocket`: no reconnect after disconnect; `Reconnects`: every outage ends |
| `repo` | 2 branches, 1 feature with 2 hashes, up to 5 commits with any merges | `WalksAreRight`: the walk finds the history, bases are common, fast-forward is exact, what is merged is merged once; nothing is lost; refinement of `VersionHistory` |
| `stores` | 3 features of which one is there from the start, 2 contents, an undo stack of 2, one entity per sketch, 2 branches, 4 commits | HEAD, drafts and bases (`StoresConsistent`); refinement of `UndoHistory` and of `VersionHistory`; conflicts are exactly what both sides changed since their last common commit |
| `records` (printers) | 5 actions of the user, 2 calls pending, 2 hosts, 3 ids of which two printers share one, one key, 2 layers of 2 chunks, 2 jobs | `StreamsInOrder`, `PanelsAgree`, and `KeysMoveToKeychain` for every step: a key leaves the file only for the keychain |
| `records` (people) | 2 of users, addresses, passwords, salts, sessions, teams, 1 organization, 1 project, 2 grants of 2 levels | `AccountsWork`: accounts stay one person's, passwords verify; `PermissionIsHighest` of those that apply |
| `modeling` | a tree of 3 features of 3 kinds and 3 configurations, with names and texts that hold commas and quotes, 3 sketches and 2 paths; 3 booleans on a 3 by 3 grid; 3 profiles with 2 splits; 4 edges of 6 kinds under budgets; 4 points and up to 3 of 10 constraints; 3 parts and 2 mates | `EvaluationIsSound`: evaluation tells holes and cycles apart; `DesignIsKept`: the table's active row survives its edits and can be undone, CSV brings plainly named rows back but for the listed losses (numbers become floating-point, quotes are doubled, a text that looks like a number becomes one, an empty text is gone), and the manifest tells designs apart, up to the ambiguities it lists; `BooleansAreSets`; `MeshesCloseUp`; `RoundedOnce` and within budget; `SolvedUnlessTurned`: what is called solved is, but for turned directions; `MatesHold` |
| `fabrication` | 4 solids in every order and turn of faces; parts of 4 layers over 9 columns and a tower of 7; all jobs of 2 layers from 3 contours; 3 shells refined 3 times; 3 bodies and 3 drives; 2 meshes at 36 offsets; 2 load steps of 3 iterations; 14 models; 4 sheets; a scene of 2 parts under every camera; a printer of each protocol | `ContoursClose`; `OverhangsAreHeld`: pillars stand under what hangs, every group that hangs has a trunk of its own whose points reach its middle, at whichever height, and only such middles are printed; `PrintedAsPlanned`: a program lays down its plan; `MeshConforms`; `ContactsAreExact` for parts that move; `ContactsAreInside` for coupled meshes; `LoadIsCarried` or the failure reported; `RereadIsTheSame` for a STEP file; `WorkIsCovered`: contours and flat patterns run along one loop and close, pockets leave no strip; `SceneIsShown`: culling and highlighting show what is there; `PrintersAreWatched`: what is shown of a printer is its phase, progress and heaters, by every protocol, but for five wrong phases and one wrong bed, see [below](#where-the-code-and-its-documentation-disagree) |
| `replicas_snapshot`, `sync_overtaken`, `bed`, `pick` | as `replicas`, `sync_live` (room), and the printer and the scene of `fabrication` | a counterexample each, see [below](#where-the-code-and-its-documentation-disagree) |

Every property of a passing run has a mutation of the code in `PROJECT.json`
under which TLC finds it violated in that run.

**Why the bounds are enough to be of interest.** Three operations by two
replicas give an add, a concurrent remove or re-add and a write, every pair of
concurrent writes, and a write after a snapshot. Two connections of one client,
or one of each, are all it takes for a task to be overtaken between its two
locks; the third connection lets a replaced connection, its replacement and a
witness live at the same time. The kinds of step in `sync` are bounded one by
one and all together (`Budget`, `MaxSpent`): any two disturbances meet an edit,
and any one of them meets two edits. Four sockets let a second session overlap
the retries of a first. A merge of an older commit, and a merge of that merge,
need four commits.

Two calls pending (`TwoCalls`) let the chain of one dialog interleave with the
chain of another at any of its awaits; five actions (`MaxActs`) are saving,
deleting and saving again, or open, slice, stream, close and open. In the people's
instance ids that are interchangeable are used in order (`InOrder`), accounts and
organizations, which no action touches together, are tried apart (`Apart`), and
two grants (`TwoGrants`) are what one can be higher than. In `modeling` three
booleans are the fewest where the result of a result of a result meets a face in
its own plane; the first box of a grid is taken in one corner (`FirstBoxLow`,
its mirror images), and a union of solids that only touch is not carried on
(`DoubleWall`, see below). A third constraint follows only three kinds, and
coordinates stay where halves are exact. In `fabrication` the instances contain
what each algorithm branches on: a vertex on a plane, two vertices in one welding
cell, a hole, a thin wall, an open shell, a sheet with a bend, a fork in an
outline, parts that share an edge, a corner or a plane.

The bounds of the models are their named constants (`MaxFeatures`, `MaxOps`,
`MaxOpens`, `Budget`, `MaxSpent`, `MaxQueue`, `MaxCalls`, `MaxConns`,
`MaxSockets`, `MaxCommits`, `MaxUndo`, `MaxEntities`, `MaxActs`, `MaxJobs`,
`MaxSteps`, `MaxSplits`, `MaxIters`, `MaxSolves`, `MaxLevels`, `MaxIter`,
`LoadCount`, `MaxStray`), and the named constraints of the MC modules. `MaxQueue` and
`QueueLimit` (256 in the code) and the iteration limits are the code's own, made small enough
to be reached.

**Fairness.** `SyncSystem` assumes weak fairness of each task of the server
(tokio schedules a task that is ready), of each client's handling of a frame and
of the close of its socket (the browser delivers events). Users need do nothing,
and sockets need not break or heal. `CollabClient` assumes that a timer that is
due fires and that a connecting or closing socket settles. No strong fairness is
used. `MembersLearnAll` and `Reconnects` are conditional on what the code cannot
control: that the client stays a member in the end, and that the bound on
sockets is not used up. The other modules are safety only: their loops are
bounded by the data, and their calls are answered or not.

## What is proved

TLAPS proves these for every set of replicas, connections, rooms, features,
values, branches, printers and people, of configurations, parts, mates, sketches, edges, loads and scenes,
and for every bound.

| Module | Theorem | Says |
| --- | --- | --- |
| `LocalReplicas_proofs` | `ApplyMeaning`, `MergeMeaning` | applying an operation, or merging two documents, gives the document of the union of the operations |
| | `TypeCorrect`, `ClocksAreUnique`, `Converges`, `RemovesAreObserved`, `NothingResurrects` | types, unique stamps, `Convergence`, a remove affects what its author had seen, nothing removed returns |
| | `Implements` | `LocalReplicas` implements `OpSetDoc` |
| | `LastWriterWins` | without snapshots (`SpecOps`) the winner of a register is never a value a later author had seen |
| `SyncSystem_proofs` | `Invariance` | the inductive invariant of clients, sockets, tasks and hub |
| | `RoomsAreAlwaysServed` | `RoomsAreServed`: one entry per replica in a room, whose connection is served or about to be removed, and no gap between a Welcome and the edits after it |
| | `EverythingThroughHub` | `OnlyThroughHub`: a client has only what the hub accepted, presence is of members, an unknown token learns nothing |
| | `EditsAreNotLost` | `NoEditLost`: an edit of a client that was not cut off is queued, on its way, in the document, or given up by its user with disconnect() |
| | `QuietMeansAgreement` | `QuietAgreement`: when everything sent has arrived, client and hub hold the same document |
| `CollabClient_proofs` | `SocketsAndTimer` | the inductive invariant of sockets and timer |
| | `NoSocketUnwanted` | `NoUnwantedSocket`: after disconnect() nothing but connect() creates a socket |
| | `OneSessionAtATime` | `OneSession`: one socket unless calls overlap, each begun by a Join, and no frame that vanishes |
| `VersionRepo_proofs` | `TypeCorrect`, `HeadStaysTip`, `NothingIsLost`, `ImplementsHistory`, `CleanStaysMergeable` | HEAD is the tip of its branch, `NothingLost`, the refinement of `VersionHistory`, and that a merge reported clean can be merged |
| | `WalksStayRight` | `WalksAreRight`: the depth-first walk finds each ancestor once and no other, and what merge_base() and is_fast_forward() conclude from it |
| `VersionStore_proofs` | `MergeBaseIsLowest` | in every tree of commits the breadth-first walk ends at the lowest common ancestor |
| | `StoresStayConsistent`, `MergeReportsConflicts` | `StoresConsistent` and `ConflictsAreExact` |
| | `BranchesKeepHistory`, `UndoWalksOneLine` | the refinements of `VersionHistory` and of `UndoHistory` |
| `Records_proofs` | `PanelsAlwaysAgree`, `StreamsAlwaysInOrder`, `KeysAlwaysMoveToKeychain` | `PanelsAgree`, `StreamsInOrder` and `KeysMoveToKeychain`, with every dialog, restart and failure interleaved |
| | `AccountsAlwaysWork` | `AccountsWork`, for salts without the separator |
| | `PermissionIsAlwaysHighest` | `PermissionIsHighest`, whatever the order in which teams are visited |
| | `PrintersWatched` | `PrintersAreWatched`: what is shown is the printer's phase, progress and heaters, in each protocol and with each answer lost, but for the five phases of `Mistaken` and the bed that native Moonraker shows when there is none; reports and corrections follow the readings |
| | `SceneStaysShown` | `SceneIsShown`: no part of which a point is in view is culled, each part kept is in one batch, and what is drawn, emphasised and picked is the same, for any parts, moves and turns of the camera |
| `Making_proofs` | `EvaluationStaysSound` | `EvaluationIsSound`: evaluation answers with all features, each once and after its parents, exactly if there is no hole and no cycle, and an error names one that is there |
| | `TableFollows` | the active configuration is the one activated (`ActiveIsChosen`), and what was extracted puts the tree back (`ExtractedRestores`), two parts of `DesignIsKept` |
| | `MatesAreHeld` | `MatesHold`: a residual of 0 means that the positional mates hold but for parts a joint moves, and the first frame of a study is the resting pose driven once within its limits |
| | `ConvergedIsSolved` | `SolvedUnlessTurned`: where solve() says it converged all constraints hold, unless its last sweep turned a segment without a residual |
| | `EdgesRoundedOnce` | `RoundedOnce`: each edge asked for and able is cut once, refused with its batch or left to a budget; the tools of a batch are disjoint |
| | `LoadCarried` | `LoadIsCarried`: converged means the whole load, stopped means that one step used all iterations; stress stays within yield and plastic strain never falls |
| | `OverhangsStayHeld` | `OverhangsAreHeld`: a pillar stands where something hangs above the gap, outside the part and nowhere else; every column that hangs is in a group with a trunk of its own in its layer, the middle of the group is a point of some trunk or branch, at whichever height, and a layer is printed only at such middles and outside the part |

**Assumptions.** The named ASSUMEs of the modules, which TLC evaluates in every
run that uses them. Replica ids are naturals and differ, keys are pairs of a replica
and a number, the hub is no replica; connections and sockets are numbered, and
`NoConn`, `NoSocket`, `NoRoom`, `NoKey` and the blank address are none of what
they stand beside; a client has one room; granted levels are levels; queues and
bounds are naturals; the first branch, label and value are among the others;
there is room for one commit; every printer has a protocol, and a print a layer
and a chunk. Ids of features are the numbers from 0 to some bound, as many as calls
will name (`FeatureTreeAssumption`: the code's are a counter, and a tree is finite).
0 is no part, and mates are between parts, with vectors, values and
limits that are integers (`AssemblyAssumption`); a constraint names as many points
as its kind takes (`Arity`), which are at integer places (`SketchAssumption`); a
body is a sequence of edges, each with the two ends of its bounds, and the budget
of tools is a natural (`RoundingAssumption`: a body is finite because a solid is);
trial stresses and the yield stress are multiples of a `Grain` that every return
to the yield surface divides (`LoadStepsAssumption`: without it the model would
round where the code does not); a part is a sequence of layers of intervals, its
sample points are numbered from 1, and the gap is a natural (`SupportsAssumption`);
temperatures, widths and progress are naturals
(`StatusAssumption`); the parts of a scene are a sequence of boxes at integer places
that move by integers, and the near plane is not behind the far one
(`SceneAssumption`). No theorem assumes any other set to be finite, or a bound to be
small.

Three theorems have hypotheses besides. `EditsAreNotLost` and
`QuietMeansAgreement` ask that everyone with a token may edit (`EverybodyEdits`:
`sync_server.rs:249` gives all of them the default level Editor, and a level can
be lowered only by a SetAccess, which the properties leave out: `Welcome`) and
that the offline queue holds the edits that are made (`Budget["edit"] <=
MaxQueue`). Without the first an edit of a Viewer is refused, without the second
the queue drops its oldest, and that is what the code means to do. The instance
of `sync` satisfies both.
`AccountsAlwaysWork` asks for salts without "$" (`PlainSalts`): with one the
account is locked out, see
[below](#where-the-code-and-its-documentation-disagree).

**The argument for documents.** Convergence is not inductive. What is inductive
is that each document *equals* `Meaning` of the operations its node has learnt,
and with that convergence is immediate. The step needs `ApplyMeaning` and
`MergeMeaning`, and these need a register to hold the *one* write with the
highest clock, so unique clocks are part of the invariant. Clocks are unique
because a replica's clock is not below that of any operation it issued, and a
tick raises it strictly. That the clock of a receiver covers everything it learnt
holds only without snapshots: it is the strengthening behind `LastWriterWins`,
and its failure with snapshots is the run `replicas_snapshot`.

**The argument for connections.** The invariant `IInv` of `SyncSystem_proofs`
turns on ownership. A connection belongs to one client from its first frame to
its last (`ConnsHaveOwners`): every frame in its inbox speaks for that client,
every answer in its outbox *or still held by some task* is about the room of that
client, and so is its entry in a room. A connection that was not made yet is
nowhere. With it the eviction by a Join, which may come from a connection that
is newer or older, can only hit a connection of the same replica. What `handle`
returned holds one message at most for each connection and is dispatched before
the task's next frame (`TasksInOrder`); `NoGap` and `MembersAreServed` then follow
a member through every state of its task. Answers of two tasks are not ordered,
and nothing in the invariant says they are.

**The argument for edits.** `NoEditLost` and `QuietAgreement` are about a client
that has a token, has opened one socket at most and was not cut off, while
nobody changed levels. Their invariant follows that one connection
(`Delivered`): its Join is still the first frame the hub will read, or it is a
member that may edit; its Leave, if it sent one, is the last frame; and while
the client has a socket the wire is open. That nothing disturbed it is a fact
about the past, and `Calm` says what it means for the present: without a break
no wire is broken, without a change of level no SetAccess is on its way and
queues hold only edits, no more than were made. `Unsent` says an edit that is
queued, or was discarded, is nowhere else, and `Numbered` that a client's edits
have consecutive numbers, so that a new one is new to everyone.

**The argument for the client.** A callback of any socket may clear
`this.socket`, so the invariant speaks of all sockets: `this.socket` is alive,
and a client that is not wanted has no timer and, as long as a socket is alive,
the mark that keeps its close from setting one. `NoUnwantedSocket` follows, as
only the timer and connect() create sockets. While no call overlapped, at most
one socket is alive and none while the timer is set, which is what makes
`OneSocket` inductive. That a frame is never sent on an open socket before its
Join needs the same invariant, and `EnqueueKeepsAll` says for any queue that a
frame is kept or dropped by the rule.

**The argument for versions.** In `VersionRepo` `TypeOK /\ HeadIsTip` is
inductive: the parent of a new commit is taken from HEAD and the branch is what
moves, so the one depends on the other. Every operation either leaves the stored
commits alone or appends one; `MakeCommitInv` states once what making a commit
does, and the theorems use it. `CleanMeansMergeable` is a lemma about any three
manifests, so that conflict reports are right whatever base the walk found. In
`VersionStore` the invariant says that commits are a tree that grows at its
leaves: each but the first has one parent, with a smaller id.

**The argument for walks.** Both walks are recursive functions, so that even
their existence has to be shown by induction. The induction theorems of the
library take a predicate as an operator; `Induction` states them for a *set*
instead: a set of numbers with 0 and the successor of each member is all of them,
because its complement has no least element. For the breadth-first walk the
induction is on rounds: after n rounds either one commit is queued, below every
shared ancestor, or the walk has ended at the lowest of them. For the depth-first
walk with its stack the induction is on steps: what was seen was seen once, is in
the history, and has its parents seen or on the stack. A step takes an id off the
stack and pushes two at most when it sees a new one, so that the walk is at its
end when the steps the code allows it are spent; what it has seen is then
closed under parents, and the history is the least such set. The fold over teams
in `PermissionIsAlwaysHighest` is shown by the same induction, on the size of the
set of teams, and that the sequence made of a set has all its members is a
count.

**The argument for accounts and printers.** What accounts need beside their
property is that the index of addresses has no entry of its own: each is some
account's. For printers the two halves of the invariant are about the queue of
calls. A save puts the key into the keychain and then the record into the file,
a delete takes them out in the same order, each by a call of its own. So
`KeysInv` says, unless something failed: a key belongs to a printer that is
saved *or that a call in the queue will save*; a record about to be deleted has
no key, or a save follows; the list shown is that of the process, or a list call
is in the queue; and the list of an old version, which holds keys, is there only
until the first list call ran. `StreamInv`: there is one call at most for each
stream, the printer was given exactly the layers before the one in the call, and
the dialog that made it, if it is the one on screen, waits for it. Once a call
failed only the property of streams and the half of `KeysMoveToKeychain` about
the file remain, as stated.

**The argument for loops.** The loops of the kernel, the slicer and the simulation are
folds over a list: a sweep over the mates or the constraints, the batching of tools,
the groups of a layer, the iterations of a load step.
The fold of the library is a function on sets of places in the list, defined by
CHOOSE. `Induction` shows once that this function exists
for a list of any length (induction over the length) and what it does to the first
`n + 1` places: what it did to the first `n`, then one step. An invariant of the
step is then one of the fold, by the same induction.

**The argument for evaluation.** `visit()` calls itself; the model's `Visit` is a
recursive function of the depth of the calls, and `VisitIs` shows that it exists
and is what it says. A depth of one more than there are ids is enough, and that is
part of what is shown: a call inside a call is for an id that is not in progress, or
it ends at once, so that the ids not in progress get fewer (`OneFewer`).
The induction is on their number. A visit is `Entered` with a list in which
everything stands after what it needs and with ids in progress that all lead to the
one visited; it is `Left` with such a list, the same ids in progress, and the one
visited on the list, or with an error. An id found in progress is thus among its own
ancestors, which is what makes "Cycle" true. For the converse, a list of all features
with parents first leaves no room for a hole, or for a cycle: the features listed up
to a place are closed under what they need, so no ancestor stands later.
`TreeInv` adds what evaluation needs of the tree itself: the history lists the ids
there are, parents are ids, and the active index is within the table.

**The argument for mates and constraints.** A residual of 0 is a statement about a
whole sweep in which each projection may undo the one before. The residual of a
sweep is the greatest of those of its projections, none of them negative: a sweep
that ends with 0 had 0 at each projection, and a projection without a residual left its points where
they were (in a sketch: unless it turned a segment, which is what
`SolvedUnlessTurned` excepts). So all of them looked at the same places, and what
each found to hold holds at the end. For mates the exception are parts that a joint
moves *after* a positional mate was settled. That a study starts from the resting
pose needs that a joint moves its second part only, and that applying limits twice
is applying them once.

**The argument for edges.** The invariant of the cutting loop is an account (`Accounted`):
the edges cut, the edges refused and those of the batches that are left are together
the tools made, and as many, so that each is in one place and there once
(`CountedOnce`). At the start the batches
flatten to the tools because a tool goes into the first batch it does not touch, or
into a new one; tools are the first of those edges that are asked for and can be
rounded, as many as the budget allows.

**The argument for loads and printers.** A load step is carried when its stress is
within the yield stress of the strain accumulated so far. The invariant says this of
the last iteration; that the strain is a multiple of the grain of the iterations that
are left, so that the next return divides exactly; and what the history says of the
loop: every step before the current one has an entry that converged, and the last
entries, as many as the iterations of the current step, are its own and did not. For printers the invariant
says that the status shown is an answer of the printer *as it is*: whatever changes
the printer drops it. What each of the four protocols makes of the six phases, of
progress and temperatures and back is by cases, and the cases in which it is not the
truth are the ones that `Mistaken` and `ReadingsAreOwn` name; that a correction is within bounds,
and the alarms are those of the log, is about every log up to its bound.

**The argument for supports.** Trees are built by a fold over layers (`LayerState`), in
each of which one fold places the groups (`PlaceState`) and another carries the other
trunks on (`CarryState`). What all three keep is that a trunk is the end of one active
entry at most: a trunk that a group takes is then no other group's of the layer,
because what is taken or new is apart from the entries that are still free. A claim
records the group and its trunk; it stays met because trunks only grow
(`Longer`), and it is met at once because the medoid of a group is one of its
columns, which the mean is not (`MedoidIsOne`). Branching cuts a trunk in two, and
both ends keep the place of the cut, so that every point stays on some trunk and
none is new (`BranchingKeepsPoints`). Nothing but such middles is ever added to a trunk
(`OnlyAsked`), and what is printed is read from trunks (`CentresAreOnLines`). Every
column that hangs is in the group of some first point, the last one that is not behind
it (`GroupsCover`).

**The argument for the scene.** A box is culled by a plane when the corner that is
picked by the signs of the plane's normal is outside. Each plane is a linear form
(`Planes`; in perspective the depth of the point is part of it), and at that corner it
is as much as at any point of the box: coordinate by coordinate, the end of the interval
that the sign picks is as good as a point of it (`CornerIsMore`). So a point in view
keeps its box. That the batches add up is an induction on the
set of keys. Meshes, uniforms and what can be picked are written together from one
scene, whose tree has two levels; the uniforms are the only one of the three that a
selection writes again, which is the invariant that relates them to the highlight.

**Only model-checked.** Liveness, `MembersLearnAll` and `Reconnects`, and with it
ENABLED, which the prover does not cover. Of the kernel and of what takes a solid:

* The rest of `DesignIsKept`, the CSV form and the manifest: the lists are made by
  SelectSeq, SetToSeq and FlattenSeq, and what is written is read by a fold over
  characters, so that the two are inverse by induction over data.
* `BooleansAreSets`, `MeshesCloseUp`, `ContoursClose`, `MeshConforms`,
  `ContactsAreExact`, `ContactsAreInside`, `WorkIsCovered`: the invariant is the
  geometry (products of coordinates, parities of crossings, areas, distances), and
  it is non-linear. Most of them also recur over trees and lists.
* `PrintedAsPlanned`, `RereadIsTheSame`: what is written and read again is a list
  built by recursion; the two are inverse by induction over data.

`NoStaleWinner`, `ConnectedLearnAll`, `MissingReadingsAreMissing` and
`PickIsUnderCursor` are violated, and not theorems.

## Where the code and its documentation disagree

Four runs end in a counterexample:

* `replicas_snapshot` (`wasm.rs:138`): a session does not observe the clocks in
  the snapshot it merges, so its next write can lose to the value its author saw
  and overwrote.
* `sync_overtaken` (`server.rs:185`): a Join evicts any other connection of the
  replica, also a newer one. When the Join of a broken connection is read late,
  the client ends up connected and in no room.
* `bed` (`moonraker.rs:199`): the search for a reading runs on behind the object it
  was asked of. For a printer without a bed the answer holds an empty object, and the
  nozzle's reading is shown as the bed's, where `client.rs:90` says that missing
  readings are ambient.
* `pick` (`picking.rs:34`): `unproject` drops `w` instead of dividing by it, so a
  click points where the camera looks, wherever the click is.

Others are stated in the modules, were found violated with TLC in the same
instances, and are kept out of the runs to keep their number small:

| Property | Where | What happens |
| --- | --- | --- |
| `SyncSystem.NoEditLostInADrop` | `client.ts:457` | an edit written to a socket that broke, before the browser noticed, is neither queued nor sent again |
| `SyncSystem.NoGhostPeer` | `sync_server.rs:173` | answers are dispatched after the hub lock is released; a presence record that arrives after the Left of its owner stays on screen |
| `CollabClient.DisconnectCloses` | `client.ts:341` | calls that overlap the close of a socket open a second one, which `disconnect()` does not close |
| `VersionRepo.BaseIsNearest` | `repo.rs:176` | `merge_base` walks depth-first and with merge commits returns an ancestor that is not the nearest |
| `VersionStore.MergeBringsTheirs` | `versionStore.ts:204` | applyMerge writes the conflicts only; what the other branch alone changed is left out, where ADR-0005:46 speaks of automatic clean merges |
| `SlicerSession.StreamIsThePrint` | `slicer.ts:193` | the stream consists of the layers, without what heats, homes and turns off the printer |
| `AssemblyMotion.PoseFollowsDrive` | `assembly.rs:316`, `motion.rs:54` | a joint is applied on top of the pose before, so the pose depends on the way to it |
| `SketchSolver.ConvergedMeansSolved` | `constraint.rs:213` | a residual is measured before later constraints move the points, and a turned distance counts as met |
| `Workspace.CredentialsWork`, a salt with "$" | `auth.rs:76` | the stored hash is cut at the wrong "$" and the account cannot be logged into |
| `FeatureTree.CsvKeepsTables` | `design_table.rs:213` | a name with a comma is not escaped (206) and its row is misread; quotes are doubled when written (218) and not halved when read (315); a quoted or plain text that looks like a number is read as one |
| `LayerSupports.TreesReachTheirOverhang` | `tree_support.rs:137` | a trunk is read at the index of the layer whichever layer it starts at, so one that starts above the second stands in each layer where it should stand higher up, and under an overhang may be far from it |
| `ContactCoupling.ForcesRepel` | `contact_fea.rs:438` | the force of a contact pulls the node further in |
| `ContactCoupling.OwnStresses` | `contact_fea.rs:329` | meshes of unequal sizes get each other's stresses |
| `GcodeProgram.BeadsFillTheirLayer` | `gcode.rs:227` | the bead height is the move from the last height, so after the first path of a layer it is the least one |
| `TetMeshes.CellsAreInside` | `mesh.rs:88` | cells whose centre is inside stick out of a body that is not a multiple of the cell |

Also met while modelling, and in the models as they are:

* *Versions.* `commit_merge` records the other side's manifest and drops ours, as
  its comment says.
* *Manifests.* The hash of a Loft has no boundary between its sketches, that of a
  Sweep none between its polyline and what follows: different parameters can give
  the same bytes, where `manifest.rs:7` says any change flips the hash.
* *Kernel.* A union of solids that touch keeps the wall between them, twice; a
  cap of a loft and of a full revolution is triangulated or left as the code has
  it; `set_drive` of a cylindrical joint turns and shifts by the same number;
  a coincident pair has no direction for a Distance; an empty
  text of a table is gone after CSV. The desktop shell rebuilds an assembly per frame (`main.rs:472`).
* *Slicer.* Holes are treated as islands; the outline is printed on the contour
  itself; of a scan line only the first span inside is filled; insets of a long
  thin wall turn inside out and are taken; a triangle with one vertex on a plane
  gives no cut, though `layers.rs:192` says it does; the adaptive step looks at
  the slope where it starts only; pillars are printed several times; a tree's
  trunks are numbered apart from the layers they are printed on, and `z_gap` is
  not used; a tool change in place leaves the nozzle where the other one was; the
  closing move to 300 mm fails the crate's own validator for a lower printer, and
  so does a retraction before the first extrusion.
* *Simulation.* Refinement adds six midpoints per element and uses one; the last
  refined mesh is returned unsolved; the plastic strain is raised at every
  iteration and not once per step; no iterations, or no steps, are reported as
  converged; contact constraints never enter the solve; a part that lies inside
  another is no clash.
* *Manufacturing.* The direction of an outline is not determined, so an offset
  outwards may go inwards; a corner that moves by the radius along its bisector
  leaves its edges nearer; a pocket cuts over its walls; a step over more than
  half leaves strips; of a forked outline or one with holes one loop is followed;
  an unfolded flap is projected, not unfolded.
* *Renderer.* A scene made of an assembly applies a part's transform twice; instances
  are paired with meshes by position and not by index; culling and levels of
  detail are used by nothing, though `culling.rs:7` says the renderer calls it.
* *Printers.* ESP3D: a paused print is shown as printing by builds that do not tell
  (`esp3d.rs:72`), one under way as idle when the answer to M27 is lost, and one that
  is complete or failed as idle. OctoPrint: a print that is complete is shown as idle
  (`octoprint.rs:97`). Native Moonraker: a cancelled print is shown as an error
  (`moonraker.rs:158`).
* *Platform.* Removing a member leaves the grants; sharing with the creator can
  lower the creator's level.

## What is not modelled

* Floating point: rounding, tolerances, slivers, near-coincidence; curved
  profiles and arcs; linear, modal, thermal, dynamic, buckling, fatigue and
  topology studies, which are sums and eigenvalue problems without control.
* Formats and encodings: JSON frames, bytes that are hashed, G-code text, 3MF,
  STL, DXF, bills of material and drawings. (The CSV of a design table, the
  stored hash and STEP entities are modelled, as there is something to get wrong.)
* Cursor, selection and names in presence; throttling of presence; the overlay;
  views of the frontend over the stores, and the stand-in for the kernel there.
* Restarts of the sync server: documents live in memory, and a restart begins
  from empty rooms.
* The mock clients of `printer-link`, the cloud client (one request for a project)
  and the wire format of mDNS. Commands of the desktop shell that answer from one call. Shaders
  and the pass that draws a frame.
* Roles, the archive flag and blobs of the platform, which nothing there reads;
  a `Repository` merge resolved by the caller is a commit with any manifest
  (`CommitRevision`).

## The plan

1. Proofs. Of `DesignIsKept` the manifest. Then the composition of `Workspace`'s
   levels with the hub's.
2. `SyncSystem`: restart of the server (`sync_server.rs:254`), a connection that
   joins a second room (`server.rs:194`), grants that `SetAccess` does not change
   (`server.rs:264`), the presence a Welcome brings late (`client.ts:529`).
3. Composition of `FeatureTree` and `VersionRepo` through the manifest
   (`manifest.rs:126` hashes entities with no count between them).

Hazards that are known and that no property covers, beyond those: feature keys
cross to JavaScript as doubles (`wasm.rs:73`); a merge commit of one side's
manifest (`repo.rs:270`); conflicts of merge() that survive a checkout or an edit
(`versionStore.ts:200`); a retry of `send_to_printer` that uploads again
(`printer.rs:153`); a probe or a slice that answers after the user went on
(`PrinterSetupWizard.tsx:122`, `SlicerPanel.tsx:41`); a stream cut by bytes
(`stream.rs:116`); members that are removed and keep their grants (`org.rs:45`);
the double wall of a union that touches (`csg_bsp.rs:736`).
