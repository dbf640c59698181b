---------------------------- MODULE VersionStore ----------------------------
(* Version control in the browser: state/versionStore.ts, which reads and     *)
(* writes the model of ModelStore, behind the dialog of                       *)
(* components/VersionControl.tsx.                                             *)
(*                                                                            *)
(* The id of a commit, a counter, is its position in `commits`. A conflict    *)
(* has what applyMerge() uses: their content and the choice. `merging` is     *)
(* history: the two tips of the last merge().                                 *)
EXTENDS ModelStore

CONSTANTS
    Name, Main,  \* names of branches, the first one
    MaxCommits   \* bound on the commits made

ASSUME VersionAssumption == Main \in Name /\ MaxCommits \in Nat \ {0}

VARIABLES commits, branches, current, head, conflicts, merging

versions == <<commits, branches, current, head, conflicts, merging>>
vars == <<model, sketch, versions>>

Commit == [parents: Seq(Nat), features: FeatureList]
Pick == {"none", "ours", "theirs"}
Conflict == [theirs: Value, pick: Pick]
Id == DOMAIN commits

--------------------------------------------------------------------------
(* Diffs and merge bases.                                                   *)

\* diffFeatures(): ids that were added, removed, or modified.
ChangedIn(base, other) ==
    {f \in DOMAIN base \cup DOMAIN other :
        \/ f \notin DOMAIN base \cap DOMAIN other
        \/ base[f] # other[f]}

\* The inner ancestors(): every id that is reached over parents, itself too.
AncestorsOf ==
    LET from[i \in Id] == {i} \cup UNION {from[p] : p \in Range(commits[i].parents)}
    IN  from

\* A mutation of Breadth: the ancestry is walked to its end.
BreadthOn(w, seen) ==
    IF w.queue = <<>> THEN w
    ELSE LET id == Head(w.queue)
         IN  [queue |-> Tail(w.queue) \o commits[id].parents,
              hit   |-> IF id \in seen THEN {id} ELSE w.hit]

\* One round of the loop of mergeBase: the id at the head of the queue is the
\* base when a has it among its ancestors, else its parents join the queue.
Breadth(w, seen) ==
    IF w.queue = <<>> \/ w.hit # {} THEN w
    ELSE LET id == Head(w.queue)
         IN  [queue |-> Tail(w.queue) \o commits[id].parents,
              hit   |-> IF id \in seen THEN {id} ELSE {}]

\* The base, or nothing.
MergeBase(a, b) ==
    LET walk[n \in 0..Len(commits)] ==
            IF n = 0 THEN [queue |-> <<b>>, hit |-> {}]
            ELSE Breadth(walk[n - 1], AncestorsOf[a])
    IN  walk[Len(commits)].hit

FeaturesAt(ids) == IF ids = {} THEN <<>> ELSE commits[CHOOSE i \in ids : TRUE].features

\* A mutation of ConflictsOf: what one side changed is in conflict.
ConflictsOfEither(ours, theirs) ==
    LET base == FeaturesAt(MergeBase(ours, theirs))
    IN  [f \in ChangedIn(base, FeaturesAt({theirs})) |->
            [theirs |-> IF f \in DOMAIN FeaturesAt({theirs}) THEN FeaturesAt({theirs})[f] ELSE base[f],
             pick   |-> "none"]]

\* What both sides changed since the base; `t.after ?? t.before` is the base's
\* content when their side has removed the feature.
ConflictsOf(ours, theirs) ==
    LET base == FeaturesAt(MergeBase(ours, theirs))
        their == FeaturesAt({theirs})
    IN  [f \in ChangedIn(base, FeaturesAt({ours})) \cap ChangedIn(base, their) |->
            [theirs |-> IF f \in DOMAIN their THEN their[f] ELSE base[f],
             pick   |-> "none"]]

--------------------------------------------------------------------------
(* Operations.                                                              *)

Init ==
    /\ ModelInit /\ SketchInit
    /\ commits = <<[parents |-> <<>>, features |-> features]>>
    /\ branches = [n \in {Main} |-> 1]
    /\ current = Main /\ head = 1
    /\ conflicts = <<>> /\ merging = <<>>

\* What commit() and applyMerge() have in common.
MakeCommit(list) ==
    /\ Len(commits) < MaxCommits
    /\ commits' = Append(commits, [parents |-> <<head>>, features |-> list])
    /\ branches' = [branches EXCEPT ![current] = Len(commits) + 1]
    /\ head' = Len(commits) + 1
    /\ UNCHANGED <<current, merging>>

CommitModel == MakeCommit(features) /\ UNCHANGED <<conflicts, model, sketch>>

\* The new branch is taken up at once.
CreateBranch(name) ==
    /\ name \notin DOMAIN branches
    /\ branches' = [n \in DOMAIN branches \cup {name} |-> IF n = name THEN head ELSE branches[n]]
    /\ current' = name
    /\ UNCHANGED <<commits, head, conflicts, merging, model, sketch>>

\* A mutation of Checkout: HEAD is attached to the branch and not moved.
CheckoutInPlace(name) ==
    /\ name \in DOMAIN branches
    /\ current' = name
    /\ UNCHANGED <<commits, branches, head, conflicts, merging, model, sketch>>

\* The model and the conflicts stay what they were.
Checkout(name) ==
    /\ name \in DOMAIN branches
    /\ current' = name /\ head' = branches[name]
    /\ UNCHANGED <<commits, branches, conflicts, merging, model, sketch>>

\* The dialog remembers the branch that was chosen, so that it may be current
\* by the time the button is pressed.
Merge(from) ==
    /\ from \in DOMAIN branches
    /\ conflicts' = ConflictsOf(branches[current], branches[from])
    /\ merging' = <<branches[current], branches[from]>>
    /\ UNCHANGED <<commits, branches, current, head, model, sketch>>

ResolveConflict(f, pick) ==
    /\ f \in DOMAIN conflicts
    /\ conflicts' = [conflicts EXCEPT ![f].pick = pick]
    /\ UNCHANGED <<commits, branches, current, head, merging, model, sketch>>

\* Their content where it was picked, for features that the model has.
Resolved ==
    [f \in DOMAIN features |->
        IF f \in DOMAIN conflicts /\ conflicts[f].pick = "theirs"
        THEN conflicts[f].theirs ELSE features[f]]

\* The panel is shown while there are conflicts, its button enabled when all
\* are resolved.
Ready ==
    /\ DOMAIN conflicts # {}
    /\ \A f \in DOMAIN conflicts : conflicts[f].pick # "none"

\* The model is written past its undo history.
ApplyMerge ==
    /\ Ready
    /\ features' = Resolved
    /\ MakeCommit(Resolved)
    /\ conflicts' = <<>>
    /\ UNCHANGED <<past, future, used, sketch>>

VersionStep ==
    \/ CommitModel \/ ApplyMerge
    \/ \E name \in Name : CreateBranch(name) \/ Checkout(name) \/ Merge(name)
    \/ \E f \in Feature, pick \in {"ours", "theirs"} : ResolveConflict(f, pick)

Next == \/ (ModelStep \/ SketchStep) /\ UNCHANGED versions
        \/ VersionStep

Spec == Init /\ [][Next]_vars

--------------------------------------------------------------------------
(* Correctness.                                                             *)

TypeOK ==
    /\ ModelTypeOK
    /\ commits \in Seq(Commit) /\ branches \in [DOMAIN branches -> Id]
    /\ current \in DOMAIN branches /\ DOMAIN branches \subseteq Name
    /\ head = branches[current]
    /\ conflicts \in UNION {[D -> Conflict] : D \in SUBSET Feature}

\* Any two commits have a merge base, and it is the lowest: a common ancestor
\* that descends from every other. mergeBase() looks for b's nearest.
BaseIsLowest ==
    \A a, b \in Id :
        \E base \in AncestorsOf[a] \cap AncestorsOf[b] :
            /\ MergeBase(a, b) = {base}
            /\ AncestorsOf[a] \cap AncestorsOf[b] \subseteq AncestorsOf[base]

\* The stores keep HEAD at the tip of its branch, drafts in an open editor, and
\* a history in which any two commits have a lowest base.
StoresConsistent == TypeOK /\ DraftNeedsTool /\ BaseIsLowest

\* A content of feature f, or that there is none.
At(i, f) == IF f \in DOMAIN commits[i].features THEN {commits[i].features[f]} ELSE {}

\* merge() reports exactly the features that both branches changed since the
\* last commit they share, whatever was merged, checked out or undone before.
ConflictsAreExact ==
    [][merging' # merging =>
        \A base \in Id :
            LET shared == AncestorsOf[merging'[1]] \cap AncestorsOf[merging'[2]]
            IN  base \in shared /\ (\A i \in shared : i <= base) =>
                    DOMAIN conflicts' = {f \in Feature : /\ At(base, f) # At(merging'[1], f)
                                                         /\ At(base, f) # At(merging'[2], f)}]_vars

\* Branches and commits do what VersionRepo's do, with fewer parents.
History == INSTANCE VersionHistory WITH
    Root <- 1,
    CommitId <- 1..MaxCommits,
    made <- [i \in Id |-> Range(commits[i].parents)],
    tips <- branches,
    on <- current
KeepsHistory == History!Spec

\* A completed merge brings the changes of the other branch that are in no
\* conflict: docs/adr/0005-version-control-storage.md speaks of automatic clean
\* merges of edits to disjoint features.
MergeBringsTheirs ==
    [][conflicts # <<>> /\ commits' # commits /\ conflicts' = <<>> =>
        \A f \in Feature :
            LET base == CHOOSE i \in MergeBase(merging[1], merging[2]) : TRUE
            IN  At(base, f) = At(merging[1], f) /\ At(base, f) # At(merging[2], f)
                => At(merging[2], f) = IF f \in DOMAIN features' THEN {features'[f]} ELSE {}]_vars
=============================================================================
