---------------------------- MODULE VersionRepo ----------------------------
(* The in-memory repository of versioning/src/repo.rs: content-addressed      *)
(* commits, named branches, HEAD and the branch it is attached to.            *)
(*                                                                            *)
(* A commit's id is the SHA-256 of its parents, manifest and message. It is   *)
(* abstracted to the position of the commit in `commits`, a sequence without  *)
(* duplicates: equal content gets the id it already has, new content a fresh  *)
(* one. A manifest maps each feature to its parameter hash, or to None; the   *)
(* message, and the order of the entries, which diff and merge never look at  *)
(* but the id covers, are the commit's label.                                 *)
EXTENDS Integers, Sequences, FiniteSets, Functions

CONSTANTS
    Name,       \* names of branches
    Main,       \* the branch a new repository starts with
    Feature,    \* ids of features
    Hash,       \* parameter hashes
    None,       \* the feature is not in the manifest
    Label,      \* what an id covers besides parents and parameter hashes
    First,      \* the label of the root commit
    MaxCommits  \* bound on the commits ever made

ASSUME RepoAssumption ==
    /\ Main \in Name
    /\ None \notin Hash
    /\ First \in Label
    /\ MaxCommits \in Nat \ {0}

VARIABLES commits, branches, head, current
vars == <<commits, branches, head, current>>

Manifest == [Feature -> Hash \cup {None}]
Empty == [f \in Feature |-> None]
Commit == [parents: Seq(Nat), manifest: Manifest, label: Label]
Id == DOMAIN commits

--------------------------------------------------------------------------
(* History.                                                                 *)

\* ancestors() takes ids off the end of its `queue`, a stack, and pushes the
\* parents of each id it sees for the first time. Every step takes one id off,
\* and no id's parents, at most two, are pushed twice.
Visit(w) ==
    LET top  == w.stack[Len(w.stack)]
        rest == SubSeq(w.stack, 1, Len(w.stack) - 1)
    IN  IF w.stack = <<>> THEN w
        ELSE IF top \in Range(w.seen) THEN [w EXCEPT !.stack = rest]
        ELSE [seen  |-> Append(w.seen, top),
              stack |-> rest \o commits[top].parents]

Ancestors(start) ==
    LET last == 2 * Len(commits) + 1
        walk[n \in 0..last] == IF n = 0 THEN [seen |-> <<>>, stack |-> <<start>>]
                               ELSE Visit(walk[n - 1])
    IN  walk[last].seen

\* A mutation of MergeBase: the last shared ancestor of the walk.
MergeBaseLast(a, b) ==
    LET ofA == Ancestors(a)
        shared == {i \in DOMAIN ofA : ofA[i] \in Range(Ancestors(b))}
    IN  ofA[CHOOSE i \in shared : \A j \in shared : i >= j]

\* The first of a's ancestors, in the order of the walk, that b has too.
MergeBase(a, b) ==
    LET ofA == Ancestors(a)
        shared == {i \in DOMAIN ofA : ofA[i] \in Range(Ancestors(b))}
    IN  ofA[CHOOSE i \in shared : \A j \in shared : i <= j]

IsFastForward(other) == head = other \/ MergeBase(head, other) = head

\* Diff::between, of which merge() keeps only the ids.
Changed(base, m) == {f \in Feature : base[f] # m[f]}

ConflictsOf(base, ours, theirs) ==
    {f \in Changed(base, ours) \cap Changed(base, theirs) : ours[f] # theirs[f]}

\* Some manifest has all changes of both sides.
Mergeable(base, ours, theirs) ==
    \E m \in Manifest :
        /\ \A f \in Changed(base, ours) : m[f] = ours[f]
        /\ \A f \in Changed(base, theirs) : m[f] = theirs[f]

\* merge(): the report. It changes nothing.
Conflicts(other) ==
    ConflictsOf(commits[MergeBase(head, other)].manifest,
                commits[head].manifest, commits[other].manifest)

--------------------------------------------------------------------------
(* Operations.                                                              *)

Stored(c) == \E i \in Id : commits[i] = c
IdOf(c) == IF Stored(c) THEN CHOOSE i \in Id : commits[i] = c ELSE Len(commits) + 1

\* make_commit(), then advance_current_branch().
MakeCommit(parents, manifest, label) ==
    LET c == [parents |-> parents, manifest |-> manifest, label |-> label]
    IN  /\ Stored(c) \/ Len(commits) < MaxCommits
        /\ commits' = IF Stored(c) THEN commits ELSE Append(commits, c)
        /\ branches' = [branches EXCEPT ![current] = IdOf(c)]
        /\ head' = IdOf(c)
        /\ UNCHANGED current

Init ==
    /\ commits = <<[parents |-> <<>>, manifest |-> Empty, label |-> First]>>
    /\ branches = [n \in {Main} |-> 1]
    /\ head = 1
    /\ current = Main

\* A mutation of CreateBranch: a branch that exists is moved to HEAD.
CreateBranchOver(name) ==
    /\ branches' = [n \in DOMAIN branches \cup {name} |->
                       IF n = name THEN head ELSE branches[n]]
    /\ UNCHANGED <<commits, head, current>>

CreateBranch(name) ==
    /\ name \notin DOMAIN branches
    /\ branches' = [n \in DOMAIN branches \cup {name} |->
                       IF n = name THEN head ELSE branches[n]]
    /\ UNCHANGED <<commits, head, current>>

Checkout(name) ==
    /\ name \in DOMAIN branches
    /\ head' = branches[name]
    /\ current' = name
    /\ UNCHANGED <<commits, branches>>

CommitRevision(manifest, label) == MakeCommit(<<head>>, manifest, label)

\* A mutation of CommitMerge: the merge commit forgets HEAD.
CommitMergeTaken(other, label) ==
    /\ other \in Id
    /\ MakeCommit(<<other>>, commits[other].manifest, label)

CommitMerge(other, label) ==
    /\ other \in Id
    /\ MakeCommit(<<head, other>>, commits[other].manifest, label)

Next ==
    \/ \E name \in Name : CreateBranch(name)
    \/ \E name \in Name : Checkout(name)
    \/ \E m \in Manifest, l \in Label : CommitRevision(m, l)
    \/ \E other \in Id, l \in Label : CommitMerge(other, l)

Spec == Init /\ [][Next]_vars

--------------------------------------------------------------------------
(* Correctness.                                                             *)

\* Types; parents are older than the commits made on them, so that history
\* is acyclic, and no content is stored under two ids.
TypeOK ==
    /\ commits \in Seq(Commit) /\ Len(commits) <= MaxCommits
    /\ \A i \in Id : \A k \in DOMAIN commits[i].parents : commits[i].parents[k] \in 1..(i - 1)
    /\ \A i, j \in Id : commits[i] = commits[j] => i = j
    /\ DOMAIN branches \subseteq Name
    /\ branches \in [DOMAIN branches -> Id]
    /\ head \in Id
    /\ current \in DOMAIN branches

\* The ids from which commit i descends, itself included.
History ==
    LET from[i \in Id] == {i} \cup UNION {from[p] : p \in Range(commits[i].parents)}
    IN  from

\* HEAD is always the tip of the branch it is attached to: repo.rs keeps both,
\* writes them in different places, and takes the parent of the next commit
\* from HEAD but moves the branch.
HeadIsTip == branches[current] = head

\* The explicit-stack walk of ancestors() finds every ancestor once, and only
\* ancestors, in every history with merges.
WalkFindsHistory ==
    \A i \in Id : /\ Range(Ancestors(i)) = History[i]
                  /\ Len(Ancestors(i)) = Cardinality(History[i])

\* Any two commits have a merge base, and it is an ancestor of both; so merge()
\* never answers NothingToMerge or UnknownCommit for commits of the repository.
BaseIsCommon ==
    \A a, b \in Id : MergeBase(a, b) \in History[a] \cap History[b]

\* is_fast_forward() tells exactly whether HEAD is an ancestor of the other
\* commit, although merge_base may not find the nearest common ancestor.
ForwardIsExact ==
    \A other \in Id : IsFastForward(other) <=> head \in History[other]

\* No common ancestor of a and b descends from the merge base: merge_base is
\* documented as the nearest common ancestor.
IsNearest(a, b) ==
    \A c \in (History[a] \cap History[b]) \ {MergeBase(a, b)} :
        MergeBase(a, b) \notin History[c]
BaseIsNearest == \A a, b \in Id : IsNearest(a, b)

\* Without merge commits in the history of the first, the base is the nearest.
BaseIsNearestOnLines ==
    \A a, b \in Id :
        (\A c \in History[a] : Len(commits[c].parents) <= 1) => IsNearest(a, b)

\* What was merged is not merged again: after commit_merge(other) the base of
\* the two is `other` itself, and merging it once more reports no conflict.
MergedOnce ==
    \A i \in Id : Len(commits[i].parents) = 2 =>
        MergeBase(i, commits[i].parents[2]) = commits[i].parents[2]

\* The walk and what is concluded from it, in every history with merges.
WalksAreRight == WalkFindsHistory /\ BaseIsCommon /\ ForwardIsExact /\ BaseIsNearestOnLines /\ MergedOnce

\* merge() reports no conflict exactly when the two sides can be merged: when
\* some manifest has every change that either side made to the merge base.
CleanIsMergeable ==
    \A other \in Id :
        LET base   == commits[MergeBase(head, other)].manifest
            ours   == commits[head].manifest
            theirs == commits[other].manifest
        IN  Conflicts(other) = {} <=> Mergeable(base, ours, theirs)

\* A step never takes a commit off a branch, nor rewrites one: a branch stays
\* where it is or moves to a commit made on its tip, and ids keep their content.
NothingLost ==
    [][/\ \A n \in DOMAIN branches :
             \/ branches'[n] = branches[n]
             \/ branches[n] \in Range(commits'[branches'[n]].parents)
       /\ \A i \in Id : commits'[i] = commits[i]]_vars

\* The repository implements the abstract history of branches, in which there
\* is no HEAD apart from the branch that is worked on.
Abstract == INSTANCE VersionHistory WITH
    Root <- 1,
    CommitId <- 1..MaxCommits,
    made <- [i \in Id |-> Range(commits[i].parents)],
    tips <- branches,
    on <- current
Implements == Abstract!Spec

============================================================================
