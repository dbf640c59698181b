------------------------- MODULE VersionRepo_proofs -------------------------
(* Theorems about VersionRepo, for any set of branches, features and hashes.  *)
EXTENDS VersionRepo, Induction, SequenceTheorems, FiniteSetTheorems, TLAPS

Inv == TypeOK /\ HeadIsTip

\* The initial repository satisfies the invariant.
LEMMA InitInv == Init => Inv
<1> SUFFICES ASSUME Init PROVE Inv
    OBVIOUS
<1> DEFINE root == [parents |-> <<>>, manifest |-> Empty, label |-> First]
<1>1. root \in Commit
    BY RepoAssumption DEF Commit, Empty, Manifest
<1>2. commits = <<root>> /\ commits \in Seq(Commit) /\ Len(commits) = 1 /\ Id = {1}
    BY <1>1 DEF Init, Id
<1>3. commits[1].parents = <<>>
    BY <1>2
<1>4. branches \in [DOMAIN branches -> Id] /\ DOMAIN branches = {Main} /\ branches[Main] = 1
    BY <1>2 DEF Init
<1>5. Len(commits) <= MaxCommits
    BY <1>2, RepoAssumption
<1> HIDE DEF root
<1> QED BY <1>2, <1>3, <1>4, <1>5, RepoAssumption DEF Init, Inv, TypeOK, HeadIsTip

\* Making a commit on the current branch keeps the invariant, and moves the
\* branch and HEAD to an id whose commit has the given content.
LEMMA MakeCommitInv ==
    ASSUME Inv,
           NEW parents \in Seq(Id), NEW manifest \in Manifest, NEW label \in Label,
           MakeCommit(parents, manifest, label)
    PROVE  /\ Inv'
           /\ head' \in Id' /\ Id \subseteq Id' /\ Id' \subseteq Id \cup {head'}
           /\ commits'[head'] = [parents |-> parents, manifest |-> manifest, label |-> label]
           /\ \A i \in Id : commits'[i] = commits[i]
           /\ branches' = [branches EXCEPT ![current] = head']
           /\ current' = current
<1> DEFINE c == [parents |-> parents, manifest |-> manifest, label |-> label]
           n == IdOf(c)
<1>0. commits \in Seq(Commit) /\ Id = 1..Len(commits) /\ Len(commits) \in Nat
    BY DEF Inv, TypeOK, Id
<1>1. c \in Commit
  <2>1. parents \in Seq(Nat)
      BY <1>0
  <2> QED BY <2>1 DEF Commit
<1>a. c.parents = parents
    OBVIOUS
<1>2. /\ Stored(c) \/ Len(commits) < MaxCommits
      /\ commits' = IF Stored(c) THEN commits ELSE Append(commits, c)
      /\ branches' = [branches EXCEPT ![current] = n]
      /\ head' = n
      /\ current' = current
    BY DEF MakeCommit
<1> HIDE DEF c
<1>3. CASE Stored(c)
  <2>1. n \in Id /\ commits[n] = c
      BY <1>3 DEF Stored, IdOf
  <2>2. commits' = commits /\ Id' = Id
      BY <1>2, <1>3 DEF Id
  <2>3. branches' \in [DOMAIN branches' -> Id'] /\ DOMAIN branches' = DOMAIN branches
      BY <1>2, <2>1, <2>2 DEF Inv, TypeOK
  <2>4. branches'[current'] = head'
      BY <1>2 DEF Inv, TypeOK
  <2>5. TypeOK'
      BY <1>2, <2>1, <2>2, <2>3 DEF Inv, TypeOK
  <2> QED BY <1>2, <2>1, <2>2, <2>4, <2>5 DEF Inv, HeadIsTip, c
<1>4. CASE ~ Stored(c)
  <2>1. n = Len(commits) + 1 /\ commits' = Append(commits, c) /\ Len(commits) < MaxCommits
      BY <1>2, <1>4 DEF IdOf
  <2>2. /\ commits' \in Seq(Commit)
        /\ Len(commits') = Len(commits) + 1
        /\ Id' = 1..(Len(commits) + 1)
        /\ commits'[n] = c
        /\ \A i \in Id : commits'[i] = commits[i]
      BY <2>1, <1>0, <1>1 DEF Id
  <2>3. n \in Id' /\ Id \subseteq Id' /\ Id' = Id \cup {n} /\ n \notin Id
      BY <2>1, <2>2, <1>0
  <2>4. \A i \in Id' : \A k \in DOMAIN commits'[i].parents : commits'[i].parents[k] \in 1..(i - 1)
    <3> SUFFICES ASSUME NEW i \in Id' PROVE \A k \in DOMAIN commits'[i].parents : commits'[i].parents[k] \in 1..(i - 1)
        OBVIOUS
    <3>1. CASE i \in Id
        BY <3>1, <2>2 DEF Inv, TypeOK
    <3>2. CASE i = n
      <4>1. commits'[i].parents = parents
          BY <3>2, <2>2, <1>a
      <4>2. \A k \in DOMAIN parents : parents[k] \in Id
          OBVIOUS
      <4> QED BY <4>1, <4>2, <3>2, <2>1, <1>0
    <3> QED BY <3>1, <3>2, <2>3
  <2>5. \A i, j \in Id' : commits'[i] = commits'[j] => i = j
    <3>1. \A i \in Id : commits[i] # c
        BY <1>4 DEF Stored
    <3>2. \A i, j \in Id : commits[i] = commits[j] => i = j
        BY DEF Inv, TypeOK
    <3> QED BY <3>1, <3>2, <2>2, <2>3
  <2>6. branches' \in [DOMAIN branches' -> Id'] /\ DOMAIN branches' = DOMAIN branches
      BY <1>2, <2>3 DEF Inv, TypeOK
  <2>7. branches'[current'] = head'
      BY <1>2 DEF Inv, TypeOK
  <2>8. Len(commits') <= MaxCommits
      BY <2>1, <2>2, <1>0, RepoAssumption
  <2>9. TypeOK'
      BY <1>2, <2>2, <2>3, <2>4, <2>5, <2>6, <2>8 DEF Inv, TypeOK
  <2> QED BY <1>2, <2>2, <2>3, <2>7, <2>9 DEF Inv, HeadIsTip, c
<1> QED BY <1>3, <1>4

LEMMA ManifestOf == ASSUME Inv PROVE \A i \in Id : commits[i].manifest \in Manifest
<1>1. commits \in Seq(Commit)
    BY DEF Inv, TypeOK
<1>2. \A i \in Id : commits[i] \in Commit
    BY <1>1 DEF Id
<1>3. \A c \in Commit : c.manifest \in Manifest
    BY DEF Commit
<1> QED BY <1>2, <1>3

\* The steps that make a commit: it has the head before the step as a parent.
LEMMA CommitStep ==
    ASSUME Inv, NEW label \in Label,
           \/ \E m \in Manifest : CommitRevision(m, label)
           \/ \E other \in Id : CommitMerge(other, label)
    PROVE  \E parents \in Seq(Id), m \in Manifest :
               /\ MakeCommit(parents, m, label) /\ head \in Range(parents)
               /\ Len(parents) \in 1..2
<1>0. head \in Id /\ \A i \in Id : commits[i].manifest \in Manifest
    BY ManifestOf DEF Inv, TypeOK
<1>1. ASSUME NEW m \in Manifest, CommitRevision(m, label)
      PROVE  \E parents \in Seq(Id) : /\ MakeCommit(parents, m, label) /\ head \in Range(parents)
                                       /\ Len(parents) \in 1..2
  <2>1. <<head>> \in Seq(Id) /\ Len(<<head>>) = 1 /\ 1 \in DOMAIN <<head>> /\ <<head>>[1] = head
      BY <1>0
  <2>2. head \in Range(<<head>>)
      BY <2>1 DEF Range
  <2>3. MakeCommit(<<head>>, m, label)
      BY <1>1 DEF CommitRevision
  <2>4. Len(<<head>>) \in 1..2
      BY <2>1
  <2> QED BY ONLY <2>1, <2>2, <2>3, <2>4
<1>2. ASSUME NEW other \in Id, CommitMerge(other, label)
      PROVE  \E parents \in Seq(Id), m \in Manifest : /\ MakeCommit(parents, m, label) /\ head \in Range(parents)
                                                        /\ Len(parents) \in 1..2
  <2>1. /\ <<head, other>> \in Seq(Id) /\ Len(<<head, other>>) = 2
        /\ 1 \in DOMAIN <<head, other>> /\ <<head, other>>[1] = head
      BY <1>0
  <2>2. head \in Range(<<head, other>>)
      BY <2>1 DEF Range
  <2>3. MakeCommit(<<head, other>>, commits[other].manifest, label)
      BY <1>2 DEF CommitMerge
  <2>4. Len(<<head, other>>) \in 1..2
      BY <2>1
  <2>5. commits[other].manifest \in Manifest
      BY <1>0
  <2> QED BY ONLY <2>1, <2>2, <2>3, <2>4, <2>5
<1> QED BY <1>1, <1>2

\* Every step keeps the invariant.
LEMMA StepInv == Inv /\ [Next]_vars => Inv'
<1> SUFFICES ASSUME Inv, [Next]_vars PROVE Inv'
    OBVIOUS
<1>1. ASSUME NEW name \in Name, CreateBranch(name) PROVE Inv'
  <2>1. commits' = commits /\ head' = head /\ current' = current /\ Id' = Id
      BY <1>1 DEF CreateBranch, Id
  <2>2. /\ DOMAIN branches' = DOMAIN branches \cup {name}
        /\ branches' \in [DOMAIN branches' -> Id']
        /\ branches'[current] = branches[current]
      BY <1>1, <2>1 DEF CreateBranch, Inv, TypeOK
  <2> QED BY <2>1, <2>2 DEF Inv, TypeOK, HeadIsTip
<1>2. ASSUME NEW name \in Name, Checkout(name) PROVE Inv'
    BY <1>2 DEF Checkout, Inv, TypeOK, HeadIsTip, Id
<1>3. ASSUME NEW l \in Label,
             (\E m \in Manifest : CommitRevision(m, l)) \/ (\E other \in Id : CommitMerge(other, l))
      PROVE  Inv'
  <2>1. PICK parents \in Seq(Id), m \in Manifest : MakeCommit(parents, m, l)
      BY <1>3, CommitStep
  <2> QED BY <2>1, MakeCommitInv
<1>4. CASE UNCHANGED vars
    BY <1>4 DEF vars, Inv, TypeOK, HeadIsTip, Id
<1> QED BY <1>1, <1>2, <1>3, <1>4 DEF Next

LEMMA InvHolds == Spec => []Inv
<1> QED BY InitInv, StepInv, PTL DEF Spec

\* Types are kept; history is acyclic and content-addressed.
THEOREM TypeCorrect == Spec => []TypeOK
<1>1. Inv => TypeOK
    BY DEF Inv
<1> QED BY <1>1, InvHolds, PTL

\* HEAD is the tip of the branch it is attached to, whatever is called in
\* whatever order (repo.rs: advance_current_branch, checkout, create_branch).
THEOREM HeadStaysTip == Spec => []HeadIsTip
<1>1. Inv => HeadIsTip
    BY DEF Inv
<1> QED BY <1>1, InvHolds, PTL

--------------------------------------------------------------------------
(* Nothing that was committed on a branch leaves it.                        *)

\* No operation takes a commit off a branch or rewrites a stored commit: a
\* branch stays, or moves onto a commit that has its old tip as a parent.
THEOREM NothingIsLost == Spec => NothingLost
<1> DEFINE Kept == /\ \A n \in DOMAIN branches :
                         \/ branches'[n] = branches[n]
                         \/ branches[n] \in Range(commits'[branches'[n]].parents)
                   /\ \A i \in Id : commits'[i] = commits[i]
<1>1. ASSUME Inv, [Next]_vars PROVE [Kept]_vars
  <2>1. ASSUME NEW name \in Name, CreateBranch(name) PROVE Kept
      BY <2>1 DEF CreateBranch
  <2>2. ASSUME NEW name \in Name, Checkout(name) PROVE Kept
      BY <2>2 DEF Checkout
  <2>3. ASSUME NEW l \in Label,
               (\E m \in Manifest : CommitRevision(m, l)) \/ (\E other \in Id : CommitMerge(other, l))
        PROVE  Kept
    <3>1. PICK parents \in Seq(Id), m \in Manifest :
              MakeCommit(parents, m, l) /\ head \in Range(parents)
        BY <1>1, <2>3, CommitStep
    <3>2. /\ commits'[head'] = [parents |-> parents, manifest |-> m, label |-> l]
          /\ \A i \in Id : commits'[i] = commits[i]
          /\ branches' = [branches EXCEPT ![current] = head']
        BY <1>1, <3>1, MakeCommitInv
    <3>3. head \in Range(commits'[head'].parents)
        BY <3>1, <3>2
    <3>4. branches[current] = head /\ branches \in [DOMAIN branches -> Id]
        BY <1>1 DEF Inv, TypeOK, HeadIsTip
    <3> QED BY <3>2, <3>3, <3>4
  <2> QED BY <1>1, <2>1, <2>2, <2>3 DEF Next
<1>2. NothingLost <=> [][Kept]_vars
    BY DEF NothingLost
<1> HIDE DEF Kept
<1> QED BY <1>1, <1>2, InvHolds, PTL DEF Spec

--------------------------------------------------------------------------
(* The repository implements the abstract history of branches.              *)

\* The parents of every commit, as the abstract history records them.
Made == [i \in Id |-> Range(commits[i].parents)]

LEMMA GrowStep ==
    ASSUME Inv, NEW parents \in Seq(Id), NEW m \in Manifest, NEW l \in Label,
           MakeCommit(parents, m, l), head \in Range(parents)
    PROVE  \E c \in 1..MaxCommits, ps \in SUBSET DOMAIN Made : Abstract!Grow(c, ps)
<1>1. /\ Inv' /\ head' \in Id' /\ Id \subseteq Id' /\ Id' \subseteq Id \cup {head'}
      /\ commits'[head'] = [parents |-> parents, manifest |-> m, label |-> l]
      /\ \A i \in Id : commits'[i] = commits[i]
      /\ branches' = [branches EXCEPT ![current] = head']
      /\ current' = current
    BY MakeCommitInv
<1>2. head' \in 1..MaxCommits
  <2>1. commits' \in Seq(Commit') /\ Len(commits') <= MaxCommits /\ head' \in DOMAIN commits'
      BY <1>1 DEF Inv, TypeOK, Id
  <2> QED BY <2>1, RepoAssumption
<1>3. Range(parents) \in SUBSET DOMAIN Made
    BY DEF Made, Range
<1>4. branches[current] \in Range(parents)
    BY DEF Inv, HeadIsTip
<1>5. commits'[head'].parents = parents
    BY <1>1
<1>6. IF head' \in DOMAIN Made
      THEN Made[head'] = Range(parents) /\ UNCHANGED Made
      ELSE Made' = [d \in DOMAIN Made \cup {head'} |-> IF d = head' THEN Range(parents) ELSE Made[d]]
  <2>1. Made' = [i \in Id' |-> Range(commits'[i].parents)]
      BY DEF Made, Range
  <2>2. CASE head' \in Id
    <3>1. Id' = Id
        BY <1>1, <2>2
    <3>2. Made[head'] = Range(parents)
        BY <1>1, <1>5, <2>2 DEF Made
    <3>3. \A i \in Id : Range(commits'[i].parents) = Range(commits[i].parents)
        BY <1>1
    <3>4. Made' = Made
        BY <2>1, <3>1, <3>3 DEF Made
    <3> QED BY <2>2, <3>2, <3>4 DEF Made
  <2>3. CASE head' \notin Id
    <3>1. Id' = Id \cup {head'}
        BY <1>1
    <3>2. \A i \in Id : Range(commits'[i].parents) = Range(commits[i].parents)
        BY <1>1
    <3> QED BY <2>1, <2>3, <3>1, <3>2, <1>5 DEF Made
  <2> QED BY <2>2, <2>3
<1> QED BY <1>1, <1>2, <1>3, <1>4, <1>6 DEF Abstract!Grow, Made

\* Whatever is called, the repository's branches behave as the abstract history
\* of branches allows: HEAD adds nothing to the branch that is worked on.
THEOREM ImplementsHistory == Spec => Implements
<1>1. Init => Abstract!Init
  <2> SUFFICES ASSUME Init PROVE Abstract!Init
      OBVIOUS
  <2>1. Id = {1} /\ commits[1].parents = <<>>
      BY DEF Init, Id
  <2>2. Range(<<>>) = {}
      BY DEF Range
  <2> QED BY <2>1, <2>2 DEF Init, Abstract!Init
<1>2. ASSUME Inv, [Next]_vars PROVE [Abstract!Next]_(Abstract!vars)
  <2>1. ASSUME NEW name \in Name, CreateBranch(name) PROVE Abstract!Next
    <3>1. Id' = Id /\ commits' = commits
        BY <2>1 DEF CreateBranch, Id
    <3>2. Abstract!Branch(name)
        BY <1>2, <2>1, <3>1 DEF CreateBranch, Abstract!Branch, Inv, HeadIsTip
    <3> QED BY <3>2 DEF Abstract!Next
  <2>2. ASSUME NEW name \in Name, Checkout(name) PROVE Abstract!Next
    <3>1. Id' = Id /\ commits' = commits
        BY <2>2 DEF Checkout, Id
    <3>2. Abstract!Switch(name)
        BY <2>2, <3>1 DEF Checkout, Abstract!Switch
    <3> QED BY <3>2 DEF Abstract!Next
  <2>3. ASSUME NEW l \in Label,
               (\E m \in Manifest : CommitRevision(m, l)) \/ (\E other \in Id : CommitMerge(other, l))
        PROVE  Abstract!Next
    <3>1. PICK parents \in Seq(Id), m \in Manifest :
              MakeCommit(parents, m, l) /\ head \in Range(parents)
        BY <1>2, <2>3, CommitStep
    <3>2. \E c \in 1..MaxCommits, ps \in SUBSET DOMAIN Made : Abstract!Grow(c, ps)
        BY <1>2, <3>1, GrowStep
    <3> QED BY <3>2 DEF Abstract!Next, Made
  <2>4. CASE UNCHANGED vars
      BY <2>4 DEF vars, Id, Abstract!vars
  <2> QED BY <1>2, <2>1, <2>2, <2>3, <2>4 DEF Next
<1> QED BY <1>1, <1>2, InvHolds, PTL DEF Spec, Implements, Abstract!Spec

--------------------------------------------------------------------------
(* Conflicts.                                                               *)

\* merge() reports no conflict exactly when one manifest has all changes of
\* both sides, for any three manifests.
LEMMA CleanMeansMergeable ==
    ASSUME NEW base, NEW ours \in Manifest, NEW theirs \in Manifest
    PROVE  ConflictsOf(base, ours, theirs) = {} <=> Mergeable(base, ours, theirs)
<1>1. ASSUME ConflictsOf(base, ours, theirs) = {} PROVE Mergeable(base, ours, theirs)
  <2> DEFINE m == [f \in Feature |-> IF base[f] # ours[f] THEN ours[f] ELSE theirs[f]]
  <2>1. m \in Manifest
      BY DEF Manifest
  <2>2. \A f \in Changed(base, ours) : m[f] = ours[f]
      BY DEF Changed
  <2>3. \A f \in Changed(base, theirs) : m[f] = theirs[f]
      BY <1>1 DEF Changed, ConflictsOf
  <2> QED BY <2>1, <2>2, <2>3 DEF Mergeable
<1>2. ASSUME Mergeable(base, ours, theirs) PROVE ConflictsOf(base, ours, theirs) = {}
    BY <1>2 DEF Mergeable, ConflictsOf
<1> QED BY <1>1, <1>2

\* The report of merge() is right in every state, whatever merge_base finds.
THEOREM CleanStaysMergeable == Spec => []CleanIsMergeable
<1>1. ASSUME Inv PROVE CleanIsMergeable
  <2>1. \A i \in Id : commits[i].manifest \in Manifest
      BY <1>1, ManifestOf
  <2>2. head \in Id
      BY <1>1 DEF Inv, TypeOK
  <2> QED BY <2>1, <2>2, CleanMeansMergeable DEF CleanIsMergeable, Conflicts
<1> QED BY <1>1, InvHolds, PTL

--------------------------------------------------------------------------
(* History and the walk over it.                                            *)

\* A commit has one or two parents, but for the root.
ParentsFew ==
    /\ Len(commits) >= 1
    /\ \A i \in Id : Len(commits[i].parents) <= 2 /\ (i # 1 => Len(commits[i].parents) >= 1)

\* The graph of commits, as the walks over it need it.
Graph == TypeOK /\ ParentsFew

LEMMA GraphHolds == Spec => []Graph
<1>1. Init => ParentsFew
  <2> SUFFICES ASSUME Init PROVE ParentsFew
      OBVIOUS
  <2>1. Len(commits) = 1 /\ Id = {1} /\ commits[1].parents = <<>>
      BY DEF Init, Id
  <2> QED BY <2>1 DEF ParentsFew
<1>2. ASSUME Inv, ParentsFew, [Next]_vars PROVE ParentsFew'
  <2>1. CASE UNCHANGED commits
      BY <1>2, <2>1 DEF ParentsFew, Id
  <2>2. ASSUME NEW l \in Label,
               (\E m \in Manifest : CommitRevision(m, l)) \/ (\E other \in Id : CommitMerge(other, l))
        PROVE  ParentsFew'
    <3>1. PICK parents \in Seq(Id), m \in Manifest :
              MakeCommit(parents, m, l) /\ Len(parents) \in 1..2
        BY <1>2, <2>2, CommitStep
    <3>a. /\ Inv' /\ Id \subseteq Id' /\ Id' \subseteq Id \cup {head'}
          /\ commits'[head'] = [parents |-> parents, manifest |-> m, label |-> l]
          /\ \A i \in Id : commits'[i] = commits[i]
        BY <1>2, <3>1, MakeCommitInv
    <3>b. commits'[head'].parents = parents
        BY <3>a
    <3>2. /\ Inv' /\ Id \subseteq Id' /\ Id' \subseteq Id \cup {head'}
          /\ \A i \in Id : commits'[i] = commits[i]
        BY <3>a
    <3>3. Len(commits') >= 1
      <4>1. 1 \in Id'
          BY <1>2, <3>2 DEF ParentsFew, Id, Inv, TypeOK
      <4> QED BY <3>2, <4>1 DEF Inv, TypeOK, Id
    <3>4. \A i \in Id' : Len(commits'[i].parents) <= 2 /\ (i # 1 => Len(commits'[i].parents) >= 1)
      <4>1. ASSUME NEW i \in Id', i \in Id
            PROVE  Len(commits'[i].parents) <= 2 /\ (i # 1 => Len(commits'[i].parents) >= 1)
          BY <1>2, <3>2, <4>1 DEF ParentsFew
      <4>2. Len(commits'[head'].parents) <= 2 /\ Len(commits'[head'].parents) >= 1
        <5>0. Len(parents) \in 1..2
            BY Zenon, <3>1
        <5>a. \A k \in 1..2 : k <= 2 /\ k >= 1
            OBVIOUS
        <5>1. Len(parents) <= 2 /\ Len(parents) >= 1
            BY ONLY Zenon, <5>0, <5>a
        <5> QED BY ONLY <3>b, <5>1
      <4> QED BY <3>2, <4>1, <4>2
    <3> QED BY <3>3, <3>4 DEF ParentsFew
  <2>3. \/ UNCHANGED commits
        \/ \E l \in Label : \/ \E m \in Manifest : CommitRevision(m, l)
                            \/ \E other \in Id : CommitMerge(other, l)
      BY <1>2 DEF Next, vars, CreateBranch, Checkout
  <2> QED BY <2>1, <2>2, <2>3
<1>3. Inv => TypeOK
    BY DEF Inv
<1> QED BY <1>1, <1>2, <1>3, InvHolds, PTL DEF Spec, Graph

LEMMA GraphFacts ==
    ASSUME Graph
    PROVE  /\ Len(commits) \in Nat /\ Len(commits) >= 1 /\ Id = 1..Len(commits)
           /\ \A i \in Id : /\ commits[i].parents \in Seq(Id)
                            /\ Range(commits[i].parents) \subseteq 1..(i - 1)
                            /\ Len(commits[i].parents) <= 2
                            /\ i # 1 => Range(commits[i].parents) # {}
<1>1. /\ Len(commits) \in Nat /\ Len(commits) >= 1 /\ Id = 1..Len(commits)
      /\ commits \in Seq(Commit)
    BY DEF Graph, TypeOK, ParentsFew, Id
<1>2. ASSUME NEW i \in Id
      PROVE  /\ commits[i].parents \in Seq(Id)
             /\ Range(commits[i].parents) \subseteq 1..(i - 1)
             /\ Len(commits[i].parents) <= 2
             /\ i # 1 => Range(commits[i].parents) # {}
  <2> DEFINE ps == commits[i].parents
  <2>0. commits[i] \in Commit
      BY <1>1
  <2>1. ps \in Seq(Nat)
      BY <2>0 DEF Commit
  <2>2. \A k \in DOMAIN ps : ps[k] \in 1..(i - 1)
      BY DEF Graph, TypeOK
  <2>3. Len(ps) <= 2 /\ (i # 1 => Len(ps) >= 1)
      BY DEF Graph, ParentsFew
  <2> HIDE DEF ps
  <2>4. \A k \in 1..Len(ps) : ps[k] \in Id
      BY <1>1, <2>1, <2>2
  <2>5. ps \in Seq(Id)
      BY <2>1, <2>4
  <2>6. Range(ps) \subseteq 1..(i - 1)
      BY <2>2 DEF Range
  <2>7. i # 1 => 1 \in DOMAIN ps /\ ps[1] \in Range(ps)
      BY <2>1, <2>3 DEF Range
  <2> QED BY <2>3, <2>5, <2>6, <2>7 DEF ps
<1> QED BY <1>1, <1>2

\* The recursion of History, for the ids up to n.
IsHistory(g, n) ==
    g = [i \in 1..n |-> {i} \cup UNION {g[p] : p \in Range(commits[i].parents)}]

LEMMA HistoryExists ==
    ASSUME Graph
    PROVE  \E g : IsHistory(g, Len(commits))
<1> DEFINE S == {n \in Nat : n <= Len(commits) => \E g : IsHistory(g, n)}
<1>1. 0 \in S
  <2>1. 1..0 = {}
      OBVIOUS
  <2>2. IsHistory([i \in {} |-> {}], 0)
      BY <2>1 DEF IsHistory
  <2> QED BY <2>2
<1>2. ASSUME NEW n \in Nat, n \in S PROVE n + 1 \in S
  <2>1. CASE n + 1 <= Len(commits)
    <3>1. PICK g : IsHistory(g, n)
        BY <1>2, <2>1, GraphFacts
    <3> DEFINE Up(f, i) == {i} \cup UNION {f[p] : p \in Range(commits[i].parents)}
               h == [i \in 1..(n + 1) |-> IF i = n + 1 THEN Up(g, i) ELSE g[i]]
    <3>2. ASSUME NEW i \in 1..(n + 1) PROVE h[i] = Up(h, i)
      <4>1. i \in Id
          BY <2>1, GraphFacts
      <4>2. ASSUME NEW p \in Range(commits[i].parents) PROVE h[p] = g[p]
        <5>1. p \in 1..(i - 1)
            BY <4>1, GraphFacts
        <5>2. p \in 1..(n + 1) /\ p # n + 1
            BY <5>1
        <5> QED BY <5>2
      <4>3. Up(h, i) = Up(g, i)
          BY <4>2
      <4>4. i \in 1..n => g[i] = Up(g, i)
          BY <3>1 DEF IsHistory
      <4>5. h[i] = IF i = n + 1 THEN Up(g, i) ELSE g[i]
          OBVIOUS
      <4>6. i = n + 1 \/ i \in 1..n
          OBVIOUS
      <4> HIDE DEF Up, h
      <4> QED BY <4>3, <4>4, <4>5, <4>6
    <3>3. h = [i \in 1..(n + 1) |-> Up(h, i)]
      <4> HIDE DEF Up
      <4> QED BY <3>2
    <3>4. IsHistory(h, n + 1)
        BY <3>3 DEF IsHistory
    <3> QED BY <3>4
  <2> QED BY <2>1
<1>3. \A n \in Nat : n \in S
  <2> HIDE DEF S
  <2> QED BY <1>1, <1>2, InductionOverSet
<1> QED BY <1>3, GraphFacts

LEMMA HistoryUnfold ==
    ASSUME Graph
    PROVE  \A i \in Id : History[i] = {i} \cup UNION {History[p] : p \in Range(commits[i].parents)}
<1>1. \E g : g = [i \in Id |-> {i} \cup UNION {g[p] : p \in Range(commits[i].parents)}]
    BY HistoryExists, GraphFacts DEF IsHistory
<1>2. History = [i \in Id |-> {i} \cup UNION {History[p] : p \in Range(commits[i].parents)}]
    BY <1>1 DEF History
<1> QED BY <1>2

\* The history of a commit has older ids, the root among them, and the parents
\* and the history of each commit in it.
LEMMA HistoryShape ==
    ASSUME Graph
    PROVE  \A i \in Id : /\ i \in History[i] /\ 1 \in History[i]
                         /\ History[i] \subseteq 1..i /\ History[i] \subseteq Id
                         /\ \A j \in History[i] : /\ History[j] \subseteq History[i]
                                                  /\ Range(commits[j].parents) \subseteq History[i]
<1> DEFINE Shape(i) == /\ i \in History[i] /\ 1 \in History[i]
                       /\ History[i] \subseteq 1..i
                       /\ \A j \in History[i] : History[j] \subseteq History[i]
           S == {i \in Nat : i \in Id => Shape(i)}
<1>1. ASSUME NEW n \in Nat, \A m \in 0..(n - 1) : m \in S PROVE n \in S
  <2>1. CASE n \in Id
    <3> DEFINE ps == Range(commits[n].parents)
    <3>1. History[n] = {n} \cup UNION {History[p] : p \in ps}
        BY <2>1, HistoryUnfold
    <3>2. ps \subseteq 1..(n - 1) /\ (n # 1 => ps # {})
        BY <2>1, GraphFacts
    <3>3. \A p \in ps : p \in Id /\ p \in 1..(n - 1)
        BY <2>1, <3>2, GraphFacts
    <3>4. \A p \in ps : Shape(p)
        BY <1>1, <3>3
    <3> HIDE DEF ps
    <3>5. n \in History[n] /\ 1 \in History[n]
        BY <3>1, <3>2, <3>4
    <3>6. ASSUME NEW j \in History[n] PROVE j \in 1..n
      <4>1. j = n \/ \E p \in ps : j \in History[p]
          BY <3>1
      <4>2. ASSUME NEW p \in ps, j \in History[p] PROVE j \in 1..n
        <5>1. p \in 1..(n - 1) /\ j \in 1..p
            BY <3>3, <3>4, <4>2
        <5> QED BY <5>1
      <4>3. n \in 1..n
          BY <2>1, GraphFacts
      <4> QED BY <4>1, <4>2, <4>3
    <3>7. \A j \in History[n] : History[j] \subseteq History[n]
        BY <3>1, <3>4
    <3> QED BY <3>5, <3>6, <3>7
  <2> QED BY <2>1
<1>2. \A n \in Nat : n \in S
  <2> HIDE DEF S
  <2> QED BY <1>1, StrongInductionOverSet
<1>3. \A i \in Id : Shape(i)
  <2> HIDE DEF Shape
  <2> QED BY <1>2, GraphFacts
<1>4. ASSUME NEW i \in Id
      PROVE  /\ History[i] \subseteq Id
             /\ \A j \in History[i] : Range(commits[j].parents) \subseteq History[i]
  <2>1. History[i] \subseteq Id
      BY <1>3, GraphFacts
  <2>2. ASSUME NEW j \in History[i], NEW p \in Range(commits[j].parents)
        PROVE  p \in History[i]
    <3>0. j \in Id
        BY <2>1
    <3>a. p \in 1..(j - 1)
        BY <3>0, GraphFacts
    <3>1. j \in Id /\ p \in Id
        BY <3>0, <3>a, GraphFacts
    <3>2. p \in History[p]
        BY <1>3, <3>1
    <3>3. p \in History[j]
        BY <3>1, <3>2, HistoryUnfold
    <3> QED BY <1>3, <3>3
  <2> QED BY <2>1, <2>2
<1> QED BY <1>3, <1>4

\* It is the least set with the commit and the parents of each of its members.
LEMMA HistoryIsLeast ==
    ASSUME Graph, NEW i \in Id, NEW T, i \in T,
           \A j \in T : j \in Id => Range(commits[j].parents) \subseteq T
    PROVE  History[i] \subseteq T
<1> DEFINE S == {n \in Nat : n \in Id /\ n \in T => History[n] \subseteq T}
<1>1. ASSUME NEW n \in Nat, \A m \in 0..(n - 1) : m \in S PROVE n \in S
  <2>1. CASE n \in Id /\ n \in T
    <3>1. ASSUME NEW p \in Range(commits[n].parents) PROVE History[p] \subseteq T
      <4>1. p \in 1..(n - 1) /\ p \in T
          BY <2>1, GraphFacts
      <4>2. p \in Id /\ p \in 0..(n - 1)
          BY <2>1, <4>1, GraphFacts
      <4> QED BY <1>1, <4>1, <4>2
    <3> QED BY <2>1, <3>1, HistoryUnfold
  <2> QED BY <2>1
<1>2. \A n \in Nat : n \in S
  <2> HIDE DEF S
  <2> QED BY <1>1, StrongInductionOverSet
<1> QED BY <1>2, GraphFacts

\* What a sequence is once its last element is taken off, or one appended.
LEMMA TakeLast ==
    ASSUME NEW S, NEW q \in Seq(S), q # <<>>
    PROVE  /\ q[Len(q)] \in S /\ SubSeq(q, 1, Len(q) - 1) \in Seq(S)
           /\ Len(SubSeq(q, 1, Len(q) - 1)) = Len(q) - 1
           /\ Range(q) = Range(SubSeq(q, 1, Len(q) - 1)) \cup {q[Len(q)]}
<1> DEFINE front == SubSeq(q, 1, Len(q) - 1)
<1>1. Len(q) \in Nat /\ Len(q) >= 1 /\ DOMAIN q = 1..Len(q) /\ \A i \in 1..Len(q) : q[i] \in S
    OBVIOUS
<1>2. /\ front \in Seq(S) /\ Len(front) = Len(q) - 1
      /\ \A i \in 1..(Len(q) - 1) : front[i] = q[i]
    BY <1>1
<1> HIDE DEF front
<1>3. DOMAIN front = 1..(Len(q) - 1)
    BY <1>1, <1>2
<1>4. ASSUME NEW x \in Range(q) PROVE x \in Range(front) \cup {q[Len(q)]}
  <2>1. PICK i \in 1..Len(q) : q[i] = x
      BY <1>1 DEF Range
  <2>2. i = Len(q) \/ i \in 1..(Len(q) - 1)
    <3>1. \A L \in Nat : \A k \in 1..L : k = L \/ k \in 1..(L - 1)
        OBVIOUS
    <3> QED BY ONLY Zenon, <1>1, <2>1, <3>1
  <2> QED BY <1>2, <1>3, <2>1, <2>2 DEF Range
<1>5. Range(front) \subseteq Range(q)
    BY <1>1, <1>2, <1>3 DEF Range
<1>6. q[Len(q)] \in Range(q)
    BY <1>1 DEF Range
<1> QED BY <1>1, <1>2, <1>4, <1>5, <1>6 DEF front

LEMMA RangeOfAppend ==
    ASSUME NEW S, NEW q \in Seq(S), NEW e \in S
    PROVE  Range(Append(q, e)) = Range(q) \cup {e}
<1>1. Append(q, e) = q \o <<e>> /\ <<e>> \in Seq(S)
    BY AppendIsConcat
<1>2. Range(<<e>>) = {e}
    BY DEF Range
<1>3. Range(q \o <<e>>) = Range(q) \cup Range(<<e>>)
    BY <1>1, RangeConcatenation, Zenon
<1> QED BY <1>1, <1>2, <1>3, Zenon

\* Where the walk from s is after n steps: it has seen each id once, only ids
\* of the history, and has seen or will see the parents of each. A step takes
\* an id off the stack, and pushes at most two when it sees a new one.
Walked(w, n, s) ==
    /\ w \in [seen: Seq(Id), stack: Seq(Id)]
    /\ \A k, l \in 1..Len(w.seen) : w.seen[k] = w.seen[l] => k = l
    /\ Range(w.seen) \cup Range(w.stack) \subseteq History[s]
    /\ \A j \in Range(w.seen) : Range(commits[j].parents) \subseteq Range(w.seen) \cup Range(w.stack)
    /\ s \in Range(w.seen) \cup Range(w.stack)
    /\ w.stack = <<>> \/ Len(w.stack) + n <= 2 * Len(w.seen) + 1

\* The walk starts with s and continues with its last parent.
Begun(w, s) ==
    /\ w.seen = <<>> => w.stack = <<s>>
    /\ w.seen # <<>> => w.seen[1] = s
    /\ Len(w.seen) = 1 => w.stack = commits[s].parents
    /\ Len(w.seen) >= 2 /\ Len(commits[s].parents) = 2 => w.seen[2] = commits[s].parents[2]

\* Where no commit has two parents, the walk goes down a line.
Lined(w) ==
    /\ Len(w.stack) <= 1
    /\ \A k, l \in 1..Len(w.seen) : k < l => w.seen[k] > w.seen[l]
    /\ \A j \in Range(w.seen), t \in Range(w.stack) : t < j

\* The three ways a step goes.
LEMMA VisitCases ==
    ASSUME Graph, NEW w \in [seen: Seq(Id), stack: Seq(Id)]
    PROVE  \/ w.stack = <<>> /\ Visit(w) = w
           \/ \E top \in Id, rest \in Seq(Id) :
                  /\ w.stack # <<>> /\ top = w.stack[Len(w.stack)]
                  /\ Len(rest) = Len(w.stack) - 1
                  /\ Range(w.stack) = Range(rest) \cup {top}
                  /\ \/ top \in Range(w.seen) /\ Visit(w) = [seen |-> w.seen, stack |-> rest]
                     \/ /\ top \notin Range(w.seen)
                        /\ Visit(w) = [seen |-> Append(w.seen, top),
                                       stack |-> rest \o commits[top].parents]
<1>1. CASE w.stack = <<>>
    BY <1>1 DEF Visit
<1>2. CASE w.stack # <<>>
  <2> DEFINE top == w.stack[Len(w.stack)]
             rest == SubSeq(w.stack, 1, Len(w.stack) - 1)
  <2>0. w.stack \in Seq(Id) /\ w.seen \in Seq(Id)
      OBVIOUS
  <2>1. /\ top \in Id /\ rest \in Seq(Id) /\ Len(rest) = Len(w.stack) - 1
        /\ Range(w.stack) = Range(rest) \cup {top}
      BY <1>2, <2>0, TakeLast, Zenon
  <2>2. top \in Range(w.seen) => Visit(w) = [w EXCEPT !.stack = rest]
      BY <1>2 DEF Visit
  <2>3. top \notin Range(w.seen) => Visit(w) = [seen |-> Append(w.seen, top),
                                                stack |-> rest \o commits[top].parents]
      BY <1>2 DEF Visit
  <2>a. top = w.stack[Len(w.stack)]
      OBVIOUS
  <2> HIDE DEF top, rest
  <2>4. [w EXCEPT !.stack = rest] = [seen |-> w.seen, stack |-> rest]
      BY <2>1
  <2> QED BY <1>2, <2>a, <2>1, <2>2, <2>3, <2>4
<1> QED BY <1>1, <1>2

\* A step that only takes an id off the stack.
LEMMA PopKeepsWalk ==
    ASSUME Graph, NEW s \in Id, NEW n \in Nat, NEW w, Walked(w, n, s),
           NEW top \in Range(w.seen), NEW rest \in Seq(Id),
           w.stack # <<>>, Len(rest) = Len(w.stack) - 1,
           Range(w.stack) = Range(rest) \cup {top}
    PROVE  Walked([seen |-> w.seen, stack |-> rest], n + 1, s)
<1> DEFINE v == [seen |-> w.seen, stack |-> rest]
<1>0. v.seen = w.seen /\ v.stack = rest
    OBVIOUS
<1>1. w \in [seen: Seq(Id), stack: Seq(Id)]
    BY DEF Walked
<1>2. v \in [seen: Seq(Id), stack: Seq(Id)]
    BY <1>1
<1>3. Len(w.stack) \in Nat /\ Len(w.seen) \in Nat
    BY <1>1
<1>4. Range(w.seen) \cup Range(w.stack) = Range(w.seen) \cup Range(rest)
    OBVIOUS
<1>5. Len(rest) + (n + 1) <= 2 * Len(w.seen) + 1
  <2>1. Len(w.stack) + n <= 2 * Len(w.seen) + 1
      BY DEF Walked
  <2>2. \A x, y, z \in Nat : x + n <= 2 * z + 1 /\ y = x - 1 => y + (n + 1) <= 2 * z + 1
      OBVIOUS
  <2>3. Len(rest) \in Nat
      OBVIOUS
  <2> QED BY ONLY Zenon, <1>3, <2>1, <2>2, <2>3, Len(rest) = Len(w.stack) - 1
<1> HIDE DEF v
<1>6. /\ \A k, l \in 1..Len(v.seen) : v.seen[k] = v.seen[l] => k = l
      /\ Range(v.seen) \cup Range(v.stack) \subseteq History[s]
      /\ \A j \in Range(v.seen) : Range(commits[j].parents) \subseteq Range(v.seen) \cup Range(v.stack)
      /\ s \in Range(v.seen) \cup Range(v.stack)
    BY <1>0, <1>4 DEF Walked
<1>7. Walked(v, n + 1, s)
    BY <1>0, <1>2, <1>5, <1>6 DEF Walked
<1> QED BY <1>7 DEF v

\* A step that sees an id.
LEMMA PushKeepsWalk ==
    ASSUME Graph, NEW s \in Id, NEW n \in Nat, NEW w, Walked(w, n, s),
           NEW top \in Id, top \notin Range(w.seen), NEW rest \in Seq(Id),
           w.stack # <<>>, Len(rest) = Len(w.stack) - 1,
           Range(w.stack) = Range(rest) \cup {top}
    PROVE  Walked([seen |-> Append(w.seen, top), stack |-> rest \o commits[top].parents], n + 1, s)
<1> DEFINE seen == Append(w.seen, top)
           stack == rest \o commits[top].parents
           v == [seen |-> seen, stack |-> stack]
<1>0. v.seen = seen /\ v.stack = stack
    OBVIOUS
<1>1. w.seen \in Seq(Id) /\ w.stack \in Seq(Id) /\ Len(w.stack) \in Nat /\ Len(w.seen) \in Nat
    BY DEF Walked
<1>2. PICK ps : ps = commits[top].parents
    OBVIOUS
<1>3. ps \in Seq(Id) /\ Len(ps) \in Nat /\ Len(ps) <= 2
    BY <1>2, GraphFacts
<1>4. seen \in Seq(Id) /\ Len(seen) = Len(w.seen) + 1 /\ Range(seen) = Range(w.seen) \cup {top}
    BY <1>1, AppendProperties, RangeOfAppend
<1>5. stack \in Seq(Id) /\ Len(stack) = Len(rest) + Len(ps) /\ Range(stack) = Range(rest) \cup Range(ps)
  <2>1. Range(rest \o ps) = Range(rest) \cup Range(ps)
      BY <1>3, RangeConcatenation, ZenonT(30)
  <2>2. rest \o ps \in Seq(Id) /\ Len(rest \o ps) = Len(rest) + Len(ps)
      BY <1>3
  <2> QED BY ONLY Zenon, <1>2, <2>1, <2>2 DEF stack
<1>6. ASSUME NEW k \in 1..Len(seen), NEW l \in 1..Len(seen), seen[k] = seen[l] PROVE k = l
  <2>1. /\ \A i \in 1..Len(w.seen) : seen[i] = w.seen[i] /\ w.seen[i] \in Range(w.seen)
        /\ seen[Len(w.seen) + 1] = top
    <3>1. DOMAIN w.seen = 1..Len(w.seen)
        BY <1>1
    <3> QED BY <1>1, <3>1, AppendProperties DEF Range
  <2>0. \A L \in Nat : \A i \in 1..(L + 1) : i = L + 1 \/ i \in 1..L
      OBVIOUS
  <2>a. Len(w.seen) \in Nat /\ k \in 1..(Len(w.seen) + 1) /\ l \in 1..(Len(w.seen) + 1)
      BY Zenon, <1>1, <1>4
  <2>2. k = Len(w.seen) + 1 \/ k \in 1..Len(w.seen)
      BY ONLY Zenon, <2>0, <2>a
  <2>3. l = Len(w.seen) + 1 \/ l \in 1..Len(w.seen)
      BY ONLY Zenon, <2>0, <2>a
  <2>4. \A i, j \in 1..Len(w.seen) : w.seen[i] = w.seen[j] => i = j
      BY DEF Walked
  <2> HIDE DEF seen
  <2> QED BY <1>6, <2>1, <2>2, <2>3, <2>4
<1>7. top \in History[s] /\ Range(ps) \subseteq History[s]
  <2>1. top \in History[s]
      BY DEF Walked
  <2> QED BY <1>2, <2>1, HistoryShape
<1>8. Len(stack) + (n + 1) <= 2 * Len(seen) + 1
  <2>1. Len(w.stack) + n <= 2 * Len(w.seen) + 1
      BY DEF Walked
  <2>2. \A x, y, z, u \in Nat :
            x + n <= 2 * z + 1 /\ y = x - 1 /\ u <= 2 => (y + u) + (n + 1) <= 2 * (z + 1) + 1
      OBVIOUS
  <2>3. Len(rest) \in Nat
      OBVIOUS
  <2> QED BY ONLY Zenon, <1>1, <1>3, <1>4, <1>5, <2>1, <2>2, <2>3, Len(rest) = Len(w.stack) - 1
<1> HIDE DEF seen, stack
<1>9. v \in [seen: Seq(Id), stack: Seq(Id)]
    BY <1>4, <1>5
<1> HIDE DEF v
<1>10. Range(v.seen) \cup Range(v.stack) \subseteq History[s]
    BY <1>0, <1>4, <1>5, <1>7 DEF Walked
<1>11. \A j \in Range(v.seen) : Range(commits[j].parents) \subseteq Range(v.seen) \cup Range(v.stack)
    BY <1>0, <1>2, <1>4, <1>5 DEF Walked
<1>12. s \in Range(v.seen) \cup Range(v.stack)
    BY <1>0, <1>4, <1>5 DEF Walked
<1>13. Walked(v, n + 1, s)
    BY <1>0, <1>6, <1>8, <1>9, <1>10, <1>11, <1>12 DEF Walked
<1> QED BY <1>13 DEF v, seen, stack

LEMMA StepKeepsWalk ==
    ASSUME Graph, NEW s \in Id, NEW n \in Nat, NEW w, Walked(w, n, s)
    PROVE  Walked(Visit(w), n + 1, s)
<1>1. w \in [seen: Seq(Id), stack: Seq(Id)]
    BY DEF Walked
<1>2. CASE w.stack = <<>> /\ Visit(w) = w
    BY <1>2 DEF Walked
<1>3. CASE w.stack # <<>>
  <2>1. PICK top \in Id, rest \in Seq(Id) :
            /\ Len(rest) = Len(w.stack) - 1
            /\ Range(w.stack) = Range(rest) \cup {top}
            /\ \/ top \in Range(w.seen) /\ Visit(w) = [seen |-> w.seen, stack |-> rest]
               \/ /\ top \notin Range(w.seen)
                  /\ Visit(w) = [seen |-> Append(w.seen, top),
                                 stack |-> rest \o commits[top].parents]
      BY <1>1, <1>3, VisitCases
  <2>2. top \in Range(w.seen) => Walked([seen |-> w.seen, stack |-> rest], n + 1, s)
      BY <1>3, <2>1, PopKeepsWalk
  <2>3. top \notin Range(w.seen)
            => Walked([seen |-> Append(w.seen, top), stack |-> rest \o commits[top].parents], n + 1, s)
      BY <1>3, <2>1, PushKeepsWalk
  <2> QED BY <2>1, <2>2, <2>3
<1> QED BY <1>1, <1>2, <1>3, VisitCases

\* The first two ids of the walk stay the commit and its last parent.
LEMMA StepKeepsBegun ==
    ASSUME Graph, NEW s \in Id, NEW w \in [seen: Seq(Id), stack: Seq(Id)], Begun(w, s)
    PROVE  Begun(Visit(w), s)
<1>1. CASE w.stack = <<>> /\ Visit(w) = w
    BY <1>1
<1>2. ASSUME NEW top \in Id, NEW rest \in Seq(Id),
             w.stack # <<>>, top = w.stack[Len(w.stack)],
             Len(rest) = Len(w.stack) - 1,
             Range(w.stack) = Range(rest) \cup {top}
      PROVE  /\ top \in Range(w.seen) /\ Visit(w) = [seen |-> w.seen, stack |-> rest]
                 => Begun(Visit(w), s)
             /\ Visit(w) = [seen |-> Append(w.seen, top), stack |-> rest \o commits[top].parents]
                 => Begun(Visit(w), s)
  <2>0. PICK seen \in Seq(Id), L \in Nat : seen = w.seen /\ L = Len(seen)
      OBVIOUS
  <2>a. /\ L = 0 => w.stack = <<s>>
        /\ L # 0 => seen[1] = s
        /\ L = 1 => w.stack = commits[s].parents
        /\ L >= 2 /\ Len(commits[s].parents) = 2 => seen[2] = commits[s].parents[2]
    <3>1. (seen = <<>>) = (L = 0)
        BY <2>0
    <3> QED BY <2>0, <3>1 DEF Begun
  <2>1. ASSUME top \in Range(seen), Visit(w) = [seen |-> seen, stack |-> rest]
        PROVE  Begun(Visit(w), s)
    <3>1. L # 0 /\ seen # <<>> /\ seen[1] = s
        BY <2>0, <2>1 DEF Range, Begun
    <3>2. L # 1
      <4> SUFFICES ASSUME L = 1 PROVE FALSE
          OBVIOUS
      <4>1. w.stack = commits[s].parents
          BY <2>0 DEF Begun
      <4>2. top \in 1..(s - 1)
          BY <1>2, <4>1, GraphFacts
      <4>3. DOMAIN seen = {1}
          BY <2>0
      <4>4. top = s
          BY <2>1, <3>1, <4>3 DEF Range
      <4>5. s \in Nat
          BY GraphFacts
      <4> QED BY <4>2, <4>4, <4>5
    <3> QED BY <2>0, <2>1, <3>1, <3>2 DEF Begun
  <2>2. ASSUME Visit(w) = [seen |-> Append(seen, top), stack |-> rest \o commits[top].parents]
        PROVE  Begun(Visit(w), s)
    <3>1. PICK new \in Seq(Id) : new = Append(seen, top)
        BY <2>0, AppendProperties
    <3>2. /\ Len(new) = L + 1 /\ new[L + 1] = top /\ new # <<>>
          /\ \A i \in 1..L : new[i] = seen[i]
        BY <2>0, <3>1, AppendProperties
    <3>3. Visit(w).seen = new /\ Visit(w).stack = rest \o commits[top].parents
        BY <2>2, <3>1
    <3>4. CASE L = 0
      <4>1. w.stack = <<s>>
          BY <2>a, <3>4
      <4>2. top = s /\ Len(rest) = 0
          BY <1>2, <4>1
      <4>3. commits[s].parents \in Seq(Id) /\ rest = <<>>
          BY <4>2, GraphFacts
      <4>4. rest \o commits[s].parents = commits[s].parents
          BY <4>3
      <4> QED BY <3>2, <3>3, <3>4, <4>2, <4>4 DEF Begun
    <3>5. CASE L = 1
      <4>1. w.stack = commits[s].parents /\ seen[1] = s
          BY <2>a, <3>5
      <4>2. Len(new) = 2 /\ new[1] = s /\ new[2] = top
          BY <3>2, <3>5, <4>1
      <4>3. Len(commits[s].parents) = 2 => top = commits[s].parents[2]
          BY <1>2, <4>1
      <4>4. Len(new) # 1
          BY <4>2
      <4> QED BY ONLY <3>2, <3>3, <4>2, <4>3, <4>4 DEF Begun
    <3>6. CASE L >= 2
      <4>1. new[1] = seen[1] /\ new[2] = seen[2]
          BY <3>2, <3>6
      <4>2. seen[1] = s /\ (Len(commits[s].parents) = 2 => seen[2] = commits[s].parents[2])
          BY <2>a, <3>6
      <4>3. Len(new) # 1
          BY <3>2, <3>6
      <4> QED BY <3>2, <3>3, <4>1, <4>2, <4>3 DEF Begun
    <3> QED BY <3>4, <3>5, <3>6
  <2> QED BY <2>0, <2>1, <2>2
<1> QED BY <1>1, <1>2, VisitCases

\* A walk on a line goes on down.
LEMMA StepKeepsLine ==
    ASSUME Graph, NEW s \in Id, NEW n \in Nat, NEW w, Walked(w, n, s), Lined(w),
           \A c \in History[s] : Len(commits[c].parents) <= 1
    PROVE  Lined(Visit(w))
<1>0. w \in [seen: Seq(Id), stack: Seq(Id)] /\ Id = 1..Len(commits)
    BY GraphFacts DEF Walked
<1>1. CASE w.stack = <<>> /\ Visit(w) = w
    BY <1>1
<1>2. ASSUME NEW top \in Id, NEW rest \in Seq(Id),
             w.stack # <<>>, Len(rest) = Len(w.stack) - 1,
             Range(w.stack) = Range(rest) \cup {top}
      PROVE  /\ top \notin Range(w.seen)
             /\ Visit(w) = [seen |-> Append(w.seen, top), stack |-> rest \o commits[top].parents]
                 => Lined(Visit(w))
  <2>a. PICK seen \in Seq(Id), L \in Nat : seen = w.seen /\ L = Len(seen)
      BY <1>0
  <2>b. PICK ps \in Seq(Id) : ps = commits[top].parents
      BY GraphFacts
  <2>0. seen = w.seen /\ L = Len(seen) /\ ps = commits[top].parents
      BY <2>a, <2>b
  <2>1. \A j \in Range(seen) : top < j
      BY <1>2, <2>0 DEF Lined
  <2>2. top \notin Range(seen)
      BY <1>0, <2>1
  <2>3. Len(ps) <= 1 /\ Range(ps) \subseteq 1..(top - 1)
    <3>1. top \in History[s]
        BY <1>2 DEF Walked
    <3> QED BY <2>0, <3>1, GraphFacts
  <2>4. rest \o ps = ps
    <3>1. Len(w.stack) <= 1 /\ Len(w.stack) \in Nat /\ Len(rest) \in Nat
        BY <1>0 DEF Lined
    <3>2. \A x, y \in Nat : x <= 1 /\ y = x - 1 => y = 0
        OBVIOUS
    <3>3. Len(rest) = 0
        BY ONLY Zenon, <3>1, <3>2, <1>2
    <3>4. rest = <<>>
        BY <3>3
    <3> QED BY <3>4
  <2>5. PICK new \in Seq(Id) : new = Append(seen, top)
      BY <2>0, AppendProperties
  <2>6. /\ Len(new) = L + 1 /\ new[L + 1] = top
        /\ \A i \in 1..L : new[i] = seen[i] /\ new[i] \in Range(seen)
        /\ Range(new) = Range(seen) \cup {top}
    <3>1. DOMAIN seen = 1..L
        BY <2>0
    <3>2. Len(new) = L + 1 /\ new[L + 1] = top /\ \A i \in 1..L : new[i] = seen[i]
        BY <2>0, <2>5, AppendProperties
    <3>3. Range(new) = Range(seen) \cup {top}
      <4>1. Range(Append(seen, top)) = Range(seen) \cup {top}
          BY RangeOfAppend
      <4> QED BY <2>5, <4>1, Zenon
    <3>4. \A i \in 1..L : seen[i] \in Range(seen)
        BY <3>1 DEF Range
    <3> QED BY <3>2, <3>3, <3>4
  <2>7. ASSUME NEW k \in 1..Len(new), NEW l \in 1..Len(new), k < l PROVE new[k] > new[l]
    <3>0. \A i, j \in 1..L : i < j => seen[i] > seen[j]
        BY <2>0 DEF Lined
    <3>1. k \in 1..L
        BY <2>6, <2>7
    <3>2. l = L + 1 \/ l \in 1..L
        BY <2>6, <2>7
    <3>3. CASE l = L + 1
      <4>1. new[l] = top /\ new[k] \in Range(seen)
          BY <2>6, <3>1, <3>3
      <4>2. top < new[k]
          BY <2>1, <4>1
      <4>3. new[k] \in Nat /\ top \in Nat
          BY <1>0, <2>5, <3>1, <2>6, SMTT(30)
      <4> QED BY <4>1, <4>2, <4>3
    <3>4. CASE l \in 1..L
        BY <2>6, <2>7, <3>0, <3>1, <3>4
    <3> QED BY <3>2, <3>3, <3>4
  <2>8. ASSUME NEW j \in Range(new), NEW t \in Range(ps) PROVE t < j
    <3>1. j = top \/ (j \in Range(seen) /\ top < j)
        BY <2>1, <2>6
    <3>2. t \in Nat /\ t < top /\ top \in Nat
        BY <1>0, <2>3
    <3>3. j \in Nat
      <4>1. PICK i \in DOMAIN new : new[i] = j
          BY DEF Range
      <4> QED BY <1>0, <2>5, <4>1, SMTT(30)
    <3> QED BY <3>1, <3>2, <3>3
  <2>9. ASSUME Visit(w) = [seen |-> Append(w.seen, top), stack |-> rest \o commits[top].parents]
        PROVE  Lined(Visit(w))
    <3>1. Visit(w).seen = new /\ Visit(w).stack = ps
        BY <2>0, <2>4, <2>5, <2>9
    <3> QED BY <2>3, <2>7, <2>8, <3>1 DEF Lined
  <2> QED BY <2>0, <2>2, <2>9
<1> QED BY <1>0, <1>1, <1>2, VisitCases

\* The walk from s, its first n steps.
Begin(s) == [seen |-> <<>>, stack |-> <<s>>]
IsWalk(g, n, s) == g = [k \in 0..n |-> IF k = 0 THEN Begin(s) ELSE Visit(g[k - 1])]

LEMMA WalkExists ==
    ASSUME NEW s
    PROVE  \A n \in Nat : \E g : IsWalk(g, n, s)
<1> DEFINE S == {n \in Nat : \E g : IsWalk(g, n, s)}
           Step(f, k) == IF k = 0 THEN Begin(s) ELSE Visit(f[k - 1])
<1>1. 0 \in S
  <2> DEFINE g == [k \in 0..0 |-> Begin(s)]
  <2>1. g = [k \in 0..0 |-> Step(g, k)]
      OBVIOUS
  <2>2. IsWalk(g, 0, s)
      BY <2>1 DEF IsWalk
  <2> QED BY <2>2
<1>2. ASSUME NEW n \in Nat, n \in S PROVE n + 1 \in S
  <2>1. PICK g : IsWalk(g, n, s)
      BY <1>2
  <2> DEFINE h == [k \in 0..(n + 1) |-> IF k = n + 1 THEN Step(g, k) ELSE g[k]]
  <2>2. ASSUME NEW k \in 0..(n + 1) PROVE h[k] = Step(h, k)
    <3>1. k # 0 => h[k - 1] = g[k - 1]
        OBVIOUS
    <3>2. Step(h, k) = Step(g, k)
        BY <3>1
    <3>3. k \in 0..n => g[k] = Step(g, k)
        BY <2>1 DEF IsWalk
    <3>4. h[k] = IF k = n + 1 THEN Step(g, k) ELSE g[k]
        OBVIOUS
    <3>5. k = n + 1 \/ k \in 0..n
        OBVIOUS
    <3> HIDE DEF Step, h
    <3> QED BY <3>2, <3>3, <3>4, <3>5
  <2>3. h = [k \in 0..(n + 1) |-> Step(h, k)]
    <3> HIDE DEF Step
    <3> QED BY <2>2
  <2>4. IsWalk(h, n + 1, s)
      BY <2>3 DEF IsWalk
  <2> QED BY <2>4
<1>3. \A n \in Nat : n \in S
  <2> HIDE DEF S
  <2> QED BY <1>1, <1>2, InductionOverSet
<1> QED BY <1>3

\* The walk of Ancestors starts with Begin and ends with the answer.
LEMMA WalkOfAncestors ==
    ASSUME Graph, NEW s \in Id
    PROVE  \E g : LET last == 2 * Len(commits) + 1
                  IN  /\ g[0] = Begin(s)
                      /\ \A n \in Nat : n + 1 <= last => g[n + 1] = Visit(g[n])
                      /\ Ancestors(s) = g[last].seen
<1> DEFINE last == 2 * Len(commits) + 1
           walk == CHOOSE g : g = [n \in 0..last |->
                       IF n = 0 THEN [seen |-> <<>>, stack |-> <<s>>] ELSE Visit(g[n - 1])]
<1>1. last \in Nat
    BY GraphFacts
<1>2. \E g : g = [n \in 0..last |->
                IF n = 0 THEN [seen |-> <<>>, stack |-> <<s>>] ELSE Visit(g[n - 1])]
  <2>1. \E g : IsWalk(g, last, s)
      BY <1>1, WalkExists
  <2> QED BY <2>1 DEF IsWalk, Begin
<1>3. walk = [n \in 0..last |->
                IF n = 0 THEN [seen |-> <<>>, stack |-> <<s>>] ELSE Visit(walk[n - 1])]
    BY <1>2
<1>4. Ancestors(s) = walk[last].seen
    BY DEF Ancestors
<1> HIDE DEF walk
<1>5. walk[0] = Begin(s)
    BY <1>1, <1>3 DEF Begin
<1>6. ASSUME NEW n \in Nat, n + 1 <= last PROVE walk[n + 1] = Visit(walk[n])
    BY <1>1, <1>3, <1>6
<1> QED BY <1>4, <1>5, <1>6

\* What the walk starts with.
LEMMA BeginIsWalked ==
    ASSUME Graph, NEW s \in Id
    PROVE  Walked(Begin(s), 0, s) /\ Begun(Begin(s), s) /\ Lined(Begin(s))
<1>1. Begin(s).seen = <<>> /\ Begin(s).stack = <<s>>
    BY DEF Begin
<1>2. Range(<<>>) = {} /\ Range(<<s>>) = {s}
    BY DEF Range
<1>3. s \in History[s]
    BY HistoryShape
<1>4. Begin(s) \in [seen: Seq(Id), stack: Seq(Id)]
  <2>1. <<>> \in Seq(Id) /\ <<s>> \in Seq(Id)
      OBVIOUS
  <2> QED BY <2>1 DEF Begin
<1>5. Len(<<>>) = 0 /\ Len(<<s>>) = 1
    OBVIOUS
<1> QED BY <1>1, <1>2, <1>3, <1>4, <1>5 DEF Walked, Begun, Lined

\* A sequence that has each of the numbers up to n at most once is no longer
\* than n, and as long as the set of its elements is large.
LEMMA LengthOfInjective ==
    ASSUME NEW n \in Nat, NEW q \in Seq(1..n), \A k, l \in 1..Len(q) : q[k] = q[l] => k = l
    PROVE  Len(q) <= n /\ Len(q) = Cardinality(Range(q))
<1>1. Len(q) \in Nat /\ DOMAIN q = 1..Len(q) /\ q \in [1..Len(q) -> 1..n]
    OBVIOUS
<1>2. \A m \in Nat : IsFiniteSet(1..m) /\ Cardinality(1..m) = m
  <2>1. ASSUME NEW m \in Nat PROVE IsFiniteSet(1..m) /\ Cardinality(1..m) = m
    <3>1. IsFiniteSet(1..m) /\ Cardinality(1..m) = IF 1 > m THEN 0 ELSE m - 1 + 1
        BY FS_Interval
    <3> QED BY <3>1
  <2> QED BY <2>1
<1>3. q \in Injection(1..Len(q), 1..n)
    BY <1>1 DEF Injection, IsInjective
<1>4. Cardinality(1..Len(q)) <= Cardinality(1..n)
    BY <1>2, <1>3, FS_Injection
<1>5. q \in [1..Len(q) -> Range(q)] /\ \A x \in Range(q) : \E k \in 1..Len(q) : q[k] = x
    BY <1>1 DEF Range
<1>6. q \in Bijection(1..Len(q), Range(q))
    BY <1>1, <1>5 DEF Bijection, Injection, IsInjective, Surjection
<1>7. ExistsBijection(1..Len(q), Range(q))
    BY <1>6 DEF ExistsBijection
<1>8. Cardinality(Range(q)) = Cardinality(1..Len(q))
    BY <1>1, <1>2, <1>7, FS_Bijection
<1> QED BY <1>1, <1>2, <1>4, <1>8

\* No commit in the history of s has two parents.
OnLine(s) == \A c \in History[s] : Len(commits[c].parents) <= 1

\* What the walk answers.
LEMMA AncestorsAre ==
    ASSUME Graph, NEW s \in Id
    PROVE  /\ Ancestors(s) \in Seq(Id) /\ Range(Ancestors(s)) = History[s]
           /\ Len(Ancestors(s)) = Cardinality(History[s])
           /\ Len(Ancestors(s)) >= 1 /\ Ancestors(s)[1] = s
           /\ Len(commits[s].parents) = 2 =>
                  Len(Ancestors(s)) >= 2 /\ Ancestors(s)[2] = commits[s].parents[2]
           /\ OnLine(s) => \A k, l \in 1..Len(Ancestors(s)) :
                              k < l => Ancestors(s)[k] > Ancestors(s)[l]
<1>1. PICK L \in Nat : L = Len(commits) /\ Id = 1..L
    BY GraphFacts
<1> DEFINE last == 2 * L + 1
<1>2. PICK g : /\ g[0] = Begin(s)
               /\ \A n \in Nat : n + 1 <= last => g[n + 1] = Visit(g[n])
               /\ Ancestors(s) = g[last].seen
  <2>1. last = 2 * Len(commits) + 1
      BY <1>1
  <2> QED BY <2>1, WalkOfAncestors
<1> DEFINE Good(n) == Walked(g[n], n, s) /\ Begun(g[n], s) /\ (OnLine(s) => Lined(g[n]))
           S == {n \in Nat : n <= last => Good(n)}
<1>3. 0 \in S
    BY <1>2, BeginIsWalked
<1>4. ASSUME NEW n \in Nat, n \in S PROVE n + 1 \in S
  <2>1. CASE n + 1 <= last
    <3>1. Good(n)
        BY <1>4, <2>1
    <3>2. PICK w : w = g[n]
        OBVIOUS
    <3>3. /\ Walked(w, n, s) /\ Begun(w, s) /\ (OnLine(s) => Lined(w))
          /\ w \in [seen: Seq(Id), stack: Seq(Id)]
        BY <3>1, <3>2 DEF Walked
    <3>4. Walked(Visit(w), n + 1, s)
        BY <3>3, StepKeepsWalk
    <3>5. Begun(Visit(w), s)
        BY <3>3, StepKeepsBegun
    <3>6. OnLine(s) => Lined(Visit(w))
        BY <3>3, StepKeepsLine DEF OnLine
    <3>7. g[n + 1] = Visit(w)
        BY <1>2, <2>1, <3>2
    <3> QED BY <3>4, <3>5, <3>6, <3>7
  <2> QED BY <2>1
<1>5. \A n \in Nat : n \in S
  <2> HIDE DEF S
  <2> QED BY <1>3, <1>4, InductionOverSet
<1>6. PICK w : w = g[last]
    OBVIOUS
<1>7. Walked(w, last, s) /\ Begun(w, s) /\ (OnLine(s) => Lined(w)) /\ Ancestors(s) = w.seen
    BY <1>1, <1>2, <1>5, <1>6
<1>8. PICK seen \in Seq(Id), stack \in Seq(Id) : seen = w.seen /\ stack = w.stack
    BY <1>7 DEF Walked
<1>9. Len(seen) <= L /\ Len(seen) = Cardinality(Range(seen))
  <2>1. seen \in Seq(1..L) /\ \A k, l \in 1..Len(seen) : seen[k] = seen[l] => k = l
      BY <1>1, <1>7, <1>8 DEF Walked
  <2> QED BY <2>1, LengthOfInjective
<1>10. stack = <<>> /\ Range(stack) = {}
  <2>1. stack = <<>> \/ Len(stack) + last <= 2 * Len(seen) + 1
      BY <1>7, <1>8 DEF Walked
  <2>2. Len(stack) \in Nat /\ Len(seen) \in Nat
      OBVIOUS
  <2>3. \A x, y \in Nat : x + last <= 2 * y + 1 /\ y <= L => x = 0
      OBVIOUS
  <2>4. stack = <<>> \/ Len(stack) = 0
      BY ONLY Zenon, <1>9, <2>1, <2>2, <2>3
  <2>5. stack = <<>>
      BY <2>4
  <2> QED BY <2>5 DEF Range
<1>11. Range(seen) = History[s]
  <2>1. /\ Range(seen) \subseteq History[s] /\ s \in Range(seen)
        /\ \A j \in Range(seen) : Range(commits[j].parents) \subseteq Range(seen)
      BY <1>7, <1>8, <1>10 DEF Walked
  <2>2. History[s] \subseteq Range(seen)
      BY <2>1, HistoryIsLeast
  <2> QED BY <2>1, <2>2
<1>12. seen # <<>> /\ Len(seen) >= 1
    BY <1>7, <1>8, <1>10 DEF Begun
<1>13. seen[1] = s
    BY <1>7, <1>8, <1>12 DEF Begun
<1>14. ASSUME Len(commits[s].parents) = 2
       PROVE  Len(seen) >= 2 /\ seen[2] = commits[s].parents[2]
  <2>1. Len(seen) # 1
      BY <1>7, <1>8, <1>10, <1>14 DEF Begun
  <2>2. Len(seen) >= 2
    <3>1. Len(seen) \in Nat /\ \A x \in Nat : x >= 1 /\ x # 1 => x >= 2
        OBVIOUS
    <3> QED BY ONLY Zenon, <1>12, <2>1, <3>1
  <2> QED BY <1>7, <1>8, <1>14, <2>2 DEF Begun
<1>15. OnLine(s) => \A k, l \in 1..Len(seen) : k < l => seen[k] > seen[l]
    BY <1>7, <1>8 DEF Lined
<1> QED BY <1>7, <1>8, <1>9, <1>11, <1>12, <1>13, <1>14, <1>15

\* The merge base is the first id of the walk from a that is in b's history.
LEMMA BaseIsFirst ==
    ASSUME Graph, NEW a \in Id, NEW b \in Id
    PROVE  \E k \in 1..Len(Ancestors(a)) :
               /\ MergeBase(a, b) = Ancestors(a)[k] /\ Ancestors(a)[k] \in History[b]
               /\ \A j \in 1..Len(Ancestors(a)) : Ancestors(a)[j] \in History[b] => k <= j
<1>1. PICK ofA \in Seq(Id) : ofA = Ancestors(a)
    BY AncestorsAre
<1>2. Range(ofA) = History[a] /\ Range(Ancestors(b)) = History[b]
    BY <1>1, AncestorsAre
<1> DEFINE shared == {i \in DOMAIN ofA : ofA[i] \in History[b]}
<1>3. DOMAIN ofA = 1..Len(ofA) /\ shared \subseteq Nat
    BY <1>1
<1>4. shared # {}
  <2>1. 1 \in History[a] /\ 1 \in History[b]
      BY HistoryShape
  <2>2. \E i \in DOMAIN ofA : ofA[i] = 1
      BY <1>2, <2>1 DEF Range
  <2> QED BY <2>1, <2>2
<1>5. MergeBase(a, b) = ofA[CHOOSE i \in shared : \A j \in shared : i <= j]
    BY <1>1, <1>2 DEF MergeBase
<1>6. \E i \in shared : \A j \in shared : i <= j
    BY <1>3, <1>4, LeastElement
<1>7. PICK k \in shared : /\ \A j \in shared : k <= j
                          /\ MergeBase(a, b) = ofA[k]
    BY <1>5, <1>6
<1> QED BY <1>1, <1>3, <1>7

LEMMA WalksHold == ASSUME Graph PROVE WalksAreRight
<1>0. /\ \A i \in Id : i \in Nat /\ i \in History[i] /\ History[i] \subseteq 1..i
      /\ head \in Id
    BY HistoryShape, GraphFacts DEF Graph, TypeOK
<1>1. WalkFindsHistory
    BY AncestorsAre DEF WalkFindsHistory
<1>2. ASSUME NEW a \in Id, NEW b \in Id PROVE MergeBase(a, b) \in History[a] \cap History[b]
  <2>1. PICK k \in 1..Len(Ancestors(a)) :
            MergeBase(a, b) = Ancestors(a)[k] /\ Ancestors(a)[k] \in History[b]
      BY BaseIsFirst
  <2>2. Ancestors(a)[k] \in Range(Ancestors(a)) /\ Range(Ancestors(a)) = History[a]
    <3>1. PICK ofA \in Seq(Id) : ofA = Ancestors(a)
        BY AncestorsAre
    <3>2. k \in DOMAIN ofA
        BY <3>1
    <3>3. ofA[k] \in Range(ofA)
        BY <3>2 DEF Range
    <3> QED BY <3>1, <3>3, AncestorsAre
  <2> QED BY <2>1, <2>2
<1>3. BaseIsCommon
    BY <1>2 DEF BaseIsCommon
<1>4. ASSUME NEW other \in Id PROVE IsFastForward(other) <=> head \in History[other]
  <2>1. IsFastForward(other) => head \in History[other]
      BY <1>0, <1>2 DEF IsFastForward
  <2>2. ASSUME head \in History[other] PROVE IsFastForward(other)
    <3>1. Ancestors(head)[1] = head /\ 1 \in 1..Len(Ancestors(head))
        BY <1>0, AncestorsAre
    <3>2. PICK k \in 1..Len(Ancestors(head)) :
              MergeBase(head, other) = Ancestors(head)[k] /\ k <= 1
        BY <1>0, <2>2, <3>1, BaseIsFirst
    <3>3. k = 1
        BY <3>2
    <3> QED BY <3>1, <3>2, <3>3 DEF IsFastForward
  <2> QED BY <2>1, <2>2
<1>5. ForwardIsExact
    BY <1>4 DEF ForwardIsExact
<1>6. ASSUME NEW a \in Id, NEW b \in Id, OnLine(a),
             NEW c \in (History[a] \cap History[b]) \ {MergeBase(a, b)}
      PROVE  MergeBase(a, b) \notin History[c]
  <2>1. PICK ofA \in Seq(Id) : ofA = Ancestors(a)
      BY AncestorsAre
  <2>2. Range(ofA) = History[a] /\ \A k, l \in 1..Len(ofA) : k < l => ofA[k] > ofA[l]
      BY <1>6, <2>1, AncestorsAre
  <2>3. PICK k \in 1..Len(ofA) :
            /\ MergeBase(a, b) = ofA[k]
            /\ \A j \in 1..Len(ofA) : ofA[j] \in History[b] => k <= j
      BY <2>1, BaseIsFirst
  <2>4. PICK l \in 1..Len(ofA) : ofA[l] = c
      BY <2>2 DEF Range
  <2>5. k < l
    <3>1. k <= l /\ k # l
        BY <2>3, <2>4
    <3> QED BY <3>1
  <2>6. MergeBase(a, b) > c
      BY <2>2, <2>3, <2>4, <2>5
  <2>7. c \in Id /\ c \in Nat
      BY <1>0, HistoryShape
  <2>8. MergeBase(a, b) \notin 1..c
      BY <2>6, <2>7
  <2> QED BY <1>0, <2>7, <2>8
<1>7. BaseIsNearestOnLines
    BY <1>6 DEF BaseIsNearestOnLines, IsNearest, OnLine
<1>8. ASSUME NEW i \in Id, Len(commits[i].parents) = 2
      PROVE  MergeBase(i, commits[i].parents[2]) = commits[i].parents[2]
  <2>1. PICK p : p = commits[i].parents[2]
      OBVIOUS
  <2>2. p \in Id /\ p \in 1..(i - 1)
    <3>1. PICK ps \in Seq(Id) : ps = commits[i].parents
        BY GraphFacts
    <3>2. 2 \in DOMAIN ps /\ ps[2] = p
        BY <1>8, <2>1, <3>1
    <3>3. p \in Range(ps) /\ Range(ps) \subseteq 1..(i - 1)
        BY <3>1, <3>2, GraphFacts DEF Range
    <3> QED BY <3>1, <3>2, <3>3
  <2>3. PICK ofI \in Seq(Id) : ofI = Ancestors(i)
      BY AncestorsAre
  <2>4. Len(ofI) >= 2 /\ ofI[1] = i /\ ofI[2] = p
      BY <1>8, <2>1, <2>3, AncestorsAre
  <2>5. p \in History[p] /\ i \notin History[p]
    <3>1. i \notin 1..p
        BY <1>0, <2>2
    <3> QED BY <1>0, <2>2, <3>1
  <2>6. PICK k \in 1..Len(ofI) :
            /\ MergeBase(i, p) = ofI[k] /\ ofI[k] \in History[p]
            /\ \A j \in 1..Len(ofI) : ofI[j] \in History[p] => k <= j
      BY <2>2, <2>3, BaseIsFirst
  <2>7. 2 \in 1..Len(ofI)
      BY <2>4
  <2>8. k <= 2 /\ k # 1
      BY <2>4, <2>5, <2>6, <2>7
  <2>9. k = 2
      BY <2>8
  <2> QED BY <2>1, <2>4, <2>6, <2>9
<1>9. MergedOnce
    BY <1>8 DEF MergedOnce
<1> QED BY <1>1, <1>3, <1>5, <1>7, <1>9 DEF WalksAreRight

\* The walk of ancestors() finds the history of every commit, each ancestor
\* once; any two commits have a merge base, common to both, nearest where the
\* history is a line; is_fast_forward() is exact; what was merged is the base
\* of the next merge.
THEOREM WalksStayRight == Spec => []WalksAreRight
<1> QED BY GraphHolds, WalksHold, PTL
=============================================================================
