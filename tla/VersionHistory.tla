--------------------------- MODULE VersionHistory ---------------------------
(* What version control promises of its branches, whoever implements it: a    *)
(* graph of commits that only grows, names for some of them, and one name     *)
(* that is worked on. A name moves only while it is worked on, and only       *)
(* forward, onto a commit that has the one it named among its parents.        *)
CONSTANTS
    Name,     \* names of branches
    Main,     \* the first branch
    CommitId, \* ids of commits
    Root      \* the first commit

VARIABLES
    made,   \* the parents of every commit made so far
    tips,   \* the commit each branch names
    on      \* the branch that is worked on

vars == <<made, tips, on>>

Init ==
    /\ made = [c \in {Root} |-> {}]
    /\ tips = [n \in {Main} |-> Root]
    /\ on = Main

\* A new name for the commit that is worked on; it may be taken up at once.
Branch(name) ==
    /\ name \notin DOMAIN tips
    /\ tips' = [n \in DOMAIN tips \cup {name} |-> IF n = name THEN tips[on] ELSE tips[n]]
    /\ on' \in {on, name}
    /\ UNCHANGED made

Switch(name) ==
    /\ name \in DOMAIN tips
    /\ on' = name
    /\ UNCHANGED <<made, tips>>

\* The branch worked on moves to commit c, which is made now or was made
\* before with the same parents.
Grow(c, parents) ==
    /\ tips[on] \in parents
    /\ IF c \in DOMAIN made
       THEN made[c] = parents /\ UNCHANGED made
       ELSE made' = [d \in DOMAIN made \cup {c} |-> IF d = c THEN parents ELSE made[d]]
    /\ tips' = [tips EXCEPT ![on] = c]
    /\ UNCHANGED on

Next ==
    \/ \E name \in Name : Branch(name) \/ Switch(name)
    \/ \E c \in CommitId, parents \in SUBSET DOMAIN made : Grow(c, parents)

Spec == Init /\ [][Next]_vars
=============================================================================
