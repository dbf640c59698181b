------------------------------ MODULE OpSetDoc ------------------------------
(***************************************************************************)
(* What the document promises (collab/src/crdt.rs, module comment): the    *)
(* document of a node is a function of the SET of operations the node has  *)
(* learnt of, whatever their order, multiplicity and the way they came.    *)
(*                                                                         *)
(* Meaning is that function. This state machine is the abstract            *)
(* specification LocalReplicas implements.                                 *)
(***************************************************************************)
EXTENDS CrdtDoc

CONSTANT Node

-----------------------------------------------------------------------------
VARIABLES issued,   \* every operation issued so far
          learnt,   \* node -> the operations it has learnt of
          doc       \* node -> its document

vars == <<issued, learnt, doc>>

Init == /\ issued = {}
        /\ learnt = [n \in Node |-> {}]
        /\ doc = [n \in Node |-> NewDoc]

Learn(n, ops) == /\ learnt' = [learnt EXCEPT ![n] = @ \cup ops]
                 /\ doc' = [doc EXCEPT ![n] = Meaning(learnt[n] \cup ops)]

\* A node issues an operation: it is the first to learn of it.
Issue(n) == \E op \in issued' : /\ issued' = issued \cup {op}
                                /\ Learn(n, {op})

\* A node learns of some operations issued earlier, in one step.
Receive(n) == /\ UNCHANGED issued
              /\ \E ops \in SUBSET issued : Learn(n, ops)

Next == \E n \in Node : Issue(n) \/ Receive(n)

Spec == Init /\ [][Next]_vars
=============================================================================
