---------------------------- MODULE UndoHistory ----------------------------
(* What undo and redo promise: one line of states and a position on it. An    *)
(* edit drops what lies after the position and adds a state, undo and redo    *)
(* move the position, and nothing else moves it. A merge is no edit: it       *)
(* replaces the state at the position and leaves the states around it.        *)
EXTENDS Integers

CONSTANT State
VARIABLES line, last, at  \* line[1..last] are the states, at the position

vars == <<line, last, at>>

\* The line up to its nth state, and then s.
Then(n, s) == [i \in 1..(n + 1) |-> IF i = n + 1 THEN s ELSE line[i]]

Init == \E s \in State : line = [i \in 1..1 |-> s] /\ last = 1 /\ at = 1

Edit == \E s \in State : line' = Then(at, s) /\ last' = at + 1 /\ at' = at + 1
Undo == at > 1 /\ at' = at - 1 /\ UNCHANGED <<line, last>>
Redo == at < last /\ at' = at + 1 /\ UNCHANGED <<line, last>>
Overwrite == \E s \in State : line' = [line EXCEPT ![at] = s] /\ UNCHANGED <<last, at>>

Next == Edit \/ Undo \/ Redo \/ Overwrite
Spec == Init /\ [][Next]_vars
=============================================================================
