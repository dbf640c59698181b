---------------------------- MODULE MCSyncSystem ----------------------------
(* Small instances for TLC: two replicas in one room, and one client whose  *)
(* calls and sockets overlap. The two share no state here: a behaviour is   *)
(* one of `machine`, and the other rests.                                   *)
EXTENDS SyncSystem, CollabClient

CONSTANTS room, none, r1, r2, owner, editor, bad,
          MaxConns, Edits, Moves, Accesses, Breaks, Leaves,
          Machines  \* what the instance is of: "room", "client" or both

VARIABLE machine

MCConn == 1 .. MaxConns
MCOp == Replica \X (1 .. Edits)
MCRoomOf == [r \in Replica |-> room]

MCBudget == [edit |-> Edits, move |-> Moves, access |-> Accesses,
             break |-> Breaks, leave |-> Leaves]

\* Two tokens are known. Everybody is an editor, as in sync_server, but the
\* owner (a grant, as in the tests of the hub).
MCTokens == [t \in {owner, editor} |-> t]
MCGrants == [p \in {<<room, owner>>} |-> "Owner"]
MCEditors == {"Editor"}

\* An owner and an editor, or an editor and somebody with an unknown token.
MCMixed == {[r \in Replica |-> IF r = r1 THEN owner ELSE editor],
            [r \in Replica |-> IF r = r1 THEN editor ELSE bad]}

\* The sync_server binary: every client has the same token.
MCSame == {[r \in Replica |-> editor]}
-----------------------------------------------------------------------------
ConnectionsInit == machine \in Machines /\ Init /\ ClientInit

ConnectionsNext ==
  \/ machine = "room" /\ Next /\ UNCHANGED <<machine, connectionVars>>
  \/ machine = "client" /\ ClientNext /\ UNCHANGED <<machine, vars>>

ConnectionsSpec == ConnectionsInit /\ [][ConnectionsNext]_<<machine, vars, connectionVars>>

\* Nothing that has to happen can happen in the machine that rests: no task
\* has a socket to serve, and no socket was created.
ConnectionsFairSpec == ConnectionsSpec /\ Fairness /\ ClientFairness
=============================================================================
