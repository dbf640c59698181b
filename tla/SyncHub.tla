------------------------------- MODULE SyncHub -------------------------------
(***************************************************************************)
(* The sync hub (collab/src/server.rs with presence.rs and protocol.rs):   *)
(* rooms with an authoritative document, members with access levels and    *)
(* live presence, and one action per message it handles.                   *)
(*                                                                         *)
(* A document is the set of operations applied to it or merged into it:    *)
(* LocalReplicas proves that nothing else about it matters. The presence   *)
(* map holds the epoch of the record of a replica, 0 when it holds none    *)
(* (clients number their records from 1). The outbound messages a handler  *)
(* returns go to the task of the connection, which dispatches them later.  *)
(***************************************************************************)
EXTENDS Naturals

CONSTANTS Conn,          \* connection ids
          Room,          \* rooms
          NoRoom,        \* what conn_room holds for a connection without a room
          Replica,       \* replica ids
          Op,            \* operations
          Tokens,        \* join token -> subject
          Grants,        \* (room, subject) -> level, where one was granted
          DefaultLevel   \* the level of the others: a set of at most one

ASSUME RoomAssumption == NoRoom \notin Room

Level == {"Viewer", "Editor", "Owner"}
CanEdit(level) == level \in {"Editor", "Owner"}
CanAdmin(level) == level = "Owner"

Subject == {Tokens[t] : t \in DOMAIN Tokens}

\* Vec<Member> as a set: MembersDistinct of SyncSystem shows that a connection
\* and a replica have at most one entry, so no order and no duplicates matter.
Member == [conn : Conn, replica : Replica, subject : Subject, level : Level]

PresenceMap == [Replica -> Nat]

NewRoom == [doc |-> {}, presence |-> [r \in Replica |-> 0], members |-> {}]

VARIABLES rooms,      \* room -> its document, presence and members
          conn_room,  \* connection -> the room its messages are routed to
          outbound    \* connection -> what handling its last frame returned

hubVars == <<rooms, conn_room, outbound>>

HubInit == /\ rooms = [room \in Room |-> NewRoom]
           /\ conn_room = [c \in Conn |-> NoRoom]
           /\ outbound = [c \in Conn |-> {}]

-----------------------------------------------------------------------------
\* The identity and level a token gives in a room, if it is valid there.
LevelIn(room, subject) ==
  IF <<room, subject>> \in DOMAIN Grants THEN {Grants[<<room, subject>>]} ELSE DefaultLevel

Authenticate(room, token) ==
  IF token \notin DOMAIN Tokens THEN {}
  ELSE {[subject |-> Tokens[token], level |-> lv] : lv \in LevelIn(room, Tokens[token])}

MembersOf(conn) ==
  IF conn_room[conn] = NoRoom THEN {}
  ELSE {m \in rooms[conn_room[conn]].members : m.conn = conn}

Returns(conn, messages) == outbound' = [outbound EXCEPT ![conn] = messages]

Reply(conn, message) == Returns(conn, {[to |-> conn, message |-> message]})

Reject(conn) == Reply(conn, [type |-> "Rejected"]) /\ UNCHANGED <<rooms, conn_room>>

\* A mutation of Broadcast: other connections are told apart by < and not by #.
BroadcastToLater(conn, message) ==
  Returns(conn, {[to |-> m.conn, message |-> message] :
                   m \in {n \in rooms[conn_room[conn]].members : n.conn > conn}})

\* The same message for every other connection of the room.
Broadcast(conn, message) ==
  Returns(conn, {[to |-> m.conn, message |-> message] :
                   m \in {n \in rooms[conn_room[conn]].members : n.conn # conn}})

-----------------------------------------------------------------------------
\* Join: a replica that reconnects replaces its earlier entry. The Welcome
\* carries the document and the presence of this moment.
OnJoin(conn, room, token, replica) ==
  \/ Authenticate(room, token) = {} /\ Reject(conn)
  \/ \E a \in Authenticate(room, token) :
       /\ rooms' = [rooms EXCEPT ![room].members =
            {m \in @ : m.replica # replica}
              \cup {[conn |-> conn, replica |-> replica,
                     subject |-> a.subject, level |-> a.level]}]
       /\ conn_room' = [conn_room EXCEPT ![conn] = room]
       /\ Reply(conn, [type |-> "Welcome", level |-> a.level,
                       snapshot |-> rooms[room].doc, presence |-> rooms[room].presence])

\* A mutation of OnOps: the operations are applied and not broadcast.
OnOpsUnannounced(conn, ops) ==
  \/ (\A m \in MembersOf(conn) : ~CanEdit(m.level)) /\ Reject(conn)
  \/ /\ \E m \in MembersOf(conn) : CanEdit(m.level)
     /\ rooms' = [rooms EXCEPT ![conn_room[conn]].doc = @ \cup ops]
     /\ Returns(conn, {})
     /\ UNCHANGED conn_room

\* A mutation of OnOps: the level is asked before applying, not before the broadcast.
OnOpsBroadcastFirst(conn, ops) ==
  \/ MembersOf(conn) = {} /\ Reject(conn)
  \/ \E m \in MembersOf(conn) :
       /\ rooms' = IF CanEdit(m.level)
                   THEN [rooms EXCEPT ![conn_room[conn]].doc = @ \cup ops] ELSE rooms
       /\ Broadcast(conn, [type |-> "Ops", from |-> m.replica, ops |-> ops])
       /\ UNCHANGED conn_room

\* Operations of a member that may edit; those of anybody else are rejected.
OnOps(conn, ops) ==
  \/ (\A m \in MembersOf(conn) : ~CanEdit(m.level)) /\ Reject(conn)
  \/ \E m \in MembersOf(conn) :
       /\ CanEdit(m.level)
       /\ rooms' = [rooms EXCEPT ![conn_room[conn]].doc = @ \cup ops]
       /\ Broadcast(conn, [type |-> "Ops", from |-> m.replica, ops |-> ops])
       /\ UNCHANGED conn_room

\* PresenceMap::update ignores an epoch that is not newer.
OnPresence(conn, replica, epoch) ==
  \/ MembersOf(conn) = {} /\ Reject(conn)
  \/ /\ MembersOf(conn) # {}
     /\ rooms[conn_room[conn]].presence[replica] >= epoch
     /\ Returns(conn, {})
     /\ UNCHANGED <<rooms, conn_room>>
  \/ /\ MembersOf(conn) # {}
     /\ rooms[conn_room[conn]].presence[replica] < epoch
     /\ rooms' = [rooms EXCEPT ![conn_room[conn]].presence[replica] = epoch]
     /\ Broadcast(conn, [type |-> "Presence", replica |-> replica, epoch |-> epoch])
     /\ UNCHANGED conn_room

\* The level of the connected members of a subject; the grants stay.
OnSetAccess(conn, subject, level) ==
  \/ (\A m \in MembersOf(conn) : ~CanAdmin(m.level)) /\ Reject(conn)
  \/ /\ \E m \in MembersOf(conn) : CanAdmin(m.level)
     /\ rooms' = [rooms EXCEPT ![conn_room[conn]].members =
          {m \in @ : m.subject # subject}
            \cup {[m EXCEPT !.level = level] : m \in {n \in @ : n.subject = subject}}]
     /\ Returns(conn, {})
     /\ UNCHANGED conn_room

\* A connection with a room is answered, whether it is still a member or not.
OnResync(conn) ==
  \/ conn_room[conn] = NoRoom /\ Reject(conn)
  \/ /\ conn_room[conn] # NoRoom
     /\ Reply(conn, [type |-> "Snapshot", snapshot |-> rooms[conn_room[conn]].doc])
     /\ UNCHANGED <<rooms, conn_room>>

\* Leave, and SyncHub::disconnect. A connection that was replaced is no member
\* and takes nothing with it.
OnLeave(conn) ==
  \/ /\ conn_room[conn] = NoRoom
     /\ Returns(conn, {})
     /\ UNCHANGED <<rooms, conn_room>>
  \/ /\ conn_room[conn] # NoRoom
     /\ conn_room' = [conn_room EXCEPT ![conn] = NoRoom]
     /\ MembersOf(conn) = {}
     /\ Returns(conn, {})
     /\ UNCHANGED rooms
  \/ \E m \in MembersOf(conn) :
       /\ conn_room' = [conn_room EXCEPT ![conn] = NoRoom]
       /\ rooms' = [rooms EXCEPT ![conn_room[conn]].members = {n \in @ : n.conn # conn},
                                 ![conn_room[conn]].presence[m.replica] = 0]
       /\ Broadcast(conn, [type |-> "Left", replica |-> m.replica])

Handle(conn, msg) ==
  \/ msg.type = "Join" /\ OnJoin(conn, msg.room, msg.token, msg.replica)
  \/ msg.type = "Ops" /\ OnOps(conn, msg.ops)
  \/ msg.type = "Presence" /\ OnPresence(conn, msg.replica, msg.epoch)
  \/ msg.type = "SetAccess" /\ OnSetAccess(conn, msg.subject, msg.level)
  \/ msg.type = "Resync" /\ OnResync(conn)
  \/ msg.type = "Leave" /\ OnLeave(conn)
=============================================================================
