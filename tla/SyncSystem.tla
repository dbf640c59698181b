----------------------------- MODULE SyncSystem -----------------------------
(***************************************************************************)
(* Clients, server and hub together. A client is the transport of          *)
(* frontend/src/collab/client.ts (socket, offline queue, reconnection,     *)
(* peers) with a replicated document behind it (collab/src/wasm.rs). Each  *)
(* client has one socket at a time here, connect() being called again when *)
(* the close of the last one was seen; CollabClient models what happens    *)
(* when it is not.                                                         *)
(***************************************************************************)
EXTENDS SyncServer, FiniteSets, Functions

CONSTANTS NoConn,        \* what sock holds for a client without a socket
          RoomOf,        \* replica -> the room its client joins
          TokenChoices,  \* the tokens the clients may be constructed with
          MaxQueue,      \* MAX_QUEUE of client.ts
          MaxOpens,      \* bound: connections per replica
          Asked,         \* bound: the levels clients ask for
          Budget,        \* bound: kind of step -> how many of it
          MaxSpent       \* bound: all of them together

Kind == {"edit", "move", "access", "break", "leave"}

ASSUME ConnAssumption == Conn \subseteq Nat \ {0} /\ NoConn \notin Conn
ASSUME BudgetAssumption == Asked \subseteq Level /\ Budget \in [Kind -> Nat]
ASSUME OpAssumption == Op = Replica \X (1 .. Budget["edit"])
ASSUME QueueAssumption == MaxQueue \in Nat \ {0}
ASSUME RoomOfAssumption == RoomOf \in [Replica -> Room]
ASSUME LevelAssumption == DefaultLevel \subseteq Level /\ \A p \in DOMAIN Grants : Grants[p] \in Level

VARIABLES token,      \* replica -> the token it joins with
          sock,       \* replica -> its socket
          queue,      \* replica -> frames kept for the next socket
          known,      \* replica -> the operations in its document
          remote,     \* replica -> the epochs of the peers it shows, 0 for none
          level,      \* replica -> the access level it shows
          epoch,      \* replica -> epoch of its last presence record
          next_conn,  \* AtomicU64 of main
          opens,      \* bound and history: sockets opened by each replica
          spent,      \* bound and history: steps of each kind so far
          discarded   \* history: operations thrown away by disconnect()

clientVars == <<token, sock, queue, known, remote, level, epoch>>
boundVars == <<next_conn, opens, spent, discarded>>
vars == <<hubVars, serverVars, clientVars, boundVars>>

\* One more step of a kind, within the bounds.
Spend(kind) == /\ spent[kind] < Budget[kind]
               /\ FoldFunction(+, 0, spent) < MaxSpent
               /\ spent' = [spent EXCEPT ![kind] = @ + 1]

NoPeers == [r \in Replica |-> 0]
NoLevel == "None"

Init == /\ HubInit
        /\ ServerInit
        /\ token \in TokenChoices
        /\ sock = [r \in Replica |-> NoConn]
        /\ queue = [r \in Replica |-> <<>>]
        /\ known = [r \in Replica |-> {}]
        /\ remote = [r \in Replica |-> NoPeers]
        /\ level = [r \in Replica |-> NoLevel]
        /\ epoch = [r \in Replica |-> 0]
        /\ next_conn = 1
        /\ opens = [r \in Replica |-> 0]
        /\ spent = [kind \in Kind |-> 0]
        /\ discarded = {}

Own(r) == {op \in known[r] : op[1] = r}

OpsIn(frames) == UNION {frames[i].ops : i \in {j \in DOMAIN frames : frames[j].type = "Ops"}}

-----------------------------------------------------------------------------
JoinFrame(r) == [type |-> "Join", room |-> RoomOf[r], token |-> token[r], replica |-> r]
PresenceFrame(r, n) == [type |-> "Presence", replica |-> r, epoch |-> n]

\* enqueue: presence is not kept, and a full queue loses its oldest frame.
Enqueued(q, frame) ==
  IF frame.type = "Presence" THEN q
  ELSE Append(IF Len(q) >= MaxQueue THEN Tail(q) ELSE q, frame)

\* send: to the socket when there is one, where a broken one swallows it until
\* its close is noticed, else to the queue.
Send(r, frame) ==
  IF sock[r] = NoConn
  THEN queue' = [queue EXCEPT ![r] = Enqueued(@, frame)] /\ UNCHANGED inbox
  ELSE /\ inbox' = [c \in Conn |-> IF c = sock[r] /\ wire[c] = "open"
                                   THEN Append(inbox[c], frame) ELSE inbox[c]]
       /\ UNCHANGED queue

\* A mutation of Open: the queue is emptied before it is sent.
OpenForgetful(r) ==
  /\ sock[r] = NoConn
  /\ opens[r] < MaxOpens
  /\ next_conn \in Conn
  /\ sock' = [sock EXCEPT ![r] = next_conn]
  /\ Accept(next_conn, <<JoinFrame(r), [type |-> "Resync"]>>)
  /\ queue' = [queue EXCEPT ![r] = <<>>]
  /\ next_conn' = next_conn + 1
  /\ opens' = [opens EXCEPT ![r] = @ + 1]
  /\ UNCHANGED <<hubVars, token, known, remote, level, epoch, spent, discarded>>

\* connect() up to onopen: Join, Resync, what was queued, and the cursor.
Open(r) ==
  /\ sock[r] = NoConn
  /\ opens[r] < MaxOpens
  /\ next_conn \in Conn
  /\ sock' = [sock EXCEPT ![r] = next_conn]
  /\ epoch' = [epoch EXCEPT ![r] = IF @ = 0 THEN 0 ELSE @ + 1]
  /\ Accept(next_conn,
            <<JoinFrame(r), [type |-> "Resync"]>> \o queue[r]
              \o (IF epoch[r] = 0 THEN <<>> ELSE <<PresenceFrame(r, epoch[r] + 1)>>))
  /\ queue' = [queue EXCEPT ![r] = <<>>]
  /\ next_conn' = next_conn + 1
  /\ opens' = [opens EXCEPT ![r] = @ + 1]
  /\ UNCHANGED <<hubVars, token, known, remote, level, spent, discarded>>

\* A local edit: applied to the own document and sent.
Edit(r) ==
  /\ Spend("edit")
  /\ LET op == <<r, 1 + Cardinality(Own(r))>> IN
    /\ known' = [known EXCEPT ![r] = @ \cup {op}]
    /\ Send(r, [type |-> "Ops", ops |-> {op}])
  /\ UNCHANGED <<hubVars, task, peers, wire, outbox, token, sock, remote, level, epoch,
                 next_conn, opens, discarded>>

MoveCursor(r) ==
  /\ Spend("move")
  /\ epoch' = [epoch EXCEPT ![r] = @ + 1]
  /\ Send(r, PresenceFrame(r, epoch[r] + 1))
  /\ UNCHANGED <<hubVars, task, peers, wire, outbox, token, sock, known, remote, level,
                 next_conn, opens, discarded>>

SetAccess(r, subject, lv) ==
  /\ Spend("access")
  /\ Send(r, [type |-> "SetAccess", subject |-> subject, level |-> lv])
  /\ UNCHANGED <<hubVars, task, peers, wire, outbox, token, sock, known, remote, level, epoch,
                 next_conn, opens, discarded>>

\* mergePresence: own records and epochs that are not newer are ignored.
Merged(r, shown, replica, n) ==
  IF replica = r \/ shown[replica] >= n THEN shown ELSE [shown EXCEPT ![replica] = n]

\* handleServerMessage. A Welcome clears the peers and takes those it carries.
ReceiveFrame(r) ==
  /\ sock[r] # NoConn
  /\ outbox[sock[r]] # <<>>
  /\ LET msg == Head(outbox[sock[r]]) IN
       /\ known' = [known EXCEPT ![r] =
            CASE msg.type \in {"Welcome", "Snapshot"} -> @ \cup msg.snapshot
              [] msg.type = "Ops"                     -> @ \cup msg.ops
              [] OTHER                                -> @]
       /\ remote' = [remote EXCEPT ![r] =
            CASE msg.type = "Welcome"  -> [msg.presence EXCEPT ![r] = 0]
              [] msg.type = "Presence" -> Merged(r, @, msg.replica, msg.epoch)
              [] msg.type = "Left"     -> [@ EXCEPT ![msg.replica] = 0]
              [] OTHER                 -> @]
       /\ level' = [level EXCEPT ![r] = IF msg.type = "Welcome" THEN msg.level ELSE @]
  /\ outbox' = [outbox EXCEPT ![sock[r]] = Tail(@)]
  /\ UNCHANGED <<hubVars, task, peers, wire, inbox, token, sock, queue, epoch, boundVars>>

\* onclose of a broken socket: peers are forgotten, a reconnect is scheduled.
OnClose(r) ==
  /\ sock[r] # NoConn
  /\ wire[sock[r]] = "broken"
  /\ sock' = [sock EXCEPT ![r] = NoConn]
  /\ remote' = [remote EXCEPT ![r] = NoPeers]
  /\ level' = [level EXCEPT ![r] = NoLevel]
  /\ outbox' = [outbox EXCEPT ![sock[r]] = <<>>]
  /\ UNCHANGED <<hubVars, task, peers, wire, inbox, token, queue, known, epoch, boundVars>>

\* disconnect(): Leave and close; the offline queue is dropped on purpose.
Disconnect(r) ==
  /\ Spend("leave")
  /\ sock[r] # NoConn \/ queue[r] # <<>>
  /\ sock' = [sock EXCEPT ![r] = NoConn]
  /\ queue' = [queue EXCEPT ![r] = <<>>]
  /\ discarded' = discarded \cup OpsIn(queue[r])
  /\ remote' = [remote EXCEPT ![r] = NoPeers]
  /\ level' = [level EXCEPT ![r] = NoLevel]
  /\ inbox' = [c \in Conn |-> IF c = sock[r] /\ wire[c] = "open"
                              THEN Append(inbox[c], [type |-> "Leave"]) ELSE inbox[c]]
  /\ wire' = [c \in Conn |-> IF c = sock[r] /\ wire[c] = "open" THEN "closed" ELSE wire[c]]
  /\ outbox' = [c \in Conn |-> IF c = sock[r] THEN <<>> ELSE outbox[c]]
  /\ UNCHANGED <<hubVars, task, peers, token, known, epoch, next_conn, opens>>

\* The network: a socket breaks, also one that is closing, and both ends notice
\* in their own time.
Break(c) ==
  /\ Spend("break")
  /\ wire[c] \in {"open", "closed"}
  /\ wire' = [wire EXCEPT ![c] = "broken"]
  /\ UNCHANGED <<hubVars, task, peers, inbox, outbox, clientVars, next_conn, opens, discarded>>

Server(c) == ServerStep(c) /\ UNCHANGED <<clientVars, boundVars>>

User(r) == \/ Open(r) \/ Edit(r) \/ MoveCursor(r) \/ Disconnect(r)
           \/ \E subject \in Subject, lv \in Asked : SetAccess(r, subject, lv)

Next == \/ \E c \in Conn : Server(c) \/ Break(c)
        \/ \E r \in Replica : User(r) \/ ReceiveFrame(r) \/ OnClose(r)

Spec == Init /\ [][Next]_vars

\* Every task of the server is scheduled again and again, and a browser hands
\* over the frames and the close of its socket. Users need not do anything.
Fairness == /\ \A c \in Conn : WF_vars(Server(c))
            /\ \A r \in Replica : WF_vars(ReceiveFrame(r)) /\ WF_vars(OnClose(r))

FairSpec == Spec /\ Fairness

-----------------------------------------------------------------------------
ClientFrame ==
  [type : {"Join"}, room : Room, token : {token[q] : q \in Replica}, replica : Replica]
    \cup [type : {"Ops"}, ops : SUBSET Op]
    \cup [type : {"Presence"}, replica : Replica, epoch : Nat]
    \cup [type : {"SetAccess"}, subject : Subject, level : Level]
    \cup [type : {"Resync", "Leave"}]

ServerFrame ==
  [type : {"Welcome"}, level : Level, snapshot : SUBSET Op, presence : PresenceMap]
    \cup [type : {"Ops"}, from : Replica, ops : SUBSET Op]
    \cup [type : {"Presence"}, replica : Replica, epoch : Nat]
    \cup [type : {"Snapshot"}, snapshot : SUBSET Op]
    \cup [type : {"Left"}, replica : Replica]
    \cup [type : {"Rejected"}]

TypeOK ==
  /\ \A room \in Room : /\ rooms[room].doc \subseteq Op
                        /\ rooms[room].presence \in PresenceMap
                        /\ rooms[room].members \subseteq Member
  /\ conn_room \in [Conn -> Room \cup {NoRoom}]
  /\ \A c \in Conn : /\ \A o \in outbound[c] : o.to \in Conn /\ o.message \in ServerFrame
                     /\ \A i \in DOMAIN inbox[c] : inbox[c][i] \in ClientFrame
                     /\ \A i \in DOMAIN outbox[c] : outbox[c][i] \in ServerFrame
  /\ task \in [Conn -> Task] /\ wire \in [Conn -> Wire] /\ peers \subseteq Conn
  /\ sock \in [Replica -> Conn \cup {NoConn}]
  /\ known \in [Replica -> SUBSET Op]
  /\ remote \in [Replica -> PresenceMap] /\ epoch \in [Replica -> Nat]
  /\ level \in [Replica -> Level \cup {NoLevel}]
  /\ \A r \in Replica : \A i \in DOMAIN queue[r] : queue[r][i] \in ClientFrame

-----------------------------------------------------------------------------
\* The operations a frame brings its receiver.
Brings(frame) == CASE frame.type \in {"Welcome", "Snapshot"} -> frame.snapshot
                   [] frame.type = "Ops"                     -> frame.ops
                   [] OTHER                                  -> {}

\* What is on its way to c: on its socket, or returned by the hub to a task
\* that has not dispatched it yet.
Coming(c) ==
  (UNION {Brings(outbox[c][i]) : i \in DOMAIN outbox[c]})
    \cup (UNION {Brings(o.message) : o \in {x \in UNION {outbound[d] : d \in Conn} : x.to = c}})

Joined(r) == /\ sock[r] # NoConn
             /\ wire[sock[r]] = "open"
             /\ \E m \in rooms[RoomOf[r]].members : m.conn = sock[r]

\* No gap between the snapshot and the stream: everything in the room's
\* document is in the document of a joined client or on its way to it,
\* although the hub lock is released before a Welcome is dispatched.
NoGap == \A r \in Replica : Joined(r) =>
           rooms[RoomOf[r]].doc \subseteq known[r] \cup Coming(sock[r])

\* Nobody learns of an edit the hub has not accepted: an edit it rejects stays
\* with its author.
LearnedThroughHub ==
  \A r \in Replica : known[r] \subseteq Own(r) \cup rooms[RoomOf[r]].doc

\* A connection and a replica have at most one entry in a room, through every
\* reconnection that overlaps the connection it replaces.
MembersDistinct ==
  \A room \in Room : \A m, n \in rooms[room].members :
    m.conn = n.conn \/ m.replica = n.replica => m = n

\* No entry outlives its connection: the task of a member is still serving,
\* its sender registered and its messages routed to this room.
MembersAreServed ==
  \A room \in Room : \A m \in rooms[room].members :
    /\ task[m.conn] \in {"reading", "dispatching"}
    /\ m.conn \in peers
    /\ conn_room[m.conn] = room

\* Presence is dropped with the member it belongs to.
PresenceOfMembers ==
  \A room \in Room : \A r \in Replica :
    rooms[room].presence[r] > 0 => \E m \in rooms[room].members : m.replica = r

\* A member that may edit, unless an owner interferes.
Welcome(r) == token[r] \in DOMAIN Tokens /\ spent["access"] = 0

\* An edit is in the document of the room, on its way there, or queued, unless
\* the user gave the queue up.
EditsKept(r) ==
  Own(r) \subseteq discarded \cup rooms[RoomOf[r]].doc \cup OpsIn(queue[r])
                     \cup UNION {OpsIn(inbox[c]) : c \in Conn}

\* Edits queue rather than get lost, made offline or online, as long as sockets
\* do not break.
NoEditLost ==
  \A r \in Replica : Welcome(r) /\ spent["break"] = 0 /\ opens[r] <= 1 => EditsKept(r)

\* "Local edits are queued rather than lost", a drop in mid-session included.
NoEditLostInADrop ==
  \A r \in Replica : Welcome(r) /\ opens[r] <= 1 => EditsKept(r)

\* Nothing is on its way and nothing is left to notice.
Quiet == \A c \in Conn : /\ inbox[c] = <<>> /\ outbox[c] = <<>>
                         /\ \/ task[c] \in {"none", "done"}
                            \/ task[c] = "reading" /\ wire[c] = "open"

Connected(r) == sock[r] # NoConn

\* When everything has arrived, connected clients and the hub hold the same
\* document (what tests/load.rs asserts of one schedule).
QuietAgreement ==
  Quiet /\ spent["break"] = 0 =>
    \A r \in Replica : Connected(r) /\ Welcome(r) /\ opens[r] <= 1
                         => known[r] \ discarded = rooms[RoomOf[r]].doc

\* No ghost: when everything has arrived, a client shows only peers that are
\* members of its room.
NoGhostPeer ==
  Quiet => \A r, q \in Replica : remote[r][q] > 0 =>
             \E m \in rooms[RoomOf[r]].members : m.replica = q

\* A client whose token the hub does not know gets nothing from the room and
\* leaves nothing in it, whatever it sends after the refused Join.
OutsidersStayOut ==
  \A r \in Replica : token[r] \notin DOMAIN Tokens =>
    /\ known[r] = Own(r) /\ remote[r] = NoPeers
    /\ Own(r) \cap rooms[RoomOf[r]].doc = {}
    /\ rooms[RoomOf[r]].presence[r] = 0

\* What a client has it has through the hub: edits the hub accepted, the presence
\* of members, and nothing at all for those it refused.
OnlyThroughHub == LearnedThroughHub /\ PresenceOfMembers /\ OutsidersStayOut

\* A room serves its members without a gap, whatever connection replaces which.
RoomsAreServed == TypeOK /\ MembersDistinct /\ MembersAreServed /\ NoGap

\* What the hub has accepted reaches every client that is a member in the end,
\* however often sockets break and reconnect on the way.
MembersLearnAll ==
  \A op \in Op, r \in Replica :
    <>[]Joined(r) => (op \in rooms[RoomOf[r]].doc ~> op \in known[r])

\* The stronger promise of a reconnect that replaces the prior connection: to
\* be connected in the end is enough.
ConnectedLearnAll ==
  \A op \in Op, r \in Replica :
    <>[](sock[r] # NoConn /\ wire[sock[r]] = "open")
      => (op \in rooms[RoomOf[r]].doc ~> op \in known[r])
=============================================================================
