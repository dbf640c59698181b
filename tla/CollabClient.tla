---------------------------- MODULE CollabClient ----------------------------
(***************************************************************************)
(* The connection life cycle of one client (frontend/src/collab/client.ts): *)
(* connect(), disconnect(), the reconnect timer, and the callbacks of every *)
(* socket the client has ever created. The callbacks of a socket act on     *)
(* this.socket, whichever socket that is when they run.                     *)
(*                                                                          *)
(* WebSocket is external: a new socket opens or fails, an open one may      *)
(* fail at any time, one that is told to close closes, and each of them     *)
(* runs onopen at most and onclose exactly once. send() throws only while   *)
(* the socket connects, which the client never tries. Presence, peers and   *)
(* level are in SyncSystem; a WebSocket constructor that throws is left out.*)
(***************************************************************************)
EXTENDS Naturals, Sequences, FiniteSets

CONSTANTS Socket,      \* bound: the sockets the client can create, 1 .. n
          NoSocket,    \* null
          QueueLimit,  \* MAX_QUEUE
          MaxOps,      \* bound: calls of sendOps
          MaxCalls     \* bound: calls of connect() and disconnect()

ASSUME SocketAssumption == Socket \subseteq Nat /\ NoSocket \notin Socket /\ QueueLimit \in Nat

VARIABLES socket,        \* this.socket
          status,        \* this.status
          attempts,      \* reconnectAttempts
          timer,         \* whether reconnectTimer is set
          closedByUser,
          queued,        \* frames kept for the next socket
          ready,         \* socket -> readyState, "none" before it is created
          sent,          \* socket -> the frames sent on it
          made,          \* bound and history: frames sendOps has numbered
          calls,         \* bound: calls of connect() and disconnect()
          wanted,        \* history: the last of these calls was connect()
          overlapped,    \* history: connect() was called before the close of
                         \* every earlier socket was seen
          given_up       \* history: frames dropped by disconnect() or a full queue

connectionVars == <<socket, status, attempts, timer, closedByUser, queued, ready, sent,
                    made, calls, wanted, overlapped, given_up>>

\* Frames are numbered: those of sendOps follow the two control frames.
Join == 0
Resync == 1
Ops(n) == n + 1

ClientInit ==
  /\ socket = NoSocket
  /\ status = "disconnected"
  /\ attempts = 0
  /\ timer = FALSE
  /\ closedByUser = FALSE
  /\ queued = <<>>
  /\ ready = [s \in Socket |-> "none"]
  /\ sent = [s \in Socket |-> <<>>]
  /\ made = 0
  /\ calls = 0
  /\ wanted = FALSE
  /\ overlapped = FALSE
  /\ given_up = {}

Created == {s \in Socket : ready[s] # "none"}
Live == {s \in Socket : ready[s] \in {"connecting", "open", "closing"}}
CanSend == socket # NoSocket /\ ready[socket] = "open"

\* Returning early leaves the timer and closedByUser as they are.
AlreadyConnected == socket # NoSocket /\ status \in {"connected", "connecting"}

-----------------------------------------------------------------------------
\* The body of connect() behind its early return; it needs a socket of the bound.
NewSocket ==
  \E s \in Socket \ Created :
    /\ s = 1 + Cardinality(Created)
    /\ socket' = s
    /\ ready' = [ready EXCEPT ![s] = "connecting"]
    /\ closedByUser' = FALSE
    /\ timer' = FALSE
    /\ status' = IF attempts > 0 THEN "reconnecting" ELSE "connecting"

\* A call of connect() that does not return early.
Connect ==
  /\ calls < MaxCalls
  /\ ~AlreadyConnected
  /\ calls' = calls + 1
  /\ wanted' = TRUE
  /\ overlapped' = (overlapped \/ Live # {})
  /\ NewSocket
  /\ UNCHANGED <<attempts, queued, sent, made, given_up>>

\* The reconnect timer.
TimerFires ==
  /\ timer
  /\ IF closedByUser \/ AlreadyConnected
     THEN timer' = FALSE /\ UNCHANGED <<socket, ready, closedByUser, status>>
     ELSE NewSocket
  /\ UNCHANGED <<attempts, queued, sent, made, calls, wanted, overlapped, given_up>>

\* enqueue, of frames in order.
Dropped(q) == IF Len(q) > QueueLimit THEN {q[i] : i \in 1 .. (Len(q) - QueueLimit)} ELSE {}
Kept(q) == IF Len(q) > QueueLimit THEN SubSeq(q, Len(q) - QueueLimit + 1, Len(q)) ELSE q

\* onopen: Join and Resync, then the queue, through send(). When this.socket is
\* another socket they go to it if it is open, else they join the queue.
OnOpen(s) ==
  /\ ready[s] = "connecting"
  /\ ready' = [ready EXCEPT ![s] = "open"]
  /\ attempts' = 0
  /\ status' = "connected"
  /\ IF socket # NoSocket /\ ready'[socket] = "open"
     THEN /\ sent' = [sent EXCEPT ![socket] = @ \o <<Join, Resync>> \o queued]
          /\ queued' = <<>>
          /\ UNCHANGED given_up
     ELSE /\ queued' = Kept(queued \o <<Join, Resync>>)
          /\ given_up' = given_up \cup Dropped(queued \o <<Join, Resync>>)
          /\ UNCHANGED sent
  /\ UNCHANGED <<socket, timer, closedByUser, made, calls, wanted, overlapped>>

\* A mutation of OnSocketClose: a retry is scheduled after a lost connection, not
\* after an attempt that failed.
OnSocketCloseOnce(s) ==
  /\ s \in Live
  /\ ready' = [ready EXCEPT ![s] = "closed"]
  /\ socket' = NoSocket
  /\ IF closedByUser \/ ready[s] # "open"
     THEN status' = "disconnected" /\ UNCHANGED <<timer, attempts>>
     ELSE /\ status' = "reconnecting"
          /\ timer' = TRUE
          /\ attempts' = IF timer THEN attempts ELSE attempts + 1
  /\ UNCHANGED <<closedByUser, queued, sent, made, calls, wanted, overlapped, given_up>>

\* onclose, of any socket that is not closed yet: the connection failed, broke,
\* or closed as it was told to. A retry is scheduled unless one is pending.
OnSocketClose(s) ==
  /\ s \in Live
  /\ ready' = [ready EXCEPT ![s] = "closed"]
  /\ socket' = NoSocket
  /\ IF closedByUser
     THEN status' = "disconnected" /\ UNCHANGED <<timer, attempts>>
     ELSE /\ status' = "reconnecting"
          /\ timer' = TRUE
          /\ attempts' = IF timer THEN attempts ELSE attempts + 1
  /\ UNCHANGED <<closedByUser, queued, sent, made, calls, wanted, overlapped, given_up>>

\* A mutation of DisconnectClient: closedByUser is not set.
DisconnectClientUnmarked ==
  /\ calls < MaxCalls
  /\ calls' = calls + 1
  /\ wanted' = FALSE
  /\ timer' = FALSE
  /\ socket' = NoSocket
  /\ queued' = <<>>
  /\ given_up' = given_up \cup {queued[i] : i \in DOMAIN queued}
  /\ ready' = [s \in Socket |-> IF s = socket THEN "closing" ELSE ready[s]]
  /\ status' = "disconnected"
  /\ UNCHANGED <<attempts, closedByUser, sent, made, overlapped>>

\* disconnect(): close() is called on this.socket alone. The Leave it sends
\* before that is in SyncSystem.
DisconnectClient ==
  /\ calls < MaxCalls
  /\ calls' = calls + 1
  /\ wanted' = FALSE
  /\ closedByUser' = TRUE
  /\ timer' = FALSE
  /\ socket' = NoSocket
  /\ queued' = <<>>
  /\ given_up' = given_up \cup {queued[i] : i \in DOMAIN queued}
  /\ ready' = [s \in Socket |-> IF s = socket THEN "closing" ELSE ready[s]]
  /\ status' = "disconnected"
  /\ UNCHANGED <<attempts, sent, made, overlapped>>

\* A mutation of SendOps: a full queue loses the new frame and reports nothing.
SendOpsRefused ==
  /\ made < MaxOps
  /\ made' = made + 1
  /\ IF CanSend
     THEN sent' = [sent EXCEPT ![socket] = Append(@, Ops(made + 1))] /\ UNCHANGED queued
     ELSE queued' = (IF Len(queued) >= QueueLimit THEN queued ELSE Append(queued, Ops(made + 1)))
          /\ UNCHANGED sent
  /\ UNCHANGED <<socket, status, attempts, timer, closedByUser, ready, calls, wanted,
                 overlapped, given_up>>

\* sendOps, through send() and enqueue().
SendOps ==
  /\ made < MaxOps
  /\ made' = made + 1
  /\ IF CanSend
     THEN sent' = [sent EXCEPT ![socket] = Append(@, Ops(made + 1))] /\ UNCHANGED <<queued, given_up>>
     ELSE /\ queued' = Kept(Append(queued, Ops(made + 1)))
          /\ given_up' = given_up \cup Dropped(Append(queued, Ops(made + 1)))
          /\ UNCHANGED sent
  /\ UNCHANGED <<socket, status, attempts, timer, closedByUser, ready, calls, wanted,
                 overlapped>>

ClientNext ==
  \/ Connect \/ DisconnectClient \/ TimerFires \/ SendOps
  \/ \E s \in Socket : OnOpen(s) \/ OnSocketClose(s)

ClientSpec == ClientInit /\ [][ClientNext]_connectionVars

\* The browser runs a timer that is due and settles a socket that connects or
\* closes. Calls of the user and failures of an open socket need not happen.
ClientFairness ==
  /\ WF_connectionVars(TimerFires)
  /\ \A s \in Socket : /\ WF_connectionVars(ready[s] = "connecting" /\ (OnOpen(s) \/ OnSocketClose(s)))
                       /\ WF_connectionVars(ready[s] = "closing" /\ OnSocketClose(s))

-----------------------------------------------------------------------------
\* "A collaboration session over one WebSocket": no socket but this.socket is
\* open or on its way to be, if connect() waits for the close of the last one:
\* what SyncSystem assumes.
OneSocket ==
  ~overlapped => {s \in Socket : ready[s] \in {"connecting", "open"}} \subseteq {socket}

\* The hub refuses what comes before a Join, so a Join is the first frame of
\* every socket, whichever callbacks of other sockets run in between.
JoinFirst == \A s \in Socket : sent[s] # <<>> => Head(sent[s]) = Join

Frames(q) == {q[i] : i \in DOMAIN q}

\* No frame of sendOps vanishes inside the client, through every overlap of
\* sockets: it was sent, is queued, or was dropped by the queue's own rules.
NothingVanishes ==
  {Ops(n) : n \in 1 .. made} \subseteq given_up \cup Frames(queued) \cup UNION {Frames(sent[s]) : s \in Socket}

\* What was sent in a session is one stream of whole frames behind a Join,
\* whichever sockets and callbacks overlap.
OneSession == OneSocket /\ JoinFirst /\ NothingVanishes

\* disconnect() means no reconnect: after it, no callback and no timer creates
\* a socket until connect() is called.
NoUnwantedSocket == [][~wanted /\ ~wanted' => Created' = Created]_connectionVars

\* Every outage ends: a client that is wanted gets an open this.socket again
\* (unless the sockets of the bound are used up).
Reconnects ==
  (wanted /\ ~CanSend) ~> (~wanted \/ CanSend \/ Created = Socket)

\* "Leave the room and close the socket without reconnecting": after
\* disconnect() every socket of the client closes, unless connect() is called.
DisconnectCloses == (~wanted /\ Live # {}) ~> (wanted \/ Live = {})
=============================================================================
