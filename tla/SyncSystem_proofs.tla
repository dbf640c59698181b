------------------------- MODULE SyncSystem_proofs --------------------------
(***************************************************************************)
(* Theorems about SyncSystem for any connections, rooms, replicas, tokens  *)
(* and bounds: what the hub, the tasks of the server and the clients keep  *)
(* true together. The invariant turns on ownership: a connection belongs   *)
(* to one client from its first frame to its last, so that every frame on  *)
(* its way speaks for that client or is about its room.                    *)
(***************************************************************************)
EXTENDS SyncSystem, SequenceTheorems, FiniteSetTheorems, TLAPS

RoomState == [doc : SUBSET Op, presence : PresenceMap, members : SUBSET Member]
Envelope == [to : Conn, message : ServerFrame]

\* The operations that exist so far.
Made == Replica \X (1 .. spent["edit"])

\* The types the steps need, functions and their ranges spelled out.
Types ==
  /\ rooms \in [Room -> RoomState]
  /\ conn_room \in [Conn -> Room \cup {NoRoom}]
  /\ outbound \in [Conn -> SUBSET Envelope]
  /\ task \in [Conn -> Task] /\ wire \in [Conn -> Wire] /\ peers \subseteq Conn
  /\ inbox \in [Conn -> Seq(ClientFrame)]
  /\ outbox \in [Conn -> Seq(ServerFrame)]
  /\ sock \in [Replica -> Conn \cup {NoConn}]
  /\ queue \in [Replica -> Seq(ClientFrame)]
  /\ known \in [Replica -> SUBSET Made]
  /\ remote \in [Replica -> PresenceMap] /\ epoch \in [Replica -> Nat]
  /\ level \in [Replica -> Level \cup {NoLevel}]
  /\ next_conn \in Nat
  /\ spent \in [Kind -> Nat] /\ spent["edit"] <= Budget["edit"]

\* A client whose token the hub knows.
HasToken(r) == token[r] \in DOMAIN Tokens

\* A client speaks for itself alone: what it joins, edits and shows is its own.
Says(r, frame) ==
  /\ frame.type = "Join" => frame.room = RoomOf[r] /\ frame.replica = r /\ frame.token = token[r]
  /\ frame.type = "Ops" => frame.ops \subseteq Own(r)
  /\ frame.type = "Presence" => frame.replica = r

\* A client is told what its room accepted, one without a token only that it is
\* rejected.
Told(r, frame) ==
  /\ Brings(frame) \subseteq rooms[RoomOf[r]].doc
  /\ frame.type = "Rejected" \/ HasToken(r)

\* A connection belongs to one client from its first frame to its last.
BelongsTo(c, r) ==
  /\ \A q \in Replica : sock[q] = c => q = r
  /\ \A frame \in Range(inbox[c]) : Says(r, frame)
  /\ \A frame \in Range(outbox[c]) : Told(r, frame)
  /\ \A d \in Conn : \A o \in outbound[d] : o.to = c => Told(r, o.message)
  /\ \A room \in Room : \A m \in rooms[room].members : m.conn = c => m.replica = r /\ room = RoomOf[r]
  /\ conn_room[c] # NoRoom => conn_room[c] = RoomOf[r] /\ HasToken(r)

Unused(c) ==
  /\ \A q \in Replica : sock[q] # c
  /\ task[c] = "none" /\ wire[c] = "none" /\ c \notin peers /\ conn_room[c] = NoRoom
  /\ inbox[c] = <<>> /\ outbox[c] = <<>>
  /\ \A d \in Conn : \A o \in outbound[d] : o.to # c

ConnsHaveOwners ==
  \A c \in Conn : IF c < next_conn THEN \E r \in Replica : BelongsTo(c, r) ELSE Unused(c)

\* What a handler returned is dispatched by the same task before its next frame,
\* and holds one message at most for each connection.
TasksInOrder ==
  \A c \in Conn :
    /\ task[c] \in {"reading", "dispatching", "leaving", "closing"} => c \in peers
    /\ outbound[c] # {} => task[c] \in {"dispatching", "leaving"}
    /\ \A o, p \in outbound[c] : o.to = p.to => o = p

QueuesAreOwn == \A r \in Replica : \A frame \in Range(queue[r]) : Says(r, frame)

\* What a room accepted was made by clients with a token it knows.
DocsByMembers ==
  \A room \in Room : \A op \in rooms[room].doc : op \in Made /\ HasToken(op[1])

\* Without a token a client learns nothing.
OutsidersLearnNothing ==
  \A r \in Replica : HasToken(r) \/ (known[r] = Own(r) /\ remote[r] = NoPeers)

IInv == /\ Types
        /\ ConnsHaveOwners
        /\ TasksInOrder
        /\ QueuesAreOwn
        /\ DocsByMembers
        /\ OutsidersLearnNothing
        /\ MembersDistinct
        /\ MembersAreServed
        /\ PresenceOfMembers
        /\ LearnedThroughHub
        /\ NoGap

-----------------------------------------------------------------------------
\* Queues.
LEMMA RangeOfEmpty == Range(<<>>) = {}
  BY DEF Range

LEMMA RangeOfAppend ==
  ASSUME NEW S, NEW q \in Seq(S), NEW e \in S
  PROVE  Append(q, e) \in Seq(S) /\ Range(Append(q, e)) = Range(q) \cup {e}
<1>1. Append(q, e) \in Seq(S)
  BY AppendProperties
<1>2. Append(q, e) = q \o <<e>>
  BY AppendIsConcat
<1>3. Range(<<e>>) = {e}
  BY DEF Range
<1>4. Range(q \o <<e>>) = Range(q) \cup Range(<<e>>)
  <2>1. <<e>> \in Seq(S)
    OBVIOUS
  <2>. QED  BY <2>1, RangeConcatenation, Zenon
<1>. QED  BY <1>1, <1>2, <1>3, <1>4, Zenon

LEMMA RangeOfTail ==
  ASSUME NEW S, NEW q \in Seq(S), q # <<>>
  PROVE  /\ Head(q) \in S /\ Tail(q) \in Seq(S)
         /\ Range(q) = {Head(q)} \cup Range(Tail(q))
<1>1. /\ Head(q) \in S /\ Tail(q) \in Seq(S)
      /\ Len(q) \in Nat \ {0} /\ Head(q) = q[1]
      /\ Len(Tail(q)) = Len(q) - 1
      /\ \A i \in 1 .. Len(q) - 1 : Tail(q)[i] = q[i + 1]
  BY HeadTailProperties, LenProperties, EmptySeq
<1>2. /\ Range(q) = {q[i] : i \in 1 .. Len(q)}
      /\ Range(Tail(q)) = {Tail(q)[i] : i \in 1 .. Len(q) - 1}
  BY <1>1, RangeEquality
<1>3. ASSUME NEW i \in 1 .. Len(q), i # 1
      PROVE  q[i] \in Range(Tail(q))
  <2>1. i - 1 \in 1 .. Len(q) - 1 /\ q[i] = Tail(q)[i - 1]
    BY <1>1, <1>3
  <2>. QED  BY <2>1, <1>2
<1>4. ASSUME NEW i \in 1 .. Len(q) - 1
      PROVE  Tail(q)[i] \in Range(q)
  <2>1. i + 1 \in 1 .. Len(q) /\ Tail(q)[i] = q[i + 1]
    BY <1>1
  <2>. QED  BY <2>1, <1>2
<1>5. Head(q) \in Range(q)
  BY <1>1, <1>2
<1>. QED  BY <1>1, <1>2, <1>3, <1>4, <1>5

-----------------------------------------------------------------------------
\* What handling one frame of the connection c of client r does at most: it
\* stays within the room of r and answers c and the members of that room.
Confined(c, r) ==
  /\ rooms' \in [Room -> RoomState]
  /\ conn_room' \in [Conn -> Room \cup {NoRoom}]
  /\ outbound' \in [Conn -> SUBSET Envelope]
  /\ \A room \in Room \ {RoomOf[r]} : rooms'[room] = rooms[room]
  /\ \A d \in Conn \ {c} : conn_room'[d] = conn_room[d] /\ outbound'[d] = outbound[d]
  /\ conn_room'[c] = NoRoom \/ (conn_room'[c] = RoomOf[r] /\ HasToken(r))

\* Operations are added, those of r alone and only with a token.
DocGrows(c, r) ==
  /\ rooms[RoomOf[r]].doc \subseteq rooms'[RoomOf[r]].doc
  /\ rooms'[RoomOf[r]].doc \subseteq rooms[RoomOf[r]].doc \cup Own(r)
  /\ rooms'[RoomOf[r]].doc # rooms[RoomOf[r]].doc => HasToken(r)

\* The entry of r may come, go or change its level, with its presence.
MembersChange(c, r) ==
  /\ \A m, n \in rooms'[RoomOf[r]].members : m.conn = n.conn \/ m.replica = n.replica => m = n
  /\ \A m \in rooms'[RoomOf[r]].members :
       IF m.conn = c THEN m.replica = r /\ conn_room'[c] = RoomOf[r]
       ELSE \E n \in rooms[RoomOf[r]].members : n.conn = m.conn /\ n.replica = m.replica
  /\ \A q \in Replica : rooms'[RoomOf[r]].presence[q] > 0 =>
       \E m \in rooms'[RoomOf[r]].members : m.replica = q

\* One message at most for a connection, c itself or a member, and nothing in
\* it that is not in the document of the room.
Answers(c, r) ==
  /\ \A o, p \in outbound'[c] : o.to = p.to => o = p
  /\ \A o \in outbound'[c] :
       /\ Brings(o.message) \subseteq rooms'[RoomOf[r]].doc
       /\ \/ o.to = c /\ (o.message.type = "Rejected" \/ HasToken(r))
          \/ \E n \in rooms[RoomOf[r]].members : n.conn = o.to

\* A new member is sent the document, an old one what is added to it.
MembersAreTold(c, r) ==
  \A m \in rooms'[RoomOf[r]].members :
    \/ \E o \in outbound'[c] : o.to = m.conn /\ rooms'[RoomOf[r]].doc \subseteq Brings(o.message)
    \/ /\ \E n \in rooms[RoomOf[r]].members : n.conn = m.conn
       /\ \/ m.conn = c
          \/ rooms'[RoomOf[r]].doc = rooms[RoomOf[r]].doc
          \/ \E o \in outbound'[c] :
               o.to = m.conn /\ rooms'[RoomOf[r]].doc \subseteq rooms[RoomOf[r]].doc \cup Brings(o.message)

Handled(c, r) == /\ Confined(c, r)
                 /\ DocGrows(c, r)
                 /\ MembersChange(c, r)
                 /\ Answers(c, r)
                 /\ MembersAreTold(c, r)

\* A frame is read: its connection has an owner and is being served.
Reading(c, r) == /\ IInv
                 /\ c \in Conn /\ r \in Replica
                 /\ BelongsTo(c, r)
                 /\ task[c] = "reading"

LEMMA ReadingFacts ==
  ASSUME NEW c, NEW r, Reading(c, r)
  PROVE  /\ RoomOf[r] \in Room
         /\ rooms[RoomOf[r]] \in RoomState
         /\ conn_room[c] = NoRoom \/ (conn_room[c] = RoomOf[r] /\ HasToken(r))
         /\ MembersOf(c) \subseteq rooms[RoomOf[r]].members
         /\ \A m \in MembersOf(c) : m.conn = c /\ m.replica = r
         /\ MembersOf(c) # {} => conn_room[c] = RoomOf[r] /\ HasToken(r)
         /\ \A m \in rooms[RoomOf[r]].members : m.conn = c => m \in MembersOf(c)
<1>1. RoomOf[r] \in Room /\ rooms[RoomOf[r]] \in RoomState
  BY RoomOfAssumption DEF Reading, IInv, Types
<1>2. conn_room[c] = NoRoom \/ (conn_room[c] = RoomOf[r] /\ HasToken(r))
  BY DEF Reading, BelongsTo
<1>3. /\ MembersOf(c) \subseteq rooms[RoomOf[r]].members
      /\ \A m \in MembersOf(c) : m.conn = c
      /\ MembersOf(c) # {} => conn_room[c] = RoomOf[r] /\ HasToken(r)
  BY <1>2 DEF MembersOf
<1>4. \A m \in rooms[RoomOf[r]].members : m.conn = c => m.replica = r
  BY <1>1 DEF Reading, BelongsTo
<1>5. \A m \in rooms[RoomOf[r]].members : m.conn = c => conn_room[c] = RoomOf[r]
  BY <1>1 DEF Reading, IInv, MembersAreServed
<1>6. \A m \in rooms[RoomOf[r]].members : m.conn = c => m \in MembersOf(c)
  BY <1>1, <1>5, RoomAssumption DEF MembersOf
<1>. QED  BY <1>1, <1>2, <1>3, <1>4, <1>6

\* A handler that only answers c itself.
LEMMA OnlyAnswers ==
  ASSUME NEW c, NEW r, Reading(c, r),
         NEW messages \in SUBSET Envelope, Returns(c, messages), UNCHANGED <<rooms, conn_room>>,
         \A o, p \in messages : o.to = p.to => o = p,
         \A o \in messages : /\ o.to = c
                             /\ o.message.type = "Rejected" \/ HasToken(r)
                             /\ Brings(o.message) \subseteq rooms[RoomOf[r]].doc
  PROVE  Handled(c, r)
<1>0. rooms' = rooms /\ conn_room' = conn_room
  OBVIOUS
<1>1. outbound \in [Conn -> SUBSET Envelope] /\ c \in Conn
  BY DEF Reading, IInv, Types
<1>2. /\ outbound' \in [Conn -> SUBSET Envelope] /\ outbound'[c] = messages
      /\ \A d \in Conn \ {c} : outbound'[d] = outbound[d]
  BY <1>1 DEF Returns
<1>3. Confined(c, r)
  <2>1. rooms \in [Room -> RoomState] /\ conn_room \in [Conn -> Room \cup {NoRoom}]
    BY DEF Reading, IInv, Types
  <2>2. conn_room[c] = NoRoom \/ (conn_room[c] = RoomOf[r] /\ HasToken(r))
    BY ReadingFacts
  <2>. QED  BY <1>0, <1>2, <2>1, <2>2 DEF Confined
<1>4. DocGrows(c, r)
  BY <1>0 DEF DocGrows
<1>5. MembersChange(c, r)
  <2>1. \A m, n \in rooms[RoomOf[r]].members : m.conn = n.conn \/ m.replica = n.replica => m = n
    BY ReadingFacts DEF Reading, IInv, MembersDistinct
  <2>2. \A q \in Replica : rooms[RoomOf[r]].presence[q] > 0 =>
          \E m \in rooms[RoomOf[r]].members : m.replica = q
    BY ReadingFacts DEF Reading, IInv, PresenceOfMembers
  <2>. QED  BY <1>0, <2>1, <2>2, ReadingFacts DEF MembersChange
<1>6. Answers(c, r)
  BY <1>0, <1>2 DEF Answers
<1>7. MembersAreTold(c, r)
  BY <1>0 DEF MembersAreTold
<1>. QED  BY <1>3, <1>4, <1>5, <1>6, <1>7 DEF Handled

LEMMA RejectHandled ==
  ASSUME NEW c, NEW r, Reading(c, r), Reject(c)
  PROVE  Handled(c, r)
<1>. DEFINE messages == {[to |-> c, message |-> [type |-> "Rejected"]]}
<1>1. messages \in SUBSET Envelope
  BY DEF Envelope, ServerFrame, Reading
<1>2. Returns(c, messages) /\ UNCHANGED <<rooms, conn_room>>
  BY DEF Reject, Reply
<1>3. /\ \A o, p \in messages : o.to = p.to => o = p
      /\ \A o \in messages : /\ o.to = c
                             /\ o.message.type = "Rejected" \/ HasToken(r)
                             /\ Brings(o.message) \subseteq rooms[RoomOf[r]].doc
  BY DEF Brings
<1>. HIDE DEF messages
<1>. QED  BY <1>1, <1>2, <1>3, OnlyAnswers

\* Nothing changes and nothing is answered.
LEMMA IgnoredHandled ==
  ASSUME NEW c, NEW r, Reading(c, r), Returns(c, {}), UNCHANGED <<rooms, conn_room>>
  PROVE  Handled(c, r)
<1>1. {} \in SUBSET Envelope
  OBVIOUS
<1>. QED  BY <1>1, OnlyAnswers

LEMMA JoinHandled ==
  ASSUME NEW c, NEW r, Reading(c, r),
         OnJoin(c, RoomOf[r], token[r], r)
  PROVE  Handled(c, r)
<1>1. CASE Reject(c)
  BY <1>1, RejectHandled
<1>2. ASSUME NEW a \in Authenticate(RoomOf[r], token[r]),
             rooms' = [rooms EXCEPT ![RoomOf[r]].members =
               {m \in @ : m.replica # r}
                 \cup {[conn |-> c, replica |-> r, subject |-> a.subject, level |-> a.level]}],
             conn_room' = [conn_room EXCEPT ![c] = RoomOf[r]],
             Reply(c, [type |-> "Welcome", level |-> a.level,
                       snapshot |-> rooms[RoomOf[r]].doc, presence |-> rooms[RoomOf[r]].presence])
      PROVE  Handled(c, r)
  <2>. DEFINE R == RoomOf[r]
              entry == [conn |-> c, replica |-> r, subject |-> a.subject, level |-> a.level]
              welcome == [type |-> "Welcome", level |-> a.level,
                          snapshot |-> rooms[R].doc, presence |-> rooms[R].presence]
  <2>1. HasToken(r) /\ a.subject \in Subject /\ a.level \in Level
    BY <1>2, LevelAssumption DEF Authenticate, LevelIn, HasToken, Subject
  <2>2. /\ R \in Room /\ rooms[R] \in RoomState
        /\ rooms \in [Room -> RoomState] /\ conn_room \in [Conn -> Room \cup {NoRoom}]
        /\ outbound \in [Conn -> SUBSET Envelope] /\ c \in Conn /\ r \in Replica
    BY ReadingFacts DEF Reading, IInv, Types
  <2>3. entry \in Member /\ [to |-> c, message |-> welcome] \in Envelope
    BY <2>1, <2>2 DEF Member, Envelope, ServerFrame, RoomState
  <2>4. /\ conn_room' \in [Conn -> Room \cup {NoRoom}]
        /\ conn_room'[c] = R /\ \A d \in Conn \ {c} : conn_room'[d] = conn_room[d]
    BY <1>2, <2>2
  <2>5. outbound' = [outbound EXCEPT ![c] = {[to |-> c, message |-> welcome]}]
    BY <1>2 DEF Reply, Returns
  <2>6. /\ outbound' \in [Conn -> SUBSET Envelope]
        /\ outbound'[c] = {[to |-> c, message |-> welcome]}
        /\ \A d \in Conn \ {c} : outbound'[d] = outbound[d]
    BY <2>2, <2>3, <2>5
  <2>7. /\ rooms'[R].doc = rooms[R].doc /\ rooms'[R].presence = rooms[R].presence
        /\ rooms'[R].members = {m \in rooms[R].members : m.replica # r} \cup {entry}
        /\ \A room \in Room \ {R} : rooms'[room] = rooms[room]
        /\ rooms' \in [Room -> RoomState]
    BY <1>2, <2>2, <2>3 DEF RoomState
  <2>8. entry.conn = c /\ entry.replica = r
    OBVIOUS
  <2>9. Brings(welcome) = rooms[R].doc
    BY DEF Brings
  <2>10. \A m \in rooms[R].members : m.conn = c => m.replica = r
    BY ReadingFacts
  <2>. HIDE DEF entry, welcome
  <2>11. Confined(c, r)
    BY <2>1, <2>4, <2>6, <2>7 DEF Confined
  <2>12. DocGrows(c, r)
    BY <2>7 DEF DocGrows
  <2>13. MembersChange(c, r)
    <3>1. \A m, n \in rooms'[R].members : m.conn = n.conn \/ m.replica = n.replica => m = n
      <4>1. \A m, n \in rooms[R].members : m.conn = n.conn \/ m.replica = n.replica => m = n
        BY <2>2 DEF Reading, IInv, MembersDistinct
      <4>. QED  BY <4>1, <2>7, <2>8, <2>10
    <3>2. \A m \in rooms'[R].members :
            IF m.conn = c THEN m.replica = r /\ conn_room'[c] = R
            ELSE \E n \in rooms[R].members : n.conn = m.conn /\ n.replica = m.replica
      BY <2>4, <2>7, <2>8, <2>10
    <3>3. ASSUME NEW q \in Replica, rooms'[R].presence[q] > 0
          PROVE  \E m \in rooms'[R].members : m.replica = q
      <4>1. PICK n \in rooms[R].members : n.replica = q
        BY <2>2, <2>7, <3>3 DEF Reading, IInv, PresenceOfMembers
      <4>. QED  BY <4>1, <2>7, <2>8
    <3>. QED  BY <3>1, <3>2, <3>3 DEF MembersChange
  <2>14. Answers(c, r)
    BY <2>1, <2>6, <2>7, <2>9 DEF Answers
  <2>15. MembersAreTold(c, r)
    <3>1. \A m \in rooms'[R].members :
            m = entry \/ \E n \in rooms[R].members : n.conn = m.conn
      BY <2>7
    <3>. QED  BY <3>1, <2>6, <2>7, <2>8, <2>9 DEF MembersAreTold
  <2>. QED  BY <2>11, <2>12, <2>13, <2>14, <2>15 DEF Handled
<1>. QED  BY <1>1, <1>2 DEF OnJoin

LEMMA StateTypes ==
  ASSUME NEW c, NEW r, Reading(c, r)
  PROVE  /\ rooms \in [Room -> RoomState] /\ conn_room \in [Conn -> Room \cup {NoRoom}]
         /\ outbound \in [Conn -> SUBSET Envelope] /\ c \in Conn /\ r \in Replica
         /\ rooms[RoomOf[r]].members \subseteq Member
  BY ReadingFacts DEF Reading, IInv, Types, RoomState

\* One message to every other member.
LEMMA BroadcastFacts ==
  ASSUME NEW c, NEW r, Reading(c, r), MembersOf(c) # {},
         NEW message \in ServerFrame, Broadcast(c, message)
  PROVE  /\ outbound' \in [Conn -> SUBSET Envelope]
         /\ \A d \in Conn \ {c} : outbound'[d] = outbound[d]
         /\ \A o, p \in outbound'[c] : o.to = p.to => o = p
         /\ \A o \in outbound'[c] :
              o.message = message /\ \E n \in rooms[RoomOf[r]].members : n.conn = o.to
         /\ \A m \in rooms[RoomOf[r]].members : m.conn # c =>
              \E o \in outbound'[c] : o.to = m.conn /\ o.message = message
<1>. DEFINE others == {n \in rooms[RoomOf[r]].members : n.conn # c}
            out == {[to |-> m.conn, message |-> message] : m \in others}
<1>1. conn_room[c] = RoomOf[r]
  BY ReadingFacts
<1>2. outbound' = [outbound EXCEPT ![c] = out]
  BY <1>1 DEF Broadcast, Returns
<1>3. others \subseteq Member
  BY StateTypes
<1>4. out \in SUBSET Envelope
  BY <1>3 DEF Envelope, Member
<1>5. /\ outbound' \in [Conn -> SUBSET Envelope] /\ outbound'[c] = out
      /\ \A d \in Conn \ {c} : outbound'[d] = outbound[d]
  BY <1>2, <1>4, StateTypes
<1>6. \A o \in out : o.message = message /\ \E n \in rooms[RoomOf[r]].members : n.conn = o.to
  OBVIOUS
<1>7. \A o, p \in out : o.to = p.to => o = p
  OBVIOUS
<1>8. \A m \in rooms[RoomOf[r]].members : m.conn # c =>
        \E o \in out : o.to = m.conn /\ o.message = message
  <2>1. ASSUME NEW m \in rooms[RoomOf[r]].members, m.conn # c
        PROVE  \E o \in out : o.to = m.conn /\ o.message = message
    <3>1. [to |-> m.conn, message |-> message] \in out
      BY <2>1
    <3>. QED  BY <3>1
  <2>. QED  BY <2>1
<1>. HIDE DEF out
<1>. QED  BY <1>5, <1>6, <1>7, <1>8

LEMMA OpsHandled ==
  ASSUME NEW c, NEW r, Reading(c, r),
         NEW ops \in SUBSET Op, ops \subseteq Own(r), OnOps(c, ops)
  PROVE  Handled(c, r)
<1>1. CASE Reject(c)
  BY <1>1, RejectHandled
<1>2. ASSUME NEW m \in MembersOf(c),
             rooms' = [rooms EXCEPT ![conn_room[c]].doc = @ \cup ops],
             Broadcast(c, [type |-> "Ops", from |-> m.replica, ops |-> ops]),
             UNCHANGED conn_room
      PROVE  Handled(c, r)
  <2>. DEFINE R == RoomOf[r]
              message == [type |-> "Ops", from |-> m.replica, ops |-> ops]
  <2>1. /\ R \in Room /\ rooms[R] \in RoomState
        /\ conn_room[c] = R /\ HasToken(r) /\ m \in rooms[R].members
    BY ReadingFacts
  <2>2. m \in Member
    BY <2>1, StateTypes
  <2>3. message \in ServerFrame /\ Brings(message) = ops
    BY <2>2 DEF ServerFrame, Brings, Member
  <2>. HIDE DEF message
  <2>4. /\ outbound' \in [Conn -> SUBSET Envelope]
        /\ \A d \in Conn \ {c} : outbound'[d] = outbound[d]
        /\ \A o, p \in outbound'[c] : o.to = p.to => o = p
        /\ \A o \in outbound'[c] :
             o.message = message /\ \E n \in rooms[R].members : n.conn = o.to
        /\ \A n \in rooms[R].members : n.conn # c =>
             \E o \in outbound'[c] : o.to = n.conn /\ o.message = message
    BY <1>2, <2>3, BroadcastFacts DEF message
  <2>5. /\ rooms' \in [Room -> RoomState]
        /\ rooms'[R].doc = rooms[R].doc \cup ops
        /\ rooms'[R].presence = rooms[R].presence /\ rooms'[R].members = rooms[R].members
        /\ \A room \in Room \ {R} : rooms'[room] = rooms[room]
    BY <1>2, <2>1, StateTypes DEF RoomState
  <2>6. conn_room' = conn_room
    BY <1>2
  <2>7. Confined(c, r)
    BY <2>1, <2>4, <2>5, <2>6, StateTypes DEF Confined
  <2>8. DocGrows(c, r)
    BY <2>1, <2>5 DEF DocGrows
  <2>9. MembersChange(c, r)
    <3>1. \A k, n \in rooms[R].members : k.conn = n.conn \/ k.replica = n.replica => k = n
      BY <2>1 DEF Reading, IInv, MembersDistinct
    <3>2. \A q \in Replica : rooms[R].presence[q] > 0 => \E n \in rooms[R].members : n.replica = q
      BY <2>1 DEF Reading, IInv, PresenceOfMembers
    <3>3. \A n \in rooms[R].members : n.conn = c => n.replica = r
      BY ReadingFacts
    <3>. QED  BY <2>1, <2>5, <2>6, <3>1, <3>2, <3>3 DEF MembersChange
  <2>10. Answers(c, r)
    BY <2>3, <2>4, <2>5 DEF Answers
  <2>11. MembersAreTold(c, r)
    BY <2>3, <2>4, <2>5 DEF MembersAreTold
  <2>. QED  BY <2>7, <2>8, <2>9, <2>10, <2>11 DEF Handled
<1>. QED  BY <1>1, <1>2 DEF OnOps

LEMMA PresenceHandled ==
  ASSUME NEW c, NEW r, Reading(c, r), NEW n \in Nat, OnPresence(c, r, n)
  PROVE  Handled(c, r)
<1>1. CASE Reject(c)
  BY <1>1, RejectHandled
<1>2. CASE Returns(c, {}) /\ UNCHANGED <<rooms, conn_room>>
  BY <1>2, IgnoredHandled
<1>3. ASSUME MembersOf(c) # {},
             rooms' = [rooms EXCEPT ![conn_room[c]].presence[r] = n],
             Broadcast(c, [type |-> "Presence", replica |-> r, epoch |-> n]),
             UNCHANGED conn_room
      PROVE  Handled(c, r)
  <2>. DEFINE R == RoomOf[r]
              message == [type |-> "Presence", replica |-> r, epoch |-> n]
  <2>1. /\ R \in Room /\ rooms[R] \in RoomState
        /\ conn_room[c] = R /\ HasToken(r)
    BY <1>3, ReadingFacts
  <2>2. PICK m \in rooms[R].members : m.replica = r
    BY <1>3, ReadingFacts
  <2>3. message \in ServerFrame /\ Brings(message) = {}
    BY StateTypes DEF ServerFrame, Brings
  <2>. HIDE DEF message
  <2>4. /\ outbound' \in [Conn -> SUBSET Envelope]
        /\ \A d \in Conn \ {c} : outbound'[d] = outbound[d]
        /\ \A o, p \in outbound'[c] : o.to = p.to => o = p
        /\ \A o \in outbound'[c] :
             o.message = message /\ \E k \in rooms[R].members : k.conn = o.to
    BY <1>3, <2>3, BroadcastFacts DEF message
  <2>5. /\ rooms' \in [Room -> RoomState]
        /\ rooms'[R].doc = rooms[R].doc
        /\ rooms'[R].presence = [rooms[R].presence EXCEPT ![r] = n]
        /\ rooms'[R].members = rooms[R].members
        /\ \A room \in Room \ {R} : rooms'[room] = rooms[room]
    BY <1>3, <2>1, StateTypes DEF RoomState, PresenceMap
  <2>6. conn_room' = conn_room
    BY <1>3
  <2>7. Confined(c, r)
    BY <2>1, <2>4, <2>5, <2>6, StateTypes DEF Confined
  <2>8. DocGrows(c, r)
    BY <2>1, <2>5 DEF DocGrows
  <2>9. MembersChange(c, r)
    <3>1. \A j, k \in rooms[R].members : j.conn = k.conn \/ j.replica = k.replica => j = k
      BY <2>1 DEF Reading, IInv, MembersDistinct
    <3>2. \A q \in Replica : rooms[R].presence[q] > 0 => \E k \in rooms[R].members : k.replica = q
      BY <2>1 DEF Reading, IInv, PresenceOfMembers
    <3>3. \A k \in rooms[R].members : k.conn = c => k.replica = r
      BY ReadingFacts
    <3>4. \A q \in Replica : rooms'[R].presence[q] > 0 => \E k \in rooms[R].members : k.replica = q
      BY <2>1, <2>2, <2>5, <3>2 DEF RoomState, PresenceMap
    <3>. QED  BY <2>1, <2>5, <2>6, <3>1, <3>3, <3>4 DEF MembersChange
  <2>10. Answers(c, r)
    BY <2>3, <2>4, <2>5 DEF Answers
  <2>11. MembersAreTold(c, r)
    BY <2>5 DEF MembersAreTold
  <2>. QED  BY <2>7, <2>8, <2>9, <2>10, <2>11 DEF Handled
<1>. QED  BY <1>1, <1>2, <1>3 DEF OnPresence

LEMMA SetAccessHandled ==
  ASSUME NEW c, NEW r, Reading(c, r),
         NEW subject, NEW lv \in Level, OnSetAccess(c, subject, lv)
  PROVE  Handled(c, r)
<1>1. CASE Reject(c)
  BY <1>1, RejectHandled
<1>2. ASSUME MembersOf(c) # {},
             rooms' = [rooms EXCEPT ![conn_room[c]].members =
               {m \in @ : m.subject # subject}
                 \cup {[m EXCEPT !.level = lv] : m \in {n \in @ : n.subject = subject}}],
             Returns(c, {}), UNCHANGED conn_room
      PROVE  Handled(c, r)
  <2>. DEFINE R == RoomOf[r]
              old == rooms[R].members
              Relevel(m) == [m EXCEPT !.level = lv]
              new == {m \in old : m.subject # subject}
                       \cup {Relevel(m) : m \in {n \in old : n.subject = subject}}
  <2>1. /\ R \in Room /\ rooms[R] \in RoomState
        /\ conn_room[c] = R /\ HasToken(r)
    BY <1>2, ReadingFacts
  <2>2. \A m \in old : m \in Member /\ Relevel(m) \in Member
                       /\ Relevel(m).conn = m.conn /\ Relevel(m).replica = m.replica
    BY StateTypes DEF Member
  <2>3. rooms' = [rooms EXCEPT ![R] = [rooms[R] EXCEPT !.members = new]]
    BY <1>2, <2>1
  <2>. HIDE DEF Relevel
  <2>4. new \subseteq Member
    BY <2>2
  <2>5. \A k \in new : \E m \in old : /\ m.conn = k.conn /\ m.replica = k.replica
                                      /\ k = IF m.subject = subject THEN Relevel(m) ELSE m
    BY <2>2
  <2>6. \A m \in old : \E k \in new : m.conn = k.conn /\ m.replica = k.replica
    BY <2>2
  <2>. HIDE DEF new
  <2>7. /\ rooms' \in [Room -> RoomState]
        /\ rooms'[R].doc = rooms[R].doc /\ rooms'[R].presence = rooms[R].presence
        /\ rooms'[R].members = new
        /\ \A room \in Room \ {R} : rooms'[room] = rooms[room]
    BY <2>1, <2>3, <2>4, StateTypes DEF RoomState
  <2>8. /\ outbound' \in [Conn -> SUBSET Envelope] /\ outbound'[c] = {}
        /\ \A d \in Conn \ {c} : outbound'[d] = outbound[d]
    BY <1>2, StateTypes DEF Returns
  <2>9. conn_room' = conn_room
    BY <1>2
  <2>10. Confined(c, r)
    BY <2>1, <2>7, <2>8, <2>9, StateTypes DEF Confined
  <2>11. DocGrows(c, r)
    BY <2>7 DEF DocGrows
  <2>12. MembersChange(c, r)
    <3>1. \A j, k \in old : j.conn = k.conn \/ j.replica = k.replica => j = k
      BY <2>1 DEF Reading, IInv, MembersDistinct
    <3>2. \A j, k \in new : j.conn = k.conn \/ j.replica = k.replica => j = k
      BY <2>5, <3>1
    <3>3. \A q \in Replica : rooms[R].presence[q] > 0 => \E k \in old : k.replica = q
      BY <2>1 DEF Reading, IInv, PresenceOfMembers
    <3>4. \A q \in Replica : rooms[R].presence[q] > 0 => \E k \in new : k.replica = q
      BY <2>6, <3>3
    <3>5. \A k \in old : k.conn = c => k.replica = r
      BY ReadingFacts
    <3>. QED  BY <2>1, <2>5, <2>7, <2>9, <3>2, <3>4, <3>5 DEF MembersChange
  <2>13. Answers(c, r)
    BY <2>8 DEF Answers
  <2>14. MembersAreTold(c, r)
    BY <2>5, <2>7 DEF MembersAreTold
  <2>. QED  BY <2>10, <2>11, <2>12, <2>13, <2>14 DEF Handled
<1>. QED  BY <1>1, <1>2 DEF OnSetAccess

LEMMA ResyncHandled ==
  ASSUME NEW c, NEW r, Reading(c, r), OnResync(c)
  PROVE  Handled(c, r)
<1>1. CASE Reject(c)
  BY <1>1, RejectHandled
<1>2. CASE /\ conn_room[c] # NoRoom
           /\ Reply(c, [type |-> "Snapshot", snapshot |-> rooms[conn_room[c]].doc])
           /\ UNCHANGED <<rooms, conn_room>>
  <2>. DEFINE message == [type |-> "Snapshot", snapshot |-> rooms[RoomOf[r]].doc]
              messages == {[to |-> c, message |-> message]}
  <2>1. /\ conn_room[c] = RoomOf[r] /\ HasToken(r)
        /\ rooms[RoomOf[r]] \in RoomState /\ c \in Conn
    BY <1>2, ReadingFacts, StateTypes
  <2>2. message \in ServerFrame /\ Brings(message) = rooms[RoomOf[r]].doc
    BY <2>1 DEF ServerFrame, RoomState, Brings
  <2>3. Returns(c, messages)
    BY <1>2, <2>1 DEF Reply
  <2>. HIDE DEF message
  <2>4. /\ messages \in SUBSET Envelope
        /\ \A o, p \in messages : o.to = p.to => o = p
        /\ \A o \in messages : /\ o.to = c
                               /\ o.message.type = "Rejected" \/ HasToken(r)
                               /\ Brings(o.message) \subseteq rooms[RoomOf[r]].doc
    BY <2>1, <2>2 DEF Envelope
  <2>. HIDE DEF messages
  <2>. QED  BY <1>2, <2>3, <2>4, OnlyAnswers
<1>. QED  BY <1>1, <1>2 DEF OnResync

\* A connection that leaves is nowhere a member afterwards.
LEMMA LeaveHandled ==
  ASSUME NEW c, NEW r, Reading(c, r), OnLeave(c)
  PROVE  Handled(c, r) /\ conn_room'[c] = NoRoom
<1>. DEFINE R == RoomOf[r]
<1>1. CASE /\ conn_room[c] = NoRoom
           /\ Returns(c, {})
           /\ UNCHANGED <<rooms, conn_room>>
  BY <1>1, IgnoredHandled
<1>2. CASE /\ conn_room[c] # NoRoom
           /\ conn_room' = [conn_room EXCEPT ![c] = NoRoom]
           /\ MembersOf(c) = {}
           /\ Returns(c, {})
           /\ UNCHANGED rooms
  <2>1. R \in Room /\ \A m \in rooms[R].members : m.conn # c
    BY <1>2, ReadingFacts
  <2>2. rooms' = rooms /\ rooms \in [Room -> RoomState]
    BY <1>2, StateTypes
  <2>3. /\ conn_room' \in [Conn -> Room \cup {NoRoom}] /\ conn_room'[c] = NoRoom
        /\ \A d \in Conn \ {c} : conn_room'[d] = conn_room[d]
    BY <1>2, StateTypes
  <2>4. /\ outbound' \in [Conn -> SUBSET Envelope] /\ outbound'[c] = {}
        /\ \A d \in Conn \ {c} : outbound'[d] = outbound[d]
    BY <1>2, StateTypes DEF Returns
  <2>5. Confined(c, r)
    BY <2>2, <2>3, <2>4 DEF Confined
  <2>6. DocGrows(c, r)
    BY <2>2 DEF DocGrows
  <2>7. MembersChange(c, r)
    <3>1. \A j, k \in rooms[R].members : j.conn = k.conn \/ j.replica = k.replica => j = k
      BY <2>1 DEF Reading, IInv, MembersDistinct
    <3>2. \A q \in Replica : rooms[R].presence[q] > 0 => \E k \in rooms[R].members : k.replica = q
      BY <2>1 DEF Reading, IInv, PresenceOfMembers
    <3>. QED  BY <2>1, <2>2, <3>1, <3>2 DEF MembersChange
  <2>8. Answers(c, r) /\ MembersAreTold(c, r)
    BY <2>2, <2>4 DEF Answers, MembersAreTold
  <2>. QED  BY <2>3, <2>5, <2>6, <2>7, <2>8 DEF Handled
<1>3. ASSUME NEW m \in MembersOf(c),
             conn_room' = [conn_room EXCEPT ![c] = NoRoom],
             rooms' = [rooms EXCEPT ![conn_room[c]].members = {n \in @ : n.conn # c},
                                    ![conn_room[c]].presence[m.replica] = 0],
             Broadcast(c, [type |-> "Left", replica |-> m.replica])
      PROVE  Handled(c, r) /\ conn_room'[c] = NoRoom
  <2>. DEFINE message == [type |-> "Left", replica |-> r]
  <2>1. /\ R \in Room /\ rooms[R] \in RoomState
        /\ conn_room[c] = R /\ HasToken(r)
        /\ m \in rooms[R].members /\ m.replica = r
    BY ReadingFacts
  <2>2. message \in ServerFrame /\ Brings(message) = {}
    BY StateTypes DEF ServerFrame, Brings
  <2>. HIDE DEF message
  <2>3. /\ outbound' \in [Conn -> SUBSET Envelope]
        /\ \A d \in Conn \ {c} : outbound'[d] = outbound[d]
        /\ \A o, p \in outbound'[c] : o.to = p.to => o = p
        /\ \A o \in outbound'[c] :
             o.message = message /\ \E k \in rooms[R].members : k.conn = o.to
    BY <1>3, <2>1, <2>2, BroadcastFacts DEF message
  <2>4. /\ rooms' \in [Room -> RoomState]
        /\ rooms'[R].doc = rooms[R].doc
        /\ rooms'[R].presence = [rooms[R].presence EXCEPT ![r] = 0]
        /\ rooms'[R].members = {n \in rooms[R].members : n.conn # c}
        /\ \A room \in Room \ {R} : rooms'[room] = rooms[room]
    BY <1>3, <2>1, StateTypes DEF RoomState, PresenceMap
  <2>5. /\ conn_room' \in [Conn -> Room \cup {NoRoom}] /\ conn_room'[c] = NoRoom
        /\ \A d \in Conn \ {c} : conn_room'[d] = conn_room[d]
    BY <1>3, StateTypes
  <2>6. Confined(c, r)
    BY <2>3, <2>4, <2>5 DEF Confined
  <2>7. DocGrows(c, r)
    BY <2>4 DEF DocGrows
  <2>8. MembersChange(c, r)
    <3>1. \A j, k \in rooms[R].members : j.conn = k.conn \/ j.replica = k.replica => j = k
      BY <2>1 DEF Reading, IInv, MembersDistinct
    <3>2. \A q \in Replica : rooms[R].presence[q] > 0 => \E k \in rooms[R].members : k.replica = q
      BY <2>1 DEF Reading, IInv, PresenceOfMembers
    <3>3. \A k \in rooms[R].members : k.conn = c => k.replica = r
      BY ReadingFacts
    <3>4. ASSUME NEW q \in Replica, rooms'[R].presence[q] > 0
          PROVE  \E k \in rooms'[R].members : k.replica = q
      <4>1. q # r /\ rooms[R].presence[q] > 0
        BY <2>1, <2>4, <3>4, StateTypes DEF RoomState, PresenceMap
      <4>2. PICK k \in rooms[R].members : k.replica = q
        BY <4>1, <3>2
      <4>. QED  BY <2>4, <3>3, <4>1, <4>2
    <3>. QED  BY <2>4, <3>1, <3>4 DEF MembersChange
  <2>9. Answers(c, r)
    BY <2>2, <2>3, <2>4 DEF Answers
  <2>10. MembersAreTold(c, r)
    BY <2>4 DEF MembersAreTold
  <2>. QED  BY <2>5, <2>6, <2>7, <2>8, <2>9, <2>10 DEF Handled
<1>. QED  BY <1>1, <1>2, <1>3 DEF OnLeave

\* Whatever frame its owner put on a connection, handling it stays in bounds.
LEMMA FrameHandled ==
  ASSUME NEW c, NEW r, Reading(c, r),
         NEW msg \in ClientFrame, Says(r, msg), Handle(c, msg)
  PROVE  Handled(c, r)
<1>1. CASE msg.type = "Join" /\ OnJoin(c, msg.room, msg.token, msg.replica)
  BY <1>1, JoinHandled DEF Says
<1>2. CASE msg.type = "Ops" /\ OnOps(c, msg.ops)
  <2>1. msg.ops \in SUBSET Op /\ msg.ops \subseteq Own(r)
    BY <1>2 DEF ClientFrame, Says
  <2>. QED  BY <1>2, <2>1, OpsHandled
<1>3. CASE msg.type = "Presence" /\ OnPresence(c, msg.replica, msg.epoch)
  <2>1. msg.replica = r /\ msg.epoch \in Nat
    BY <1>3 DEF ClientFrame, Says
  <2>. QED  BY <1>3, <2>1, PresenceHandled
<1>4. CASE msg.type = "SetAccess" /\ OnSetAccess(c, msg.subject, msg.level)
  <2>1. msg.level \in Level
    BY <1>4 DEF ClientFrame
  <2>. QED  BY <1>4, <2>1, SetAccessHandled
<1>5. CASE msg.type = "Resync" /\ OnResync(c)
  BY <1>5, ResyncHandled
<1>6. CASE msg.type = "Leave" /\ OnLeave(c)
  BY <1>6, LeaveHandled
<1>. QED  BY <1>1, <1>2, <1>3, <1>4, <1>5, <1>6 DEF Handle

-----------------------------------------------------------------------------
\* What is coming to a connection, before and after a step.
LEMMA ComingNow ==
  ASSUME NEW c
  PROVE  \A op : op \in Coming(c) <=>
           \/ \E frame \in Range(outbox[c]) : op \in Brings(frame)
           \/ \E d \in Conn : \E o \in outbound[d] : o.to = c /\ op \in Brings(o.message)
  BY DEF Coming, Range

LEMMA ComingNext ==
  ASSUME NEW c
  PROVE  \A op : op \in Coming(c)' <=>
           \/ \E frame \in Range(outbox'[c]) : op \in Brings(frame)
           \/ \E d \in Conn : \E o \in outbound'[d] : o.to = c /\ op \in Brings(o.message)
  BY DEF Coming, Range

\* A task has handled a frame, or left at the end of its stream.
Served(c, r) ==
  /\ Reading(c, r)
  /\ Handled(c, r)
  /\ UNCHANGED <<peers, wire, outbox, clientVars, boundVars>>
  /\ inbox' \in [Conn -> Seq(ClientFrame)]
  /\ \A d \in Conn : Range(inbox'[d]) \subseteq Range(inbox[d])
  /\ \A d \in Conn \ {c} : inbox'[d] = inbox[d] /\ task'[d] = task[d]
  /\ task' \in [Conn -> Task]
  /\ task'[c] \in {"reading", "dispatching", "leaving"}
  /\ outbound'[c] # {} => task'[c] # "reading"
  /\ task'[c] = "leaving" => conn_room'[c] = NoRoom

LEMMA ServedFacts ==
  ASSUME NEW c, NEW r, Served(c, r)
  PROVE  /\ \A room \in Room : rooms[room].doc \subseteq rooms'[room].doc
         /\ \A q \in Replica : \A frame : Told(q, frame) => Told(q, frame)'
         /\ \A q : \A frame : Says(q, frame)' <=> Says(q, frame)
         /\ \A q : HasToken(q)' <=> HasToken(q)
         /\ \A q : Own(q)' = Own(q)
         /\ Made' = Made
         /\ outbound[c] = {} /\ c \in peers /\ c < next_conn
         /\ UNCHANGED <<peers, wire, outbox, token, sock, queue, known, remote, level, epoch,
                        next_conn, spent>>
<1>1. UNCHANGED <<peers, wire, outbox, token, sock, queue, known, remote, level, epoch,
                  next_conn, spent>>
  BY DEF Served, clientVars, boundVars
<1>2. \A room \in Room : rooms[room].doc \subseteq rooms'[room].doc
  BY DEF Served, Handled, Confined, DocGrows
<1>3. (\A q : HasToken(q)' <=> HasToken(q)) /\ (\A q : Own(q)' = Own(q)) /\ Made' = Made
  BY <1>1 DEF HasToken, Own, Made
<1>4. \A q \in Replica : \A frame : Told(q, frame) => Told(q, frame)'
  BY <1>2, <1>3, RoomOfAssumption DEF Told
<1>5. \A q : \A frame : Says(q, frame)' <=> Says(q, frame)
  BY <1>1, <1>3 DEF Says
<1>6. outbound[c] = {} /\ c \in peers
  BY DEF Served, Reading, IInv, TasksInOrder
<1>7. c < next_conn
  BY DEF Served, Reading, IInv, ConnsHaveOwners, Unused
<1>. QED  BY <1>1, <1>2, <1>3, <1>4, <1>5, <1>6, <1>7

LEMMA ServedTypes ==
  ASSUME NEW c, NEW r, Served(c, r)
  PROVE  Types'
<1>1. Types
  BY DEF Served, Reading, IInv
<1>2. /\ rooms' \in [Room -> RoomState] /\ conn_room' \in [Conn -> Room \cup {NoRoom}]
      /\ outbound' \in [Conn -> SUBSET Envelope]
      /\ inbox' \in [Conn -> Seq(ClientFrame)] /\ task' \in [Conn -> Task]
  BY DEF Served, Handled, Confined
<1>3. ClientFrame' = ClientFrame /\ ServerFrame' = ServerFrame /\ Envelope' = Envelope
  BY ServedFacts DEF ClientFrame, ServerFrame, Envelope
<1>. QED  BY <1>1, <1>2, <1>3, ServedFacts DEF Types, RoomState

LEMMA ServedOwners ==
  ASSUME NEW c, NEW r, Served(c, r)
  PROVE  ConnsHaveOwners'
<1>1. /\ IInv /\ Confined(c, r) /\ MembersChange(c, r) /\ Answers(c, r)
      /\ c \in Conn /\ r \in Replica /\ RoomOf[r] \in Room /\ BelongsTo(c, r)
  BY ReadingFacts DEF Served, Handled, Reading
<1>2. \A d \in Conn : \A n \in rooms[RoomOf[r]].members :
        n.conn = d => conn_room[d] = RoomOf[r] /\ task[d] # "none"
  BY <1>1 DEF IInv, MembersAreServed
<1>3. ASSUME NEW d \in Conn, d < next_conn
      PROVE  \E q \in Replica : BelongsTo(d, q)'
  <2>1. PICK q \in Replica : BelongsTo(d, q) /\ (d = c => q = r)
    BY <1>1, <1>3 DEF IInv, ConnsHaveOwners
  <2>2. \A p \in Replica : sock'[p] = d => p = q
    BY <2>1, ServedFacts DEF BelongsTo
  <2>3. \A frame \in Range(inbox'[d]) : Says(q, frame)'
    BY <2>1, ServedFacts DEF BelongsTo, Served
  <2>4. \A frame \in Range(outbox'[d]) : Told(q, frame)'
    BY <2>1, ServedFacts DEF BelongsTo
  <2>5. ASSUME NEW e \in Conn, NEW o \in outbound'[e], o.to = d
        PROVE  Told(q, o.message)'
    <3>1. CASE e # c
      BY <1>1, <2>1, <2>5, <3>1, ServedFacts DEF BelongsTo, Confined
    <3>2. CASE e = c /\ o.to = c /\ (o.message.type = "Rejected" \/ HasToken(r))
      BY <1>1, <2>1, <2>5, <3>2, ServedFacts DEF Answers, Told
    <3>3. ASSUME e = c, NEW n \in rooms[RoomOf[r]].members, n.conn = o.to
          PROVE  Told(q, o.message)'
      <4>1. RoomOf[q] = RoomOf[r] /\ HasToken(q)
        BY <1>1, <1>2, <2>1, <2>5, <3>3, RoomAssumption DEF BelongsTo
      <4>. QED  BY <1>1, <2>5, <3>3, <4>1, ServedFacts DEF Answers, Told
    <3>. QED  BY <1>1, <2>5, <3>1, <3>2, <3>3 DEF Answers
  <2>6. ASSUME NEW room \in Room, NEW m \in rooms'[room].members, m.conn = d
        PROVE  m.replica = q /\ room = RoomOf[q]
    BY <1>1, <2>1, <2>6 DEF BelongsTo, Confined, MembersChange
  <2>7. conn_room'[d] # NoRoom => conn_room'[d] = RoomOf[q] /\ HasToken(q)'
    BY <1>1, <2>1, ServedFacts DEF BelongsTo, Confined
  <2>. QED  BY <2>2, <2>3, <2>4, <2>5, <2>6, <2>7 DEF BelongsTo
<1>4. ASSUME NEW d \in Conn, ~(d < next_conn)
      PROVE  Unused(d)'
  <2>1. Unused(d) /\ d # c
    BY <1>1, <1>4, ServedFacts DEF IInv, ConnsHaveOwners
  <2>2. \A e \in Conn : \A o \in outbound'[e] : o.to # d
    <3>1. \A o \in outbound'[c] : o.to # d
      BY <1>1, <1>2, <2>1 DEF Answers, Unused
    <3>. QED  BY <1>1, <2>1, <3>1 DEF Unused, Confined
  <2>3. task'[d] = "none" /\ inbox'[d] = <<>> /\ conn_room'[d] = NoRoom
    BY <1>1, <2>1 DEF Unused, Served, Confined
  <2>. QED  BY <2>1, <2>2, <2>3, ServedFacts DEF Unused
<1>. QED  BY <1>3, <1>4, ServedFacts DEF ConnsHaveOwners

LEMMA ServedNoGap ==
  ASSUME NEW c, NEW r, Served(c, r)
  PROVE  NoGap'
<1>. DEFINE R == RoomOf[r]
<1>1. /\ IInv /\ Confined(c, r) /\ DocGrows(c, r) /\ MembersAreTold(c, r)
      /\ c \in Conn /\ r \in Replica /\ R \in Room /\ BelongsTo(c, r)
  BY ReadingFacts DEF Served, Handled, Reading
<1>2. SUFFICES ASSUME NEW q \in Replica, Joined(q)', NEW s, s = sock[q],
                      NEW op \in rooms'[RoomOf[q]].doc, op \notin known[q]
               PROVE  op \in Coming(s)'
  BY ServedFacts DEF NoGap, Coming
<1>3. PICK m \in rooms'[RoomOf[q]].members : m.conn = s
  BY <1>2, ServedFacts DEF Joined
<1>4. s # NoConn /\ wire[s] = "open"
  BY <1>2, ServedFacts DEF Joined
<1>5. Coming(s) \subseteq Coming(s)'
  <2>1. \A frame \in Range(outbox[s]) : frame \in Range(outbox'[s])
    BY ServedFacts
  <2>2. \A d \in Conn : \A o \in outbound[d] : o \in outbound'[d]
    BY <1>1, ServedFacts DEF Confined
  <2>. QED  BY <2>1, <2>2, ComingNow, ComingNext
<1>6. ASSUME NEW n \in rooms[RoomOf[q]].members, n.conn = s,
             op \in rooms[RoomOf[q]].doc
      PROVE  op \in Coming(s)'
  <2>1. Joined(q)
    BY <1>2, <1>4, <1>6 DEF Joined
  <2>2. op \in Coming(sock[q])
    BY <1>1, <1>2, <1>6, <2>1 DEF IInv, NoGap
  <2>3. op \in Coming(s)
    BY <1>2, <2>2 DEF Coming
  <2>. QED  BY <1>5, <2>3
<1>7. CASE RoomOf[q] # R
  BY <1>1, <1>2, <1>3, <1>6, <1>7, RoomOfAssumption DEF Confined
<1>8. ASSUME RoomOf[q] = R, NEW o \in outbound'[c], o.to = s, op \in Brings(o.message)
      PROVE  op \in Coming(s)'
  BY <1>1, <1>8, ComingNext
<1>9. ASSUME RoomOf[q] = R, NEW n \in rooms[R].members, n.conn = s,
             m.conn = c
      PROVE  op \in Coming(s)'
  <2>1. q = r
    BY <1>1, <1>2, <1>3, <1>9 DEF BelongsTo
  <2>2. op \in rooms[R].doc \/ op \in known[q]
    BY <1>1, <1>2, <2>1 DEF DocGrows, Own
  <2>. QED  BY <1>2, <1>6, <1>9, <2>2
<1>10. CASE RoomOf[q] = R
  BY <1>1, <1>2, <1>3, <1>6, <1>8, <1>9, <1>10 DEF MembersAreTold
<1>. QED  BY <1>7, <1>10

LEMMA ServedKeeps ==
  ASSUME NEW c, NEW r, Served(c, r)
  PROVE  IInv'
<1>. DEFINE R == RoomOf[r]
<1>1. /\ IInv /\ Confined(c, r) /\ DocGrows(c, r) /\ MembersChange(c, r) /\ Answers(c, r)
      /\ c \in Conn /\ r \in Replica /\ R \in Room /\ BelongsTo(c, r)
  BY ReadingFacts DEF Served, Handled, Reading
<1>2. TasksInOrder'
  BY <1>1, ServedFacts, SMTT(30) DEF IInv, TasksInOrder, Served, Confined, Answers
<1>3. QueuesAreOwn'
  BY <1>1, ServedFacts DEF IInv, QueuesAreOwn
<1>4. DocsByMembers'
  <2>1. SUFFICES ASSUME NEW room \in Room, NEW op \in rooms'[room].doc
                 PROVE  op \in Made /\ HasToken(op[1])
    BY ServedFacts DEF DocsByMembers
  <2>2. CASE op \in rooms[room].doc
    BY <1>1, <2>2 DEF IInv, DocsByMembers
  <2>3. CASE op \notin rooms[room].doc
    <3>1. op \in Own(r) /\ HasToken(r)
      BY <1>1, <2>1, <2>3 DEF Confined, DocGrows
    <3>2. op \in known[r] /\ op[1] = r
      BY <3>1 DEF Own
    <3>. QED  BY <1>1, <3>1, <3>2 DEF IInv, Types
  <2>. QED  BY <2>2, <2>3
<1>5. OutsidersLearnNothing'
  BY <1>1, ServedFacts DEF IInv, OutsidersLearnNothing, NoPeers
<1>6. MembersDistinct'
  BY <1>1 DEF IInv, MembersDistinct, Confined, MembersChange
<1>7. MembersAreServed'
  <2>1. ASSUME NEW room \in Room, NEW m \in rooms'[room].members
        PROVE  /\ task'[m.conn] \in {"reading", "dispatching"}
               /\ m.conn \in peers'
               /\ conn_room'[m.conn] = room
    <3>1. CASE room = R /\ m.conn = c
      BY <1>1, <2>1, <3>1, ServedFacts, RoomAssumption DEF MembersChange, Served
    <3>2. CASE ~(room = R /\ m.conn = c)
      <4>1. PICK n \in rooms[room].members : n.conn = m.conn /\ n.conn # c
        BY <1>1, <2>1, <3>2 DEF Confined, MembersChange, BelongsTo
      <4>2. n.conn \in Conn
        BY <1>1, <4>1 DEF IInv, Types, RoomState, Member
      <4>. QED  BY <1>1, <4>1, <4>2, ServedFacts DEF IInv, MembersAreServed, Served, Confined
    <3>. QED  BY <3>1, <3>2
  <2>. QED  BY <2>1 DEF MembersAreServed
<1>8. PresenceOfMembers'
  BY <1>1 DEF IInv, PresenceOfMembers, Confined, MembersChange
<1>9. LearnedThroughHub'
  BY <1>1, ServedFacts, RoomOfAssumption DEF IInv, LearnedThroughHub
<1>. QED
  BY <1>2, <1>3, <1>4, <1>5, <1>6, <1>7, <1>8, <1>9, ServedTypes, ServedOwners, ServedNoGap DEF IInv

-----------------------------------------------------------------------------
\* The steps of the server.
LEMMA ReaderHasOwner ==
  ASSUME IInv, NEW c \in Conn, task[c] = "reading"
  PROVE  \E r \in Replica : Reading(c, r)
<1>1. c < next_conn
  BY DEF IInv, ConnsHaveOwners, Unused
<1>. QED  BY <1>1 DEF IInv, ConnsHaveOwners, Reading

LEMMA ReadFrameKeeps ==
  ASSUME IInv, NEW c \in Conn, ReadFrame(c), UNCHANGED <<clientVars, boundVars>>
  PROVE  IInv'
<1>1. PICK r \in Replica : Reading(c, r)
  BY ReaderHasOwner DEF ReadFrame
<1>2. inbox \in [Conn -> Seq(ClientFrame)] /\ task \in [Conn -> Task]
  BY DEF IInv, Types
<1>3. PICK msg : msg = Head(inbox[c])
  OBVIOUS
<1>4. /\ msg \in ClientFrame /\ Tail(inbox[c]) \in Seq(ClientFrame)
      /\ Range(inbox[c]) = {msg} \cup Range(Tail(inbox[c]))
  BY <1>2, <1>3, RangeOfTail DEF ReadFrame
<1>5. Says(r, msg)
  BY <1>1, <1>4 DEF Reading, BelongsTo
<1>6. Handled(c, r)
  BY <1>1, <1>3, <1>4, <1>5, FrameHandled DEF ReadFrame
<1>7. /\ inbox' \in [Conn -> Seq(ClientFrame)]
      /\ \A d \in Conn : Range(inbox'[d]) \subseteq Range(inbox[d])
      /\ \A d \in Conn \ {c} : inbox'[d] = inbox[d]
  <2>1. inbox' = [inbox EXCEPT ![c] = Tail(inbox[c])]
    BY DEF ReadFrame
  <2>2. \A d \in Conn : inbox'[d] = IF d = c THEN Tail(inbox[c]) ELSE inbox[d]
    BY <1>2, <2>1
  <2>. QED  BY <1>2, <1>4, <2>1, <2>2
<1>8. /\ task' \in [Conn -> Task]
      /\ \A d \in Conn \ {c} : task'[d] = task[d]
      /\ task'[c] \in {"reading", "dispatching"}
      /\ outbound'[c] # {} => task'[c] # "reading"
  BY <1>2 DEF ReadFrame, Task
<1>9. UNCHANGED <<peers, wire, outbox>>
  BY DEF ReadFrame
<1>. QED  BY <1>1, <1>6, <1>7, <1>8, <1>9, ServedKeeps DEF Served

LEMMA EndOfStreamKeeps ==
  ASSUME IInv, NEW c \in Conn, EndOfStream(c), UNCHANGED <<clientVars, boundVars>>
  PROVE  IInv'
<1>1. PICK r \in Replica : Reading(c, r)
  BY ReaderHasOwner DEF EndOfStream
<1>2. inbox \in [Conn -> Seq(ClientFrame)] /\ task \in [Conn -> Task]
  BY DEF IInv, Types
<1>3. Handled(c, r) /\ conn_room'[c] = NoRoom
  BY <1>1, LeaveHandled DEF EndOfStream
<1>4. /\ inbox' \in [Conn -> Seq(ClientFrame)]
      /\ \A d \in Conn : Range(inbox'[d]) \subseteq Range(inbox[d])
      /\ \A d \in Conn \ {c} : inbox'[d] = inbox[d]
  <2>1. <<>> \in Seq(ClientFrame) /\ inbox' = [inbox EXCEPT ![c] = <<>>]
    BY DEF EndOfStream
  <2>2. \A d \in Conn : inbox'[d] = IF d = c THEN <<>> ELSE inbox[d]
    BY <1>2, <2>1
  <2>. QED  BY <1>2, <2>1, <2>2, RangeOfEmpty
<1>5. /\ task' \in [Conn -> Task]
      /\ \A d \in Conn \ {c} : task'[d] = task[d]
      /\ task'[c] = "leaving"
  BY <1>2 DEF EndOfStream, Task
<1>6. UNCHANGED <<peers, wire, outbox>>
  BY DEF EndOfStream
<1>. QED  BY <1>1, <1>3, <1>4, <1>5, <1>6, ServedKeeps DEF Served

\* What none of the remaining steps touches, or what only grows.
Steady ==
  /\ UNCHANGED <<rooms, conn_room, token>>
  /\ spent' \in [Kind -> Nat] /\ spent["edit"] <= spent'["edit"] /\ spent'["edit"] <= Budget["edit"]
  /\ known' \in [Replica -> SUBSET Made'] /\ \A q \in Replica : known[q] \subseteq known'[q]

LEMMA SteadyFacts ==
  ASSUME IInv, Steady
  PROVE  /\ \A q : \A frame : Told(q, frame)' <=> Told(q, frame)
         /\ \A q \in Replica : \A frame : Says(q, frame) => Says(q, frame)'
         /\ \A q : HasToken(q)' <=> HasToken(q)
         /\ \A q \in Replica : Own(q) \subseteq Own(q)'
         /\ Made \subseteq Made'
         /\ rooms' = rooms /\ conn_room' = conn_room /\ token' = token
         /\ DocsByMembers' /\ MembersDistinct' /\ PresenceOfMembers'
         /\ ClientFrame' = ClientFrame /\ ServerFrame' = ServerFrame /\ Envelope' = Envelope
<1>1. rooms' = rooms /\ conn_room' = conn_room /\ token' = token
  BY DEF Steady
<1>2. spent["edit"] \in Nat /\ spent'["edit"] \in Nat
  BY DEF IInv, Types, Steady, Kind
<1>3. Made \subseteq Made'
  BY <1>2 DEF Made, Steady
<1>4. \A q : HasToken(q)' <=> HasToken(q)
  BY <1>1 DEF HasToken
<1>5. \A q \in Replica : Own(q) \subseteq Own(q)'
  BY DEF Own, Steady
<1>6. \A q : \A frame : Told(q, frame)' <=> Told(q, frame)
  BY <1>1, <1>4 DEF Told
<1>7. \A q \in Replica : \A frame : Says(q, frame) => Says(q, frame)'
  BY <1>1, <1>5 DEF Says
<1>8. DocsByMembers'
  BY <1>1, <1>3, <1>4 DEF IInv, DocsByMembers
<1>9. MembersDistinct' /\ PresenceOfMembers'
  BY <1>1 DEF IInv, MembersDistinct, PresenceOfMembers
<1>10. ClientFrame' = ClientFrame /\ ServerFrame' = ServerFrame /\ Envelope' = Envelope
  BY <1>1 DEF ClientFrame, ServerFrame, Envelope
<1>. QED  BY <1>1, <1>3, <1>4, <1>5, <1>6, <1>7, <1>8, <1>9, <1>10

LEMMA StillIsSteady ==
  ASSUME IInv, UNCHANGED <<rooms, conn_room, token, known, spent>>
  PROVE  Steady
<1>1. /\ spent \in [Kind -> Nat] /\ spent["edit"] \in Nat /\ spent["edit"] <= Budget["edit"]
      /\ known \in [Replica -> SUBSET Made]
  BY DEF IInv, Types, Kind
<1>2. Made' = Made
  BY DEF Made
<1>. QED  BY <1>1, <1>2 DEF Steady

LEMMA RemovePeerKeeps ==
  ASSUME IInv, NEW c \in Conn, RemovePeer(c), UNCHANGED <<clientVars, boundVars>>
  PROVE  IInv'
<1>1. UNCHANGED <<rooms, conn_room, outbound, wire, inbox, outbox, token, sock, queue, known,
                  remote, level, epoch, next_conn, spent>>
  BY DEF RemovePeer, hubVars, clientVars, boundVars
<1>2. Steady
  BY <1>1, StillIsSteady
<1>3. /\ task' \in [Conn -> Task] /\ peers' \subseteq Conn
      /\ task[c] = "closing" /\ task'[c] = "done" /\ peers' = peers \ {c}
      /\ \A d \in Conn \ {c} : task'[d] = task[d]
  BY DEF RemovePeer, IInv, Types, Task
<1>4. Types'
  BY <1>1, <1>2, <1>3, SteadyFacts DEF IInv, Types, Steady
<1>5. c < next_conn
  BY <1>3 DEF IInv, ConnsHaveOwners, Unused
<1>6. ConnsHaveOwners'
  <2>1. ASSUME NEW d \in Conn, NEW q \in Replica, BelongsTo(d, q)
        PROVE  BelongsTo(d, q)'
    BY <1>1, <1>2, <2>1, SteadyFacts DEF BelongsTo
  <2>2. ASSUME NEW d \in Conn, d # c, Unused(d)
        PROVE  Unused(d)'
    BY <1>1, <1>3, <2>2 DEF Unused
  <2>. QED  BY <1>1, <1>5, <2>1, <2>2 DEF IInv, ConnsHaveOwners
<1>7. TasksInOrder'
  BY <1>1, <1>3 DEF IInv, TasksInOrder
<1>8. QueuesAreOwn'
  BY <1>1, <1>2, SteadyFacts DEF IInv, QueuesAreOwn
<1>9. OutsidersLearnNothing'
  BY <1>1, <1>2, SteadyFacts DEF IInv, OutsidersLearnNothing, Own
<1>10. MembersAreServed'
  <2>1. \A room \in Room : \A m \in rooms[room].members : m.conn \in Conn /\ m.conn # c
    BY <1>3 DEF IInv, Types, RoomState, Member, MembersAreServed
  <2>. QED  BY <1>1, <1>3, <2>1 DEF IInv, MembersAreServed
<1>11. LearnedThroughHub'
  BY <1>1 DEF IInv, LearnedThroughHub, Own
<1>12. NoGap'
  BY <1>1 DEF IInv, NoGap, Joined, Coming
<1>. QED
  BY <1>2, <1>4, <1>6, <1>7, <1>8, <1>9, <1>10, <1>11, <1>12, SteadyFacts DEF IInv

LEMMA DispatchKeeps ==
  ASSUME IInv, NEW c \in Conn, Dispatch(c), UNCHANGED <<clientVars, boundVars>>
  PROVE  IInv'
<1>1. UNCHANGED <<rooms, conn_room, peers, wire, inbox, token, sock, queue, known,
                  remote, level, epoch, next_conn, spent>>
  BY DEF Dispatch, clientVars, boundVars
<1>2. Steady
  BY <1>1, StillIsSteady
<1>3. /\ task \in [Conn -> Task] /\ outbox \in [Conn -> Seq(ServerFrame)]
      /\ outbound \in [Conn -> SUBSET Envelope]
  BY DEF IInv, Types
<1>4. /\ task' \in [Conn -> Task]
      /\ \A d \in Conn \ {c} : task'[d] = task[d]
      /\ \/ task[c] = "dispatching" /\ task'[c] = "reading"
         \/ task[c] = "leaving" /\ task'[c] = "closing"
  BY <1>3 DEF Dispatch, Task
<1>5. /\ outbound' \in [Conn -> SUBSET Envelope] /\ outbound'[c] = {}
      /\ \A d \in Conn \ {c} : outbound'[d] = outbound[d]
  BY <1>3 DEF Dispatch
<1>6. ASSUME NEW d \in Conn
      PROVE  \/ outbox'[d] = outbox[d] /\ Routed(c, d) = {}
             \/ \E o \in outbound[c] : /\ o.to = d /\ o.message \in Routed(c, d)
                                      /\ outbox'[d] = Append(outbox[d], o.message)
  <2>1. outbox'[d] = IF Routed(c, d) = {} THEN outbox[d]
                     ELSE Append(outbox[d], CHOOSE msg \in Routed(c, d) : TRUE)
    BY DEF Dispatch
  <2>2. CASE Routed(c, d) = {}
    BY <2>1, <2>2
  <2>3. CASE Routed(c, d) # {}
    <3>1. PICK msg \in Routed(c, d) : outbox'[d] = Append(outbox[d], msg)
      BY <2>1, <2>3
    <3>2. PICK o \in outbound[c] : o.to = d /\ o.message = msg
      BY <3>1 DEF Routed
    <3>. QED  BY <3>1, <3>2
  <2>. QED  BY <2>2, <2>3
<1>7. ASSUME NEW d \in Conn
      PROVE  /\ outbox'[d] \in Seq(ServerFrame) /\ Range(outbox[d]) \subseteq Range(outbox'[d])
             /\ \A frame \in Range(outbox'[d]) :
                  \/ frame \in Range(outbox[d])
                  \/ \E o \in outbound[c] : o.to = d /\ o.message = frame
  <2>1. CASE outbox'[d] = outbox[d]
    BY <1>3, <2>1
  <2>2. ASSUME NEW o \in outbound[c], o.to = d, outbox'[d] = Append(outbox[d], o.message)
        PROVE  /\ outbox'[d] \in Seq(ServerFrame)
               /\ Range(outbox'[d]) = Range(outbox[d]) \cup {o.message}
    <3>1. o.message \in ServerFrame
      BY <1>3 DEF Envelope
    <3>2. outbox[d] \in Seq(ServerFrame)
      BY <1>3
    <3>. QED  BY <2>2, <3>1, <3>2, RangeOfAppend
  <2>. QED  BY <1>6, <2>1, <2>2
<1>8. Types'
  <2>1. outbox' \in [Conn -> Seq(ServerFrame)]
    <3>1. outbox' = [d \in Conn |-> outbox'[d]]
      BY DEF Dispatch
    <3>. QED  BY <1>7, <3>1
  <2>. QED  BY <1>1, <1>2, <1>4, <1>5, <2>1, SteadyFacts DEF IInv, Types, Steady
<1>9. c < next_conn
  BY <1>4 DEF IInv, ConnsHaveOwners, Unused
<1>10. ConnsHaveOwners'
  <2>1. ASSUME NEW d \in Conn, NEW q \in Replica, BelongsTo(d, q)
        PROVE  BelongsTo(d, q)'
    <3>1. \A frame \in Range(outbox'[d]) : Told(q, frame)'
      BY <1>2, <1>7, <2>1, SteadyFacts DEF BelongsTo
    <3>2. \A e \in Conn : \A o \in outbound'[e] : o.to = d => Told(q, o.message)'
      BY <1>2, <1>5, <2>1, SteadyFacts DEF BelongsTo
    <3>. QED  BY <1>1, <1>2, <2>1, <3>1, <3>2, SteadyFacts DEF BelongsTo
  <2>2. ASSUME NEW d \in Conn, d # c, Unused(d)
        PROVE  Unused(d)'
    <3>1. outbox'[d] = outbox[d]
      BY <1>6, <2>2 DEF Unused
    <3>. QED  BY <1>1, <1>4, <1>5, <2>2, <3>1 DEF Unused
  <2>. QED  BY <1>1, <1>9, <2>1, <2>2 DEF IInv, ConnsHaveOwners
<1>11. TasksInOrder'
  BY <1>1, <1>4, <1>5 DEF IInv, TasksInOrder
<1>12. QueuesAreOwn'
  BY <1>1, <1>2, SteadyFacts DEF IInv, QueuesAreOwn
<1>13. OutsidersLearnNothing' /\ LearnedThroughHub'
  BY <1>1, <1>2, SteadyFacts DEF IInv, OutsidersLearnNothing, LearnedThroughHub, Own
<1>14. \A room \in Room : \A m \in rooms[room].members : m.conn \in Conn /\ m.conn \in peers
  BY DEF IInv, Types, RoomState, Member, MembersAreServed
<1>15. MembersAreServed'
  BY <1>1, <1>4, <1>14 DEF IInv, MembersAreServed
<1>16. NoGap'
  <2>1. SUFFICES ASSUME NEW q \in Replica, Joined(q), NEW s, s = sock[q],
                        NEW op \in rooms[RoomOf[q]].doc, op \notin known[q]
                 PROVE  op \in Coming(s)'
    BY <1>1 DEF NoGap, Coming, Joined
  <2>2. op \in Coming(s)
    BY <2>1 DEF IInv, NoGap, Coming
  <2>3. s \in Conn /\ s \in peers /\ wire[s] = "open"
    BY <1>14, <2>1, RoomOfAssumption DEF Joined
  <2>4. CASE \E frame \in Range(outbox[s]) : op \in Brings(frame)
    BY <1>7, <2>3, <2>4, ComingNext
  <2>5. ASSUME NEW d \in Conn, d # c, NEW o \in outbound[d], o.to = s, op \in Brings(o.message)
        PROVE  op \in Coming(s)'
    BY <1>5, <2>5, ComingNext
  <2>6. ASSUME NEW o \in outbound[c], o.to = s, op \in Brings(o.message)
        PROVE  op \in Coming(s)'
    <3>1. o.message \in Routed(c, s)
      BY <2>3, <2>6 DEF Routed
    <3>2. PICK p \in outbound[c] : p.to = s /\ outbox'[s] = Append(outbox[s], p.message)
      BY <1>6, <2>3, <3>1
    <3>3. p = o
      BY <2>6, <3>2 DEF IInv, TasksInOrder
    <3>4. o.message \in ServerFrame /\ outbox[s] \in Seq(ServerFrame)
      BY <1>3, <2>3 DEF Envelope
    <3>5. o.message \in Range(outbox'[s])
      BY <3>2, <3>3, <3>4, RangeOfAppend
    <3>. QED  BY <2>6, <3>5, ComingNext
  <2>. QED  BY <2>2, <2>4, <2>5, <2>6, ComingNow
<1>. QED
  BY <1>2, <1>8, <1>10, <1>11, <1>12, <1>13, <1>15, <1>16, SteadyFacts DEF IInv

LEMMA BreakKeeps ==
  ASSUME IInv, NEW c \in Conn, Break(c)
  PROVE  IInv'
<1>1. /\ UNCHANGED <<rooms, conn_room, outbound, task, peers, inbox, outbox, token, sock,
                     queue, known, remote, level, epoch, next_conn>>
      /\ spent' = [spent EXCEPT !["break"] = @ + 1]
      /\ wire[c] \in {"open", "closed"} /\ wire' = [wire EXCEPT ![c] = "broken"]
  BY DEF Break, Spend, hubVars, clientVars
<1>2. /\ spent \in [Kind -> Nat] /\ spent["edit"] \in Nat /\ spent["edit"] <= Budget["edit"]
      /\ known \in [Replica -> SUBSET Made] /\ wire \in [Conn -> Wire]
  BY DEF IInv, Types, Kind
<1>3. spent' \in [Kind -> Nat] /\ spent'["edit"] = spent["edit"]
  BY <1>1, <1>2 DEF Kind
<1>4. Made' = Made
  BY <1>3 DEF Made
<1>5. Steady
  BY <1>1, <1>2, <1>3, <1>4 DEF Steady
<1>6. /\ wire' \in [Conn -> Wire] /\ wire'[c] = "broken"
      /\ \A d \in Conn \ {c} : wire'[d] = wire[d]
  BY <1>1, <1>2 DEF Wire
<1>7. Types'
  BY <1>1, <1>5, <1>6, SteadyFacts DEF IInv, Types, Steady
<1>8. c < next_conn
  BY <1>1 DEF IInv, ConnsHaveOwners, Unused
<1>9. ConnsHaveOwners'
  <2>1. ASSUME NEW d \in Conn, NEW q \in Replica, BelongsTo(d, q)
        PROVE  BelongsTo(d, q)'
    BY <1>1, <1>5, <2>1, SteadyFacts DEF BelongsTo
  <2>2. ASSUME NEW d \in Conn, d # c, Unused(d)
        PROVE  Unused(d)'
    BY <1>1, <1>6, <2>2 DEF Unused
  <2>. QED  BY <1>1, <1>8, <2>1, <2>2 DEF IInv, ConnsHaveOwners
<1>10. TasksInOrder' /\ MembersAreServed'
  BY <1>1 DEF IInv, TasksInOrder, MembersAreServed
<1>11. QueuesAreOwn'
  BY <1>1, <1>5, SteadyFacts DEF IInv, QueuesAreOwn
<1>12. OutsidersLearnNothing' /\ LearnedThroughHub'
  BY <1>1, <1>5, SteadyFacts DEF IInv, OutsidersLearnNothing, LearnedThroughHub, Own
<1>13. NoGap'
  <2>1. \A q \in Replica : Joined(q)' => Joined(q)
    BY <1>1, <1>2, <1>6 DEF Joined, IInv, Types
  <2>. QED  BY <1>1, <2>1 DEF IInv, NoGap, Coming
<1>. QED
  BY <1>5, <1>7, <1>9, <1>10, <1>11, <1>12, <1>13, SteadyFacts DEF IInv

-----------------------------------------------------------------------------
\* The steps of the clients.

\* A client sends a frame of its own and may have added an operation of its own.
Talk(r, frame) ==
  /\ Steady
  /\ UNCHANGED <<outbound, task, peers, wire, outbox, sock, remote, level, next_conn>>
  /\ \A q \in Replica : known'[q] \subseteq known[q] \cup Own(q)'
  /\ epoch' \in [Replica -> Nat]
  /\ frame \in ClientFrame /\ Says(r, frame)'
  /\ Send(r, frame)

LEMMA EnqueuedFacts ==
  ASSUME NEW q \in Seq(ClientFrame), NEW frame \in ClientFrame
  PROVE  /\ Enqueued(q, frame) \in Seq(ClientFrame)
         /\ Range(Enqueued(q, frame)) \subseteq Range(q) \cup {frame}
<1>1. CASE frame.type = "Presence"
  BY <1>1 DEF Enqueued
<1>2. CASE frame.type # "Presence" /\ Len(q) >= MaxQueue
  <2>1. q # <<>>
    BY <1>2, QueueAssumption
  <2>2. Tail(q) \in Seq(ClientFrame) /\ Range(Tail(q)) \subseteq Range(q)
    BY <2>1, RangeOfTail
  <2>3. Enqueued(q, frame) = Append(Tail(q), frame)
    BY <1>2 DEF Enqueued
  <2>4. PICK rest \in Seq(ClientFrame) : rest = Tail(q)
    BY <2>2
  <2>5. /\ Append(rest, frame) \in Seq(ClientFrame)
        /\ Range(Append(rest, frame)) = Range(rest) \cup {frame}
    BY RangeOfAppend
  <2>. QED  BY <2>2, <2>3, <2>4, <2>5, Zenon
<1>3. CASE frame.type # "Presence" /\ ~(Len(q) >= MaxQueue)
  <2>1. Enqueued(q, frame) = Append(q, frame)
    BY <1>3 DEF Enqueued
  <2>. QED  BY <2>1, RangeOfAppend
<1>. QED  BY <1>1, <1>2, <1>3

LEMMA SendFacts ==
  ASSUME IInv, NEW r \in Replica, NEW frame \in ClientFrame, Send(r, frame)
  PROVE  /\ inbox' \in [Conn -> Seq(ClientFrame)]
         /\ queue' \in [Replica -> Seq(ClientFrame)]
         /\ \A c \in Conn : /\ sock[r] # c => inbox'[c] = inbox[c]
                            /\ Range(inbox'[c]) \subseteq Range(inbox[c]) \cup {frame}
         /\ \A q \in Replica : /\ q # r => queue'[q] = queue[q]
                               /\ Range(queue'[q]) \subseteq Range(queue[q]) \cup {frame}
<1>1. inbox \in [Conn -> Seq(ClientFrame)] /\ queue \in [Replica -> Seq(ClientFrame)]
  BY DEF IInv, Types
<1>2. CASE sock[r] = NoConn
  <2>1. inbox' = inbox /\ queue' = [queue EXCEPT ![r] = Enqueued(queue[r], frame)]
    BY <1>2 DEF Send
  <2>2. /\ Enqueued(queue[r], frame) \in Seq(ClientFrame)
        /\ Range(Enqueued(queue[r], frame)) \subseteq Range(queue[r]) \cup {frame}
    BY <1>1, EnqueuedFacts
  <2>3. \A q \in Replica : queue'[q] = IF q = r THEN Enqueued(queue[r], frame) ELSE queue[q]
    BY <1>1, <2>1
  <2>. QED  BY <1>1, <2>1, <2>2, <2>3
<1>3. CASE sock[r] # NoConn
  <2>1. /\ queue' = queue
        /\ inbox' = [c \in Conn |-> IF c = sock[r] /\ wire[c] = "open"
                                    THEN Append(inbox[c], frame) ELSE inbox[c]]
    BY <1>3 DEF Send
  <2>2. \A c \in Conn : /\ Append(inbox[c], frame) \in Seq(ClientFrame)
                        /\ Range(Append(inbox[c], frame)) = Range(inbox[c]) \cup {frame}
    BY <1>1, RangeOfAppend
  <2>3. \A c \in Conn : inbox'[c] = IF c = sock[r] /\ wire[c] = "open"
                                    THEN Append(inbox[c], frame) ELSE inbox[c]
    BY <2>1
  <2>. QED  BY <1>1, <2>1, <2>2, <2>3
<1>. QED  BY <1>2, <1>3

LEMMA TalkKeeps ==
  ASSUME IInv, NEW r \in Replica, NEW frame, Talk(r, frame)
  PROVE  IInv'
<1>1. UNCHANGED <<rooms, conn_room, outbound, task, peers, wire, outbox, token, sock, remote,
                  level, next_conn>>
  BY DEF Talk, Steady
<1>2. Steady /\ frame \in ClientFrame /\ Says(r, frame)' /\ Send(r, frame)
  BY DEF Talk
<1>3. Types'
  BY <1>1, <1>2, SendFacts, SteadyFacts DEF IInv, Types, Steady, Talk
<1>4. ConnsHaveOwners'
  <2>1. ASSUME NEW c \in Conn, NEW q \in Replica, BelongsTo(c, q)
        PROVE  BelongsTo(c, q)'
    <3>1. \A f \in Range(inbox'[c]) : Says(q, f)'
      <4>1. CASE sock[r] = c
        <5>1. q = r
          BY <2>1, <4>1 DEF BelongsTo
        <5>2. \A f \in Range(inbox'[c]) : f \in Range(inbox[c]) \/ f = frame
          BY <1>2, SendFacts, ZenonT(30)
        <5>3. \A f \in Range(inbox[c]) : Says(q, f)'
          BY <1>2, <2>1, SteadyFacts DEF BelongsTo
        <5>. QED  BY <1>2, <5>1, <5>2, <5>3
      <4>2. CASE sock[r] # c
        BY <1>2, <2>1, <4>2, SendFacts, SteadyFacts DEF BelongsTo
      <4>. QED  BY <4>1, <4>2
    <3>. QED  BY <1>1, <1>2, <2>1, <3>1, SteadyFacts DEF BelongsTo
  <2>2. ASSUME NEW c \in Conn, Unused(c)
        PROVE  Unused(c)'
    BY <1>1, <1>2, <2>2, SendFacts DEF Unused
  <2>. QED  BY <1>1, <2>1, <2>2 DEF IInv, ConnsHaveOwners
<1>5. TasksInOrder' /\ MembersAreServed'
  BY <1>1 DEF IInv, TasksInOrder, MembersAreServed
<1>6. QueuesAreOwn'
  <2>1. \A q \in Replica : \A f \in Range(queue[q]) : Says(q, f)'
    BY <1>2, SteadyFacts DEF IInv, QueuesAreOwn
  <2>2. \A q \in Replica : \A f \in Range(queue'[q]) : f \in Range(queue[q]) \/ (q = r /\ f = frame)
    BY <1>2, SendFacts
  <2>3. \A q \in Replica : \A f \in Range(queue'[q]) : Says(q, f)'
    BY <1>2, <2>1, <2>2
  <2>. QED  BY <2>3 DEF QueuesAreOwn
<1>7. OutsidersLearnNothing'
  <2>1. \A q \in Replica : known[q] = Own(q) => known'[q] = Own(q)'
    BY <1>2, SteadyFacts DEF Talk, Own
  <2>. QED  BY <1>1, <1>2, <2>1, SteadyFacts DEF IInv, OutsidersLearnNothing, NoPeers
<1>8. LearnedThroughHub'
  BY <1>1, <1>2, SteadyFacts DEF IInv, LearnedThroughHub, Talk
<1>9. NoGap'
  <2>1. \A q \in Replica : Joined(q)' <=> Joined(q)
    BY <1>1 DEF Joined
  <2>2. \A q \in Replica : Coming(sock[q])' = Coming(sock[q])
    BY <1>1 DEF Coming
  <2>3. \A q \in Replica : known[q] \subseteq known'[q]
    BY <1>2 DEF Steady
  <2>. QED  BY <1>1, <2>1, <2>2, <2>3 DEF IInv, NoGap
<1>. QED
  BY <1>2, <1>3, <1>4, <1>5, <1>6, <1>7, <1>8, <1>9, SteadyFacts DEF IInv

LEMMA SpendFacts ==
  ASSUME IInv, NEW kind \in Kind, Spend(kind)
  PROVE  /\ spent' \in [Kind -> Nat]
         /\ spent["edit"] \in Nat /\ spent["edit"] <= Budget["edit"] /\ Budget["edit"] \in Nat
         /\ spent'["edit"] = IF kind = "edit" THEN spent["edit"] + 1 ELSE spent["edit"]
         /\ spent'["edit"] <= Budget["edit"]
<1>1. spent \in [Kind -> Nat] /\ spent["edit"] <= Budget["edit"] /\ "edit" \in Kind
  BY DEF IInv, Types, Kind
<1>2. spent' = [spent EXCEPT ![kind] = @ + 1] /\ spent[kind] < Budget[kind]
  BY DEF Spend
<1>3. Budget["edit"] \in Nat
  BY <1>1, BudgetAssumption
<1>. QED  BY <1>1, <1>2, <1>3

\* A client numbers its operations without a gap, so it has at most as many as
\* edits were made.
LEMMA OwnCount ==
  ASSUME IInv, NEW r \in Replica
  PROVE  /\ IsFiniteSet(Own(r)) /\ Cardinality(Own(r)) \in Nat
         /\ Cardinality(Own(r)) <= spent["edit"]
<1>1. spent["edit"] \in Nat /\ known[r] \subseteq Made
  BY DEF IInv, Types, Kind
<1>2. \A op \in Own(r) : op[1] = r /\ op[2] \in 1 .. spent["edit"] /\ op = <<op[1], op[2]>>
  BY <1>1 DEF Own, Made
<1>. DEFINE number == [op \in Own(r) |-> op[2]]
<1>3. number \in Injection(Own(r), 1 .. spent["edit"])
  <2>1. number \in [Own(r) -> 1 .. spent["edit"]]
    BY <1>2
  <2>2. \A a, b \in Own(r) : number[a] = number[b] => a = b
    BY <1>2
  <2>. QED  BY <2>1, <2>2 DEF Injection, IsInjective
<1>4. /\ IsFiniteSet(1 .. spent["edit"])
      /\ Cardinality(1 .. spent["edit"]) = spent["edit"]
  <2>1. \A n \in Nat : IsFiniteSet(1 .. n) /\ Cardinality(1 .. n) = IF 1 > n THEN 0 ELSE n - 1 + 1
    BY FS_Interval
  <2>. QED  BY <1>1, <2>1
<1>. HIDE DEF number
<1>5. IsFiniteSet(Own(r)) /\ Cardinality(Own(r)) <= spent["edit"]
  BY <1>3, <1>4, FS_Injection
<1>. QED  BY <1>5, FS_CardinalityType

LEMMA EditKeeps ==
  ASSUME IInv, NEW r \in Replica, Edit(r)
  PROVE  IInv'
<1>0. PICK op : op = <<r, 1 + Cardinality(Own(r))>>
  OBVIOUS
<1>. DEFINE frame == [type |-> "Ops", ops |-> {op}]
<1>1. /\ UNCHANGED <<rooms, conn_room, outbound, task, peers, wire, outbox, token, sock,
                     remote, level, epoch, next_conn>>
      /\ known' = [known EXCEPT ![r] = @ \cup {op}]
      /\ Send(r, frame)
      /\ Spend("edit")
  BY <1>0 DEF Edit, hubVars
<1>2. /\ spent' \in [Kind -> Nat] /\ spent["edit"] \in Nat
      /\ spent'["edit"] = spent["edit"] + 1 /\ spent'["edit"] <= Budget["edit"]
      /\ Budget["edit"] \in Nat
  BY <1>1, SpendFacts DEF Kind
<1>3. op \in Made' /\ op \in Op /\ op[1] = r
  BY <1>0, <1>2, OwnCount, OpAssumption DEF Made
<1>4. known \in [Replica -> SUBSET Made] /\ Made \subseteq Made'
  BY <1>2 DEF IInv, Types, Made
<1>5. /\ known' \in [Replica -> SUBSET Made']
      /\ \A q \in Replica : known'[q] = IF q = r THEN known[q] \cup {op} ELSE known[q]
  BY <1>1, <1>3, <1>4
<1>6. Steady
  BY <1>1, <1>2, <1>5 DEF Steady
<1>7. \A q \in Replica : known'[q] \subseteq known[q] \cup Own(q)'
  BY <1>3, <1>5 DEF Own
<1>8. frame \in ClientFrame /\ Says(r, frame)'
  <2>1. frame \in ClientFrame
    BY <1>3 DEF ClientFrame
  <2>2. op \in Own(r)'
    BY <1>3, <1>5 DEF Own
  <2>3. frame.type = "Ops" /\ frame.ops = {op}
    OBVIOUS
  <2>. HIDE DEF frame
  <2>4. frame.ops \subseteq Own(r)'
    BY <2>2, <2>3
  <2>. QED  BY <2>1, <2>3, <2>4 DEF Says
<1>9. epoch' \in [Replica -> Nat]
  BY <1>1 DEF IInv, Types
<1>. HIDE DEF frame
<1>10. Talk(r, frame)
  BY <1>1, <1>6, <1>7, <1>8, <1>9 DEF Talk
<1>. QED  BY <1>10, TalkKeeps

LEMMA MoveCursorKeeps ==
  ASSUME IInv, NEW r \in Replica, MoveCursor(r)
  PROVE  IInv'
<1>0. PICK n : n = epoch[r] + 1
  OBVIOUS
<1>. DEFINE frame == PresenceFrame(r, n)
<1>1. /\ UNCHANGED <<rooms, conn_room, outbound, task, peers, wire, outbox, token, sock,
                     known, remote, level, next_conn>>
      /\ epoch' = [epoch EXCEPT ![r] = @ + 1]
      /\ Send(r, frame)
      /\ Spend("move")
  BY <1>0 DEF MoveCursor, hubVars
<1>2. /\ spent' \in [Kind -> Nat] /\ spent["edit"] \in Nat
      /\ spent'["edit"] = spent["edit"] /\ spent'["edit"] <= Budget["edit"]
  BY <1>1, SpendFacts DEF Kind
<1>3. Made' = Made /\ known \in [Replica -> SUBSET Made]
  BY <1>2 DEF IInv, Types, Made
<1>4. Steady
  BY <1>1, <1>2, <1>3 DEF Steady
<1>5. epoch' \in [Replica -> Nat] /\ n \in Nat
  BY <1>0, <1>1 DEF IInv, Types
<1>6. frame \in ClientFrame /\ Says(r, frame)'
  BY <1>5 DEF PresenceFrame, ClientFrame, Says
<1>. HIDE DEF frame
<1>7. Talk(r, frame)
  BY <1>1, <1>4, <1>5, <1>6 DEF Talk
<1>. QED  BY <1>7, TalkKeeps

LEMMA SetAccessKeeps ==
  ASSUME IInv, NEW r \in Replica, NEW subject \in Subject, NEW lv \in Asked,
         SetAccess(r, subject, lv)
  PROVE  IInv'
<1>. DEFINE frame == [type |-> "SetAccess", subject |-> subject, level |-> lv]
<1>1. /\ UNCHANGED <<rooms, conn_room, outbound, task, peers, wire, outbox, token, sock,
                     known, remote, level, epoch, next_conn>>
      /\ Send(r, frame)
      /\ Spend("access")
  BY DEF SetAccess, hubVars
<1>2. /\ spent' \in [Kind -> Nat] /\ spent["edit"] \in Nat
      /\ spent'["edit"] = spent["edit"] /\ spent'["edit"] <= Budget["edit"]
  BY <1>1, SpendFacts DEF Kind
<1>3. Made' = Made /\ known \in [Replica -> SUBSET Made]
  BY <1>2 DEF IInv, Types, Made
<1>4. Steady
  BY <1>1, <1>2, <1>3 DEF Steady
<1>5. epoch' \in [Replica -> Nat]
  BY <1>1 DEF IInv, Types
<1>6. frame \in ClientFrame /\ Says(r, frame)'
  BY BudgetAssumption DEF ClientFrame, Says
<1>. HIDE DEF frame
<1>7. Talk(r, frame)
  BY <1>1, <1>4, <1>5, <1>6 DEF Talk
<1>. QED  BY <1>7, TalkKeeps

LEMMA OwnerOfSock ==
  ASSUME IInv, NEW r \in Replica, sock[r] # NoConn
  PROVE  /\ sock[r] \in Conn /\ sock[r] < next_conn /\ BelongsTo(sock[r], r)
         /\ \A q \in Replica : sock[q] = sock[r] => q = r
<1>1. PICK c \in Conn : c = sock[r]
  BY DEF IInv, Types
<1>2. c < next_conn
  BY <1>1 DEF IInv, ConnsHaveOwners, Unused
<1>3. PICK q \in Replica : BelongsTo(c, q)
  BY <1>2 DEF IInv, ConnsHaveOwners
<1>4. q = r
  BY <1>1, <1>3 DEF BelongsTo
<1>5. \A p \in Replica : sock[p] = c => p = r
  BY <1>3, <1>4 DEF BelongsTo
<1>. QED  BY <1>1, <1>2, <1>3, <1>4, <1>5 DEF BelongsTo

LEMMA ReceiveFrameKeeps ==
  ASSUME IInv, NEW r \in Replica, ReceiveFrame(r)
  PROVE  IInv'
<1>1. UNCHANGED <<rooms, conn_room, outbound, task, peers, wire, inbox, token, sock, queue,
                  epoch, next_conn, spent>>
  BY DEF ReceiveFrame, hubVars, boundVars
<1>2. PICK c \in Conn : c = sock[r]
  BY OwnerOfSock DEF ReceiveFrame
<1>3. /\ c < next_conn /\ BelongsTo(c, r) /\ outbox[c] # <<>>
      /\ \A q \in Replica : sock[q] = c => q = r
  BY <1>2, OwnerOfSock, ConnAssumption DEF ReceiveFrame, BelongsTo
<1>4. PICK msg : msg = Head(outbox[c])
  OBVIOUS
<1>5. /\ outbox \in [Conn -> Seq(ServerFrame)] /\ known \in [Replica -> SUBSET Made]
      /\ remote \in [Replica -> PresenceMap] /\ level \in [Replica -> Level \cup {NoLevel}]
  BY DEF IInv, Types
<1>6. /\ msg \in ServerFrame /\ Tail(outbox[c]) \in Seq(ServerFrame)
      /\ Range(outbox[c]) = {msg} \cup Range(Tail(outbox[c]))
  BY <1>3, <1>4, <1>5, RangeOfTail
<1>7. Told(r, msg)
  BY <1>3, <1>6 DEF BelongsTo
<1>8. /\ known' = [known EXCEPT ![r] =
           CASE msg.type \in {"Welcome", "Snapshot"} -> @ \cup msg.snapshot
             [] msg.type = "Ops"                     -> @ \cup msg.ops
             [] OTHER                                -> @]
      /\ remote' = [remote EXCEPT ![r] =
           CASE msg.type = "Welcome"  -> [msg.presence EXCEPT ![r] = 0]
             [] msg.type = "Presence" -> Merged(r, @, msg.replica, msg.epoch)
             [] msg.type = "Left"     -> [@ EXCEPT ![msg.replica] = 0]
             [] OTHER                 -> @]
      /\ level' = [level EXCEPT ![r] = IF msg.type = "Welcome" THEN msg.level ELSE @]
      /\ outbox' = [outbox EXCEPT ![c] = Tail(outbox[c])]
  BY <1>2, <1>4 DEF ReceiveFrame
<1>9. \A q \in Replica : known'[q] = IF q = r THEN known[q] \cup Brings(msg) ELSE known[q]
  BY <1>5, <1>8 DEF Brings
<1>10. Made' = Made /\ Brings(msg) \subseteq Made
  BY <1>1, <1>7, RoomOfAssumption DEF Made, Told, IInv, DocsByMembers
<1>11. Steady
  <2>1. known' \in [Replica -> SUBSET Made']
    <3>1. known' = [q \in Replica |-> known'[q]]
      BY <1>5, <1>8
    <3>2. \A q \in Replica : known'[q] \in SUBSET Made'
      BY <1>5, <1>9, <1>10
    <3>. QED  BY <3>1, <3>2
  <2>2. spent \in [Kind -> Nat] /\ spent["edit"] \in Nat /\ spent["edit"] <= Budget["edit"]
    BY DEF IInv, Types, Kind
  <2>. QED  BY <1>1, <1>9, <2>1, <2>2 DEF Steady
<1>12. /\ outbox' \in [Conn -> Seq(ServerFrame)]
       /\ outbox'[c] = Tail(outbox[c]) /\ \A d \in Conn \ {c} : outbox'[d] = outbox[d]
  BY <1>5, <1>6, <1>8
<1>13. level' \in [Replica -> Level \cup {NoLevel}]
  <2>1. msg.type = "Welcome" => msg.level \in Level
    BY <1>6 DEF ServerFrame
  <2>. QED  BY <1>5, <1>8, <2>1
<1>14. remote' \in [Replica -> PresenceMap]
  <2>1. CASE msg.type = "Welcome"
    <3>1. msg.presence \in PresenceMap
      BY <1>6, <2>1 DEF ServerFrame
    <3>2. [msg.presence EXCEPT ![r] = 0] \in PresenceMap
      BY <3>1 DEF PresenceMap
    <3>. QED  BY <1>5, <1>8, <2>1, <3>2
  <2>2. CASE msg.type = "Presence"
    <3>1. msg.replica \in Replica /\ msg.epoch \in Nat
      BY <1>6, <2>2 DEF ServerFrame
    <3>2. Merged(r, remote[r], msg.replica, msg.epoch) \in PresenceMap
      BY <1>5, <3>1 DEF Merged, PresenceMap
    <3>. QED  BY <1>5, <1>8, <2>2, <3>2
  <2>3. CASE msg.type = "Left"
    <3>1. msg.replica \in Replica
      BY <1>6, <2>3 DEF ServerFrame
    <3>2. [remote[r] EXCEPT ![msg.replica] = 0] \in PresenceMap
      BY <1>5, <3>1 DEF PresenceMap
    <3>. QED  BY <1>5, <1>8, <2>3, <3>2
  <2>4. CASE msg.type \notin {"Welcome", "Presence", "Left"}
    BY <1>5, <1>8, <2>4
  <2>. QED  BY <2>1, <2>2, <2>3, <2>4
<1>15. Types'
  BY <1>1, <1>11, <1>12, <1>13, <1>14, SteadyFacts DEF IInv, Types, Steady
<1>16. ConnsHaveOwners'
  <2>1. ASSUME NEW d \in Conn, NEW q \in Replica, BelongsTo(d, q)
        PROVE  BelongsTo(d, q)'
    <3>1. \A frame \in Range(outbox'[d]) : frame \in Range(outbox[d])
      BY <1>6, <1>12
    <3>. QED  BY <1>1, <1>11, <2>1, <3>1, SteadyFacts DEF BelongsTo
  <2>2. ASSUME NEW d \in Conn, d # c, Unused(d)
        PROVE  Unused(d)'
    BY <1>1, <1>12, <2>2 DEF Unused
  <2>. QED  BY <1>1, <1>3, <2>1, <2>2 DEF IInv, ConnsHaveOwners
<1>17. TasksInOrder' /\ MembersAreServed'
  BY <1>1 DEF IInv, TasksInOrder, MembersAreServed
<1>18. QueuesAreOwn'
  BY <1>1, <1>11, SteadyFacts DEF IInv, QueuesAreOwn
<1>19. OutsidersLearnNothing'
  <2>1. ASSUME NEW q \in Replica, ~HasToken(q)
        PROVE  known'[q] = Own(q)' /\ remote'[q] = NoPeers'
    <3>1. known[q] = Own(q) /\ remote[q] = NoPeers
      BY <2>1 DEF IInv, OutsidersLearnNothing
    <3>2. CASE q # r
      <4>1. known'[q] = known[q] /\ remote'[q] = remote[q]
        BY <1>5, <1>8, <1>9, <3>2
      <4>. QED  BY <3>1, <4>1 DEF Own, NoPeers
    <3>3. CASE q = r
      <4>1. msg.type = "Rejected"
        BY <1>7, <2>1, <3>3 DEF Told
      <4>2. known'[q] = known[q] /\ remote'[q] = remote[q]
        BY <1>5, <1>8, <3>3, <4>1
      <4>. QED  BY <3>1, <4>2 DEF Own, NoPeers
    <3>. QED  BY <3>2, <3>3
  <2>. QED  BY <1>11, <2>1, SteadyFacts DEF OutsidersLearnNothing
<1>20. LearnedThroughHub'
  BY <1>1, <1>7, <1>9, <1>11, SteadyFacts DEF IInv, LearnedThroughHub, Told
<1>21. NoGap'
  <2>1. SUFFICES ASSUME NEW q \in Replica, Joined(q), NEW s, s = sock[q],
                        NEW op \in rooms[RoomOf[q]].doc, op \notin known'[q]
                 PROVE  op \in Coming(s)'
    BY <1>1 DEF NoGap, Coming, Joined
  <2>2. op \in Coming(s)
    <3>1. op \notin known[q]
      BY <1>11, <2>1 DEF Steady
    <3>. QED  BY <2>1, <3>1 DEF IInv, NoGap, Coming
  <2>6. s \in Conn
    BY <2>1, OwnerOfSock DEF Joined
  <2>3. ASSUME NEW frame \in Range(outbox[s]), op \in Brings(frame)
        PROVE  frame \in Range(outbox'[s])
    <3>1. CASE s # c
      BY <1>12, <2>6, <2>3, <3>1
    <3>2. CASE s = c
      BY <1>3, <1>6, <1>9, <1>12, <2>1, <2>3, <3>2
    <3>. QED  BY <3>1, <3>2
  <2>4. CASE \E frame \in Range(outbox[s]) : op \in Brings(frame)
    BY <2>3, <2>4, ComingNext
  <2>5. CASE \E d \in Conn : \E o \in outbound[d] : o.to = s /\ op \in Brings(o.message)
    BY <1>1, <2>5, ComingNext
  <2>. QED  BY <2>2, <2>4, <2>5, ComingNow
<1>. QED
  BY <1>11, <1>15, <1>16, <1>17, <1>18, <1>19, <1>20, <1>21, SteadyFacts DEF IInv

\* A client gives its socket up: what is still on its way to it is not received.
LetGo(r) ==
  /\ UNCHANGED <<rooms, conn_room, outbound, task, peers, token, known, epoch, next_conn>>
  /\ spent' \in [Kind -> Nat] /\ spent'["edit"] = spent["edit"]
  /\ sock' = [sock EXCEPT ![r] = NoConn]
  /\ remote' = [remote EXCEPT ![r] = NoPeers]
  /\ level' = [level EXCEPT ![r] = NoLevel]
  /\ wire' \in [Conn -> Wire]
  /\ inbox' \in [Conn -> Seq(ClientFrame)]
  /\ outbox' \in [Conn -> Seq(ServerFrame)]
  /\ \A c \in Conn : sock[r] # c =>
       wire'[c] = wire[c] /\ inbox'[c] = inbox[c] /\ outbox'[c] = outbox[c]
  /\ \A c \in Conn : \A frame \in Range(inbox'[c]) :
       frame \in Range(inbox[c]) \/ frame = [type |-> "Leave"]
  /\ \A c \in Conn : \A frame \in Range(outbox'[c]) : frame \in Range(outbox[c])
  /\ queue' \in [Replica -> Seq(ClientFrame)]
  /\ \A q \in Replica : queue'[q] = queue[q] \/ queue'[q] = <<>>

LEMMA LetGoKeeps ==
  ASSUME IInv, NEW r \in Replica, LetGo(r)
  PROVE  IInv'
<1>1. UNCHANGED <<rooms, conn_room, outbound, task, peers, token, known, epoch, next_conn>>
  BY DEF LetGo
<1>2. /\ spent \in [Kind -> Nat] /\ spent["edit"] \in Nat /\ spent["edit"] <= Budget["edit"]
      /\ known \in [Replica -> SUBSET Made] /\ sock \in [Replica -> Conn \cup {NoConn}]
      /\ remote \in [Replica -> PresenceMap] /\ level \in [Replica -> Level \cup {NoLevel}]
  BY DEF IInv, Types, Kind
<1>3. Made' = Made
  BY DEF Made, LetGo
<1>4. Steady
  BY <1>1, <1>2, <1>3 DEF Steady, LetGo
<1>5. /\ sock' \in [Replica -> Conn \cup {NoConn}] /\ sock'[r] = NoConn
      /\ \A q \in Replica : q # r => sock'[q] = sock[q]
  BY <1>2 DEF LetGo
<1>6. /\ remote' \in [Replica -> PresenceMap] /\ remote'[r] = NoPeers
      /\ \A q \in Replica : q # r => remote'[q] = remote[q]
  BY <1>2 DEF LetGo, PresenceMap, NoPeers
<1>7. level' \in [Replica -> Level \cup {NoLevel}]
  BY <1>2 DEF LetGo
<1>8. Types'
  BY <1>1, <1>4, <1>5, <1>6, <1>7, SteadyFacts DEF IInv, Types, Steady, LetGo
<1>9. ConnsHaveOwners'
  <2>1. ASSUME NEW d \in Conn, NEW q \in Replica, BelongsTo(d, q)
        PROVE  BelongsTo(d, q)'
    <3>1. \A p \in Replica : sock'[p] = d => p = q
      BY <1>5, <2>1, ConnAssumption DEF BelongsTo
    <3>2. \A frame \in Range(inbox'[d]) : Says(q, frame)'
      <4>1. \A frame \in Range(inbox[d]) : Says(q, frame)'
        BY <1>4, <2>1, SteadyFacts DEF BelongsTo
      <4>2. Says(q, [type |-> "Leave"])'
        BY DEF Says
      <4>. QED  BY <4>1, <4>2 DEF LetGo
    <3>3. \A frame \in Range(outbox'[d]) : Told(q, frame)'
      BY <1>4, <2>1, SteadyFacts DEF BelongsTo, LetGo
    <3>4. \A e \in Conn : \A o \in outbound'[e] : o.to = d => Told(q, o.message)'
      BY <1>1, <1>4, <2>1, SteadyFacts DEF BelongsTo
    <3>5. /\ \A room \in Room : \A m \in rooms'[room].members :
                m.conn = d => m.replica = q /\ room = RoomOf[q]
          /\ conn_room'[d] # NoRoom => conn_room'[d] = RoomOf[q] /\ HasToken(q)'
      BY <1>1, <1>4, <2>1, SteadyFacts DEF BelongsTo
    <3>. QED  BY <3>1, <3>2, <3>3, <3>4, <3>5 DEF BelongsTo
  <2>2. ASSUME NEW d \in Conn, Unused(d)
        PROVE  Unused(d)'
    <3>1. /\ wire'[d] = wire[d] /\ inbox'[d] = inbox[d] /\ outbox'[d] = outbox[d]
          /\ \A q \in Replica : sock'[q] # d
      BY <1>5, <2>2, ConnAssumption DEF Unused, LetGo
    <3>. QED  BY <1>1, <2>2, <3>1 DEF Unused
  <2>. QED  BY <1>1, <2>1, <2>2 DEF IInv, ConnsHaveOwners
<1>10. TasksInOrder' /\ MembersAreServed'
  BY <1>1 DEF IInv, TasksInOrder, MembersAreServed
<1>11. QueuesAreOwn'
  <2>1. \A q \in Replica : \A f \in Range(queue[q]) : Says(q, f)'
    BY <1>4, SteadyFacts DEF IInv, QueuesAreOwn
  <2>2. \A q \in Replica : \A f \in Range(queue'[q]) : Says(q, f)'
    BY <2>1, RangeOfEmpty DEF LetGo
  <2>. QED  BY <2>2 DEF QueuesAreOwn
<1>12. OutsidersLearnNothing'
  <2>1. \A q \in Replica : Own(q)' = Own(q) /\ NoPeers' = NoPeers
    BY <1>1 DEF Own, NoPeers
  <2>. QED  BY <1>1, <1>4, <1>6, <2>1, SteadyFacts DEF IInv, OutsidersLearnNothing
<1>13. LearnedThroughHub'
  BY <1>1, <1>4, SteadyFacts DEF IInv, LearnedThroughHub, Own
<1>14. NoGap'
  <2>1. SUFFICES ASSUME NEW q \in Replica, Joined(q)', NEW s, s = sock'[q],
                        NEW op \in rooms[RoomOf[q]].doc, op \notin known[q]
                 PROVE  op \in Coming(s)'
    BY <1>1 DEF NoGap, Coming
  <2>2. q # r /\ s = sock[q] /\ s # NoConn
    BY <1>5, <2>1 DEF Joined
  <2>3. s \in Conn /\ s # sock[r]
    BY <1>2, <2>2, OwnerOfSock
  <2>4. wire'[s] = wire[s] /\ outbox'[s] = outbox[s]
    BY <2>3 DEF LetGo
  <2>5. Joined(q)
    BY <1>1, <2>1, <2>2, <2>4 DEF Joined
  <2>6. op \in Coming(s)
    BY <2>1, <2>2, <2>5 DEF IInv, NoGap, Coming
  <2>. QED  BY <1>1, <2>4, <2>6, ComingNow, ComingNext
<1>. QED
  BY <1>4, <1>8, <1>9, <1>10, <1>11, <1>12, <1>13, <1>14, SteadyFacts DEF IInv

LEMMA OnCloseKeeps ==
  ASSUME IInv, NEW r \in Replica, OnClose(r)
  PROVE  IInv'
<1>1. PICK c \in Conn : c = sock[r]
  BY OwnerOfSock DEF OnClose
<1>2. /\ outbox \in [Conn -> Seq(ServerFrame)] /\ outbox' = [outbox EXCEPT ![c] = <<>>]
      /\ wire \in [Conn -> Wire] /\ inbox \in [Conn -> Seq(ClientFrame)]
      /\ spent \in [Kind -> Nat] /\ queue \in [Replica -> Seq(ClientFrame)]
      /\ UNCHANGED <<wire, inbox, spent, queue>>
  BY <1>1 DEF OnClose, boundVars, IInv, Types
<1>3. outbox' \in [Conn -> Seq(ServerFrame)]
  <2>1. <<>> \in Seq(ServerFrame)
    OBVIOUS
  <2>. QED  BY <1>2, <2>1
<1>4. \A d \in Conn : outbox'[d] = IF d = c THEN <<>> ELSE outbox[d]
  BY <1>2
<1>5. \A d \in Conn : \A frame \in Range(outbox'[d]) : frame \in Range(outbox[d])
  BY <1>4, RangeOfEmpty
<1>6. UNCHANGED <<rooms, conn_room, outbound, task, peers, token, known, epoch, next_conn>>
  BY DEF OnClose, hubVars, boundVars
<1>7. LetGo(r)
  BY <1>1, <1>2, <1>3, <1>4, <1>5, <1>6 DEF LetGo, OnClose
<1>. QED  BY <1>7, LetGoKeeps

LEMMA DisconnectKeeps ==
  ASSUME IInv, NEW r \in Replica, Disconnect(r)
  PROVE  IInv'
<1>. DEFINE leave == [type |-> "Leave"]
<1>1. /\ outbox \in [Conn -> Seq(ServerFrame)] /\ wire \in [Conn -> Wire]
      /\ inbox \in [Conn -> Seq(ClientFrame)] /\ queue \in [Replica -> Seq(ClientFrame)]
  BY DEF IInv, Types
<1>2. leave \in ClientFrame
  BY DEF ClientFrame
<1>. HIDE DEF leave
<1>3. /\ \A c \in Conn : inbox'[c] = IF c = sock[r] /\ wire[c] = "open"
                                     THEN Append(inbox[c], leave) ELSE inbox[c]
      /\ \A c \in Conn : wire'[c] = IF c = sock[r] /\ wire[c] = "open" THEN "closed" ELSE wire[c]
      /\ \A c \in Conn : outbox'[c] = IF c = sock[r] THEN <<>> ELSE outbox[c]
      /\ inbox' = [c \in Conn |-> inbox'[c]] /\ outbox' = [c \in Conn |-> outbox'[c]]
      /\ wire' = [c \in Conn |-> wire'[c]]
  BY DEF Disconnect, leave
<1>4. \A c \in Conn : /\ Append(inbox[c], leave) \in Seq(ClientFrame)
                      /\ Range(Append(inbox[c], leave)) = Range(inbox[c]) \cup {leave}
  BY <1>1, <1>2, RangeOfAppend
<1>5. /\ inbox' \in [Conn -> Seq(ClientFrame)]
      /\ \A c \in Conn : \A frame \in Range(inbox'[c]) : frame \in Range(inbox[c]) \/ frame = leave
  <2>1. ASSUME NEW c \in Conn
        PROVE  /\ inbox'[c] \in Seq(ClientFrame)
               /\ \A frame \in Range(inbox'[c]) : frame \in Range(inbox[c]) \/ frame = leave
    <3>1. inbox'[c] = Append(inbox[c], leave) \/ inbox'[c] = inbox[c]
      BY <1>3
    <3>. QED  BY <1>1, <1>4, <3>1
  <2>2. \A c \in Conn : inbox'[c] \in Seq(ClientFrame)
    BY <2>1
  <2>3. inbox' \in [Conn -> Seq(ClientFrame)]
    BY <1>3, <2>2
  <2>. QED  BY <2>1, <2>3
<1>6. /\ outbox' \in [Conn -> Seq(ServerFrame)]
      /\ \A c \in Conn : \A frame \in Range(outbox'[c]) : frame \in Range(outbox[c])
  <2>1. <<>> \in Seq(ServerFrame)
    OBVIOUS
  <2>2. \A c \in Conn : outbox'[c] \in Seq(ServerFrame)
    BY <1>1, <1>3, <2>1
  <2>3. outbox' \in [Conn -> Seq(ServerFrame)]
    BY <1>3, <2>2
  <2>. QED  BY <1>3, <2>3, RangeOfEmpty
<1>7. wire' \in [Conn -> Wire]
  <2>1. \A c \in Conn : wire'[c] \in Wire
    BY <1>1, <1>3 DEF Wire
  <2>. QED  BY <1>3, <2>1
<1>8. /\ queue' \in [Replica -> Seq(ClientFrame)]
      /\ \A q \in Replica : queue'[q] = queue[q] \/ queue'[q] = <<>>
  <2>1. queue' = [queue EXCEPT ![r] = <<>>] /\ <<>> \in Seq(ClientFrame)
    BY DEF Disconnect
  <2>. QED  BY <1>1, <2>1
<1>9. /\ UNCHANGED <<rooms, conn_room, outbound, task, peers, token, known, epoch, next_conn>>
      /\ Spend("leave")
  BY DEF Disconnect, hubVars
<1>10. spent' \in [Kind -> Nat] /\ spent'["edit"] = spent["edit"]
  BY <1>9, SpendFacts DEF Kind
<1>11. LetGo(r)
  BY <1>3, <1>5, <1>6, <1>7, <1>8, <1>9, <1>10 DEF LetGo, Disconnect, leave
<1>. QED  BY <1>11, LetGoKeeps

LEMMA OpenKeeps ==
  ASSUME IInv, NEW r \in Replica, Open(r)
  PROVE  IInv'
<1>1. PICK c \in Conn : c = next_conn
  BY DEF Open
<1>2. c \in Nat /\ Unused(c) /\ \A d \in Conn : d \in Nat
  BY <1>1, ConnAssumption DEF IInv, ConnsHaveOwners
<1>. DEFINE greeting == <<JoinFrame(r), [type |-> "Resync"]>>
            cursor == IF epoch[r] = 0 THEN <<>> ELSE <<PresenceFrame(r, epoch[r] + 1)>>
<1>3. PICK frames : frames = greeting \o queue[r] \o cursor
  OBVIOUS
<1>4. /\ UNCHANGED <<rooms, conn_room, outbound, outbox, token, known, remote, level, spent>>
      /\ sock' = [sock EXCEPT ![r] = c]
      /\ epoch' = [epoch EXCEPT ![r] = IF @ = 0 THEN 0 ELSE @ + 1]
      /\ queue' = [queue EXCEPT ![r] = <<>>]
      /\ task' = [task EXCEPT ![c] = "reading"]
      /\ wire' = [wire EXCEPT ![c] = "open"]
      /\ peers' = peers \cup {c}
      /\ inbox' = [inbox EXCEPT ![c] = frames]
      /\ next_conn' = c + 1
      /\ sock[r] = NoConn
  BY <1>1, <1>3 DEF Open, Accept, hubVars
<1>5. /\ queue[r] \in Seq(ClientFrame) /\ epoch[r] \in Nat
      /\ \A frame \in Range(queue[r]) : Says(r, frame)
  BY DEF IInv, Types, QueuesAreOwn
<1>6. frames \in Seq(ClientFrame) /\ \A frame \in Range(frames) : Says(r, frame)
  <2>1. /\ JoinFrame(r) \in ClientFrame /\ Says(r, JoinFrame(r))
        /\ [type |-> "Resync"] \in ClientFrame /\ Says(r, [type |-> "Resync"])
    BY RoomOfAssumption DEF JoinFrame, ClientFrame, Says
  <2>2. /\ PresenceFrame(r, epoch[r] + 1) \in ClientFrame
        /\ Says(r, PresenceFrame(r, epoch[r] + 1))
    BY <1>5 DEF PresenceFrame, ClientFrame, Says
  <2>3. greeting \in Seq(ClientFrame) /\ \A frame \in Range(greeting) : Says(r, frame)
    <3>1. Range(greeting) = {JoinFrame(r), [type |-> "Resync"]}
      BY DEF Range
    <3>. QED  BY <2>1, <3>1
  <2>4. cursor \in Seq(ClientFrame) /\ \A frame \in Range(cursor) : Says(r, frame)
    <3>1. Range(cursor) \subseteq {PresenceFrame(r, epoch[r] + 1)}
      BY DEF Range
    <3>. QED  BY <2>2, <3>1
  <2>. HIDE DEF greeting, cursor
  <2>5. greeting \o queue[r] \in Seq(ClientFrame) /\ frames \in Seq(ClientFrame)
    BY <1>3, <1>5, <2>3, <2>4
  <2>6. Range(frames) = Range(greeting) \cup Range(queue[r]) \cup Range(cursor)
    <3>1. Range(greeting \o queue[r]) = Range(greeting) \cup Range(queue[r])
      BY <1>5, <2>3, RangeConcatenation
    <3>2. PICK first : first = greeting \o queue[r]
      OBVIOUS
    <3>3. Range(first \o cursor) = Range(first) \cup Range(cursor)
      BY <2>4, <2>5, <3>2, RangeConcatenation
    <3>. QED  BY <1>3, <3>1, <3>2, <3>3
  <2>. QED  BY <1>5, <2>3, <2>4, <2>5, <2>6
<1>. HIDE DEF greeting, cursor
<1>7. Steady
  BY <1>4, StillIsSteady
<1>8. /\ inbox' \in [Conn -> Seq(ClientFrame)] /\ inbox'[c] = frames
      /\ \A d \in Conn \ {c} : inbox'[d] = inbox[d]
  BY <1>4, <1>6 DEF IInv, Types
<1>9. /\ task' \in [Conn -> Task] /\ task'[c] = "reading"
      /\ wire' \in [Conn -> Wire] /\ wire'[c] = "open"
      /\ \A d \in Conn \ {c} : task'[d] = task[d] /\ wire'[d] = wire[d]
      /\ peers' \subseteq Conn
  BY <1>4 DEF IInv, Types, Task, Wire
<1>10. /\ sock' \in [Replica -> Conn \cup {NoConn}] /\ sock'[r] = c
       /\ \A q \in Replica \ {r} : sock'[q] = sock[q]
  BY <1>4 DEF IInv, Types
<1>11. /\ queue' \in [Replica -> Seq(ClientFrame)]
       /\ \A q \in Replica : queue'[q] = queue[q] \/ queue'[q] = <<>>
  <2>1. <<>> \in Seq(ClientFrame)
    OBVIOUS
  <2>. QED  BY <1>4, <2>1 DEF IInv, Types
<1>12. epoch' \in [Replica -> Nat] /\ next_conn' \in Nat
  BY <1>2, <1>4 DEF IInv, Types
<1>13. Types'
  BY <1>4, <1>7, <1>8, <1>9, <1>10, <1>11, <1>12, SteadyFacts DEF IInv, Types, Steady
<1>14. \A room \in Room : \A m \in rooms[room].members : m.conn \in Conn /\ m.conn # c
  BY <1>2 DEF Unused, IInv, Types, RoomState, Member, MembersAreServed
<1>15. ConnsHaveOwners'
  <2>1. BelongsTo(c, r)'
    <3>1. \A q \in Replica : sock'[q] = c => q = r
      BY <1>2, <1>10 DEF Unused
    <3>2. \A frame \in Range(inbox'[c]) : Says(r, frame)'
      BY <1>6, <1>7, <1>8, SteadyFacts
    <3>3. \A frame \in Range(outbox'[c]) : Told(r, frame)'
      BY <1>2, <1>4, RangeOfEmpty DEF Unused
    <3>4. \A d \in Conn : \A o \in outbound'[d] : o.to # c
      BY <1>2, <1>4 DEF Unused
    <3>5. \A room \in Room : \A m \in rooms'[room].members : m.conn # c
      BY <1>4, <1>14
    <3>6. conn_room'[c] = NoRoom
      BY <1>2, <1>4 DEF Unused
    <3>. QED  BY <3>1, <3>2, <3>3, <3>4, <3>5, <3>6 DEF BelongsTo
  <2>2. ASSUME NEW d \in Conn, d # c, NEW q \in Replica, BelongsTo(d, q)
        PROVE  BelongsTo(d, q)'
    <3>1. \A p \in Replica : sock'[p] = d => p = q
      BY <1>10, <2>2 DEF BelongsTo
    <3>. QED  BY <1>4, <1>7, <1>8, <2>2, <3>1, SteadyFacts DEF BelongsTo
  <2>3. ASSUME NEW d \in Conn, d # c, Unused(d)
        PROVE  Unused(d)'
    <3>1. \A q \in Replica : sock'[q] # d
      BY <1>10, <2>3 DEF Unused
    <3>. QED  BY <1>4, <1>8, <1>9, <2>3, <3>1 DEF Unused
  <2>4. \A d \in Conn : d # c => (d < next_conn <=> d < next_conn')
    BY <1>1, <1>2, <1>4
  <2>5. c < next_conn'
    BY <1>2, <1>4
  <2>. QED  BY <2>1, <2>2, <2>3, <2>4, <2>5 DEF IInv, ConnsHaveOwners
<1>16. TasksInOrder'
  BY <1>2, <1>4, <1>9 DEF IInv, TasksInOrder, Unused
<1>17. QueuesAreOwn'
  BY <1>7, <1>11, RangeOfEmpty, SteadyFacts DEF IInv, QueuesAreOwn
<1>18. OutsidersLearnNothing' /\ LearnedThroughHub'
  BY <1>4, <1>7, SteadyFacts DEF IInv, OutsidersLearnNothing, LearnedThroughHub, Own
<1>19. MembersAreServed'
  BY <1>4, <1>9, <1>14 DEF IInv, MembersAreServed
<1>20. NoGap'
  <2>1. SUFFICES ASSUME NEW q \in Replica, Joined(q)', NEW s, s = sock'[q]
                 PROVE  Joined(q) /\ s = sock[q]
    BY <1>4 DEF IInv, NoGap, Coming
  <2>2. PICK m \in rooms[RoomOf[q]].members : m.conn = s
    BY <1>4, <2>1 DEF Joined
  <2>3. s \in Conn /\ s # c
    BY <1>14, <2>2, RoomOfAssumption
  <2>4. q # r /\ s = sock[q]
    BY <1>10, <2>1, <2>3
  <2>. QED  BY <1>4, <1>9, <2>1, <2>2, <2>3, <2>4 DEF Joined
<1>. QED
  BY <1>7, <1>13, <1>15, <1>16, <1>17, <1>18, <1>19, <1>20, SteadyFacts DEF IInv

-----------------------------------------------------------------------------
LEMMA InitInv == Init => IInv
<1>. SUFFICES ASSUME Init PROVE IInv
  OBVIOUS
<1>. USE DEF Init, HubInit, ServerInit
<1>1. /\ \A room \in Room : rooms[room] = NewRoom
      /\ \A c \in Conn : /\ conn_room[c] = NoRoom /\ outbound[c] = {} /\ task[c] = "none"
                         /\ wire[c] = "none" /\ inbox[c] = <<>> /\ outbox[c] = <<>>
      /\ peers = {}
      /\ \A r \in Replica : /\ sock[r] = NoConn /\ queue[r] = <<>> /\ known[r] = {}
                            /\ remote[r] = NoPeers
      /\ spent["edit"] = 0
  BY DEF Kind
<1>2. Types
  <2>1. NewRoom \in RoomState /\ NoPeers \in PresenceMap
    BY DEF NewRoom, RoomState, PresenceMap, NoPeers
  <2>2. /\ rooms \in [Room -> RoomState] /\ remote \in [Replica -> PresenceMap]
    BY <2>1
  <2>3. /\ inbox \in [Conn -> Seq(ClientFrame)] /\ outbox \in [Conn -> Seq(ServerFrame)]
        /\ queue \in [Replica -> Seq(ClientFrame)]
    OBVIOUS
  <2>4. spent \in [Kind -> Nat] /\ spent["edit"] <= Budget["edit"]
    BY <1>1, BudgetAssumption DEF Kind
  <2>5. /\ conn_room \in [Conn -> Room \cup {NoRoom}] /\ outbound \in [Conn -> SUBSET Envelope]
        /\ task \in [Conn -> Task] /\ wire \in [Conn -> Wire] /\ peers \subseteq Conn
        /\ sock \in [Replica -> Conn \cup {NoConn}] /\ known \in [Replica -> SUBSET Made]
        /\ epoch \in [Replica -> Nat] /\ level \in [Replica -> Level \cup {NoLevel}]
        /\ next_conn \in Nat
    BY DEF Task, Wire
  <2>. QED  BY <2>2, <2>3, <2>4, <2>5 DEF Types
<1>3. ConnsHaveOwners
  <2>1. \A c \in Conn : Unused(c)
    BY <1>1, ConnAssumption DEF Unused
  <2>2. ASSUME NEW c \in Conn, c < next_conn
        PROVE  \E r \in Replica : BelongsTo(c, r)
    <3>1. c \in Nat \ {0} /\ next_conn = 1
      BY ConnAssumption
    <3>. QED  BY <2>2, <3>1
  <2>. QED  BY <2>1, <2>2 DEF ConnsHaveOwners
<1>4. TasksInOrder /\ QueuesAreOwn
  BY <1>1, RangeOfEmpty DEF TasksInOrder, QueuesAreOwn
<1>5. \A room \in Room : /\ rooms[room].doc = {} /\ rooms[room].members = {}
                         /\ \A r \in Replica : rooms[room].presence[r] = 0
  BY <1>1 DEF NewRoom
<1>6. DocsByMembers /\ MembersDistinct /\ MembersAreServed /\ PresenceOfMembers
  BY <1>5 DEF DocsByMembers, MembersDistinct, MembersAreServed, PresenceOfMembers
<1>7. OutsidersLearnNothing /\ LearnedThroughHub /\ NoGap
  BY <1>1 DEF OutsidersLearnNothing, LearnedThroughHub, Own, NoGap, Joined
<1>. QED  BY <1>2, <1>3, <1>4, <1>6, <1>7 DEF IInv

LEMMA StepKeeps == IInv /\ [Next]_vars => IInv'
<1>. SUFFICES ASSUME IInv, [Next]_vars PROVE IInv'
  OBVIOUS
<1>1. ASSUME NEW c \in Conn, Server(c)
      PROVE  IInv'
  BY <1>1, ReadFrameKeeps, DispatchKeeps, EndOfStreamKeeps, RemovePeerKeeps DEF Server, ServerStep
<1>2. ASSUME NEW r \in Replica, User(r)
      PROVE  IInv'
  BY <1>2, OpenKeeps, EditKeeps, MoveCursorKeeps, DisconnectKeeps, SetAccessKeeps DEF User
<1>3. CASE UNCHANGED vars
  <2>1. /\ UNCHANGED <<rooms, conn_room, outbound, task, peers, wire, inbox, outbox>>
        /\ UNCHANGED <<token, sock, queue, known, remote, level, epoch, next_conn, spent>>
    BY <1>3 DEF vars, hubVars, serverVars, clientVars, boundVars
  <2>2. Steady
    BY <2>1, StillIsSteady
  <2>3. Types'
    BY <2>1, <2>2, SteadyFacts DEF IInv, Types, Steady
  <2>4. ConnsHaveOwners'
    <3>1. \A c : \A r \in Replica : BelongsTo(c, r) => BelongsTo(c, r)'
      BY <2>1, <2>2, SteadyFacts DEF BelongsTo
    <3>2. \A c : Unused(c) => Unused(c)'
      BY <2>1 DEF Unused
    <3>. QED  BY <2>1, <3>1, <3>2 DEF IInv, ConnsHaveOwners
  <2>5. TasksInOrder' /\ MembersAreServed'
    BY <2>1 DEF IInv, TasksInOrder, MembersAreServed
  <2>6. QueuesAreOwn'
    BY <2>1, <2>2, SteadyFacts DEF IInv, QueuesAreOwn
  <2>7. OutsidersLearnNothing' /\ LearnedThroughHub'
    BY <2>1, <2>2, SteadyFacts DEF IInv, OutsidersLearnNothing, LearnedThroughHub, Own
  <2>8. NoGap'
    BY <2>1 DEF IInv, NoGap, Joined, Coming
  <2>. QED  BY <2>2, <2>3, <2>4, <2>5, <2>6, <2>7, <2>8, SteadyFacts DEF IInv
<1>. QED
  BY <1>1, <1>2, <1>3, BreakKeeps, ReceiveFrameKeeps, OnCloseKeeps DEF Next

\* The invariant of every execution.
THEOREM Invariance == Spec => []IInv
<1>1. Init => IInv
  BY InitInv
<1>2. IInv /\ [Next]_vars => IInv'
  BY StepKeeps
<1>. QED  BY <1>1, <1>2, PTL DEF Spec

LEMMA TypesAreRight == IInv => TypeOK
<1>. SUFFICES ASSUME IInv PROVE TypeOK
  OBVIOUS
<1>1. Made \subseteq Op
  <2>1. \A n \in 1 .. spent["edit"] : n \in 1 .. Budget["edit"]
    BY BudgetAssumption DEF IInv, Types, Kind
  <2>. QED  BY <2>1, OpAssumption DEF Made
<1>2. ASSUME NEW room \in Room
      PROVE  /\ rooms[room].doc \subseteq Op
             /\ rooms[room].presence \in PresenceMap
             /\ rooms[room].members \subseteq Member
  BY DEF IInv, Types, RoomState
<1>3. ASSUME NEW c \in Conn
      PROVE  /\ \A o \in outbound[c] : o.to \in Conn /\ o.message \in ServerFrame
             /\ \A i \in DOMAIN inbox[c] : inbox[c][i] \in ClientFrame
             /\ \A i \in DOMAIN outbox[c] : outbox[c][i] \in ServerFrame
  <2>1. /\ outbound[c] \subseteq Envelope
        /\ inbox[c] \in Seq(ClientFrame) /\ outbox[c] \in Seq(ServerFrame)
    BY DEF IInv, Types
  <2>. QED  BY <2>1 DEF Envelope
<1>4. ASSUME NEW r \in Replica
      PROVE  \A i \in DOMAIN queue[r] : queue[r][i] \in ClientFrame
  <2>1. queue[r] \in Seq(ClientFrame)
    BY DEF IInv, Types
  <2>. QED  BY <2>1
<1>5. known \in [Replica -> SUBSET Op]
  BY <1>1 DEF IInv, Types
<1>. QED  BY <1>2, <1>3, <1>4, <1>5 DEF IInv, Types, TypeOK

\* A room serves its members without a gap: one entry for a connection and for
\* a replica, none that outlives its connection, and every operation of the
\* room's document in the document of a joined client or on its way to it, for
\* any number of clients, rooms, reconnections and broken sockets.
THEOREM RoomsAreAlwaysServed == Spec => []RoomsAreServed
<1>1. IInv => RoomsAreServed
  BY TypesAreRight DEF RoomsAreServed, IInv
<1>. QED  BY <1>1, Invariance, PTL

LEMMA OutsidersAreKeptOut == IInv => OutsidersStayOut
<1>. SUFFICES ASSUME IInv, NEW r \in Replica, ~HasToken(r)
             PROVE  /\ known[r] = Own(r) /\ remote[r] = NoPeers
                    /\ Own(r) \cap rooms[RoomOf[r]].doc = {}
                    /\ rooms[RoomOf[r]].presence[r] = 0
  BY DEF OutsidersStayOut, HasToken
<1>1. RoomOf[r] \in Room /\ rooms[RoomOf[r]] \in RoomState
  BY RoomOfAssumption DEF IInv, Types
<1>2. known[r] = Own(r) /\ remote[r] = NoPeers
  BY DEF IInv, OutsidersLearnNothing
<1>3. Own(r) \cap rooms[RoomOf[r]].doc = {}
  BY <1>1 DEF IInv, DocsByMembers, Own
<1>4. ASSUME NEW m \in rooms[RoomOf[r]].members
      PROVE  m.replica # r
  <2>1. m.conn \in Conn /\ conn_room[m.conn] = RoomOf[r] /\ task[m.conn] # "none"
    BY <1>1 DEF RoomState, Member, IInv, MembersAreServed
  <2>2. PICK q \in Replica : BelongsTo(m.conn, q)
    BY <2>1 DEF IInv, ConnsHaveOwners, Unused
  <2>. QED  BY <1>1, <2>1, <2>2, RoomAssumption DEF BelongsTo
<1>5. rooms[RoomOf[r]].presence[r] = 0
  <2>1. rooms[RoomOf[r]].presence[r] \in Nat
    BY <1>1 DEF RoomState, PresenceMap
  <2>. QED  BY <1>1, <1>4, <2>1 DEF IInv, PresenceOfMembers
<1>. QED  BY <1>2, <1>3, <1>5

\* What a client has it has through the hub: the edits of others only after the
\* room accepted them, the presence of members alone, and nothing at all for a
\* client whose token the hub refused, whatever it sends afterwards.
THEOREM EverythingThroughHub == Spec => []OnlyThroughHub
<1>1. IInv => OnlyThroughHub
  BY OutsidersAreKeptOut DEF OnlyThroughHub, IInv
<1>. QED  BY <1>1, Invariance, PTL

--------------------------------------------------------------------------
(***************************************************************************)
(* No edit is lost, and everybody agrees once everything has arrived:      *)
(* theorems about SyncSystem where every client with a token may edit, as  *)
(* in sync_server, and no more edits are made than the offline queue       *)
(* holds. The invariant follows the one connection of a client: its Join   *)
(* is the next frame the hub reads, or it is a member that may edit, until *)
(* everything the client sent before its Leave has been read.              *)
(***************************************************************************)

\* Whoever the hub knows may edit.
EverybodyEdits ==
  /\ DefaultLevel # {} /\ \A lv \in DefaultLevel : CanEdit(lv)
  /\ \A p \in DOMAIN Grants : CanEdit(Grants[p])

\* The premise of the promises: a client that has a token, opened one socket
\* at most, and was not cut off.
Undisturbed(r) == Welcome(r) /\ spent["break"] = 0 /\ opens[r] <= 1

\* Nobody speaks for r on this connection.
Silent(c, r) ==
  \A frame \in Range(inbox[c]) : /\ frame.type = "Join" => frame.replica # r
                                 /\ frame.type = "Ops" => \A op \in frame.ops : op[1] # r

\* r is a member that may edit, by this connection.
Editing(c, r) ==
  \E m \in rooms[RoomOf[r]].members : m.conn = c /\ m.replica = r /\ CanEdit(m.level)

LeaveLast(frames) == \A i \in 1 .. (Len(frames) - 1) : frames[i].type # "Leave"

\* What r sends on this connection is accepted.
OnItsWay(c, r) ==
  /\ task[c] \in {"reading", "dispatching"}
  /\ wire[c] \in {"open", "closed"}
  /\ sock[r] = c => wire[c] = "open" /\ \A frame \in Range(inbox[c]) : frame.type # "Leave"
  /\ LeaveLast(inbox[c])
  /\ \/ inbox[c] # <<>> /\ Head(inbox[c]) = JoinFrame(r)
     \/ Editing(c, r)

\* The one connection of r.
Only(c, r) ==
  /\ c < next_conn
  /\ sock[r] \in {c, NoConn}
  /\ \A q \in Replica \ {r} : sock[q] # c
  /\ \A d \in Conn \ {c} : Silent(d, r)
  /\ OnItsWay(c, r) \/ (sock[r] # c /\ Silent(c, r))

Linked(r) == IF opens[r] = 0 THEN sock[r] = NoConn /\ \A d \in Conn : Silent(d, r)
                             ELSE \E c \in Conn : Only(c, r)

Delivered == \A r \in Replica : Undisturbed(r) => EditsKept(r) /\ Linked(r)

\* What was not done so far has left no trace.
Calm ==
  /\ opens \in [Replica -> Nat]
  /\ spent["break"] = 0 => \A c \in Conn : wire[c] # "broken"
  /\ spent["access"] = 0 =>
       /\ \A c \in Conn : \A frame \in Range(inbox[c]) : frame.type # "SetAccess"
       /\ \A r \in Replica : /\ Len(queue[r]) <= spent["edit"]
                             /\ \A frame \in Range(queue[r]) : frame.type = "Ops"

\* An edit that is queued or was discarded is nowhere else, and its author
\* knows every edit of the room that is its own.
Unsent ==
  /\ \A r \in Replica : sock[r] # NoConn => queue[r] = <<>>
  /\ \A room \in Room : \A op \in rooms[room].doc : op \in known[op[1]]
  /\ \A op \in discarded : op[1] \in Replica /\ op \in known[op[1]]
  /\ \A r \in Replica : \A op \in OpsIn(queue[r]) : op \notin discarded
  /\ \A op \in discarded \cup UNION {OpsIn(queue[r]) : r \in Replica} :
       /\ \A room \in Room : op \notin rooms[room].doc
       /\ \A c \in Conn : op \notin OpsIn(inbox[c])

\* A client numbers its edits without a gap: the next number is a new one.
Numbered == \A r \in Replica : \A op \in Own(r) : op[2] <= Cardinality(Own(r))

EInv == Calm /\ Unsent /\ Numbered /\ Delivered

-----------------------------------------------------------------------------
\* The operations in a sequence of frames.
LEMMA InOps ==
  \A q : \A op : op \in OpsIn(q) <=> \E frame \in Range(q) : frame.type = "Ops" /\ op \in frame.ops
  BY DEF OpsIn, Range

LEMMA NoneInEmpty == OpsIn(<<>>) = {}
  BY InOps, RangeOfEmpty

LEMMA LeaveLastOfTail ==
  ASSUME NEW q \in Seq(ClientFrame), q # <<>>, LeaveLast(q)
  PROVE  LeaveLast(Tail(q)) /\ (Head(q).type = "Leave" => Tail(q) = <<>>)
<1>1. PICK n \in Nat : n = Len(q) /\ n >= 1
  BY EmptySeq, LenProperties
<1>2. /\ Tail(q) \in Seq(ClientFrame) /\ Head(q) = q[1]
      /\ Len(Tail(q)) = n - 1
      /\ \A i \in 1 .. n - 1 : Tail(q)[i] = q[i + 1]
  BY <1>1, HeadTailProperties
<1>3. ASSUME NEW i \in 1 .. (Len(Tail(q)) - 1) PROVE Tail(q)[i].type # "Leave"
  <2>1. i \in 1 .. n - 1 /\ i + 1 \in 1 .. (n - 1)
    BY <1>1, <1>2
  <2>. QED  BY <1>1, <1>2, <2>1 DEF LeaveLast
<1>4. ASSUME Head(q).type = "Leave" PROVE Tail(q) = <<>>
  <2>1. ~(1 \in 1 .. (n - 1))
    BY <1>1, <1>2, <1>4 DEF LeaveLast
  <2>2. n = 1
    BY <1>1, <2>1
  <2>3. PICK rest \in Seq(ClientFrame) : rest = Tail(q) /\ Len(rest) = n - 1
    BY <1>2
  <2>4. Len(rest) = 0
    BY <2>2, <2>3
  <2>. QED  BY <2>3, <2>4, EmptySeq
<1>. QED  BY <1>3, <1>4 DEF LeaveLast

LEMMA LeaveLastOfAppend ==
  ASSUME NEW q \in Seq(ClientFrame), NEW e \in ClientFrame,
         \A frame \in Range(q) : frame.type # "Leave"
  PROVE  /\ LeaveLast(Append(q, e)) /\ Append(q, e) # <<>>
         /\ q # <<>> => Head(Append(q, e)) = Head(q)
<1>1. PICK n \in Nat : n = Len(q) /\ DOMAIN q = 1 .. n
  BY LenProperties
<1>2. /\ Len(Append(q, e)) = n + 1 /\ Append(q, e) # <<>>
      /\ \A i \in 1 .. n : Append(q, e)[i] = q[i]
  BY <1>1, AppendProperties
<1>3. ASSUME NEW i \in 1 .. (Len(Append(q, e)) - 1) PROVE Append(q, e)[i].type # "Leave"
  <2>1. i \in 1 .. n
    BY <1>1, <1>2
  <2>. QED  BY <1>1, <1>2, <2>1 DEF Range
<1>. QED  BY <1>2, <1>3, HeadTailAppend DEF LeaveLast

-----------------------------------------------------------------------------
\* What handling a frame of the connection c of client q does to edits and to
\* those that may edit.
Effects(c, q, msg) ==
  /\ \A room \in Room : /\ rooms[room].doc \subseteq rooms'[room].doc
                        /\ \A op \in rooms'[room].doc : \/ op \in rooms[room].doc
                                                        \/ msg.type = "Ops" /\ op \in msg.ops
  /\ \A room \in Room : \A m \in rooms[room].members :
       /\ m.conn # c /\ msg.type # "SetAccess"
       /\ ~(msg.type = "Join" /\ msg.replica = m.replica)
       => m \in rooms'[room].members
  /\ msg.type \in {"Ops", "Presence", "Resync"} =>
       \A room \in Room : rooms'[room].members = rooms[room].members
  /\ msg.type = "Ops" /\ Editing(c, q) => msg.ops \subseteq rooms'[RoomOf[q]].doc
  /\ msg.type = "Join" /\ HasToken(q) /\ EverybodyEdits => Editing(c, q)'

LEMMA UntouchedEffects ==
  ASSUME NEW c, NEW q, NEW msg, UNCHANGED rooms,
         msg.type \notin {"Ops", "Join"}
  PROVE  Effects(c, q, msg)
  BY DEF Effects

LEMMA JoinEffects ==
  ASSUME NEW c, NEW q, Reading(c, q), NEW msg \in ClientFrame, Says(q, msg),
         msg.type = "Join", OnJoin(c, msg.room, msg.token, msg.replica)
  PROVE  Effects(c, q, msg)
<1>1. /\ msg.room = RoomOf[q] /\ msg.replica = q /\ msg.token = token[q]
      /\ RoomOf[q] \in Room /\ rooms \in [Room -> RoomState] /\ rooms[RoomOf[q]] \in RoomState
  BY StateTypes, ReadingFacts DEF Says
<1>2. CASE Authenticate(RoomOf[q], token[q]) = {} /\ Reject(c)
  <2>1. rooms' = rooms
    BY <1>2 DEF Reject
  <2>2. HasToken(q) => ~EverybodyEdits
    <3>. SUFFICES ASSUME HasToken(q), EverybodyEdits PROVE FALSE
      OBVIOUS
    <3>1. LevelIn(RoomOf[q], Tokens[token[q]]) # {}
      BY DEF LevelIn, EverybodyEdits
    <3>. QED  BY <1>2, <3>1 DEF Authenticate, HasToken
  <2>. QED  BY <2>1, <2>2 DEF Effects
<1>3. ASSUME NEW a \in Authenticate(RoomOf[q], token[q]),
             rooms' = [rooms EXCEPT ![RoomOf[q]].members =
               {m \in @ : m.replica # q}
                 \cup {[conn |-> c, replica |-> q, subject |-> a.subject, level |-> a.level]}]
      PROVE  Effects(c, q, msg)
  <2>1. EverybodyEdits => CanEdit(a.level)
    BY <1>3 DEF Authenticate, LevelIn, EverybodyEdits
  <2>. DEFINE entry == [conn |-> c, replica |-> q, subject |-> a.subject, level |-> a.level]
  <2>2. entry.conn = c /\ entry.replica = q /\ entry.level = a.level
    OBVIOUS
  <2>. HIDE DEF entry
  <2>3. /\ rooms'[RoomOf[q]].doc = rooms[RoomOf[q]].doc
        /\ rooms'[RoomOf[q]].members = {m \in rooms[RoomOf[q]].members : m.replica # q} \cup {entry}
        /\ \A room \in Room \ {RoomOf[q]} : rooms'[room] = rooms[room]
    BY <1>1, <1>3 DEF RoomState, entry
  <2>4. EverybodyEdits => Editing(c, q)'
    BY <2>1, <2>2, <2>3 DEF Editing
  <2>5. \A room \in Room : rooms'[room].doc = rooms[room].doc
    BY <2>3
  <2>6. \A room \in Room : \A m \in rooms[room].members :
          m.replica # q => m \in rooms'[room].members
    BY <2>3
  <2>. QED  BY <1>1, <2>4, <2>5, <2>6 DEF Effects
<1>. QED  BY <1>1, <1>2, <1>3 DEF OnJoin

LEMMA OpsEffects ==
  ASSUME NEW c, NEW q, Reading(c, q), NEW msg \in ClientFrame,
         msg.type = "Ops", OnOps(c, msg.ops)
  PROVE  Effects(c, q, msg)
<1>1. /\ RoomOf[q] \in Room /\ rooms \in [Room -> RoomState] /\ rooms[RoomOf[q]] \in RoomState
      /\ MembersOf(c) # {} => conn_room[c] = RoomOf[q]
      /\ \A m \in rooms[RoomOf[q]].members : m.conn = c => m \in MembersOf(c)
  BY StateTypes, ReadingFacts
<1>2. CASE (\A m \in MembersOf(c) : ~CanEdit(m.level)) /\ Reject(c)
  <2>1. rooms' = rooms
    BY <1>2 DEF Reject
  <2>2. ~Editing(c, q)
    BY <1>1, <1>2 DEF Editing
  <2>. QED  BY <2>1, <2>2 DEF Effects
<1>3. ASSUME NEW m \in MembersOf(c),
             rooms' = [rooms EXCEPT ![conn_room[c]].doc = @ \cup msg.ops]
      PROVE  Effects(c, q, msg)
  <2>1. /\ rooms'[RoomOf[q]].doc = rooms[RoomOf[q]].doc \cup msg.ops
        /\ rooms'[RoomOf[q]].members = rooms[RoomOf[q]].members
        /\ \A room \in Room \ {RoomOf[q]} : rooms'[room] = rooms[room]
    BY <1>1, <1>3 DEF RoomState
  <2>. QED  BY <2>1 DEF Effects
<1>. QED  BY <1>2, <1>3 DEF OnOps

LEMMA PresenceEffects ==
  ASSUME NEW c, NEW q, Reading(c, q), NEW msg \in ClientFrame,
         msg.type = "Presence", OnPresence(c, msg.replica, msg.epoch)
  PROVE  Effects(c, q, msg)
<1>1. CASE UNCHANGED rooms
  BY <1>1, UntouchedEffects
<1>2. CASE /\ MembersOf(c) # {}
           /\ rooms' = [rooms EXCEPT ![conn_room[c]].presence[msg.replica] = msg.epoch]
  <2>1. /\ RoomOf[q] \in Room /\ rooms \in [Room -> RoomState] /\ rooms[RoomOf[q]] \in RoomState
        /\ conn_room[c] = RoomOf[q]
    BY <1>2, StateTypes, ReadingFacts
  <2>2. /\ rooms'[RoomOf[q]].doc = rooms[RoomOf[q]].doc
        /\ rooms'[RoomOf[q]].members = rooms[RoomOf[q]].members
        /\ \A room \in Room \ {RoomOf[q]} : rooms'[room] = rooms[room]
    BY <1>2, <2>1 DEF RoomState
  <2>3. \A room \in Room : /\ rooms'[room].doc = rooms[room].doc
                           /\ rooms'[room].members = rooms[room].members
    BY <2>2
  <2>. QED  BY <2>3 DEF Effects
<1>. QED  BY <1>1, <1>2 DEF OnPresence, Reject

LEMMA SetAccessEffects ==
  ASSUME NEW c, NEW q, Reading(c, q), NEW msg \in ClientFrame,
         msg.type = "SetAccess", OnSetAccess(c, msg.subject, msg.level)
  PROVE  Effects(c, q, msg)
<1>1. CASE UNCHANGED rooms
  BY <1>1, UntouchedEffects
<1>2. ASSUME MembersOf(c) # {},
             NEW new, rooms' = [rooms EXCEPT ![conn_room[c]].members = new]
      PROVE  Effects(c, q, msg)
  <2>1. /\ RoomOf[q] \in Room /\ rooms \in [Room -> RoomState] /\ rooms[RoomOf[q]] \in RoomState
        /\ conn_room[c] = RoomOf[q]
    BY <1>2, StateTypes, ReadingFacts
  <2>2. \A room \in Room : rooms'[room].doc = rooms[room].doc
    BY <1>2, <2>1 DEF RoomState
  <2>. QED  BY <2>2 DEF Effects
<1>3. \/ UNCHANGED rooms
      \/ /\ MembersOf(c) # {}
         /\ rooms' = [rooms EXCEPT ![conn_room[c]].members =
              {m \in @ : m.subject # msg.subject}
                \cup {[m EXCEPT !.level = msg.level] : m \in {n \in @ : n.subject = msg.subject}}]
  BY DEF OnSetAccess, Reject
<1>. QED  BY <1>1, <1>2, <1>3

LEMMA LeaveEffects ==
  ASSUME NEW c, NEW q, Reading(c, q), OnLeave(c)
  PROVE  \A room \in Room :
           /\ rooms'[room].doc = rooms[room].doc
           /\ \A m \in rooms[room].members : m.conn # c => m \in rooms'[room].members
<1>1. CASE UNCHANGED rooms
  BY <1>1
<1>2. ASSUME NEW m \in MembersOf(c),
             rooms' = [rooms EXCEPT ![conn_room[c]].members = {n \in @ : n.conn # c},
                                    ![conn_room[c]].presence[m.replica] = 0]
      PROVE  \A room \in Room :
               /\ rooms'[room].doc = rooms[room].doc
               /\ \A k \in rooms[room].members : k.conn # c => k \in rooms'[room].members
  <2>1. /\ RoomOf[q] \in Room /\ rooms \in [Room -> RoomState] /\ rooms[RoomOf[q]] \in RoomState
        /\ conn_room[c] = RoomOf[q]
    BY StateTypes, ReadingFacts
  <2>2. /\ rooms'[RoomOf[q]].doc = rooms[RoomOf[q]].doc
        /\ rooms'[RoomOf[q]].members = {n \in rooms[RoomOf[q]].members : n.conn # c}
        /\ \A room \in Room \ {RoomOf[q]} : rooms'[room] = rooms[room]
    BY <1>2, <2>1 DEF RoomState
  <2>. QED  BY <2>2
<1>. QED  BY <1>1, <1>2 DEF OnLeave

LEMMA FrameEffects ==
  ASSUME NEW c, NEW q, Reading(c, q), NEW msg \in ClientFrame, Says(q, msg), Handle(c, msg)
  PROVE  Effects(c, q, msg)
<1>1. CASE msg.type = "Join" /\ OnJoin(c, msg.room, msg.token, msg.replica)
  BY <1>1, JoinEffects
<1>2. CASE msg.type = "Ops" /\ OnOps(c, msg.ops)
  BY <1>2, OpsEffects
<1>3. CASE msg.type = "Presence" /\ OnPresence(c, msg.replica, msg.epoch)
  BY <1>3, PresenceEffects
<1>4. CASE msg.type = "SetAccess" /\ OnSetAccess(c, msg.subject, msg.level)
  BY <1>4, SetAccessEffects
<1>5. CASE msg.type = "Resync" /\ OnResync(c)
  <2>1. UNCHANGED rooms
    BY <1>5 DEF OnResync, Reject
  <2>. QED  BY <1>5, <2>1, UntouchedEffects
<1>6. CASE msg.type = "Leave" /\ OnLeave(c)
  BY <1>6, LeaveEffects DEF Effects
<1>. QED  BY <1>1, <1>2, <1>3, <1>4, <1>5, <1>6 DEF Handle

-----------------------------------------------------------------------------
\* A step that leaves the sockets, the wires and the queues alone, adds to no
\* inbox and drops nobody's edits, but those that are in the room's document.
Forward(c) ==
  /\ UNCHANGED <<clientVars, boundVars, wire>>
  /\ inbox' \in [Conn -> Seq(ClientFrame)]
  /\ \A d \in Conn : Range(inbox'[d]) \subseteq Range(inbox[d])
  /\ \A d \in Conn \ {c} : inbox'[d] = inbox[d]
  /\ \A room \in Room : /\ rooms[room].doc \subseteq rooms'[room].doc
                        /\ \A op \in rooms'[room].doc : \/ op \in rooms[room].doc
                                                        \/ op \in OpsIn(inbox[c])

LEMMA ForwardCalm ==
  ASSUME IInv, Calm, NEW c, Forward(c)
  PROVE  Calm'
<1>1. UNCHANGED <<opens, spent, queue, wire>>
  BY DEF Forward, clientVars, boundVars
<1>2. \A d \in Conn : \A frame \in Range(inbox'[d]) : frame \in Range(inbox[d])
  BY DEF Forward
<1>. QED  BY <1>1, <1>2 DEF Calm

LEMMA ForwardUnsent ==
  ASSUME IInv, Unsent, NEW c \in Conn, Forward(c)
  PROVE  Unsent'
<1>1. UNCHANGED <<sock, queue, known, discarded>>
  BY DEF Forward, clientVars, boundVars
<1>2. ASSUME NEW d \in Conn, NEW op \in OpsIn(inbox'[d]) PROVE op \in OpsIn(inbox[d])
  BY InOps DEF Forward
<1>3. \A op \in OpsIn(inbox[c]) : op \in known[op[1]]
  <2>2. CASE c < next_conn
    <3>0. PICK r \in Replica : BelongsTo(c, r)
      BY <2>2 DEF IInv, ConnsHaveOwners
    <3>1. \A frame \in Range(inbox[c]) : frame.type = "Ops" => frame.ops \subseteq Own(r)
      BY <3>0 DEF BelongsTo, Says
    <3>. QED  BY <3>1, InOps DEF Own
  <2>3. CASE ~(c < next_conn)
    BY <2>3, NoneInEmpty DEF IInv, ConnsHaveOwners, Unused
  <2>. QED  BY <2>2, <2>3
<1>4. \A room \in Room : \A op \in rooms'[room].doc : op \in known[op[1]]
  BY <1>3 DEF Forward, Unsent
<1>5. ASSUME NEW op, op \in discarded \cup UNION {OpsIn(queue[r]) : r \in Replica}
      PROVE  /\ \A room \in Room : op \notin rooms'[room].doc
             /\ \A d \in Conn : op \notin OpsIn(inbox'[d])
  <2>1. /\ \A room \in Room : op \notin rooms[room].doc
        /\ \A d \in Conn : op \notin OpsIn(inbox[d])
    BY <1>5 DEF Unsent
  <2>. QED  BY <1>2, <2>1 DEF Forward
<1>. QED  BY <1>1, <1>4, <1>5 DEF Unsent

\* A client whose edits the step does not touch.
LEMMA ForwardOthers ==
  ASSUME IInv, NEW r \in Replica, NEW c \in Conn, Forward(c), EditsKept(r),
         \A op \in OpsIn(inbox[c]) : op \in Own(r) =>
           op \in OpsIn(inbox'[c]) \/ op \in rooms'[RoomOf[r]].doc
  PROVE  EditsKept(r)'
<1>1. UNCHANGED <<queue, known, discarded>>
  BY DEF Forward, clientVars, boundVars
<1>2. Own(r)' = Own(r)
  BY <1>1 DEF Own
<1>3. RoomOf[r] \in Room
  BY RoomOfAssumption
<1>4. ASSUME NEW op \in Own(r)
      PROVE  \/ op \in discarded \/ op \in rooms'[RoomOf[r]].doc
             \/ op \in OpsIn(queue[r]) \/ \E d \in Conn : op \in OpsIn(inbox'[d])
  <2>1. \/ op \in discarded \/ op \in rooms[RoomOf[r]].doc
        \/ op \in OpsIn(queue[r]) \/ \E d \in Conn : op \in OpsIn(inbox[d])
    BY DEF EditsKept
  <2>2. ASSUME NEW d \in Conn, op \in OpsIn(inbox[d])
        PROVE  op \in rooms'[RoomOf[r]].doc \/ op \in OpsIn(inbox'[d])
    BY <2>2 DEF Forward
  <2>. QED  BY <1>3, <2>1, <2>2 DEF Forward
<1>. QED  BY <1>1, <1>2, <1>4 DEF EditsKept

-----------------------------------------------------------------------------
\* The server reads a frame.
LEMMA ReadFrameFacts ==
  ASSUME IInv, NEW c \in Conn, ReadFrame(c), UNCHANGED <<clientVars, boundVars>>
  PROVE  \E q \in Replica, msg \in ClientFrame :
           /\ BelongsTo(c, q) /\ Says(q, msg) /\ Effects(c, q, msg)
           /\ inbox[c] # <<>> /\ msg = Head(inbox[c]) /\ msg \in Range(inbox[c])
           /\ Range(inbox[c]) = {msg} \cup Range(inbox'[c])
           /\ inbox'[c] = Tail(inbox[c])
           /\ wire' = wire /\ task'[c] \in {"reading", "dispatching"}
           /\ \A d \in Conn \ {c} : task'[d] = task[d] /\ inbox'[d] = inbox[d]
           /\ Forward(c)
<1>1. PICK q \in Replica : Reading(c, q)
  BY ReaderHasOwner DEF ReadFrame
<1>2. /\ inbox \in [Conn -> Seq(ClientFrame)] /\ task \in [Conn -> Task]
      /\ inbox[c] # <<>> /\ Handle(c, Head(inbox[c]))
      /\ inbox' = [inbox EXCEPT ![c] = Tail(inbox[c])]
      /\ wire' = wire
  BY DEF IInv, Types, ReadFrame
<1>3. PICK msg : msg = Head(inbox[c])
  OBVIOUS
<1>4. /\ msg \in ClientFrame /\ Tail(inbox[c]) \in Seq(ClientFrame)
      /\ Range(inbox[c]) = {msg} \cup Range(Tail(inbox[c]))
  BY <1>2, <1>3, RangeOfTail
<1>5. Says(q, msg) /\ BelongsTo(c, q)
  BY <1>1, <1>4 DEF Reading, BelongsTo
<1>6. Effects(c, q, msg)
  BY <1>1, <1>2, <1>3, <1>4, <1>5, FrameEffects
<1>7. /\ inbox' \in [Conn -> Seq(ClientFrame)]
      /\ \A d \in Conn : inbox'[d] = IF d = c THEN Tail(inbox[c]) ELSE inbox[d]
  BY <1>2, <1>4
<1>8. \A d \in Conn : Range(inbox'[d]) \subseteq Range(inbox[d])
  BY <1>4, <1>7
<1>9. task'[c] \in {"reading", "dispatching"} /\ \A d \in Conn \ {c} : task'[d] = task[d]
  BY <1>2 DEF ReadFrame
<1>10. \A op : msg.type = "Ops" /\ op \in msg.ops => op \in OpsIn(inbox[c])
  BY <1>4, InOps
<1>11. Forward(c)
  BY <1>2, <1>6, <1>7, <1>8, <1>10 DEF Forward, Effects
<1>. QED  BY <1>2, <1>3, <1>4, <1>5, <1>6, <1>7, <1>9, <1>11

\* A connection of somebody else, or one that carries nothing of r.
LEMMA SilentReads ==
  ASSUME IInv, Calm, NEW c \in Conn, ReadFrame(c), UNCHANGED <<clientVars, boundVars>>,
         NEW r \in Replica, Undisturbed(r), EditsKept(r), Silent(c, r)
  PROVE  /\ EditsKept(r)' /\ \A d \in Conn : Silent(d, r) => Silent(d, r)'
         /\ \A d \in Conn : d # c /\ OnItsWay(d, r) => OnItsWay(d, r)'
<1>1. PICK q \in Replica, msg \in ClientFrame :
        /\ BelongsTo(c, q) /\ Says(q, msg) /\ Effects(c, q, msg)
        /\ msg \in Range(inbox[c]) /\ Range(inbox[c]) = {msg} \cup Range(inbox'[c])
        /\ wire' = wire
        /\ \A d \in Conn \ {c} : task'[d] = task[d] /\ inbox'[d] = inbox[d]
        /\ Forward(c)
  BY ReadFrameFacts
<1>2. UNCHANGED <<sock, token>>
  BY DEF clientVars
<1>3. ASSUME NEW op \in OpsIn(inbox[c]), op \in Own(r) PROVE op \in OpsIn(inbox'[c])
  <2>1. PICK frame \in Range(inbox[c]) : frame.type = "Ops" /\ op \in frame.ops
    BY InOps
  <2>2. op[1] = r
    BY <1>3 DEF Own
  <2>. QED  BY <2>1, <2>2 DEF Silent
<1>4. EditsKept(r)'
  BY <1>1, <1>3, ForwardOthers
<1>5. \A d \in Conn : Silent(d, r) => Silent(d, r)'
  BY <1>1 DEF Silent, Forward
<1>6. msg.type # "SetAccess" /\ ~(msg.type = "Join" /\ msg.replica = r)
  <2>1. spent["access"] = 0
    BY DEF Undisturbed, Welcome
  <2>. QED  BY <1>1, <2>1 DEF Calm, Silent
<1>7. ASSUME NEW d \in Conn, d # c, Editing(d, r) PROVE Editing(d, r)'
  <2>1. PICK m \in rooms[RoomOf[r]].members : m.conn = d /\ m.replica = r /\ CanEdit(m.level)
    BY <1>7 DEF Editing
  <2>2. m \in rooms'[RoomOf[r]].members
    BY <1>1, <1>6, <1>7, <2>1, RoomOfAssumption DEF Effects
  <2>. QED  BY <2>1, <2>2 DEF Editing
<1>8. ASSUME NEW d \in Conn, d # c, OnItsWay(d, r) PROVE OnItsWay(d, r)'
  BY <1>1, <1>2, <1>7, <1>8 DEF OnItsWay, JoinFrame
<1>. QED  BY <1>4, <1>5, <1>8

\* The connection of r, while what it sends is accepted.
LEMMA OwnReads ==
  ASSUME IInv, Calm, EverybodyEdits,
         NEW c \in Conn, ReadFrame(c), UNCHANGED <<clientVars, boundVars>>,
         NEW r \in Replica, Undisturbed(r), EditsKept(r), OnItsWay(c, r)
  PROVE  /\ EditsKept(r)' /\ \A d \in Conn : Silent(d, r) => Silent(d, r)'
         /\ OnItsWay(c, r)' \/ (sock[r] # c /\ Silent(c, r)')
<1>1. PICK q \in Replica, msg \in ClientFrame :
        /\ BelongsTo(c, q) /\ Says(q, msg) /\ Effects(c, q, msg)
        /\ inbox[c] # <<>> /\ msg = Head(inbox[c]) /\ msg \in Range(inbox[c])
        /\ Range(inbox[c]) = {msg} \cup Range(inbox'[c])
        /\ inbox'[c] = Tail(inbox[c])
        /\ wire' = wire /\ task'[c] \in {"reading", "dispatching"}
        /\ Forward(c)
  BY ReadFrameFacts
<1>2. UNCHANGED <<sock, token>>
  BY DEF clientVars
<1>3. spent["access"] = 0 /\ HasToken(r) /\ RoomOf[r] \in Room
  BY RoomOfAssumption DEF Undisturbed, Welcome, HasToken
<1>4. msg.type # "SetAccess"
  BY <1>1, <1>3 DEF Calm
<1>5. \/ msg = JoinFrame(r) /\ q = r
      \/ Editing(c, r) /\ q = r
  <2>1. CASE msg = JoinFrame(r)
    BY <1>1, <2>1 DEF Says, JoinFrame
  <2>2. CASE Editing(c, r)
    BY <1>1, <1>3, <2>2 DEF Editing, BelongsTo
  <2>. QED  BY <1>1, <2>1, <2>2 DEF OnItsWay
<1>6. msg.type \in {"Join", "Ops", "Presence", "Resync", "Leave"}
  BY <1>4 DEF ClientFrame
<1>7. inbox[c] \in Seq(ClientFrame)
  BY DEF IInv, Types
<1>8. LeaveLast(inbox'[c]) /\ (msg.type = "Leave" => inbox'[c] = <<>>)
  BY <1>1, <1>7, LeaveLastOfTail DEF OnItsWay
<1>9. \A d \in Conn : Silent(d, r) => Silent(d, r)'
  BY <1>1 DEF Silent, Forward
<1>10. EditsKept(r)'
  <2>1. ASSUME NEW op \in OpsIn(inbox[c]), op \in Own(r)
        PROVE  op \in OpsIn(inbox'[c]) \/ op \in rooms'[RoomOf[r]].doc
    <3>1. PICK frame \in Range(inbox[c]) : frame.type = "Ops" /\ op \in frame.ops
      BY InOps
    <3>2. CASE frame = msg
      <4>1. Editing(c, r) /\ q = r
        BY <1>5, <3>1, <3>2 DEF JoinFrame
      <4>. QED  BY <1>1, <3>1, <3>2, <4>1 DEF Effects
    <3>3. CASE frame \in Range(inbox'[c])
      BY <3>1, <3>3, InOps
    <3>. QED  BY <1>1, <3>2, <3>3
  <2>. QED  BY <1>1, <2>1, ForwardOthers
<1>11. CASE msg.type = "Leave"
  <2>1. Silent(c, r)'
    BY <1>8, <1>11, RangeOfEmpty DEF Silent
  <2>2. sock[r] # c
    BY <1>1, <1>11 DEF OnItsWay
  <2>. QED  BY <1>9, <1>10, <2>1, <2>2
<1>12. CASE msg.type # "Leave"
  <2>1. Editing(c, r)'
    <3>1. CASE msg.type = "Join"
      BY <1>1, <1>3, <1>5, <3>1 DEF Effects
    <3>2. CASE msg.type \in {"Ops", "Presence", "Resync"}
      <4>1. Editing(c, r)
        BY <1>5, <3>2 DEF JoinFrame
      <4>2. rooms'[RoomOf[r]].members = rooms[RoomOf[r]].members
        BY <1>1, <1>3, <3>2 DEF Effects
      <4>. QED  BY <4>1, <4>2 DEF Editing
    <3>. QED  BY <1>6, <1>12, <3>1, <3>2
  <2>2. sock[r] = c => \A frame \in Range(inbox'[c]) : frame.type # "Leave"
    BY <1>1 DEF OnItsWay
  <2>3. OnItsWay(c, r)'
    BY <1>1, <1>2, <1>8, <2>1, <2>2 DEF OnItsWay
  <2>. QED  BY <1>9, <1>10, <2>3
<1>. QED  BY <1>11, <1>12

LEMMA ReadFrameDelivers ==
  ASSUME IInv, Calm, EverybodyEdits,
         NEW c \in Conn, ReadFrame(c), UNCHANGED <<clientVars, boundVars>>,
         NEW r \in Replica, Undisturbed(r), EditsKept(r), Linked(r)
  PROVE  EditsKept(r)' /\ Linked(r)'
<1>1. UNCHANGED <<sock, opens, next_conn>>
  BY DEF clientVars, boundVars
<1>2. CASE opens[r] = 0
  BY <1>1, <1>2, SilentReads DEF Linked
<1>3. ASSUME opens[r] # 0, NEW d \in Conn, Only(d, r)
      PROVE  EditsKept(r)' /\ Linked(r)'
  <2>1. CASE Silent(c, r)
    <3>1. EditsKept(r)' /\ \A e \in Conn : Silent(e, r) => Silent(e, r)'
      BY <2>1, SilentReads
    <3>2. OnItsWay(d, r)' \/ (sock[r] # d /\ Silent(d, r)')
      <4>1. CASE d = c /\ OnItsWay(c, r)
        BY <4>1, OwnReads
      <4>2. CASE d # c \/ ~OnItsWay(d, r)
        BY <1>3, <2>1, <4>2, SilentReads DEF Only
      <4>. QED  BY <4>1, <4>2
    <3>3. Only(d, r)'
      BY <1>1, <1>3, <3>1, <3>2 DEF Only
    <3>. QED  BY <1>1, <1>3, <3>1, <3>3 DEF Linked
  <2>2. CASE ~Silent(c, r)
    <3>1. d = c /\ OnItsWay(c, r)
      BY <1>3, <2>2 DEF Only
    <3>2. /\ EditsKept(r)' /\ \A e \in Conn : Silent(e, r) => Silent(e, r)'
          /\ OnItsWay(c, r)' \/ (sock[r] # c /\ Silent(c, r)')
      BY <3>1, OwnReads
    <3>3. Only(d, r)'
      BY <1>1, <1>3, <3>1, <3>2 DEF Only
    <3>. QED  BY <1>1, <1>3, <3>2, <3>3 DEF Linked
  <2>. QED  BY <2>1, <2>2
<1>. QED  BY <1>2, <1>3 DEF Linked

-----------------------------------------------------------------------------
\* A step that moves no edit and no connection.
Still ==
  /\ UNCHANGED <<rooms, wire, inbox, token, sock, queue, next_conn, opens, spent, discarded>>
  /\ \A c \in Conn : task[c] \in {"reading", "dispatching"} => task'[c] \in {"reading", "dispatching"}
  /\ \A q \in Replica : known[q] \subseteq known'[q] /\ Own(q)' = Own(q)

LEMMA StillKeeps ==
  ASSUME IInv, EInv, Still
  PROVE  EInv'
<1>1. UNCHANGED <<rooms, wire, inbox, token, sock, queue, next_conn, opens, spent, discarded>>
  BY DEF Still
<1>2. Calm' /\ Numbered'
  BY <1>1 DEF EInv, Calm, Numbered, Still
<1>3. Unsent'
  <2>1. \A room \in Room : \A op \in rooms[room].doc : op[1] \in Replica
    BY DEF IInv, DocsByMembers, Made
  <2>2. \A room \in Room : \A op \in rooms[room].doc : op \in known'[op[1]]
    BY <2>1 DEF EInv, Unsent, Still
  <2>3. \A op \in discarded : op[1] \in Replica /\ op \in known'[op[1]]
    BY DEF EInv, Unsent, Still
  <2>. QED  BY <1>1, <2>2, <2>3 DEF EInv, Unsent
<1>4. ASSUME NEW r \in Replica, Undisturbed(r)' PROVE EditsKept(r)' /\ Linked(r)'
  <2>1. Undisturbed(r)
    BY <1>1, <1>4 DEF Undisturbed, Welcome
  <2>2. EditsKept(r) /\ Linked(r)
    BY <2>1 DEF EInv, Delivered
  <2>3. EditsKept(r)'
    BY <1>1, <2>2 DEF EditsKept, Still
  <2>4. \A c \in Conn : Silent(c, r) => Silent(c, r)'
    BY <1>1 DEF Silent
  <2>5. \A c \in Conn : OnItsWay(c, r) => OnItsWay(c, r)'
    BY <1>1 DEF OnItsWay, Editing, JoinFrame, Still
  <2>6. \A c \in Conn : Only(c, r) => Only(c, r)'
    BY <1>1, <2>4, <2>5 DEF Only
  <2>. QED  BY <1>1, <2>2, <2>3, <2>4, <2>6 DEF Linked
<1>. QED  BY <1>2, <1>3, <1>4 DEF EInv, Delivered

LEMMA DispatchDelivers ==
  ASSUME IInv, EInv, NEW c \in Conn, Dispatch(c) \/ RemovePeer(c),
         UNCHANGED <<clientVars, boundVars>>
  PROVE  EInv'
<1>1. UNCHANGED <<rooms, wire, inbox, token, sock, queue, known, next_conn, opens, spent, discarded>>
  BY DEF Dispatch, RemovePeer, hubVars, clientVars, boundVars
<1>2. \A d \in Conn : task[d] \in {"reading", "dispatching"} => task'[d] \in {"reading", "dispatching"}
  <2>1. task \in [Conn -> Task]
    BY DEF IInv, Types
  <2>. QED  BY <2>1 DEF Dispatch, RemovePeer
<1>3. Still
  BY <1>1, <1>2 DEF Still, Own
<1>. QED  BY <1>3, StillKeeps

LEMMA StutterDelivers ==
  ASSUME IInv, EInv, UNCHANGED vars
  PROVE  EInv'
<1>1. Still
  BY DEF Still, Own, vars, hubVars, serverVars, clientVars, boundVars
<1>. QED  BY <1>1, StillKeeps

\* What a client receives is in the room's document, where its own edits are
\* those it knows.
LEMMA ReceiveFrameDelivers ==
  ASSUME IInv, EInv, NEW r \in Replica, ReceiveFrame(r)
  PROVE  EInv'
<1>1. UNCHANGED <<rooms, wire, task, inbox, token, sock, queue, next_conn, opens, spent, discarded>>
  BY DEF ReceiveFrame, hubVars, boundVars
<1>2. PICK c \in Conn : c = sock[r]
  BY OwnerOfSock DEF ReceiveFrame
<1>3. BelongsTo(c, r) /\ outbox[c] # <<>>
  BY <1>2, OwnerOfSock DEF ReceiveFrame
<1>4. PICK msg : msg = Head(outbox[c])
  OBVIOUS
<1>5. msg \in ServerFrame /\ msg \in Range(outbox[c])
  <2>1. outbox[c] \in Seq(ServerFrame)
    BY DEF IInv, Types
  <2>. QED  BY <1>3, <1>4, <2>1, RangeOfTail
<1>6. Brings(msg) \subseteq rooms[RoomOf[r]].doc /\ RoomOf[r] \in Room
  BY <1>3, <1>5, RoomOfAssumption DEF BelongsTo, Told
<1>7. known \in [Replica -> SUBSET Made]
  BY DEF IInv, Types
<1>8. \A q \in Replica : /\ known[q] \subseteq known'[q]
                         /\ known'[q] \subseteq known[q] \cup (IF q = r THEN Brings(msg) ELSE {})
  <2>1. known' = [known EXCEPT ![r] =
            CASE msg.type \in {"Welcome", "Snapshot"} -> known[r] \cup msg.snapshot
              [] msg.type = "Ops"                     -> known[r] \cup msg.ops
              [] OTHER                                -> known[r]]
    BY <1>2, <1>4 DEF ReceiveFrame
  <2>2. \A q \in Replica : known'[q] = IF q # r THEN known[q] ELSE
            CASE msg.type \in {"Welcome", "Snapshot"} -> known[r] \cup msg.snapshot
              [] msg.type = "Ops"                     -> known[r] \cup msg.ops
              [] OTHER                                -> known[r]
    BY <1>7, <2>1
  <2>3. CASE msg.type \in {"Welcome", "Snapshot"}
    BY <2>2, <2>3 DEF Brings
  <2>4. CASE msg.type = "Ops"
    BY <2>2, <2>4 DEF Brings
  <2>5. CASE msg.type \notin {"Welcome", "Snapshot", "Ops"}
    BY <2>2, <2>5 DEF Brings
  <2>. QED  BY <2>3, <2>4, <2>5
<1>9. \A q \in Replica : Own(q)' = Own(q)
  <2>1. ASSUME NEW op \in Brings(msg) PROVE op \in known[op[1]]
    BY <1>6, <2>1 DEF EInv, Unsent
  <2>. QED  BY <1>8, <2>1 DEF Own
<1>10. Still
  BY <1>1, <1>8, <1>9 DEF Still
<1>. QED  BY <1>10, StillKeeps

-----------------------------------------------------------------------------
\* Steps after which nobody is undisturbed.
LEMMA SpendCount ==
  ASSUME IInv, NEW kind \in Kind, Spend(kind)
  PROVE  /\ spent \in [Kind -> Nat] /\ spent' \in [Kind -> Nat]
         /\ \A k \in Kind : spent'[k] = IF k = kind THEN spent[k] + 1 ELSE spent[k]
<1>1. spent \in [Kind -> Nat] /\ spent' = [spent EXCEPT ![kind] = @ + 1]
  BY DEF IInv, Types, Spend
<1>. QED  BY <1>1

LEMMA BreakDelivers ==
  ASSUME IInv, EInv, NEW c \in Conn, Break(c)
  PROVE  EInv'
<1>1. UNCHANGED <<rooms, inbox, token, sock, queue, known, opens, discarded>>
  BY DEF Break, hubVars, clientVars
<1>2. /\ spent \in [Kind -> Nat]
      /\ spent'["break"] = spent["break"] + 1 /\ spent'["break"] # 0
      /\ spent'["access"] = spent["access"] /\ spent'["edit"] = spent["edit"]
  <2>1. Spend("break") /\ {"break", "access", "edit"} \subseteq Kind
    BY DEF Break, Kind
  <2>2. spent \in [Kind -> Nat] /\ \A k \in Kind : spent'[k] = IF k = "break" THEN spent[k] + 1 ELSE spent[k]
    BY <2>1, SpendCount
  <2>. QED  BY <2>1, <2>2
<1>3. Calm'
  BY <1>1, <1>2 DEF EInv, Calm
<1>4. Unsent' /\ Numbered'
  BY <1>1 DEF EInv, Unsent, Numbered, Own
<1>5. Delivered'
  BY <1>2 DEF Delivered, Undisturbed
<1>. QED  BY <1>3, <1>4, <1>5 DEF EInv

\* A socket that was not broken does not report its end.
LEMMA OnCloseDelivers ==
  ASSUME IInv, EInv, NEW r \in Replica, OnClose(r)
  PROVE  EInv'
<1>1. UNCHANGED <<rooms, wire, inbox, token, queue, known, opens, spent, discarded>>
  BY DEF OnClose, hubVars, boundVars
<1>2. sock \in [Replica -> Conn \cup {NoConn}] /\ sock' = [sock EXCEPT ![r] = NoConn]
  BY DEF OnClose, IInv, Types
<1>3. spent["break"] # 0
  BY OwnerOfSock DEF OnClose, EInv, Calm
<1>4. Calm' /\ Numbered'
  BY <1>1 DEF EInv, Calm, Numbered, Own
<1>5. Unsent'
  <2>1. \A q \in Replica : sock'[q] # NoConn => sock'[q] = sock[q]
    BY <1>2
  <2>. QED  BY <1>1, <2>1 DEF EInv, Unsent
<1>6. Delivered'
  BY <1>1, <1>3 DEF Delivered, Undisturbed
<1>. QED  BY <1>4, <1>5, <1>6 DEF EInv

-----------------------------------------------------------------------------
\* The steps of a task that read its stream.
LEMMA ForwardNumbered ==
  ASSUME Numbered, NEW c, Forward(c)
  PROVE  Numbered'
<1>1. known' = known
  BY DEF Forward, clientVars
<1>. QED  BY <1>1 DEF Numbered, Own

LEMMA ReadingDelivers ==
  ASSUME IInv, EInv, EverybodyEdits,
         NEW c \in Conn, ReadFrame(c), UNCHANGED <<clientVars, boundVars>>
  PROVE  EInv'
<1>1. Forward(c)
  BY ReadFrameFacts
<1>2. Calm' /\ Unsent' /\ Numbered'
  BY <1>1, ForwardCalm, ForwardUnsent, ForwardNumbered DEF EInv
<1>3. ASSUME NEW r \in Replica, Undisturbed(r)' PROVE EditsKept(r)' /\ Linked(r)'
  <2>1. Undisturbed(r)
    BY <1>3 DEF Undisturbed, Welcome, clientVars, boundVars
  <2>. QED  BY <2>1, ReadFrameDelivers DEF EInv, Delivered
<1>. QED  BY <1>2, <1>3 DEF EInv, Delivered

\* The stream of an undisturbed client ends after its last frame.
LEMMA EndOfStreamDelivers ==
  ASSUME IInv, EInv, NEW c \in Conn, EndOfStream(c), UNCHANGED <<clientVars, boundVars>>
  PROVE  EInv'
<1>1. PICK q \in Replica : Reading(c, q)
  BY ReaderHasOwner DEF EndOfStream
<1>2. /\ inbox \in [Conn -> Seq(ClientFrame)] /\ task \in [Conn -> Task]
      /\ OnLeave(c) /\ inbox' = [inbox EXCEPT ![c] = <<>>] /\ task' = [task EXCEPT ![c] = "leaving"]
      /\ wire' = wire
      /\ wire[c] = "broken" \/ (wire[c] = "closed" /\ inbox[c] = <<>>)
  BY DEF EndOfStream, IInv, Types
<1>3. \A room \in Room :
        /\ rooms'[room].doc = rooms[room].doc
        /\ \A m \in rooms[room].members : m.conn # c => m \in rooms'[room].members
  BY <1>1, <1>2, LeaveEffects
<1>4. /\ inbox' \in [Conn -> Seq(ClientFrame)] /\ inbox'[c] = <<>>
      /\ \A d \in Conn \ {c} : inbox'[d] = inbox[d] /\ task'[d] = task[d]
  <2>1. <<>> \in Seq(ClientFrame)
    OBVIOUS
  <2>. QED  BY <1>2, <2>1
<1>5. Forward(c)
  <2>1. \A d \in Conn : Range(inbox'[d]) \subseteq Range(inbox[d])
    BY <1>4, RangeOfEmpty
  <2>. QED  BY <1>2, <1>3, <1>4, <2>1 DEF Forward
<1>6. Calm' /\ Unsent' /\ Numbered'
  BY <1>5, ForwardCalm, ForwardUnsent, ForwardNumbered DEF EInv
<1>7. ASSUME NEW r \in Replica, Undisturbed(r)' PROVE EditsKept(r)' /\ Linked(r)'
  <2>0. UNCHANGED <<token, spent, opens, sock, next_conn>>
    BY DEF clientVars, boundVars
  <2>1. Undisturbed(r)
    BY <1>7, <2>0 DEF Undisturbed, Welcome
  <2>2. EditsKept(r) /\ Linked(r)
    BY <2>1 DEF EInv, Delivered
  <2>3. wire[c] = "closed" /\ inbox[c] = <<>>
    BY <1>2, <2>1 DEF EInv, Calm, Undisturbed
  <2>4. inbox' = inbox
    BY <1>2, <2>3
  <2>5. EditsKept(r)'
    BY <1>5, <2>2, <2>4, ForwardOthers
  <2>6. \A d \in Conn : Silent(d, r) => Silent(d, r)'
    BY <2>4 DEF Silent
  <2>7. ASSUME NEW d \in Conn, Only(d, r) PROVE Only(d, r)'
    <3>1. CASE d = c
      <4>1. Silent(c, r)'
        BY <1>4, RangeOfEmpty DEF Silent
      <4>2. sock[r] # c
        BY <2>3, <2>7, <3>1 DEF Only, OnItsWay
      <4>. QED  BY <2>0, <2>6, <2>7, <3>1, <4>1, <4>2 DEF Only
    <3>2. CASE d # c
      <4>1. ASSUME Editing(d, r) PROVE Editing(d, r)'
        <5>1. PICK m \in rooms[RoomOf[r]].members : m.conn = d /\ m.replica = r /\ CanEdit(m.level)
          BY <4>1 DEF Editing
        <5>2. m \in rooms'[RoomOf[r]].members
          BY <1>3, <3>2, <5>1, RoomOfAssumption
        <5>. QED  BY <5>1, <5>2 DEF Editing
      <4>2. ASSUME OnItsWay(d, r) PROVE OnItsWay(d, r)'
        BY <1>2, <1>4, <2>0, <2>4, <3>2, <4>1, <4>2 DEF OnItsWay, JoinFrame
      <4>. QED  BY <2>0, <2>6, <2>7, <4>2 DEF Only
    <3>. QED  BY <3>1, <3>2
  <2>. QED  BY <2>0, <2>2, <2>5, <2>6, <2>7 DEF Linked
<1>. QED  BY <1>6, <1>7 DEF EInv, Delivered

-----------------------------------------------------------------------------
\* Disconnecting.
\* The frames on the way after r disconnected: the Leave is the last one.
LEMMA DisconnectFacts ==
  ASSUME IInv, NEW r \in Replica, Disconnect(r)
  PROVE  /\ UNCHANGED <<rooms, task, token, known, next_conn, opens>>
         /\ sock' \in [Replica -> Conn \cup {NoConn}] /\ sock'[r] = NoConn
         /\ \A q \in Replica \ {r} : sock'[q] = sock[q] /\ queue'[q] = queue[q]
         /\ queue'[r] = <<>> /\ discarded' = discarded \cup OpsIn(queue[r])
         /\ \A c \in Conn : IF c = sock[r] /\ wire[c] = "open"
                            THEN inbox'[c] = Append(inbox[c], [type |-> "Leave"]) /\ wire'[c] = "closed"
                            ELSE inbox'[c] = inbox[c] /\ wire'[c] = wire[c]
         /\ \A c \in Conn : /\ Range(inbox[c]) \subseteq Range(inbox'[c])
                            /\ Range(inbox'[c]) \subseteq Range(inbox[c]) \cup {[type |-> "Leave"]}
                            /\ OpsIn(inbox'[c]) = OpsIn(inbox[c])
<1>1. /\ sock \in [Replica -> Conn \cup {NoConn}] /\ queue \in [Replica -> Seq(ClientFrame)]
      /\ inbox \in [Conn -> Seq(ClientFrame)]
  BY DEF IInv, Types
<1>2. UNCHANGED <<rooms, task, token, known, next_conn, opens>>
  BY DEF Disconnect, hubVars
<1>3. /\ sock' = [sock EXCEPT ![r] = NoConn] /\ queue' = [queue EXCEPT ![r] = <<>>]
      /\ discarded' = discarded \cup OpsIn(queue[r])
  BY DEF Disconnect
<1>4. \A c \in Conn : IF c = sock[r] /\ wire[c] = "open"
                      THEN inbox'[c] = Append(inbox[c], [type |-> "Leave"]) /\ wire'[c] = "closed"
                      ELSE inbox'[c] = inbox[c] /\ wire'[c] = wire[c]
  BY DEF Disconnect
<1>5. PICK leave \in ClientFrame : leave = [type |-> "Leave"]
  BY DEF ClientFrame
<1>6. ASSUME NEW c \in Conn
      PROVE  /\ Range(inbox[c]) \subseteq Range(inbox'[c])
             /\ Range(inbox'[c]) \subseteq Range(inbox[c]) \cup {leave}
             /\ OpsIn(inbox'[c]) = OpsIn(inbox[c])
  <2>1. Range(Append(inbox[c], leave)) = Range(inbox[c]) \cup {leave}
    BY <1>1, RangeOfAppend
  <2>2. \/ Range(inbox'[c]) = Range(inbox[c])
        \/ Range(inbox'[c]) = Range(inbox[c]) \cup {leave}
    BY <1>4, <1>5, <2>1
  <2>3. \A op : op \in OpsIn(inbox'[c]) <=> op \in OpsIn(inbox[c])
    BY <1>5, <2>2, InOps
  <2>. QED  BY <2>2, <2>3
<1>7. /\ sock' \in [Replica -> Conn \cup {NoConn}] /\ sock'[r] = NoConn /\ queue'[r] = <<>>
      /\ \A q \in Replica \ {r} : sock'[q] = sock[q] /\ queue'[q] = queue[q]
  BY <1>1, <1>3
<1>. QED  BY <1>2, <1>3, <1>4, <1>5, <1>6, <1>7

LEMMA DisconnectDelivers ==
  ASSUME IInv, EInv, NEW r \in Replica, Disconnect(r)
  PROVE  EInv'
<1>1. /\ UNCHANGED <<rooms, task, token, known, next_conn, opens>>
      /\ sock' \in [Replica -> Conn \cup {NoConn}] /\ sock'[r] = NoConn
      /\ \A q \in Replica \ {r} : sock'[q] = sock[q] /\ queue'[q] = queue[q]
      /\ queue'[r] = <<>> /\ discarded' = discarded \cup OpsIn(queue[r])
      /\ \A c \in Conn : IF c = sock[r] /\ wire[c] = "open"
                         THEN inbox'[c] = Append(inbox[c], [type |-> "Leave"]) /\ wire'[c] = "closed"
                         ELSE inbox'[c] = inbox[c] /\ wire'[c] = wire[c]
      /\ \A c \in Conn : /\ Range(inbox[c]) \subseteq Range(inbox'[c])
                         /\ Range(inbox'[c]) \subseteq Range(inbox[c]) \cup {[type |-> "Leave"]}
                         /\ OpsIn(inbox'[c]) = OpsIn(inbox[c])
  BY DisconnectFacts
<1>2. /\ spent \in [Kind -> Nat] /\ spent["edit"] \in Nat /\ spent'["break"] = spent["break"]
      /\ spent'["access"] = spent["access"] /\ spent'["edit"] = spent["edit"]
  <2>1. Spend("leave") /\ {"leave", "break", "access", "edit"} \subseteq Kind
    BY DEF Disconnect, Kind
  <2>2. spent \in [Kind -> Nat] /\ \A k \in Kind : spent'[k] = IF k = "leave" THEN spent[k] + 1 ELSE spent[k]
    BY <2>1, SpendCount
  <2>. QED  BY <2>1, <2>2
<1>3. Calm'
  <2>1. \A c \in Conn : wire'[c] = "broken" => wire[c] = "broken"
    BY <1>1
  <2>2. \A c \in Conn : \A frame \in Range(inbox'[c]) :
          frame.type = "SetAccess" => frame \in Range(inbox[c])
    BY <1>1
  <2>3. \A q \in Replica : queue'[q] = queue[q] \/ (queue'[q] = <<>> /\ Len(queue'[q]) = 0)
    BY <1>1
  <2>4. spent["access"] = 0 =>
           \A q \in Replica : /\ Len(queue'[q]) <= spent["edit"]
                              /\ \A frame \in Range(queue'[q]) : frame.type = "Ops"
    BY <1>2, <2>3, RangeOfEmpty DEF EInv, Calm
  <2>. QED  BY <1>1, <1>2, <2>1, <2>2, <2>4 DEF EInv, Calm
<1>4. \A op \in OpsIn(queue[r]) : op \in Own(r)
  <2>1. ASSUME NEW op \in OpsIn(queue[r]) PROVE op \in Own(r)
    <3>1. PICK frame \in Range(queue[r]) : frame.type = "Ops" /\ op \in frame.ops
      BY InOps
    <3>. QED  BY <3>1 DEF IInv, QueuesAreOwn, Says
  <2>. QED  BY <2>1
<1>5. Unsent'
  <2>1. \A q \in Replica : sock'[q] # NoConn => queue'[q] = <<>>
    BY <1>1 DEF EInv, Unsent
  <2>2. \A op \in discarded' : op[1] \in Replica /\ op \in known[op[1]]
    BY <1>1, <1>4 DEF EInv, Unsent, Own
  <2>3. ASSUME NEW q \in Replica, NEW op \in OpsIn(queue'[q]) PROVE op \notin discarded'
    <3>1. q # r /\ op \in OpsIn(queue[q])
      BY <1>1, <2>3, NoneInEmpty
    <3>2. op[1] = q
      <4>1. PICK frame \in Range(queue[q]) : frame.type = "Ops" /\ op \in frame.ops
        BY <3>1, InOps
      <4>. QED  BY <4>1 DEF IInv, QueuesAreOwn, Says, Own
    <3>3. op \notin discarded /\ op \notin OpsIn(queue[r])
      BY <1>4, <3>1, <3>2 DEF EInv, Unsent, Own
    <3>. QED  BY <1>1, <3>3
  <2>4. \A op \in discarded' \cup UNION {OpsIn(queue'[q]) : q \in Replica} :
          op \in discarded \cup UNION {OpsIn(queue[q]) : q \in Replica}
    BY <1>1, NoneInEmpty
  <2>5. \A op \in discarded' \cup UNION {OpsIn(queue'[q]) : q \in Replica} :
          /\ \A room \in Room : op \notin rooms'[room].doc
          /\ \A c \in Conn : op \notin OpsIn(inbox'[c])
    BY <1>1, <2>4 DEF EInv, Unsent
  <2>. QED  BY <1>1, <2>1, <2>2, <2>3, <2>5 DEF EInv, Unsent
<1>6. Numbered'
  BY <1>1 DEF EInv, Numbered, Own
<1>7. ASSUME NEW p \in Replica, Undisturbed(p)' PROVE EditsKept(p)' /\ Linked(p)'
  <2>1. Undisturbed(p)
    BY <1>1, <1>2, <1>7 DEF Undisturbed, Welcome
  <2>2. EditsKept(p) /\ Linked(p)
    BY <2>1 DEF EInv, Delivered
  <2>3. EditsKept(p)'
    <3>1. OpsIn(queue[p]) \subseteq discarded' \cup OpsIn(queue'[p])
      BY <1>1
    <3>2. Own(p)' = Own(p)
      BY <1>1 DEF Own
    <3>. QED  BY <1>1, <2>2, <3>1, <3>2 DEF EditsKept
  <2>4. \A c \in Conn : Silent(c, p) => Silent(c, p)'
    BY <1>1 DEF Silent
  <2>5. ASSUME NEW c \in Conn, Only(c, p) PROVE Only(c, p)'
    <3>1. /\ sock'[p] \in {c, NoConn} /\ \A q \in Replica \ {p} : sock'[q] # c
          /\ sock'[p] = c => sock[p] = c /\ p # r
      BY <1>1, <2>5, ConnAssumption DEF Only
    <3>2. ASSUME OnItsWay(c, p) PROVE OnItsWay(c, p)'
      <4>1. Editing(c, p) => Editing(c, p)'
        BY <1>1 DEF Editing
      <4>2. CASE c = sock[r] /\ wire[c] = "open"
        <5>1. p = r
          BY <2>5, <4>2 DEF Only
        <5>2. \A frame \in Range(inbox[c]) : frame.type # "Leave"
          BY <3>2, <4>2, <5>1 DEF OnItsWay
        <5>3. PICK leave \in ClientFrame : leave = [type |-> "Leave"]
          BY DEF ClientFrame
        <5>4. inbox[c] \in Seq(ClientFrame)
          BY DEF IInv, Types
        <5>5. /\ LeaveLast(Append(inbox[c], leave)) /\ Append(inbox[c], leave) # <<>>
              /\ inbox[c] # <<>> => Head(Append(inbox[c], leave)) = Head(inbox[c])
          BY <5>2, <5>4, LeaveLastOfAppend
        <5>6. inbox'[c] = Append(inbox[c], leave) /\ wire'[c] = "closed"
          BY <1>1, <4>2, <5>3
        <5>. QED  BY <1>1, <3>2, <3>1, <4>1, <5>1, <5>5, <5>6 DEF OnItsWay, JoinFrame
      <4>3. CASE ~(c = sock[r] /\ wire[c] = "open")
        <5>1. inbox'[c] = inbox[c] /\ wire'[c] = wire[c]
          BY <1>1, <4>3
        <5>. QED  BY <1>1, <3>1, <3>2, <4>1, <5>1 DEF OnItsWay, JoinFrame
      <4>. QED  BY <4>2, <4>3
    <3>3. sock[p] # c => sock'[p] # c
      BY <3>1
    <3>. QED  BY <1>1, <2>4, <2>5, <3>1, <3>2, <3>3 DEF Only
  <2>6. opens[p] = 0 => sock'[p] = NoConn
    BY <1>1, <2>2 DEF Linked
  <2>. QED  BY <1>1, <2>2, <2>3, <2>4, <2>5, <2>6 DEF Linked
<1>. QED  BY <1>3, <1>5, <1>6, <1>7 DEF EInv, Delivered

-----------------------------------------------------------------------------
\* Connecting.
LEMMA OpenFacts ==
  ASSUME IInv, NEW r \in Replica, Open(r)
  PROVE  \E c \in Conn :
           /\ c = next_conn /\ c < next_conn' /\ (\A d \in Conn : d < c => d < next_conn')
           /\ Unused(c)
           /\ UNCHANGED <<rooms, token, known, spent, discarded>>
           /\ sock[r] = NoConn /\ sock'[r] = c
           /\ \A q \in Replica \ {r} : /\ sock'[q] = sock[q] /\ queue'[q] = queue[q]
                                       /\ opens'[q] = opens[q]
           /\ queue'[r] = <<>> /\ opens' = [opens EXCEPT ![r] = @ + 1]
           /\ task'[c] = "reading" /\ wire'[c] = "open"
           /\ \A d \in Conn \ {c} : task'[d] = task[d] /\ wire'[d] = wire[d] /\ inbox'[d] = inbox[d]
           /\ inbox'[c] # <<>> /\ Head(inbox'[c]) = JoinFrame(r)
           /\ \A frame \in Range(inbox'[c]) :
                frame \in Range(queue[r]) \/ (frame.type \in {"Join", "Resync", "Presence"} /\ Says(r, frame))
           /\ Range(queue[r]) \subseteq Range(inbox'[c])
<1>1. PICK c \in Conn : c = next_conn
  BY DEF Open
<1>2. c \in Nat /\ Unused(c) /\ \A d \in Conn : d \in Nat
  BY <1>1, ConnAssumption DEF IInv, ConnsHaveOwners
<1>. DEFINE greeting == <<JoinFrame(r), [type |-> "Resync"]>>
            cursor == IF epoch[r] = 0 THEN <<>> ELSE <<PresenceFrame(r, epoch[r] + 1)>>
<1>3. PICK frames : frames = greeting \o queue[r] \o cursor
  OBVIOUS
<1>4. /\ UNCHANGED <<rooms, token, known, spent, discarded>>
      /\ sock' = [sock EXCEPT ![r] = c]
      /\ queue' = [queue EXCEPT ![r] = <<>>]
      /\ opens' = [opens EXCEPT ![r] = @ + 1]
      /\ task' = [task EXCEPT ![c] = "reading"]
      /\ wire' = [wire EXCEPT ![c] = "open"]
      /\ inbox' = [inbox EXCEPT ![c] = frames]
      /\ next_conn' = c + 1
      /\ sock[r] = NoConn
  BY <1>1, <1>3 DEF Open, Accept, hubVars
<1>5. queue[r] \in Seq(ClientFrame) /\ epoch[r] \in Nat
  BY DEF IInv, Types
<1>6. /\ greeting \in Seq(ClientFrame) /\ greeting # <<>> /\ Head(greeting) = JoinFrame(r)
      /\ \A frame \in Range(greeting) : frame.type \in {"Join", "Resync"} /\ Says(r, frame)
  <2>1. JoinFrame(r) \in ClientFrame /\ [type |-> "Resync"] \in ClientFrame
    BY RoomOfAssumption DEF JoinFrame, ClientFrame
  <2>2. /\ JoinFrame(r).type = "Join" /\ Says(r, JoinFrame(r))
        /\ Says(r, [type |-> "Resync"])
    BY DEF JoinFrame, Says
  <2>3. Range(greeting) = {JoinFrame(r), [type |-> "Resync"]}
    BY DEF Range
  <2>. QED  BY <2>1, <2>2, <2>3
<1>7. /\ cursor \in Seq(ClientFrame)
      /\ \A frame \in Range(cursor) : frame.type = "Presence" /\ Says(r, frame)
  <2>1. /\ PresenceFrame(r, epoch[r] + 1) \in ClientFrame
        /\ PresenceFrame(r, epoch[r] + 1).type = "Presence"
        /\ Says(r, PresenceFrame(r, epoch[r] + 1))
    BY <1>5 DEF PresenceFrame, ClientFrame, Says
  <2>2. Range(cursor) \subseteq {PresenceFrame(r, epoch[r] + 1)}
    BY DEF Range
  <2>. QED  BY <2>1, <2>2
<1>. HIDE DEF greeting, cursor
<1>8. PICK hello \in Seq(ClientFrame), kept \in Seq(ClientFrame), last \in Seq(ClientFrame) :
        hello = greeting /\ kept = queue[r] /\ last = cursor
  BY <1>5, <1>6, <1>7
<1>9. /\ hello \o kept \in Seq(ClientFrame) /\ hello \o kept # <<>>
      /\ Head(hello \o kept) = Head(hello)
      /\ Range(hello \o kept) = Range(hello) \cup Range(kept)
  <2>1. hello \o kept \in Seq(ClientFrame) /\ Head(hello \o kept) = Head(hello) /\ hello \o kept # <<>>
    BY <1>6, <1>8
  <2>2. Range(hello \o kept) = Range(hello) \cup Range(kept)
    BY RangeConcatenation
  <2>. QED  BY <2>1, <2>2
<1>10. PICK first \in Seq(ClientFrame) : first = hello \o kept
  BY <1>9
<1>11. /\ first \o last \in Seq(ClientFrame) /\ first \o last # <<>>
       /\ Head(first \o last) = Head(first)
  BY <1>9, <1>10
<1>12. Range(first \o last) = Range(first) \cup Range(last)
  BY RangeConcatenation
<1>13. frames = first \o last
  BY <1>3, <1>8, <1>10
<1>14. /\ frames \in Seq(ClientFrame) /\ frames # <<>> /\ Head(frames) = JoinFrame(r)
       /\ Range(frames) = Range(greeting) \cup Range(queue[r]) \cup Range(cursor)
  BY <1>6, <1>8, <1>9, <1>10, <1>11, <1>12, <1>13, Zenon
<1>15. inbox'[c] = frames /\ \A d \in Conn \ {c} : inbox'[d] = inbox[d]
  BY <1>4 DEF IInv, Types
<1>16. /\ task'[c] = "reading" /\ wire'[c] = "open"
       /\ \A d \in Conn \ {c} : task'[d] = task[d] /\ wire'[d] = wire[d]
  BY <1>4 DEF IInv, Types
<1>17. /\ sock'[r] = c /\ queue'[r] = <<>>
       /\ \A q \in Replica \ {r} : sock'[q] = sock[q] /\ queue'[q] = queue[q] /\ opens'[q] = opens[q]
  BY <1>4 DEF IInv, Types
<1>18. c < next_conn' /\ \A d \in Conn : d < c => d < next_conn'
  BY <1>2, <1>4
<1>19. \A frame \in Range(inbox'[c]) :
         frame \in Range(queue[r]) \/ (frame.type \in {"Join", "Resync", "Presence"} /\ Says(r, frame))
  BY <1>6, <1>7, <1>14, <1>15
<1>20. Range(queue[r]) \subseteq Range(inbox'[c]) /\ inbox'[c] # <<>> /\ Head(inbox'[c]) = JoinFrame(r)
  BY <1>14, <1>15
<1>. QED  BY <1>1, <1>2, <1>4, <1>16, <1>15, <1>17, <1>18, <1>19, <1>20

LEMMA OpenDelivers ==
  ASSUME IInv, EInv, NEW r \in Replica, Open(r)
  PROVE  EInv'
<1>1. PICK c \in Conn :
           /\ c = next_conn /\ c < next_conn' /\ (\A d \in Conn : d < c => d < next_conn')
           /\ Unused(c)
           /\ UNCHANGED <<rooms, token, known, spent, discarded>>
           /\ sock[r] = NoConn /\ sock'[r] = c
           /\ \A q \in Replica \ {r} : /\ sock'[q] = sock[q] /\ queue'[q] = queue[q]
                                       /\ opens'[q] = opens[q]
           /\ queue'[r] = <<>> /\ opens' = [opens EXCEPT ![r] = @ + 1]
           /\ task'[c] = "reading" /\ wire'[c] = "open"
           /\ \A d \in Conn \ {c} : task'[d] = task[d] /\ wire'[d] = wire[d] /\ inbox'[d] = inbox[d]
           /\ inbox'[c] # <<>> /\ Head(inbox'[c]) = JoinFrame(r)
           /\ \A frame \in Range(inbox'[c]) :
                frame \in Range(queue[r]) \/ (frame.type \in {"Join", "Resync", "Presence"} /\ Says(r, frame))
           /\ Range(queue[r]) \subseteq Range(inbox'[c])
  BY OpenFacts
<1>2. opens \in [Replica -> Nat] /\ opens' \in [Replica -> Nat] /\ opens'[r] = opens[r] + 1
  BY <1>1 DEF EInv, Calm
<1>3. inbox[c] = <<>> /\ \A q \in Replica : sock[q] # c
  BY <1>1 DEF Unused
<1>4. \A op : op \in OpsIn(inbox'[c]) <=> op \in OpsIn(queue[r])
  <2>1. ASSUME NEW op, op \in OpsIn(inbox'[c]) PROVE op \in OpsIn(queue[r])
    <3>1. PICK frame \in Range(inbox'[c]) : frame.type = "Ops" /\ op \in frame.ops
      BY <2>1, InOps
    <3>2. frame \in Range(queue[r])
      BY <1>1, <3>1
    <3>. QED  BY <3>1, <3>2, InOps
  <2>2. ASSUME NEW op, op \in OpsIn(queue[r]) PROVE op \in OpsIn(inbox'[c])
    BY <1>1, <2>2, InOps
  <2>. QED  BY <2>1, <2>2
<1>5. \A q \in Replica : \A op \in OpsIn(queue[q]) : op[1] = q
  <2>1. ASSUME NEW q \in Replica, NEW op \in OpsIn(queue[q]) PROVE op[1] = q
    <3>1. PICK frame \in Range(queue[q]) : frame.type = "Ops" /\ op \in frame.ops
      BY InOps
    <3>. QED  BY <3>1 DEF IInv, QueuesAreOwn, Says, Own
  <2>. QED  BY <2>1
<1>6. Calm'
  <2>1. spent["break"] = 0 => \A d \in Conn : wire'[d] # "broken"
    BY <1>1 DEF EInv, Calm
  <2>2. ASSUME spent["access"] = 0
        PROVE  /\ \A d \in Conn : \A frame \in Range(inbox'[d]) : frame.type # "SetAccess"
               /\ \A q \in Replica : /\ Len(queue'[q]) <= spent["edit"]
                                     /\ \A frame \in Range(queue'[q]) : frame.type = "Ops"
    <3>1. \A frame \in Range(inbox'[c]) : frame.type # "SetAccess"
      BY <1>1, <2>2 DEF EInv, Calm
    <3>2. \A d \in Conn \ {c} : \A frame \in Range(inbox'[d]) : frame.type # "SetAccess"
      BY <1>1, <2>2 DEF EInv, Calm
    <3>3. Len(queue'[r]) = 0 /\ Range(queue'[r]) = {} /\ 0 <= spent["edit"]
      BY <1>1, RangeOfEmpty DEF IInv, Types, Kind
    <3>4. \A q \in Replica \ {r} : queue'[q] = queue[q]
      BY <1>1
    <3>. QED  BY <2>2, <3>1, <3>2, <3>3, <3>4 DEF EInv, Calm
  <2>. QED  BY <1>1, <1>2, <2>1, <2>2 DEF Calm
<1>7. Unsent'
  <2>1. \A q \in Replica : sock'[q] # NoConn => queue'[q] = <<>>
    BY <1>1 DEF EInv, Unsent
  <2>2. \A q \in Replica : \A op \in OpsIn(queue'[q]) : q # r /\ op \in OpsIn(queue[q])
    BY <1>1, NoneInEmpty
  <2>3. ASSUME NEW op, op \in discarded \cup UNION {OpsIn(queue'[q]) : q \in Replica}
        PROVE  /\ \A room \in Room : op \notin rooms[room].doc
               /\ \A d \in Conn : op \notin OpsIn(inbox'[d])
    <3>1. /\ \A room \in Room : op \notin rooms[room].doc
          /\ \A d \in Conn : op \notin OpsIn(inbox[d])
      BY <2>2, <2>3 DEF EInv, Unsent
    <3>2. op \notin OpsIn(queue[r])
      BY <1>5, <2>2, <2>3 DEF EInv, Unsent
    <3>. QED  BY <1>1, <1>4, <3>1, <3>2
  <2>. QED  BY <1>1, <2>1, <2>2, <2>3 DEF EInv, Unsent
<1>8. Numbered'
  BY <1>1 DEF EInv, Numbered, Own
<1>9. \A d \in Conn \ {c} : \A p : Silent(d, p) => Silent(d, p)'
  BY <1>1 DEF Silent
<1>10. ASSUME NEW p \in Replica, p # r PROVE Silent(c, p)'
  <2>1. ASSUME NEW frame \in Range(inbox'[c])
        PROVE  /\ frame.type = "Join" => frame.replica # p
               /\ frame.type = "Ops" => \A op \in frame.ops : op[1] # p
    <3>1. Says(r, frame)
      BY <1>1 DEF IInv, QueuesAreOwn
    <3>. QED  BY <1>10, <3>1 DEF Says, Own
  <2>. QED  BY <2>1 DEF Silent
<1>11. ASSUME NEW p \in Replica, Undisturbed(p), EditsKept(p) PROVE EditsKept(p)'
  <2>1. Own(p)' = Own(p)
    BY <1>1 DEF Own
  <2>2. \A d \in Conn : OpsIn(inbox[d]) \subseteq OpsIn(inbox'[d])
    BY <1>1, <1>3, NoneInEmpty
  <2>3. OpsIn(queue[p]) \subseteq OpsIn(queue'[p]) \cup OpsIn(inbox'[c])
    BY <1>1, <1>4
  <2>. QED  BY <1>1, <1>11, <2>1, <2>2, <2>3 DEF EditsKept
<1>12. ASSUME NEW p \in Replica, Undisturbed(p)' PROVE EditsKept(p)' /\ Linked(p)'
  <2>1. Undisturbed(p)
    BY <1>1, <1>2, <1>12 DEF Undisturbed, Welcome
  <2>2. EditsKept(p)' /\ Linked(p)
    BY <1>11, <2>1 DEF EInv, Delivered
  <2>3. CASE p = r
    <3>1. opens[r] = 0 /\ opens'[r] # 0
      BY <1>2, <1>12, <2>3 DEF Undisturbed
    <3>2. \A d \in Conn \ {c} : Silent(d, r)'
      BY <1>9, <2>2, <2>3, <3>1 DEF Linked
    <3>3. \A q \in Replica \ {r} : sock'[q] # c
      BY <1>1, <1>3
    <3>4. \A frame \in Range(inbox'[c]) : frame.type # "Leave"
      BY <1>1, <2>1 DEF EInv, Calm, Undisturbed, Welcome
    <3>5. LeaveLast(inbox'[c])
      <4>0. IInv' /\ ClientFrame' = ClientFrame
        BY <1>1, OpenKeeps DEF ClientFrame
      <4>1. inbox'[c] \in Seq(ClientFrame)
        BY <4>0 DEF IInv, Types
      <4>2. PICK frames \in Seq(ClientFrame) : frames = inbox'[c]
        BY <4>1
      <4>3. \A frame \in Range(frames) : frame.type # "Leave"
        BY <3>4, <4>2
      <4>4. PICK n \in Nat : n = Len(frames) /\ DOMAIN frames = 1 .. n
        BY LenProperties
      <4>5. \A i \in 1 .. (n - 1) : i \in 1 .. n
        BY <4>4
      <4>6. LeaveLast(frames)
        BY <4>3, <4>4, <4>5 DEF LeaveLast, Range
      <4>. QED  BY <4>2, <4>6
    <3>6. JoinFrame(r)' = JoinFrame(r)
      BY <1>1 DEF JoinFrame
    <3>7. OnItsWay(c, r)'
      BY <1>1, <3>4, <3>5, <3>6 DEF OnItsWay
    <3>8. Only(c, r)'
      BY <1>1, <3>2, <3>3, <3>7 DEF Only
    <3>. QED  BY <2>2, <2>3, <3>1, <3>8 DEF Linked
  <2>4. CASE p # r
    <3>1. opens'[p] = opens[p] /\ sock'[p] = sock[p] /\ Silent(c, p)'
      BY <1>1, <1>10, <2>4
    <3>2. ASSUME NEW d \in Conn, Only(d, p) PROVE Only(d, p)'
      <4>1. d # c /\ d < next_conn'
        <5>1. d < c /\ c \in Nat
          BY <1>1, <3>2, ConnAssumption DEF Only
        <5>. QED  BY <1>1, <5>1
      <4>2. \A q \in Replica \ {p} : sock'[q] # d
        BY <1>1, <3>2, <4>1 DEF Only
      <4>3. OnItsWay(d, p) => OnItsWay(d, p)'
        BY <1>1, <3>1, <4>1 DEF OnItsWay, Editing, JoinFrame
      <4>. QED  BY <1>9, <3>1, <3>2, <4>1, <4>2, <4>3 DEF Only
    <3>. QED  BY <1>9, <2>2, <3>1, <3>2 DEF Linked
  <2>. QED  BY <2>3, <2>4
<1>. QED  BY <1>6, <1>7, <1>8, <1>12 DEF EInv, Delivered

-----------------------------------------------------------------------------
\* Sending.
\* A frame goes to the end of the queue, which has room, or of the inbox.
LEMMA SentFacts ==
  ASSUME IInv, NEW r \in Replica, NEW frame \in ClientFrame, Send(r, frame)
  PROVE  /\ \A c \in Conn : IF c = sock[r] /\ wire[c] = "open"
                            THEN /\ inbox'[c] = Append(inbox[c], frame)
                                 /\ Range(inbox'[c]) = Range(inbox[c]) \cup {frame}
                            ELSE inbox'[c] = inbox[c]
         /\ \A q \in Replica : q # r \/ sock[r] # NoConn => queue'[q] = queue[q]
         /\ frame.type # "Ops" => OpsIn(queue'[r]) \subseteq OpsIn(queue[r])
         /\ sock[r] = NoConn /\ frame.type = "Presence" => queue'[r] = queue[r]
         /\ sock[r] = NoConn /\ frame.type # "Presence" /\ Len(queue[r]) < MaxQueue =>
              /\ Range(queue'[r]) = Range(queue[r]) \cup {frame}
              /\ Len(queue'[r]) = Len(queue[r]) + 1
<1>1. inbox \in [Conn -> Seq(ClientFrame)] /\ queue \in [Replica -> Seq(ClientFrame)]
  BY DEF IInv, Types
<1>2. \A c \in Conn : Range(Append(inbox[c], frame)) = Range(inbox[c]) \cup {frame}
  BY <1>1, RangeOfAppend
<1>3. \A q \in Replica : q # r \/ sock[r] # NoConn => queue'[q] = queue[q]
  BY <1>1 DEF Send
<1>4. \A c \in Conn : IF c = sock[r] /\ wire[c] = "open"
                      THEN inbox'[c] = Append(inbox[c], frame) ELSE inbox'[c] = inbox[c]
  BY <1>1, ConnAssumption DEF Send
<1>5. sock[r] = NoConn => queue'[r] = Enqueued(queue[r], frame)
  BY <1>1 DEF Send
<1>6. frame.type # "Ops" => OpsIn(queue'[r]) \subseteq OpsIn(queue[r])
  <2>1. \A f \in Range(queue'[r]) : f \in Range(queue[r]) \/ f = frame
    BY SendFacts
  <2>. QED  BY <2>1, InOps
<1>7. sock[r] = NoConn /\ frame.type = "Presence" => queue'[r] = queue[r]
  BY <1>5 DEF Enqueued
<1>8. ASSUME sock[r] = NoConn, frame.type # "Presence", Len(queue[r]) < MaxQueue
      PROVE  /\ Range(queue'[r]) = Range(queue[r]) \cup {frame}
             /\ Len(queue'[r]) = Len(queue[r]) + 1
  <2>1. PICK q \in Seq(ClientFrame) : q = queue[r]
    BY <1>1
  <2>2. PICK n \in Nat : n = Len(q)
    BY LenProperties
  <2>3. ~(n >= MaxQueue)
    BY <1>8, <2>1, <2>2, QueueAssumption
  <2>4. queue'[r] = Append(q, frame)
    BY <1>5, <1>8, <2>1, <2>2, <2>3 DEF Enqueued
  <2>5. Range(Append(q, frame)) = Range(q) \cup {frame} /\ Len(Append(q, frame)) = Len(q) + 1
    BY RangeOfAppend, AppendProperties
  <2>. QED  BY <2>1, <2>4, <2>5
<1>. QED  BY <1>2, <1>3, <1>4, <1>6, <1>7, <1>8

\* r sends a frame with operations that are new, if any.
Speaks(r, frame) ==
  /\ frame \in ClientFrame /\ Send(r, frame)
  /\ UNCHANGED <<rooms, wire, task, token, sock, opens, next_conn, discarded>>
  /\ frame.type = "Join" => frame.replica = r
  /\ frame.type = "Ops" => \A op \in frame.ops : op[1] = r /\ op \in Own(r)' /\ op \notin Own(r)
  /\ \A q \in Replica : known[q] \subseteq known'[q] /\ (q # r => Own(q)' = Own(q))
  /\ \A op \in Own(r)' : op \in Own(r) \/ (frame.type = "Ops" /\ op \in frame.ops)

LEMMA SpeaksUnsent ==
  ASSUME IInv, EInv, NEW r \in Replica, NEW frame, Speaks(r, frame)
  PROVE  Unsent'
<1>1. frame \in ClientFrame /\ Send(r, frame)
  BY DEF Speaks
<1>2. UNCHANGED <<rooms, sock, discarded>>
  BY DEF Speaks
<1>3. \A q \in Replica : sock[q] # NoConn => queue'[q] = <<>>
  BY <1>1, SentFacts DEF EInv, Unsent
<1>4. \A room \in Room : \A op \in rooms[room].doc : op \in known'[op[1]]
  <2>1. \A room \in Room : \A op \in rooms[room].doc : op[1] \in Replica
    BY DEF IInv, DocsByMembers, Made
  <2>. QED  BY <2>1 DEF EInv, Unsent, Speaks
<1>5. \A op \in discarded : op[1] \in Replica /\ op \in known'[op[1]]
  BY DEF EInv, Unsent, Speaks
<1>6. \A q \in Replica : \A op \in OpsIn(queue'[q]) :
        op \in OpsIn(queue[q]) \/ (frame.type = "Ops" /\ op \in frame.ops)
  <2>1. \A q \in Replica : \A f \in Range(queue'[q]) : f \in Range(queue[q]) \/ f = frame
    BY <1>1, SendFacts
  <2>. QED  BY <2>1, InOps
<1>7. \A c \in Conn : \A op \in OpsIn(inbox'[c]) :
        op \in OpsIn(inbox[c]) \/ (frame.type = "Ops" /\ op \in frame.ops /\ sock[r] = c)
  <2>1. \A c \in Conn : \A f \in Range(inbox'[c]) : f \in Range(inbox[c]) \/ (f = frame /\ sock[r] = c)
    BY <1>1, SendFacts, ZenonT(30)
  <2>. QED  BY <2>1, InOps
\* A new operation is nowhere yet.
<1>8. ASSUME frame.type = "Ops", NEW op \in frame.ops
      PROVE  /\ op \notin discarded
             /\ \A room \in Room : op \notin rooms[room].doc
             /\ \A c \in Conn : op \notin OpsIn(inbox[c])
             /\ \A q \in Replica : op \notin OpsIn(queue[q])
  <2>1. op[1] = r /\ op \notin Own(r)
    BY <1>8 DEF Speaks
  <2>2. op \notin discarded /\ \A room \in Room : op \notin rooms[room].doc
    BY <2>1 DEF EInv, Unsent, Own
  <2>3. ASSUME NEW q \in Replica, op \in Own(q) PROVE FALSE
    BY <2>1, <2>3 DEF Own
  <2>4. ASSUME NEW c \in Conn, op \in OpsIn(inbox[c]) PROVE FALSE
    <3>1. PICK f \in Range(inbox[c]) : f.type = "Ops" /\ op \in f.ops
      BY <2>4, InOps
    <3>2. c < next_conn
      BY <3>1, RangeOfEmpty DEF IInv, ConnsHaveOwners, Unused
    <3>3. PICK q \in Replica : BelongsTo(c, q)
      BY <3>2 DEF IInv, ConnsHaveOwners
    <3>. QED  BY <2>3, <3>1, <3>3 DEF BelongsTo, Says
  <2>5. ASSUME NEW q \in Replica, op \in OpsIn(queue[q]) PROVE FALSE
    <3>1. PICK f \in Range(queue[q]) : f.type = "Ops" /\ op \in f.ops
      BY <2>5, InOps
    <3>. QED  BY <2>3, <3>1 DEF IInv, QueuesAreOwn, Says
  <2>. QED  BY <2>2, <2>4, <2>5
<1>9. \A q \in Replica : \A op \in OpsIn(queue'[q]) : op \notin discarded
  BY <1>6, <1>8 DEF EInv, Unsent
<1>10. ASSUME NEW op, op \in discarded \cup UNION {OpsIn(queue'[q]) : q \in Replica}
       PROVE  /\ \A room \in Room : op \notin rooms[room].doc
              /\ \A c \in Conn : op \notin OpsIn(inbox'[c])
  <2>1. CASE frame.type = "Ops" /\ op \in frame.ops
    <3>1. op \notin discarded /\ \A q \in Replica : op \notin OpsIn(queue[q])
      BY <1>8, <2>1
    <3>2. PICK q \in Replica : op \in OpsIn(queue'[q])
      BY <1>10, <3>1
    <3>3. queue'[q] # queue[q]
      BY <3>1, <3>2
    <3>4. sock[r] = NoConn
      BY <1>1, <3>3, SentFacts
    <3>. QED  BY <1>7, <1>8, <2>1, <3>4, ConnAssumption
  <2>2. CASE ~(frame.type = "Ops" /\ op \in frame.ops)
    <3>1. op \in discarded \cup UNION {OpsIn(queue[q]) : q \in Replica}
      BY <1>6, <1>10, <2>2
    <3>. QED  BY <1>7, <2>2, <3>1 DEF EInv, Unsent
  <2>. QED  BY <2>1, <2>2
<1>. QED  BY <1>2, <1>3, <1>4, <1>5, <1>9, <1>10 DEF Unsent

LEMMA SpeaksDelivers ==
  ASSUME IInv, EInv, NEW r \in Replica, NEW frame, Speaks(r, frame),
         frame.type \in {"Ops", "Presence"},
         frame.type = "Ops" => Len(queue[r]) < MaxQueue,
         NEW p \in Replica, Undisturbed(p)
  PROVE  EditsKept(p)' /\ Linked(p)'
<1>1. frame \in ClientFrame /\ Send(r, frame)
  BY DEF Speaks
<1>2. UNCHANGED <<rooms, wire, task, token, sock, opens, next_conn, discarded>>
  BY DEF Speaks
<1>0. \A c \in Conn : IF c = sock[r] /\ wire[c] = "open"
                      THEN /\ inbox'[c] = Append(inbox[c], frame)
                           /\ Range(inbox'[c]) = Range(inbox[c]) \cup {frame}
                      ELSE inbox'[c] = inbox[c]
  BY <1>1, SentFacts
<1>3. EditsKept(p) /\ Linked(p)
  BY DEF EInv, Delivered
<1>4. \A c \in Conn : Range(inbox[c]) \subseteq Range(inbox'[c]) /\ OpsIn(inbox[c]) \subseteq OpsIn(inbox'[c])
  <2>1. \A c \in Conn : Range(inbox[c]) \subseteq Range(inbox'[c])
    BY <1>1, SentFacts
  <2>. QED  BY <2>1, InOps
<1>5. \A q \in Replica : OpsIn(queue[q]) \subseteq OpsIn(queue'[q])
  <2>1. CASE sock[r] # NoConn \/ frame.type = "Presence"
    BY <1>1, <2>1, SentFacts
  <2>2. CASE sock[r] = NoConn /\ frame.type = "Ops"
    <3>1. \A q \in Replica : Range(queue[q]) \subseteq Range(queue'[q])
      BY <1>1, <2>2, SentFacts
    <3>. QED  BY <3>1, InOps
  <2>. QED  BY <2>1, <2>2
<1>6. sock[p] = NoConn \/ (sock[p] \in Conn /\ Only(sock[p], p) /\ OnItsWay(sock[p], p) /\ wire[sock[p]] = "open")
  <2>1. CASE opens[p] = 0
    BY <1>3, <2>1 DEF Linked
  <2>2. ASSUME NEW c \in Conn, Only(c, p), sock[p] # NoConn
        PROVE  sock[p] = c /\ OnItsWay(c, p) /\ wire[c] = "open"
    BY <2>2 DEF Only, OnItsWay
  <2>. QED  BY <1>3, <2>1, <2>2 DEF Linked
<1>7. EditsKept(p)'
  <2>1. CASE p # r
    BY <1>2, <1>3, <1>4, <1>5, <2>1 DEF EditsKept, Speaks
  <2>2. ASSUME p = r, frame.type = "Ops", NEW op \in frame.ops
        PROVE  op \in OpsIn(queue'[r]) \/ \E c \in Conn : op \in OpsIn(inbox'[c])
    <3>1. CASE sock[r] = NoConn
      <4>1. frame \in Range(queue'[r])
        BY <1>1, <2>2, <3>1, SentFacts
      <4>. QED  BY <2>2, <4>1, InOps
    <3>2. CASE sock[r] # NoConn
      <4>1. sock[r] \in Conn /\ wire[sock[r]] = "open"
        BY <1>6, <2>2, <3>2
      <4>2. PICK c \in Conn : c = sock[r]
        BY <4>1
      <4>3. frame \in Range(inbox'[c])
        BY <1>0, <4>1, <4>2
      <4>4. op \in OpsIn(inbox'[c])
        BY <2>2, <4>3, InOps
      <4>. QED  BY <4>4
    <3>. QED  BY <3>1, <3>2
  <2>3. CASE p = r
    BY <1>2, <1>3, <1>4, <1>5, <2>2, <2>3 DEF EditsKept, Speaks
  <2>. QED  BY <2>1, <2>3
<1>8. ASSUME NEW c \in Conn, Silent(c, p), p # r \/ sock[p] # c PROVE Silent(c, p)'
  <2>1. \A f \in Range(inbox'[c]) : f \in Range(inbox[c]) \/ (f = frame /\ sock[r] = c)
    BY <1>0
  <2>2. p # r => /\ frame.type = "Join" => frame.replica # p
                 /\ frame.type = "Ops" => \A op \in frame.ops : op[1] # p
    BY DEF Speaks
  <2>. QED  BY <1>8, <2>1, <2>2 DEF Silent
<1>9. ASSUME NEW c \in Conn, Only(c, p) PROVE Only(c, p)'
  <2>1. \A d \in Conn \ {c} : Silent(d, p)'
    BY <1>8, <1>9, ConnAssumption DEF Only
  <2>2. sock[p] # c /\ Silent(c, p) => Silent(c, p)'
    BY <1>8
  <2>3. ASSUME OnItsWay(c, p) PROVE OnItsWay(c, p)'
    <3>1. Editing(c, p) => Editing(c, p)'
      BY <1>2 DEF Editing
    <3>2. CASE c = sock[r] /\ wire[c] = "open"
      <4>1. p = r
        BY <1>9, <3>2 DEF Only
      <4>2. \A f \in Range(inbox[c]) : f.type # "Leave"
        BY <2>3, <3>2, <4>1 DEF OnItsWay
      <4>3. inbox[c] \in Seq(ClientFrame)
        BY DEF IInv, Types
      <4>4. /\ LeaveLast(Append(inbox[c], frame)) /\ Append(inbox[c], frame) # <<>>
            /\ inbox[c] # <<>> => Head(Append(inbox[c], frame)) = Head(inbox[c])
        BY <1>1, <4>2, <4>3, LeaveLastOfAppend
      <4>5. inbox'[c] = Append(inbox[c], frame) /\ Range(inbox'[c]) = Range(inbox[c]) \cup {frame}
        BY <1>0, <3>2
      <4>6. \A f \in Range(inbox'[c]) : f.type # "Leave"
        BY <4>2, <4>5
      <4>. QED  BY <1>2, <2>3, <3>1, <4>4, <4>5, <4>6 DEF OnItsWay, JoinFrame
    <3>3. CASE ~(c = sock[r] /\ wire[c] = "open")
      <4>1. inbox'[c] = inbox[c]
        BY <1>0, <3>3
      <4>. QED  BY <1>2, <2>3, <3>1, <4>1 DEF OnItsWay, JoinFrame
    <3>. QED  BY <3>2, <3>3
  <2>. QED  BY <1>2, <1>9, <2>1, <2>2, <2>3 DEF Only
<1>10. opens[p] = 0 => \A c \in Conn : Silent(c, p)'
  BY <1>3, <1>8, ConnAssumption DEF Linked
<1>. QED  BY <1>2, <1>3, <1>7, <1>9, <1>10 DEF Linked

\* A frame keeps what is calm, unless it changes an access level.
LEMMA SpeaksCalm ==
  ASSUME IInv, EInv, NEW r \in Replica, NEW frame, Speaks(r, frame),
         spent \in [Kind -> Nat], spent' \in [Kind -> Nat],
         spent'["break"] = spent["break"],
         spent'["access"] = 0 =>
           /\ spent["access"] = 0 /\ frame.type \in {"Ops", "Presence"}
           /\ spent["edit"] <= spent'["edit"]
           /\ frame.type = "Ops" => Len(queue[r]) < MaxQueue /\ spent'["edit"] = spent["edit"] + 1
  PROVE  Calm'
<1>1. frame \in ClientFrame /\ Send(r, frame) /\ opens' = opens /\ wire' = wire
  BY DEF Speaks
<1>2. ASSUME spent'["access"] = 0
      PROVE  /\ \A c \in Conn : \A f \in Range(inbox'[c]) : f.type # "SetAccess"
             /\ \A q \in Replica : /\ Len(queue'[q]) <= spent'["edit"]
                                   /\ \A f \in Range(queue'[q]) : f.type = "Ops"
  <2>0. /\ \A c \in Conn : \A f \in Range(inbox[c]) : f.type # "SetAccess"
        /\ \A q \in Replica : /\ Len(queue[q]) <= spent["edit"]
                              /\ \A f \in Range(queue[q]) : f.type = "Ops"
    BY <1>2 DEF EInv, Calm
  <2>1. \A c \in Conn : \A f \in Range(inbox'[c]) : f \in Range(inbox[c]) \/ f = frame
    <3>1. \A c \in Conn : IF c = sock[r] /\ wire[c] = "open"
                          THEN Range(inbox'[c]) = Range(inbox[c]) \cup {frame}
                          ELSE inbox'[c] = inbox[c]
      BY <1>1, SentFacts
    <3>. QED  BY <3>1
  <2>2. \A c \in Conn : \A f \in Range(inbox'[c]) : f.type # "SetAccess"
    BY <1>2, <2>0, <2>1
  <2>3. ASSUME NEW q \in Replica
        PROVE  Len(queue'[q]) <= spent'["edit"] /\ \A f \in Range(queue'[q]) : f.type = "Ops"
    <3>1. /\ Len(queue[q]) \in Nat /\ spent["edit"] \in Nat /\ spent'["edit"] \in Nat
          /\ Len(queue[q]) <= spent["edit"] /\ spent["edit"] <= spent'["edit"]
      <4>1. queue[q] \in Seq(ClientFrame)
        BY DEF IInv, Types
      <4>. QED  BY <1>2, <2>0, <4>1 DEF Kind
    <3>2. CASE q # r \/ sock[r] # NoConn \/ frame.type = "Presence"
      <4>1. queue'[q] = queue[q]
        BY <1>1, <3>2, SentFacts
      <4>. QED  BY <2>0, <3>1, <4>1
    <3>3. CASE q = r /\ sock[r] = NoConn /\ frame.type = "Ops"
      <4>1. Range(queue'[r]) = Range(queue[r]) \cup {frame} /\ Len(queue'[r]) = Len(queue[r]) + 1
        BY <1>1, <1>2, <3>3, SentFacts
      <4>. QED  BY <1>2, <2>0, <3>1, <3>3, <4>1
    <3>. QED  BY <1>2, <3>2, <3>3
  <2>. QED  BY <2>2, <2>3
<1>3. opens \in [Replica -> Nat] /\ (spent["break"] = 0 => \A c \in Conn : wire[c] # "broken")
  BY DEF EInv, Calm
<1>. QED  BY <1>1, <1>2, <1>3 DEF Calm

LEMMA EditDelivers ==
  ASSUME IInv, EInv, Budget["edit"] <= MaxQueue, NEW r \in Replica, Edit(r)
  PROVE  EInv'
<1>0. PICK op : op = <<r, 1 + Cardinality(Own(r))>>
  OBVIOUS
<1>. DEFINE frame == [type |-> "Ops", ops |-> {op}]
<1>1. /\ UNCHANGED <<rooms, task, wire, token, sock, opens, next_conn, discarded>>
      /\ known' = [known EXCEPT ![r] = @ \cup {op}]
      /\ Send(r, frame)
      /\ Spend("edit")
  BY <1>0 DEF Edit, hubVars
<1>2. /\ spent \in [Kind -> Nat] /\ spent' \in [Kind -> Nat] /\ spent["edit"] \in Nat
      /\ spent'["break"] = spent["break"] /\ spent'["access"] = spent["access"]
      /\ spent'["edit"] = spent["edit"] + 1 /\ spent'["edit"] <= Budget["edit"] /\ Budget["edit"] \in Nat
  <2>1. {"edit", "break", "access"} \subseteq Kind
    BY DEF Kind
  <2>2. /\ spent \in [Kind -> Nat] /\ spent' \in [Kind -> Nat]
        /\ \A k \in Kind : spent'[k] = IF k = "edit" THEN spent[k] + 1 ELSE spent[k]
    BY <1>1, <2>1, SpendCount
  <2>3. spent'["edit"] <= Budget["edit"] /\ Budget["edit"] \in Nat
    BY <1>1, <2>1, SpendFacts
  <2>. QED  BY <2>1, <2>2, <2>3
<1>3. /\ IsFiniteSet(Own(r)) /\ Cardinality(Own(r)) \in Nat
      /\ Cardinality(Own(r)) <= spent["edit"]
  BY OwnCount
<1>4. op[1] = r /\ op[2] = 1 + Cardinality(Own(r)) /\ op \in Op
  BY <1>0, <1>2, <1>3, OpAssumption
<1>5. op \notin Own(r)
  BY <1>3, <1>4 DEF EInv, Numbered
<1>6. \A q \in Replica : known'[q] = IF q = r THEN known[q] \cup {op} ELSE known[q]
  BY <1>1 DEF IInv, Types
<1>7. /\ Own(r)' = Own(r) \cup {op}
      /\ \A q \in Replica \ {r} : Own(q)' = Own(q)
  BY <1>4, <1>6 DEF Own
<1>8. frame \in ClientFrame /\ frame.type = "Ops" /\ frame.ops = {op}
  BY <1>4 DEF ClientFrame
<1>. HIDE DEF frame
<1>9. Speaks(r, frame)
  BY <1>1, <1>4, <1>5, <1>6, <1>7, <1>8 DEF Speaks
<1>10. ASSUME spent["access"] = 0 PROVE Len(queue[r]) < MaxQueue
  <2>1. Len(queue[r]) \in Nat /\ Len(queue[r]) <= spent["edit"]
    <3>1. queue[r] \in Seq(ClientFrame)
      BY DEF IInv, Types
    <3>. QED  BY <1>10, <3>1 DEF EInv, Calm
  <2>2. MaxQueue \in Nat
    BY QueueAssumption
  <2>. QED  BY <1>2, <2>1, <2>2
<1>11. Calm'
  BY <1>2, <1>8, <1>9, <1>10, SpeaksCalm
<1>12. Unsent'
  BY <1>9, SpeaksUnsent
<1>13. Numbered'
  <2>1. Cardinality(Own(r) \cup {op}) = Cardinality(Own(r)) + 1
    BY <1>3, <1>5, FS_AddElement
  <2>2. ASSUME NEW a \in Own(r) PROVE a[2] <= Cardinality(Own(r)) + 1
    <3>1. a[2] \in Nat
      BY DEF Own, IInv, Types, Made
    <3>2. a[2] <= Cardinality(Own(r))
      BY DEF EInv, Numbered
    <3>. QED  BY <1>3, <3>1, <3>2
  <2>3. \A a \in Own(r)' : a[2] <= Cardinality(Own(r)')
    BY <1>3, <1>4, <1>7, <2>1, <2>2
  <2>4. \A q \in Replica \ {r} : \A a \in Own(q)' : a[2] <= Cardinality(Own(q)')
    BY <1>7 DEF EInv, Numbered
  <2>. QED  BY <2>3, <2>4 DEF Numbered
<1>14. ASSUME NEW p \in Replica, Undisturbed(p)' PROVE EditsKept(p)' /\ Linked(p)'
  <2>1. Undisturbed(p) /\ spent["access"] = 0
    BY <1>1, <1>2, <1>14 DEF Undisturbed, Welcome
  <2>. QED  BY <1>8, <1>9, <1>10, <2>1, SpeaksDelivers
<1>. QED  BY <1>11, <1>12, <1>13, <1>14 DEF EInv, Delivered

LEMMA MoveCursorDelivers ==
  ASSUME IInv, EInv, NEW r \in Replica, MoveCursor(r)
  PROVE  EInv'
<1>0. PICK n : n = epoch[r] + 1
  OBVIOUS
<1>. DEFINE frame == PresenceFrame(r, n)
<1>1. /\ UNCHANGED <<rooms, task, wire, token, sock, opens, next_conn, discarded, known>>
      /\ Send(r, frame)
      /\ Spend("move")
  BY <1>0 DEF MoveCursor, hubVars
<1>2. /\ spent \in [Kind -> Nat] /\ spent' \in [Kind -> Nat] /\ spent["edit"] \in Nat
      /\ spent'["break"] = spent["break"] /\ spent'["access"] = spent["access"]
      /\ spent'["edit"] = spent["edit"] /\ spent["edit"] <= spent'["edit"]
  <2>1. {"move", "edit", "break", "access"} \subseteq Kind
    BY DEF Kind
  <2>2. /\ spent \in [Kind -> Nat] /\ spent' \in [Kind -> Nat]
        /\ \A k \in Kind : spent'[k] = IF k = "move" THEN spent[k] + 1 ELSE spent[k]
    BY <1>1, <2>1, SpendCount
  <2>3. spent["edit"] \in Nat /\ spent'["edit"] = spent["edit"]
    BY <2>1, <2>2
  <2>. QED  BY <2>1, <2>2, <2>3
<1>3. frame \in ClientFrame /\ frame.type = "Presence"
  <2>1. n \in Nat
    BY <1>0 DEF IInv, Types
  <2>. QED  BY <2>1 DEF PresenceFrame, ClientFrame
<1>. HIDE DEF frame
<1>4. \A q \in Replica : Own(q)' = Own(q)
  BY <1>1 DEF Own
<1>5. Speaks(r, frame)
  BY <1>1, <1>3, <1>4 DEF Speaks
<1>6. Calm' /\ Unsent'
  BY <1>2, <1>3, <1>5, SpeaksCalm, SpeaksUnsent
<1>7. Numbered'
  BY <1>4 DEF EInv, Numbered
<1>8. ASSUME NEW p \in Replica, Undisturbed(p)' PROVE EditsKept(p)' /\ Linked(p)'
  <2>1. Undisturbed(p)
    BY <1>1, <1>2, <1>8 DEF Undisturbed, Welcome
  <2>. QED  BY <1>3, <1>5, <2>1, SpeaksDelivers
<1>. QED  BY <1>6, <1>7, <1>8 DEF EInv, Delivered

\* Once a level was changed, nobody is undisturbed.
LEMMA SetAccessDelivers ==
  ASSUME IInv, EInv, NEW r \in Replica, NEW subject \in Subject, NEW lv \in Asked,
         SetAccess(r, subject, lv)
  PROVE  EInv'
<1>. DEFINE frame == [type |-> "SetAccess", subject |-> subject, level |-> lv]
<1>1. /\ UNCHANGED <<rooms, task, wire, token, sock, opens, next_conn, discarded, known>>
      /\ Send(r, frame)
      /\ Spend("access")
  BY DEF SetAccess, hubVars
<1>2. /\ spent \in [Kind -> Nat] /\ spent' \in [Kind -> Nat]
      /\ spent'["break"] = spent["break"] /\ spent'["access"] # 0
  <2>1. {"break", "access"} \subseteq Kind
    BY DEF Kind
  <2>2. /\ spent \in [Kind -> Nat] /\ spent' \in [Kind -> Nat]
        /\ \A k \in Kind : spent'[k] = IF k = "access" THEN spent[k] + 1 ELSE spent[k]
    BY <1>1, <2>1, SpendCount
  <2>. QED  BY <2>1, <2>2
<1>3. frame \in ClientFrame /\ frame.type = "SetAccess"
  BY BudgetAssumption DEF ClientFrame
<1>. HIDE DEF frame
<1>4. \A q \in Replica : Own(q)' = Own(q)
  BY <1>1 DEF Own
<1>5. Speaks(r, frame)
  BY <1>1, <1>3, <1>4 DEF Speaks
<1>6. Calm' /\ Unsent'
  BY <1>2, <1>5, SpeaksCalm, SpeaksUnsent
<1>7. Numbered'
  BY <1>4 DEF EInv, Numbered
<1>8. Delivered'
  BY <1>2 DEF Delivered, Undisturbed, Welcome
<1>. QED  BY <1>6, <1>7, <1>8 DEF EInv

-----------------------------------------------------------------------------
LEMMA InitDelivers == Init => EInv
<1>. SUFFICES ASSUME Init PROVE EInv
  OBVIOUS
<1>. USE DEF Init, HubInit, ServerInit
<1>1. /\ \A room \in Room : rooms[room].doc = {}
      /\ \A c \in Conn : inbox[c] = <<>> /\ Range(inbox[c]) = {} /\ wire[c] = "none"
      /\ \A r \in Replica : /\ sock[r] = NoConn /\ known[r] = {} /\ opens[r] = 0
                            /\ queue[r] = <<>> /\ Range(queue[r]) = {} /\ Len(queue[r]) = 0
      /\ opens \in [Replica -> Nat] /\ discarded = {}
      /\ 0 <= spent["edit"]
  BY RangeOfEmpty DEF NewRoom, Kind
<1>2. Calm
  BY <1>1 DEF Calm
<1>3. Unsent
  BY <1>1, NoneInEmpty DEF Unsent
<1>4. \A r \in Replica : Own(r) = {}
  BY <1>1 DEF Own
<1>5. Numbered
  BY <1>4 DEF Numbered
<1>6. Delivered
  BY <1>1, <1>4 DEF Delivered, EditsKept, Linked, Silent
<1>. QED  BY <1>2, <1>3, <1>5, <1>6 DEF EInv

LEMMA StepDelivers ==
  ASSUME EverybodyEdits, Budget["edit"] <= MaxQueue
  PROVE  IInv /\ EInv /\ [Next]_vars => EInv'
<1>. SUFFICES ASSUME IInv, EInv, [Next]_vars PROVE EInv'
  OBVIOUS
<1>1. ASSUME NEW c \in Conn, Server(c)
      PROVE  EInv'
  BY <1>1, ReadingDelivers, DispatchDelivers, EndOfStreamDelivers DEF Server, ServerStep
<1>2. ASSUME NEW r \in Replica, User(r)
      PROVE  EInv'
  BY <1>2, OpenDelivers, EditDelivers, MoveCursorDelivers, DisconnectDelivers, SetAccessDelivers
     DEF User
<1>. QED
  BY <1>1, <1>2, BreakDelivers, ReceiveFrameDelivers, OnCloseDelivers, StutterDelivers DEF Next

\* Edits queue rather than get lost: an edit is in the room's document, on its
\* way there, or queued, unless its author gave the queue up, for any number of
\* clients, connections, cursors and disconnects, where everybody may edit and
\* no more edits are made than the queue holds. Nobody's connection breaks, and
\* the author was connected once at most: the property says so.
THEOREM EditsAreNotLost ==
  ASSUME EverybodyEdits, Budget["edit"] <= MaxQueue
  PROVE  Spec => []NoEditLost
<1>1. Init => EInv
  BY InitDelivers
<1>2. IInv /\ EInv /\ [Next]_vars => EInv'
  BY StepDelivers
<1>3. EInv => NoEditLost
  BY DEF EInv, Delivered, Undisturbed, NoEditLost
<1>. QED  BY <1>1, <1>2, <1>3, Invariance, PTL DEF Spec

LEMMA AgreementHolds == IInv /\ EInv => QuietAgreement
<1>. SUFFICES ASSUME IInv, EInv, Quiet, NEW r \in Replica, sock[r] # NoConn, Undisturbed(r)
             PROVE  known[r] \ discarded = rooms[RoomOf[r]].doc
  BY DEF QuietAgreement, Connected, Undisturbed
<1>1. EditsKept(r) /\ Linked(r) /\ RoomOf[r] \in Room
  BY RoomOfAssumption DEF EInv, Delivered
<1>2. \A c \in Conn : OpsIn(inbox[c]) = {}
  BY NoneInEmpty DEF Quiet
<1>3. OpsIn(queue[r]) = {}
  BY NoneInEmpty DEF EInv, Unsent
<1>4. ASSUME NEW op \in known[r], op \notin discarded PROVE op \in rooms[RoomOf[r]].doc
  BY <1>1, <1>2, <1>3, <1>4 DEF IInv, LearnedThroughHub, EditsKept
<1>5. PICK c \in Conn : c = sock[r] /\ Only(c, r)
  BY <1>1 DEF Linked, Only
<1>6. wire[c] = "open" /\ Editing(c, r)
  BY <1>5 DEF Only, OnItsWay, Quiet
<1>7. Joined(r)
  BY <1>5, <1>6 DEF Joined, Editing
<1>8. Coming(c) = {}
  <2>1. outbox[c] = <<>>
    BY DEF Quiet
  <2>2. \A d \in Conn : outbound[d] = {}
    BY DEF Quiet, IInv, TasksInOrder
  <2>. QED  BY <2>1, <2>2, ComingNow, RangeOfEmpty
<1>9. ASSUME NEW op \in rooms[RoomOf[r]].doc PROVE op \in known[r] /\ op \notin discarded
  BY <1>1, <1>5, <1>7, <1>8 DEF IInv, NoGap, EInv, Unsent
<1>. QED  BY <1>4, <1>9

\* When everything has arrived, a connected client and the hub hold the same
\* document, but for what the client gave up: the agreement tests/load.rs
\* asserts of one schedule, for every schedule.
THEOREM QuietMeansAgreement ==
  ASSUME EverybodyEdits, Budget["edit"] <= MaxQueue
  PROVE  Spec => []QuietAgreement
<1>1. Init => EInv
  BY InitDelivers
<1>2. IInv /\ EInv /\ [Next]_vars => EInv'
  BY StepDelivers
<1>. QED  BY <1>1, <1>2, AgreementHolds, Invariance, PTL DEF Spec
=============================================================================
