------------------------ MODULE CollabClient_proofs -------------------------
(* Theorems about CollabClient, for any number of sockets, calls and edits    *)
(* and any length of the queue.                                               *)
EXTENDS CollabClient, SequenceTheorems, TLAPS

TypeOK ==
    /\ socket \in Socket \cup {NoSocket}
    /\ timer \in BOOLEAN /\ closedByUser \in BOOLEAN
    /\ wanted \in BOOLEAN /\ overlapped \in BOOLEAN
    /\ queued \in Seq(Nat) /\ made \in Nat
    /\ ready \in [Socket -> {"none", "connecting", "open", "closing", "closed"}]
    /\ sent \in [Socket -> Seq(Nat)]

\* this.socket is on its way or open: every close of any socket clears it.
SocketIsAlive == socket # NoSocket => ready[socket] \in {"connecting", "open"}

\* What stops a client that is not wanted: no timer is set, and no close of a
\* socket will set one.
StaysStopped == ~wanted => ~timer /\ (closedByUser \/ Live = {})

\* Without overlapping calls one socket is alive, and none while a retry is due.
OneAlive == ~overlapped => /\ \A s, t \in Live : s = t
                           /\ timer => Live = {}
                           /\ OneSocket

\* An open this.socket had its Join: it is open because onopen ran while it was
\* this.socket, or onopen of another socket sent its Join here.
OpenIsJoined == CanSend => sent[socket] # <<>>

Inv == TypeOK /\ SocketIsAlive /\ StaysStopped /\ OneAlive /\ OpenIsJoined

--------------------------------------------------------------------------
\* enqueue() keeps each frame or reports it as dropped.
LEMMA EnqueueKeepsAll ==
    ASSUME NEW q \in Seq(Nat)
    PROVE  Kept(q) \in Seq(Nat) /\ Frames(q) \subseteq Dropped(q) \cup Frames(Kept(q))
<1>1. CASE Len(q) <= QueueLimit
    <2>1. Kept(q) = q
        BY <1>1, SocketAssumption DEF Kept
    <2> QED BY <2>1
<1>2. CASE Len(q) > QueueLimit
    <2> DEFINE cut == Len(q) - QueueLimit
    <2>1. cut \in Nat /\ cut >= 1 /\ cut <= Len(q) /\ Len(q) \in Nat
        BY <1>2, SocketAssumption
    <2>2. Kept(q) = SubSeq(q, cut + 1, Len(q)) /\ Dropped(q) = {q[i] : i \in 1..cut}
        BY <1>2, SocketAssumption DEF Kept, Dropped
    <2>3. Kept(q) \in Seq(Nat) /\ Len(Kept(q)) = QueueLimit
        BY <2>1, <2>2, SocketAssumption
    <2>4. ASSUME NEW i \in 1..Len(q), i > cut PROVE q[i] \in Frames(Kept(q))
        <3>1. i - cut \in 1..QueueLimit /\ Kept(q)[i - cut] = q[i]
            BY <2>1, <2>2, <2>4, SocketAssumption
        <3> QED BY <2>3, <3>1 DEF Frames
    <2>5. ASSUME NEW i \in 1..Len(q), ~(i > cut) PROVE q[i] \in Dropped(q)
        <3>1. i \in 1..cut
            BY <2>1, <2>5
        <3> QED BY <2>2, <3>1
    <2>6. DOMAIN q = 1..Len(q)
        OBVIOUS
    <2> QED BY <2>3, <2>4, <2>5, <2>6 DEF Frames
<1> QED BY <1>1, <1>2, SocketAssumption

\* The frames of two sequences one after the other.
LEMMA FramesOfBoth ==
    ASSUME NEW q \in Seq(Nat), NEW r \in Seq(Nat)
    PROVE  Frames(q \o r) = Frames(q) \cup Frames(r)
<1>1. ASSUME NEW i \in DOMAIN (q \o r) PROVE (q \o r)[i] \in Frames(q) \cup Frames(r)
    <2>1. CASE i <= Len(q)
        BY <1>1, <2>1 DEF Frames
    <2>2. CASE i > Len(q)
        <3>1. i - Len(q) \in DOMAIN r /\ (q \o r)[i] = r[i - Len(q)]
            BY <1>1, <2>2
        <3> QED BY <3>1 DEF Frames
    <2> QED BY <1>1, <2>1, <2>2
<1>2. ASSUME NEW i \in DOMAIN q PROVE q[i] \in Frames(q \o r)
    <2>1. i \in DOMAIN (q \o r) /\ (q \o r)[i] = q[i]
        OBVIOUS
    <2> QED BY <2>1 DEF Frames
<1>3. ASSUME NEW i \in DOMAIN r PROVE r[i] \in Frames(q \o r)
    <2>1. Len(q) + i \in DOMAIN (q \o r) /\ (q \o r)[Len(q) + i] = r[i]
        OBVIOUS
    <2> QED BY <2>1 DEF Frames
<1> QED BY <1>1, <1>2, <1>3 DEF Frames

--------------------------------------------------------------------------
\* The initial client satisfies the invariant.
LEMMA InitInv == ClientInit => Inv
<1> SUFFICES ASSUME ClientInit PROVE Inv
    OBVIOUS
<1>1. TypeOK
    <2>1. queued \in Seq(Nat) /\ made \in Nat
        BY DEF ClientInit
    <2>2. ready \in [Socket -> {"none", "connecting", "open", "closing", "closed"}]
        BY DEF ClientInit
    <2>3. sent \in [Socket -> Seq(Nat)]
        <3>1. <<>> \in Seq(Nat)
            OBVIOUS
        <3> QED BY <3>1 DEF ClientInit
    <2> QED BY <2>1, <2>2, <2>3 DEF ClientInit, TypeOK
<1>2. Live = {}
    BY DEF ClientInit, Live
<1>3. OneSocket
    BY DEF ClientInit, OneSocket
<1>4. SocketIsAlive /\ OpenIsJoined
    BY DEF ClientInit, SocketIsAlive, OpenIsJoined, CanSend
<1>5. StaysStopped /\ OneAlive
    BY <1>2, <1>3 DEF ClientInit, StaysStopped, OneAlive
<1> QED BY <1>1, <1>4, <1>5 DEF Inv

\* What a new socket changes.
LEMMA NewSocketIsAlone ==
    ASSUME TypeOK, NewSocket
    PROVE  /\ socket' \in Socket /\ ready[socket'] = "none"
           /\ ready' = [ready EXCEPT ![socket'] = "connecting"]
           /\ Live' = Live \cup {socket'}
           /\ ~timer' /\ ~closedByUser'
BY SocketAssumption DEF TypeOK, NewSocket, Created, Live

LEMMA ConnectInv == Inv /\ Connect => Inv'
<1> SUFFICES ASSUME Inv, Connect PROVE Inv'
    OBVIOUS
<1> USE DEF Inv
<1>1. /\ socket' \in Socket /\ ready[socket'] = "none"
      /\ ready' = [ready EXCEPT ![socket'] = "connecting"]
      /\ Live' = Live \cup {socket'}
      /\ ~timer' /\ ~closedByUser' /\ timer' \in BOOLEAN /\ closedByUser' \in BOOLEAN
    BY NewSocketIsAlone DEF Connect, NewSocket
<1>2. TypeOK'
    BY <1>1 DEF TypeOK, Connect
<1>3. SocketIsAlive' /\ StaysStopped' /\ OpenIsJoined'
    BY <1>1 DEF TypeOK, SocketIsAlive, StaysStopped, OpenIsJoined, CanSend, Connect
<1>4. OneAlive'
    BY <1>1 DEF TypeOK, OneAlive, OneSocket, Live, Connect
<1> QED BY <1>2, <1>3, <1>4

LEMMA TimerFiresInv == Inv /\ TimerFires => Inv'
<1> SUFFICES ASSUME Inv, TimerFires PROVE Inv'
    OBVIOUS
<1> USE DEF Inv
<1>1. CASE closedByUser \/ AlreadyConnected
    <2>1. /\ timer' = FALSE
          /\ UNCHANGED <<socket, ready, closedByUser, queued, sent, made, wanted, overlapped>>
        BY <1>1 DEF TimerFires
    <2> QED BY <2>1 DEF TypeOK, SocketIsAlive, StaysStopped, OneAlive, OneSocket, OpenIsJoined, CanSend, Live
<1>2. CASE ~(closedByUser \/ AlreadyConnected)
    <2>1. /\ timer /\ NewSocket
          /\ UNCHANGED <<queued, sent, made, wanted, overlapped>>
        BY <1>2 DEF TimerFires
    <2>2. /\ socket' \in Socket /\ ready[socket'] = "none"
          /\ ready' = [ready EXCEPT ![socket'] = "connecting"]
          /\ Live' = Live \cup {socket'}
          /\ ~timer' /\ ~closedByUser' /\ timer' \in BOOLEAN /\ closedByUser' \in BOOLEAN
        BY <2>1, NewSocketIsAlone DEF NewSocket
    <2>3. TypeOK'
        BY <2>1, <2>2 DEF TypeOK
    <2>4. wanted
        BY <2>1 DEF TypeOK, StaysStopped
    <2>5. SocketIsAlive' /\ StaysStopped' /\ OpenIsJoined'
        BY <2>1, <2>2, <2>4 DEF TypeOK, SocketIsAlive, StaysStopped, OpenIsJoined, CanSend
    <2>6. OneAlive'
        BY <2>1, <2>2 DEF TypeOK, OneAlive, OneSocket, Live
    <2> QED BY <2>3, <2>5, <2>6
<1> QED BY <1>1, <1>2

LEMMA OnOpenInv == ASSUME NEW s \in Socket, Inv, OnOpen(s) PROVE Inv'
<1> USE DEF Inv
<1>1. /\ ready[s] = "connecting" /\ ready' = [ready EXCEPT ![s] = "open"]
      /\ UNCHANGED <<socket, timer, closedByUser, made, wanted, overlapped>>
    BY DEF OnOpen
<1>2. Live' = Live
    BY <1>1 DEF TypeOK, Live
<1>3. SocketIsAlive' /\ StaysStopped' /\ OneAlive'
    BY <1>1, <1>2 DEF TypeOK, SocketIsAlive, StaysStopped, OneAlive, OneSocket, Live
<1>4. <<Join, Resync>> \in Seq(Nat)
    BY DEF Join, Resync
<1>5. CASE socket # NoSocket /\ ready'[socket] = "open"
    <2>1. sent' = [sent EXCEPT ![socket] = @ \o <<Join, Resync>> \o queued] /\ queued' = <<>> /\ socket \in Socket
        BY <1>5 DEF OnOpen, TypeOK
    <2> DEFINE frames == sent[socket] \o <<Join, Resync>> \o queued
    <2>2. frames \in Seq(Nat) /\ frames # <<>>
        BY <1>4, <2>1 DEF TypeOK
    <2>3. TypeOK'
        BY <1>1, <2>1, <2>2 DEF TypeOK
    <2>4. OpenIsJoined'
        BY <1>1, <2>1, <2>2 DEF TypeOK, OpenIsJoined, CanSend
    <2> QED BY <1>3, <2>3, <2>4
<1>6. CASE ~(socket # NoSocket /\ ready'[socket] = "open")
    <2>1. queued' = Kept(queued \o <<Join, Resync>>) /\ sent' = sent
        BY <1>6 DEF OnOpen
    <2>2. queued \o <<Join, Resync>> \in Seq(Nat)
        BY <1>4 DEF TypeOK
    <2>3. queued' \in Seq(Nat)
        BY <2>1, <2>2, EnqueueKeepsAll
    <2>4. TypeOK'
        BY <1>1, <2>1, <2>3 DEF TypeOK
    <2>5. OpenIsJoined'
        BY <1>1, <1>6 DEF OpenIsJoined, CanSend
    <2> QED BY <1>3, <2>4, <2>5
<1> QED BY <1>5, <1>6

LEMMA OnCloseInv == ASSUME NEW s \in Socket, Inv, OnSocketClose(s) PROVE Inv'
<1> USE DEF Inv
<1>1. /\ s \in Live /\ ready' = [ready EXCEPT ![s] = "closed"] /\ socket' = NoSocket
      /\ UNCHANGED <<closedByUser, queued, sent, made, wanted, overlapped>>
      /\ closedByUser => timer' = timer
      /\ ~closedByUser => timer' = TRUE
    BY DEF OnSocketClose
<1>2. Live' = Live \ {s}
    BY <1>1 DEF TypeOK, Live
<1>3. TypeOK'
    BY <1>1 DEF TypeOK
<1>4. SocketIsAlive' /\ OpenIsJoined'
    BY <1>1 DEF SocketIsAlive, OpenIsJoined, CanSend
<1>5. StaysStopped'
    BY <1>1, <1>2 DEF TypeOK, StaysStopped
<1>6. OneAlive'
    <2> SUFFICES ASSUME ~overlapped PROVE Live' = {} /\ {t \in Socket : ready'[t] \in {"connecting", "open"}} = {}
        BY <1>1 DEF OneAlive, OneSocket
    <2>1. Live' = {}
        BY <1>1, <1>2 DEF OneAlive
    <2> QED BY <2>1 DEF Live
<1> QED BY <1>3, <1>4, <1>5, <1>6

LEMMA DisconnectInv == Inv /\ DisconnectClient => Inv'
<1> SUFFICES ASSUME Inv, DisconnectClient PROVE Inv'
    OBVIOUS
<1> USE DEF Inv
<1>1. /\ closedByUser' = TRUE /\ wanted' = FALSE /\ timer' = FALSE /\ socket' = NoSocket /\ queued' = <<>>
      /\ ready' = [t \in Socket |-> IF t = socket THEN "closing" ELSE ready[t]]
      /\ UNCHANGED <<sent, made, overlapped>>
    BY DEF DisconnectClient
<1>2. Live' = Live
    BY <1>1, SocketAssumption DEF TypeOK, SocketIsAlive, Live
<1>3. TypeOK'
    <2>1. ready' \in [Socket -> {"none", "connecting", "open", "closing", "closed"}]
        BY <1>1 DEF TypeOK
    <2>2. queued' \in Seq(Nat) /\ sent' \in [Socket -> Seq(Nat)] /\ made' \in Nat
        BY <1>1 DEF TypeOK
    <2> QED BY <1>1, <2>1, <2>2 DEF TypeOK
<1>4. SocketIsAlive' /\ OpenIsJoined' /\ StaysStopped'
    BY <1>1 DEF SocketIsAlive, OpenIsJoined, CanSend, StaysStopped
<1>5. ASSUME ~overlapped PROVE {t \in Socket : ready'[t] \in {"connecting", "open"}} = {}
    BY <1>1, <1>5 DEF TypeOK, OneAlive, OneSocket
<1>6. OneAlive'
    BY <1>1, <1>2, <1>5 DEF OneAlive, OneSocket
<1> QED BY <1>3, <1>4, <1>6

LEMMA SendOpsInv == Inv /\ SendOps => Inv'
<1> SUFFICES ASSUME Inv, SendOps PROVE Inv'
    OBVIOUS
<1> USE DEF Inv
<1>1. /\ UNCHANGED <<socket, timer, closedByUser, ready, wanted, overlapped>>
      /\ made' = made + 1 /\ Ops(made + 1) \in Nat
    BY DEF SendOps, TypeOK, Ops
<1>2. SocketIsAlive' /\ StaysStopped' /\ OneAlive'
    BY <1>1 DEF SocketIsAlive, StaysStopped, OneAlive, OneSocket, Live
<1>3. CASE CanSend
    <2>1. sent' = [sent EXCEPT ![socket] = Append(@, Ops(made + 1))] /\ queued' = queued /\ socket \in Socket
        BY <1>3 DEF SendOps, TypeOK, CanSend
    <2>2. Append(sent[socket], Ops(made + 1)) \in Seq(Nat) \ {<<>>}
        BY <1>1, <2>1 DEF TypeOK
    <2> QED BY <1>1, <1>2, <2>1, <2>2 DEF TypeOK, OpenIsJoined, CanSend
<1>4. CASE ~CanSend
    <2>1. queued' = Kept(Append(queued, Ops(made + 1))) /\ sent' = sent
        BY <1>4 DEF SendOps
    <2>2. Append(queued, Ops(made + 1)) \in Seq(Nat)
        BY <1>1 DEF TypeOK
    <2>3. queued' \in Seq(Nat)
        BY <2>1, <2>2, EnqueueKeepsAll
    <2> QED BY <1>1, <1>2, <1>4, <2>1, <2>3 DEF TypeOK, OpenIsJoined, CanSend
<1> QED BY <1>3, <1>4

\* The invariant is inductive.
LEMMA StepInv == Inv /\ [ClientNext]_connectionVars => Inv'
<1> SUFFICES ASSUME Inv, [ClientNext]_connectionVars PROVE Inv'
    OBVIOUS
<1>1. CASE Connect
    BY <1>1, ConnectInv
<1>2. CASE DisconnectClient
    BY <1>2, DisconnectInv
<1>3. CASE TimerFires
    BY <1>3, TimerFiresInv
<1>4. CASE SendOps
    BY <1>4, SendOpsInv
<1>5. CASE \E s \in Socket : OnOpen(s) \/ OnSocketClose(s)
    BY <1>5, OnOpenInv, OnCloseInv
<1>6. CASE UNCHANGED connectionVars
    BY <1>6 DEF connectionVars, Inv, TypeOK, SocketIsAlive, StaysStopped, OneAlive, OneSocket, OpenIsJoined, CanSend, Live
<1> QED BY <1>1, <1>2, <1>3, <1>4, <1>5, <1>6 DEF ClientNext

\* The client keeps its sockets and its timer in step (client.ts:318-372).
THEOREM SocketsAndTimer == ClientSpec => []Inv
<1> QED BY InitInv, StepInv, PTL DEF ClientSpec

--------------------------------------------------------------------------
\* After disconnect() no callback and no timer creates a socket until connect()
\* is called (client.ts:341 and 586): nothing sets the timer of a client that is
\* not wanted, and only the timer and connect() create sockets.
THEOREM NoSocketUnwanted == ClientSpec => NoUnwantedSocket
<1>1. ASSUME Inv, [ClientNext]_connectionVars, ~wanted, ~wanted' PROVE Created' = Created
    <2> USE <1>1 DEF Inv
    <2>1. CASE Connect
        BY <2>1 DEF Connect
    <2>2. CASE DisconnectClient
        BY <2>2, SocketAssumption DEF DisconnectClient, TypeOK, SocketIsAlive, Created
    <2>3. CASE TimerFires
        BY <2>3 DEF TimerFires, StaysStopped
    <2>4. CASE SendOps
        BY <2>4 DEF SendOps, Created
    <2>5. ASSUME NEW s \in Socket, OnOpen(s) \/ OnSocketClose(s) PROVE Created' = Created
        BY <2>5 DEF OnOpen, OnSocketClose, TypeOK, Created, Live
    <2>6. CASE UNCHANGED connectionVars
        BY <2>6 DEF connectionVars, Created
    <2> QED BY <2>1, <2>2, <2>3, <2>4, <2>5, <2>6 DEF ClientNext
<1>2. Inv /\ [ClientNext]_connectionVars => [~wanted /\ ~wanted' => Created' = Created]_connectionVars
    BY <1>1
<1> QED BY <1>2, SocketsAndTimer, PTL DEF ClientSpec, NoUnwantedSocket

--------------------------------------------------------------------------
\* What was sent on a socket, and what was kept of the queue, stays.
JoinAndAll == JoinFirst /\ NothingVanishes

LEMMA InitJoin == ClientInit => JoinAndAll
BY DEF ClientInit, JoinAndAll, JoinFirst, NothingVanishes

\* A step that sends nothing, numbers nothing and leaves the queue alone.
LEMMA QuietStep ==
    ASSUME JoinAndAll, UNCHANGED <<sent, made, queued, given_up>>
    PROVE  JoinAndAll'
BY DEF JoinAndAll, JoinFirst, NothingVanishes, Frames

\* Frames appended to what was sent on a socket that is open and joined, or on
\* one that gets its Join with them.
LEMMA SendingStep ==
    ASSUME Inv, JoinAndAll, socket \in Socket, NEW frames \in Seq(Nat), frames # <<>>,
           sent[socket] = <<>> => frames[1] = Join,
           sent' = [sent EXCEPT ![socket] = @ \o frames],
           Frames(queued) \subseteq Frames(frames) \cup Frames(queued'),
           made' \in Nat,
           \A n \in 1..made' : n \in 1..made \/ Ops(n) \in Frames(frames),
           UNCHANGED given_up
    PROVE  JoinAndAll'
<1> USE DEF Inv, JoinAndAll
<1>1. sent[socket] \in Seq(Nat) /\ sent'[socket] = sent[socket] \o frames
      /\ \A s \in Socket \ {socket} : sent'[s] = sent[s]
    BY DEF TypeOK
<1>2. Frames(sent'[socket]) = Frames(sent[socket]) \cup Frames(frames)
    BY <1>1, FramesOfBoth
<1>3. JoinFirst'
    <2> SUFFICES ASSUME NEW s \in Socket, sent'[s] # <<>> PROVE Head(sent'[s]) = Join
        BY DEF JoinFirst
    <2>1. CASE s # socket
        BY <2>1, <1>1 DEF JoinFirst
    <2>2. CASE s = socket /\ sent[s] = <<>>
        <3>1. (sent[s] \o frames)[1] = frames[1]
            BY <2>2, <1>1
        <3> QED BY <3>1, <2>2, <1>1
    <2>3. CASE s = socket /\ sent[s] # <<>>
        <3>1. Head(sent[s]) = Join /\ (sent[s] \o frames)[1] = sent[s][1]
            BY <2>3, <1>1 DEF JoinFirst
        <3> QED BY <3>1, <2>3, <1>1
    <2> QED BY <2>1, <2>2, <2>3
<1> DEFINE before == UNION {Frames(sent[s]) : s \in Socket}
           after  == UNION {Frames(sent'[s]) : s \in Socket}
<1>4. before \cup Frames(frames) \subseteq after
    BY <1>1, <1>2, ZenonT(30)
<1>5. ASSUME NEW n \in 1..made' PROVE Ops(n) \in given_up' \cup Frames(queued') \cup after
    <2>1. n \in 1..made => Ops(n) \in given_up \cup Frames(queued) \cup before
        BY DEF NothingVanishes
    <2> HIDE DEF before, after
    <2> QED BY <2>1, <1>4
<1>6. NothingVanishes'
    BY <1>5 DEF NothingVanishes, Frames
<1> QED BY <1>3, <1>6

\* Frames that join the queue.
LEMMA QueueingStep ==
    ASSUME Inv, JoinAndAll, NEW frames \in Seq(Nat),
           queued' = Kept(queued \o frames), given_up' = given_up \cup Dropped(queued \o frames),
           made' \in Nat,
           \A n \in 1..made' : n \in 1..made \/ Ops(n) \in Frames(frames),
           UNCHANGED sent
    PROVE  JoinAndAll'
<1> USE DEF Inv, JoinAndAll
<1>1. queued \in Seq(Nat) /\ queued \o frames \in Seq(Nat)
    BY DEF TypeOK
<1>2. Frames(queued) \cup Frames(frames) \subseteq Dropped(queued \o frames) \cup Frames(queued')
    <2>1. Frames(queued \o frames) = Frames(queued) \cup Frames(frames)
        BY <1>1, FramesOfBoth
    <2>2. Frames(queued \o frames) \subseteq Dropped(queued \o frames) \cup Frames(Kept(queued \o frames))
        BY <1>1, EnqueueKeepsAll
    <2>3. Frames(queued') = Frames(Kept(queued \o frames))
        BY DEF Frames
    <2> QED BY <2>1, <2>2, <2>3
<1> DEFINE all == UNION {Frames(sent[s]) : s \in Socket}
<1>3. ASSUME NEW n \in 1..made' PROVE Ops(n) \in given_up' \cup Frames(queued') \cup all
    <2>1. n \in 1..made => Ops(n) \in given_up \cup Frames(queued) \cup all
        BY DEF NothingVanishes
    <2> HIDE DEF all
    <2> QED BY <2>1, <1>2
<1>4. NothingVanishes'
    BY <1>3 DEF NothingVanishes, Frames
<1> QED BY <1>4 DEF JoinFirst

\* What onopen sends, frame after frame, is one sequence appended.
LEMMA ThreeInARow ==
    ASSUME NEW a \in Seq(Nat), NEW b \in Seq(Nat), NEW c \in Seq(Nat)
    PROVE  (a \o b) \o c = a \o (b \o c)
<1> DEFINE left == (a \o b) \o c
           right == a \o (b \o c)
<1>1. left \in Seq(Nat) /\ right \in Seq(Nat) /\ Len(left) = Len(right)
    OBVIOUS
<1>2. ASSUME NEW i \in 1..Len(left) PROVE left[i] = right[i]
    <2>1. CASE i <= Len(a)
        BY <2>1
    <2>2. CASE i > Len(a) /\ i <= Len(a) + Len(b)
        BY <2>2
    <2>3. CASE i > Len(a) + Len(b)
        BY <2>3
    <2> QED BY <2>1, <2>2, <2>3, SMTT(30)
<1> HIDE DEF left, right
<1>3. left = right
    BY <1>1, <1>2, SeqEqual
<1> QED BY <1>3 DEF left, right

LEMMA StepJoin == ASSUME Inv, JoinAndAll, [ClientNext]_connectionVars PROVE JoinAndAll'
<1>1. made \in Nat /\ queued \in Seq(Nat)
    BY DEF Inv, TypeOK
<1>2. <<Join, Resync>> \in Seq(Nat) /\ <<Join, Resync>>[1] = Join
    BY DEF Join, Resync
<1>3. CASE Connect
    BY <1>3, QuietStep DEF Connect
<1>4. CASE TimerFires
    BY <1>4, QuietStep DEF TimerFires
<1>5. CASE UNCHANGED connectionVars
    BY <1>5, QuietStep DEF connectionVars
<1>6. ASSUME NEW s \in Socket, OnSocketClose(s) PROVE JoinAndAll'
    BY <1>6, QuietStep DEF OnSocketClose
<1>7. CASE DisconnectClient
    \* The queue is given up, frame by frame.
    <2>1. given_up' = given_up \cup Frames(queued) /\ queued' = <<>> /\ UNCHANGED <<sent, made>>
        BY <1>7 DEF DisconnectClient, Frames
    <2> QED BY <2>1 DEF JoinAndAll, JoinFirst, NothingVanishes, Frames
<1>8. ASSUME NEW s \in Socket, OnOpen(s) PROVE JoinAndAll'
    <2>1. UNCHANGED made
        BY <1>8 DEF OnOpen
    <2>2. CASE socket # NoSocket /\ ready'[socket] = "open"
        <3> DEFINE frames == <<Join, Resync>> \o queued
        <3>1. frames \in Seq(Nat) /\ frames # <<>> /\ frames[1] = Join
            BY <1>1, <1>2
        <3>2. Frames(queued) \subseteq Frames(frames)
            BY <1>1, <1>2, FramesOfBoth
        <3>3. socket \in Socket /\ sent[socket] \in Seq(Nat)
            BY <2>2 DEF Inv, TypeOK
        <3>4. sent' = [sent EXCEPT ![socket] = (@ \o <<Join, Resync>>) \o queued] /\ UNCHANGED given_up
            BY <1>8, <2>2 DEF OnOpen
        <3>5. (sent[socket] \o <<Join, Resync>>) \o queued = sent[socket] \o frames
            BY <1>1, <1>2, <3>3, ThreeInARow
        <3>6. sent' = [sent EXCEPT ![socket] = @ \o frames]
            BY <3>4, <3>5
        <3> HIDE DEF frames
        <3> QED BY <1>1, <2>1, <3>1, <3>2, <3>3, <3>4, <3>6, SendingStep
    <2>3. CASE ~(socket # NoSocket /\ ready'[socket] = "open")
        <3>1. queued' = Kept(queued \o <<Join, Resync>>) /\ UNCHANGED sent
              /\ given_up' = given_up \cup Dropped(queued \o <<Join, Resync>>)
            BY <1>8, <2>3 DEF OnOpen
        <3> QED BY <1>1, <1>2, <2>1, <3>1, QueueingStep
    <2> QED BY <2>2, <2>3
<1>9. CASE SendOps
    <2> DEFINE frames == <<Ops(made + 1)>>
    <2>1. made' = made + 1 /\ frames \in Seq(Nat) /\ frames # <<>>
        BY <1>1, <1>9 DEF SendOps, Ops
    <2>2. \A n \in 1..made' : n \in 1..made \/ Ops(n) \in Frames(frames)
        BY <1>1, <2>1 DEF Frames
    <2>3. CASE CanSend
        <3>1. socket \in Socket /\ sent[socket] \in Seq(Nat) /\ sent[socket] # <<>>
            BY <2>3 DEF Inv, TypeOK, OpenIsJoined, CanSend
        <3>2. Append(sent[socket], Ops(made + 1)) = sent[socket] \o frames
            BY <1>1, <2>1, <3>1, AppendIsConcat DEF Ops
        <3>3. sent' = [sent EXCEPT ![socket] = @ \o frames] /\ UNCHANGED <<queued, given_up>>
            BY <1>9, <2>3, <3>2 DEF SendOps
        <3>4. Frames(queued') = Frames(queued)
            BY <3>3
        <3> HIDE DEF frames
        <3>5. made' \in Nat /\ UNCHANGED given_up
            BY <1>1, <2>1, <3>3
        <3> QED BY <2>1, <2>2, <3>1, <3>3, <3>4, <3>5, SendingStep
    <2>4. CASE ~CanSend
        <3>1. Append(queued, Ops(made + 1)) = queued \o frames
            BY <1>1, <2>1
        <3>2. queued' = Kept(queued \o frames) /\ given_up' = given_up \cup Dropped(queued \o frames) /\ UNCHANGED sent
            BY <1>9, <2>4, <3>1 DEF SendOps
        <3> HIDE DEF frames
        <3> QED BY <1>1, <2>1, <2>2, <3>2, QueueingStep
    <2> QED BY <2>3, <2>4
<1> QED BY <1>3, <1>4, <1>5, <1>6, <1>7, <1>8, <1>9 DEF ClientNext

\* Unless calls of connect() overlap, this.socket is the only socket in use; the
\* first frame of every socket is a Join; and each frame of sendOps is sent, is
\* queued, or was dropped by the rules of the queue (client.ts:341-470).
THEOREM OneSessionAtATime == ClientSpec => []OneSession
<1>1. Inv /\ JoinAndAll /\ [ClientNext]_connectionVars => JoinAndAll'
    BY StepJoin
<1>2. Inv /\ JoinAndAll => OneSession
    BY DEF Inv, OneAlive, OneSession, JoinAndAll, OneSocket
<1> QED BY <1>1, <1>2, InitJoin, SocketsAndTimer, PTL DEF ClientSpec
=============================================================================
