----------------------------- MODULE SyncServer -----------------------------
(***************************************************************************)
(* The WebSocket adapter around the hub (collab/src/bin/sync_server.rs):   *)
(* one task per connection reads frames, lets the hub handle them under    *)
(* its lock, releases the lock, and then dispatches what the hub returned  *)
(* under the lock of the peers. Between the two any other task may run.    *)
(*                                                                         *)
(* inbox and outbox are the two directions of a socket with the unbounded  *)
(* channel of its writer task. A broken socket delivers what it already    *)
(* holds up to any point; an orderly closed one delivers all of it.        *)
(***************************************************************************)
EXTENDS SyncHub, Sequences

VARIABLES task,    \* connection -> where its serve_conn stands
          peers,   \* the connections whose sender is registered
          wire,    \* connection -> its socket
          inbox,   \* connection -> frames the client sent, not read yet
          outbox   \* connection -> frames dispatched, not received yet

serverVars == <<task, peers, wire, inbox, outbox>>

Task == {"none", "reading", "dispatching", "leaving", "closing", "done"}
Wire == {"none", "open", "closed", "broken"}

ServerInit == /\ task = [c \in Conn |-> "none"]
              /\ peers = {}
              /\ wire = [c \in Conn |-> "none"]
              /\ inbox = [c \in Conn |-> <<>>]
              /\ outbox = [c \in Conn |-> <<>>]

-----------------------------------------------------------------------------
\* Accept and handshake: the sender is registered before a frame is read, and
\* the client sends its first frames as soon as the socket opens.
Accept(c, frames) ==
  /\ task' = [task EXCEPT ![c] = "reading"]
  /\ peers' = peers \cup {c}
  /\ wire' = [wire EXCEPT ![c] = "open"]
  /\ inbox' = [inbox EXCEPT ![c] = frames]
  /\ UNCHANGED outbox

\* on_text: handle under the hub lock. A dispatch of nothing returns at once.
ReadFrame(c) ==
  /\ task[c] = "reading"
  /\ inbox[c] # <<>>
  /\ Handle(c, Head(inbox[c]))
  /\ inbox' = [inbox EXCEPT ![c] = Tail(@)]
  /\ task' = [task EXCEPT ![c] = IF outbound'[c] = {} THEN "reading" ELSE "dispatching"]
  /\ UNCHANGED <<peers, wire, outbox>>

\* A mutation of Routed: a connection whose own task is dispatching is skipped.
RoutedTryLock(c, d) == {o.message : o \in {x \in outbound[c] : /\ x.to = d
                                                               /\ d \in peers
                                                               /\ d # c => task[d] = "reading"
                                                               /\ wire[d] = "open"}}

\* What the return value of handle puts on the socket of d: nothing when its
\* sender is gone, and nothing that arrives when its client is.
Routed(c, d) == {o.message : o \in {x \in outbound[c] : /\ x.to = d
                                                        /\ d \in peers
                                                        /\ wire[d] = "open"}}

Dispatch(c) ==
  /\ task[c] \in {"dispatching", "leaving"}
  /\ outbox' = [d \in Conn |-> IF Routed(c, d) = {} THEN outbox[d]
                               ELSE Append(outbox[d], CHOOSE msg \in Routed(c, d) : TRUE)]
  /\ outbound' = [outbound EXCEPT ![c] = {}]
  /\ task' = [task EXCEPT ![c] = IF @ = "dispatching" THEN "reading" ELSE "closing"]
  /\ UNCHANGED <<rooms, conn_room, peers, wire, inbox>>

\* The read loop ends: at the close frame, or at a read error wherever the
\* broken socket stopped delivering. The hub is told before the room is.
EndOfStream(c) ==
  /\ task[c] = "reading"
  /\ wire[c] = "broken" \/ (wire[c] = "closed" /\ inbox[c] = <<>>)
  /\ OnLeave(c)
  /\ task' = [task EXCEPT ![c] = "leaving"]
  /\ inbox' = [inbox EXCEPT ![c] = <<>>]
  /\ UNCHANGED <<peers, wire, outbox>>

RemovePeer(c) ==
  /\ task[c] = "closing"
  /\ peers' = peers \ {c}
  /\ task' = [task EXCEPT ![c] = "done"]
  /\ UNCHANGED <<hubVars, wire, inbox, outbox>>

ServerStep(c) == ReadFrame(c) \/ Dispatch(c) \/ EndOfStream(c) \/ RemovePeer(c)
=============================================================================
