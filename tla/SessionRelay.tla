---------------------------- MODULE SessionRelay ----------------------------
(***************************************************************************)
(* The two-seat relay of server/src/session_relay.rs.  Every WebSocket     *)
(* that opens /session/{id} runs one task (session_ws).  The tasks share   *)
(* the map `relays`, from session id to the two mpsc senders of the room,  *)
(* under one mutex that is never held across an await; everything between  *)
(* two acquisitions of that mutex interleaves freely.                      *)
(*                                                                         *)
(* A connection c stands for its task and for its mpsc channel: relays     *)
(* holds c where the code holds a sender of c's channel, and rx[c] is the  *)
(* queue behind that sender.                                               *)
(***************************************************************************)
EXTENDS Naturals, Sequences

CONSTANTS
    Conns,       \* WebSocket connections; each one joins at most once
    Sessions,    \* session ids that clients name in the URL
    MaxFrames,   \* bound: frames a client sends over one connection
    None       \* the Option::None of a seat

ASSUME NoneAssumption == None \notin Conns \cup Sessions \cup {"peer_a", "peer_b"}
ASSUME MaxFramesAssumption == MaxFrames \in Nat

VARIABLES
    pc,       \* control point of each task
    session,  \* the id each connection joined
    seat,     \* my_id of each connection
    relays,   \* the shared map: session id -> entry
    target,   \* sender cloned by a task that has not used it yet
    rx,       \* queue of each connection's channel
    alive,    \* does the client still answer? (else dead network or hung client)
    sent,     \* frames read so far from each client (bounded, and their numbers)
    written,  \* history: frames written to each client's socket
    met,      \* history: who sat opposite each connection at some time
    evicted   \* history: who lost its seat to the exit of another task

vars == <<pc, session, seat, relays, target, rx, alive, sent, written, met, evicted>>

-----------------------------------------------------------------------------
Seats == {"peer_a", "peer_b"}
Other(x) == IF x = "peer_a" THEN "peer_b" ELSE "peer_a"
Entry == [Seats -> Conns \cup {None}]
Vacant == [x \in Seats |-> None]

EntryOf(s) == IF s \in DOMAIN relays THEN relays[s] ELSE Vacant

Points == {"new", "loop", "forward", "writing", "leaving", "gone", "rejected"}
Joined(c) == pc[c] \in {"loop", "forward", "writing", "leaving"}
Seated(c) == Joined(c) /\ EntryOf(session[c])[seat[c]] = c

\* Bug: control frames are forwarded too.
FramePing(c, n) == [kind |-> "ping", from |-> c, n |-> n]

Frame(c, n) == [kind |-> "data", from |-> c, n |-> n]
Close(c) == [kind |-> "close", from |-> c, n |-> 0]
Messages == [kind : {"data", "close"}, from : Conns, n : Nat]

\* The receiver of a channel lives until its task returns.
Deliver(q, c, m) == IF pc[c] = "gone" THEN q ELSE [q EXCEPT ![c] = Append(@, m)]

\* Some sender of c's channel still exists: in the map or as another task's clone.
HasSender(c) ==
    \/ \E s \in DOMAIN relays, x \in Seats : relays[s][x] = c
    \/ \E d \in Conns : target[d] = c

Init ==
    /\ pc = [c \in Conns |-> "new"]
    /\ session = [c \in Conns |-> None]
    /\ seat = [c \in Conns |-> None]
    /\ relays = [s \in {} |-> Vacant]
    /\ target = [c \in Conns |-> None]
    /\ rx = [c \in Conns |-> <<>>]
    /\ alive = [c \in Conns |-> TRUE]
    /\ sent = [c \in Conns |-> 0]
    /\ written = [c \in Conns |-> <<>>]
    /\ met = [c \in Conns |-> {}]
    /\ evicted = {}

-----------------------------------------------------------------------------
(* Joining: the whole block is one critical section.                       *)

\* Bug: the last else-if is an else.
FreeSeatUnchecked(e, x) == (e["peer_a"] = None) = (x = "peer_a")

\* The seat that the if / else-if chain hands out: the first empty one.
FreeSeat(e, x) == e[x] = None /\ (x = "peer_b" => e["peer_a"] # None)

Meet(c, o) ==
    IF o = None THEN met
    ELSE [met EXCEPT ![c] = @ \cup {o}, ![o] = @ \cup {c}]

WithEntry(s, e) ==
    [t \in DOMAIN relays \cup {s} |-> IF t = s THEN e ELSE relays[t]]

\* Bug: the entry of an empty room stays in the map.
WithoutEntryKept(s) == WithEntry(s, Vacant)

WithoutEntry(s) == [t \in DOMAIN relays \ {s} |-> relays[t]]

Join(c, s) ==
    /\ pc[c] = "new"
    /\ \E x \in Seats :
          /\ FreeSeat(EntryOf(s), x)
          /\ relays' = WithEntry(s, [EntryOf(s) EXCEPT ![x] = c])
          /\ seat' = [seat EXCEPT ![c] = x]
          /\ met' = Meet(c, EntryOf(s)[Other(x)])
    /\ session' = [session EXCEPT ![c] = s]
    /\ pc' = [pc EXCEPT ![c] = "loop"]
    /\ UNCHANGED <<target, rx, alive, sent, written, evicted>>

RoomFull(c, s) ==
    /\ pc[c] = "new"
    /\ \A x \in Seats : EntryOf(s)[x] # None
    /\ pc' = [pc EXCEPT ![c] = "rejected"]
    /\ UNCHANGED <<session, seat, relays, target, rx, alive, sent, written, met, evicted>>

-----------------------------------------------------------------------------
(* The select! loop.                                                       *)

\* Bug: the seats are swapped in the lookup.
OppositeSwapped(c) == EntryOf(session[c])[seat[c]]

\* Binary or Text from the client: look up the other seat, under the lock,
\* and clone its sender; with nobody there the frame is dropped.
Opposite(c) == EntryOf(session[c])[Other(seat[c])]

ReadFrame(c) ==
    /\ pc[c] = "loop"
    /\ alive[c]
    /\ sent[c] < MaxFrames
    /\ sent' = [sent EXCEPT ![c] = @ + 1]
    /\ target' = [target EXCEPT ![c] = Opposite(c)]
    /\ pc' = [pc EXCEPT ![c] = IF Opposite(c) = None THEN "loop" ELSE "forward"]
    /\ UNCHANGED <<session, seat, relays, rx, alive, written, met, evicted>>

\* tx.send(msg), with the lock already released.
Forward(c) ==
    /\ pc[c] = "forward"
    /\ rx' = Deliver(rx, target[c], Frame(c, sent[c]))
    /\ target' = [target EXCEPT ![c] = None]
    /\ pc' = [pc EXCEPT ![c] = "loop"]
    /\ UNCHANGED <<session, seat, relays, alive, sent, written, met, evicted>>

\* rx.recv() yields a message: ws.send starts.  While that await lasts the
\* task polls nothing else.  The head of rx stands for the message in flight.
Recv(c) ==
    /\ pc[c] = "loop"
    /\ rx[c] # <<>>
    /\ pc' = [pc EXCEPT ![c] = "writing"]
    /\ UNCHANGED <<session, seat, relays, target, rx, alive, sent, written, met, evicted>>

\* ws.send returns: a frame was taken by the socket, or a Close was (sent or
\* not, the result is ignored) and the loop ends.
WriteDone(c) ==
    /\ pc[c] = "writing"
    /\ LET m == Head(rx[c])
       IN  IF m.kind = "data"
           THEN /\ written' = [written EXCEPT ![c] = Append(@, m)]
                /\ pc' = [pc EXCEPT ![c] = "loop"]
           ELSE /\ pc' = [pc EXCEPT ![c] = "leaving"]
                /\ UNCHANGED written
    /\ rx' = [rx EXCEPT ![c] = Tail(@)]
    /\ UNCHANGED <<session, seat, relays, target, alive, sent, met, evicted>>

\* Bug: a failed ws.send does not end the loop.
WriteFailsIgnored(c) ==
    /\ pc[c] = "writing"
    /\ ~alive[c]
    /\ rx' = [rx EXCEPT ![c] = Tail(@)]
    /\ pc' = [pc EXCEPT ![c] = "loop"]
    /\ UNCHANGED <<session, seat, relays, target, alive, sent, written, met, evicted>>

\* ws.send reports an error on a dead connection: the frame is lost.
WriteFails(c) ==
    /\ pc[c] = "writing"
    /\ ~alive[c]
    /\ rx' = [rx EXCEPT ![c] = Tail(@)]
    /\ pc' = [pc EXCEPT ![c] = "leaving"]
    /\ UNCHANGED <<session, seat, relays, target, alive, sent, written, met, evicted>>

\* rx.recv() yields None: the queue is empty and every sender is dropped.
RecvNone(c) ==
    /\ pc[c] = "loop"
    /\ rx[c] = <<>>
    /\ ~HasSender(c)
    /\ pc' = [pc EXCEPT ![c] = "leaving"]
    /\ UNCHANGED <<session, seat, relays, target, rx, alive, sent, written, met, evicted>>

\* ws.next() yields Close, None or an error.
ReadEnds(c) ==
    /\ pc[c] = "loop"
    /\ pc' = [pc EXCEPT ![c] = "leaving"]
    /\ UNCHANGED <<session, seat, relays, target, rx, alive, sent, written, met, evicted>>

\* Bug: the idle timer is armed by the first frame only.
IdleTimeoutAfterFrame(c) ==
    /\ pc[c] = "loop"
    /\ ~alive[c] /\ sent[c] > 0
    /\ pc' = [pc EXCEPT ![c] = "leaving"]
    /\ UNCHANGED <<session, seat, relays, target, rx, alive, sent, written, met, evicted>>

\* The idle timer fires or a ping fails.  PING_INTERVAL leaves a client that
\* answers two pings before IDLE_TIMEOUT, so only a silent one gets here.
IdleTimeout(c) ==
    /\ pc[c] = "loop"
    /\ ~alive[c]
    /\ pc' = [pc EXCEPT ![c] = "leaving"]
    /\ UNCHANGED <<session, seat, relays, target, rx, alive, sent, written, met, evicted>>

-----------------------------------------------------------------------------
(* Leaving: one critical section, then the task returns and rx is dropped. *)

\* Bug: a leaving task forgets its own seat.
ClearedOtherOnly(e, x) == [e EXCEPT ![Other(x)] = None]

\* The entry after take() of the other seat and `= None` on one's own.
Cleared(e, x) == [e EXCEPT ![Other(x)] = None, ![x] = None]

\* Bug: leave as audio_relay.rs does, without a word to the other side.
LeaveQuietly(c) ==
    /\ pc[c] = "leaving"
    /\ LET s == session[c]
           e == [EntryOf(s) EXCEPT ![seat[c]] = None]
       IN  relays' = IF e = Vacant THEN WithoutEntry(s) ELSE WithEntry(s, e)
    /\ rx' = [rx EXCEPT ![c] = <<>>]
    /\ pc' = [pc EXCEPT ![c] = "gone"]
    /\ UNCHANGED <<session, seat, target, alive, sent, written, met, evicted>>

\* Whoever holds a seat of s.
SittersOf(s) == {d \in Conns : \E x \in Seats : EntryOf(s)[x] = d}

Leave(c) ==
    /\ pc[c] = "leaving"
    /\ LET s == session[c]
           x == seat[c]
           o == EntryOf(s)[Other(x)]
           e == Cleared(EntryOf(s), x)
           q == IF o = None THEN rx ELSE Deliver(rx, o, Close(c))
       IN  /\ relays' = IF e = Vacant THEN WithoutEntry(s) ELSE WithEntry(s, e)
           /\ rx' = [q EXCEPT ![c] = <<>>]
    /\ evicted' = evicted \cup (SittersOf(session[c]) \ {c})
    /\ pc' = [pc EXCEPT ![c] = "gone"]
    /\ UNCHANGED <<session, seat, target, alive, sent, written, met>>

-----------------------------------------------------------------------------
\* The client stops answering without a Close: its network died or it hangs.
FallSilent(c) ==
    /\ Joined(c)
    /\ alive[c]
    /\ alive' = [alive EXCEPT ![c] = FALSE]
    /\ UNCHANGED <<pc, session, seat, relays, target, rx, sent, written, met, evicted>>

\* Every connection of the instance has been used: the server only waits.
Finished ==
    /\ \A c \in Conns : pc[c] \in {"gone", "rejected"}
    /\ UNCHANGED vars

Next ==
    \/ \E c \in Conns, s \in Sessions : Join(c, s) \/ RoomFull(c, s)
    \/ \E c \in Conns :
          \/ ReadFrame(c) \/ Forward(c)
          \/ Recv(c) \/ WriteDone(c) \/ WriteFails(c) \/ RecvNone(c)
          \/ ReadEnds(c) \/ IdleTimeout(c) \/ Leave(c)
          \/ FallSilent(c)
    \/ Finished

Spec == Init /\ [][Next]_vars

(***************************************************************************)
(* What the runtime grants: a task that can run does; select! picks among  *)
(* its ready branches at random, so a branch that is ready again and again *)
(* is taken (SF); the idle timer, pinned outside the loop and reset only   *)
(* by what the client sends, becomes ready on a silent client.  A client   *)
(* that answers drains its socket.  Clients owe nothing else: no fairness  *)
(* on Join, ReadFrame, ReadEnds, FallSilent.                               *)
(***************************************************************************)
Fairness ==
    \A c \in Conns :
        /\ WF_vars(Forward(c))
        /\ SF_vars(Recv(c) \/ RecvNone(c))
        /\ WF_vars(alive[c] /\ WriteDone(c))
        /\ SF_vars(IdleTimeout(c))
        /\ WF_vars(Leave(c))

\* A write to a silent client returns in the end, since TCP gives up on a dead
\* network.  A client that hangs while its TCP stack lives does not grant it.
WritesReturn == \A c \in Conns : WF_vars(WriteDone(c) \/ WriteFails(c))

RuntimeSpec == Spec /\ Fairness
FairSpec == Spec /\ Fairness /\ WritesReturn

-----------------------------------------------------------------------------
(* Properties.                                                             *)

TypeOK ==
    /\ pc \in [Conns -> Points]
    /\ session \in [Conns -> Sessions \cup {None}]
    /\ seat \in [Conns -> Seats \cup {None}]
    /\ DOMAIN relays \subseteq Sessions
    /\ relays \in [DOMAIN relays -> Entry]
    /\ target \in [Conns -> Conns \cup {None}]
    /\ rx \in [Conns -> Seq(Messages)]
    /\ alive \in [Conns -> BOOLEAN]
    /\ sent \in [Conns -> 0..MaxFrames]
    /\ written \in [Conns -> Seq(Messages)]
    /\ met \in [Conns -> SUBSET Conns]
    /\ evicted \subseteq Conns

\* A seat of the shared map is always held by a task that still runs, in the
\* session and seat that task believes it has: session_ws never returns with
\* its sender left behind, however its exit interleaves with other exits.
SeatsAreLive ==
    \A s \in DOMAIN relays, x \in Seats :
        LET c == relays[s][x]
        IN  c # None => Joined(c) /\ session[c] = s /\ seat[c] = x

\* No entry outlives its room: an id whose two seats are empty is out of the map.
NoEmptyEntry == \A s \in DOMAIN relays : relays[s] # Vacant

\* Whatever reaches a connection, frame or Close, comes from the same session
\* and from the other seat: nothing crosses rooms and nobody hears an echo.
AcrossTheRoom(c, d) == session[d] = session[c] /\ seat[d] = Other(seat[c])

Isolation ==
    \A c \in Conns :
        /\ \A i \in DOMAIN rx[c] : AcrossTheRoom(c, rx[c][i].from)
        /\ \A i \in DOMAIN written[c] : AcrossTheRoom(c, written[c][i].from)

\* The frames of one sender reach a client's socket in the order they were
\* sent and without a gap: frames are lost only before the receiver joined
\* or after it stopped receiving, although lookup and send are two steps.
FrameOf(m, d) == m.kind = "data" /\ m.from = d

\* Of two frames of d in q with none of d between them, the later is the next.
GapFree(q, d) ==
    \A i, j \in DOMAIN q :
        /\ i < j /\ FrameOf(q[i], d) /\ FrameOf(q[j], d)
        /\ \A k \in DOMAIN q : i < k /\ k < j => ~FrameOf(q[k], d)
        => q[j].n = q[i].n + 1

NoGaps == \A c, d \in Conns : GapFree(written[c], d)

\* A seat changes hands only through None: session_ws never overwrites the
\* sender of a connection that is still seated.
SeatNotStolen ==
    [][\A s \in Sessions, x \in Seats :
          EntryOf(s)[x] # None => EntryOf(s)'[x] \in {EntryOf(s)[x], None}]_vars

\* Everything a connection receives, frame or Close, comes from somebody who
\* has sat opposite it, or from a task that another's exit had evicted by the
\* time the message was queued: a task that still holds its seat is heard by
\* its peer only, in its frames and in its farewell.
OnlyPeersOrEvictedTalk ==
    \A c \in Conns :
        LET Known(d) == d \in met[c] \cup evicted
        IN  /\ \A i \in DOMAIN rx[c] : Known(rx[c][i].from)
            /\ \A i \in DOMAIN written[c] : Known(written[c][i].from)

\* "El otro peer termino la operacion: propagamos el cierre y salimos"
\* (session_relay.rs:104): a Close in a connection's queue was put there by a
\* connection that has been its peer.
CloseOnlyFromPeer ==
    \A c \in Conns : \A i \in DOMAIN rx[c] :
        rx[c][i].kind = "close" => rx[c][i].from \in met[c]

\* "para que la operacion termine en ambos equipos, no solo en el que se
\* desconecto" (session_relay.rs:129-130): once one of two connections that
\* sat opposite each other is gone, the other one goes too.
SessionEndsForBoth ==
    \A c, d \in Conns : (d \in met[c] /\ pc[c] = "gone") ~> pc[d] = "gone"

\* IDLE_TIMEOUT, "Cuanto tiempo sin recibir NADA del cliente ... antes de
\* considerar la conexion muerta y cerrar la sesion para ambos lados"
\* (session_relay.rs:11-12): the task of a client that fell silent ends.
DeadClientIsDropped ==
    \A c \in Conns : (Joined(c) /\ ~alive[c]) ~> pc[c] = "gone"
=============================================================================
