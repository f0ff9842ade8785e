----------------------------- MODULE AudioRelay -----------------------------
(***************************************************************************)
(* The relay behind /audio/{id}, server/src/audio_relay.rs.  The seats are *)
(* those of session_relay.rs, with three differences: a task that leaves   *)
(* clears its own seat only and tells nobody, there is no idle timer, and  *)
(* an exhausted channel (recv yields None) does not end the loop.          *)
(*                                                                         *)
(* As in SessionRelay, a connection stands for its task and for its        *)
(* channel, and each acquisition of the map's mutex is one step.           *)
(***************************************************************************)
EXTENDS Naturals, Sequences, FiniteSets

CONSTANTS
    Conns,     \* WebSocket connections; each one joins at most once
    Sessions,  \* session ids
    MaxFrames, \* bound: audio frames a client sends over one connection
    None       \* the Option::None of a seat

ASSUME NoneAssumption == None \notin Conns \cup Sessions \cup {"peer_a", "peer_b"}
ASSUME MaxFramesAssumption == MaxFrames \in Nat

VARIABLES
    pc,       \* control point of each task
    session,  \* the id each connection joined
    seat,     \* my_id of each connection
    sessions, \* the shared map: session id -> entry
    target,   \* sender cloned by a task that has not used it yet
    rx,       \* queue of each connection's channel
    sent,     \* frames read so far from each client (bounded)
    written   \* frames taken by each client's socket

vars == <<pc, session, seat, sessions, target, rx, sent, written>>

Seats == {"peer_a", "peer_b"}
Other(x) == IF x = "peer_a" THEN "peer_b" ELSE "peer_a"
Entry == [Seats -> Conns \cup {None}]
Vacant == [x \in Seats |-> None]

EntryOf(s) == IF s \in DOMAIN sessions THEN sessions[s] ELSE Vacant

Points == {"new", "loop", "forward", "writing", "leaving", "gone", "rejected"}
Joined(c) == pc[c] \in {"loop", "forward", "writing", "leaving"}

Frame(c, n) == [from |-> c, n |-> n]

Init ==
    /\ pc = [c \in Conns |-> "new"]
    /\ session = [c \in Conns |-> None]
    /\ seat = [c \in Conns |-> None]
    /\ sessions = [s \in {} |-> Vacant]
    /\ target = [c \in Conns |-> None]
    /\ rx = [c \in Conns |-> <<>>]
    /\ sent = [c \in Conns |-> 0]
    /\ written = [c \in Conns |-> <<>>]

-----------------------------------------------------------------------------
FreeSeat(e, x) == e[x] = None /\ (x = "peer_b" => e["peer_a"] # None)

SetEntry(s, e) ==
    LET rest == DOMAIN sessions \ {s}
    IN  sessions' = [t \in rest \cup (IF e = Vacant THEN {} ELSE {s}) |->
                        IF t = s THEN e ELSE sessions[t]]

Join(c, s) ==
    /\ pc[c] = "new"
    /\ \E x \in Seats :
          /\ FreeSeat(EntryOf(s), x)
          /\ SetEntry(s, [EntryOf(s) EXCEPT ![x] = c])
          /\ seat' = [seat EXCEPT ![c] = x]
    /\ session' = [session EXCEPT ![c] = s]
    /\ pc' = [pc EXCEPT ![c] = "loop"]
    /\ UNCHANGED <<target, rx, sent, written>>

RoomFull(c, s) ==
    /\ pc[c] = "new"
    /\ \A x \in Seats : EntryOf(s)[x] # None
    /\ pc' = [pc EXCEPT ![c] = "rejected"]
    /\ UNCHANGED <<session, seat, sessions, target, rx, sent, written>>

\* Bug: the seats are swapped in the lookup.
OppositeSwapped(c) == EntryOf(session[c])[seat[c]]

\* A binary frame: look up the other seat under the lock and clone its sender.
Opposite(c) == EntryOf(session[c])[Other(seat[c])]

ReadFrame(c) ==
    /\ pc[c] = "loop"
    /\ sent[c] < MaxFrames
    /\ sent' = [sent EXCEPT ![c] = @ + 1]
    /\ target' = [target EXCEPT ![c] = Opposite(c)]
    /\ pc' = [pc EXCEPT ![c] = IF Opposite(c) = None THEN "loop" ELSE "forward"]
    /\ UNCHANGED <<session, seat, sessions, rx, written>>

\* Bug: the newest frame overtakes the ones that wait.
DeliverInFront(d, m) ==
    rx' = IF pc[d] = "gone" THEN rx ELSE [rx EXCEPT ![d] = <<m>> \o @]

\* tx.send(data): refused once the receiving task has returned.
Deliver(d, m) ==
    rx' = IF pc[d] = "gone" THEN rx ELSE [rx EXCEPT ![d] = Append(@, m)]

Forward(c) ==
    /\ pc[c] = "forward"
    /\ Deliver(target[c], Frame(c, sent[c]))
    /\ target' = [target EXCEPT ![c] = None]
    /\ pc' = [pc EXCEPT ![c] = "loop"]
    /\ UNCHANGED <<session, seat, sessions, sent, written>>

\* rx.recv() yields a frame; it stays at the head of rx while ws.send runs.
Recv(c) ==
    /\ pc[c] = "loop"
    /\ rx[c] # <<>>
    /\ pc' = [pc EXCEPT ![c] = "writing"]
    /\ UNCHANGED <<session, seat, sessions, target, rx, sent, written>>

WriteDone(c) ==
    /\ pc[c] = "writing"
    /\ written' = [written EXCEPT ![c] = Append(@, Head(rx[c]))]
    /\ rx' = [rx EXCEPT ![c] = Tail(@)]
    /\ pc' = [pc EXCEPT ![c] = "loop"]
    /\ UNCHANGED <<session, seat, sessions, target, sent>>

WriteFails(c) ==
    /\ pc[c] = "writing"
    /\ rx' = [rx EXCEPT ![c] = Tail(@)]
    /\ pc' = [pc EXCEPT ![c] = "leaving"]
    /\ UNCHANGED <<session, seat, sessions, target, sent, written>>

\* ws.next() yields Close or None.
ReadEnds(c) ==
    /\ pc[c] = "loop"
    /\ pc' = [pc EXCEPT ![c] = "leaving"]
    /\ UNCHANGED <<session, seat, sessions, target, rx, sent, written>>

\* Bug: a leaving task clears the room, as session_relay.rs does.
ClearedBoth(e, x) == Vacant

\* Bug: the seat is taken out of the entry instead of emptied.
ClearedAway(e, x) == [y \in Seats \ {x} |-> e[y]]

\* The entry a leaving task leaves behind.
Cleared(e, x) == [e EXCEPT ![x] = None]

Leave(c) ==
    /\ pc[c] = "leaving"
    /\ SetEntry(session[c], Cleared(EntryOf(session[c]), seat[c]))
    /\ rx' = [rx EXCEPT ![c] = <<>>]
    /\ pc' = [pc EXCEPT ![c] = "gone"]
    /\ UNCHANGED <<session, seat, target, sent, written>>

\* Every connection of the instance has been used: the server only waits.
Finished ==
    /\ \A c \in Conns : pc[c] \in {"gone", "rejected"}
    /\ UNCHANGED vars

Next ==
    \/ \E c \in Conns, s \in Sessions : Join(c, s) \/ RoomFull(c, s)
    \/ \E c \in Conns :
          \/ ReadFrame(c) \/ Forward(c)
          \/ Recv(c) \/ WriteDone(c) \/ WriteFails(c)
          \/ ReadEnds(c) \/ Leave(c)
    \/ Finished

Spec == Init /\ [][Next]_vars

-----------------------------------------------------------------------------
(* Properties.                                                             *)

TypeOK ==
    /\ pc \in [Conns -> Points]
    /\ session \in [Conns -> Sessions \cup {None}]
    /\ seat \in [Conns -> Seats \cup {None}]
    /\ DOMAIN sessions \subseteq Sessions
    /\ sessions \in [DOMAIN sessions -> Entry]
    /\ target \in [Conns -> Conns \cup {None}]
    /\ rx \in [Conns -> Seq([from : Conns, n : Nat])]
    /\ sent \in [Conns -> 0..MaxFrames]
    /\ written \in [Conns -> Seq([from : Conns, n : Nat])]

\* A task that is in its loop still has its sender in the map, in the seat it
\* believes it has: so rx.recv() never yields None, and the `if let` that
\* ignores a None (audio_relay.rs:75) cannot turn the loop into a busy one.
SeatKept == \A c \in Conns : Joined(c) => EntryOf(session[c])[seat[c]] = c

-----------------------------------------------------------------------------
(* The refinement: a frame counts as delivered from the moment its target  *)
(* was looked up, and a task whose socket has ended keeps no frames.       *)

Listening(c) == pc[c] \in {"loop", "forward", "writing"}

Pending(c) ==
    LET speakers == {d \in Conns : target[d] = c}
    IN  IF speakers = {} THEN <<>>
        ELSE LET d == CHOOSE d \in speakers : TRUE IN <<Frame(d, sent[d])>>

StateOf(c) ==
    CASE pc[c] = "new" -> "out"
      [] Listening(c) -> "in"
      [] pc[c] = "leaving" -> "deaf"
      [] OTHER -> "done"

Members(s) == {EntryOf(s)[x] : x \in Seats} \ {None}

InboxOf(c) == IF Listening(c) THEN rx[c] \o Pending(c) ELSE <<>>

Room == INSTANCE TwoSeatRoom WITH
    state <- [c \in Conns |-> StateOf(c)],
    room <- [s \in Sessions |-> Members(s)],
    inbox <- [c \in Conns |-> InboxOf(c)],
    heard <- written,
    said <- sent

\* The two steps lookup and send, with every interleaving of joins and exits
\* between them, look to the clients like one atomic delivery to whoever shared
\* the room at the lookup; only a full room turns a client away, and nobody
\* loses a seat by what another does.
RoomPromise == Room!Spec
=============================================================================
