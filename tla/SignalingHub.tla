---------------------------- MODULE SignalingHub ----------------------------
(***************************************************************************)
(* The signaling server, server/src/signaling.rs.  Every TCP connection    *)
(* runs one task (handle_connection): a select! over the client's          *)
(* messages, the broadcast channel and the connection's own mpsc channel.  *)
(* The tasks share three maps, each behind a tokio RwLock:                 *)
(*   peers          peer id -> OnlinePeer, what the dashboard shows        *)
(*   peer_channels  peer id -> sender of the connection's channel          *)
(*   sessions       session id -> peer id that asked for it                *)
(* One acquisition of a lock is one step; a handler that takes several is  *)
(* several steps, between which the other tasks run.  A guard that stays   *)
(* alive over later steps (peers in ConnectRequest, sessions in            *)
(* ConnectResponse) keeps writers out of that map; SignalingLocks shows    *)
(* that every handler gets its locks.                                      *)
(*                                                                         *)
(* A peer id is a device: it is the hash of the serial the client sends.   *)
(* Whether a Register is admitted is decided with the database and the CA; *)
(* here that is a choice of the environment.                               *)
(***************************************************************************)
EXTENDS Naturals, Sequences

CONSTANTS
    Conns,       \* connections; each one is accepted, used and dropped once
    Devices,     \* peer ids
    Serials,     \* [Conns -> SUBSET Devices]: what each client registers as
    Watchers,    \* bound: connections whose broadcast queue is followed
    Askers,      \* bound: connections that make requests
    MaxRequests, \* bound: ConnectRequests of each of them
    MaxRegisters,\* bound: [Conns -> Nat], Registers of each connection
    Capacity,    \* capacity of the broadcast channel (256 in main.rs)
    None         \* Option::None

ASSUME SerialsAssumption == Serials \in [Conns -> SUBSET Devices]
ASSUME NoneAssumption == None \notin Conns \cup Devices
ASSUME BoundsAssumption ==
    /\ Watchers \subseteq Conns /\ Askers \subseteq Conns
    /\ MaxRequests \in Nat
    /\ MaxRegisters \in [Conns -> Nat]
    /\ Capacity \in Nat \ {0}

VARIABLES
    pc,        \* control point of each task
    current,   \* current_id of each task
    job,       \* device or session id the running handler works on
    peers,     \* device -> connection whose registration is stored
    channels,  \* peer_channels: device -> connection that owns the sender
    sessions,  \* session id -> requester (a partial function)
    rx,        \* queue of each connection's mpsc channel
    brx,       \* lists each connection has not yet read from the broadcast
    view,      \* the last peer list written to each client
    asked,     \* session ids of the requests that reached each client
    requests,  \* ConnectRequests handled on each connection
    registers, \* Registers handled on each connection
    lost,      \* history: answers dropped while their requester was connected
    overlapped,\* history: connections of a device with two tasks at a time
    been       \* history: the devices each connection has been

task == <<pc, current, job>>
maps == <<peers, channels, sessions>>
mail == <<rx, asked>>
lists == <<brx, view>>
counts == <<requests, registers>>
history == <<lost, overlapped, been>>
vars == <<task, maps, mail, lists, counts, history>>

-----------------------------------------------------------------------------
Points == {"loop",
           "insert", "channel", "announce",       \* Register
           "deny", "send", "record",              \* ConnectRequest
           "respond",                             \* ConnectResponse
           "unpeer", "unchannel", "unsession", "farewell", "gone"} \* the end

\* A uuid: one per request, so the requester and a number name it.
SessionIds == [by : Devices, conn : Conns, n : 1..MaxRequests]

ToTarget(t, s) == [kind |-> "request", to |-> t, sid |-> s]
\* Bug: the answer is addressed to a connection, not to a peer id.
ToRequesterConn(s) == [kind |-> "response", to |-> s.conn, sid |-> s]
ToRequester(s) == [kind |-> "response", to |-> s.by, sid |-> s]

Online == {d \in Devices : peers[d] # None}

\* Connections whose handler holds a read guard of peers, of sessions.
PeersReaders == {c \in Conns : pc[c] \in {"deny", "send", "record"}}
SessionsReaders == {c \in Conns : pc[c] = "respond"}

Goto(c, p) == pc' = [pc EXCEPT ![c] = p]

\* The task has registered and has not begun to clean up.
Serving(c) ==
    /\ current[c] # None
    /\ pc[c] \notin {"unpeer", "unchannel", "unsession", "farewell", "gone"}

Init ==
    /\ pc = [c \in Conns |-> "loop"]
    /\ current = [c \in Conns |-> None]
    /\ job = [c \in Conns |-> None]
    /\ peers = [d \in Devices |-> None]
    /\ channels = [d \in Devices |-> None]
    /\ sessions = [s \in {} |-> None]
    /\ rx = [c \in Conns |-> <<>>]
    /\ brx = [c \in Conns |-> <<>>]
    /\ view = [c \in Conns |-> {}]
    /\ asked = [c \in Conns |-> {}]
    /\ requests = [c \in Conns |-> 0]
    /\ registers = [c \in Conns |-> 0]
    /\ lost = {}
    /\ overlapped = {}
    /\ been = [c \in Conns |-> {}]

-----------------------------------------------------------------------------
(* broadcast_peers: the list is taken and sent under one read guard, so no *)
(* writer comes between.  A receiver that lags loses its oldest list       *)
(* (RecvError::Lagged, which the loop skips).  Nothing else depends on     *)
(* these queues, so an instance may follow the Watchers' ones only.        *)

Push(q, list) ==
    IF Len(q) < Capacity THEN Append(q, list) ELSE Append(Tail(q), list)

BroadcastPeers(receivers) ==
    brx' = [e \in Conns |->
               IF pc[e] = "gone" \/ e \notin receivers THEN <<>> ELSE Push(brx[e], Online)]

-----------------------------------------------------------------------------
(* Register.                                                               *)

Registering(c) == pc[c] \in {"insert", "channel", "announce"}

\* Task c works for device d: registers it, or has done so and is not gone.
Owned(c, d) == pc[c] # "gone" /\ (current[c] = d \/ (Registering(c) /\ job[c] = d))

\* Admitted by the database and the CA; a refused Register changes nothing here.
Register(c, d) ==
    /\ pc[c] = "loop"
    /\ registers[c] < MaxRegisters[c]
    /\ d \in Serials[c]
    /\ registers' = [registers EXCEPT ![c] = @ + 1]
    /\ job' = [job EXCEPT ![c] = d]
    /\ LET others == {e \in Conns \ {c} : Owned(e, d)}
       IN  overlapped' = overlapped \cup others \cup (IF others = {} THEN {} ELSE {c})
    /\ Goto(c, "insert")
    /\ UNCHANGED <<current, maps, mail, lists, requests, lost, been>>

\* Bug: current_id is set before the channel can be found.
InsertPeerEarly(c) ==
    /\ pc[c] = "insert"
    /\ PeersReaders = {}
    /\ peers' = [peers EXCEPT ![job[c]] = c]
    /\ current' = [current EXCEPT ![c] = job[c]]
    /\ Goto(c, "channel")
    /\ UNCHANGED <<job, channels, sessions, mail, lists, counts, history>>

InsertPeer(c) ==
    /\ pc[c] = "insert"
    /\ PeersReaders = {}
    /\ peers' = [peers EXCEPT ![job[c]] = c]
    /\ Goto(c, "channel")
    /\ UNCHANGED <<current, job, channels, sessions, mail, lists, counts, history>>

InsertChannel(c) ==
    /\ pc[c] = "channel"
    /\ channels' = [channels EXCEPT ![job[c]] = c]
    /\ current' = [current EXCEPT ![c] = job[c]]
    /\ been' = [been EXCEPT ![c] = @ \cup {job[c]}]
    /\ Goto(c, "announce")
    /\ UNCHANGED <<job, peers, sessions, mail, lists, counts, lost, overlapped>>

\* Bug: the list is sent to the others only.
AnnounceToOthers(c) ==
    /\ pc[c] = "announce"
    /\ BroadcastPeers(Watchers \ {c})
    /\ job' = [job EXCEPT ![c] = None]
    /\ Goto(c, "loop")
    /\ UNCHANGED <<current, maps, mail, view, counts, history>>

Announce(c) ==
    /\ pc[c] = "announce"
    /\ BroadcastPeers(Watchers)
    /\ job' = [job EXCEPT ![c] = None]
    /\ Goto(c, "loop")
    /\ UNCHANGED <<current, maps, mail, view, counts, history>>

-----------------------------------------------------------------------------
(* ConnectRequest: the read guard of peers lives from the lookup of the    *)
(* requester to the end of the handler.                                    *)

\* A registered client asks, and is found in peers.
Asks(c) ==
    /\ pc[c] = "loop"
    /\ c \in Askers /\ requests[c] < MaxRequests
    /\ current[c] # None
    /\ peers[current[c]] # None
    /\ requests' = [requests EXCEPT ![c] = @ + 1]

\* The certificate is good, or not asked for.
Request(c, t) ==
    /\ Asks(c)
    /\ job' = [job EXCEPT ![c] = t]
    /\ Goto(c, "send")
    /\ UNCHANGED <<current, maps, mail, lists, registers, history>>

\* The certificate is refused: the Error is written with the guard held.
RequestDenied(c) ==
    /\ Asks(c)
    /\ Goto(c, "deny")
    /\ UNCHANGED <<current, job, maps, mail, lists, registers, history>>

Denied(c) ==
    /\ pc[c] = "deny"
    /\ Goto(c, "loop")
    /\ UNCHANGED <<current, job, maps, mail, lists, counts, history>>

\* Bug: the request goes back to the requester.
RouteToSelf(c, t) == channels[current[c]]

\* Where a request for t, made by c, is put.
RouteOf(c, t) == channels[t]

SendRequest(c) ==
    /\ pc[c] = "send"
    /\ LET t == job[c]
           e == RouteOf(c, t)
           s == [by |-> current[c], conn |-> c, n |-> requests[c]]
       IN  /\ rx' = IF e = None \/ pc[e] = "gone" THEN rx
                    ELSE [rx EXCEPT ![e] = Append(@, ToTarget(t, s))]
           /\ job' = [job EXCEPT ![c] = s]
    /\ Goto(c, "record")
    /\ UNCHANGED <<current, maps, asked, lists, counts, history>>

\* Bug: one pending session for the whole server.
OnlySession(s) == {s}

WithSession(s) == DOMAIN sessions \cup {s}

RecordSession(c) ==
    /\ pc[c] = "record"
    /\ SessionsReaders = {}
    /\ sessions' = [s \in WithSession(job[c]) |-> s.by]
    /\ job' = [job EXCEPT ![c] = None]
    /\ Goto(c, "loop")
    /\ UNCHANGED <<current, peers, channels, mail, lists, counts, history>>

-----------------------------------------------------------------------------
(* ConnectResponse: the read guard of sessions lives until the answer is   *)
(* in the requester's channel.                                             *)

\* The requester's own handler has sent this request and not yet recorded it.
Unrecorded(s) == pc[s.conn] = "record" /\ job[s.conn] = s

\* An answer that goes nowhere although its requester is still served, as the
\* device that asked.
Lose(s) ==
    IF Serving(s.conn) /\ current[s.conn] = s.by
    THEN lost \cup {[sid |-> s, early |-> Unrecorded(s)]} ELSE lost

Respond(c, s) ==
    /\ pc[c] = "loop"
    /\ s \in asked[c]
    /\ asked' = [asked EXCEPT ![c] = @ \ {s}]
    /\ IF s \in DOMAIN sessions
       THEN Goto(c, "respond") /\ job' = [job EXCEPT ![c] = s] /\ UNCHANGED lost
       ELSE lost' = Lose(s) /\ UNCHANGED <<pc, job>>
    /\ UNCHANGED <<current, maps, rx, lists, counts, overlapped, been>>

RouteResponse(c) ==
    /\ pc[c] = "respond"
    /\ LET s == job[c]
           e == channels[sessions[s]]
       IN  IF e = None \/ pc[e] = "gone"
           THEN lost' = Lose(s) /\ UNCHANGED rx
           ELSE rx' = [rx EXCEPT ![e] = Append(@, ToRequester(s))] /\ UNCHANGED lost
    /\ job' = [job EXCEPT ![c] = None]
    /\ Goto(c, "loop")
    /\ UNCHANGED <<current, maps, asked, lists, counts, overlapped, been>>

-----------------------------------------------------------------------------
(* The two receiving branches of the select!.                              *)

RecvBroadcast(c) ==
    /\ pc[c] = "loop"
    /\ brx[c] # <<>>
    /\ view' = [view EXCEPT ![c] = Head(brx[c])]
    /\ brx' = [brx EXCEPT ![c] = Tail(@)]
    /\ UNCHANGED <<task, maps, mail, counts, history>>

RecvPeerMsg(c) ==
    /\ pc[c] = "loop"
    /\ rx[c] # <<>>
    /\ rx' = [rx EXCEPT ![c] = Tail(@)]
    /\ asked' = [asked EXCEPT ![c] =
                    IF Head(rx[c]).kind = "request" THEN @ \cup {Head(rx[c]).sid} ELSE @]
    /\ UNCHANGED <<task, maps, lists, counts, history>>

-----------------------------------------------------------------------------
(* The loop breaks (the client went, or a write failed): the cleanup.      *)

\* A connection that never registered has nothing to clean up.
Disconnect(c) ==
    /\ pc[c] = "loop"
    /\ IF current[c] # None THEN Goto(c, "unpeer") /\ UNCHANGED brx
       ELSE Goto(c, "gone") /\ brx' = [brx EXCEPT ![c] = <<>>]
    /\ UNCHANGED <<current, job, maps, mail, view, counts, history>>

RemovePeer(c) ==
    /\ pc[c] = "unpeer"
    /\ PeersReaders = {}
    /\ peers' = [peers EXCEPT ![current[c]] = None]
    /\ Goto(c, "unchannel")
    /\ UNCHANGED <<current, job, channels, sessions, mail, lists, counts, history>>

\* Bug: the sender of a dropped connection stays in peer_channels.
RemoveChannelForgotten(c) ==
    /\ pc[c] = "unchannel"
    /\ Goto(c, "unsession")
    /\ UNCHANGED <<current, job, maps, mail, lists, counts, history>>

RemoveChannel(c) ==
    /\ pc[c] = "unchannel"
    /\ channels' = [channels EXCEPT ![current[c]] = None]
    /\ Goto(c, "unsession")
    /\ UNCHANGED <<current, job, peers, sessions, mail, lists, counts, history>>

\* sessions.retain: the sessions that stay when device d goes.
Retained(d) == {s \in DOMAIN sessions : sessions[s] # d}

RemoveSessions(c) ==
    /\ pc[c] = "unsession"
    /\ SessionsReaders = {}
    /\ sessions' = [s \in Retained(current[c]) |-> sessions[s]]
    /\ Goto(c, "farewell")
    /\ UNCHANGED <<current, job, peers, channels, mail, lists, counts, history>>

\* Bug: nobody is told that the peer has gone.
FarewellQuiet(c) ==
    /\ pc[c] = "farewell"
    /\ brx' = [brx EXCEPT ![c] = <<>>]
    /\ rx' = [rx EXCEPT ![c] = <<>>]
    /\ asked' = [asked EXCEPT ![c] = {}]
    /\ Goto(c, "gone")
    /\ UNCHANGED <<current, job, maps, view, counts, history>>

Farewell(c) ==
    /\ pc[c] = "farewell"
    /\ BroadcastPeers(Watchers \ {c})
    /\ rx' = [rx EXCEPT ![c] = <<>>]
    /\ asked' = [asked EXCEPT ![c] = {}]
    /\ Goto(c, "gone")
    /\ UNCHANGED <<current, job, maps, view, counts, history>>

Finished == (\A c \in Conns : pc[c] = "gone") /\ UNCHANGED vars

\* The steps a task takes by itself, whatever its client does.
Handle(c) ==
    \/ InsertPeer(c) \/ InsertChannel(c) \/ Announce(c)
    \/ Denied(c) \/ SendRequest(c) \/ RecordSession(c)
    \/ RouteResponse(c)
    \/ RemovePeer(c) \/ RemoveChannel(c) \/ RemoveSessions(c) \/ Farewell(c)

Next ==
    \/ \E c \in Conns :
          \/ \E d \in Devices : Register(c, d) \/ Request(c, d)
          \/ RequestDenied(c)
          \/ \E s \in asked[c] : Respond(c, s)
          \/ RecvBroadcast(c) \/ RecvPeerMsg(c)
          \/ Disconnect(c)
          \/ Handle(c)
    \/ Finished

Spec == Init /\ [][Next]_vars

(***************************************************************************)
(* Every await of a handler ends: a client reads what is written to it,    *)
(* every handler gets its locks (SignalingLocks; SF, since a guard may     *)
(* come and go before the task's turn), and select! picks at random among  *)
(* its ready branches (SF).  Clients owe no message.                       *)
(***************************************************************************)
Fairness ==
    \A c \in Conns :
        /\ SF_vars(Handle(c))
        /\ SF_vars(RecvBroadcast(c))
        /\ SF_vars(RecvPeerMsg(c))

FairSpec == Spec /\ Fairness

-----------------------------------------------------------------------------
(* Properties.                                                             *)

Messages ==
    [kind : {"request", "response"}, to : Devices, sid : SessionIds]

TypeOK ==
    /\ pc \in [Conns -> Points]
    /\ current \in [Conns -> Devices \cup {None}]
    /\ job \in [Conns -> Devices \cup SessionIds \cup {None}]
    /\ peers \in [Devices -> Conns \cup {None}]
    /\ channels \in [Devices -> Conns \cup {None}]
    /\ DOMAIN sessions \subseteq SessionIds
    /\ sessions \in [DOMAIN sessions -> Devices]
    /\ rx \in [Conns -> Seq(Messages)]
    /\ brx \in [Conns -> Seq(SUBSET Devices)]
    /\ view \in [Conns -> SUBSET Devices]
    /\ asked \in [Conns -> SUBSET SessionIds]
    /\ requests \in [Conns -> 0..MaxRequests]
    /\ \A c \in Conns : registers[c] \in 0..MaxRegisters[c]
    /\ lost \subseteq [sid : SessionIds, early : BOOLEAN]
    /\ overlapped \subseteq Conns
    /\ been \in [Conns -> SUBSET Devices]

\* "Enviar SOLO al objetivo", "SOLO al solicitante" (signaling.rs:239, 255): a
\* request waits only at a connection that has registered as its target, an
\* answer only at one that has registered as its requester, whichever tasks
\* registered or cleaned up meanwhile.
RightDevice ==
    \A c \in Conns : \A i \in DOMAIN rx[c] : rx[c][i].to \in been[c]

\* c was d until it registered as another device: its cleanup removes the
\* entries of its last device only.
Abandoned(c, d) == d \in been[c] \ {current[c]}

\* "A peer currently online" (core/src/protocol.rs:58): what the maps hold
\* belongs to a task that still runs and that registered as that device, a
\* session to the very task that asked for it.  Nothing is left behind by the
\* four steps of the cleanup, however they fall among other tasks' steps, except
\* what a connection left of a device that it was and is no longer.
EntriesAreLive ==
    LET Belongs(c, d) == Owned(c, d) \/ Abandoned(c, d)
    IN  /\ \A d \in Devices :
              /\ peers[d] # None => Belongs(peers[d], d)
              /\ channels[d] # None => Belongs(channels[d], d)
        /\ \A s \in DOMAIN sessions : sessions[s] = s.by /\ Belongs(s.conn, s.by)

\* The converse: a connection that has registered, and whose task has not begun
\* its cleanup, is listed as online and can be sent requests.
Reachable(c) == peers[current[c]] # None /\ channels[current[c]] # None

RegisteredIsOnline == \A c \in Conns : Serving(c) => Reachable(c)

\* What does hold: a connection is missing only if another task of its device
\* ran at some time of its life.  A reconnection after the old task's last step
\* is safe, and no task of another device does harm.
RegisteredAloneIsOnline ==
    \A c \in Conns \ overlapped : Serving(c) => Reachable(c)

\* Between a change of peers and the broadcast that tells it.
Untold(c) == pc[c] \in {"channel", "announce", "unchannel", "unsession", "farewell"}
Newest(c) == IF brx[c] = <<>> THEN view[c] ELSE brx[c][Len(brx[c])]

\* With no change left to tell, the newest list on its way to a registered
\* client (or the one it has) is the true one: snapshots are never sent in the
\* wrong order and a full broadcast queue drops old lists, not the last.
NewestListIsTrue ==
    (\A e \in Conns : ~Untold(e)) =>
        \A c \in Watchers : Serving(c) => Newest(c) = Online

\* "Recordar el solicitante de esta sesion para rutear la respuesta"
\* (signaling.rs:245): an answer is dropped, while its requester is connected,
\* only if it overtakes the requester's own handler, between the send of that
\* request and its insert into sessions, or if another task of the requester's
\* device cleans up: beside the requester, or while it was away as another
\* device and until it came back, which takes three registrations.
OnlyEarlyAnswersLost ==
    \A l \in lost :
        l.early \/ l.sid.conn \in overlapped \/ registers[l.sid.conn] > 2

\* When the changes end, every registered client's dashboard shows the truth,
\* lagging receivers included.
ViewsConverge ==
    \A c \in Watchers : <>[](Serving(c) => view[c] = Online)
=============================================================================
