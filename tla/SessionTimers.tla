---------------------------- MODULE SessionTimers ----------------------------
(***************************************************************************)
(* The clocks of one session_ws task (server/src/session_relay.rs): the    *)
(* ping ticker, the idle timer that every frame read resets, and the       *)
(* writes, during which the select! polls neither.  SessionRelay has the   *)
(* rooms and no time; here is one connection, whose room is a source of    *)
(* data to write.                                                          *)
(*                                                                         *)
(* Tick is one unit of time.  The task runs at once when a branch is       *)
(* ready, so time passes only while it waits: for a branch, or for the     *)
(* socket to take what it writes.                                          *)
(***************************************************************************)
EXTENDS Integers

CONSTANTS
    Idle,       \* IDLE_TIMEOUT, in time units
    Ping,       \* PING_INTERVAL
    Answer,     \* a client answers a ping within this time
    MaxBlocked, \* bound: time in writes between two reads
    None        \* nothing being written; no pong owed; not ended

ASSUME TimeAssumption ==
    Idle \in Nat /\ Ping \in Nat \ {0} /\ Answer \in Nat /\ MaxBlocked \in Nat
ASSUME NoneAssumption ==
    None \notin Nat \cup {"data", "ping", "pong", "close", "closed", "idle", "failed"}

VARIABLES
    writing,  \* the frame whose ws.send is awaited, if any
    nextPing, \* time until the ticker is due (negative: overdue)
    idle,     \* time until the idle timer fires
    inbox,    \* kinds of the frames that arrived and are not read
    owes,     \* age of the ping that the client has not answered
    alive,    \* does the client still answer?
    ended,    \* why the loop ended
    quiet,    \* history: time since the last frame was read
    blocked   \* history: how much of it was spent in writes

client == <<owes, alive>>
history == <<quiet, blocked>>
vars == <<writing, nextPing, idle, inbox, client, ended, history>>

Kinds == {"data", "ping", "pong"}
Looping == ended = None /\ writing = None

\* The ticker's first tick is awaited and dropped.
Init ==
    /\ writing = None /\ ended = None /\ inbox = {}
    /\ nextPing = Ping /\ idle = Idle
    /\ owes = None /\ alive = TRUE
    /\ quiet = 0 /\ blocked = 0

Write(frame) == writing' = frame
End(reason) == ended' = reason

-----------------------------------------------------------------------------
(* The branches of the select!, any of those that are ready.               *)

\* Bug: a pong is not a sign of life.
ResetByFrames(kind) == idle' = IF kind = "pong" THEN idle ELSE Idle

Reset(kind) == idle' = Idle

Read(kind) ==
    /\ Looping
    /\ kind \in inbox
    /\ inbox' = inbox \ {kind}
    /\ Reset(kind)
    /\ quiet' = 0 /\ blocked' = 0
    /\ IF kind = "ping" THEN Write("pong") ELSE UNCHANGED writing
    /\ UNCHANGED <<nextPing, client, ended>>

\* Close, None or an error.
ReadEnds ==
    /\ Looping
    /\ End("closed")
    /\ UNCHANGED <<writing, nextPing, idle, inbox, client, history>>

\* rx.recv(): data of the other client, or its Close.
Recv(frame) ==
    /\ Looping
    /\ Write(frame)
    /\ UNCHANGED <<nextPing, idle, inbox, client, ended, history>>

\* Bug: the ticker is polled, not awaited.
DueAlways == TRUE

Due == nextPing <= 0

\* Bug: the ping counts as activity.
PingTickResets ==
    /\ Looping
    /\ Due
    /\ nextPing' = nextPing + Ping
    /\ idle' = Idle
    /\ Write("ping")
    /\ UNCHANGED <<inbox, client, ended, history>>

\* Ticks that were missed are made up for (MissedTickBehavior::Burst).
PingTick ==
    /\ Looping
    /\ Due
    /\ nextPing' = nextPing + Ping
    /\ Write("ping")
    /\ UNCHANGED <<idle, inbox, client, ended, history>>

IdleFires ==
    /\ Looping
    /\ idle <= 0
    /\ End("idle")
    /\ UNCHANGED <<writing, nextPing, idle, inbox, client, history>>

\* ws.send returns; after a Close the loop ends, sent or not.
WriteDone ==
    /\ ended = None /\ writing # None
    /\ Write(None)
    /\ IF writing = "close" THEN End("closed") ELSE UNCHANGED ended
    /\ owes' = IF writing = "ping" /\ alive /\ owes = None THEN 0 ELSE owes
    /\ UNCHANGED <<nextPing, idle, inbox, alive, history>>

\* An error ends the loop, unless it was a Pong: that result is dropped.
WriteFails ==
    /\ ended = None /\ writing # None /\ ~alive
    /\ Write(None)
    /\ IF writing = "pong" THEN UNCHANGED ended ELSE End("failed")
    /\ UNCHANGED <<nextPing, idle, inbox, client, history>>

-----------------------------------------------------------------------------
(* The client and the clock.                                               *)

\* Frames of one kind that wait in the socket count as one.
Sends(kind) ==
    /\ ended = None /\ alive
    /\ inbox' = inbox \cup {kind}
    /\ owes' = IF kind = "pong" THEN None ELSE owes
    /\ UNCHANGED <<writing, nextPing, idle, alive, ended, history>>

FallsSilent ==
    /\ ended = None /\ alive
    /\ alive' = FALSE /\ owes' = None
    /\ UNCHANGED <<writing, nextPing, idle, inbox, ended, history>>

\* Nothing is ready, or the socket takes nothing; nobody is late.
Tick ==
    /\ ended = None
    /\ IF Looping THEN nextPing > 0 /\ idle > 0 /\ inbox = {}
                  ELSE blocked < MaxBlocked /\ nextPing > -MaxBlocked
    /\ owes # None => owes < Answer
    /\ nextPing' = nextPing - 1 /\ idle' = idle - 1
    /\ quiet' = quiet + 1
    /\ blocked' = IF Looping THEN blocked ELSE blocked + 1
    /\ owes' = IF owes = None THEN None ELSE owes + 1
    /\ UNCHANGED <<writing, inbox, alive, ended>>

Finished == ended # None /\ UNCHANGED vars

Next ==
    \/ \E kind \in Kinds : Read(kind) \/ Sends(kind)
    \/ \E frame \in {"data", "close"} : Recv(frame)
    \/ ReadEnds \/ PingTick \/ IdleFires
    \/ WriteDone \/ WriteFails
    \/ FallsSilent \/ Tick
    \/ Finished

Spec == Init /\ [][Next]_vars

-----------------------------------------------------------------------------
(* Properties.                                                             *)

TypeOK ==
    /\ writing \in Kinds \cup {"close", None}
    /\ nextPing \in -MaxBlocked..Ping
    /\ idle \in -MaxBlocked..Idle
    /\ inbox \subseteq Kinds
    /\ owes \in (0..Answer) \cup {None}
    /\ alive \in BOOLEAN
    /\ ended \in {"closed", "idle", "failed", None}
    /\ quiet \in Nat
    /\ blocked \in 0..MaxBlocked

\* "Cuanto tiempo sin recibir NADA del cliente ... antes de considerar la
\* conexion muerta" (session_relay.rs:11-12): the task outlives the last frame
\* by IDLE_TIMEOUT and the time its writes took since, never by more: neither
\* its own pings nor the data of the other client put the end off.
SilenceIsBounded == ended = None => quiet <= Idle + blocked

\* "(ni frames, ni input, ni pong)": a client that answers pings is dropped as
\* idle only if writes held the loop for as long as the pings leave over: the
\* ticker and the pong get through otherwise, though select! picks any ready
\* branch and a ping may be due while a write is awaited.
AnsweringClientStays ==
    ended = "idle" /\ alive => blocked >= Idle - Ping - Answer
=============================================================================
