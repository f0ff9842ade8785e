--------------------------- MODULE SignalingLocks ---------------------------
(***************************************************************************)
(* The three RwLocks of server/src/signaling.rs and who waits for whom.    *)
(* SignalingHub has the maps behind them and takes it for granted that     *)
(* every handler gets its locks in the end; here are the locks, without    *)
(* the maps.  A handler is the list of its awaits: an acquisition whose    *)
(* guard goes at once (a temporary of one statement), one whose guard is   *)
(* kept until the handler ends (the scrutinee of an if-let), or a write to *)
(* the client's socket, for which a client that hangs gives no end.        *)
(*                                                                         *)
(* A tokio RwLock queues whoever asks, readers and writers alike, and      *)
(* grants in the order of the queue.                                       *)
(***************************************************************************)
EXTENDS Sequences

CONSTANTS
    Conns, \* connections; one that ended makes room for the next
    Hung   \* those whose client may stop reading its socket

ASSUME HungAssumption == Hung \subseteq Conns

VARIABLES
    job,    \* the handler each task runs
    todo,   \* the awaits it has left
    guards, \* the acquisitions whose guards it keeps
    queue   \* lock -> tasks that wait for it

vars == <<job, todo, guards, queue>>

-----------------------------------------------------------------------------
Locks == {"peers", "channels", "sessions"}
Await(on, write, keep) == [on |-> on, write |-> write, keep |-> keep]
Reading(lock) == Await(lock, FALSE, FALSE)
Keeping(lock) == Await(lock, FALSE, TRUE)
Writing(lock) == Await(lock, TRUE, FALSE)
ToClient == Await("client", FALSE, FALSE)

\* Bug: the client is told inside an if-let on peer_channels.
RegisterKeeping ==
    <<Writing("peers"), Writing("channels"), Keeping("channels"), ToClient,
      Reading("peers")>>

Register == <<Writing("peers"), Writing("channels"), ToClient, Reading("peers")>>

Request == <<Keeping("peers"), Reading("channels"), Writing("sessions")>>

\* The Error is written inside the if-let.
Denied == <<Keeping("peers"), ToClient>>

\* Bug: the sender is looked up in peers first.
ResponseChecked == <<Keeping("sessions"), Reading("peers"), Reading("channels")>>

Response == <<Keeping("sessions"), Reading("channels")>>

\* A heartbeat, a list or a message of another peer.
Forward == <<ToClient>>

Cleanup ==
    <<Writing("peers"), Writing("channels"), Writing("sessions"), Reading("peers")>>

Awaits(h) ==
    CASE h = "register" -> Register
      [] h = "request" -> Request
      [] h = "denied" -> Denied
      [] h = "response" -> Response
      [] h = "forward" -> Forward
      [] h = "cleanup" -> Cleanup

Handlers == {"register", "request", "denied", "response", "forward", "cleanup"}

Init ==
    /\ job = [c \in Conns |-> "loop"]
    /\ todo = [c \in Conns |-> <<>>]
    /\ guards = [c \in Conns |-> {}]
    /\ queue = [l \in Locks |-> <<>>]

Start(c, h) ==
    /\ job[c] = "loop"
    /\ job' = [job EXCEPT ![c] = h]
    /\ todo' = [todo EXCEPT ![c] = Awaits(h)]
    /\ UNCHANGED <<guards, queue>>

\* Bug: the guards outlive the handler.
HeldForEver(c, held) == held

\* The guards kept so far, or none once the last await of c is over.
Held(c, held) == IF Len(todo[c]) = 1 THEN {} ELSE held

Proceed(c, held) ==
    /\ todo' = [todo EXCEPT ![c] = Tail(@)]
    /\ job' = [job EXCEPT ![c] = IF Len(todo[c]) = 1 THEN "loop" ELSE @]
    /\ guards' = [guards EXCEPT ![c] = Held(c, held)]

Awaiting(c, on) == todo[c] # <<>> /\ Head(todo[c]).on = on

Ask(c) ==
    \E l \in Locks :
        /\ Awaiting(c, l)
        /\ \A i \in DOMAIN queue[l] : queue[l][i] # c
        /\ queue' = [queue EXCEPT ![l] = Append(@, c)]
        /\ UNCHANGED <<job, todo, guards>>

Conflict(a, g) == a.on = g.on /\ (a.write \/ g.write)

\* The lock is granted, used and, unless the guard is kept, released.
Take(c) ==
    \E l \in Locks :
        /\ Awaiting(c, l)
        /\ queue[l] # <<>> /\ Head(queue[l]) = c
        /\ LET a == Head(todo[c])
           IN  /\ \A d \in Conns : \A g \in guards[d] : ~Conflict(a, g)
               /\ Proceed(c, IF a.keep THEN guards[c] \cup {a} ELSE guards[c])
        /\ queue' = [queue EXCEPT ![l] = Tail(@)]

Send(c) ==
    /\ Awaiting(c, "client")
    /\ Proceed(c, guards[c])
    /\ UNCHANGED queue

Next ==
    \E c \in Conns :
        \/ \E h \in Handlers : Start(c, h)
        \/ Ask(c) \/ Take(c) \/ Send(c)

\* Tasks run, a lock that can be granted is, and a client that does not hang
\* reads; nobody has to start anything.
Fairness ==
    \A c \in Conns :
        /\ WF_vars(Ask(c))
        /\ WF_vars(Take(c))
        /\ c \notin Hung => WF_vars(Send(c))

Spec == Init /\ [][Next]_vars /\ Fairness

-----------------------------------------------------------------------------
(* Properties.                                                             *)

TypeOK ==
    /\ job \in [Conns -> Handlers \cup {"loop"}]
    /\ \A c \in Conns :
          /\ (job[c] = "loop") = (todo[c] = <<>>)
          /\ job[c] = "loop" => guards[c] = {}
          /\ \A g \in guards[c] : g.keep /\ g.on \in Locks
    /\ queue \in [Locks -> Seq(Conns)]

\* A hung client is being told that its request is denied.
Stalled == \E c \in Hung : job[c] = "denied" /\ Awaiting(c, "client")

\* Whoever keeps a guard waits only for a lock behind it in this order, which no
\* place of signaling.rs states: peers, sessions, peer_channels.  So no circle of
\* tasks can wait for each other's guards, however many there are.
Before(k, l) == <<k, l>> \in {<<"peers", "sessions">>, <<"peers", "channels">>,
                              <<"sessions", "channels">>}

LocksInOrder ==
    \A c \in Conns : \A g \in guards[c] : \A l \in Locks :
        Awaiting(c, l) => Before(g.on, l)

\* c is in a queue, and the head of a queue conflicts with no guard.
Queued(c) == \E l \in Locks : \E i \in DOMAIN queue[l] : queue[l][i] = c

Grantable(l) ==
    /\ queue[l] # <<>>
    /\ \A d \in Conns : \A g \in guards[d] : ~Conflict(Head(todo[Head(queue[l])]), g)

\* Whenever somebody waits for a lock, some lock can be granted or some task
\* that keeps a guard is not waiting for any: it is on its way, or writes to its
\* client.  The handlers never all wait for each other, readers behind a queued
\* writer included.
NobodyDeadlocked ==
    (\E c \in Conns : Queued(c)) =>
        \/ \E l \in Locks : Grantable(l)
        \/ \E d \in Conns : guards[d] # {} /\ ~Queued(d)

\* Every handler of a client that reads ends, whatever the others start
\* meanwhile, unless the server is telling a hung client that its request is
\* denied: three locks, guards kept over further acquisitions, and queues in
\* which a writer holds up the readers behind it never close a circle, and no
\* other write to a hung client holds anybody up.
OnlyDenialsStall ==
    \A c \in Conns \ Hung : []<>(job[c] = "loop" \/ Stalled)

\* "Enviar SOLO al solicitante" (signaling.rs:255): an answer gets through even
\* then, although registrations, requests and cleanups wait for ever: what
\* waits for peers holds neither sessions nor peer_channels.
AnswersGetThrough ==
    \A c \in Conns \ Hung : []<>(job[c] # "response")
=============================================================================
