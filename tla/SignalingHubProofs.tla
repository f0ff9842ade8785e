------------------------- MODULE SignalingHubProofs -------------------------
(***************************************************************************)
(* Theorems about SignalingHub: its safety properties, for any number of   *)
(* connections, devices, requests and registrations.                       *)
(*                                                                         *)
(* The inductive invariant IInv says of every entry of the three maps      *)
(* which task put it there and where that task is in its handler (Listed,  *)
(* Wired, Recorded), that a task without a rival of its device owns its    *)
(* entries (Alone, Shown), and what a session id still on its way says of  *)
(* the task that made it (Known).                                          *)
(***************************************************************************)
EXTENDS SignalingHub, SequenceTheorems, TLAPS

-----------------------------------------------------------------------------
(* The inductive invariant.                                                *)

Cleaning == {"unpeer", "unchannel", "unsession", "farewell"}

\* What a task works on at each point of its handler.
Shaped(c) ==
    /\ current[c] # None => current[c] \in Serials[c] /\ current[c] \in been[c]
    /\ pc[c] \in {"deny", "send", "record"} \cup Cleaning => current[c] # None
    /\ Registering(c) => job[c] \in Serials[c]
    /\ pc[c] = "announce" => job[c] = current[c]
    /\ pc[c] = "send" => job[c] \in Devices /\ requests[c] > 0
    /\ pc[c] = "record" => job[c] \in SessionIds /\ job[c].conn = c /\ job[c].by = current[c]
    /\ pc[c] = "respond" => job[c] \in DOMAIN sessions

\* The Registers that a task must have handled to be where it is.
Counted(c) ==
    /\ Registering(c) \/ current[c] # None => registers[c] > 0
    /\ pc[c] \in {"insert", "channel"} /\ current[c] # None => registers[c] > 1

\* An entry of peers: its task is between the insert and the removal.
Listed(d) ==
    peers[d] # None =>
        \/ Abandoned(peers[d], d)
        \/ /\ current[peers[d]] = d
           /\ pc[peers[d]] \notin {"unchannel", "unsession", "farewell", "gone"}
        \/ pc[peers[d]] = "channel" /\ job[peers[d]] = d

\* The same of peer_channels.
Wired(d) ==
    channels[d] # None =>
        /\ d \in been[channels[d]]
        /\ \/ Abandoned(channels[d], d)
           \/ /\ current[channels[d]] = d
              /\ pc[channels[d]] \notin {"unsession", "farewell", "gone"}

\* The same of sessions.
Recorded ==
    \A s \in DOMAIN sessions :
        /\ sessions[s] = s.by
        /\ \/ Abandoned(s.conn, s.by)
           \/ current[s.conn] = s.by /\ pc[s.conn] \notin {"farewell", "gone"}

\* No two tasks of one device, unless the history says so.
Alone ==
    \A c \in Conns \ overlapped : \A e \in Conns \ {c} : \A d \in Devices :
        ~(Owned(c, d) /\ Owned(e, d))

\* The entries of such a task are its own.
Shown ==
    \A c \in Conns \ overlapped :
        /\ Serving(c) => peers[current[c]] = c /\ channels[current[c]] = c
        /\ pc[c] = "channel" => peers[job[c]] = c

\* A session id that a client has, or that waits in its channel.
Travels(s) ==
    \E e \in Conns :
        \/ s \in asked[e]
        \/ \E i \in DOMAIN rx[e] : rx[e][i].kind = "request" /\ rx[e][i].sid = s

\* The requester was registered; if it has changed its device since, that took a
\* second Register, and a third to come back.
Left(s) ==
    LET c == s.conn
    IN  /\ current[c] # None
        /\ current[c] # s.by => registers[c] > 1
        /\ current[c] # s.by /\ pc[c] \in {"insert", "channel"} => registers[c] > 2

\* The session is recorded, or is about to be, or there is an excuse.
Known(s) ==
    LET c == s.conn
    IN  \/ s \in DOMAIN sessions
        \/ pc[c] = "record" /\ job[c] = s
        \/ ~Serving(c) \/ current[c] # s.by
        \/ c \in overlapped \/ registers[c] > 2

Excused == \A s \in SessionIds : Travels(s) => Left(s) /\ Known(s)

IInv ==
    /\ TypeOK /\ registers \in [Conns -> Nat]
    /\ \A c \in Conns : Shaped(c) /\ Counted(c)
    /\ \A d \in Devices : Listed(d) /\ Wired(d)
    /\ Recorded
    /\ Alone
    /\ Shown
    /\ Excused
    /\ RightDevice
    /\ OnlyEarlyAnswersLost
    /\ NewestListIsTrue

-----------------------------------------------------------------------------
(* Lemmas about the data.                                                  *)

\* A list that is pushed is the last one of its queue.
LEMMA PushLast ==
    ASSUME NEW q \in Seq(SUBSET Devices), NEW list \in SUBSET Devices
    PROVE  /\ Push(q, list) \in Seq(SUBSET Devices)
           /\ Push(q, list) # <<>>
           /\ Push(q, list)[Len(Push(q, list))] = list
<1>1. CASE Len(q) < Capacity
  BY <1>1, AppendProperties DEF Push
<1>2. CASE ~(Len(q) < Capacity)
  <2>1. Len(q) \in Nat /\ q # <<>>
    BY <1>2, LenProperties, BoundsAssumption
  <2>2. Tail(q) \in Seq(SUBSET Devices)
    BY <2>1, HeadTailProperties
  <2> QED
    BY <1>2, <2>2, AppendProperties DEF Push
<1> QED
  BY Zenon, <1>1, <1>2

\* A broadcast is the last list of every receiver.
LEMMA BroadcastLast ==
    ASSUME TypeOK, NEW R \in SUBSET Conns, BroadcastPeers(R)
    PROVE  /\ brx' \in [Conns -> Seq(SUBSET Devices)]
           /\ \A e \in R : pc[e] # "gone" =>
                 brx'[e] # <<>> /\ brx'[e][Len(brx'[e])] = Online
<1>1. Online \in SUBSET Devices
  BY DEF Online
<1>2. \A e \in Conns : brx[e] \in Seq(SUBSET Devices)
  BY DEF TypeOK
<1>3. \A e \in Conns :
         /\ Push(brx[e], Online) \in Seq(SUBSET Devices)
         /\ Push(brx[e], Online) # <<>>
         /\ Push(brx[e], Online)[Len(Push(brx[e], Online))] = Online
  BY <1>1, <1>2, PushLast
<1>4. <<>> \in Seq(SUBSET Devices)
  BY EmptySeq
<1> QED
  BY <1>3, <1>4 DEF BroadcastPeers

\* The bounds of the counters.
LEMMA CountsType ==
    ASSUME IInv
    PROVE  /\ registers \in [Conns -> Nat]
           /\ requests \in [Conns -> Nat]
           /\ MaxRequests \in Nat
           /\ \A c \in Conns : MaxRegisters[c] \in Nat
<1>1. MaxRequests \in Nat /\ \A c \in Conns : MaxRegisters[c] \in Nat
  BY BoundsAssumption
<1>2. requests \in [Conns -> Nat]
  BY <1>1 DEF IInv, TypeOK
<1>3. registers \in [Conns -> Nat]
  BY DEF IInv
<1> QED
  BY <1>1, <1>2, <1>3

\* What a registration works on.
LEMMA RegistersDevice ==
    ASSUME IInv, NEW c \in Conns, Registering(c)
    PROVE  job[c] \in Devices /\ job[c] \in Serials[c] /\ Owned(c, job[c])
<1>1. job[c] \in Serials[c]
  BY DEF IInv, Shaped
<1>2. Serials[c] \subseteq Devices
  BY SerialsAssumption
<1>3. pc[c] # "gone"
  BY DEF Registering
<1> QED
  BY <1>1, <1>2, <1>3 DEF Owned

\* What a registered task serves.
LEMMA ServesDevice ==
    ASSUME IInv, NEW c \in Conns, current[c] # None
    PROVE  current[c] \in Devices /\ (pc[c] # "gone" => Owned(c, current[c]))
  BY DEF IInv, TypeOK, Owned

\* A task without a rival has none.
LEMMA NoRival ==
    ASSUME IInv, NEW c \in Conns, NEW e \in Conns, c # e, c \notin overlapped,
           NEW d \in Devices, Owned(c, d), Owned(e, d)
    PROVE  FALSE
  BY DEF IInv, Alone

-----------------------------------------------------------------------------
(* The invariant is inductive.  One lemma per action.                      *)

\* A rival is on record as soon as it registers.
LEMMA RegisterStep ==
    ASSUME IInv, NEW c \in Conns, NEW d \in Devices, Register(c, d)
    PROVE  IInv'
<1>1. /\ pc[c] = "loop" /\ d \in Serials[c]
      /\ registers' = [registers EXCEPT ![c] = @ + 1] /\ registers[c] < MaxRegisters[c]
      /\ job' = [job EXCEPT ![c] = d] /\ pc' = [pc EXCEPT ![c] = "insert"]
      /\ overlapped' = overlapped \cup {e \in Conns \ {c} : Owned(e, d)}
                          \cup (IF {e \in Conns \ {c} : Owned(e, d)} = {} THEN {} ELSE {c})
      /\ UNCHANGED <<current, peers, channels, sessions, rx, asked, brx, view, requests, lost, been>>
  BY DEF Register, Goto, task, maps, mail, lists, counts, history
<1>2. TypeOK /\ Recorded /\ Alone /\ Shown /\ RightDevice /\ Excused
      /\ registers \in [Conns -> Nat]
  BY DEF IInv
<1>3. TypeOK'
  <2>1. \A e \in Conns : registers'[e] \in 0..MaxRegisters[e]
    BY <1>1, <1>2, CountsType DEF TypeOK
  <2> QED
    BY <1>1, <1>2, <2>1 DEF TypeOK, Points
<1>4. ASSUME NEW e \in Conns PROVE Shaped(e)' /\ Counted(e)'
  BY <1>1, <1>2 DEF IInv, TypeOK, Shaped, Counted, Registering, Cleaning, SessionsReaders
<1>5. ASSUME NEW t \in Devices PROVE Listed(t)' /\ Wired(t)'
  BY <1>1, <1>2 DEF IInv, TypeOK, Listed, Wired, Abandoned, Shaped, Counted, Registering, Cleaning
<1>6. Recorded'
  BY <1>1, <1>2 DEF IInv, TypeOK, Recorded, Abandoned, Shaped, Counted, Registering, Cleaning, SessionIds
<1>7. Alone'
  BY <1>1, <1>2 DEF TypeOK, Alone, Owned, Registering
<1>8. Shown'
  BY <1>1, <1>2 DEF IInv, TypeOK, Shown, Serving, Alone, Owned, Shaped, Registering, Cleaning
<1>9. Excused'
  BY <1>1, <1>2 DEF IInv, TypeOK, Excused, Travels, Left, Known, Serving, Shaped, Counted, Registering
<1>10. RightDevice'
  BY <1>1, <1>2 DEF TypeOK, RightDevice
<1>11. OnlyEarlyAnswersLost'
  BY <1>1, <1>2 DEF IInv, TypeOK, OnlyEarlyAnswersLost
<1>12. NewestListIsTrue'
  BY <1>1, <1>2 DEF IInv, TypeOK, NewestListIsTrue, Untold, Newest, Online, Serving
<1>13. registers' \in [Conns -> Nat]
  BY <1>1, <1>2
<1> QED
  BY <1>3, <1>4, <1>5, <1>6, <1>7, <1>8, <1>9, <1>10, <1>11, <1>12, <1>13 DEF IInv

\* The new entry belongs to its task; an older one it replaces was a rival's, or
\* was its own.
LEMMA InsertPeerStep ==
    ASSUME IInv, NEW c \in Conns, InsertPeer(c)
    PROVE  IInv'
<1>1. /\ pc[c] = "insert" /\ pc' = [pc EXCEPT ![c] = "channel"]
      /\ peers' = [peers EXCEPT ![job[c]] = c]
      /\ UNCHANGED <<current, job, channels, sessions, rx, asked, brx, view, requests, registers, lost, overlapped, been>>
  BY DEF InsertPeer, Goto, task, maps, mail, lists, counts, history
<1>2. TypeOK /\ Recorded /\ Alone /\ Shown /\ RightDevice /\ Excused
      /\ registers \in [Conns -> Nat]
  BY DEF IInv
<1>3. TypeOK'
  BY <1>1, <1>2 DEF TypeOK, Points
<1>4. ASSUME NEW e \in Conns PROVE Shaped(e)' /\ Counted(e)'
  BY <1>1, <1>2 DEF IInv, TypeOK, Shaped, Counted, Registering, Cleaning, SessionsReaders
<1>5. ASSUME NEW t \in Devices PROVE Listed(t)' /\ Wired(t)'
  BY <1>1, <1>2 DEF IInv, TypeOK, Listed, Wired, Abandoned, Shaped, Counted, Registering, Cleaning
<1>6. Recorded'
  BY <1>1, <1>2 DEF IInv, TypeOK, Recorded, Abandoned, Shaped, Counted, Registering, Cleaning, SessionIds
<1>7. Alone'
  BY <1>1, <1>2 DEF TypeOK, Alone, Owned, Registering
<1>8. Shown'
  <2> SUFFICES ASSUME NEW e \in Conns \ overlapped
               PROVE  /\ Serving(e)' => peers'[current[e]] = e /\ channels[current[e]] = e
                      /\ pc'[e] = "channel" => peers'[job[e]] = e
    BY <1>1 DEF Shown
  <2>1. /\ Serving(e)' <=> Serving(e)
        /\ Serving(e) => peers[current[e]] = e /\ channels[current[e]] = e
        /\ pc[e] = "channel" => peers[job[e]] = e
    BY <1>1, <1>2 DEF Shown, Serving, TypeOK
  <2>2. /\ job[c] \in Devices
        /\ Owned(c, job[c])
        /\ pc[e] = "channel" => job[e] \in Devices /\ Owned(e, job[e])
    BY <1>1, RegistersDevice DEF Registering
  <2>3. Serving(e) => current[e] \in Devices /\ Owned(e, current[e])
    BY ServesDevice DEF Serving
  <2>4. CASE e = c
    BY <1>1, <1>2, <2>1, <2>2, <2>3, <2>4, NoRival DEF TypeOK
  <2>5. CASE e # c
    <3>1. Serving(e) => current[e] # job[c]
      BY <2>2, <2>3, <2>5, NoRival
    <3>2. pc[e] = "channel" => job[e] # job[c]
      BY <2>2, <2>5, NoRival
    <3> QED
      BY <1>1, <1>2, <2>1, <2>2, <2>3, <2>5, <3>1, <3>2 DEF TypeOK
  <2> QED
    BY <2>4, <2>5
<1>9. Excused'
  BY <1>1, <1>2 DEF IInv, TypeOK, Excused, Travels, Left, Known, Serving, Shaped, Counted, Registering
<1>10. RightDevice'
  BY <1>1, <1>2 DEF TypeOK, RightDevice
<1>11. OnlyEarlyAnswersLost'
  BY <1>1, <1>2 DEF IInv, TypeOK, OnlyEarlyAnswersLost
<1>12. NewestListIsTrue'
  BY <1>1, <1>2 DEF IInv, TypeOK, NewestListIsTrue, Untold, Newest, Online, Serving
<1>13. registers' \in [Conns -> Nat]
  BY <1>1, <1>2
<1> QED
  BY <1>3, <1>4, <1>5, <1>6, <1>7, <1>8, <1>9, <1>10, <1>11, <1>12, <1>13 DEF IInv

\* The task takes its new device; what it leaves behind took two Registers.
LEMMA InsertChannelStep ==
    ASSUME IInv, NEW c \in Conns, InsertChannel(c)
    PROVE  IInv'
<1>1. /\ pc[c] = "channel" /\ pc' = [pc EXCEPT ![c] = "announce"]
      /\ channels' = [channels EXCEPT ![job[c]] = c]
      /\ current' = [current EXCEPT ![c] = job[c]]
      /\ been' = [been EXCEPT ![c] = @ \cup {job[c]}]
      /\ UNCHANGED <<job, peers, sessions, rx, asked, brx, view, requests, registers, lost, overlapped>>
  BY DEF InsertChannel, Goto, task, maps, mail, lists, counts, history
<1>2. TypeOK /\ Recorded /\ Alone /\ Shown /\ RightDevice /\ Excused
      /\ registers \in [Conns -> Nat]
  BY DEF IInv
<1>0. job[c] \in Devices /\ job[c] \in Serials[c] /\ Owned(c, job[c])
  BY <1>1, RegistersDevice DEF Registering
<1>3. TypeOK'
  BY <1>0, <1>1, <1>2 DEF TypeOK, Points
<1>4. ASSUME NEW e \in Conns PROVE Shaped(e)' /\ Counted(e)'
  BY <1>1, <1>2 DEF IInv, TypeOK, Shaped, Counted, Registering, Cleaning, SessionsReaders
<1>14. \A t \in Devices : current[c] = t /\ t # job[c] => Abandoned(c, t)'
  BY <1>1, <1>2, NoneAssumption DEF IInv, TypeOK, Shaped, Abandoned
<1>15. \A e \in Conns, t \in Devices : Abandoned(e, t) =>
          Abandoned(e, t)' \/ (e = c /\ t = job[c])
  BY <1>1, <1>2 DEF TypeOK, Abandoned
<1>5. ASSUME NEW t \in Devices PROVE Listed(t)' /\ Wired(t)'
  <2>1. Listed(t)'
    <3> SUFFICES ASSUME peers[t] # None
                 PROVE  \/ Abandoned(peers[t], t)'
                        \/ /\ current'[peers[t]] = t
                           /\ pc'[peers[t]] \notin {"unchannel", "unsession", "farewell", "gone"}
                        \/ pc'[peers[t]] = "channel" /\ job[peers[t]] = t
      BY <1>1 DEF Listed, Abandoned
    <3>1. peers[t] \in Conns /\ Listed(t)
      BY <1>2 DEF IInv, TypeOK
    <3>2. CASE peers[t] # c
      <4>1. current'[peers[t]] = current[peers[t]] /\ pc'[peers[t]] = pc[peers[t]]
        BY <1>1, <1>2, <3>1, <3>2 DEF TypeOK
      <4> QED
        BY <1>1, <3>1, <4>1 DEF Listed, Abandoned
    <3>3. CASE peers[t] = c
      <4>0. Abandoned(c, t)' <=> t \in been[c] /\ job[c] # t
        BY <1>1, <1>2 DEF Abandoned, TypeOK
      <4>1. CASE t = job[c]
        BY <1>0, <1>1, <1>2, <3>3, <4>1 DEF TypeOK
      <4>2. CASE t # job[c]
        <5>1. Abandoned(c, t)'
          BY <1>1, <1>14, <3>1, <3>3, <4>0, <4>2 DEF Listed, Abandoned
        <5> QED
          BY <1>1, <3>3, <5>1 DEF Abandoned
      <4> QED
        BY <4>1, <4>2
    <3> QED
      BY <3>2, <3>3
  <2>2. Wired(t)'
    <3>1. channels[t] \in Conns \cup {None} /\ Wired(t)
      BY <1>2 DEF IInv, TypeOK
    <3>2. CASE t = job[c]
      BY <1>0, <1>1, <1>2, <3>2 DEF Wired, TypeOK
    <3>3. CASE t # job[c]
      <4>1. channels'[t] = channels[t]
        BY <1>1, <1>2, <3>3 DEF TypeOK
      <4>2. CASE channels[t] = c
        <5>1. Wired(t) /\ c # None
          BY <3>1, NoneAssumption
        <5>2. Abandoned(c, t)'
          BY <1>14, <1>15, <3>3, <4>2, <5>1 DEF Wired
        <5> QED
          BY <4>1, <4>2, <5>1, <5>2 DEF Wired, Abandoned
      <4>3. CASE channels[t] # c
        BY <1>1, <1>2, <1>15, <3>1, <4>1, <4>3 DEF Wired, TypeOK, Abandoned
      <4> QED
        BY <4>2, <4>3
    <3> QED
      BY <3>2, <3>3
  <2> QED
    BY <2>1, <2>2
<1>6. Recorded'
  <2> SUFFICES ASSUME NEW s \in DOMAIN sessions
               PROVE  /\ sessions[s] = s.by
                      /\ \/ Abandoned(s.conn, s.by)'
                         \/ current'[s.conn] = s.by /\ pc'[s.conn] \notin {"farewell", "gone"}
    BY <1>1 DEF Recorded, Abandoned
  <2>1. s.conn \in Conns /\ s.by \in Devices
    BY <1>2 DEF TypeOK, SessionIds
  <2>2. /\ sessions[s] = s.by
        /\ \/ Abandoned(s.conn, s.by)
           \/ current[s.conn] = s.by /\ pc[s.conn] \notin {"farewell", "gone"}
    BY <1>2 DEF Recorded
  <2>3. CASE s.conn = c
    <3>1. CASE s.by = job[c]
      BY <1>1, <1>2, <2>2, <2>3, <3>1 DEF TypeOK
    <3>2. CASE s.by # job[c]
      <4>1. Abandoned(c, s.by)'
        BY <1>14, <1>15, <2>1, <2>2, <2>3, <3>2
      <4> QED
        BY <2>2, <2>3, <4>1
    <3> QED
      BY <3>1, <3>2
  <2>4. CASE s.conn # c
    BY <1>1, <1>2, <1>15, <2>1, <2>2, <2>4 DEF TypeOK
  <2> QED
    BY <2>3, <2>4
<1>7. Alone'
  BY <1>1, <1>2 DEF TypeOK, Alone, Owned, Registering
<1>8. Shown'
  <2> SUFFICES ASSUME NEW e \in Conns \ overlapped
               PROVE  /\ Serving(e)' => peers[current'[e]] = e /\ channels'[current'[e]] = e
                      /\ pc'[e] = "channel" => peers[job[e]] = e
    BY <1>1 DEF Shown
  <2>1. /\ Serving(e) => peers[current[e]] = e /\ channels[current[e]] = e
        /\ pc[e] = "channel" => peers[job[e]] = e
    BY <1>2 DEF Shown
  <2>2. CASE e = c
    BY <1>0, <1>1, <1>2, <2>1, <2>2 DEF TypeOK
  <2>3. CASE e # c
    <3>1. /\ current'[e] = current[e] /\ pc'[e] = pc[e]
          /\ Serving(e)' => Serving(e)
      BY <1>1, <1>2, <2>3 DEF TypeOK, Serving
    <3>2. Serving(e) => current[e] \in Devices /\ Owned(e, current[e])
      BY ServesDevice DEF Serving
    <3>3. Serving(e) => current[e] # job[c]
      BY <1>0, <2>3, <3>2, NoRival
    <3> QED
      BY <1>0, <1>1, <1>2, <2>1, <3>1, <3>2, <3>3 DEF TypeOK
  <2> QED
    BY <2>2, <2>3
<1>9. Excused'
  <2> SUFFICES ASSUME NEW s \in SessionIds, Travels(s)
               PROVE  Left(s)' /\ Known(s)'
    BY <1>1 DEF Excused, Travels
  <2>1. Left(s) /\ Known(s) /\ s.conn \in Conns /\ s.by \in Devices
    BY <1>2 DEF Excused, SessionIds
  <2>2. CASE s.conn # c
    BY <1>1, <1>2, <2>1, <2>2 DEF TypeOK, Left, Known, Serving
  <2>3. CASE s.conn = c
    <3>1. /\ current'[c] = job[c] /\ pc'[c] = "announce" /\ current'[c] # None
          /\ registers'[c] = registers[c] /\ registers[c] > 1
      BY <1>0, <1>1, <1>2, <2>1, <2>3, NoneAssumption DEF IInv, TypeOK, Counted, Left
    <3>2. CASE current[c] = s.by
      BY <1>1, <1>2, <2>1, <2>3, <3>1, <3>2 DEF Left, Known, Serving
    <3>3. CASE current[c] # s.by
      BY <1>1, <1>2, <2>1, <2>3, <3>1, <3>3 DEF Left, Known
    <3> QED
      BY <3>2, <3>3
  <2> QED
    BY <2>2, <2>3
<1>10. RightDevice'
  BY <1>1, <1>2 DEF TypeOK, RightDevice
<1>11. OnlyEarlyAnswersLost'
  BY <1>1, <1>2 DEF IInv, TypeOK, OnlyEarlyAnswersLost
<1>12. NewestListIsTrue'
  BY <1>1, <1>2 DEF IInv, TypeOK, NewestListIsTrue, Untold, Newest, Online, Serving
<1>13. registers' \in [Conns -> Nat]
  BY <1>1, <1>2
<1> QED
  BY <1>3, <1>4, <1>5, <1>6, <1>7, <1>8, <1>9, <1>10, <1>11, <1>12, <1>13 DEF IInv

\* A list sent is the true one, and the newest of every client.
LEMMA AnnounceStep ==
    ASSUME IInv, NEW c \in Conns, Announce(c)
    PROVE  IInv'
<1>1. /\ pc[c] = "announce" /\ pc' = [pc EXCEPT ![c] = "loop"]
      /\ job' = [job EXCEPT ![c] = None] /\ BroadcastPeers(Watchers)
      /\ UNCHANGED <<current, peers, channels, sessions, rx, asked, view, requests, registers, lost, overlapped, been>>
  BY DEF Announce, Goto, task, maps, mail, lists, counts, history
<1>2. TypeOK /\ Recorded /\ Alone /\ Shown /\ RightDevice /\ Excused
      /\ registers \in [Conns -> Nat]
  BY DEF IInv
<1>3. TypeOK'
  <2>1. brx' \in [Conns -> Seq(SUBSET Devices)]
    BY <1>1, <1>2, BroadcastLast, BoundsAssumption
  <2>2. <<>> \in Seq(Messages)
    BY EmptySeq
  <2> QED
    BY <1>1, <1>2, <2>1, <2>2 DEF TypeOK, Points
<1>4. ASSUME NEW e \in Conns PROVE Shaped(e)' /\ Counted(e)'
  BY <1>1, <1>2 DEF IInv, TypeOK, Shaped, Counted, Registering, Cleaning, SessionsReaders
<1>5. ASSUME NEW t \in Devices PROVE Listed(t)' /\ Wired(t)'
  BY <1>1, <1>2 DEF IInv, TypeOK, Listed, Wired, Abandoned, Shaped, Counted, Registering, Cleaning
<1>6. Recorded'
  BY <1>1, <1>2 DEF IInv, TypeOK, Recorded, Abandoned, Shaped, Counted, Registering, Cleaning, SessionIds
<1>7. Alone'
  BY <1>1, <1>2 DEF TypeOK, Alone, Owned, Registering
<1>8. Shown'
  BY <1>1, <1>2 DEF IInv, TypeOK, Shown, Serving, Alone, Owned, Shaped, Registering, Cleaning
<1>9. Excused'
  BY <1>1, <1>2 DEF IInv, TypeOK, Excused, Travels, Left, Known, Serving, Shaped, Counted, Registering
<1>10. RightDevice'
  BY <1>1, <1>2 DEF TypeOK, RightDevice
<1>11. OnlyEarlyAnswersLost'
  BY <1>1, <1>2 DEF IInv, TypeOK, OnlyEarlyAnswersLost
<1>12. NewestListIsTrue'
  <2> SUFFICES ASSUME NEW e \in Watchers, Serving(e)'
               PROVE  Newest(e)' = Online'
    BY DEF NewestListIsTrue
  <2>1. e \in Conns /\ pc[e] # "gone" /\ TRUE
    BY <1>1, <1>2, BoundsAssumption DEF Serving, TypeOK
  <2>2. brx'[e] # <<>> /\ brx'[e][Len(brx'[e])] = Online
    BY <1>1, <1>2, <2>1, BroadcastLast, BoundsAssumption
  <2> QED
    BY <1>1, <2>2 DEF Newest, Online
<1>13. registers' \in [Conns -> Nat]
  BY <1>1, <1>2
<1> QED
  BY <1>3, <1>4, <1>5, <1>6, <1>7, <1>8, <1>9, <1>10, <1>11, <1>12, <1>13 DEF IInv

\* The requester is registered when it asks.
LEMMA RequestStep ==
    ASSUME IInv, NEW c \in Conns, NEW d \in Devices, Request(c, d)
    PROVE  IInv'
<1>1. /\ pc[c] = "loop" /\ current[c] # None /\ pc' = [pc EXCEPT ![c] = "send"]
      /\ requests' = [requests EXCEPT ![c] = @ + 1] /\ requests[c] < MaxRequests
      /\ job' = [job EXCEPT ![c] = d]
      /\ UNCHANGED <<current, peers, channels, sessions, rx, asked, brx, view, registers, lost, overlapped, been>>
  BY DEF Request, Asks, Goto, task, maps, mail, lists, counts, history
<1>2. TypeOK /\ Recorded /\ Alone /\ Shown /\ RightDevice /\ Excused
      /\ registers \in [Conns -> Nat]
  BY DEF IInv
<1>3. TypeOK'
  <2>1. requests' \in [Conns -> 0..MaxRequests]
    BY <1>1, <1>2, CountsType DEF TypeOK
  <2> QED
    BY <1>1, <1>2, <2>1 DEF TypeOK, Points
<1>4. ASSUME NEW e \in Conns PROVE Shaped(e)' /\ Counted(e)'
  BY <1>1, <1>2 DEF IInv, TypeOK, Shaped, Counted, Registering, Cleaning, SessionsReaders
<1>5. ASSUME NEW t \in Devices PROVE Listed(t)' /\ Wired(t)'
  BY <1>1, <1>2 DEF IInv, TypeOK, Listed, Wired, Abandoned, Shaped, Counted, Registering, Cleaning
<1>6. Recorded'
  BY <1>1, <1>2 DEF IInv, TypeOK, Recorded, Abandoned, Shaped, Counted, Registering, Cleaning, SessionIds
<1>7. Alone'
  BY <1>1, <1>2 DEF TypeOK, Alone, Owned, Registering
<1>8. Shown'
  BY <1>1, <1>2 DEF IInv, TypeOK, Shown, Serving, Alone, Owned, Shaped, Registering, Cleaning
<1>9. Excused'
  BY <1>1, <1>2 DEF IInv, TypeOK, Excused, Travels, Left, Known, Serving, Shaped, Counted, Registering
<1>10. RightDevice'
  BY <1>1, <1>2 DEF TypeOK, RightDevice
<1>11. OnlyEarlyAnswersLost'
  BY <1>1, <1>2 DEF IInv, TypeOK, OnlyEarlyAnswersLost
<1>12. NewestListIsTrue'
  BY <1>1, <1>2 DEF IInv, TypeOK, NewestListIsTrue, Untold, Newest, Online, Serving
<1>13. registers' \in [Conns -> Nat]
  BY <1>1, <1>2
<1> QED
  BY <1>3, <1>4, <1>5, <1>6, <1>7, <1>8, <1>9, <1>10, <1>11, <1>12, <1>13 DEF IInv

\* A denial changes no map.
LEMMA RequestDeniedStep ==
    ASSUME IInv, NEW c \in Conns, RequestDenied(c)
    PROVE  IInv'
<1>1. /\ pc[c] = "loop" /\ current[c] # None /\ pc' = [pc EXCEPT ![c] = "deny"]
      /\ requests' = [requests EXCEPT ![c] = @ + 1] /\ requests[c] < MaxRequests
      /\ UNCHANGED <<current, job, peers, channels, sessions, rx, asked, brx, view, registers, lost, overlapped, been>>
  BY DEF RequestDenied, Asks, Goto, task, maps, mail, lists, counts, history
<1>2. TypeOK /\ Recorded /\ Alone /\ Shown /\ RightDevice /\ Excused
      /\ registers \in [Conns -> Nat]
  BY DEF IInv
<1>3. TypeOK'
  <2>1. requests' \in [Conns -> 0..MaxRequests]
    BY <1>1, <1>2, CountsType DEF TypeOK
  <2> QED
    BY <1>1, <1>2, <2>1 DEF TypeOK, Points
<1>4. ASSUME NEW e \in Conns PROVE Shaped(e)' /\ Counted(e)'
  BY <1>1, <1>2 DEF IInv, TypeOK, Shaped, Counted, Registering, Cleaning, SessionsReaders
<1>5. ASSUME NEW t \in Devices PROVE Listed(t)' /\ Wired(t)'
  BY <1>1, <1>2 DEF IInv, TypeOK, Listed, Wired, Abandoned, Shaped, Counted, Registering, Cleaning
<1>6. Recorded'
  BY <1>1, <1>2 DEF IInv, TypeOK, Recorded, Abandoned, Shaped, Counted, Registering, Cleaning, SessionIds
<1>7. Alone'
  BY <1>1, <1>2 DEF TypeOK, Alone, Owned, Registering
<1>8. Shown'
  BY <1>1, <1>2 DEF IInv, TypeOK, Shown, Serving, Alone, Owned, Shaped, Registering, Cleaning
<1>9. Excused'
  BY <1>1, <1>2 DEF IInv, TypeOK, Excused, Travels, Left, Known, Serving, Shaped, Counted, Registering
<1>10. RightDevice'
  BY <1>1, <1>2 DEF TypeOK, RightDevice
<1>11. OnlyEarlyAnswersLost'
  BY <1>1, <1>2 DEF IInv, TypeOK, OnlyEarlyAnswersLost
<1>12. NewestListIsTrue'
  BY <1>1, <1>2 DEF IInv, TypeOK, NewestListIsTrue, Untold, Newest, Online, Serving
<1>13. registers' \in [Conns -> Nat]
  BY <1>1, <1>2
<1> QED
  BY <1>3, <1>4, <1>5, <1>6, <1>7, <1>8, <1>9, <1>10, <1>11, <1>12, <1>13 DEF IInv

\* The guard goes, and nothing else.
LEMMA DeniedStep ==
    ASSUME IInv, NEW c \in Conns, Denied(c)
    PROVE  IInv'
<1>1. /\ pc[c] = "deny" /\ pc' = [pc EXCEPT ![c] = "loop"]
      /\ UNCHANGED <<current, job, peers, channels, sessions, rx, asked, brx, view, requests, registers, lost, overlapped, been>>
  BY DEF Denied, Goto, task, maps, mail, lists, counts, history
<1>2. TypeOK /\ Recorded /\ Alone /\ Shown /\ RightDevice /\ Excused
      /\ registers \in [Conns -> Nat]
  BY DEF IInv
<1>3. TypeOK'
  BY <1>1, <1>2 DEF TypeOK, Points
<1>4. ASSUME NEW e \in Conns PROVE Shaped(e)' /\ Counted(e)'
  BY <1>1, <1>2 DEF IInv, TypeOK, Shaped, Counted, Registering, Cleaning, SessionsReaders
<1>5. ASSUME NEW t \in Devices PROVE Listed(t)' /\ Wired(t)'
  BY <1>1, <1>2 DEF IInv, TypeOK, Listed, Wired, Abandoned, Shaped, Counted, Registering, Cleaning
<1>6. Recorded'
  BY <1>1, <1>2 DEF IInv, TypeOK, Recorded, Abandoned, Shaped, Counted, Registering, Cleaning, SessionIds
<1>7. Alone'
  BY <1>1, <1>2 DEF TypeOK, Alone, Owned, Registering
<1>8. Shown'
  BY <1>1, <1>2 DEF IInv, TypeOK, Shown, Serving, Alone, Owned, Shaped, Registering, Cleaning
<1>9. Excused'
  BY <1>1, <1>2 DEF IInv, TypeOK, Excused, Travels, Left, Known, Serving, Shaped, Counted, Registering
<1>10. RightDevice'
  BY <1>1, <1>2 DEF TypeOK, RightDevice
<1>11. OnlyEarlyAnswersLost'
  BY <1>1, <1>2 DEF IInv, TypeOK, OnlyEarlyAnswersLost
<1>12. NewestListIsTrue'
  BY <1>1, <1>2 DEF IInv, TypeOK, NewestListIsTrue, Untold, Newest, Online, Serving
<1>13. registers' \in [Conns -> Nat]
  BY <1>1, <1>2
<1> QED
  BY <1>3, <1>4, <1>5, <1>6, <1>7, <1>8, <1>9, <1>10, <1>11, <1>12, <1>13 DEF IInv

\* The requester still serves the device it asked for, or has an excuse.
LEMMA RecordSessionStep ==
    ASSUME IInv, NEW c \in Conns, RecordSession(c)
    PROVE  IInv'
<1>1. /\ pc[c] = "record" /\ pc' = [pc EXCEPT ![c] = "loop"]
      /\ SessionsReaders = {}
      /\ sessions' = [s \in DOMAIN sessions \cup {job[c]} |-> s.by]
      /\ job' = [job EXCEPT ![c] = None]
      /\ UNCHANGED <<current, peers, channels, rx, asked, brx, view, requests, registers, lost, overlapped, been>>
  BY DEF RecordSession, WithSession, Goto, task, maps, mail, lists, counts, history
<1>2. TypeOK /\ Recorded /\ Alone /\ Shown /\ RightDevice /\ Excused
      /\ registers \in [Conns -> Nat]
  BY DEF IInv
<1>3. TypeOK'
  <2>1. job[c] \in SessionIds
    BY <1>1 DEF IInv, Shaped
  <2>2. \A s \in SessionIds : s.by \in Devices
    BY DEF SessionIds
  <2> QED
    BY <1>1, <1>2, <2>1, <2>2 DEF TypeOK, Points
<1>4. ASSUME NEW e \in Conns PROVE Shaped(e)' /\ Counted(e)'
  BY <1>1, <1>2 DEF IInv, TypeOK, Shaped, Counted, Registering, Cleaning, SessionsReaders
<1>5. ASSUME NEW t \in Devices PROVE Listed(t)' /\ Wired(t)'
  BY <1>1, <1>2 DEF IInv, TypeOK, Listed, Wired, Abandoned, Shaped, Counted, Registering, Cleaning
<1>6. Recorded'
  BY <1>1, <1>2 DEF IInv, TypeOK, Recorded, Abandoned, Shaped, Counted, Registering, Cleaning, SessionIds
<1>7. Alone'
  BY <1>1, <1>2 DEF TypeOK, Alone, Owned, Registering
<1>8. Shown'
  BY <1>1, <1>2 DEF IInv, TypeOK, Shown, Serving, Alone, Owned, Shaped, Registering, Cleaning
<1>9. Excused'
  BY <1>1, <1>2 DEF IInv, TypeOK, Excused, Travels, Left, Known, Serving, Shaped, Counted, Registering
<1>10. RightDevice'
  BY <1>1, <1>2 DEF TypeOK, RightDevice
<1>11. OnlyEarlyAnswersLost'
  BY <1>1, <1>2 DEF IInv, TypeOK, OnlyEarlyAnswersLost
<1>12. NewestListIsTrue'
  BY <1>1, <1>2 DEF IInv, TypeOK, NewestListIsTrue, Untold, Newest, Online, Serving
<1>13. registers' \in [Conns -> Nat]
  BY <1>1, <1>2
<1> QED
  BY <1>3, <1>4, <1>5, <1>6, <1>7, <1>8, <1>9, <1>10, <1>11, <1>12, <1>13 DEF IInv

\* The entry removed is the task's own, or a rival's.
LEMMA RemovePeerStep ==
    ASSUME IInv, NEW c \in Conns, RemovePeer(c)
    PROVE  IInv'
<1>1. /\ pc[c] = "unpeer" /\ pc' = [pc EXCEPT ![c] = "unchannel"]
      /\ peers' = [peers EXCEPT ![current[c]] = None]
      /\ UNCHANGED <<current, job, channels, sessions, rx, asked, brx, view, requests, registers, lost, overlapped, been>>
  BY DEF RemovePeer, Goto, task, maps, mail, lists, counts, history
<1>2. TypeOK /\ Recorded /\ Alone /\ Shown /\ RightDevice /\ Excused
      /\ registers \in [Conns -> Nat]
  BY DEF IInv
<1>3. TypeOK'
  BY <1>1, <1>2 DEF TypeOK, Points
<1>4. ASSUME NEW e \in Conns PROVE Shaped(e)' /\ Counted(e)'
  BY <1>1, <1>2 DEF IInv, TypeOK, Shaped, Counted, Registering, Cleaning, SessionsReaders
<1>5. ASSUME NEW t \in Devices PROVE Listed(t)' /\ Wired(t)'
  BY <1>1, <1>2 DEF IInv, TypeOK, Listed, Wired, Abandoned, Shaped, Counted, Registering, Cleaning
<1>6. Recorded'
  BY <1>1, <1>2 DEF IInv, TypeOK, Recorded, Abandoned, Shaped, Counted, Registering, Cleaning, SessionIds
<1>7. Alone'
  BY <1>1, <1>2 DEF TypeOK, Alone, Owned, Registering
<1>8. Shown'
  BY <1>1, <1>2 DEF IInv, TypeOK, Shown, Serving, Alone, Owned, Shaped, Registering, Cleaning
<1>9. Excused'
  BY <1>1, <1>2 DEF IInv, TypeOK, Excused, Travels, Left, Known, Serving, Shaped, Counted, Registering
<1>10. RightDevice'
  BY <1>1, <1>2 DEF TypeOK, RightDevice
<1>11. OnlyEarlyAnswersLost'
  BY <1>1, <1>2 DEF IInv, TypeOK, OnlyEarlyAnswersLost
<1>12. NewestListIsTrue'
  BY <1>1, <1>2 DEF IInv, TypeOK, NewestListIsTrue, Untold, Newest, Online, Serving
<1>13. registers' \in [Conns -> Nat]
  BY <1>1, <1>2
<1> QED
  BY <1>3, <1>4, <1>5, <1>6, <1>7, <1>8, <1>9, <1>10, <1>11, <1>12, <1>13 DEF IInv

\* The same of its channel.
LEMMA RemoveChannelStep ==
    ASSUME IInv, NEW c \in Conns, RemoveChannel(c)
    PROVE  IInv'
<1>1. /\ pc[c] = "unchannel" /\ pc' = [pc EXCEPT ![c] = "unsession"]
      /\ channels' = [channels EXCEPT ![current[c]] = None]
      /\ UNCHANGED <<current, job, peers, sessions, rx, asked, brx, view, requests, registers, lost, overlapped, been>>
  BY DEF RemoveChannel, Goto, task, maps, mail, lists, counts, history
<1>2. TypeOK /\ Recorded /\ Alone /\ Shown /\ RightDevice /\ Excused
      /\ registers \in [Conns -> Nat]
  BY DEF IInv
<1>3. TypeOK'
  BY <1>1, <1>2 DEF TypeOK, Points
<1>4. ASSUME NEW e \in Conns PROVE Shaped(e)' /\ Counted(e)'
  BY <1>1, <1>2 DEF IInv, TypeOK, Shaped, Counted, Registering, Cleaning, SessionsReaders
<1>5. ASSUME NEW t \in Devices PROVE Listed(t)' /\ Wired(t)'
  BY <1>1, <1>2 DEF IInv, TypeOK, Listed, Wired, Abandoned, Shaped, Counted, Registering, Cleaning
<1>6. Recorded'
  BY <1>1, <1>2 DEF IInv, TypeOK, Recorded, Abandoned, Shaped, Counted, Registering, Cleaning, SessionIds
<1>7. Alone'
  BY <1>1, <1>2 DEF TypeOK, Alone, Owned, Registering
<1>8. Shown'
  BY <1>1, <1>2 DEF IInv, TypeOK, Shown, Serving, Alone, Owned, Shaped, Registering, Cleaning
<1>9. Excused'
  BY <1>1, <1>2 DEF IInv, TypeOK, Excused, Travels, Left, Known, Serving, Shaped, Counted, Registering
<1>10. RightDevice'
  BY <1>1, <1>2 DEF TypeOK, RightDevice
<1>11. OnlyEarlyAnswersLost'
  BY <1>1, <1>2 DEF IInv, TypeOK, OnlyEarlyAnswersLost
<1>12. NewestListIsTrue'
  BY <1>1, <1>2 DEF IInv, TypeOK, NewestListIsTrue, Untold, Newest, Online, Serving
<1>13. registers' \in [Conns -> Nat]
  BY <1>1, <1>2
<1> QED
  BY <1>3, <1>4, <1>5, <1>6, <1>7, <1>8, <1>9, <1>10, <1>11, <1>12, <1>13 DEF IInv

\* With its sessions, the last of what the task owned is gone.
LEMMA RemoveSessionsStep ==
    ASSUME IInv, NEW c \in Conns, RemoveSessions(c)
    PROVE  IInv'
<1>1. /\ pc[c] = "unsession" /\ pc' = [pc EXCEPT ![c] = "farewell"]
      /\ SessionsReaders = {}
      /\ sessions' = [s \in {s \in DOMAIN sessions : sessions[s] # current[c]} |-> sessions[s]]
      /\ UNCHANGED <<current, job, peers, channels, rx, asked, brx, view, requests, registers, lost, overlapped, been>>
  BY DEF RemoveSessions, Retained, Goto, task, maps, mail, lists, counts, history
<1>2. TypeOK /\ Recorded /\ Alone /\ Shown /\ RightDevice /\ Excused
      /\ registers \in [Conns -> Nat]
  BY DEF IInv
<1>3. TypeOK'
  BY <1>1, <1>2 DEF TypeOK, Points
<1>4. ASSUME NEW e \in Conns PROVE Shaped(e)' /\ Counted(e)'
  BY <1>1, <1>2 DEF IInv, TypeOK, Shaped, Counted, Registering, Cleaning, SessionsReaders
<1>5. ASSUME NEW t \in Devices PROVE Listed(t)' /\ Wired(t)'
  BY <1>1, <1>2 DEF IInv, TypeOK, Listed, Wired, Abandoned, Shaped, Counted, Registering, Cleaning
<1>6. Recorded'
  BY <1>1, <1>2 DEF IInv, TypeOK, Recorded, Abandoned, Shaped, Counted, Registering, Cleaning, SessionIds
<1>7. Alone'
  BY <1>1, <1>2 DEF TypeOK, Alone, Owned, Registering
<1>8. Shown'
  BY <1>1, <1>2 DEF IInv, TypeOK, Shown, Serving, Alone, Owned, Shaped, Registering, Cleaning
<1>9. Excused'
  <2> SUFFICES ASSUME NEW s \in SessionIds, Travels(s)
               PROVE  Left(s)' /\ Known(s)'
    BY <1>1 DEF Excused, Travels
  <2>1. Left(s) /\ Known(s) /\ s.conn \in Conns /\ s.by \in Devices
    BY <1>2 DEF Excused, SessionIds
  <2>2. Left(s)'
    BY <1>1, <1>2, <2>1 DEF Left, TypeOK
  <2>3. CASE s \in DOMAIN sessions' \/ s \notin DOMAIN sessions \/ s.conn = c
    <3>1. CASE s.conn = c
      <4>1. ~Serving(s.conn)'
        BY <1>1, <1>2, <3>1 DEF Serving, TypeOK
      <4> QED
        BY <2>2, <4>1 DEF Known
    <3>2. CASE s \in DOMAIN sessions'
      BY <2>2, <3>2 DEF Known
    <3>3. CASE s \notin DOMAIN sessions /\ s.conn # c
      <4>1. pc'[s.conn] = pc[s.conn] /\ (Serving(s.conn)' <=> Serving(s.conn))
        BY <1>1, <1>2, <2>1, <3>3 DEF Serving, TypeOK
      <4> QED
        BY <1>1, <2>1, <2>2, <3>3, <4>1 DEF Known
    <3> QED
      BY <2>3, <3>1, <3>2, <3>3
  <2>4. CASE s \in DOMAIN sessions /\ s \notin DOMAIN sessions' /\ s.conn # c
    <3>1. current[c] = s.by /\ Owned(c, s.by)
      BY <1>1, <1>2, <2>4 DEF Recorded, Owned
    <3>2. Serving(s.conn) /\ current[s.conn] = s.by => s.conn \in overlapped
      <4>1. Serving(s.conn) /\ current[s.conn] = s.by => Owned(s.conn, s.by)
        BY DEF Serving, Owned
      <4> QED
        BY <2>1, <2>4, <3>1, <4>1, NoRival
    <3> QED
      BY <1>1, <1>2, <2>1, <2>2, <2>4, <3>2 DEF Known, Serving, TypeOK
  <2> QED
    BY <2>2, <2>3, <2>4
<1>10. RightDevice'
  BY <1>1, <1>2 DEF TypeOK, RightDevice
<1>11. OnlyEarlyAnswersLost'
  BY <1>1, <1>2 DEF IInv, TypeOK, OnlyEarlyAnswersLost
<1>12. NewestListIsTrue'
  BY <1>1, <1>2 DEF IInv, TypeOK, NewestListIsTrue, Untold, Newest, Online, Serving
<1>13. registers' \in [Conns -> Nat]
  BY <1>1, <1>2
<1> QED
  BY <1>3, <1>4, <1>5, <1>6, <1>7, <1>8, <1>9, <1>10, <1>11, <1>12, <1>13 DEF IInv

\* The cleanup ends with a true list.
LEMMA FarewellStep ==
    ASSUME IInv, NEW c \in Conns, Farewell(c)
    PROVE  IInv'
<1>1. /\ pc[c] = "farewell" /\ pc' = [pc EXCEPT ![c] = "gone"]
      /\ BroadcastPeers(Watchers \ {c})
      /\ rx' = [rx EXCEPT ![c] = <<>>] /\ asked' = [asked EXCEPT ![c] = {}]
      /\ UNCHANGED <<current, job, peers, channels, sessions, view, requests, registers, lost, overlapped, been>>
  BY DEF Farewell, Goto, task, maps, mail, lists, counts, history
<1>2. TypeOK /\ Recorded /\ Alone /\ Shown /\ RightDevice /\ Excused
      /\ registers \in [Conns -> Nat]
  BY DEF IInv
<1>3. TypeOK'
  <2>1. brx' \in [Conns -> Seq(SUBSET Devices)]
    BY <1>1, <1>2, BroadcastLast, BoundsAssumption
  <2>2. <<>> \in Seq(Messages)
    BY EmptySeq
  <2> QED
    BY <1>1, <1>2, <2>1, <2>2 DEF TypeOK, Points
<1>4. ASSUME NEW e \in Conns PROVE Shaped(e)' /\ Counted(e)'
  BY <1>1, <1>2 DEF IInv, TypeOK, Shaped, Counted, Registering, Cleaning, SessionsReaders
<1>5. ASSUME NEW t \in Devices PROVE Listed(t)' /\ Wired(t)'
  BY <1>1, <1>2 DEF IInv, TypeOK, Listed, Wired, Abandoned, Shaped, Counted, Registering, Cleaning
<1>6. Recorded'
  BY <1>1, <1>2 DEF IInv, TypeOK, Recorded, Abandoned, Shaped, Counted, Registering, Cleaning, SessionIds
<1>7. Alone'
  BY <1>1, <1>2 DEF TypeOK, Alone, Owned, Registering
<1>8. Shown'
  BY <1>1, <1>2 DEF IInv, TypeOK, Shown, Serving, Alone, Owned, Shaped, Registering, Cleaning
<1>9. Excused'
  BY <1>1, <1>2 DEF IInv, TypeOK, Excused, Travels, Left, Known, Serving, Shaped, Counted, Registering
<1>10. RightDevice'
  BY <1>1, <1>2 DEF TypeOK, RightDevice
<1>11. OnlyEarlyAnswersLost'
  BY <1>1, <1>2 DEF IInv, TypeOK, OnlyEarlyAnswersLost
<1>12. NewestListIsTrue'
  <2> SUFFICES ASSUME NEW e \in Watchers, Serving(e)'
               PROVE  Newest(e)' = Online'
    BY DEF NewestListIsTrue
  <2>1. e \in Conns /\ pc[e] # "gone" /\ e # c
    BY <1>1, <1>2, BoundsAssumption DEF Serving, TypeOK
  <2>2. brx'[e] # <<>> /\ brx'[e][Len(brx'[e])] = Online
    BY <1>1, <1>2, <2>1, BroadcastLast, BoundsAssumption
  <2> QED
    BY <1>1, <2>2 DEF Newest, Online
<1>13. registers' \in [Conns -> Nat]
  BY <1>1, <1>2
<1> QED
  BY <1>3, <1>4, <1>5, <1>6, <1>7, <1>8, <1>9, <1>10, <1>11, <1>12, <1>13 DEF IInv

\* A task that ends its loop no longer serves.
LEMMA DisconnectStep ==
    ASSUME IInv, NEW c \in Conns, Disconnect(c)
    PROVE  IInv'
<1>1. /\ pc[c] = "loop"
      /\ pc' = [pc EXCEPT ![c] = IF current[c] # None THEN "unpeer" ELSE "gone"]
      /\ brx' = IF current[c] # None THEN brx ELSE [brx EXCEPT ![c] = <<>>]
      /\ UNCHANGED <<current, job, peers, channels, sessions, rx, asked, view, requests, registers, lost, overlapped, been>>
  BY DEF Disconnect, Goto, task, maps, mail, lists, counts, history
<1>2. TypeOK /\ Recorded /\ Alone /\ Shown /\ RightDevice /\ Excused
      /\ registers \in [Conns -> Nat]
  BY DEF IInv
<1>3. TypeOK'
  BY <1>1, <1>2 DEF TypeOK, Points
<1>4. ASSUME NEW e \in Conns PROVE Shaped(e)' /\ Counted(e)'
  BY <1>1, <1>2 DEF IInv, TypeOK, Shaped, Counted, Registering, Cleaning, SessionsReaders
<1>5. ASSUME NEW t \in Devices PROVE Listed(t)' /\ Wired(t)'
  <2>1. /\ Listed(t) /\ Wired(t)
        /\ peers[t] \in Conns \cup {None} /\ channels[t] \in Conns \cup {None}
    BY <1>2 DEF IInv, TypeOK
  <2>2. t # None
    BY NoneAssumption
  <2>3. \A e \in Conns : Abandoned(e, t)' <=> Abandoned(e, t)
    BY <1>1 DEF Abandoned
  <2>4. Listed(t)'
    BY <1>1, <1>2, <2>1, <2>2, <2>3 DEF Listed, TypeOK
  <2>5. Wired(t)'
    BY <1>1, <1>2, <2>1, <2>2, <2>3 DEF Wired, TypeOK
  <2> QED
    BY <2>4, <2>5
<1>6. Recorded'
  <2>1. \A s \in DOMAIN sessions : s.by # None /\ s.conn \in Conns
    BY <1>2, NoneAssumption DEF TypeOK, SessionIds
  <2> QED
    BY <1>1, <1>2, <2>1 DEF Recorded, Abandoned, TypeOK
<1>7. Alone'
  BY <1>1, <1>2 DEF TypeOK, Alone, Owned, Registering
<1>8. Shown'
  BY <1>1, <1>2 DEF IInv, TypeOK, Shown, Serving, Alone, Owned, Shaped, Registering, Cleaning
<1>9. Excused'
  BY <1>1, <1>2 DEF IInv, TypeOK, Excused, Travels, Left, Known, Serving, Shaped, Counted, Registering
<1>10. RightDevice'
  BY <1>1, <1>2 DEF TypeOK, RightDevice
<1>11. OnlyEarlyAnswersLost'
  BY <1>1, <1>2 DEF IInv, TypeOK, OnlyEarlyAnswersLost
<1>12. NewestListIsTrue'
  BY <1>1, <1>2 DEF IInv, TypeOK, NewestListIsTrue, Untold, Newest, Online, Serving
<1>13. registers' \in [Conns -> Nat]
  BY <1>1, <1>2
<1> QED
  BY <1>3, <1>4, <1>5, <1>6, <1>7, <1>8, <1>9, <1>10, <1>11, <1>12, <1>13 DEF IInv

\* Lists are read in order, so the last one stays the last.
LEMMA RecvBroadcastStep ==
    ASSUME IInv, NEW c \in Conns, RecvBroadcast(c)
    PROVE  IInv'
<1>1. /\ pc[c] = "loop" /\ brx[c] # <<>>
      /\ view' = [view EXCEPT ![c] = Head(brx[c])] /\ brx' = [brx EXCEPT ![c] = Tail(@)]
      /\ UNCHANGED <<pc, current, job, peers, channels, sessions, rx, asked, requests, registers, lost, overlapped, been>>
  BY DEF RecvBroadcast, Goto, task, maps, mail, lists, counts, history
<1>2. TypeOK /\ Recorded /\ Alone /\ Shown /\ RightDevice /\ Excused
      /\ registers \in [Conns -> Nat]
  BY DEF IInv
<1>3. TypeOK'
  BY <1>1, <1>2 DEF TypeOK, Points
<1>4. ASSUME NEW e \in Conns PROVE Shaped(e)' /\ Counted(e)'
  BY <1>1, <1>2 DEF IInv, TypeOK, Shaped, Counted, Registering, Cleaning, SessionsReaders
<1>5. ASSUME NEW t \in Devices PROVE Listed(t)' /\ Wired(t)'
  BY <1>1, <1>2 DEF IInv, TypeOK, Listed, Wired, Abandoned, Shaped, Counted, Registering, Cleaning
<1>6. Recorded'
  BY <1>1, <1>2 DEF IInv, TypeOK, Recorded, Abandoned, Shaped, Counted, Registering, Cleaning, SessionIds
<1>7. Alone'
  BY <1>1, <1>2 DEF TypeOK, Alone, Owned, Registering
<1>8. Shown'
  BY <1>1, <1>2 DEF IInv, TypeOK, Shown, Serving, Alone, Owned, Shaped, Registering, Cleaning
<1>9. Excused'
  BY <1>1, <1>2 DEF IInv, TypeOK, Excused, Travels, Left, Known, Serving, Shaped, Counted, Registering
<1>10. RightDevice'
  BY <1>1, <1>2 DEF TypeOK, RightDevice
<1>11. OnlyEarlyAnswersLost'
  BY <1>1, <1>2 DEF IInv, TypeOK, OnlyEarlyAnswersLost
<1>12. NewestListIsTrue'
  <2>1. brx[c] \in Seq(SUBSET Devices)
    BY <1>2 DEF TypeOK
  <2>2. /\ Tail(brx[c]) \in Seq(SUBSET Devices)
        /\ Len(Tail(brx[c])) = Len(brx[c]) - 1
        /\ \A i \in 1..Len(Tail(brx[c])) : Tail(brx[c])[i] = brx[c][i + 1]
        /\ Head(brx[c]) = brx[c][1]
        /\ Len(brx[c]) \in Nat \ {0}
    BY <1>1, <2>1, HeadTailProperties, LenProperties, EmptySeq
  <2>3. Newest(c)' = Newest(c)
    <3>1. CASE Tail(brx[c]) = <<>>
      <4>1. Len(brx[c]) = 1
        <5> DEFINE n == Len(brx[c])
        <5>1. n - 1 = 0
          BY <2>2, <3>1, EmptySeq, Zenon
        <5>2. n \in Nat
          BY <2>2
        <5> HIDE DEF n
        <5>3. n = 1
          BY <5>1, <5>2
        <5> QED
          BY <5>3 DEF n
      <4> QED
        BY <1>1, <1>2, <2>2, <3>1, <4>1 DEF Newest, TypeOK
    <3>2. CASE Tail(brx[c]) # <<>>
      <4>1. Len(Tail(brx[c])) \in 1..Len(Tail(brx[c]))
        BY <2>1, <2>2, <3>2, LenProperties, EmptySeq
      <4>2. Tail(brx[c])[Len(Tail(brx[c]))] = brx[c][Len(brx[c])]
        BY <2>2, <4>1
      <4> QED
        BY <1>1, <1>2, <3>2, <4>2 DEF Newest, TypeOK
    <3> QED
      BY <3>1, <3>2
  <2>4. \A e \in Conns \ {c} : Newest(e)' = Newest(e)
    BY <1>1, <1>2 DEF Newest, TypeOK
  <2>5. NewestListIsTrue /\ Watchers \subseteq Conns
    BY BoundsAssumption DEF IInv
  <2> QED
    BY <1>1, <2>3, <2>4, <2>5 DEF NewestListIsTrue, Untold, Online, Serving
<1>13. registers' \in [Conns -> Nat]
  BY <1>1, <1>2
<1> QED
  BY <1>3, <1>4, <1>5, <1>6, <1>7, <1>8, <1>9, <1>10, <1>11, <1>12, <1>13 DEF IInv

\* A session id that is taken from a channel still travels, with the client.
LEMMA RecvPeerMsgStep ==
    ASSUME IInv, NEW c \in Conns, RecvPeerMsg(c)
    PROVE  IInv'
<1>1. /\ pc[c] = "loop" /\ rx[c] # <<>>
      /\ rx' = [rx EXCEPT ![c] = Tail(@)]
      /\ asked' = [asked EXCEPT ![c] =
                      IF Head(rx[c]).kind = "request" THEN @ \cup {Head(rx[c]).sid} ELSE @]
      /\ UNCHANGED <<pc, current, job, peers, channels, sessions, brx, view, requests, registers, lost, overlapped, been>>
  BY DEF RecvPeerMsg, Goto, task, maps, mail, lists, counts, history
<1>2. TypeOK /\ Recorded /\ Alone /\ Shown /\ RightDevice /\ Excused
      /\ registers \in [Conns -> Nat]
  BY DEF IInv
<1>3. TypeOK'
  <2>1. rx[c] \in Seq(Messages)
    BY <1>2 DEF TypeOK
  <2>2. Head(rx[c]) \in Messages /\ Tail(rx[c]) \in Seq(Messages)
    BY <1>1, <2>1, HeadTailProperties
  <2>3. Head(rx[c]).sid \in SessionIds
    BY <2>2 DEF Messages
  <2> QED
    BY <1>1, <1>2, <2>2, <2>3 DEF TypeOK
<1>4. ASSUME NEW e \in Conns PROVE Shaped(e)' /\ Counted(e)'
  BY <1>1, <1>2 DEF IInv, TypeOK, Shaped, Counted, Registering, Cleaning, SessionsReaders
<1>5. ASSUME NEW t \in Devices PROVE Listed(t)' /\ Wired(t)'
  BY <1>1, <1>2 DEF IInv, TypeOK, Listed, Wired, Abandoned, Shaped, Counted, Registering, Cleaning
<1>6. Recorded'
  BY <1>1, <1>2 DEF IInv, TypeOK, Recorded, Abandoned, Shaped, Counted, Registering, Cleaning, SessionIds
<1>7. Alone'
  BY <1>1, <1>2 DEF TypeOK, Alone, Owned, Registering
<1>8. Shown'
  BY <1>1, <1>2 DEF IInv, TypeOK, Shown, Serving, Alone, Owned, Shaped, Registering, Cleaning
<1>9. Excused'
  BY <1>1, <1>2 DEF IInv, TypeOK, Excused, Travels, Left, Known, Serving, Shaped, Counted, Registering
<1>10. RightDevice'
  BY <1>1, <1>2 DEF TypeOK, RightDevice
<1>11. OnlyEarlyAnswersLost'
  BY <1>1, <1>2 DEF IInv, TypeOK, OnlyEarlyAnswersLost
<1>12. NewestListIsTrue'
  BY <1>1, <1>2 DEF IInv, TypeOK, NewestListIsTrue, Untold, Newest, Online, Serving
<1>13. registers' \in [Conns -> Nat]
  BY <1>1, <1>2
<1> QED
  BY <1>3, <1>4, <1>5, <1>6, <1>7, <1>8, <1>9, <1>10, <1>11, <1>12, <1>13 DEF IInv

\* A session id begins to travel while its handler is still to record it.
LEMMA SendRequestStep ==
    ASSUME IInv, NEW c \in Conns, SendRequest(c)
    PROVE  IInv'
<1> DEFINE t == job[c]
           e == channels[t]
           s == [by |-> current[c], conn |-> c, n |-> requests[c]]
<1>1. /\ pc[c] = "send" /\ pc' = [pc EXCEPT ![c] = "record"]
      /\ rx' = IF e = None \/ pc[e] = "gone" THEN rx
               ELSE [rx EXCEPT ![e] = Append(@, ToTarget(t, s))]
      /\ job' = [job EXCEPT ![c] = s]
      /\ UNCHANGED <<current, peers, channels, sessions, asked, brx, view, requests, registers, lost, overlapped, been>>
  BY DEF SendRequest, RouteOf, Goto, maps, lists, counts, history
<1>2. /\ TypeOK /\ Recorded /\ Alone /\ Shown /\ RightDevice /\ Excused
      /\ registers \in [Conns -> Nat]
  BY DEF IInv
<1>3. /\ t \in Devices /\ s \in SessionIds
      /\ s.conn = c /\ s.by = current[c] /\ current[c] # None
  <2>1. t \in Devices /\ requests[c] \in 1..MaxRequests /\ current[c] # None
    BY <1>1, <1>2, CountsType DEF IInv, Shaped, TypeOK
  <2>2. current[c] \in Devices
    BY <1>2, <2>1 DEF TypeOK
  <2> QED
    BY <2>1, <2>2 DEF SessionIds
<1>4. e \in Conns \cup {None} /\ (e # None => t \in been[e])
  BY <1>2, <1>3 DEF IInv, TypeOK, Wired
<1>5. ToTarget(t, s) \in Messages
  BY <1>3 DEF ToTarget, Messages
<1>6. /\ rx' \in [Conns -> Seq(Messages)]
      /\ \A b \in Conns : rx'[b] = rx[b] \/ (b = e /\ rx'[b] = Append(rx[b], ToTarget(t, s)))
  <2>1. \A b \in Conns : Append(rx[b], ToTarget(t, s)) \in Seq(Messages)
    BY <1>2, <1>5, AppendProperties DEF TypeOK
  <2> QED
    BY <1>1, <1>2, <1>4, <2>1 DEF TypeOK
<1>7. \A b \in Conns : \A i \in DOMAIN rx'[b] :
         \/ i \in DOMAIN rx[b] /\ rx'[b][i] = rx[b][i]
         \/ b = e /\ rx'[b][i] = ToTarget(t, s)
  <2> SUFFICES ASSUME NEW b \in Conns, NEW i \in DOMAIN rx'[b]
               PROVE  \/ i \in DOMAIN rx[b] /\ rx'[b][i] = rx[b][i]
                      \/ b = e /\ rx'[b][i] = ToTarget(t, s)
    OBVIOUS
  <2>1. rx[b] \in Seq(Messages)
    BY <1>2 DEF TypeOK
  <2>2. CASE rx'[b] = rx[b]
    BY <2>2
  <2>3. CASE b = e /\ rx'[b] = Append(rx[b], ToTarget(t, s))
    BY <1>5, <2>1, <2>3, AppendProperties, LenProperties
  <2> QED
    BY <1>6, <2>2, <2>3
<1>8. TypeOK'
  BY <1>1, <1>2, <1>3, <1>6 DEF TypeOK, Points
<1>9. ASSUME NEW b \in Conns PROVE Shaped(b)' /\ Counted(b)'
  BY <1>1, <1>2, <1>3 DEF IInv, TypeOK, Shaped, Counted, Registering, Cleaning
<1>10. ASSUME NEW d \in Devices PROVE Listed(d)' /\ Wired(d)'
  BY <1>1, <1>2 DEF IInv, TypeOK, Listed, Wired, Abandoned
<1>11. Recorded'
  BY <1>1, <1>2 DEF TypeOK, Recorded, Abandoned
<1>12. Alone'
  BY <1>1, <1>2 DEF TypeOK, Alone, Owned, Registering
<1>13. Shown'
  BY <1>1, <1>2 DEF TypeOK, Shown, Serving
<1>14. Excused'
  <2> SUFFICES ASSUME NEW x \in SessionIds, Travels(x)'
               PROVE  Left(x)' /\ Known(x)'
    BY DEF Excused
  <2>1. Travels(x) \/ x = s
    <3>1. PICK b \in Conns :
             x \in asked[b] \/ \E i \in DOMAIN rx'[b] : rx'[b][i].kind = "request" /\ rx'[b][i].sid = x
      BY <1>1 DEF Travels
    <3>2. ToTarget(t, s).sid = s
      BY DEF ToTarget
    <3> QED
      BY <1>7, <3>1, <3>2 DEF Travels
  <2>2. CASE x = s
    BY <1>1, <1>2, <1>3, <2>2 DEF TypeOK, Left, Known
  <2>3. CASE Travels(x)
    <3>1. Left(x) /\ Known(x) /\ x.conn \in Conns
      BY <1>2, <2>3 DEF Excused, SessionIds
    <3>2. Left(x)'
      BY <1>1, <1>2, <3>1 DEF TypeOK, Left
    <3>3. (Serving(x.conn)' <=> Serving(x.conn)) /\ (pc[x.conn] = "record" => x.conn # c)
      BY <1>1, <1>2, <3>1 DEF TypeOK, Serving
    <3>4. Known(x)'
      BY <1>1, <1>2, <3>1, <3>3 DEF TypeOK, Known
    <3> QED
      BY <3>2, <3>4
  <2> QED
    BY <2>1, <2>2, <2>3
<1>15. RightDevice'
  BY <1>1, <1>2, <1>4, <1>7, NoneAssumption DEF RightDevice, ToTarget
<1>16. OnlyEarlyAnswersLost'
  BY <1>1 DEF IInv, OnlyEarlyAnswersLost
<1>17. NewestListIsTrue'
  BY <1>1, <1>2, BoundsAssumption DEF IInv, TypeOK, NewestListIsTrue, Untold, Newest, Online, Serving
<1> QED
  BY <1>1, <1>2, <1>8, <1>9, <1>10, <1>11, <1>12, <1>13, <1>14, <1>15, <1>16, <1>17 DEF IInv

\* An answer that is lost was asked for by a session nobody recorded, and that
\* has an excuse.
LEMMA LoseExcused ==
    ASSUME IInv, NEW s \in SessionIds,
           Serving(s.conn) /\ current[s.conn] = s.by =>
               \/ Unrecorded(s)
               \/ s.conn \in overlapped \/ registers[s.conn] > 2,
           lost' = Lose(s), UNCHANGED <<overlapped, registers>>
    PROVE  /\ lost' \subseteq [sid : SessionIds, early : BOOLEAN]
           /\ OnlyEarlyAnswersLost'
<1>1. s.conn \in Conns /\ Unrecorded(s) \in BOOLEAN
  BY DEF SessionIds, Unrecorded
<1>2. CASE Serving(s.conn) /\ current[s.conn] = s.by
  BY <1>1, <1>2 DEF Lose, IInv, TypeOK, OnlyEarlyAnswersLost
<1>3. CASE ~(Serving(s.conn) /\ current[s.conn] = s.by)
  BY <1>3 DEF Lose, IInv, TypeOK, OnlyEarlyAnswersLost
<1> QED
  BY <1>2, <1>3

\* An answer finds its session, or its loss is excused.
LEMMA RespondStep ==
    ASSUME IInv, NEW c \in Conns, NEW s \in asked[c], Respond(c, s)
    PROVE  IInv'
<1>1. /\ pc[c] = "loop" /\ asked' = [asked EXCEPT ![c] = @ \ {s}]
      /\ \/ /\ s \in DOMAIN sessions /\ pc' = [pc EXCEPT ![c] = "respond"]
            /\ job' = [job EXCEPT ![c] = s] /\ lost' = lost
         \/ /\ s \notin DOMAIN sessions /\ lost' = Lose(s) /\ UNCHANGED <<pc, job>>
      /\ UNCHANGED <<current, peers, channels, sessions, rx, brx, view, requests, registers, overlapped, been>>
  BY DEF Respond, Goto, maps, lists, counts
<1>2. /\ TypeOK /\ Recorded /\ Alone /\ Shown /\ RightDevice /\ Excused
      /\ registers \in [Conns -> Nat]
  BY DEF IInv
<1>3. s \in SessionIds /\ Travels(s)
  BY <1>2 DEF TypeOK, Travels
<1>4. lost' \subseteq [sid : SessionIds, early : BOOLEAN] /\ OnlyEarlyAnswersLost'
  <2>1. CASE lost' = lost
    BY <1>1, <2>1 DEF IInv, TypeOK, OnlyEarlyAnswersLost
  <2>2. CASE s \notin DOMAIN sessions /\ lost' = Lose(s)
    <3>1. Known(s)
      BY <1>2, <1>3 DEF Excused
    <3>2. Serving(s.conn) /\ current[s.conn] = s.by =>
              \/ Unrecorded(s)
              \/ s.conn \in overlapped \/ registers[s.conn] > 2
      BY <2>2, <3>1 DEF Known, Unrecorded
    <3> QED
      BY <1>1, <1>3, <2>2, <3>2, LoseExcused
  <2> QED
    BY <1>1, <2>1, <2>2
<1>5. TypeOK'
  <2>1. pc' \in [Conns -> Points] /\ job' \in [Conns -> Devices \cup SessionIds \cup {None}]
    <3>1. /\ pc' = pc \/ pc' = [pc EXCEPT ![c] = "respond"]
          /\ job' = job \/ job' = [job EXCEPT ![c] = s]
      BY <1>1
    <3>2. pc' \in [Conns -> Points]
      BY <1>2, <3>1 DEF TypeOK, Points
    <3>3. job' \in [Conns -> Devices \cup SessionIds \cup {None}]
      BY <1>2, <1>3, <3>1 DEF TypeOK
    <3> QED
      BY <3>2, <3>3
  <2>2. asked' \in [Conns -> SUBSET SessionIds]
    BY <1>1, <1>2 DEF TypeOK
  <2> QED
    BY <1>1, <1>2, <1>4, <2>1, <2>2 DEF TypeOK
<1>6. /\ \A b \in Conns : pc'[b] = pc[b] \/ (b = c /\ pc'[b] = "respond" /\ pc[b] = "loop")
      /\ \A b \in Conns : pc'[b] # "respond" => job'[b] = job[b]
      /\ pc'[c] = "respond" => job'[c] \in DOMAIN sessions
  BY <1>1, <1>2 DEF TypeOK, IInv, Shaped
<1>7. ASSUME NEW b \in Conns PROVE Shaped(b)' /\ Counted(b)'
  BY <1>1, <1>2, <1>6 DEF IInv, TypeOK, Shaped, Counted, Registering, Cleaning
<1>8. ASSUME NEW d \in Devices PROVE Listed(d)' /\ Wired(d)'
  BY <1>1, <1>2, <1>6 DEF IInv, TypeOK, Listed, Wired, Abandoned
<1>9. Recorded'
  BY <1>1, <1>2, <1>6 DEF TypeOK, Recorded, Abandoned, SessionIds
<1>10. \A b \in Conns : /\ Serving(b)' <=> Serving(b)
                        /\ \A d \in Devices : Owned(b, d)' <=> Owned(b, d)
                        /\ Untold(b)' <=> Untold(b)
  BY <1>1, <1>6 DEF Serving, Owned, Registering, Untold
<1>11. Alone'
  BY <1>1, <1>2, <1>10 DEF Alone
<1>12. Shown'
  BY <1>1, <1>2, <1>6, <1>10 DEF Shown
<1>13. Excused'
  <2> SUFFICES ASSUME NEW x \in SessionIds, Travels(x)'
               PROVE  Left(x)' /\ Known(x)'
    BY DEF Excused
  <2>1. Travels(x)
    BY <1>1, <1>2 DEF Travels, TypeOK
  <2>2. Left(x) /\ Known(x) /\ x.conn \in Conns
    BY <1>2, <2>1 DEF Excused, SessionIds
  <2>3. Left(x)'
    BY <1>1, <1>6, <2>2 DEF Left
  <2>4. Known(x)'
    BY <1>1, <1>6, <1>10, <2>2 DEF Known
  <2> QED
    BY <2>3, <2>4
<1>14. RightDevice'
  BY <1>1, <1>2 DEF RightDevice
<1>15. NewestListIsTrue'
  BY <1>1, <1>2, <1>10, BoundsAssumption DEF IInv, TypeOK, NewestListIsTrue, Newest, Online
<1> QED
  BY <1>1, <1>2, <1>4, <1>5, <1>7, <1>8, <1>9, <1>11, <1>12, <1>13, <1>14, <1>15 DEF IInv

\* An answer finds its requester's channel, or its loss is excused.
LEMMA RouteResponseStep ==
    ASSUME IInv, NEW c \in Conns, RouteResponse(c)
    PROVE  IInv'
<1> DEFINE s == job[c]
           e == channels[sessions[s]]
<1>1. /\ pc[c] = "respond" /\ pc' = [pc EXCEPT ![c] = "loop"]
      /\ job' = [job EXCEPT ![c] = None]
      /\ \/ /\ e = None \/ pc[e] = "gone"
            /\ lost' = Lose(s) /\ rx' = rx
         \/ /\ e # None /\ pc[e] # "gone"
            /\ rx' = [rx EXCEPT ![e] = Append(@, ToRequester(s))] /\ lost' = lost
      /\ UNCHANGED <<current, peers, channels, sessions, asked, brx, view, requests, registers, overlapped, been>>
  BY DEF RouteResponse, Goto, maps, lists, counts
<1>2. /\ TypeOK /\ Recorded /\ Alone /\ Shown /\ RightDevice /\ Excused
      /\ registers \in [Conns -> Nat]
  BY DEF IInv
<1>3. /\ s \in DOMAIN sessions /\ s \in SessionIds
      /\ sessions[s] = s.by /\ s.by \in Devices /\ s.conn \in Conns
  <2>1. s \in DOMAIN sessions
    BY <1>1 DEF IInv, Shaped
  <2>2. s \in SessionIds
    BY <1>2, <2>1 DEF TypeOK
  <2> QED
    BY <1>2, <2>1, <2>2 DEF Recorded, SessionIds
<1>4. e \in Conns \cup {None} /\ (e # None => s.by \in been[e])
  BY <1>2, <1>3 DEF IInv, TypeOK, Wired
<1>5. ToRequester(s) \in Messages
  BY <1>3 DEF ToRequester, Messages
<1>6. /\ rx' \in [Conns -> Seq(Messages)]
      /\ \A b \in Conns : rx'[b] = rx[b] \/ (b = e /\ rx'[b] = Append(rx[b], ToRequester(s)))
  <2>1. \A b \in Conns : Append(rx[b], ToRequester(s)) \in Seq(Messages)
    BY <1>2, <1>5, AppendProperties DEF TypeOK
  <2> QED
    BY <1>1, <1>2, <1>4, <2>1 DEF TypeOK
<1>7. \A b \in Conns : \A i \in DOMAIN rx'[b] :
         \/ i \in DOMAIN rx[b] /\ rx'[b][i] = rx[b][i]
         \/ b = e /\ rx'[b][i] = ToRequester(s)
  <2> SUFFICES ASSUME NEW b \in Conns, NEW i \in DOMAIN rx'[b]
               PROVE  \/ i \in DOMAIN rx[b] /\ rx'[b][i] = rx[b][i]
                      \/ b = e /\ rx'[b][i] = ToRequester(s)
    OBVIOUS
  <2>1. rx[b] \in Seq(Messages)
    BY <1>2 DEF TypeOK
  <2>2. CASE rx'[b] = rx[b]
    BY <2>2
  <2>3. CASE b = e /\ rx'[b] = Append(rx[b], ToRequester(s))
    BY <1>5, <2>1, <2>3, AppendProperties, LenProperties
  <2> QED
    BY <1>6, <2>2, <2>3
<1>8. lost' \subseteq [sid : SessionIds, early : BOOLEAN] /\ OnlyEarlyAnswersLost'
  <2>1. CASE lost' = lost
    BY <1>1, <2>1 DEF IInv, TypeOK, OnlyEarlyAnswersLost
  <2>2. CASE (e = None \/ pc[e] = "gone") /\ lost' = Lose(s)
    <3>1. Serving(s.conn) /\ current[s.conn] = s.by => s.conn \in overlapped
      <4> SUFFICES ASSUME Serving(s.conn), current[s.conn] = s.by, s.conn \notin overlapped
                   PROVE  FALSE
        OBVIOUS
      <4>1. e = s.conn
        BY <1>2, <1>3 DEF Shown
      <4>2. pc[s.conn] # "gone" /\ s.conn # None
        BY <1>3, NoneAssumption DEF Serving
      <4> QED
        BY <2>2, <4>1, <4>2
    <3> QED
      BY <1>1, <1>3, <2>2, <3>1, LoseExcused
  <2> QED
    BY <1>1, <2>1, <2>2
<1>9. TypeOK'
  BY <1>1, <1>2, <1>6, <1>8 DEF TypeOK, Points
<1>10. ASSUME NEW b \in Conns PROVE Shaped(b)' /\ Counted(b)'
  BY <1>1, <1>2 DEF IInv, TypeOK, Shaped, Counted, Registering, Cleaning
<1>11. ASSUME NEW d \in Devices PROVE Listed(d)' /\ Wired(d)'
  BY <1>1, <1>2 DEF IInv, TypeOK, Listed, Wired, Abandoned
<1>12. Recorded'
  BY <1>1, <1>2 DEF TypeOK, Recorded, Abandoned
<1>13. Alone'
  BY <1>1, <1>2 DEF TypeOK, Alone, Owned, Registering
<1>14. Shown'
  BY <1>1, <1>2 DEF TypeOK, Shown, Serving
<1>15. Excused'
  <2> SUFFICES ASSUME NEW x \in SessionIds, Travels(x)'
               PROVE  Left(x)' /\ Known(x)'
    BY DEF Excused
  <2>1. Travels(x)
    BY <1>1, <1>7 DEF Travels, ToRequester
  <2>2. Left(x) /\ Known(x) /\ x.conn \in Conns
    BY <1>2, <2>1 DEF Excused, SessionIds
  <2>3. Left(x)'
    BY <1>1, <1>2, <2>2 DEF TypeOK, Left
  <2>4. (Serving(x.conn)' <=> Serving(x.conn)) /\ (pc[x.conn] = "record" => x.conn # c)
    BY <1>1, <1>2, <2>2 DEF TypeOK, Serving
  <2>5. Known(x)'
    BY <1>1, <1>2, <2>2, <2>4 DEF TypeOK, Known
  <2> QED
    BY <2>3, <2>5
<1>16. RightDevice'
  BY <1>1, <1>2, <1>4, <1>7, NoneAssumption DEF RightDevice, ToRequester
<1>17. NewestListIsTrue'
  BY <1>1, <1>2, BoundsAssumption DEF IInv, TypeOK, NewestListIsTrue, Untold, Newest, Online, Serving
<1> QED
  BY <1>1, <1>2, <1>8, <1>9, <1>10, <1>11, <1>12, <1>13, <1>14, <1>15, <1>16, <1>17 DEF IInv

LEMMA InitIInv == Init => IInv
<1> SUFFICES ASSUME Init PROVE IInv
  OBVIOUS
<1>1. TypeOK /\ registers \in [Conns -> Nat]
  BY EmptySeq, BoundsAssumption DEF Init, TypeOK, Points
<1>2. \A c \in Conns : Shaped(c) /\ Counted(c)
  BY DEF Init, Shaped, Counted, Registering, Cleaning
<1>3. \A d \in Devices : Listed(d) /\ Wired(d)
  BY DEF Init, Listed, Wired
<1>4. Recorded /\ Shown /\ OnlyEarlyAnswersLost
  BY DEF Init, Recorded, Shown, Serving, OnlyEarlyAnswersLost
<1>5. Alone
  BY NoneAssumption DEF Init, Alone, Owned, Registering
<1>6. Excused /\ RightDevice
  BY DEF Init, Excused, Travels, RightDevice
<1>7. NewestListIsTrue
  BY BoundsAssumption DEF Init, NewestListIsTrue, Serving
<1> QED
  BY <1>1, <1>2, <1>3, <1>4, <1>5, <1>6, <1>7 DEF IInv

LEMMA StutterStep ==
    ASSUME IInv, UNCHANGED vars
    PROVE  IInv'
<1>1. UNCHANGED <<pc, current, job, peers, channels, sessions, rx, asked, brx, view,
                  requests, registers, lost, overlapped, been>>
  BY DEF vars, task, maps, mail, lists, counts, history
<1>2. TypeOK' /\ registers' \in [Conns -> Nat]
  BY <1>1 DEF IInv, TypeOK
<1>3. \A c \in Conns : Shaped(c)' /\ Counted(c)'
  BY <1>1 DEF IInv, Shaped, Counted, Registering
<1>4. \A d \in Devices : Listed(d)' /\ Wired(d)'
  BY <1>1 DEF IInv, Listed, Wired, Abandoned
<1>5. Recorded' /\ Alone' /\ Shown'
  BY <1>1 DEF IInv, Recorded, Abandoned, Alone, Owned, Registering, Shown, Serving
<1>6. Excused'
  BY <1>1 DEF IInv, Excused, Travels, Left, Known, Serving
<1>7. RightDevice' /\ OnlyEarlyAnswersLost'
  BY <1>1 DEF IInv, RightDevice, OnlyEarlyAnswersLost
<1>8. NewestListIsTrue'
  BY <1>1 DEF IInv, NewestListIsTrue, Untold, Newest, Online, Serving
<1> QED
  BY <1>2, <1>3, <1>4, <1>5, <1>6, <1>7, <1>8 DEF IInv

\* Every step keeps the invariant.
LEMMA NextIInv == IInv /\ [Next]_vars => IInv'
<1> SUFFICES ASSUME IInv, [Next]_vars PROVE IInv'
  OBVIOUS
<1>1. ASSUME NEW c \in Conns, NEW d \in Devices, Register(c, d) \/ Request(c, d)
      PROVE  IInv'
  BY <1>1, RegisterStep, RequestStep
<1>2. ASSUME NEW c \in Conns, RequestDenied(c) \/ (\E s \in asked[c] : Respond(c, s))
      PROVE  IInv'
  BY <1>2, RequestDeniedStep, RespondStep
<1>3. ASSUME NEW c \in Conns, RecvBroadcast(c) \/ RecvPeerMsg(c) \/ Disconnect(c)
      PROVE  IInv'
  BY <1>3, RecvBroadcastStep, RecvPeerMsgStep, DisconnectStep
<1>4. ASSUME NEW c \in Conns, Handle(c)
      PROVE  IInv'
  BY <1>4, InsertPeerStep, InsertChannelStep, AnnounceStep, DeniedStep, SendRequestStep,
     RecordSessionStep, RouteResponseStep, RemovePeerStep, RemoveChannelStep,
     RemoveSessionsStep, FarewellStep DEF Handle
<1>5. ASSUME UNCHANGED vars
      PROVE  IInv'
  BY <1>5, StutterStep
<1> QED
  BY <1>1, <1>2, <1>3, <1>4, <1>5 DEF Next, Finished

-----------------------------------------------------------------------------
(* The theorems.                                                           *)

\* The invariant holds in every reachable state.
THEOREM Inductive == Spec => []IInv
  BY InitIInv, NextIInv, PTL DEF Spec

\* Every variable keeps its type: what a handler works on is what the step it
\* is at expects.
THEOREM TypeCorrect == Spec => []TypeOK
<1>1. IInv => TypeOK
  BY DEF IInv
<1> QED
  BY <1>1, Inductive, PTL

\* Requests reach the target only, answers the requester only (signaling.rs:239,
\* 255): only connections that have registered as the device they are for.
THEOREM RoutesToDevice == Spec => []RightDevice
<1>1. IInv => RightDevice
  BY DEF IInv
<1> QED
  BY <1>1, Inductive, PTL

\* The three maps hold entries of running tasks, and what connections left of
\* devices they were and are no longer, whatever falls between the four steps of
\* a cleanup.
THEOREM NothingLeftBehind == Spec => []EntriesAreLive
<1>1. IInv => EntriesAreLive
  <2> SUFFICES ASSUME IInv PROVE EntriesAreLive
    OBVIOUS
  <2>1. TypeOK /\ Recorded
    BY DEF IInv
  <2>2. ASSUME NEW d \in Devices, peers[d] # None
        PROVE  Owned(peers[d], d) \/ Abandoned(peers[d], d)
    BY <2>1, <2>2 DEF IInv, TypeOK, Listed, Owned, Registering
  <2>3. ASSUME NEW d \in Devices, channels[d] # None
        PROVE  Owned(channels[d], d) \/ Abandoned(channels[d], d)
    BY <2>1, <2>3 DEF IInv, TypeOK, Wired, Owned
  <2>4. ASSUME NEW s \in DOMAIN sessions
        PROVE  sessions[s] = s.by /\ (Owned(s.conn, s.by) \/ Abandoned(s.conn, s.by))
    BY <2>1 DEF Recorded, Owned
  <2> QED
    BY <2>2, <2>3, <2>4 DEF EntriesAreLive
<1> QED
  BY <1>1, Inductive, PTL

\* A registered device that never had two tasks at a time is listed and can be
\* reached, however many other devices come and go.
THEOREM AloneIsOnline == Spec => []RegisteredAloneIsOnline
<1>1. IInv => RegisteredAloneIsOnline
  <2> SUFFICES ASSUME IInv, NEW c \in Conns \ overlapped, Serving(c)
               PROVE  peers[current[c]] # None /\ channels[current[c]] # None
    BY DEF RegisteredAloneIsOnline, Reachable
  <2>1. peers[current[c]] = c /\ channels[current[c]] = c
    BY DEF IInv, Shown
  <2> QED
    BY <2>1, NoneAssumption
<1> QED
  BY <1>1, Inductive, PTL

\* An answer goes astray only if it overtakes the requester's own handler, or if
\* another task of the requester's device ran: beside it, or while the requester
\* was away as another device.
THEOREM OnlyEarlyLost == Spec => []OnlyEarlyAnswersLost
<1>1. IInv => OnlyEarlyAnswersLost
  BY DEF IInv
<1> QED
  BY <1>1, Inductive, PTL

\* Between changes, the newest list sent to a registered client is the true one,
\* whatever the capacity of the broadcast channel.
THEOREM NewestIsTrue == Spec => []NewestListIsTrue
<1>1. IInv => NewestListIsTrue
  BY DEF IInv
<1> QED
  BY <1>1, Inductive, PTL

=============================================================================
