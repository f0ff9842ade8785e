-------------------------- MODULE AudioRelayProofs --------------------------
(***************************************************************************)
(* Proofs about AudioRelay for every number of connections, sessions and   *)
(* frames, up to the refinement: the relay implements TwoSeatRoom.         *)
(*                                                                         *)
(* The seat a task believes in is the seat it has (SeatKept) only because  *)
(* every seat of the map belongs to a live task that believes in it        *)
(* (SeatsAreLive); the two together make map and tasks mirror each other.  *)
(* A cloned sender points across the room (Aimed), so that at most one     *)
(* task at a time is about to send to a given connection, and a connection *)
(* that has not joined yet holds no frame (Fresh).                         *)
(***************************************************************************)
EXTENDS AudioRelay, FiniteSetTheorems, SequenceTheorems, TLAPS

Frames == [from : Conns, n : Nat]

\* d was given the seat across from the one c was given, in the same session.
Across(d, c) ==
    /\ session[d] = session[c]
    /\ seat[d] \in Seats /\ seat[c] \in Seats
    /\ seat[d] = Other(seat[c])

\* The entry of s in a given map.
EntryIn(m, s) == IF s \in DOMAIN m THEN m[s] ELSE Vacant

Placed ==
    \A c \in Conns :
        IF pc[c] \in {"new", "rejected"} THEN seat[c] = None
        ELSE session[c] \in Sessions /\ seat[c] \in Seats

SeatsAreLive ==
    \A s \in Sessions, x \in Seats :
        EntryOf(s)[x] # None =>
            /\ Joined(EntryOf(s)[x])
            /\ session[EntryOf(s)[x]] = s
            /\ seat[EntryOf(s)[x]] = x

Aimed ==
    \A c \in Conns :
        /\ pc[c] = "forward" <=> target[c] # None
        /\ target[c] # None => Across(target[c], c)

Busy == \A c \in Conns : pc[c] = "writing" => rx[c] # <<>>

Fresh == \A c \in Conns : pc[c] = "new" => rx[c] = <<>>

IInv ==
    /\ TypeOK
    /\ Placed
    /\ SeatsAreLive
    /\ SeatKept
    /\ Aimed
    /\ Busy
    /\ Fresh

-----------------------------------------------------------------------------
(* Lemmas about the data.                                                  *)

\* The two seats face each other.
LEMMA Seating ==
    /\ \A x : Other(x) \in Seats
    /\ \A x \in Seats : Other(x) # x /\ Other(Other(x)) = x
    /\ \A x, y \in Seats : y = x \/ y = Other(x)
    /\ None \notin Seats /\ None \notin Conns
  BY NoneAssumption DEF Other, Seats

\* Entries are entries, in the map and by default.
LEMMA EntryType ==
    ASSUME TypeOK, NEW s
    PROVE  /\ EntryOf(s) \in Entry
           /\ \A x \in Seats : EntryOf(s)[x] \in Conns \cup {None}
  BY DEF TypeOK, EntryOf, Entry, Vacant

\* What SetEntry does to the map, read through EntryOf.
LEMMA SetEntryEffect ==
    ASSUME TypeOK, NEW s \in Sessions, NEW e \in Entry, SetEntry(s, e)
    PROVE  /\ DOMAIN sessions' \subseteq Sessions
           /\ sessions' \in [DOMAIN sessions' -> Entry]
           /\ \A t : EntryIn(sessions', t) = IF t = s THEN e ELSE EntryOf(t)
<1>1. sessions' = [t \in (DOMAIN sessions \ {s}) \cup (IF e = Vacant THEN {} ELSE {s}) |->
                      IF t = s THEN e ELSE sessions[t]]
  BY DEF SetEntry
<1>2. CASE e = Vacant
  BY <1>1, <1>2 DEF TypeOK, EntryOf, EntryIn
<1>3. CASE e # Vacant
  BY <1>1, <1>3 DEF TypeOK, EntryOf, EntryIn
<1> QED
  BY <1>2, <1>3

\* Whoever sits in a seat, by the map, is a live task that believes the same.
LEMMA Seated ==
    ASSUME TypeOK, SeatsAreLive, NEW s, NEW x \in Seats, EntryOf(s)[x] # None
    PROVE  /\ EntryOf(s)[x] \in Conns
           /\ Joined(EntryOf(s)[x])
           /\ session[EntryOf(s)[x]] = s
           /\ seat[EntryOf(s)[x]] = x
<1>1. s \in Sessions
  BY DEF EntryOf, Vacant, TypeOK
<1>2. EntryOf(s)[x] \in Conns
  BY EntryType
<1> QED
  BY <1>1, <1>2 DEF SeatsAreLive

\* A task that finds somebody across the room finds a live task there.
LEMMA OppositeAcross ==
    ASSUME TypeOK, Placed, SeatsAreLive, NEW c \in Conns, Joined(c), Opposite(c) # None
    PROVE  Opposite(c) \in Conns /\ Joined(Opposite(c)) /\ Across(Opposite(c), c)
<1>1. seat[c] \in Seats
  BY DEF Placed, Joined
<1> QED
  BY <1>1, Seating, Seated DEF Opposite, Across

\* A task that is about to send is in its loop, and sends to a connection that
\* has joined.
LEMMA TargetAcross ==
    ASSUME TypeOK, Placed, Aimed, NEW c \in Conns, target[c] # None
    PROVE  /\ target[c] \in Conns
           /\ pc[target[c]] \notin {"new", "rejected"}
           /\ Across(target[c], c)
           /\ Joined(c)
<1>1. target[c] \in Conns /\ Across(target[c], c) /\ pc[c] = "forward"
  BY DEF TypeOK, Aimed
<1>2. seat[target[c]] # None
  BY <1>1, Seating DEF Across
<1> QED
  BY <1>1, <1>2 DEF Placed, Joined

-----------------------------------------------------------------------------
(* The invariant is inductive.  One lemma per kind of step.                *)

LEMMA InitIInv == Init => IInv
<1> SUFFICES ASSUME Init PROVE IInv
  OBVIOUS
<1>1. TypeOK
  BY MaxFramesAssumption DEF Init, TypeOK, Points, Entry
<1>2. SeatsAreLive
  BY DEF Init, SeatsAreLive, EntryOf, Vacant
<1> QED
  BY <1>1, <1>2 DEF Init, IInv, Placed, SeatKept, Joined, Aimed, Busy, Fresh

\* A task moves between the points of its loop, or out of it towards Leave.
LEMMA MoveStep ==
    ASSUME IInv, NEW c \in Conns,
           pc[c] \in {"loop", "writing"},
           NEW p \in {"loop", "writing", "leaving"},
           p = "writing" => rx'[c] # <<>>,
           pc' = [pc EXCEPT ![c] = p],
           rx' \in [Conns -> Seq(Frames)],
           \A d \in Conns \ {c} : rx'[d] = rx[d],
           written' \in [Conns -> Seq(Frames)],
           UNCHANGED <<session, seat, sessions, target, sent>>
    PROVE  IInv'
<1>1. TypeOK'
  BY DEF IInv, TypeOK, Points, Frames
<1>2. Placed' /\ Busy' /\ Fresh'
  BY DEF IInv, Placed, Busy, Fresh, TypeOK
<1>3. SeatsAreLive'
  BY EntryType, Seated DEF IInv, SeatsAreLive, EntryOf, Joined, TypeOK
<1>4. SeatKept'
  BY DEF IInv, SeatKept, EntryOf, Joined, TypeOK
<1>5. Aimed'
  BY DEF IInv, Aimed, Across, TypeOK
<1> QED
  BY <1>1, <1>2, <1>3, <1>4, <1>5 DEF IInv

LEMMA JoinStep ==
    ASSUME IInv, NEW c \in Conns, NEW s \in Sessions, Join(c, s)
    PROVE  IInv'
<1>0. PICK x \in Seats :
        /\ FreeSeat(EntryOf(s), x)
        /\ SetEntry(s, [EntryOf(s) EXCEPT ![x] = c])
        /\ seat' = [seat EXCEPT ![c] = x]
  BY DEF Join
<1> DEFINE e == [EntryOf(s) EXCEPT ![x] = c]
<1>1. /\ pc[c] = "new" /\ seat[c] = None /\ EntryOf(s)[x] = None
      /\ pc' = [pc EXCEPT ![c] = "loop"]
      /\ session' = [session EXCEPT ![c] = s]
      /\ UNCHANGED <<target, rx, sent, written>>
  BY <1>0 DEF Join, FreeSeat, IInv, Placed
<1>2. e \in Entry /\ \A y \in Seats : e[y] = IF y = x THEN c ELSE EntryOf(s)[y]
  BY EntryType DEF IInv, Entry
<1>3. /\ DOMAIN sessions' \subseteq Sessions
      /\ sessions' \in [DOMAIN sessions' -> Entry]
      /\ \A t : EntryIn(sessions', t) = IF t = s THEN e ELSE EntryOf(t)
  <2> HIDE DEF e
  <2> QED
    BY <1>0, <1>2, SetEntryEffect DEF IInv, e
<1> HIDE DEF e
<1>4. \A d \in Conns : /\ session'[d] = IF d = c THEN s ELSE session[d]
                       /\ seat'[d] = IF d = c THEN x ELSE seat[d]
                       /\ pc'[d] = IF d = c THEN "loop" ELSE pc[d]
  BY <1>0, <1>1 DEF IInv, TypeOK
<1>5. TypeOK'
  BY <1>0, <1>1, <1>3 DEF IInv, TypeOK, Points
<1>6. Placed' /\ Busy' /\ Fresh'
  BY <1>1, <1>4 DEF IInv, Placed, Busy, Fresh
<1>7. SeatsAreLive'
  <2> SUFFICES ASSUME NEW t \in Sessions, NEW y \in Seats, NEW o,
                      o = EntryIn(sessions', t)[y], o # None
               PROVE  Joined(o)' /\ session'[o] = t /\ seat'[o] = y
    BY DEF SeatsAreLive, EntryOf, EntryIn, Joined
  <2>1. CASE t = s /\ y = x
    BY <2>1, <1>2, <1>3, <1>4 DEF Joined
  <2>2. CASE ~(t = s /\ y = x)
    <3>1. o = EntryOf(t)[y]
      BY <2>2, <1>2, <1>3
    <3>2. o \in Conns /\ Joined(o) /\ session[o] = t /\ seat[o] = y
      BY <3>1, Seated DEF IInv
    <3> QED
      BY <3>1, <3>2, <1>1, <1>4, Seating DEF Joined
  <2> QED
    BY <2>1, <2>2
<1>8. SeatKept'
  <2> SUFFICES ASSUME NEW d \in Conns, Joined(d)'
               PROVE  EntryIn(sessions', session'[d])[seat'[d]] = d
    BY DEF SeatKept, EntryOf, EntryIn
  <2>1. CASE d = c
    BY <2>1, <1>2, <1>3, <1>4
  <2>2. CASE d # c
    <3>1. EntryOf(session[d])[seat[d]] = d /\ seat[d] \in Seats
      BY <2>2, <1>4 DEF IInv, SeatKept, Placed, Joined
    <3>2. ~(session[d] = s /\ seat[d] = x)
      BY <3>1, <1>1, Seating
    <3> QED
      BY <2>2, <3>1, <3>2, <1>2, <1>3, <1>4
  <2> QED
    BY <2>1, <2>2
<1>9. Aimed'
  <2> SUFFICES ASSUME NEW d \in Conns
               PROVE  /\ pc'[d] = "forward" <=> target'[d] # None
                      /\ target'[d] # None => Across(target[d], d)'
    BY <1>1 DEF Aimed
  <2>1. target[d] # None => d # c /\ target[d] # c /\ target[d] \in Conns /\ Across(target[d], d)
    BY TargetAcross, <1>1 DEF IInv, Joined
  <2> QED
    BY <2>1, <1>1, <1>4 DEF IInv, Aimed, Across
<1> QED
  BY <1>5, <1>6, <1>7, <1>8, <1>9 DEF IInv

LEMMA RoomFullStep ==
    ASSUME IInv, NEW c \in Conns, NEW s \in Sessions, RoomFull(c, s)
    PROVE  IInv'
<1>1. TypeOK'
  BY DEF IInv, TypeOK, Points, RoomFull
<1>2. Placed' /\ Busy' /\ Fresh'
  BY DEF IInv, Placed, Busy, Fresh, TypeOK, RoomFull
<1>3. SeatsAreLive'
  BY EntryType, Seated DEF IInv, SeatsAreLive, EntryOf, Joined, TypeOK, RoomFull
<1>4. SeatKept'
  BY DEF IInv, SeatKept, EntryOf, Joined, TypeOK, RoomFull
<1>5. Aimed'
  BY DEF IInv, Aimed, Across, TypeOK, RoomFull
<1> QED
  BY <1>1, <1>2, <1>3, <1>4, <1>5 DEF IInv

LEMMA ReadFrameStep ==
    ASSUME IInv, NEW c \in Conns, ReadFrame(c)
    PROVE  IInv'
<1> DEFINE o == Opposite(c)
<1>1. /\ pc[c] = "loop" /\ seat[c] \in Seats
      /\ sent[c] < MaxFrames
      /\ sent' = [sent EXCEPT ![c] = @ + 1]
      /\ target' = [target EXCEPT ![c] = o]
      /\ pc' = [pc EXCEPT ![c] = IF o = None THEN "loop" ELSE "forward"]
      /\ UNCHANGED <<session, seat, sessions, rx, written>>
  BY DEF IInv, Placed, ReadFrame
<1>2. o \in Conns \cup {None} /\ (o # None => Across(o, c))
  BY <1>1, EntryType, Seating, OppositeAcross DEF IInv, Opposite, Joined
<1> HIDE DEF o
<1>3. TypeOK'
  <2>1. sent' \in [Conns -> 0..MaxFrames]
    BY <1>1, MaxFramesAssumption DEF IInv, TypeOK
  <2> QED
    BY <1>1, <1>2, <2>1 DEF IInv, TypeOK, Points
<1>4. Placed' /\ Busy' /\ Fresh'
  BY <1>1 DEF IInv, Placed, Busy, Fresh, TypeOK
<1>5. SeatsAreLive'
  BY <1>1, EntryType, Seated DEF IInv, SeatsAreLive, EntryOf, Joined, TypeOK
<1>6. SeatKept'
  BY <1>1 DEF IInv, SeatKept, EntryOf, Joined, TypeOK
<1>7. Aimed'
  BY <1>1, <1>2 DEF IInv, Aimed, Across, TypeOK
<1> QED
  BY <1>3, <1>4, <1>5, <1>6, <1>7 DEF IInv

LEMMA ForwardStep ==
    ASSUME IInv, NEW c \in Conns, Forward(c)
    PROVE  IInv'
<1> DEFINE d == target[c]
           q == Append(rx[d], Frame(c, sent[c]))
<1>1. /\ pc[c] = "forward"
      /\ rx' = rx \/ rx' = [rx EXCEPT ![d] = q]
      /\ target' = [target EXCEPT ![c] = None]
      /\ pc' = [pc EXCEPT ![c] = "loop"]
      /\ UNCHANGED <<session, seat, sessions, sent, written>>
  BY DEF Forward, Deliver
<1>2. d \in Conns /\ pc[d] \notin {"new", "rejected"}
  BY <1>1, TargetAcross DEF IInv, Aimed
<1>3. q \in Seq(Frames) /\ q # <<>>
  <2>1. rx[d] \in Seq(Frames)
    BY <1>2 DEF IInv, TypeOK, Frames
  <2>2. Frame(c, sent[c]) \in Frames
    BY MaxFramesAssumption DEF IInv, TypeOK, Frame, Frames
  <2> QED
    BY <2>1, <2>2, AppendProperties
<1> HIDE DEF d, q
<1>4. TypeOK'
  BY <1>1, <1>2, <1>3 DEF IInv, TypeOK, Points, Frames
<1>5. Placed'
  BY <1>1 DEF IInv, Placed, TypeOK
<1>6. Busy' /\ Fresh'
  BY <1>1, <1>2, <1>3 DEF IInv, Busy, Fresh, TypeOK
<1>7. SeatsAreLive'
  BY <1>1, EntryType, Seated DEF IInv, SeatsAreLive, EntryOf, Joined, TypeOK
<1>8. SeatKept'
  BY <1>1 DEF IInv, SeatKept, EntryOf, Joined, TypeOK
<1>9. Aimed'
  BY <1>1 DEF IInv, Aimed, Across, TypeOK
<1> QED
  BY <1>4, <1>5, <1>6, <1>7, <1>8, <1>9 DEF IInv

\* The end of a write, well or badly: the head leaves rx and may join written.
LEMMA WriteStep ==
    ASSUME IInv, NEW c \in Conns, WriteDone(c) \/ WriteFails(c)
    PROVE  IInv'
<1>1. /\ pc[c] = "writing" /\ rx[c] # <<>>
      /\ rx[c] \in Seq(Frames) /\ written[c] \in Seq(Frames)
      /\ rx \in [Conns -> Seq(Frames)] /\ written \in [Conns -> Seq(Frames)]
      /\ UNCHANGED <<session, seat, sessions, target, sent>>
  BY DEF IInv, Busy, TypeOK, Frames, WriteDone, WriteFails
<1> DEFINE m == Head(rx[c])
           q == Tail(rx[c])
           w == Append(written[c], m)
<1>2. PICK p \in {"loop", "leaving"} : pc' = [pc EXCEPT ![c] = p]
  BY DEF WriteDone, WriteFails
<1>3. rx' = [rx EXCEPT ![c] = q] /\ (written' = written \/ written' = [written EXCEPT ![c] = w])
  BY DEF WriteDone, WriteFails
<1>4. m \in Frames /\ q \in Seq(Frames)
  BY <1>1, HeadTailProperties
<1>5. w \in Seq(Frames)
  BY <1>1, <1>4, AppendProperties
<1> HIDE DEF m, q, w
<1>6. rx' \in [Conns -> Seq(Frames)] /\ written' \in [Conns -> Seq(Frames)]
      /\ \A d \in Conns \ {c} : rx'[d] = rx[d]
  BY <1>1, <1>3, <1>4, <1>5
<1> QED
  BY <1>1, <1>2, <1>6, MoveStep

LEMMA LeaveStep ==
    ASSUME IInv, NEW c \in Conns, Leave(c)
    PROVE  IInv'
<1> DEFINE s == session[c]
           x == seat[c]
           e == Cleared(EntryOf(s), x)
<1>1. /\ pc[c] = "leaving" /\ s \in Sessions /\ x \in Seats
      /\ SetEntry(s, e)
      /\ rx' = [rx EXCEPT ![c] = <<>>]
      /\ pc' = [pc EXCEPT ![c] = "gone"]
      /\ UNCHANGED <<session, seat, target, sent, written>>
  BY DEF Leave, IInv, Placed
<1>2. EntryOf(s)[x] = c
  BY <1>1 DEF IInv, SeatKept, Joined
<1>3. e \in Entry /\ \A y \in Seats : e[y] = IF y = x THEN None ELSE EntryOf(s)[y]
  BY <1>1, EntryType DEF IInv, Entry, Cleared
<1>4. /\ DOMAIN sessions' \subseteq Sessions
      /\ sessions' \in [DOMAIN sessions' -> Entry]
      /\ \A t : EntryIn(sessions', t) = IF t = s THEN e ELSE EntryOf(t)
  <2> HIDE DEF e, s
  <2> QED
    BY <1>1, <1>3, SetEntryEffect DEF IInv
<1> HIDE DEF e, s, x
<1>5. TypeOK'
  BY <1>1, <1>4 DEF IInv, TypeOK, Points
<1>6. Placed' /\ Busy' /\ Fresh'
  BY <1>1 DEF IInv, Placed, Busy, Fresh, TypeOK
<1>7. SeatsAreLive'
  <2> SUFFICES ASSUME NEW t \in Sessions, NEW y \in Seats, NEW o,
                      o = EntryIn(sessions', t)[y], o # None
               PROVE  Joined(o)' /\ session'[o] = t /\ seat'[o] = y
    BY DEF SeatsAreLive, EntryOf, EntryIn, Joined
  <2>1. ~(t = s /\ y = x) /\ o = EntryOf(t)[y]
    BY <1>3, <1>4
  <2>2. o \in Conns /\ Joined(o) /\ session[o] = t /\ seat[o] = y
    BY <2>1, Seated DEF IInv
  <2>3. o # c
    BY <2>1, <2>2 DEF s, x
  <2> QED
    BY <2>2, <2>3, <1>1 DEF Joined, IInv, TypeOK
<1>8. SeatKept'
  <2> SUFFICES ASSUME NEW d \in Conns, Joined(d)'
               PROVE  EntryIn(sessions', session'[d])[seat'[d]] = d
    BY DEF SeatKept, EntryOf, EntryIn
  <2>1. d # c /\ Joined(d)
    BY <1>1 DEF Joined, IInv, TypeOK
  <2>2. EntryOf(session[d])[seat[d]] = d /\ seat[d] \in Seats
    BY <2>1 DEF IInv, SeatKept, Placed, Joined
  <2>3. ~(session[d] = s /\ seat[d] = x)
    BY <2>1, <2>2, <1>2
  <2> QED
    BY <2>2, <2>3, <1>1, <1>3, <1>4
<1>9. Aimed'
  BY <1>1 DEF IInv, Aimed, Across, TypeOK
<1> QED
  BY <1>5, <1>6, <1>7, <1>8, <1>9 DEF IInv

LEMMA NextIInv == IInv /\ [Next]_vars => IInv'
<1> SUFFICES ASSUME IInv, [Next]_vars PROVE IInv'
  OBVIOUS
<1>1. ASSUME NEW c \in Conns, NEW s \in Sessions, Join(c, s) \/ RoomFull(c, s)
      PROVE  IInv'
  BY <1>1, JoinStep, RoomFullStep
<1>2. ASSUME NEW c \in Conns, ReadFrame(c) \/ Forward(c) \/ Leave(c)
      PROVE  IInv'
  BY <1>2, ReadFrameStep, ForwardStep, LeaveStep
<1>3. ASSUME NEW c \in Conns, WriteDone(c) \/ WriteFails(c)
      PROVE  IInv'
  BY <1>3, WriteStep
<1>4. ASSUME NEW c \in Conns, Recv(c) \/ ReadEnds(c)
      PROVE  IInv'
  <2>1. rx \in [Conns -> Seq(Frames)] /\ written \in [Conns -> Seq(Frames)]
    BY DEF IInv, TypeOK, Frames
  <2>2. PICK p \in {"writing", "leaving"} :
           /\ pc' = [pc EXCEPT ![c] = p]
           /\ p = "writing" => rx[c] # <<>>
    BY <1>4 DEF Recv, ReadEnds
  <2>3. pc[c] = "loop" /\ UNCHANGED <<session, seat, sessions, target, rx, sent, written>>
    BY <1>4 DEF Recv, ReadEnds
  <2> QED
    BY <2>1, <2>2, <2>3, MoveStep
<1>5. ASSUME UNCHANGED vars
      PROVE  IInv'
  BY <1>5 DEF vars, IInv, TypeOK, Placed, SeatsAreLive, SeatKept, EntryOf, Joined,
              Aimed, Across, Busy, Fresh
<1> QED
  BY <1>1, <1>2, <1>3, <1>4, <1>5 DEF Next, Finished

\* The invariant holds in every reachable state.
THEOREM Inductive == Spec => []IInv
  BY InitIInv, NextIInv, PTL DEF Spec

\* Every variable keeps its type.
THEOREM TypeCorrect == Spec => []TypeOK
<1>1. IInv => TypeOK
  BY DEF IInv
<1> QED
  BY <1>1, Inductive, PTL

\* A task that is in its loop still has its sender in the map, in the seat it
\* believes it has, whoever joined and left around it.
THEOREM SeatsAreKept == Spec => []SeatKept
<1>1. IInv => SeatKept
  BY DEF IInv
<1> QED
  BY <1>1, Inductive, PTL

-----------------------------------------------------------------------------
(* The refinement.  The mapping first: what each abstract variable is, and *)
(* what a step leaves of it.                                               *)

states == [c \in Conns |-> StateOf(c)]
rooms == [s \in Sessions |-> Members(s)]
inboxes == [c \in Conns |-> InboxOf(c)]

\* At most one task at a time is about to send to c: the one across the room.
LEMMA OneSpeaker ==
    ASSUME IInv, NEW c \in Conns, NEW d \in Conns, NEW o \in Conns,
           target[c] = o, target[d] = o
    PROVE  c = d
<1>1. Joined(c) /\ Across(o, c) /\ Joined(d) /\ Across(o, d)
  BY TargetAcross, Seating DEF IInv
<1>2. session[c] = session[d] /\ seat[c] = seat[d]
  BY <1>1, Seating DEF Across
<1>3. EntryOf(session[c])[seat[c]] = c /\ EntryOf(session[d])[seat[d]] = d
  BY <1>1 DEF IInv, SeatKept
<1> QED
  BY <1>2, <1>3

\* What is pending for d by given targets and counts.
PendingIn(t, n, d) ==
    LET speakers == {e \in Conns : t[e] = d}
    IN  IF speakers = {} THEN <<>>
        ELSE LET e == CHOOSE e \in speakers : TRUE IN <<Frame(e, n[e])>>

\* With one speaker it is that one's frame, and with none it is nothing.
LEMMA PendingInValue ==
    ASSUME NEW t, NEW n, NEW d
    PROVE  /\ (\A e \in Conns : t[e] # d) => PendingIn(t, n, d) = <<>>
           /\ \A c \in Conns :
                 t[c] = d /\ (\A e \in Conns : t[e] = d => e = c)
                    => PendingIn(t, n, d) = <<Frame(c, n[c])>>
<1> DEFINE speakers == {e \in Conns : t[e] = d}
<1>1. ASSUME speakers = {} PROVE PendingIn(t, n, d) = <<>>
  BY <1>1 DEF PendingIn
<1>2. ASSUME NEW c \in Conns, t[c] = d, \A e \in Conns : t[e] = d => e = c
      PROVE  PendingIn(t, n, d) = <<Frame(c, n[c])>>
  <2>1. speakers = {c}
    BY <1>2
  <2>2. (CHOOSE e \in {c} : TRUE) = c
    OBVIOUS
  <2> HIDE DEF speakers
  <2>3. PendingIn(t, n, d) = IF speakers = {} THEN <<>>
           ELSE LET e == CHOOSE e \in speakers : TRUE IN <<Frame(e, n[e])>>
    BY DEF PendingIn, speakers
  <2> QED
    BY <2>1, <2>2, <2>3
<1> QED
  BY <1>1, <1>2

\* What is pending for a connection: the frame of the one that speaks to it.
LEMMA PendingValue ==
    ASSUME IInv, NEW d \in Conns
    PROVE  /\ Pending(d) = PendingIn(target, sent, d)
           /\ (\A c \in Conns : target[c] # d) => Pending(d) = <<>>
           /\ \A c \in Conns : target[c] = d => Pending(d) = <<Frame(c, sent[c])>>
           /\ Pending(d) \in Seq(Frames)
<1>1. Pending(d) = PendingIn(target, sent, d)
  BY DEF Pending, PendingIn
<1>2. (\A c \in Conns : target[c] # d) => Pending(d) = <<>>
  BY <1>1, PendingInValue
<1>3. \A c \in Conns : target[c] = d => Pending(d) = <<Frame(c, sent[c])>>
  BY <1>1, PendingInValue, OneSpeaker
<1>4. \A c \in Conns : Frame(c, sent[c]) \in Frames
  BY MaxFramesAssumption DEF IInv, TypeOK, Frame, Frames
<1>5. <<>> \in Seq(Frames) /\ \A m \in Frames : <<m>> \in Seq(Frames)
  BY EmptySeq
<1>6. CASE \A c \in Conns : target[c] # d
  BY <1>1, <1>2, <1>3, <1>5, <1>6
<1>7. CASE \E c \in Conns : target[c] = d
  BY <1>1, <1>2, <1>3, <1>4, <1>5, <1>7
<1> QED
  BY <1>6, <1>7

\* The members of a room are those whom the map seats in it.
LEMMA MembersValue ==
    ASSUME IInv, NEW s \in Sessions
    PROVE  /\ Members(s) = {EntryOf(s)["peer_a"], EntryOf(s)["peer_b"]} \ {None}
           /\ \A c \in Conns :
                 c \in Members(s) <=> Joined(c) /\ session[c] = s
<1>1. Members(s) = {EntryOf(s)["peer_a"], EntryOf(s)["peer_b"]} \ {None}
  BY DEF Members, Seats
<1>2. ASSUME NEW c \in Conns, c \in Members(s)
      PROVE  Joined(c) /\ session[c] = s
  BY <1>2, Seated DEF Members, IInv
<1>3. ASSUME NEW c \in Conns, Joined(c), session[c] = s
      PROVE  c \in Members(s)
  <2>1. EntryOf(s)[seat[c]] = c /\ seat[c] \in Seats
    BY <1>3 DEF IInv, SeatKept, Placed, Joined
  <2> QED
    BY <2>1, Seating DEF Members
<1> QED
  BY <1>1, <1>2, <1>3

\* A room is full exactly when both seats are held.
LEMMA RoomSize ==
    ASSUME IInv, NEW s \in Sessions
    PROVE  /\ (\A x \in Seats : EntryOf(s)[x] # None) => Cardinality(Members(s)) = 2
           /\ (\E x \in Seats : EntryOf(s)[x] = None) => Cardinality(Members(s)) < 2
<1> DEFINE a == EntryOf(s)["peer_a"]
           b == EntryOf(s)["peer_b"]
<1>1. Members(s) = {a, b} \ {None} /\ "peer_a" \in Seats /\ "peer_b" \in Seats
  BY MembersValue DEF Seats
<1>2. a # None /\ b # None => a # b
  BY <1>1, Seated DEF IInv
<1>3. \A u : IsFiniteSet({u}) /\ Cardinality({u}) = 1
  BY FS_Singleton
<1>4. IsFiniteSet({}) /\ Cardinality({}) = 0
  BY FS_EmptySet
<1> HIDE DEF a, b
<1>5. ASSUME a # None, b # None
      PROVE  Cardinality(Members(s)) = 2
  <2>1. Members(s) = {a} \cup {b} /\ b \notin {a}
    BY <1>1, <1>2, <1>5
  <2>2. Cardinality({a} \cup {b}) = Cardinality({a}) + 1
    BY <2>1, <1>3, FS_AddElement
  <2> QED
    BY <2>1, <2>2, <1>3
<1>6. ASSUME a = None \/ b = None
      PROVE  Cardinality(Members(s)) < 2
  <2>1. Members(s) = {} \/ Members(s) = {a} \/ Members(s) = {b}
    BY <1>1, <1>6
  <2>2. Cardinality(Members(s)) = 0 \/ Cardinality(Members(s)) = 1
    BY <2>1, <1>3, <1>4
  <2> QED
    BY <2>2
<1> QED
  BY <1>1, <1>5, <1>6 DEF Seats, a, b

\* Who shares the room with a task is whom it finds across the room.
LEMMA OthersInRoom ==
    ASSUME IInv, NEW c \in Conns, Joined(c), NEW d \in Conns
    PROVE  d \in Members(session[c]) \ {c} <=> d = Opposite(c)
<1>1. session[c] \in Sessions /\ seat[c] \in Seats /\ EntryOf(session[c])[seat[c]] = c
  BY DEF IInv, Placed, SeatKept, Joined
<1>2. ASSUME d \in Members(session[c]), d # c PROVE d = Opposite(c)
  <2>1. PICK x \in Seats : EntryOf(session[c])[x] = d
    BY <1>2 DEF Members
  <2>2. x = Other(seat[c])
    BY <2>1, <1>1, <1>2, Seating
  <2> QED
    BY <2>1, <2>2 DEF Opposite
<1>3. ASSUME d = Opposite(c) PROVE d \in Members(session[c]) /\ d # c
  <2>1. d # None
    BY Seating
  <2>2. Across(d, c) /\ Joined(d)
    BY <1>3, <2>1, OppositeAcross DEF IInv
  <2> QED
    BY <2>2, <1>1, MembersValue, Seating DEF Across
<1> QED
  BY <1>2, <1>3

\* Sequences: a frame appended to a queue whose rest is empty, and the first
\* frame taken from a queue with a rest.
LEMMA AppendRest ==
    ASSUME NEW S, NEW q \in Seq(S), NEW m \in S
    PROVE  q \o <<m>> = Append(q, m)
  BY AppendIsConcat

LEMMA TakeFirst ==
    ASSUME NEW S, NEW q \in Seq(S), NEW r \in Seq(S), q # <<>>
    PROVE  /\ q \o r # <<>>
           /\ Head(q \o r) = Head(q)
           /\ Tail(q \o r) = Tail(q) \o r
<1> DEFINE u == q \o r
           v == Tail(q) \o r
<1>1. u \in Seq(S) /\ Len(u) = Len(q) + Len(r) /\ u # <<>>
      /\ \A i \in 1 .. Len(q) + Len(r) : u[i] = IF i <= Len(q) THEN q[i] ELSE r[i - Len(q)]
  BY ConcatProperties, ConcatEqualIffEmpty
<1>2. Len(q) \in Nat \ {0} /\ Len(r) \in Nat
  BY EmptySeq, LenProperties
<1>3. Tail(q) \in Seq(S) /\ Len(Tail(q)) = Len(q) - 1
      /\ \A i \in 1 .. Len(q) - 1 : Tail(q)[i] = q[i + 1]
  BY HeadTailProperties
<1>4. v \in Seq(S) /\ Len(v) = Len(q) - 1 + Len(r)
      /\ \A i \in 1 .. Len(q) - 1 + Len(r) :
            v[i] = IF i <= Len(q) - 1 THEN Tail(q)[i] ELSE r[i - (Len(q) - 1)]
  BY <1>3, ConcatProperties
<1> HIDE DEF u, v
<1>5. Tail(u) \in Seq(S) /\ Len(Tail(u)) = Len(u) - 1
      /\ \A i \in 1 .. Len(u) - 1 : Tail(u)[i] = u[i + 1]
  BY <1>1, HeadTailProperties
<1>6. \A i \in 1 .. Len(v) : Tail(u)[i] = v[i]
  <2> SUFFICES ASSUME NEW i \in 1 .. Len(v) PROVE Tail(u)[i] = v[i]
    OBVIOUS
  <2>1. i \in 1 .. Len(u) - 1 /\ i + 1 \in 1 .. Len(q) + Len(r)
    BY <1>1, <1>2, <1>4
  <2>2. Tail(u)[i] = u[i + 1]
    BY <2>1, <1>5
  <2>3. CASE i <= Len(q) - 1
    BY <2>1, <2>2, <2>3, <1>1, <1>2, <1>3, <1>4
  <2>4. CASE ~(i <= Len(q) - 1)
    <3>1. ~(i + 1 <= Len(q)) /\ i + 1 - Len(q) = i - (Len(q) - 1)
      BY <2>1, <2>4, <1>2
    <3>2. u[i + 1] = r[i + 1 - Len(q)]
      BY <2>1, <3>1, <1>1
    <3>3. i \in 1 .. Len(q) - 1 + Len(r)
      BY <1>4
    <3>4. v[i] = r[i - (Len(q) - 1)]
      BY <2>4, <3>3, <1>4
    <3> QED
      BY <2>2, <3>1, <3>2, <3>4
  <2> QED
    BY <2>3, <2>4
<1>7. Tail(u) = v
  <2>1. Len(Tail(u)) = Len(v)
    BY <1>1, <1>2, <1>4, <1>5
  <2> QED
    BY <2>1, <1>4, <1>5, <1>6, SeqEqual
<1>8. Head(u) = u[1] /\ Head(q) = q[1]
  BY <1>1
<1> QED
  BY <1>1, <1>2, <1>7, <1>8 DEF u, v

-----------------------------------------------------------------------------
(* The simulation.  One lemma per kind of step.                            *)

\* Rooms, by the map.
LEMMA RoomsKept ==
    ASSUME UNCHANGED sessions
    PROVE  rooms' = rooms
  BY DEF rooms, Members, EntryOf

\* A connection whose task, queue and speaker stay as they are looks the same.
LEMMA OthersKept ==
    ASSUME NEW d \in Conns, pc'[d] = pc[d]
    PROVE  /\ StateOf(d)' = StateOf(d)
           /\ rx'[d] = rx[d] /\ Pending(d)' = Pending(d) => InboxOf(d)' = InboxOf(d)
  BY DEF StateOf, InboxOf, Listening

\* The instance counts as this module does.
LEMMA SameCount == \A S : Room!Cardinality(S) = Cardinality(S)
  BY Zenon DEF Room!Cardinality, Cardinality

LEMMA InitRoom == Init => Room!Init
<1> SUFFICES ASSUME Init PROVE Room!Init
  OBVIOUS
<1>1. states = [c \in Conns |-> "out"]
  BY DEF Init, states, StateOf, Listening
<1>2. rooms = [s \in Sessions |-> {}]
  BY DEF Init, rooms, Members, EntryOf, Vacant
<1>3. inboxes = [c \in Conns |-> <<>>]
  BY DEF Init, inboxes, InboxOf, Listening
<1> QED
  BY <1>1, <1>2, <1>3 DEF Init, Room!Init, states, rooms, inboxes

LEMMA JoinRoom ==
    ASSUME IInv, NEW c \in Conns, NEW s \in Sessions, Join(c, s)
    PROVE  Room!Enter(c, s)
<1>0. PICK x \in Seats :
        /\ FreeSeat(EntryOf(s), x)
        /\ SetEntry(s, [EntryOf(s) EXCEPT ![x] = c])
  BY DEF Join
<1> DEFINE e == [EntryOf(s) EXCEPT ![x] = c]
<1>1. /\ pc[c] = "new" /\ rx[c] = <<>> /\ EntryOf(s)[x] = None /\ EntryOf(s) \in Entry
      /\ pc' = [pc EXCEPT ![c] = "loop"] /\ pc \in [Conns -> Points]
      /\ UNCHANGED <<target, rx, sent, written>>
  BY <1>0, EntryType DEF Join, FreeSeat, IInv, Fresh, TypeOK
<1>2. e \in Entry /\ \A y \in Seats : e[y] = IF y = x THEN c ELSE EntryOf(s)[y]
  BY <1>1 DEF Entry
<1>3. \A t : EntryIn(sessions', t) = IF t = s THEN e ELSE EntryOf(t)
  <2> HIDE DEF e
  <2> QED
    BY <1>0, <1>2, SetEntryEffect DEF IInv, e
<1> HIDE DEF e
<1>4. rooms' = [rooms EXCEPT ![s] = @ \cup {c}]
  <2>1. ASSUME NEW t \in Sessions
        PROVE  {EntryIn(sessions', t)[y] : y \in Seats} \ {None}
                  = IF t = s THEN Members(s) \cup {c} ELSE Members(t)
    <3>1. CASE t # s
      BY <3>1, <1>3 DEF Members
    <3>2. CASE t = s
      BY <3>2, <1>1, <1>2, <1>3, Seating DEF Members
    <3> QED
      BY <3>1, <3>2
  <2>2. rooms' = [t \in Sessions |-> {EntryIn(sessions', t)[y] : y \in Seats} \ {None}]
    BY DEF rooms, Members, EntryOf, EntryIn
  <2> QED
    BY <2>1, <2>2 DEF rooms
<1>5. Pending(c) = <<>>
  <2>1. \A d \in Conns : target[d] # c
    BY <1>1, TargetAcross, Seating DEF IInv
  <2> QED
    BY <2>1, PendingValue
<1>6. \A d \in Conns : Pending(d)' = Pending(d)
  BY <1>1 DEF Pending, Frame
<1>7. states' = [states EXCEPT ![c] = "in"] /\ states[c] = "out"
  <2>1. StateOf(c)' = "in" /\ StateOf(c) = "out"
    BY <1>1 DEF StateOf, Listening
  <2>2. \A d \in Conns \ {c} : StateOf(d)' = StateOf(d)
    BY <1>1, OthersKept
  <2> QED
    BY <2>1, <2>2 DEF states
<1>8. inboxes' = inboxes
  <2>1. InboxOf(c)' = InboxOf(c)
    <3>1. InboxOf(c) = <<>>
      BY <1>1 DEF InboxOf, Listening
    <3>2. InboxOf(c)' = <<>> \o <<>>
      BY <1>1, <1>5, <1>6 DEF InboxOf, Listening
    <3> QED
      BY <3>1, <3>2
  <2>2. \A d \in Conns \ {c} : InboxOf(d)' = InboxOf(d)
    BY <1>1, <1>6, OthersKept
  <2> QED
    BY <2>1, <2>2 DEF inboxes
<1>9. Cardinality(rooms[s]) < 2
  BY <1>1, RoomSize DEF rooms
<1> QED
  BY <1>1, <1>4, <1>7, <1>8, <1>9, SameCount DEF Room!Enter, states, rooms, inboxes

LEMMA RoomFullRoom ==
    ASSUME IInv, NEW c \in Conns, NEW s \in Sessions, RoomFull(c, s)
    PROVE  Room!TurnedAway(c, s)
<1>1. /\ pc[c] = "new" /\ \A x \in Seats : EntryOf(s)[x] # None
      /\ pc' = [pc EXCEPT ![c] = "rejected"] /\ pc \in [Conns -> Points]
      /\ UNCHANGED <<session, seat, sessions, target, rx, sent, written>>
  BY DEF RoomFull, IInv, TypeOK
<1>2. states' = [states EXCEPT ![c] = "done"] /\ states[c] = "out"
  <2>1. StateOf(c)' = "done" /\ StateOf(c) = "out"
    BY <1>1 DEF StateOf, Listening
  <2>2. \A d \in Conns \ {c} : StateOf(d)' = StateOf(d)
    BY <1>1, OthersKept
  <2> QED
    BY <2>1, <2>2 DEF states
<1>3. inboxes' = inboxes
  <2>1. \A d \in Conns : Pending(d)' = Pending(d)
    BY <1>1 DEF Pending, Frame
  <2>2. InboxOf(c)' = <<>> /\ InboxOf(c) = <<>>
    BY <1>1 DEF InboxOf, Listening
  <2>3. \A d \in Conns \ {c} : InboxOf(d)' = InboxOf(d)
    BY <1>1, <2>1, OthersKept
  <2> QED
    BY <2>2, <2>3 DEF inboxes
<1>4. Cardinality(rooms[s]) = 2
  BY <1>1, RoomSize DEF rooms
<1>5. rooms' = rooms
  BY <1>1, RoomsKept
<1> QED
  BY <1>1, <1>2, <1>3, <1>4, <1>5, SameCount DEF Room!TurnedAway, states, rooms, inboxes

\* A frame read is a frame spoken to whoever shares the room, or to nobody.
LEMMA ReadFrameRoom ==
    ASSUME IInv, NEW c \in Conns, ReadFrame(c)
    PROVE  Room!Say(c, session[c])
<1> DEFINE o == Opposite(c)
           s == session[c]
           m == Frame(c, sent[c] + 1)
<1>1. /\ pc[c] = "loop" /\ target[c] = None /\ sent[c] < MaxFrames /\ s \in Sessions
      /\ sent' = [sent EXCEPT ![c] = sent[c] + 1]
      /\ target' = [target EXCEPT ![c] = o]
      /\ pc' = [pc EXCEPT ![c] = IF o = None THEN "loop" ELSE "forward"]
      /\ UNCHANGED <<session, seat, sessions, rx, written>>
      /\ pc \in [Conns -> Points] /\ target \in [Conns -> Conns \cup {None}]
      /\ sent \in [Conns -> 0 .. MaxFrames] /\ rx \in [Conns -> Seq(Frames)]
  BY DEF ReadFrame, IInv, TypeOK, Placed, Aimed, Frames
<1>2. c \in Members(s) /\ \A d \in Conns : d \in Members(s) \ {c} <=> d = o
  BY <1>1, MembersValue, OthersInRoom DEF Joined
<1>3. m \in Frames
  BY <1>1, MaxFramesAssumption DEF Frame, Frames
<1>4. states' = states /\ states[c] = "in"
  <2>1. StateOf(c)' = "in" /\ StateOf(c) = "in"
    BY <1>1 DEF StateOf, Listening
  <2>2. \A d \in Conns \ {c} : StateOf(d)' = StateOf(d)
    BY <1>1, OthersKept
  <2> QED
    BY <2>1, <2>2 DEF states
<1>5. \A d \in Conns : Listening(d)' = Listening(d)
  BY <1>1 DEF Listening
<1>6. \A d \in Conns : Pending(d)' = PendingIn(target', sent', d)
  BY DEF Pending, PendingIn, Frame
<1> HIDE DEF o, m, s
<1>7. ASSUME NEW d \in Conns, d # o
      PROVE  Pending(d)' = Pending(d)
  <2>1. \A e \in Conns : target'[e] = d <=> target[e] = d
    BY <1>1, <1>7, Seating
  <2>2. CASE \A e \in Conns : target[e] # d
    <3>1. Pending(d) = <<>>
      BY <2>2, PendingValue
    <3>2. PendingIn(target', sent', d) = <<>>
      <4>1. \A e \in Conns : target'[e] # d
        BY <2>1, <2>2
      <4> QED
        BY <4>1, PendingInValue
    <3> QED
      BY <3>1, <3>2, <1>6
  <2>3. CASE \E e \in Conns : target[e] = d
    <3>1. PICK e \in Conns : target[e] = d
      BY <2>3
    <3>2. e # c /\ sent'[e] = sent[e]
      BY <3>1, <1>1, Seating
    <3>3. \A f \in Conns : target'[f] = d => f = e
      BY <2>1, <3>1, OneSpeaker
    <3>4. PendingIn(target', sent', d) = <<Frame(e, sent'[e])>>
      BY <2>1, <3>1, <3>3, PendingInValue
    <3>5. Pending(d) = <<Frame(e, sent[e])>>
      BY <3>1, PendingValue
    <3> QED
      BY <3>2, <3>4, <3>5, <1>6
  <2> QED
    BY <2>2, <2>3
<1>8. ASSUME NEW d \in Conns, d = o
      PROVE  Pending(d)' = <<m>> /\ Pending(d) = <<>>
  <2>1. Joined(d) /\ Across(d, c)
    BY <1>1, <1>8, OppositeAcross, Seating DEF IInv, Joined, o
  <2>2. \A e \in Conns : target[e] = d => e = c
    <3> SUFFICES ASSUME NEW e \in Conns, target[e] = d PROVE e = c
      OBVIOUS
    <3>1. Joined(e) /\ Across(d, e)
      BY TargetAcross, Seating DEF IInv
    <3>2. session[e] = session[c] /\ seat[e] = seat[c]
      BY <2>1, <3>1, Seating DEF Across
    <3> QED
      BY <1>1, <3>1, <3>2 DEF IInv, SeatKept, Joined
  <2>3. \A e \in Conns : target[e] # d
    BY <2>2, <1>1, Seating
  <2>4. target'[c] = d /\ \A e \in Conns : target'[e] = d => e = c
    BY <2>2, <1>1, <1>8
  <2>5. sent'[c] = sent[c] + 1
    BY <1>1
  <2>6. PendingIn(target', sent', d) = <<Frame(c, sent'[c])>>
    BY <2>4, PendingInValue
  <2> QED
    BY <2>3, <2>5, <2>6, <1>6, PendingValue DEF m
<1>9. \A d \in Conns : InboxOf(d)' = IF d \in Members(s) \ {c} /\ StateOf(d) = "in"
                                    THEN Append(InboxOf(d), m) ELSE InboxOf(d)
  <2> SUFFICES ASSUME NEW d \in Conns
               PROVE  InboxOf(d)' = IF d = o /\ StateOf(d) = "in"
                                    THEN Append(InboxOf(d), m) ELSE InboxOf(d)
    BY <1>2
  <2>1. InboxOf(d)' = IF Listening(d) THEN rx[d] \o Pending(d)' ELSE <<>>
    BY <1>1, <1>5 DEF InboxOf
  <2>2. CASE d # o
    BY <2>1, <2>2, <1>7 DEF InboxOf
  <2>3. CASE d = o
    <3>1. Pending(d)' = <<m>> /\ Pending(d) = <<>>
      BY <2>3, <1>8
    <3>2. rx[d] \in Seq(Frames)
      BY <1>1
    <3>3. rx[d] \o <<m>> = Append(rx[d], m) /\ rx[d] \o <<>> = rx[d]
      BY <3>2, <1>3, AppendRest, ConcatEmptySeq
    <3>4. Joined(d) /\ (StateOf(d) = "in" <=> Listening(d))
      BY <1>1, <2>3, OppositeAcross, Seating DEF IInv, Joined, o, StateOf, Listening
    <3> QED
      BY <2>1, <2>3, <3>1, <3>3, <3>4 DEF InboxOf
  <2> QED
    BY <2>2, <2>3
<1>10. inboxes' = [d \in Conns |->
                     IF d \in rooms[s] \ {c} /\ states[d] = "in"
                     THEN Append(inboxes[d], m) ELSE inboxes[d]]
  BY <1>1, <1>9 DEF inboxes, rooms, states
<1>11. rooms' = rooms /\ c \in rooms[s]
  BY <1>1, <1>2, RoomsKept DEF rooms
<1> QED
  BY <1>1, <1>4, <1>10, <1>11
  DEF Room!Say, Room!Frame, Frame, states, rooms, inboxes, m, s

\* The cloned sender is used: what was pending is queued, and the clients see
\* nothing of it.
LEMMA ForwardRoom ==
    ASSUME IInv, NEW c \in Conns, Forward(c)
    PROVE  UNCHANGED <<states, rooms, inboxes, written, sent>>
<1>0. PICK o \in Conns : o = target[c]
  BY TargetAcross DEF Forward, IInv, Aimed
<1> DEFINE m == Frame(c, sent[c])
<1>1. /\ pc[c] = "forward" /\ target[c] = o
      /\ rx' = IF pc[o] = "gone" THEN rx ELSE [rx EXCEPT ![o] = Append(rx[o], m)]
      /\ target' = [target EXCEPT ![c] = None]
      /\ pc' = [pc EXCEPT ![c] = "loop"]
      /\ UNCHANGED <<session, seat, sessions, sent, written>>
      /\ pc \in [Conns -> Points] /\ target \in [Conns -> Conns \cup {None}]
      /\ sent \in [Conns -> 0 .. MaxFrames] /\ rx \in [Conns -> Seq(Frames)]
  BY <1>0 DEF Forward, Deliver, IInv, TypeOK, Aimed, Frames
<1>2. m \in Frames
  BY <1>1, MaxFramesAssumption DEF Frame, Frames
<1>3. states' = states
  <2>1. StateOf(c)' = "in" /\ StateOf(c) = "in"
    BY <1>1 DEF StateOf, Listening
  <2>2. \A d \in Conns \ {c} : StateOf(d)' = StateOf(d)
    BY <1>1, OthersKept
  <2> QED
    BY <2>1, <2>2 DEF states
<1>4. \A d \in Conns : Listening(d)' = Listening(d)
  BY <1>1 DEF Listening
<1>5. \A d \in Conns : Pending(d)' = PendingIn(target', sent', d)
  BY DEF Pending, PendingIn, Frame
<1>6. \A e \in Conns : target[e] = o => e = c
  BY <1>1, OneSpeaker
<1>7. Pending(o) = <<m>>
  BY <1>1, PendingValue DEF m
<1> HIDE DEF m
<1>8. Pending(o)' = <<>>
  <2>1. \A e \in Conns : target'[e] # o
    BY <1>1, <1>6, Seating
  <2> QED
    BY <2>1, <1>1, <1>5, PendingInValue
<1>9. ASSUME NEW d \in Conns, d # o
      PROVE  Pending(d)' = Pending(d)
  <2>1. \A e \in Conns : target'[e] = d <=> target[e] = d
    BY <1>1, <1>9, Seating
  <2>2. CASE \A e \in Conns : target[e] # d
    <3>1. Pending(d) = <<>>
      BY <2>2, PendingValue
    <3>2. PendingIn(target', sent', d) = <<>>
      <4>1. \A e \in Conns : target'[e] # d
        BY <2>1, <2>2
      <4> QED
        BY <4>1, PendingInValue
    <3> QED
      BY <3>1, <3>2, <1>5
  <2>3. CASE \E e \in Conns : target[e] = d
    <3>1. PICK e \in Conns : target[e] = d
      BY <2>3
    <3>2. \A f \in Conns : target'[f] = d => f = e
      BY <2>1, <3>1, OneSpeaker
    <3>3. PendingIn(target', sent', d) = <<Frame(e, sent'[e])>>
      BY <2>1, <3>1, <3>2, PendingInValue
    <3>4. Pending(d) = <<Frame(e, sent[e])>>
      BY <3>1, PendingValue
    <3> QED
      BY <3>3, <3>4, <1>1, <1>5
  <2> QED
    BY <2>2, <2>3
<1>10. \A d \in Conns : InboxOf(d)' = InboxOf(d)
  <2> SUFFICES ASSUME NEW d \in Conns PROVE InboxOf(d)' = InboxOf(d)
    OBVIOUS
  <2>1. CASE d # o
    <3>1. rx'[d] = rx[d]
      BY <1>1, <2>1
    <3> QED
      BY <2>1, <3>1, <1>4, <1>9 DEF InboxOf
  <2>2. CASE d = o /\ Listening(d)
    <3>1. rx'[d] = Append(rx[d], m)
      BY <1>1, <2>2 DEF Listening
    <3>2. rx[d] \in Seq(Frames) /\ Append(rx[d], m) \in Seq(Frames)
      BY <1>1, <1>2, AppendProperties
    <3>3. rx[d] \o <<m>> = Append(rx[d], m) /\ Append(rx[d], m) \o <<>> = Append(rx[d], m)
      BY <3>2, <1>2, AppendRest, ConcatEmptySeq
    <3> QED
      BY <2>2, <3>1, <3>3, <1>4, <1>7, <1>8 DEF InboxOf
  <2>3. CASE d = o /\ ~Listening(d)
    BY <2>3, <1>4 DEF InboxOf
  <2> QED
    BY <2>1, <2>2, <2>3
<1>11. inboxes' = inboxes
  BY <1>10 DEF inboxes
<1> QED
  BY <1>1, <1>3, <1>11, RoomsKept

\* rx.recv() alone shows nothing.
LEMMA RecvRoom ==
    ASSUME IInv, NEW c \in Conns, Recv(c)
    PROVE  UNCHANGED <<states, rooms, inboxes, written, sent>>
<1>1. /\ pc[c] = "loop" /\ pc' = [pc EXCEPT ![c] = "writing"] /\ pc \in [Conns -> Points]
      /\ UNCHANGED <<session, seat, sessions, target, rx, sent, written>>
  BY DEF Recv, IInv, TypeOK
<1>2. \A d \in Conns : StateOf(d)' = StateOf(d) /\ Listening(d)' = Listening(d)
  BY <1>1 DEF StateOf, Listening
<1>3. \A d \in Conns : InboxOf(d)' = InboxOf(d)
  BY <1>1, <1>2 DEF InboxOf, Pending, Frame
<1> QED
  BY <1>1, <1>2, <1>3, RoomsKept DEF states, inboxes

\* The head of the queue reaches the client.
LEMMA WriteDoneRoom ==
    ASSUME IInv, NEW c \in Conns, WriteDone(c)
    PROVE  Room!Hear(c)
<1>1. /\ pc[c] = "writing" /\ pc' = [pc EXCEPT ![c] = "loop"] /\ pc \in [Conns -> Points]
      /\ rx' = [rx EXCEPT ![c] = Tail(rx[c])] /\ rx \in [Conns -> Seq(Frames)]
      /\ rx[c] # <<>>
      /\ written' = [written EXCEPT ![c] = Append(written[c], Head(rx[c]))]
      /\ UNCHANGED <<session, seat, sessions, target, sent>>
  BY DEF WriteDone, IInv, TypeOK, Busy, Frames
<1>2. \A d \in Conns : StateOf(d)' = StateOf(d) /\ Listening(d)' = Listening(d)
  BY <1>1 DEF StateOf, Listening
<1>3. StateOf(c) = "in" /\ Listening(c)
  BY <1>1 DEF StateOf, Listening
<1>4. \A d \in Conns : Pending(d)' = Pending(d)
  BY <1>1 DEF Pending, Frame
<1>5. rx[c] \in Seq(Frames) /\ Pending(c) \in Seq(Frames)
  BY <1>1, PendingValue
<1>6. /\ InboxOf(c) # <<>>
      /\ Head(InboxOf(c)) = Head(rx[c])
      /\ InboxOf(c)' = Tail(InboxOf(c))
  <2>1. InboxOf(c) = rx[c] \o Pending(c)
    BY <1>3 DEF InboxOf
  <2>2. InboxOf(c)' = Tail(rx[c]) \o Pending(c)
    BY <1>1, <1>2, <1>3, <1>4 DEF InboxOf
  <2>3. /\ rx[c] \o Pending(c) # <<>>
        /\ Head(rx[c] \o Pending(c)) = Head(rx[c])
        /\ Tail(rx[c] \o Pending(c)) = Tail(rx[c]) \o Pending(c)
    BY <1>1, <1>5, TakeFirst
  <2> QED
    BY <2>1, <2>2, <2>3
<1>7. \A d \in Conns \ {c} : InboxOf(d)' = InboxOf(d)
  BY <1>1, <1>2, <1>4 DEF InboxOf
<1>8. inboxes' = [inboxes EXCEPT ![c] = Tail(inboxes[c])]
  BY <1>6, <1>7 DEF inboxes
<1>9. /\ inboxes[c] # <<>> /\ states[c] = "in"
      /\ written' = [written EXCEPT ![c] = Append(written[c], Head(inboxes[c]))]
  BY <1>1, <1>3, <1>6 DEF inboxes, states
<1>10. UNCHANGED <<states, rooms, sent>>
  BY <1>1, <1>2, RoomsKept DEF states
<1> QED
  BY <1>8, <1>9, <1>10 DEF Room!Hear, states, rooms, inboxes

\* A socket that has ended hears nothing more, whichever way it ended.
LEMMA EndRoom ==
    ASSUME IInv, NEW c \in Conns, WriteFails(c) \/ ReadEnds(c)
    PROVE  Room!GoDeaf(c)
<1>1. /\ pc[c] \in {"loop", "writing"} /\ pc' = [pc EXCEPT ![c] = "leaving"]
      /\ pc \in [Conns -> Points] /\ rx \in [Conns -> Seq(Frames)]
      /\ \A d \in Conns \ {c} : rx'[d] = rx[d]
      /\ UNCHANGED <<session, seat, sessions, target, sent, written>>
  BY DEF WriteFails, ReadEnds, IInv, TypeOK, Frames
<1>2. states[c] = "in" /\ states' = [states EXCEPT ![c] = "deaf"]
  <2>1. StateOf(c)' = "deaf" /\ StateOf(c) = "in"
    BY <1>1 DEF StateOf, Listening
  <2>2. \A d \in Conns \ {c} : StateOf(d)' = StateOf(d)
    BY <1>1, OthersKept
  <2> QED
    BY <2>1, <2>2 DEF states
<1>3. inboxes' = [inboxes EXCEPT ![c] = <<>>]
  <2>1. InboxOf(c)' = <<>>
    BY <1>1 DEF InboxOf, Listening
  <2>2. \A d \in Conns : Pending(d)' = Pending(d)
    BY <1>1 DEF Pending, Frame
  <2>3. \A d \in Conns \ {c} : InboxOf(d)' = InboxOf(d)
    BY <1>1, <2>2, OthersKept
  <2> QED
    BY <2>1, <2>3 DEF inboxes
<1>4. UNCHANGED <<rooms, written, sent>>
  BY <1>1, RoomsKept
<1> QED
  BY <1>2, <1>3, <1>4 DEF Room!GoDeaf, states, rooms, inboxes

\* A leaving task takes itself, and nobody else, out of its room.
LEMMA LeaveRoom ==
    ASSUME IInv, NEW c \in Conns, Leave(c)
    PROVE  \E s \in Sessions : Room!Exit(c, s)
<1>0. PICK s \in Sessions, x \in Seats : s = session[c] /\ x = seat[c]
  BY DEF Leave, IInv, Placed
<1> DEFINE e == Cleared(EntryOf(s), x)
<1>1. /\ pc[c] = "leaving" /\ pc' = [pc EXCEPT ![c] = "gone"] /\ pc \in [Conns -> Points]
      /\ SetEntry(s, e)
      /\ rx' = [rx EXCEPT ![c] = <<>>] /\ rx \in [Conns -> Seq(Frames)]
      /\ UNCHANGED <<session, seat, target, sent, written>>
  BY <1>0 DEF Leave, IInv, TypeOK, Frames
<1>2. EntryOf(s)[x] = c
  BY <1>0, <1>1 DEF IInv, SeatKept, Joined
<1>3. e \in Entry /\ \A y \in Seats : e[y] = IF y = x THEN None ELSE EntryOf(s)[y]
  BY <1>1, EntryType DEF IInv, Entry, Cleared
<1>4. \A t : EntryIn(sessions', t) = IF t = s THEN e ELSE EntryOf(t)
  <2> HIDE DEF e
  <2> QED
    BY <1>1, <1>3, SetEntryEffect DEF IInv
<1>5. \A y \in Seats : y # x => EntryOf(s)[y] # c
  BY <1>0, Seated, Seating DEF IInv
<1> HIDE DEF e
<1>6. rooms' = [rooms EXCEPT ![s] = @ \ {c}]
  <2>1. ASSUME NEW t \in Sessions
        PROVE  {EntryIn(sessions', t)[y] : y \in Seats} \ {None}
                  = IF t = s THEN Members(s) \ {c} ELSE Members(t)
    <3>1. CASE t # s
      BY <3>1, <1>4 DEF Members
    <3>2. CASE t = s
      BY <3>2, <1>2, <1>3, <1>4, <1>5, Seating DEF Members
    <3> QED
      BY <3>1, <3>2
  <2>2. rooms' = [t \in Sessions |-> {EntryIn(sessions', t)[y] : y \in Seats} \ {None}]
    BY DEF rooms, Members, EntryOf, EntryIn
  <2> QED
    BY <2>1, <2>2 DEF rooms
<1>7. states[c] = "deaf" /\ states' = [states EXCEPT ![c] = "done"]
  <2>1. StateOf(c)' = "done" /\ StateOf(c) = "deaf"
    BY <1>1 DEF StateOf, Listening
  <2>2. \A d \in Conns \ {c} : StateOf(d)' = StateOf(d)
    BY <1>1, OthersKept
  <2> QED
    BY <2>1, <2>2 DEF states
<1>8. inboxes' = inboxes
  <2>1. \A d \in Conns : Pending(d)' = Pending(d)
    BY <1>1 DEF Pending, Frame
  <2>2. InboxOf(c)' = <<>> /\ InboxOf(c) = <<>>
    BY <1>1 DEF InboxOf, Listening
  <2>3. \A d \in Conns \ {c} : InboxOf(d)' = InboxOf(d)
    BY <1>1, <2>1, OthersKept
  <2> QED
    BY <2>2, <2>3 DEF inboxes
<1>9. c \in rooms[s]
  BY <1>0, <1>1, MembersValue DEF Joined, rooms
<1> QED
  BY <1>1, <1>6, <1>7, <1>8, <1>9 DEF Room!Exit, states, rooms, inboxes

\* Every step of the relay is a step of the room, or leaves it as it is.
LEMMA NextRoom == IInv /\ [Next]_vars => [Room!Next]_(Room!vars)
<1> SUFFICES ASSUME IInv, [Next]_vars PROVE Room!Next \/ UNCHANGED Room!vars
  OBVIOUS
<1>1. ASSUME UNCHANGED <<states, rooms, inboxes, written, sent>>
      PROVE  UNCHANGED Room!vars
  BY <1>1 DEF Room!vars, states, rooms, inboxes
<1>2. ASSUME NEW c \in Conns, NEW s \in Sessions, Join(c, s) \/ RoomFull(c, s)
      PROVE  Room!Next
  BY <1>2, JoinRoom, RoomFullRoom DEF Room!Next
<1>3. ASSUME NEW c \in Conns, ReadFrame(c)
      PROVE  Room!Next
  <2>1. session[c] \in Sessions
    BY <1>3 DEF ReadFrame, IInv, Placed
  <2> QED
    BY <1>3, <2>1, ReadFrameRoom DEF Room!Next
<1>4. ASSUME NEW c \in Conns, WriteDone(c) \/ WriteFails(c) \/ ReadEnds(c) \/ Leave(c)
      PROVE  Room!Next
  BY <1>4, WriteDoneRoom, EndRoom, LeaveRoom DEF Room!Next
<1>5. ASSUME NEW c \in Conns, Forward(c) \/ Recv(c)
      PROVE  UNCHANGED Room!vars
  BY <1>1, <1>5, ForwardRoom, RecvRoom
<1>6. ASSUME UNCHANGED vars
      PROVE  UNCHANGED Room!vars
  <2>1. UNCHANGED <<states, rooms, inboxes, written, sent>>
    BY <1>6 DEF vars, states, rooms, inboxes, StateOf, Members, EntryOf, InboxOf,
                Listening, Pending, Frame
  <2> QED
    BY <1>1, <2>1
<1> QED
  BY <1>2, <1>3, <1>4, <1>5, <1>6 DEF Next, Finished

\* The relay, with its map, its mutex, its cloned senders and its channels,
\* implements the room of two in which a frame goes at once and in order to
\* whoever shares the room at that moment.
THEOREM Refinement == Spec => RoomPromise
  BY Inductive, InitRoom, NextRoom, PTL DEF Spec, RoomPromise, Room!Spec

=============================================================================
