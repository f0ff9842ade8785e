------------------------- MODULE SessionRelayProofs -------------------------
(***************************************************************************)
(* Proofs about SessionRelay for every number of connections, sessions and *)
(* frames.  The invariants the runs check are not inductive: a message in  *)
(* a queue says nothing by itself about who may still join, so IInv adds   *)
(* that a connection has a seat exactly from its join on (Placed), that a  *)
(* sender cloned and not yet used points across the room (Aimed), and that *)
(* whatever is queued or written came to a connection that had its seat    *)
(* (Heard).  A join then disturbs nobody's queue, since the newcomer had   *)
(* no seat and therefore appears in none.                                  *)
(*                                                                         *)
(* Two more invariants rest on IInv: who is heard (Talk), and that the     *)
(* frames of a sender follow one another (Flow).                           *)
(***************************************************************************)
EXTENDS SessionRelay, SequenceTheorems, TLAPS

Across(c, d) == seat[c] \in Seats /\ AcrossTheRoom(c, d)

Placed ==
    \A c \in Conns :
        IF pc[c] \in {"new", "rejected"} THEN seat[c] = None
        ELSE session[c] \in Sessions /\ seat[c] \in Seats

Aimed ==
    \A c \in Conns :
        /\ pc[c] = "forward" => target[c] \in Conns
        /\ target[c] # None => Across(target[c], c)

Busy == \A c \in Conns : pc[c] = "writing" => rx[c] # <<>>

Heard ==
    \A c \in Conns :
        /\ \A i \in DOMAIN rx[c] : Across(c, rx[c][i].from)
        /\ \A i \in DOMAIN written[c] : Across(c, written[c][i].from)

IInv ==
    /\ TypeOK
    /\ Placed
    /\ Aimed
    /\ Busy
    /\ Heard
    /\ SeatsAreLive
    /\ NoEmptyEntry

-----------------------------------------------------------------------------
(* Lemmas about the data.                                                  *)

\* The two seats face each other.
LEMMA Seating ==
    /\ \A x : Other(x) \in Seats
    /\ \A x \in Seats : Other(x) # x /\ Other(Other(x)) = x
    /\ None \notin Seats
  BY NoneAssumption DEF Other, Seats

\* Across is symmetric: who is across from me has me across.
LEMMA AcrossSymmetric ==
    ASSUME NEW c, NEW d, Across(c, d)
    PROVE  Across(d, c) /\ seat[d] \in Seats
  BY Seating DEF Across, AcrossTheRoom

\* What a queue holds after a message is appended.
LEMMA AppendElements ==
    ASSUME NEW S, NEW q \in Seq(S), NEW m \in S
    PROVE  /\ Append(q, m) \in Seq(S)
           /\ Append(q, m) # <<>>
           /\ \A i \in DOMAIN Append(q, m) :
                 Append(q, m)[i] = m \/ \E j \in DOMAIN q : Append(q, m)[i] = q[j]
  OBVIOUS

\* What a queue holds after its head is taken.
LEMMA TailElements ==
    ASSUME NEW S, NEW q \in Seq(S), q # <<>>
    PROVE  /\ Head(q) \in S
           /\ Tail(q) \in Seq(S)
           /\ Head(q) = q[1] /\ 1 \in DOMAIN q
           /\ \A i \in DOMAIN Tail(q) : \E j \in DOMAIN q : Tail(q)[i] = q[j]
  OBVIOUS

\* Entries are entries, in the map and by default.
LEMMA EntryType ==
    ASSUME TypeOK, NEW s
    PROVE  /\ EntryOf(s) \in Entry
           /\ \A x \in Seats : EntryOf(s)[x] \in Conns \cup {None}
  BY DEF TypeOK, EntryOf, Entry, Vacant

\* A relay task that looks across the room finds a seat held across from it.
LEMMA OppositeAcross ==
    ASSUME IInv, NEW c \in Conns, seat[c] \in Seats, NEW o \in Conns,
           EntryOf(session[c])[Other(seat[c])] = o
    PROVE  Across(o, c) /\ Joined(o)
<1>1. session[c] \in DOMAIN relays
  BY NoneAssumption, Seating DEF EntryOf, Vacant
<1>2. Joined(o) /\ session[o] = session[c] /\ seat[o] = Other(seat[c])
  BY <1>1, Seating, NoneAssumption DEF IInv, SeatsAreLive, EntryOf
<1> QED
  BY <1>2, Seating DEF Across, AcrossTheRoom

\* The map stays well typed when an entry is put in or taken out.
LEMMA MapType ==
    ASSUME TypeOK, NEW s \in Sessions, NEW e \in Entry
    PROVE  /\ DOMAIN WithEntry(s, e) \subseteq Sessions
           /\ WithEntry(s, e) \in [DOMAIN WithEntry(s, e) -> Entry]
           /\ DOMAIN WithoutEntry(s) \subseteq Sessions
           /\ WithoutEntry(s) \in [DOMAIN WithoutEntry(s) -> Entry]
  BY DEF TypeOK, WithEntry, WithoutEntry

\* A delivered message is at the end of one queue and nowhere else.
LEMMA DeliverType ==
    ASSUME TypeOK, NEW o \in Conns, NEW m \in Messages
    PROVE  /\ Deliver(rx, o, m) \in [Conns -> Seq(Messages)]
           /\ \A d \in Conns : rx[d] # <<>> => Deliver(rx, o, m)[d] # <<>>
           /\ \A d \in Conns : \A i \in DOMAIN Deliver(rx, o, m)[d] :
                 \/ d = o /\ Deliver(rx, o, m)[d][i] = m
                 \/ \E j \in DOMAIN rx[d] : Deliver(rx, o, m)[d][i] = rx[d][j]
<1>1. CASE pc[o] = "gone"
  BY <1>1 DEF Deliver, TypeOK
<1>2. CASE pc[o] # "gone"
  <2>1. Deliver(rx, o, m) = [rx EXCEPT ![o] = Append(rx[o], m)]
    BY <1>2 DEF Deliver
  <2>2. rx[o] \in Seq(Messages)
    BY DEF TypeOK
  <2> DEFINE q == Append(rx[o], m)
  <2>3. /\ q \in Seq(Messages) /\ q # <<>>
        /\ \A i \in DOMAIN q : q[i] = m \/ \E j \in DOMAIN rx[o] : q[i] = rx[o][j]
    BY <2>2, AppendElements
  <2>4. rx \in [Conns -> Seq(Messages)]
    BY DEF TypeOK
  <2> HIDE DEF q
  <2>5. Deliver(rx, o, m) = [rx EXCEPT ![o] = q]
    BY <2>1 DEF q
  <2>6. \A d \in Conns : Deliver(rx, o, m)[d] = IF d = o THEN q ELSE rx[d]
    BY <2>4, <2>5
  <2>7. Deliver(rx, o, m) \in [Conns -> Seq(Messages)]
    BY <2>3, <2>4, <2>5
  <2> QED
    BY <2>3, <2>6, <2>7
<1> QED
  BY <1>1, <1>2

\* The messages the tasks make are messages.
LEMMA MessageType ==
    ASSUME NEW c \in Conns
    PROVE  /\ Close(c) \in Messages /\ Close(c).from = c
           /\ \A n \in Nat : Frame(c, n) \in Messages /\ Frame(c, n).from = c
  BY DEF Close, Frame, Messages

-----------------------------------------------------------------------------
(* The invariant is inductive.  One lemma per kind of step.                   *)

\* Whatever is in a queue was sent by a connection.
LEMMA QueueElement ==
    ASSUME NEW q \in Seq(Messages), NEW i \in DOMAIN q
    PROVE  q[i].from \in Conns
<1>1. q[i] \in Messages
  OBVIOUS
<1> QED
  BY <1>1 DEF Messages

LEMMA InitIInv == Init => IInv
<1> SUFFICES ASSUME Init PROVE IInv
  OBVIOUS
<1>1. TypeOK
  BY MaxFramesAssumption DEF Init, TypeOK, Points, Entry
<1>2. Placed /\ Aimed /\ Busy /\ Heard
  BY DEF Init, Placed, Aimed, Busy, Heard
<1>3. SeatsAreLive /\ NoEmptyEntry
  BY DEF Init, SeatsAreLive, NoEmptyEntry
<1> QED
  BY <1>1, <1>2, <1>3 DEF IInv

\* Steps that leave the room, the seats and the queues alone: a task only moves
\* between points of its loop.
LEMMA MoveStep ==
    ASSUME IInv, NEW c \in Conns, Joined(c), pc[c] \notin {"gone", "new", "rejected"},
           NEW p \in {"loop", "writing", "leaving"},
           p = "writing" => rx[c] # <<>>,
           pc' = [pc EXCEPT ![c] = p],
           UNCHANGED <<session, seat, relays, target, rx, alive, sent, written, met, evicted>>
    PROVE  IInv'
<1>1. TypeOK'
  BY DEF IInv, TypeOK, Points
<1>2. Placed' /\ Busy'
  BY DEF IInv, Placed, Busy, TypeOK
<1>3. Aimed'
  BY DEF IInv, Aimed, TypeOK, Across, AcrossTheRoom
<1>4. Heard'
  BY DEF IInv, Heard, Across, AcrossTheRoom
<1>5. SeatsAreLive'
  BY DEF IInv, SeatsAreLive, Joined, TypeOK
<1>6. NoEmptyEntry'
  BY DEF IInv, NoEmptyEntry
<1> QED
  BY <1>1, <1>2, <1>3, <1>4, <1>5, <1>6 DEF IInv

\* The newcomer had no seat, so it is in nobody's queue and nobody's target.
LEMMA JoinStep ==
    ASSUME IInv, NEW c \in Conns, NEW s \in Sessions, Join(c, s)
    PROVE  IInv'
<1>0. PICK x \in Seats :
        /\ FreeSeat(EntryOf(s), x)
        /\ relays' = WithEntry(s, [EntryOf(s) EXCEPT ![x] = c])
        /\ seat' = [seat EXCEPT ![c] = x]
        /\ met' = Meet(c, EntryOf(s)[Other(x)])
  BY DEF Join
<1> DEFINE e == [EntryOf(s) EXCEPT ![x] = c]
<1>1. /\ pc[c] = "new" /\ seat[c] = None
      /\ relays' = WithEntry(s, e)
      /\ pc' = [pc EXCEPT ![c] = "loop"]
      /\ session' = [session EXCEPT ![c] = s]
      /\ UNCHANGED <<target, rx, alive, sent, written, evicted>>
  BY <1>0 DEF Join, IInv, Placed
<1>2. /\ EntryOf(s) \in Entry /\ e \in Entry /\ e[x] = c
      /\ \A y \in Seats \ {x} : e[y] = EntryOf(s)[y]
  BY EntryType DEF IInv, Entry
<1>3. \A d \in Conns \ {c} : session'[d] = session[d] /\ seat'[d] = seat[d] /\ pc'[d] = pc[d]
  BY <1>0, <1>1 DEF IInv, TypeOK
<1>4. session'[c] = s /\ seat'[c] = x /\ pc'[c] = "loop"
  BY <1>0, <1>1 DEF IInv, TypeOK
<1>5. \A d, f \in Conns : Across(d, f) => Across(d, f)'
  <2> SUFFICES ASSUME NEW d \in Conns, NEW f \in Conns, Across(d, f)
               PROVE  Across(d, f)'
    OBVIOUS
  <2>1. seat[d] \in Seats /\ seat[f] \in Seats
    BY AcrossSymmetric DEF Across
  <2>2. d # c /\ f # c
    BY <2>1, <1>1, Seating
  <2> QED
    BY <2>2, <1>3 DEF Across, AcrossTheRoom
<1>6. TypeOK'
  <2> DEFINE o == EntryOf(s)[Other(x)]
  <2>1. met' \in [Conns -> SUBSET Conns]
    <3>1. o \in Conns \cup {None}
      BY EntryType, Seating DEF IInv
    <3>2. met \in [Conns -> SUBSET Conns] /\ met' = Meet(c, o)
      BY <1>0 DEF IInv, TypeOK
    <3> HIDE DEF o
    <3>3. CASE o = None
      BY <3>2, <3>3 DEF Meet
    <3>4. CASE o \in Conns
      <4>1. \/ met' = met
            \/ met' = [met EXCEPT ![c] = @ \cup {o}, ![o] = @ \cup {c}]
        BY <3>2 DEF Meet
      <4> QED
        BY <3>2, <3>4, <4>1
    <3> QED
      BY <3>1, <3>3, <3>4
  <2>2. DOMAIN relays' \subseteq Sessions /\ relays' \in [DOMAIN relays' -> Entry]
    BY <1>1, <1>2, MapType DEF IInv
  <2>3. pc' \in [Conns -> Points] /\ session' \in [Conns -> Sessions \cup {None}]
        /\ seat' \in [Conns -> Seats \cup {None}]
    BY <1>0, <1>1 DEF IInv, TypeOK, Points
  <2> QED
    BY <2>1, <2>2, <2>3, <1>1 DEF IInv, TypeOK
<1>7. Placed' /\ Busy'
  BY <1>1, <1>3, <1>4 DEF IInv, Placed, Busy
<1>8. Aimed'
  BY <1>1, <1>3, <1>4, <1>5 DEF IInv, Aimed, TypeOK
<1>9. Heard'
  <2>1. \A d \in Conns : \A i \in DOMAIN rx[d] : rx[d][i].from \in Conns
    BY QueueElement DEF IInv, TypeOK
  <2>2. \A d \in Conns : \A i \in DOMAIN written[d] : written[d][i].from \in Conns
    BY QueueElement DEF IInv, TypeOK
  <2>3. \A d \in Conns : \A i \in DOMAIN rx[d] : Across(d, rx[d][i].from)'
    BY <1>1, <1>5, <2>1 DEF IInv, Heard
  <2>4. \A d \in Conns : \A i \in DOMAIN written[d] : Across(d, written[d][i].from)'
    BY <1>1, <1>5, <2>2 DEF IInv, Heard
  <2> QED
    BY <1>1, <2>3, <2>4 DEF Heard
<1>10. DOMAIN relays' = DOMAIN relays \cup {s}
       /\ \A t \in DOMAIN relays' : relays'[t] = IF t = s THEN e ELSE relays[t]
  BY <1>1 DEF WithEntry
<1>11. SeatsAreLive'
  <2>1. ASSUME NEW t \in DOMAIN relays', NEW y \in Seats, NEW d, d = relays'[t][y], d # None
        PROVE  pc'[d] \in {"loop", "forward", "writing", "leaving"} /\ session'[d] = t /\ seat'[d] = y
    <3>1. CASE t = s /\ y = x
      BY <2>1, <3>1, <1>2, <1>4, <1>10
    <3>2. CASE ~(t = s /\ y = x)
      <4>1. t \in DOMAIN relays /\ relays[t][y] = d
        BY <2>1, <3>2, <1>2, <1>10, NoneAssumption DEF EntryOf, Vacant
      <4>2. d \in Conns
        BY <2>1, <4>1 DEF IInv, TypeOK, Entry
      <4>3. Joined(d) /\ session[d] = t /\ seat[d] = y
        BY <2>1, <4>1 DEF IInv, SeatsAreLive
      <4>4. d # c
        BY <4>3, <1>1 DEF Joined
      <4> QED
        BY <4>2, <4>3, <4>4, <1>3 DEF Joined
    <3> QED
      BY <3>1, <3>2
  <2> HIDE DEF e
  <2>2. \A t \in DOMAIN relays', y \in Seats :
           relays'[t][y] # None =>
              /\ pc'[relays'[t][y]] \in {"loop", "forward", "writing", "leaving"}
              /\ session'[relays'[t][y]] = t
              /\ seat'[relays'[t][y]] = y
    BY <2>1
  <2> QED
    BY <2>2 DEF SeatsAreLive, Joined
<1>12. NoEmptyEntry'
  <2>1. e # Vacant
    BY <1>2, NoneAssumption DEF Vacant
  <2> QED
    BY <2>1, <1>10 DEF IInv, NoEmptyEntry
<1> QED
  BY <1>6, <1>7, <1>8, <1>9, <1>11, <1>12 DEF IInv

\* A task that is turned away never had a seat.
LEMMA RoomFullStep ==
    ASSUME IInv, NEW c \in Conns, NEW s \in Sessions, RoomFull(c, s)
    PROVE  IInv'
<1>1. TypeOK'
  BY DEF IInv, TypeOK, Points, RoomFull
<1>2. Placed' /\ Busy'
  BY DEF IInv, Placed, Busy, TypeOK, RoomFull
<1>3. Aimed'
  BY DEF IInv, Aimed, TypeOK, Across, AcrossTheRoom, RoomFull
<1>4. Heard'
  BY DEF IInv, Heard, Across, AcrossTheRoom, RoomFull
<1>5. SeatsAreLive'
  BY DEF IInv, SeatsAreLive, Joined, TypeOK, RoomFull
<1>6. NoEmptyEntry'
  BY DEF IInv, NoEmptyEntry, RoomFull
<1> QED
  BY <1>1, <1>2, <1>3, <1>4, <1>5, <1>6 DEF IInv

\* The sender that is cloned belongs to whoever holds the seat across.
LEMMA ReadFrameStep ==
    ASSUME IInv, NEW c \in Conns, ReadFrame(c)
    PROVE  IInv'
<1> DEFINE o == Opposite(c)
<1>1. /\ pc[c] = "loop" /\ session[c] \in Sessions /\ seat[c] \in Seats
      /\ sent[c] < MaxFrames
      /\ sent' = [sent EXCEPT ![c] = @ + 1]
      /\ target' = [target EXCEPT ![c] = o]
      /\ pc' = [pc EXCEPT ![c] = IF o = None THEN "loop" ELSE "forward"]
      /\ UNCHANGED <<session, seat, relays, rx, alive, written, met, evicted>>
  BY DEF IInv, Placed, ReadFrame
<1>2. o \in Conns \cup {None}
  BY EntryType, Seating DEF IInv, Opposite
<1>3. o # None => Across(o, c)
  BY <1>1, <1>2, OppositeAcross DEF Opposite
<1>4. TypeOK'
  <2>1. sent' \in [Conns -> 0..MaxFrames]
    BY <1>1, MaxFramesAssumption DEF IInv, TypeOK
  <2> QED
    BY <1>1, <1>2, <2>1 DEF IInv, TypeOK, Points
<1>5. Placed' /\ Busy'
  BY <1>1 DEF IInv, Placed, Busy, TypeOK
<1>6. Aimed'
  BY <1>1, <1>2, <1>3 DEF IInv, Aimed, TypeOK, Across, AcrossTheRoom
<1>7. Heard'
  BY <1>1 DEF IInv, Heard, Across, AcrossTheRoom
<1>8. SeatsAreLive'
  BY <1>1 DEF IInv, SeatsAreLive, Joined, TypeOK
<1>9. NoEmptyEntry'
  BY <1>1 DEF IInv, NoEmptyEntry
<1> QED
  BY <1>4, <1>5, <1>6, <1>7, <1>8, <1>9 DEF IInv

\* The clone still points across the room, whoever has lost its seat since.
LEMMA ForwardStep ==
    ASSUME IInv, NEW c \in Conns, Forward(c)
    PROVE  IInv'
<1> DEFINE o == target[c]
           m == Frame(c, sent[c])
<1>1. /\ pc[c] = "forward"
      /\ rx' = Deliver(rx, o, m)
      /\ target' = [target EXCEPT ![c] = None]
      /\ pc' = [pc EXCEPT ![c] = "loop"]
      /\ UNCHANGED <<session, seat, relays, alive, sent, written, met, evicted>>
  BY DEF Forward
<1>2. o \in Conns /\ Across(o, c)
  BY <1>1, NoneAssumption DEF IInv, Aimed
<1>3. sent[c] \in Nat
  BY MaxFramesAssumption DEF IInv, TypeOK
<1>4. m \in Messages /\ m.from = c
  BY <1>3, MessageType
<1> HIDE DEF o, m
<1>5. TypeOK'
  <2>1. rx' \in [Conns -> Seq(Messages)]
    BY <1>1, <1>2, <1>4, DeliverType DEF IInv
  <2> QED
    BY <1>1, <2>1 DEF IInv, TypeOK, Points
<1>6. Placed'
  BY <1>1 DEF IInv, Placed, TypeOK
<1>7. Busy'
  BY <1>1, <1>2, <1>4, DeliverType DEF IInv, Busy, TypeOK
<1>8. Aimed'
  BY <1>1 DEF IInv, Aimed, TypeOK, Across, AcrossTheRoom
<1>9. Heard'
  <2>1. \A d \in Conns : \A i \in DOMAIN rx'[d] :
           \/ d = o /\ rx'[d][i] = m
           \/ \E j \in DOMAIN rx[d] : rx'[d][i] = rx[d][j]
    <3>1. \A d \in Conns : \A i \in DOMAIN Deliver(rx, o, m)[d] :
             \/ d = o /\ Deliver(rx, o, m)[d][i] = m
             \/ \E j \in DOMAIN rx[d] : Deliver(rx, o, m)[d][i] = rx[d][j]
      BY <1>2, <1>4, DeliverType DEF IInv
    <3> QED
      BY <1>1, <3>1
  <2>2. \A d \in Conns : \A i \in DOMAIN rx'[d] : Across(d, rx'[d][i].from)
    BY <2>1, <1>2, <1>4 DEF IInv, Heard
  <2> QED
    BY <2>2, <1>1 DEF IInv, Heard, Across, AcrossTheRoom
<1>10. SeatsAreLive'
  BY <1>1 DEF IInv, SeatsAreLive, Joined, TypeOK
<1>11. NoEmptyEntry'
  BY <1>1 DEF IInv, NoEmptyEntry
<1> QED
  BY <1>5, <1>6, <1>7, <1>8, <1>9, <1>10, <1>11 DEF IInv

\* The end of a write, well or badly: the head leaves rx and may join written.
LEMMA WriteStep ==
    ASSUME IInv, NEW c \in Conns, WriteDone(c) \/ WriteFails(c)
    PROVE  IInv'
<1> DEFINE m == Head(rx[c])
<1>1. /\ pc[c] = "writing" /\ rx[c] # <<>> /\ rx[c] \in Seq(Messages)
      /\ written[c] \in Seq(Messages)
      /\ rx' = [rx EXCEPT ![c] = Tail(@)]
      /\ UNCHANGED <<session, seat, relays, target, alive, sent, met, evicted>>
  BY DEF IInv, Busy, TypeOK, WriteDone, WriteFails
<1>2. PICK p \in {"loop", "leaving"} : pc' = [pc EXCEPT ![c] = p]
  BY DEF WriteDone, WriteFails
<1>3. written' = written \/ written' = [written EXCEPT ![c] = Append(written[c], m)]
  BY DEF WriteDone, WriteFails
<1>4. /\ m \in Messages /\ m = rx[c][1] /\ 1 \in DOMAIN rx[c]
      /\ Tail(rx[c]) \in Seq(Messages)
      /\ \A i \in DOMAIN Tail(rx[c]) : \E j \in DOMAIN rx[c] : Tail(rx[c])[i] = rx[c][j]
  BY <1>1, TailElements
<1>5. /\ Append(written[c], m) \in Seq(Messages)
      /\ \A i \in DOMAIN Append(written[c], m) :
            \/ Append(written[c], m)[i] = m
            \/ \E j \in DOMAIN written[c] : Append(written[c], m)[i] = written[c][j]
  BY <1>1, <1>4, AppendElements
<1> HIDE DEF m
<1>6. TypeOK'
  <2>1. rx' \in [Conns -> Seq(Messages)]
    BY <1>1, <1>4 DEF IInv, TypeOK
  <2>2. written' \in [Conns -> Seq(Messages)]
    BY <1>3, <1>5 DEF IInv, TypeOK
  <2> QED
    BY <1>1, <1>2, <2>1, <2>2 DEF IInv, TypeOK, Points
<1>7. Placed'
  BY <1>1, <1>2 DEF IInv, Placed, TypeOK
<1>8. Busy'
  BY <1>1, <1>2 DEF IInv, Busy, TypeOK
<1>9. Aimed'
  BY <1>1, <1>2 DEF IInv, Aimed, TypeOK, Across, AcrossTheRoom
<1>10. Heard'
  <2>1. Across(c, m.from)
    BY <1>4 DEF IInv, Heard
  <2>2. \A d \in Conns : \A i \in DOMAIN rx'[d] : \E j \in DOMAIN rx[d] : rx'[d][i] = rx[d][j]
    BY <1>1, <1>4 DEF IInv, TypeOK
  <2>3. \A d \in Conns : \A i \in DOMAIN written'[d] :
           \/ d = c /\ written'[d][i] = m
           \/ \E j \in DOMAIN written[d] : written'[d][i] = written[d][j]
    BY <1>3, <1>5 DEF IInv, TypeOK
  <2>4. \A d \in Conns : \A i \in DOMAIN rx'[d] : Across(d, rx'[d][i].from)
    BY <2>2 DEF IInv, Heard
  <2>5. \A d \in Conns : \A i \in DOMAIN written'[d] : Across(d, written'[d][i].from)
    BY <2>1, <2>3 DEF IInv, Heard
  <2> QED
    BY <2>4, <2>5, <1>1 DEF Heard, Across, AcrossTheRoom
<1>11. SeatsAreLive'
  BY <1>1, <1>2 DEF IInv, SeatsAreLive, Joined, TypeOK
<1>12. NoEmptyEntry'
  BY <1>1 DEF IInv, NoEmptyEntry
<1> QED
  BY <1>6, <1>7, <1>8, <1>9, <1>10, <1>11, <1>12 DEF IInv

\* Both seats are cleared, so the id leaves the map.
LEMMA LeaveStep ==
    ASSUME IInv, NEW c \in Conns, Leave(c)
    PROVE  IInv'
<1> DEFINE s == session[c]
           x == seat[c]
           o == EntryOf(s)[Other(x)]
           q == IF o = None THEN rx ELSE Deliver(rx, o, Close(c))
<1>1. /\ pc[c] = "leaving" /\ s \in Sessions /\ x \in Seats
      /\ relays' = IF Cleared(EntryOf(s), x) = Vacant THEN WithoutEntry(s)
                   ELSE WithEntry(s, Cleared(EntryOf(s), x))
      /\ rx' = [q EXCEPT ![c] = <<>>]
      /\ pc' = [pc EXCEPT ![c] = "gone"]
      /\ evicted' = evicted \cup (SittersOf(s) \ {c})
      /\ UNCHANGED <<session, seat, target, alive, sent, written, met>>
  BY DEF IInv, Placed, Leave
<1>2. relays' = WithoutEntry(s)
  <2>1. EntryOf(s) \in Entry
    BY EntryType DEF IInv
  <2>2. Cleared(EntryOf(s), x) = Vacant
    BY <2>1, <1>1 DEF Cleared, Entry, Vacant, Seats, Other
  <2> QED
    BY <1>1, <2>2
<1>3. o \in Conns \cup {None}
  BY EntryType, Seating DEF IInv
<1>4. o # None => Across(o, c)
  BY <1>1, <1>3, OppositeAcross
<1>5. /\ q \in [Conns -> Seq(Messages)]
      /\ \A d \in Conns : rx[d] # <<>> => q[d] # <<>>
      /\ \A d \in Conns : \A i \in DOMAIN q[d] : Across(d, q[d][i].from)
  <2>1. CASE o = None
    BY <2>1 DEF IInv, TypeOK, Heard
  <2>2. CASE o \in Conns
    <3> DEFINE m == Close(c)
    <3>1. q = Deliver(rx, o, m)
      BY <2>2, NoneAssumption
    <3>2. m \in Messages /\ m.from = c /\ Across(o, c)
      BY <1>4, <2>2, NoneAssumption, MessageType
    <3> HIDE DEF o, m, q
    <3>3. /\ q \in [Conns -> Seq(Messages)]
          /\ \A d \in Conns : rx[d] # <<>> => q[d] # <<>>
          /\ \A d \in Conns : \A i \in DOMAIN q[d] :
                \/ d = o /\ q[d][i] = m
                \/ \E j \in DOMAIN rx[d] : q[d][i] = rx[d][j]
      <4>1. /\ Deliver(rx, o, m) \in [Conns -> Seq(Messages)]
            /\ \A d \in Conns : rx[d] # <<>> => Deliver(rx, o, m)[d] # <<>>
            /\ \A d \in Conns : \A i \in DOMAIN Deliver(rx, o, m)[d] :
                  \/ d = o /\ Deliver(rx, o, m)[d][i] = m
                  \/ \E j \in DOMAIN rx[d] : Deliver(rx, o, m)[d][i] = rx[d][j]
        BY <2>2, <3>2, DeliverType DEF IInv
      <4> QED
        BY <3>1, <4>1
    <3> QED
      BY <3>2, <3>3 DEF IInv, Heard
  <2> QED
    BY <1>3, <2>1, <2>2
<1> HIDE DEF q, o
<1>6. TypeOK'
  <2>1. rx' \in [Conns -> Seq(Messages)]
    BY <1>1, <1>5
  <2>2. DOMAIN relays' \subseteq Sessions /\ relays' \in [DOMAIN relays' -> Entry]
    BY <1>2 DEF IInv, TypeOK, WithoutEntry
  <2> QED
    BY <1>1, <2>1, <2>2 DEF IInv, TypeOK, Points, SittersOf
<1>7. Placed'
  BY <1>1 DEF IInv, Placed, TypeOK
<1>8. Busy'
  BY <1>1, <1>5 DEF IInv, Busy, TypeOK
<1>9. Aimed'
  BY <1>1 DEF IInv, Aimed, TypeOK, Across, AcrossTheRoom
<1>10. Heard'
  <2>1. \A d \in Conns : \A i \in DOMAIN rx'[d] : Across(d, rx'[d][i].from)
    BY <1>1, <1>5
  <2> QED
    BY <1>1, <2>1 DEF IInv, Heard, Across, AcrossTheRoom
<1>11. DOMAIN relays' = DOMAIN relays \ {s} /\ \A t \in DOMAIN relays' : relays'[t] = relays[t]
  BY <1>2 DEF WithoutEntry
<1>12. SeatsAreLive'
  <2>1. \A t \in DOMAIN relays', y \in Seats :
           relays'[t][y] # None =>
              /\ pc'[relays'[t][y]] \in {"loop", "forward", "writing", "leaving"}
              /\ session'[relays'[t][y]] = t
              /\ seat'[relays'[t][y]] = y
    <3> SUFFICES ASSUME NEW t \in DOMAIN relays, t # s, NEW y \in Seats, relays[t][y] # None
                 PROVE  /\ pc'[relays[t][y]] \in {"loop", "forward", "writing", "leaving"}
                        /\ session'[relays[t][y]] = t
                        /\ seat'[relays[t][y]] = y
      BY <1>11
    <3> DEFINE d == relays[t][y]
    <3>1. d \in Conns
      BY DEF IInv, TypeOK, Entry
    <3>2. Joined(d) /\ session[d] = t /\ seat[d] = y
      BY DEF IInv, SeatsAreLive
    <3>3. d # c
      BY <3>2
    <3> QED
      BY <1>1, <3>1, <3>2, <3>3 DEF Joined, IInv, TypeOK
  <2> QED
    BY <2>1 DEF SeatsAreLive, Joined
<1>13. NoEmptyEntry'
  BY <1>11 DEF IInv, NoEmptyEntry
<1> QED
  BY <1>6, <1>7, <1>8, <1>9, <1>10, <1>12, <1>13 DEF IInv

\* Steps of the environment, and steps that change nothing.
LEMMA IdleStep ==
    ASSUME IInv, UNCHANGED vars \/ \E c \in Conns : FallSilent(c)
    PROVE  IInv'
<1>1. /\ UNCHANGED <<pc, session, seat, relays, target, rx, sent, written, met, evicted>>
      /\ alive' \in [Conns -> BOOLEAN]
  BY DEF IInv, TypeOK, FallSilent, vars
<1>2. TypeOK'
  BY <1>1 DEF IInv, TypeOK
<1>3. Placed' /\ Busy' /\ Aimed'
  BY <1>1 DEF IInv, Placed, Busy, Aimed, Across, AcrossTheRoom
<1>4. Heard'
  BY <1>1 DEF IInv, Heard, Across, AcrossTheRoom
<1>5. SeatsAreLive' /\ NoEmptyEntry'
  BY <1>1 DEF IInv, SeatsAreLive, NoEmptyEntry, Joined
<1> QED
  BY <1>2, <1>3, <1>4, <1>5 DEF IInv

\* Every step keeps the invariant.
LEMMA NextIInv == IInv /\ [Next]_vars => IInv'
<1> SUFFICES ASSUME IInv, [Next]_vars PROVE IInv'
  OBVIOUS
<1>1. ASSUME NEW c \in Conns, NEW s \in Sessions, Join(c, s) PROVE IInv'
  BY <1>1, JoinStep
<1>2. ASSUME NEW c \in Conns, NEW s \in Sessions, RoomFull(c, s) PROVE IInv'
  BY <1>2, RoomFullStep
<1>3. ASSUME NEW c \in Conns, ReadFrame(c) PROVE IInv'
  BY <1>3, ReadFrameStep
<1>4. ASSUME NEW c \in Conns, Forward(c) PROVE IInv'
  BY <1>4, ForwardStep
<1>5. ASSUME NEW c \in Conns, Recv(c) PROVE IInv'
  BY <1>5, MoveStep DEF Recv, Joined
<1>6. ASSUME NEW c \in Conns, WriteDone(c) \/ WriteFails(c) PROVE IInv'
  BY <1>6, WriteStep
<1>7. ASSUME NEW c \in Conns, RecvNone(c) \/ ReadEnds(c) \/ IdleTimeout(c) PROVE IInv'
  BY <1>7, MoveStep DEF RecvNone, ReadEnds, IdleTimeout, Joined
<1>8. ASSUME NEW c \in Conns, Leave(c) PROVE IInv'
  BY <1>8, LeaveStep
<1>9. ASSUME UNCHANGED vars \/ \E c \in Conns : FallSilent(c) PROVE IInv'
  BY <1>9, IdleStep
<1> QED
  BY <1>1, <1>2, <1>3, <1>4, <1>5, <1>6, <1>7, <1>8, <1>9 DEF Next, Finished

\* IInv holds in every state the relay can reach, whatever the number of
\* connections, ids and frames.
THEOREM Inductive == Spec => []IInv
<1> QED
  BY InitIInv, NextIInv, PTL DEF Spec

-----------------------------------------------------------------------------
(* The theorems a reader should know of.                                   *)

\* Every variable keeps its type, for every instance of the constants.
THEOREM TypeCorrect == Spec => []TypeOK
<1>1. IInv => TypeOK
  BY DEF IInv
<1> QED
  BY <1>1, Inductive, PTL

\* A sender in the shared map always belongs to a running task that believes it
\* sits there: no exit of session_ws, in any interleaving, leaves one behind.
THEOREM LiveSeats == Spec => []SeatsAreLive
<1>1. IInv => SeatsAreLive
  BY DEF IInv
<1> QED
  BY <1>1, Inductive, PTL

\* No id stays in the map without an occupied seat: the map cannot grow with
\* the sessions of the past.
THEOREM NoLeftoverEntry == Spec => []NoEmptyEntry
<1>1. IInv => NoEmptyEntry
  BY DEF IInv
<1> QED
  BY <1>1, Inductive, PTL

\* Nothing queued for or written to a client comes from another session or from
\* its own side of the room.
THEOREM Isolated == Spec => []Isolation
<1>1. IInv => Isolation
  BY DEF IInv, Heard, Across, Isolation
<1> QED
  BY <1>1, Inductive, PTL

\* No step of any task overwrites a seat that somebody holds.
THEOREM SeatsAreNotStolen == Spec => SeatNotStolen
<1> DEFINE Kept == \A s \in Sessions, x \in Seats :
               EntryOf(s)[x] # None => EntryOf(s)'[x] \in {EntryOf(s)[x], None}
<1>1. ASSUME IInv, [Next]_vars PROVE Kept
  <2>1. ASSUME UNCHANGED relays PROVE Kept
    BY <2>1 DEF EntryOf
  <2>2. ASSUME NEW c \in Conns, NEW t \in Sessions, Join(c, t) PROVE Kept
    <3>1. PICK y \in Seats : /\ FreeSeat(EntryOf(t), y)
                             /\ relays' = WithEntry(t, [EntryOf(t) EXCEPT ![y] = c])
      BY <2>2 DEF Join
    <3> DEFINE e == [EntryOf(t) EXCEPT ![y] = c]
    <3>2. \A s \in Sessions : EntryOf(s)' = IF s = t THEN e ELSE EntryOf(s)
      BY <3>1 DEF EntryOf, WithEntry
    <3>3. EntryOf(t) \in Entry
      BY <1>1, EntryType DEF IInv
    <3>4. EntryOf(t)[y] = None
      BY <3>1 DEF FreeSeat
    <3> QED
      BY <3>2, <3>3, <3>4 DEF Entry
  <2>3. ASSUME NEW c \in Conns, Leave(c) PROVE Kept
    <3> DEFINE t == session[c]
               e == Cleared(EntryOf(t), seat[c])
    <3>1. relays' = IF e = Vacant THEN WithoutEntry(t) ELSE WithEntry(t, e)
      BY <2>3 DEF Leave
    <3>2. EntryOf(t) \in Entry
      BY <1>1, EntryType DEF IInv
    <3>3. \A x \in Seats : e[x] \in {EntryOf(t)[x], None}
      BY <3>2 DEF Cleared, Entry
    <3> HIDE DEF e
    <3>4. \A s \in Sessions : EntryOf(s)' = IF s = t THEN e ELSE EntryOf(s)
      BY <3>1 DEF EntryOf, WithEntry, WithoutEntry
    <3> QED
      BY <3>3, <3>4
  <2> QED
    BY <1>1, <2>1, <2>2, <2>3
    DEF Next, Finished, vars, RoomFull, ReadFrame, Forward, Recv, WriteDone,
        WriteFails, RecvNone, ReadEnds, IdleTimeout, FallSilent
<1>2. ASSUME IInv, [Next]_vars PROVE [Kept]_vars
  BY <1>1, <1>2
<1> QED
  BY <1>2, Inductive, PTL DEF Spec, SeatNotStolen

-----------------------------------------------------------------------------
(* Who is heard.  The two of a room have met (Paired); a task that runs has   *)
(* its seat, unless another's exit evicted it (SeatOrEvicted); so whoever has *)
(* cloned a sender, queued a message or had one written had met the receiver  *)
(* or been evicted by then.                                                   *)

Knows(c, d) == d \in met[c] \cup evicted

Paired ==
    \A s \in DOMAIN relays, x \in Seats :
        relays[s][x] # None /\ relays[s][Other(x)] # None
            => relays[s][Other(x)] \in met[relays[s][x]]

SeatOrEvicted == \A d \in Conns : Joined(d) => Seated(d) \/ d \in evicted

Talk ==
    /\ Paired
    /\ SeatOrEvicted
    /\ \A d \in Conns : target[d] # None => Knows(target[d], d)
    /\ OnlyPeersOrEvictedTalk

\* The entries after a step, seen from a connection.
LEMMA RoomAfterJoin ==
    ASSUME IInv, NEW c \in Conns, NEW s \in Sessions, Join(c, s)
    PROVE  \E x \in Seats :
              /\ EntryOf(s)[x] = None
              /\ seat' = [seat EXCEPT ![c] = x]
              /\ met' = Meet(c, EntryOf(s)[Other(x)])
              /\ DOMAIN relays' = DOMAIN relays \cup {s}
              /\ \A t \in DOMAIN relays', y \in Seats :
                    relays'[t][y] = IF t = s /\ y = x THEN c ELSE EntryOf(t)[y]
<1>1. PICK x \in Seats :
        /\ FreeSeat(EntryOf(s), x)
        /\ relays' = WithEntry(s, [EntryOf(s) EXCEPT ![x] = c])
        /\ seat' = [seat EXCEPT ![c] = x]
        /\ met' = Meet(c, EntryOf(s)[Other(x)])
  BY DEF Join
<1>2. EntryOf(s) \in Entry
  BY EntryType DEF IInv
<1>3. DOMAIN relays' = DOMAIN relays \cup {s}
  BY <1>1 DEF WithEntry
<1>4. \A t \in DOMAIN relays', y \in Seats :
         relays'[t][y] = IF t = s /\ y = x THEN c ELSE EntryOf(t)[y]
  BY <1>1, <1>2 DEF WithEntry, EntryOf, Entry
<1> QED
  BY <1>1, <1>3, <1>4 DEF FreeSeat

\* A Leave clears both seats, so the whole entry goes.
LEMMA RoomAfterLeave ==
    ASSUME IInv, NEW c \in Conns, Leave(c)
    PROVE  /\ relays' = WithoutEntry(session[c])
           /\ DOMAIN relays' = DOMAIN relays \ {session[c]}
           /\ \A t \in DOMAIN relays' : relays'[t] = relays[t]
<1>1. EntryOf(session[c]) \in Entry /\ seat[c] \in Seats
  BY EntryType DEF IInv, Placed, Leave
<1>2. Cleared(EntryOf(session[c]), seat[c]) = Vacant
  BY <1>1 DEF Cleared, Entry, Vacant, Seats, Other
<1>3. relays' = WithoutEntry(session[c])
  BY <1>2 DEF Leave
<1> QED
  BY <1>3 DEF WithoutEntry

\* The steps that touch neither a room nor a seat.
InRoom ==
    /\ UNCHANGED <<session, seat, relays, met, evicted>>
    /\ \A d \in Conns : seat[d] \in Seats /\ Joined(d)' => Joined(d)

\* Everything but a join and a leave.
LEMMA InRoomSteps ==
    ASSUME IInv, NEW c \in Conns,
           \/ \E s \in Sessions : RoomFull(c, s)
           \/ ReadFrame(c) \/ Forward(c) \/ Recv(c) \/ WriteDone(c) \/ WriteFails(c)
           \/ RecvNone(c) \/ ReadEnds(c) \/ IdleTimeout(c) \/ FallSilent(c)
           \/ UNCHANGED vars
    PROVE  InRoom
<1>1. UNCHANGED <<session, seat, relays, met, evicted>>
  BY DEF RoomFull, ReadFrame, Forward, Recv, WriteDone, WriteFails, RecvNone, ReadEnds,
         IdleTimeout, FallSilent, vars
<1>2. ASSUME NEW d \in Conns, seat[d] \in Seats, Joined(d)' PROVE Joined(d)
  <2>1. pc[d] \notin {"new", "rejected"}
    BY <1>2, Seating DEF IInv, Placed
  <2>2. pc[d] \in Points /\ pc \in [Conns -> Points]
    BY <1>2 DEF IInv, TypeOK
  <2>3. pc[d] = "gone" => pc'[d] = "gone"
    BY <2>2 DEF RoomFull, ReadFrame, Forward, Recv, WriteDone, WriteFails, RecvNone,
                ReadEnds, IdleTimeout, FallSilent, vars
  <2> QED
    BY <1>2, <2>1, <2>2, <2>3 DEF Joined, Points
<1> QED
  BY <1>1, <1>2 DEF InRoom

\* Who is known stays known: both histories only grow.
LEMMA KnowsStays ==
    ASSUME IInv, NEW c \in Conns, NEW d \in Conns, Knows(c, d),
           \/ InRoom
           \/ \E e \in Conns, s \in Sessions : Join(e, s)
           \/ \E e \in Conns : Leave(e)
    PROVE  Knows(c, d)'
<1>1. evicted \subseteq evicted'
  BY DEF InRoom, Join, Leave
<1>2. met[c] \subseteq met'[c]
  <2>1. ASSUME NEW e \in Conns, NEW s \in Sessions, Join(e, s) PROVE met[c] \subseteq met'[c]
    <3>1. PICK x \in Seats : met' = Meet(e, EntryOf(s)[Other(x)])
      BY <2>1 DEF Join
    <3> QED
      BY <3>1 DEF Meet, IInv, TypeOK
  <2> QED
    BY <2>1 DEF InRoom, Leave
<1> QED
  BY <1>1, <1>2 DEF Knows

\* A seat is lost to the exit of another task only, which then is on record.
LEMMA SeatOrEvictedStays ==
    ASSUME IInv, IInv', SeatOrEvicted,
           \/ InRoom
           \/ \E e \in Conns, s \in Sessions : Join(e, s)
           \/ \E e \in Conns : Leave(e)
    PROVE  SeatOrEvicted'
<1> SUFFICES ASSUME NEW d \in Conns, Joined(d)', d \notin evicted' PROVE Seated(d)'
  BY DEF SeatOrEvicted
<1>1. CASE InRoom
  <2>1. Joined(d)
    BY <1>1 DEF InRoom, IInv, Placed, Joined
  <2> QED
    BY <1>1, <2>1 DEF InRoom, SeatOrEvicted, Seated, EntryOf
<1>2. ASSUME NEW e \in Conns, NEW s \in Sessions, Join(e, s) PROVE Seated(d)'
  <2>1. PICK x \in Seats :
          /\ EntryOf(s)[x] = None
          /\ seat' = [seat EXCEPT ![e] = x]
          /\ met' = Meet(e, EntryOf(s)[Other(x)])
          /\ DOMAIN relays' = DOMAIN relays \cup {s}
          /\ \A t \in DOMAIN relays', y \in Seats :
                relays'[t][y] = IF t = s /\ y = x THEN e ELSE EntryOf(t)[y]
    BY <1>2, RoomAfterJoin
  <2>2. /\ pc' = [pc EXCEPT ![e] = "loop"]
        /\ session' = [session EXCEPT ![e] = s]
        /\ evicted' = evicted
    BY <1>2 DEF Join
  <2>3. CASE d = e
    <3>1. seat'[d] = x /\ session'[d] = s
      BY <2>1, <2>2, <2>3 DEF IInv, TypeOK
    <3>2. relays'[s][x] = e /\ s \in DOMAIN relays'
      BY <2>1
    <3> QED
      BY <2>3, <3>1, <3>2 DEF Seated, EntryOf
  <2>4. CASE d # e
    <3>1. session'[d] = session[d] /\ seat'[d] = seat[d] /\ Joined(d)
      BY <2>1, <2>2, <2>4 DEF IInv, TypeOK, Joined
    <3>2. EntryOf(session[d])[seat[d]] = d /\ seat[d] \in Seats
      BY <2>2, <3>1 DEF SeatOrEvicted, Seated, IInv, Placed, Joined
    <3>3. session[d] \in DOMAIN relays
      BY <3>2, NoneAssumption DEF EntryOf, Vacant
    <3>4. ~(session[d] = s /\ seat[d] = x)
      BY <2>1, <3>2, NoneAssumption
    <3> QED
      BY <2>1, <3>1, <3>2, <3>3, <3>4 DEF Seated, EntryOf
  <2> QED
    BY <2>3, <2>4
<1>3. ASSUME NEW e \in Conns, Leave(e) PROVE Seated(d)'
  <2>1. /\ DOMAIN relays' = DOMAIN relays \ {session[e]}
        /\ \A t \in DOMAIN relays' : relays'[t] = relays[t]
    BY <1>3, RoomAfterLeave
  <2>2. /\ UNCHANGED <<session, seat>>
        /\ pc' = [pc EXCEPT ![e] = "gone"]
        /\ evicted' = evicted \cup (SittersOf(session[e]) \ {e})
    BY <1>3 DEF Leave
  <2>3. d # e /\ Joined(d)
    BY <2>2 DEF Joined, IInv, TypeOK
  <2>4. EntryOf(session[d])[seat[d]] = d /\ seat[d] \in Seats
    BY <2>2, <2>3 DEF SeatOrEvicted, Seated, IInv, Placed, Joined
  <2>5. session[d] \in DOMAIN relays
    BY <2>4, NoneAssumption DEF EntryOf, Vacant
  <2>6. session[d] # session[e]
    BY <2>2, <2>3, <2>4 DEF SittersOf
  <2> QED
    BY <2>1, <2>2, <2>4, <2>5, <2>6 DEF Seated, EntryOf
<1> QED
  BY <1>1, <1>2, <1>3

\* Two who share a room have met, whoever joins or leaves.
LEMMA PairedStays ==
    ASSUME IInv, Paired,
           \/ InRoom
           \/ \E e \in Conns, s \in Sessions : Join(e, s)
           \/ \E e \in Conns : Leave(e)
    PROVE  Paired'
<1>1. CASE InRoom
  BY <1>1 DEF InRoom, Paired
<1>2. ASSUME NEW e \in Conns, NEW s \in Sessions, Join(e, s) PROVE Paired'
  <2>1. PICK x \in Seats :
          /\ EntryOf(s)[x] = None
          /\ seat' = [seat EXCEPT ![e] = x]
          /\ met' = Meet(e, EntryOf(s)[Other(x)])
          /\ DOMAIN relays' = DOMAIN relays \cup {s}
          /\ \A t \in DOMAIN relays', y \in Seats :
                relays'[t][y] = IF t = s /\ y = x THEN e ELSE EntryOf(t)[y]
    BY <1>2, RoomAfterJoin
  <2>2. \A a \in Conns : met[a] \subseteq met'[a]
    BY <2>1 DEF Meet, IInv, TypeOK
  <2> SUFFICES ASSUME NEW t \in DOMAIN relays', NEW y \in Seats,
                      relays'[t][y] # None, relays'[t][Other(y)] # None
               PROVE  relays'[t][Other(y)] \in met'[relays'[t][y]]
    BY DEF Paired
  <2>3. Other(y) \in Seats /\ Other(y) # y /\ Other(Other(y)) = y
    BY Seating
  <2>4. CASE t # s
    <3>1. t \in DOMAIN relays /\ relays'[t][y] = relays[t][y] /\ relays'[t][Other(y)] = relays[t][Other(y)]
      BY <2>1, <2>3, <2>4 DEF EntryOf
    <3>2. relays[t][y] \in Conns
      BY <3>1 DEF IInv, TypeOK, Entry
    <3> QED
      BY <2>2, <3>1, <3>2 DEF Paired
  <2>5. CASE t = s
    <3> DEFINE o == EntryOf(s)[Other(x)]
    <3>1. o \in Conns \cup {None} /\ o # e
      <4>1. o \in Conns \cup {None}
        BY EntryType, Seating DEF IInv
      <4>2. o # None => Joined(o)
        <5>1. o # None => s \in DOMAIN relays
          BY DEF EntryOf, Vacant, Seats, Other
        <5> QED
          BY <5>1, Seating DEF EntryOf, IInv, SeatsAreLive
      <4>3. ~Joined(e) /\ e # None
        BY <1>2, NoneAssumption DEF Join, Joined
      <4> QED
        BY <4>1, <4>2, <4>3
    <3>2. y = x \/ y = Other(x)
      BY DEF Seats, Other
    <3>3. o # None
      BY <2>1, <2>3, <2>5, <3>2
    <3>4. e \in met'[o] /\ o \in met'[e]
      BY <2>1, <3>1, <3>3 DEF Meet, IInv, TypeOK
    <3>5. relays'[t][x] = e /\ relays'[t][Other(x)] = o
      BY <2>1, <2>5, Seating
    <3>6. CASE y = x
      BY <2>5, <3>4, <3>5, <3>6
    <3>7. CASE y = Other(x)
      <4>1. Other(y) = x
        BY <3>7, Seating
      <4> QED
        BY <2>5, <3>4, <3>5, <3>7, <4>1
    <3> QED
      BY <3>2, <3>6, <3>7
  <2> QED
    BY <2>4, <2>5
<1>3. ASSUME NEW e \in Conns, Leave(e) PROVE Paired'
  <2>1. /\ DOMAIN relays' = DOMAIN relays \ {session[e]}
        /\ \A t \in DOMAIN relays' : relays'[t] = relays[t]
        /\ met' = met
    BY <1>3, RoomAfterLeave DEF Leave
  <2> QED
    BY <2>1 DEF Paired
<1> QED
  BY <1>1, <1>2, <1>3

\* The one seen across the room is known, or the one who looks was evicted.
LEMMA OppositeKnown ==
    ASSUME IInv, Paired, SeatOrEvicted, NEW d \in Conns, Joined(d), NEW o \in Conns,
           EntryOf(session[d])[Other(seat[d])] = o
    PROVE  Knows(o, d)
<1>1. SUFFICES ASSUME Seated(d) PROVE d \in met[o]
  BY DEF Knows, SeatOrEvicted
<1>2. o # None /\ d # None /\ seat[d] \in Seats
  BY NoneAssumption DEF IInv, Placed, Joined
<1>3. session[d] \in DOMAIN relays
  BY <1>2, Seating DEF EntryOf, Vacant
<1>4. relays[session[d]][seat[d]] = d /\ relays[session[d]][Other(seat[d])] = o
  BY <1>1, <1>3 DEF Seated, EntryOf
<1> QED
  BY <1>2, <1>3, <1>4, Seating DEF Paired

\* Steps after which every message waits, or was written, where one did before.
LEMMA TalkStays ==
    ASSUME IInv, IInv', Talk,
           \/ InRoom
           \/ \E e \in Conns, s \in Sessions : Join(e, s)
           \/ \E e \in Conns : Leave(e),
           \A d \in Conns : target'[d] # None =>
               target'[d] = target[d] \/ (target'[d] \in Conns /\ Knows(target'[d], d)),
           \A c \in Conns : \A i \in DOMAIN rx'[c] :
               \/ \E j \in DOMAIN rx[c] : rx'[c][i] = rx[c][j]
               \/ \E d \in Conns : rx'[c][i].from = d /\ Knows(c, d),
           \A c \in Conns : \A i \in DOMAIN written'[c] :
               \/ \E j \in DOMAIN written[c] : written'[c][i] = written[c][j]
               \/ \E j \in DOMAIN rx[c] : written'[c][i] = rx[c][j]
    PROVE  Talk'
<1>1. Paired' /\ SeatOrEvicted'
  BY PairedStays, SeatOrEvictedStays DEF Talk
<1>2. \A c, d \in Conns : Knows(c, d) => Knows(c, d)'
  BY KnowsStays
<1>3. ASSUME NEW d \in Conns, target'[d] # None PROVE Knows(target[d], d)'
  <2>1. target'[d] \in Conns
    BY <1>3 DEF IInv, TypeOK
  <2>2. Knows(target'[d], d)
    BY <1>3 DEF Talk
  <2>3. PICK o \in Conns : o = target'[d]
    BY <2>1
  <2>4. d \in met'[o] \cup evicted'
    BY <1>2, <2>2, <2>3 DEF Knows
  <2> QED
    BY <2>3, <2>4 DEF Knows
<1>4. \A c \in Conns : \A i \in DOMAIN rx[c] : rx[c][i].from \in Conns /\ Knows(c, rx[c][i].from)
  BY QueueElement DEF IInv, TypeOK, Talk, OnlyPeersOrEvictedTalk, Knows
<1>5. \A c \in Conns : \A i \in DOMAIN written[c] :
         written[c][i].from \in Conns /\ Knows(c, written[c][i].from)
  BY QueueElement DEF IInv, TypeOK, Talk, OnlyPeersOrEvictedTalk, Knows
<1>6. ASSUME NEW c \in Conns, NEW i \in DOMAIN rx'[c]
      PROVE  rx'[c][i].from \in met'[c] \cup evicted'
  <2>1. PICK d \in Conns : d = rx'[c][i].from /\ Knows(c, d)
    BY <1>4, <1>6
  <2> QED
    BY <1>2, <2>1 DEF Knows
<1>7. ASSUME NEW c \in Conns, NEW i \in DOMAIN written'[c]
      PROVE  written'[c][i].from \in met'[c] \cup evicted'
  <2>1. PICK d \in Conns : d = written'[c][i].from /\ Knows(c, d)
    BY <1>4, <1>5, <1>7
  <2> QED
    BY <1>2, <2>1 DEF Knows
<1>8. OnlyPeersOrEvictedTalk'
  BY <1>6, <1>7 DEF OnlyPeersOrEvictedTalk
<1> QED
  BY <1>1, <1>3, <1>8 DEF Talk

LEMMA InitTalk == Init => Talk
<1> SUFFICES ASSUME Init PROVE Talk
  OBVIOUS
<1>1. Paired /\ \A d \in Conns : target[d] = None
  BY DEF Init, Paired
<1>2. \A c \in Conns : rx[c] = <<>> /\ written[c] = <<>>
  BY DEF Init
<1>3. SeatOrEvicted
  BY DEF Init, SeatOrEvicted, Joined
<1> QED
  BY <1>1, <1>2, <1>3 DEF Talk, OnlyPeersOrEvictedTalk

\* Every step keeps Talk: a clone is taken of one who is met, a frame goes where
\* the clone points, and the Close of a leave goes across the room, too.
LEMMA NextTalk == IInv /\ IInv' /\ Talk /\ [Next]_vars => Talk'
<1> SUFFICES ASSUME IInv, IInv', Talk, [Next]_vars PROVE Talk'
  OBVIOUS
<1>1. ASSUME UNCHANGED <<target, rx, written>>,
             InRoom \/ \E e \in Conns, s \in Sessions : Join(e, s)
      PROVE  Talk'
  <2>1. \A d \in Conns : target'[d] # None => target'[d] = target[d]
    BY <1>1
  <2>2. \A c \in Conns : /\ \A i \in DOMAIN rx'[c] : \E j \in DOMAIN rx[c] : rx'[c][i] = rx[c][j]
                         /\ \A i \in DOMAIN written'[c] :
                               \E j \in DOMAIN written[c] : written'[c][i] = written[c][j]
    BY <1>1
  <2> QED
    BY <1>1, <2>1, <2>2, TalkStays
<1>2. ASSUME NEW e \in Conns, ReadFrame(e) PROVE Talk'
  <2>1. /\ target' = [target EXCEPT ![e] = Opposite(e)]
        /\ pc[e] = "loop"
        /\ UNCHANGED <<rx, written>>
    BY <1>2 DEF ReadFrame
  <2>2. InRoom
    BY <1>2, InRoomSteps
  <2>3. seat[e] \in Seats /\ Opposite(e) \in Conns \cup {None}
    BY <2>1, EntryType, Seating DEF IInv, Placed, Opposite
  <2>4. Opposite(e) # None => Knows(Opposite(e), e)
    BY <2>1, <2>3, OppositeKnown DEF Talk, Opposite, Joined
  <2>5. \A d \in Conns : target'[d] # None =>
           target'[d] = target[d] \/ (target'[d] \in Conns /\ Knows(target'[d], d))
    BY <2>1, <2>3, <2>4 DEF IInv, TypeOK
  <2>6. \A c \in Conns : /\ \A i \in DOMAIN rx'[c] : \E j \in DOMAIN rx[c] : rx'[c][i] = rx[c][j]
                         /\ \A i \in DOMAIN written'[c] :
                               \E j \in DOMAIN written[c] : written'[c][i] = written[c][j]
    BY <2>1
  <2> QED
    BY <2>2, <2>5, <2>6, TalkStays
<1>3. ASSUME NEW e \in Conns, Forward(e) PROVE Talk'
  <2> DEFINE o == target[e]
             m == Frame(e, sent[e])
  <2>1. /\ rx' = Deliver(rx, o, m)
        /\ target' = [target EXCEPT ![e] = None]
        /\ pc[e] = "forward"
        /\ UNCHANGED written
    BY <1>3 DEF Forward
  <2>2. InRoom
    BY <1>3, InRoomSteps
  <2>3. o \in Conns /\ o # None /\ Knows(o, e)
    BY <2>1, NoneAssumption DEF IInv, Aimed, Talk
  <2>4. m \in Messages /\ m.from = e
    BY MaxFramesAssumption, MessageType DEF IInv, TypeOK
  <2> HIDE DEF o, m
  <2>5. \A c \in Conns : \A i \in DOMAIN Deliver(rx, o, m)[c] :
           \/ c = o /\ Deliver(rx, o, m)[c][i] = m
           \/ \E j \in DOMAIN rx[c] : Deliver(rx, o, m)[c][i] = rx[c][j]
    BY <2>3, <2>4, DeliverType DEF IInv
  <2>6. \A c \in Conns : \A i \in DOMAIN rx'[c] :
           \/ \E j \in DOMAIN rx[c] : rx'[c][i] = rx[c][j]
           \/ rx'[c][i].from = e /\ Knows(c, e)
    BY <2>1, <2>3, <2>4, <2>5
  <2>7. \A d \in Conns : target'[d] # None => target'[d] = target[d]
    BY <2>1 DEF IInv, TypeOK
  <2>8. \A c \in Conns : \A i \in DOMAIN written'[c] :
           \E j \in DOMAIN written[c] : written'[c][i] = written[c][j]
    BY <2>1
  <2> QED
    BY <2>2, <2>6, <2>7, <2>8, TalkStays
<1>4. ASSUME NEW e \in Conns, WriteDone(e) \/ WriteFails(e) PROVE Talk'
  <2>1. /\ rx[e] # <<>> /\ rx[e] \in Seq(Messages) /\ written[e] \in Seq(Messages)
        /\ rx' = [rx EXCEPT ![e] = Tail(@)]
        /\ written' = written \/ written' = [written EXCEPT ![e] = Append(@, Head(rx[e]))]
        /\ UNCHANGED target
    BY <1>4 DEF IInv, Busy, TypeOK, WriteDone, WriteFails
  <2>2. InRoom
    BY <1>4, InRoomSteps
  <2>3. /\ Head(rx[e]) = rx[e][1] /\ 1 \in DOMAIN rx[e] /\ Head(rx[e]) \in Messages
        /\ \A i \in DOMAIN Tail(rx[e]) : \E j \in DOMAIN rx[e] : Tail(rx[e])[i] = rx[e][j]
    BY <2>1, TailElements
  <2> DEFINE w == Append(written[e], Head(rx[e]))
  <2>4. \A i \in DOMAIN w :
           w[i] = Head(rx[e]) \/ \E j \in DOMAIN written[e] : w[i] = written[e][j]
    BY <2>1, <2>3, AppendElements
  <2>5. written' = written \/ written' = [written EXCEPT ![e] = w]
    BY <2>1
  <2> HIDE DEF w
  <2>6. \A c \in Conns : \A i \in DOMAIN rx'[c] : \E j \in DOMAIN rx[c] : rx'[c][i] = rx[c][j]
    BY <2>1, <2>3 DEF IInv, TypeOK
  <2>7. \A c \in Conns : \A i \in DOMAIN written'[c] :
           \/ \E j \in DOMAIN written[c] : written'[c][i] = written[c][j]
           \/ \E j \in DOMAIN rx[c] : written'[c][i] = rx[c][j]
    <3>1. CASE written' = written
      BY <3>1
    <3>2. CASE written' = [written EXCEPT ![e] = w]
      <4>1. \A c \in Conns : written'[c] = IF c = e THEN w ELSE written[c]
        BY <3>2 DEF IInv, TypeOK
      <4> QED
        BY <2>3, <2>4, <4>1
    <3> QED
      BY <2>5, <3>1, <3>2
  <2>8. \A d \in Conns : target'[d] # None => target'[d] = target[d]
    BY <2>1
  <2> QED
    BY <2>2, <2>6, <2>7, <2>8, TalkStays
<1>5. ASSUME NEW e \in Conns, Leave(e) PROVE Talk'
  <2> DEFINE o == EntryOf(session[e])[Other(seat[e])]
             m == Close(e)
             q == IF o = None THEN rx ELSE Deliver(rx, o, m)
  <2>1. /\ rx' = [q EXCEPT ![e] = <<>>]
        /\ Joined(e)
        /\ UNCHANGED <<target, written>>
    BY <1>5 DEF Leave, Joined
  <2>2. o \in Conns \cup {None}
    BY EntryType, Seating DEF IInv
  <2>3. m \in Messages /\ m.from = e
    BY MessageType
  <2>4. /\ q \in [Conns -> Seq(Messages)]
        /\ \A c \in Conns : \A i \in DOMAIN q[c] :
              \/ c = o /\ q[c][i] = m
              \/ \E j \in DOMAIN rx[c] : q[c][i] = rx[c][j]
    <3>1. CASE o = None
      BY <3>1 DEF IInv, TypeOK
    <3>2. CASE o \in Conns
      <4> HIDE DEF m
      <4>1. q = Deliver(rx, o, m)
        BY <3>2, NoneAssumption
      <4> HIDE DEF q, o
      <4>2. /\ Deliver(rx, o, m) \in [Conns -> Seq(Messages)]
            /\ \A c \in Conns : \A i \in DOMAIN Deliver(rx, o, m)[c] :
                  \/ c = o /\ Deliver(rx, o, m)[c][i] = m
                  \/ \E j \in DOMAIN rx[c] : Deliver(rx, o, m)[c][i] = rx[c][j]
        BY <2>3, <3>2, DeliverType DEF IInv
      <4> QED
        BY <4>1, <4>2
    <3> QED
      BY <2>2, <3>1, <3>2
  <2>5. o \in Conns => Knows(o, e)
    BY <2>1, OppositeKnown DEF Talk
  <2> HIDE DEF q, o, m
  <2>6. \A c \in Conns : rx'[c] = IF c = e THEN <<>> ELSE q[c]
    BY <2>1, <2>4
  <2>7. \A c \in Conns : \A i \in DOMAIN rx'[c] :
           \/ \E j \in DOMAIN rx[c] : rx'[c][i] = rx[c][j]
           \/ c = o /\ rx'[c][i].from = e
    <3> SUFFICES ASSUME NEW c \in Conns, NEW i \in DOMAIN rx'[c]
                 PROVE  \/ \E j \in DOMAIN rx[c] : rx'[c][i] = rx[c][j]
                        \/ c = o /\ rx'[c][i].from = e
      OBVIOUS
    <3>1. c # e
      BY <2>6
    <3>2. i \in DOMAIN q[c] /\ rx'[c][i] = q[c][i]
      BY <2>6, <3>1
    <3> QED
      BY <2>3, <2>4, <3>2
  <2>8. \A c \in Conns : \A i \in DOMAIN rx'[c] :
           \/ \E j \in DOMAIN rx[c] : rx'[c][i] = rx[c][j]
           \/ \E d \in Conns : rx'[c][i].from = d /\ Knows(c, d)
    BY <2>5, <2>7
  <2>9. \A d \in Conns : target'[d] # None => target'[d] = target[d]
    BY <2>1
  <2>10. \A c \in Conns : \A i \in DOMAIN written'[c] :
            \E j \in DOMAIN written[c] : written'[c][i] = written[c][j]
    BY <2>1
  <2> QED
    BY <1>5, <2>8, <2>9, <2>10, TalkStays
<1>6. ASSUME NEW e \in Conns,
             \/ \E s \in Sessions : RoomFull(e, s)
             \/ Recv(e) \/ RecvNone(e) \/ ReadEnds(e) \/ IdleTimeout(e) \/ FallSilent(e)
      PROVE  Talk'
  <2>1. InRoom
    BY <1>6, InRoomSteps
  <2>2. UNCHANGED <<target, rx, written>>
    BY <1>6 DEF RoomFull, Recv, RecvNone, ReadEnds, IdleTimeout, FallSilent
  <2> QED
    BY <1>1, <2>1, <2>2
<1>7. ASSUME UNCHANGED vars PROVE Talk'
  <2>1. InRoom
    BY <1>7 DEF InRoom, vars, Joined
  <2> QED
    BY <1>1, <1>7, <2>1 DEF vars
<1>8. ASSUME NEW e \in Conns, NEW s \in Sessions, Join(e, s) PROVE Talk'
  BY <1>1, <1>8 DEF Join
<1> QED
  BY <1>2, <1>3, <1>4, <1>5, <1>6, <1>7, <1>8 DEF Next, Finished

\* Whatever a connection receives, frame or Close, comes from somebody who has
\* sat opposite it, or from a task that another's exit had evicted by then.
THEOREM OnlyPeersTalk == Spec => []OnlyPeersOrEvictedTalk
<1>1. Talk => OnlyPeersOrEvictedTalk
  BY DEF Talk
<1>2. Spec => []Talk
  BY InitIInv, InitTalk, NextIInv, NextTalk, PTL DEF Spec
<1> QED
  BY <1>1, <1>2, PTL

-----------------------------------------------------------------------------
(* No gaps.  The frames of one sender, in what a connection has written and   *)
(* still holds queued, are without a gap while it receives; and the next one  *)
(* the sender may deliver to it follows the last of them (Flows).  A frame    *)
(* looked up and not yet sent has the number of the sender's counter, one not *)
(* yet read has the number after.                                             *)

Stream(c) == written[c] \o rx[c]

Receives(c) == pc[c] \notin {"leaving", "gone"}

\* n is the number after the last frame of d in q, when there is one.
Follows(q, d, n) ==
    \A i \in DOMAIN q :
        /\ FrameOf(q[i], d)
        /\ \A k \in DOMAIN q : i < k => ~FrameOf(q[k], d)
        => n = q[i].n + 1

Flows(c, d) ==
    /\ GapFree(written[c], d)
    /\ Receives(c) =>
        /\ GapFree(Stream(c), d)
        /\ target[d] = c => Follows(Stream(c), d, sent[d])
        /\ target[d] # c /\ Opposite(d) = c => Follows(Stream(c), d, sent[d] + 1)

\* A clone of a sender is dropped once it has been used.
Spent == \A d \in Conns : pc[d] # "forward" => target[d] = None

Flow == Spent /\ \A c, d \in Conns : Flows(c, d)

\* One more message: the domain grows by one, the rest stays.
LEMMA Extended ==
    ASSUME NEW S, NEW q \in Seq(S), NEW m \in S
    PROVE  \E l \in Nat :
              /\ DOMAIN q = 1..l
              /\ DOMAIN Append(q, m) = 1..(l + 1)
              /\ Append(q, m)[l + 1] = m
              /\ \A i \in 1..l : Append(q, m)[i] = q[i]
<1>1. Len(q) \in Nat /\ DOMAIN q = 1..Len(q)
  BY LenProperties
<1>2. /\ DOMAIN Append(q, m) = 1..(Len(q) + 1)
      /\ Append(q, m)[Len(q) + 1] = m
      /\ \A i \in 1..Len(q) : Append(q, m)[i] = q[i]
  BY <1>1
<1> QED
  BY <1>1, <1>2

\* A message that is no frame of d changes nothing for d.
LEMMA AppendOther ==
    ASSUME NEW S, NEW q \in Seq(S), NEW m \in S, NEW d, ~FrameOf(m, d)
    PROVE  /\ GapFree(q, d) => GapFree(Append(q, m), d)
           /\ \A n : Follows(q, d, n) => Follows(Append(q, m), d, n)
<1> DEFINE u == Append(q, m)
<1>1. PICK l \in Nat : /\ DOMAIN q = 1..l
                       /\ DOMAIN u = 1..(l + 1)
                       /\ u[l + 1] = m
                       /\ \A i \in 1..l : u[i] = q[i]
  BY Extended
<1> HIDE DEF u
<1>2. \A i \in DOMAIN u : FrameOf(u[i], d) => i \in DOMAIN q /\ u[i] = q[i]
  BY <1>1
<1>3. \A i \in DOMAIN q : i \in DOMAIN u /\ u[i] = q[i]
  BY <1>1
<1>4. GapFree(q, d) => GapFree(u, d)
  BY <1>2, <1>3 DEF GapFree
<1>5. \A n : Follows(q, d, n) => Follows(u, d, n)
  BY <1>2, <1>3 DEF Follows
<1> QED
  BY <1>4, <1>5 DEF u

\* The next frame of d leaves no gap, and the one after it is the next.
LEMMA AppendFrame ==
    ASSUME NEW S, NEW q \in Seq(S), NEW m \in S, NEW d, FrameOf(m, d),
           GapFree(q, d), Follows(q, d, m.n)
    PROVE  GapFree(Append(q, m), d) /\ Follows(Append(q, m), d, m.n + 1)
<1> DEFINE u == Append(q, m)
<1>1. PICK l \in Nat : /\ DOMAIN q = 1..l
                       /\ DOMAIN u = 1..(l + 1)
                       /\ u[l + 1] = m
                       /\ \A i \in 1..l : u[i] = q[i]
  BY Extended
<1> HIDE DEF u
<1>2. GapFree(u, d)
  <2> SUFFICES ASSUME NEW i \in DOMAIN u, NEW j \in DOMAIN u, i < j,
                      FrameOf(u[i], d), FrameOf(u[j], d),
                      \A k \in DOMAIN u : i < k /\ k < j => ~FrameOf(u[k], d)
               PROVE  u[j].n = u[i].n + 1
    BY DEF GapFree
  <2>1. i \in DOMAIN q /\ u[i] = q[i]
    BY <1>1
  <2>2. CASE j = l + 1
    <3>1. \A k \in DOMAIN q : i < k => ~FrameOf(q[k], d)
      BY <1>1, <2>2
    <3> QED
      BY <1>1, <2>1, <2>2, <3>1 DEF Follows
  <2>3. CASE j # l + 1
    <3>1. j \in DOMAIN q /\ u[j] = q[j]
      BY <1>1, <2>3
    <3>2. \A k \in DOMAIN q : i < k /\ k < j => ~FrameOf(q[k], d)
      BY <1>1
    <3> QED
      BY <2>1, <3>1, <3>2 DEF GapFree
  <2> QED
    BY <2>2, <2>3
<1>3. Follows(u, d, m.n + 1)
  <2> SUFFICES ASSUME NEW i \in DOMAIN u, \A k \in DOMAIN u : i < k => ~FrameOf(u[k], d)
               PROVE  m.n + 1 = u[i].n + 1
    BY DEF Follows
  <2>1. ~(i < l + 1)
    BY <1>1
  <2>2. i = l + 1
    BY <1>1, <2>1
  <2> QED
    BY <1>1, <2>2
<1> QED
  BY <1>2, <1>3 DEF u

\* What holds no frame of d has no gap, and anything may follow.
LEMMA Silent ==
    ASSUME NEW q, NEW d, \A i \in DOMAIN q : ~FrameOf(q[i], d)
    PROVE  GapFree(q, d) /\ \A n : Follows(q, d, n)
  BY DEF GapFree, Follows

\* The beginning of a stream without gaps has none.
LEMMA Beginning ==
    ASSUME NEW S, NEW q \in Seq(S), NEW r \in Seq(S), NEW d, GapFree(q \o r, d)
    PROVE  GapFree(q, d)
<1> DEFINE u == q \o r
<1>1. /\ u \in Seq(S) /\ Len(u) = Len(q) + Len(r)
      /\ \A i \in 1..(Len(q) + Len(r)) : u[i] = IF i <= Len(q) THEN q[i] ELSE r[i - Len(q)]
  BY ConcatProperties
<1>2. DOMAIN q = 1..Len(q) /\ DOMAIN u = 1..Len(u) /\ Len(q) \in Nat /\ Len(r) \in Nat
  BY <1>1, LenProperties
<1> HIDE DEF u
<1>3. \A i \in DOMAIN q : i \in DOMAIN u /\ u[i] = q[i]
  BY <1>1, <1>2
<1>4. \A i, k \in DOMAIN u : i \in DOMAIN q /\ k < i => k \in DOMAIN q
  BY <1>2
<1>5. GapFree(u, d)
  BY DEF u
<1> QED
  BY <1>3, <1>4, <1>5 DEF GapFree

\* The frames of a concatenation are the frames of its parts.
LEMMA Parts ==
    ASSUME NEW S, NEW q \in Seq(S), NEW r \in Seq(S), NEW i \in DOMAIN (q \o r)
    PROVE  (\E j \in DOMAIN q : (q \o r)[i] = q[j]) \/ (\E j \in DOMAIN r : (q \o r)[i] = r[j])
<1> DEFINE u == q \o r
<1>1. /\ u \in Seq(S) /\ Len(u) = Len(q) + Len(r)
      /\ \A k \in 1..(Len(q) + Len(r)) : u[k] = IF k <= Len(q) THEN q[k] ELSE r[k - Len(q)]
  BY ConcatProperties
<1>2. /\ DOMAIN q = 1..Len(q) /\ DOMAIN r = 1..Len(r) /\ DOMAIN u = 1..Len(u)
      /\ Len(q) \in Nat /\ Len(r) \in Nat
  BY <1>1, LenProperties
<1>3. i \in DOMAIN u
  OBVIOUS
<1> HIDE DEF u
<1>4. CASE i <= Len(q)
  BY <1>1, <1>2, <1>3, <1>4 DEF u
<1>5. CASE ~(i <= Len(q))
  <2>1. i - Len(q) \in DOMAIN r /\ u[i] = r[i - Len(q)]
    BY <1>1, <1>2, <1>3, <1>5
  <2> QED
    BY <2>1 DEF u
<1> QED
  BY <1>4, <1>5

\* A message queued is at the end of the stream; one taken from the queue and
\* written leaves the stream as it was.
LEMMA Streams ==
    ASSUME NEW S, NEW w \in Seq(S), NEW r \in Seq(S)
    PROVE  /\ w \o r \in Seq(S)
           /\ \A m \in S : w \o Append(r, m) = Append(w \o r, m)
           /\ r # <<>> => Append(w, Head(r)) \o Tail(r) = w \o r
<1>1. w \o r \in Seq(S)
  BY ConcatProperties
<1>2. ASSUME NEW m \in S PROVE w \o Append(r, m) = Append(w \o r, m)
  <2>1. <<m>> \in Seq(S)
    OBVIOUS
  <2>2. (w \o r) \o <<m>> = w \o (r \o <<m>>)
    BY <2>1, ConcatAssociative
  <2>3. Append(r, m) = r \o <<m>> /\ Append(w \o r, m) = (w \o r) \o <<m>>
    BY <1>1, AppendIsConcat
  <2> QED
    BY <2>2, <2>3
<1>3. ASSUME r # <<>> PROVE Append(w, Head(r)) \o Tail(r) = w \o r
  <2>1. Head(r) \in S /\ Tail(r) \in Seq(S) /\ <<Head(r)>> \in Seq(S)
    BY <1>3, HeadTailProperties
  <2>2. Append(w, Head(r)) = w \o <<Head(r)>>
    BY <2>1, AppendIsConcat
  <2>3. (w \o <<Head(r)>>) \o Tail(r) = w \o (<<Head(r)>> \o Tail(r))
    BY <2>1, ConcatAssociative
  <2>4. <<Head(r)>> \o Tail(r) = r
    BY <1>3
  <2> QED
    BY <2>2, <2>3, <2>4
<1> QED
  BY <1>1, <1>2, <1>3

\* The stream of a connection is a sequence, and grows with its queue.
LEMMA StreamType ==
    ASSUME IInv, NEW c \in Conns
    PROVE  /\ written[c] \in Seq(Messages) /\ rx[c] \in Seq(Messages)
           /\ Stream(c) \in Seq(Messages)
           /\ \A m \in Messages : written[c] \o Append(rx[c], m) = Append(Stream(c), m)
<1> DEFINE w == written[c]
           r == rx[c]
<1>1. w \in Seq(Messages) /\ r \in Seq(Messages)
  BY DEF IInv, TypeOK
<1>2. Stream(c) = w \o r
  BY DEF Stream
<1> HIDE DEF w, r
<1>3. w \o r \in Seq(Messages) /\ \A m \in Messages : w \o Append(r, m) = Append(w \o r, m)
  BY <1>1, Streams
<1> QED
  BY <1>1, <1>2, <1>3 DEF w, r

\* A step that leaves the sender's counter and clone alone, and the receiver's
\* queue while it receives, keeps the promise, unless the two come to face
\* each other by it.
LEMMA FlowsKept ==
    ASSUME NEW c \in Conns, NEW d \in Conns, Flows(c, d),
           written'[c] = written[c],
           target'[d] = target[d], sent'[d] = sent[d],
           Receives(c)' => Receives(c) /\ rx'[c] = rx[c],
           Opposite(d)' = c => Opposite(d) = c
    PROVE  Flows(c, d)'
<1>1. GapFree(written[c], d)'
  BY DEF Flows, GapFree
<1>2. ASSUME Receives(c)' PROVE Receives(c) /\ Stream(c)' = Stream(c)
  BY <1>2 DEF Stream
<1>3. ASSUME Receives(c)' PROVE GapFree(Stream(c), d)'
  BY <1>2, <1>3 DEF Flows, GapFree
<1>4. ASSUME Receives(c)', target'[d] = c PROVE Follows(Stream(c), d, sent[d])'
  BY <1>2, <1>4 DEF Flows, Follows
<1>5. ASSUME Receives(c)', target'[d] # c, Opposite(d)' = c
      PROVE  Follows(Stream(c), d, sent[d] + 1)'
  BY <1>2, <1>5 DEF Flows, Follows
<1> QED
  BY <1>1, <1>3, <1>4, <1>5 DEF Flows

\* Nobody has heard a connection, nor has it heard anybody, before its join.
LEMMA StrangersAreSilent ==
    ASSUME IInv, NEW c \in Conns, NEW d \in Conns, seat[c] = None \/ seat[d] = None
    PROVE  /\ \A i \in DOMAIN written[c] : ~FrameOf(written[c][i], d)
           /\ \A i \in DOMAIN Stream(c) : ~FrameOf(Stream(c)[i], d)
<1>1. \A m : Across(c, m.from) => ~FrameOf(m, d)
  BY AcrossSymmetric, Seating DEF FrameOf, Across
<1>2. \A i \in DOMAIN written[c] : ~FrameOf(written[c][i], d)
  BY <1>1 DEF IInv, Heard
<1>3. \A i \in DOMAIN rx[c] : ~FrameOf(rx[c][i], d)
  BY <1>1 DEF IInv, Heard
<1>4. \A i \in DOMAIN Stream(c) :
         \/ \E j \in DOMAIN written[c] : Stream(c)[i] = written[c][j]
         \/ \E j \in DOMAIN rx[c] : Stream(c)[i] = rx[c][j]
  <2> DEFINE w == written[c]
             r == rx[c]
  <2>1. w \in Seq(Messages) /\ r \in Seq(Messages)
    BY StreamType
  <2> HIDE DEF w, r
  <2>2. \A i \in DOMAIN (w \o r) :
           \/ \E j \in DOMAIN w : (w \o r)[i] = w[j]
           \/ \E j \in DOMAIN r : (w \o r)[i] = r[j]
    BY <2>1, Parts
  <2> QED
    BY <2>2 DEF w, r, Stream
<1> QED
  BY <1>2, <1>3, <1>4

\* A join makes strangers face each other: nothing of either is in the other's
\* stream.
LEMMA JoinFlows ==
    ASSUME IInv, NEW c \in Conns, NEW d \in Conns, Flows(c, d),
           NEW e \in Conns, NEW s \in Sessions, Join(e, s)
    PROVE  Flows(c, d)'
<1>1. PICK x \in Seats :
        /\ EntryOf(s)[x] = None
        /\ seat' = [seat EXCEPT ![e] = x]
        /\ met' = Meet(e, EntryOf(s)[Other(x)])
        /\ DOMAIN relays' = DOMAIN relays \cup {s}
        /\ \A t \in DOMAIN relays', y \in Seats :
              relays'[t][y] = IF t = s /\ y = x THEN e ELSE EntryOf(t)[y]
  BY RoomAfterJoin
<1>2. /\ pc[e] = "new" /\ seat[e] = None
      /\ pc' = [pc EXCEPT ![e] = "loop"]
      /\ session' = [session EXCEPT ![e] = s]
      /\ UNCHANGED <<target, rx, sent, written>>
  BY DEF Join, IInv, Placed
<1>3. CASE c = e \/ d = e
  <2>1. /\ \A i \in DOMAIN written[c] : ~FrameOf(written[c][i], d)
        /\ \A i \in DOMAIN Stream(c) : ~FrameOf(Stream(c)[i], d)
    BY <1>2, <1>3, StrangersAreSilent
  <2>2. /\ GapFree(written[c], d) /\ GapFree(Stream(c), d)
        /\ \A n : Follows(Stream(c), d, n)
    BY <2>1, Silent
  <2>3. written' = written /\ Stream(c)' = Stream(c)
    BY <1>2 DEF Stream
  <2>4. GapFree(written[c], d)' /\ GapFree(Stream(c), d)'
    BY <2>2, <2>3 DEF GapFree
  <2>5. Follows(Stream(c), d, sent[d])' /\ Follows(Stream(c), d, sent[d] + 1)'
    BY <2>2, <2>3 DEF Follows
  <2> QED
    BY <2>4, <2>5 DEF Flows
<1>4. CASE c # e /\ d # e
  <2>1. Receives(c)' => Receives(c)
    BY <1>2, <1>4 DEF Receives, IInv, TypeOK
  <2>2. Opposite(d)' = c => Opposite(d) = c
    <3>1. session'[d] = session[d] /\ seat'[d] = seat[d]
      BY <1>1, <1>2, <1>4 DEF IInv, TypeOK
    <3>2. c # None
      BY NoneAssumption
    <3> QED
      BY <1>1, <1>4, <3>1, <3>2, Seating DEF Opposite, EntryOf, Vacant
  <2> QED
    BY <1>2, <2>1, <2>2, FlowsKept
<1> QED
  BY <1>3, <1>4

\* The counter moves on, and the clone stands for the number it had to have.
LEMMA ReadFrameFlows ==
    ASSUME IInv, Spent, NEW c \in Conns, NEW d \in Conns, Flows(c, d),
           NEW e \in Conns, ReadFrame(e)
    PROVE  Flows(c, d)'
<1>1. /\ pc[e] = "loop" /\ target[e] = None
      /\ sent' = [sent EXCEPT ![e] = sent[e] + 1]
      /\ target' = [target EXCEPT ![e] = Opposite(e)]
      /\ pc' = [pc EXCEPT ![e] = IF Opposite(e) = None THEN "loop" ELSE "forward"]
      /\ UNCHANGED <<session, seat, relays, rx, written>>
  BY DEF ReadFrame, Spent
<1>2. Receives(c)' => Receives(c)
  BY <1>1 DEF Receives, IInv, TypeOK
<1>3. Opposite(d)' = Opposite(d)
  BY <1>1 DEF Opposite, EntryOf
<1>4. CASE d # e
  <2>1. target'[d] = target[d] /\ sent'[d] = sent[d]
    BY <1>1, <1>4 DEF IInv, TypeOK
  <2> QED
    BY <1>1, <1>2, <1>3, <2>1, FlowsKept
<1>5. CASE d = e
  <2>1. Stream(c)' = Stream(c) /\ written' = written
    BY <1>1 DEF Stream
  <2>2. sent'[d] = sent[d] + 1 /\ target'[d] = Opposite(d) /\ target[d] # c
    BY <1>1, <1>5, NoneAssumption DEF IInv, TypeOK
  <2>3. GapFree(written[c], d)'
    BY <2>1 DEF Flows, GapFree
  <2>4. ASSUME Receives(c)' PROVE GapFree(Stream(c), d)'
    BY <1>2, <2>1, <2>4 DEF Flows, GapFree
  <2>5. ASSUME Receives(c)', target'[d] = c PROVE Follows(Stream(c), d, sent[d])'
    <3>1. Follows(Stream(c), d, sent[d] + 1)
      BY <1>2, <2>2, <2>5 DEF Flows
    <3> QED
      BY <2>1, <2>2, <3>1 DEF Follows
  <2>6. ~(target'[d] # c /\ Opposite(d)' = c)
    BY <1>3, <2>2
  <2> QED
    BY <2>3, <2>4, <2>5, <2>6 DEF Flows
<1> QED
  BY <1>4, <1>5

\* The frame sent is the one its receiver's stream waits for.
LEMMA ForwardFlows ==
    ASSUME IInv, NEW c \in Conns, NEW d \in Conns, Flows(c, d),
           NEW e \in Conns, Forward(e)
    PROVE  Flows(c, d)'
<1> DEFINE m == Frame(e, sent[e])
<1>1. /\ pc[e] = "forward"
      /\ rx' = Deliver(rx, target[e], m)
      /\ target' = [target EXCEPT ![e] = None]
      /\ pc' = [pc EXCEPT ![e] = "loop"]
      /\ UNCHANGED <<session, seat, relays, sent, written>>
  BY DEF Forward
<1>2. Receives(c)' => Receives(c) /\ pc[c] # "gone"
  BY <1>1 DEF Receives, IInv, TypeOK
<1>3. Opposite(d)' = Opposite(d)
  BY <1>1 DEF Opposite, EntryOf
<1>4. target[e] \in Conns /\ m \in Messages
  BY <1>1, MaxFramesAssumption, MessageType DEF IInv, Aimed, TypeOK
<1>5. \A n : FrameOf(m, n) <=> n = e
  BY DEF FrameOf, Frame
<1>6. m.n = sent[e]
  BY DEF Frame
<1> HIDE DEF m
<1>7. written' = written /\ GapFree(written[c], d)'
  BY <1>1 DEF Flows, GapFree
<1>8. CASE c # target[e]
  <2>1. Receives(c)' => rx'[c] = rx[c]
    BY <1>1, <1>4, <1>8 DEF Deliver, IInv, TypeOK
  <2>2. CASE d # e
    <3>1. target'[d] = target[d] /\ sent'[d] = sent[d]
      BY <1>1, <2>2 DEF IInv, TypeOK
    <3> QED
      BY <1>1, <1>2, <1>3, <2>1, <3>1, FlowsKept
  <2>3. CASE d = e
    <3>1. target'[d] = None /\ sent'[d] = sent[d] /\ target[d] # c /\ c # None
      BY <1>1, <1>8, <2>3, NoneAssumption DEF IInv, TypeOK
    <3>2. ASSUME Receives(c)' PROVE Receives(c) /\ Stream(c)' = Stream(c)
      BY <1>2, <1>7, <2>1, <3>2 DEF Stream
    <3>3. ASSUME Receives(c)' PROVE GapFree(Stream(c), d)'
      BY <3>2, <3>3 DEF Flows, GapFree
    <3>4. ASSUME Receives(c)', Opposite(d)' = c PROVE Follows(Stream(c), d, sent[d] + 1)'
      BY <1>3, <3>1, <3>2, <3>4 DEF Flows, Follows
    <3> QED
      BY <1>7, <3>1, <3>3, <3>4 DEF Flows
  <2> QED
    BY <2>2, <2>3
<1>9. CASE c = target[e]
  <2> DEFINE q == Stream(c)
  <2>1. ASSUME Receives(c)' PROVE Receives(c) /\ Stream(c)' = Append(q, m)
    <3>1. rx'[c] = Append(rx[c], m)
      BY <1>1, <1>2, <1>9, <2>1 DEF Deliver, IInv, TypeOK
    <3>2. Stream(c)' = written[c] \o Append(rx[c], m)
      BY <1>7, <3>1 DEF Stream
    <3>3. written[c] \o Append(rx[c], m) = Append(q, m)
      BY <1>4, StreamType
    <3> QED
      BY <1>2, <2>1, <3>2, <3>3
  <2>2. q \in Seq(Messages)
    BY StreamType
  <2>3. sent' = sent
    BY <1>1
  <2> HIDE DEF q
  <2>4. CASE d # e
    <3>1. target'[d] = target[d] /\ ~FrameOf(m, d)
      BY <1>1, <1>5, <2>4 DEF IInv, TypeOK
    <3>2. /\ GapFree(q, d) => GapFree(Append(q, m), d)
          /\ \A n : Follows(q, d, n) => Follows(Append(q, m), d, n)
      BY <1>4, <2>2, <3>1, AppendOther
    <3>3. ASSUME Receives(c)' PROVE GapFree(Stream(c), d)'
      <4>1. GapFree(Append(q, m), d)
        BY <2>1, <3>2, <3>3 DEF Flows, q
      <4> QED
        BY <2>1, <3>3, <4>1 DEF GapFree
    <3>4. ASSUME Receives(c)', target'[d] = c PROVE Follows(Stream(c), d, sent[d])'
      <4>1. Follows(Append(q, m), d, sent[d])
        BY <2>1, <3>1, <3>2, <3>4 DEF Flows, q
      <4> QED
        BY <2>1, <2>3, <3>4, <4>1 DEF Follows
    <3>5. ASSUME Receives(c)', target'[d] # c, Opposite(d)' = c
          PROVE  Follows(Stream(c), d, sent[d] + 1)'
      <4>1. Follows(Append(q, m), d, sent[d] + 1)
        BY <1>3, <2>1, <3>1, <3>2, <3>5 DEF Flows, q
      <4> QED
        BY <2>1, <2>3, <3>5, <4>1 DEF Follows
    <3> QED
      BY <1>7, <3>3, <3>4, <3>5 DEF Flows
  <2>5. CASE d = e
    <3>1. target'[d] # c
      BY <1>1, <2>5, NoneAssumption DEF IInv, TypeOK
    <3>2. ASSUME Receives(c)'
          PROVE  GapFree(Append(q, m), d) /\ Follows(Append(q, m), d, sent[d] + 1)
      <4>1. GapFree(q, d) /\ Follows(q, d, m.n)
        BY <1>6, <1>9, <2>1, <2>5, <3>2 DEF Flows, q
      <4> QED
        BY <1>4, <1>5, <1>6, <2>2, <2>5, <4>1, AppendFrame
    <3>3. ASSUME Receives(c)' PROVE GapFree(Stream(c), d)'
      BY <2>1, <3>2, <3>3 DEF GapFree
    <3>4. ASSUME Receives(c)' PROVE Follows(Stream(c), d, sent[d] + 1)'
      BY <2>1, <2>3, <3>2, <3>4 DEF Follows
    <3> QED
      BY <1>7, <3>1, <3>3, <3>4 DEF Flows
  <2> QED
    BY <2>4, <2>5
<1> QED
  BY <1>8, <1>9

\* A message moves within the stream, or the task stops receiving.
LEMMA WriteFlows ==
    ASSUME IInv, NEW c \in Conns, NEW d \in Conns, Flows(c, d),
           NEW e \in Conns, WriteDone(e) \/ WriteFails(e)
    PROVE  Flows(c, d)'
<1> DEFINE h == Head(rx[e])
<1>1. /\ rx[e] # <<>> /\ pc[e] = "writing"
      /\ rx' = [rx EXCEPT ![e] = Tail(@)]
      /\ UNCHANGED <<session, seat, relays, target, sent>>
  BY DEF IInv, Busy, WriteDone, WriteFails
<1>2. \/ /\ written' = [written EXCEPT ![e] = Append(@, h)]
         /\ pc' = [pc EXCEPT ![e] = "loop"]
      \/ written' = written /\ pc' = [pc EXCEPT ![e] = "leaving"]
  BY DEF WriteDone, WriteFails
<1> HIDE DEF h
<1>3. Opposite(d)' = Opposite(d) /\ target'[d] = target[d] /\ sent'[d] = sent[d]
  BY <1>1 DEF Opposite, EntryOf
<1>4. CASE c # e
  <2>1. rx'[c] = rx[c] /\ written'[c] = written[c] /\ pc'[c] = pc[c]
    BY <1>1, <1>2, <1>4 DEF IInv, TypeOK
  <2> QED
    BY <1>3, <2>1, FlowsKept DEF Receives
<1>5. CASE c = e /\ written' = written /\ pc' = [pc EXCEPT ![e] = "leaving"]
  <2>1. ~Receives(c)'
    BY <1>5 DEF Receives, IInv, TypeOK
  <2> QED
    BY <1>3, <1>5, <2>1, FlowsKept
<1>6. CASE /\ c = e
           /\ written' = [written EXCEPT ![e] = Append(@, h)]
           /\ pc' = [pc EXCEPT ![e] = "loop"]
  <2> DEFINE w == Append(written[c], h)
             r == Tail(rx[c])
  <2>1. written'[c] = w /\ rx'[c] = r
    BY <1>1, <1>6 DEF IInv, TypeOK
  <2>2. w \o r = Stream(c)
    <3> DEFINE u == written[c]
               v == rx[c]
    <3>1. u \in Seq(Messages) /\ v \in Seq(Messages)
      BY StreamType
    <3>2. v # <<>>
      BY <1>1, <1>6
    <3> HIDE DEF u, v
    <3>3. Append(u, Head(v)) \o Tail(v) = u \o v
      BY <3>1, <3>2, Streams
    <3> QED
      BY <1>6, <3>3 DEF Stream, h, u, v
  <2>3. w \in Seq(Messages) /\ r \in Seq(Messages)
    BY <1>1, <1>6, StreamType, TailElements, AppendElements DEF h
  <2> HIDE DEF w, r
  <2>4. Receives(c) /\ Stream(c)' = Stream(c)
    BY <1>1, <1>6, <2>1, <2>2 DEF Receives, Stream
  <2>5. GapFree(w \o r, d)
    BY <2>2, <2>4 DEF Flows
  <2>6. GapFree(w, d)
    BY <2>3, <2>5, Beginning
  <2>7. GapFree(written[c], d)'
    BY <2>1, <2>6 DEF GapFree
  <2>8. GapFree(Stream(c), d)'
    BY <2>4 DEF Flows, GapFree
  <2>9. ASSUME target'[d] = c PROVE Follows(Stream(c), d, sent[d])'
    BY <1>3, <2>4, <2>9 DEF Flows, Follows
  <2>10. ASSUME target'[d] # c, Opposite(d)' = c PROVE Follows(Stream(c), d, sent[d] + 1)'
    BY <1>3, <2>4, <2>10 DEF Flows, Follows
  <2> QED
    BY <2>7, <2>8, <2>9, <2>10 DEF Flows
<1> QED
  BY <1>2, <1>4, <1>5, <1>6

\* A Close is no frame, and an exit makes nobody face anybody.
LEMMA LeaveFlows ==
    ASSUME IInv, NEW c \in Conns, NEW d \in Conns, Flows(c, d),
           NEW e \in Conns, Leave(e)
    PROVE  Flows(c, d)'
<1> DEFINE o == EntryOf(session[e])[Other(seat[e])]
           m == Close(e)
<1>1. /\ pc[e] = "leaving"
      /\ rx' = [(IF o = None THEN rx ELSE Deliver(rx, o, m)) EXCEPT ![e] = <<>>]
      /\ pc' = [pc EXCEPT ![e] = "gone"]
      /\ UNCHANGED <<session, seat, target, sent, written>>
  BY DEF Leave
<1>2. m \in Messages /\ ~FrameOf(m, d) /\ o \in Conns \cup {None}
  BY EntryType, Seating, MessageType DEF IInv, FrameOf, Close
<1> HIDE DEF m, o
<1>3. Opposite(d)' = c => Opposite(d) = c
  <2>1. /\ DOMAIN relays' = DOMAIN relays \ {session[e]}
        /\ \A t \in DOMAIN relays' : relays'[t] = relays[t]
    BY RoomAfterLeave
  <2>2. c # None /\ session' = session /\ seat' = seat
    BY <1>1, NoneAssumption
  <2> QED
    BY <2>1, <2>2, Seating DEF Opposite, EntryOf, Vacant
<1>4. target'[d] = target[d] /\ sent'[d] = sent[d] /\ written'[c] = written[c]
  BY <1>1
<1>5. CASE c = e
  <2>1. ~Receives(c)'
    BY <1>1, <1>5 DEF Receives, IInv, TypeOK
  <2> QED
    BY <1>3, <1>4, <2>1, FlowsKept
<1>6. CASE c # e
  <2>1. pc'[c] = pc[c]
    BY <1>1, <1>6 DEF IInv, TypeOK
  <2>2. \/ rx'[c] = rx[c]
        \/ rx'[c] = Append(rx[c], m)
    <3>1. CASE o = None
      BY <1>1, <1>6, <3>1 DEF IInv, TypeOK
    <3>2. CASE o \in Conns
      BY <1>1, <1>6, <3>2, NoneAssumption DEF Deliver, IInv, TypeOK
    <3> QED
      BY <1>2, <3>1, <3>2
  <2>3. CASE rx'[c] = rx[c]
    BY <1>3, <1>4, <2>1, <2>3, FlowsKept DEF Receives
  <2>4. CASE rx'[c] = Append(rx[c], m)
    <3> DEFINE q == Stream(c)
    <3>1. Stream(c)' = Append(q, m)
      <4>1. Stream(c)' = written[c] \o Append(rx[c], m)
        BY <1>4, <2>4 DEF Stream
      <4>2. written[c] \o Append(rx[c], m) = Append(q, m)
        BY <1>2, StreamType
      <4> QED
        BY <4>1, <4>2
    <3>2. q \in Seq(Messages)
      BY StreamType
    <3> HIDE DEF q
    <3>3. /\ GapFree(q, d) => GapFree(Append(q, m), d)
          /\ \A n : Follows(q, d, n) => Follows(Append(q, m), d, n)
      BY <1>2, <3>2, AppendOther
    <3>4. GapFree(written[c], d)' /\ (Receives(c)' => Receives(c))
      BY <1>4, <2>1 DEF Flows, GapFree, Receives
    <3>5. ASSUME Receives(c)' PROVE GapFree(Stream(c), d)'
      <4>1. GapFree(Append(q, m), d)
        BY <3>3, <3>4, <3>5 DEF Flows, q
      <4> QED
        BY <3>1, <4>1 DEF GapFree
    <3>6. ASSUME Receives(c)', target'[d] = c PROVE Follows(Stream(c), d, sent[d])'
      <4>1. Follows(Append(q, m), d, sent[d])
        BY <1>4, <3>3, <3>4, <3>6 DEF Flows, q
      <4> QED
        BY <1>4, <3>1, <4>1 DEF Follows
    <3>7. ASSUME Receives(c)', target'[d] # c, Opposite(d)' = c
          PROVE  Follows(Stream(c), d, sent[d] + 1)'
      <4>1. Follows(Append(q, m), d, sent[d] + 1)
        BY <1>3, <1>4, <3>3, <3>4, <3>7 DEF Flows, q
      <4> QED
        BY <1>4, <3>1, <4>1 DEF Follows
    <3> QED
      BY <3>4, <3>5, <3>6, <3>7 DEF Flows
  <2> QED
    BY <2>2, <2>3, <2>4
<1> QED
  BY <1>5, <1>6

\* The other steps touch neither streams, counters nor clones.
LEMMA MoveFlows ==
    ASSUME IInv, NEW c \in Conns, NEW d \in Conns, Flows(c, d), NEW e \in Conns,
           \/ \E s \in Sessions : RoomFull(e, s)
           \/ Recv(e) \/ RecvNone(e) \/ ReadEnds(e) \/ IdleTimeout(e) \/ FallSilent(e)
           \/ UNCHANGED vars
    PROVE  Flows(c, d)'
<1>1. UNCHANGED <<session, seat, relays, target, rx, sent, written>>
  BY DEF RoomFull, Recv, RecvNone, ReadEnds, IdleTimeout, FallSilent, vars
<1>2. Receives(c)' => Receives(c)
  BY DEF RoomFull, Recv, RecvNone, ReadEnds, IdleTimeout, FallSilent, vars, Receives,
         IInv, TypeOK
<1>3. Opposite(d)' = Opposite(d)
  BY <1>1 DEF Opposite, EntryOf
<1> QED
  BY <1>1, <1>2, <1>3, FlowsKept

LEMMA InitFlow == Init => Flow
<1> SUFFICES ASSUME Init PROVE Flow
  OBVIOUS
<1>1. Spent
  BY DEF Init, Spent
<1>2. ASSUME NEW c \in Conns, NEW d \in Conns PROVE Flows(c, d)
  <2>1. IInv /\ seat[c] = None
    BY InitIInv DEF Init
  <2>2. /\ \A i \in DOMAIN written[c] : ~FrameOf(written[c][i], d)
        /\ \A i \in DOMAIN Stream(c) : ~FrameOf(Stream(c)[i], d)
    BY <2>1, StrangersAreSilent
  <2> QED
    BY <2>2, Silent DEF Flows
<1> QED
  BY <1>1, <1>2 DEF Flow

\* Every step keeps Flow.
LEMMA NextFlow == IInv /\ Flow /\ [Next]_vars => Flow'
<1> SUFFICES ASSUME IInv, Flow, [Next]_vars PROVE Flow'
  OBVIOUS
<1>1. ASSUME NEW c \in Conns, NEW d \in Conns PROVE Flows(c, d)'
  <2>1. Flows(c, d) /\ Spent
    BY DEF Flow
  <2>2. ASSUME NEW e \in Conns, NEW s \in Sessions, Join(e, s) PROVE Flows(c, d)'
    BY <2>1, <2>2, JoinFlows
  <2>3. ASSUME NEW e \in Conns, ReadFrame(e) PROVE Flows(c, d)'
    BY <2>1, <2>3, ReadFrameFlows
  <2>4. ASSUME NEW e \in Conns, Forward(e) PROVE Flows(c, d)'
    BY <2>1, <2>4, ForwardFlows
  <2>5. ASSUME NEW e \in Conns, WriteDone(e) \/ WriteFails(e) PROVE Flows(c, d)'
    BY <2>1, <2>5, WriteFlows
  <2>6. ASSUME NEW e \in Conns, Leave(e) PROVE Flows(c, d)'
    BY <2>1, <2>6, LeaveFlows
  <2>7. ASSUME NEW e \in Conns,
               \/ \E s \in Sessions : RoomFull(e, s)
               \/ Recv(e) \/ RecvNone(e) \/ ReadEnds(e) \/ IdleTimeout(e) \/ FallSilent(e)
        PROVE  Flows(c, d)'
    BY <2>1, <2>7, MoveFlows
  <2>8. ASSUME UNCHANGED vars PROVE Flows(c, d)'
    BY <2>1, <2>8, MoveFlows
  <2> QED
    BY <2>2, <2>3, <2>4, <2>5, <2>6, <2>7, <2>8 DEF Next, Finished
<1>2. Spent'
  <2> SUFFICES ASSUME NEW d \in Conns, pc'[d] # "forward" PROVE target'[d] = None
    BY DEF Spent
  <2>1. ASSUME NEW e \in Conns, ReadFrame(e) \/ Forward(e) PROVE target'[d] = None
    BY <2>1 DEF ReadFrame, Forward, Flow, Spent, IInv, TypeOK
  <2>2. ASSUME NEW e \in Conns,
               \/ \E s \in Sessions : Join(e, s) \/ RoomFull(e, s)
               \/ Recv(e) \/ WriteDone(e) \/ WriteFails(e) \/ RecvNone(e) \/ ReadEnds(e)
               \/ IdleTimeout(e) \/ Leave(e) \/ FallSilent(e)
        PROVE  target'[d] = None
    <3>1. target' = target
      BY <2>2 DEF Join, RoomFull, Recv, WriteDone, WriteFails, RecvNone, ReadEnds,
                  IdleTimeout, Leave, FallSilent
    <3>2. pc[d] = "forward" => pc'[d] = "forward"
      BY <2>2 DEF Join, RoomFull, Recv, WriteDone, WriteFails, RecvNone, ReadEnds,
                  IdleTimeout, Leave, FallSilent, IInv, TypeOK
    <3> QED
      BY <3>1, <3>2 DEF Flow, Spent
  <2>3. ASSUME UNCHANGED vars PROVE target'[d] = None
    BY <2>3 DEF vars, Flow, Spent
  <2> QED
    BY <2>1, <2>2, <2>3 DEF Next, Finished
<1> QED
  BY <1>1, <1>2 DEF Flow

\* The frames of one sender reach a client's socket in order and without a gap,
\* although lookup and send are two steps and sessions are reused.
THEOREM NothingSkipped == Spec => []NoGaps
<1>1. Flow => NoGaps
  BY DEF Flow, Flows, NoGaps
<1>2. Spec => []Flow
  BY InitIInv, InitFlow, NextIInv, NextFlow, PTL DEF Spec
<1> QED
  BY <1>1, <1>2, PTL

=============================================================================
