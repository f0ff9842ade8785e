------------------------ MODULE SessionTimersProofs ------------------------
(***************************************************************************)
(* Proofs about SessionTimers, for every timeout, ping interval and bound. *)
(***************************************************************************)
EXTENDS SessionTimers, TLAPS

\* The timer and the clock are two views of one distance: whatever resets the
\* one resets the other, and no branch touches only one of them.  While the
\* loop waits the timer is ahead; in writes it may fall behind by what they took.
Lockstep ==
    /\ quiet \in Int /\ idle \in Int /\ blocked \in Int
    /\ quiet = Idle - idle
    /\ idle + blocked >= 0
    /\ blocked >= 0

LEMMA InitLockstep == Init => Lockstep
BY TimeAssumption DEF Init, Lockstep

LEMMA NextLockstep == Lockstep /\ [Next]_vars => Lockstep'
<1> SUFFICES ASSUME Lockstep, [Next]_vars PROVE Lockstep'
  OBVIOUS
<1> USE TimeAssumption DEF Lockstep, history
<1>1. ASSUME NEW kind \in Kinds, Read(kind) PROVE Lockstep'
  BY <1>1 DEF Read, Reset
<1>2. ASSUME NEW kind \in Kinds, Sends(kind) PROVE Lockstep'
  BY <1>2 DEF Sends
<1>3. ASSUME NEW frame \in {"data", "close"}, Recv(frame) PROVE Lockstep'
  BY <1>3 DEF Recv
<1>4. CASE ReadEnds
  BY <1>4 DEF ReadEnds
<1>5. CASE PingTick
  BY <1>5 DEF PingTick
<1>6. CASE IdleFires
  BY <1>6 DEF IdleFires
<1>7. CASE WriteDone
  BY <1>7 DEF WriteDone
<1>8. CASE WriteFails
  BY <1>8 DEF WriteFails
<1>9. CASE FallsSilent
  BY <1>9 DEF FallsSilent
<1>10. CASE Tick
  <2>1. CASE Looping
    BY <1>10, <2>1 DEF Tick
  <2>2. CASE ~Looping
    BY <1>10, <2>2 DEF Tick
  <2> QED
    BY <2>1, <2>2
<1>11. CASE Finished \/ UNCHANGED vars
  BY <1>11 DEF Finished, vars
<1> QED
  BY <1>1, <1>2, <1>3, <1>4, <1>5, <1>6, <1>7, <1>8, <1>9, <1>10, <1>11 DEF Next

LEMMA NextType == Lockstep /\ TypeOK /\ [Next]_vars => TypeOK'
<1> SUFFICES ASSUME Lockstep, TypeOK, [Next]_vars PROVE TypeOK'
  OBVIOUS
<1> USE TimeAssumption, NoneAssumption
    DEF Lockstep, TypeOK, Looping, Kinds, Write, End, Reset, client, history
<1>1. ASSUME NEW kind \in Kinds, Read(kind) PROVE TypeOK'
  BY <1>1 DEF Read
<1>2. ASSUME NEW frame \in {"data", "close"}, Recv(frame) PROVE TypeOK'
  BY <1>2 DEF Recv
<1>3. CASE ReadEnds \/ IdleFires
  BY <1>3 DEF ReadEnds, IdleFires
<1>4. CASE PingTick
  BY <1>4 DEF PingTick, Due
<1>5. CASE WriteDone
  BY <1>5 DEF WriteDone
<1>6. CASE WriteFails
  BY <1>6 DEF WriteFails
<1>7. CASE FallsSilent
  BY <1>7 DEF FallsSilent
<1>8. CASE Tick
  BY <1>8 DEF Tick
<1>9. CASE Finished \/ UNCHANGED vars
  BY <1>9 DEF Finished, vars
<1>10. ASSUME NEW kind \in Kinds, Sends(kind) PROVE TypeOK'
  BY <1>10 DEF Sends
<1> QED
  BY <1>1, <1>2, <1>3, <1>4, <1>5, <1>6, <1>7, <1>8, <1>9, <1>10 DEF Next

\* Every variable of SessionTimers keeps its type; in particular the ticker is
\* never due later than one interval from now.
THEOREM TypeCorrect == Spec => []TypeOK
<1>1. Init => TypeOK
  BY TimeAssumption DEF Init, TypeOK
<1> QED
  BY <1>1, InitLockstep, NextLockstep, NextType, PTL DEF Spec

\* The task never outlives the last frame of its client by more than
\* IDLE_TIMEOUT and the time its writes took since.
THEOREM SilenceBounded == Spec => []SilenceIsBounded
<1>1. Lockstep => SilenceIsBounded
  BY TimeAssumption DEF Lockstep, SilenceIsBounded
<1> QED
  BY <1>1, InitLockstep, NextLockstep, PTL DEF Spec
-----------------------------------------------------------------------------
\* How far an answering client can be from its next frame, step by step: until
\* the ticker is due, while the ping is written, until it is answered, until
\* the answer is read.
PingAge == IF owes = None THEN 0 ELSE owes

Progress ==
    /\ nextPing \in Int /\ nextPing <= Ping
    /\ owes \in (0..Answer) \cup {None}
    /\ inbox \subseteq Kinds
    /\ alive =>
          /\ quiet <= Ping + Answer + blocked
          /\ inbox = {} => quiet <= Ping + PingAge + blocked
          /\ inbox = {} /\ owes = None /\ writing # "ping" =>
                quiet + nextPing <= Ping + blocked
    /\ AnsweringClientStays

LEMMA InitProgress == Init => Progress
BY TimeAssumption, NoneAssumption DEF Init, Progress, PingAge, AnsweringClientStays, Kinds

LEMMA NextProgress == Lockstep /\ Progress /\ [Next]_vars => Progress'
<1> SUFFICES ASSUME Lockstep, Progress, [Next]_vars PROVE Progress'
  OBVIOUS
<1> USE TimeAssumption, NoneAssumption
    DEF Lockstep, Progress, PingAge, AnsweringClientStays, client, history, Looping
<1>1. ASSUME NEW kind \in Kinds, Read(kind) PROVE Progress'
  BY <1>1 DEF Read, Write
<1>2. ASSUME NEW kind \in Kinds, Sends(kind) PROVE Progress'
  BY <1>2 DEF Sends, Kinds
<1>3. ASSUME NEW frame \in {"data", "close"}, Recv(frame) PROVE Progress'
  BY <1>3 DEF Recv, Write
<1>4. CASE ReadEnds
  BY <1>4 DEF ReadEnds, End
<1>5. CASE PingTick
  BY <1>5 DEF PingTick, Due, Write
<1>6. CASE IdleFires
  BY <1>6 DEF IdleFires, End
<1>7. CASE WriteDone
  BY <1>7 DEF WriteDone, Write, End
<1>8. CASE WriteFails
  BY <1>8 DEF WriteFails, Write, End
<1>9. CASE FallsSilent
  BY <1>9 DEF FallsSilent
<1>10. CASE Tick
  BY <1>10 DEF Tick
<1>11. CASE Finished \/ UNCHANGED vars
  BY <1>11 DEF Finished, vars
<1> QED
  BY <1>1, <1>2, <1>3, <1>4, <1>5, <1>6, <1>7, <1>8, <1>9, <1>10, <1>11 DEF Next

\* A client that answers pings is dropped as idle only if writes held the loop
\* for what the ping interval and the answer leave over.
THEOREM AnsweringStays == Spec => []AnsweringClientStays
<1>1. Progress => AnsweringClientStays
  BY DEF Progress
<1> QED
  BY <1>1, InitLockstep, NextLockstep, InitProgress, NextProgress, PTL DEF Spec
=============================================================================
