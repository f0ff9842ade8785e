------------------------ MODULE SignalingLocksProofs ------------------------
(***************************************************************************)
(* Theorems about SignalingLocks for any number of connections: its type,  *)
(* the order in which every handler takes its locks, and that the handlers *)
(* never all wait for each other.  That every handler ends rests on this   *)
(* and on the fairness of the queues: it is a liveness property, which TLC *)
(* checks.                                                                 *)
(***************************************************************************)
EXTENDS SignalingLocks, SequenceTheorems, TLAPS

-----------------------------------------------------------------------------
(* The inductive invariant.                                                *)

\* Only a guard of a lock is kept.
Acquisitions ==
    {a \in [on : Locks \cup {"client"}, write : BOOLEAN, keep : BOOLEAN] :
        a.keep => a.on \in Locks}

\* What s keeps, it keeps only while it takes later locks.
Climbs(s) ==
    \A i, j \in DOMAIN s :
        i < j /\ s[i].keep /\ s[j].on \in Locks => Before(s[i].on, s[j].on)

\* The same of the guards a task has and the awaits it has left.
Above(held, s) ==
    \A g \in held : \A i \in DOMAIN s : s[i].on \in Locks => Before(g.on, s[i].on)

IInv ==
    /\ TypeOK
    /\ todo \in [Conns -> Seq(Acquisitions)]
    /\ guards \in [Conns -> SUBSET Acquisitions]
    /\ \A c \in Conns : Climbs(todo[c]) /\ Above(guards[c], todo[c])

-----------------------------------------------------------------------------
(* Lists of awaits.                                                        *)

\* The handlers of signaling.rs, one by one.
LEMMA HandlersClimb ==
    ASSUME NEW h \in Handlers
    PROVE  Awaits(h) \in Seq(Acquisitions) /\ Awaits(h) # <<>> /\ Climbs(Awaits(h))
<1>1. /\ \A l \in Locks : /\ Reading(l) \in Acquisitions /\ Reading(l).on = l /\ ~Reading(l).keep
                          /\ Writing(l) \in Acquisitions /\ Writing(l).on = l /\ ~Writing(l).keep
                          /\ Keeping(l) \in Acquisitions /\ Keeping(l).on = l
      /\ ToClient \in Acquisitions /\ ToClient.on \notin Locks /\ ~ToClient.keep
  BY DEF Reading, Writing, Keeping, ToClient, Await, Acquisitions, Locks
<1>2. {"peers", "channels", "sessions"} = Locks
  BY DEF Locks
<1>3. CASE h = "register"
  <2>1. Awaits(h) = <<Writing("peers"), Writing("channels"), ToClient, Reading("peers")>>
    BY <1>3 DEF Awaits, Register
  <2> QED
    BY <1>1, <1>2, <2>1 DEF Climbs
<1>4. CASE h = "request"
  <2>1. Awaits(h) = <<Keeping("peers"), Reading("channels"), Writing("sessions")>>
    BY <1>4 DEF Awaits, Request
  <2>2. Before("peers", "channels") /\ Before("peers", "sessions")
    BY DEF Before
  <2> QED
    BY <1>1, <1>2, <2>1, <2>2 DEF Climbs
<1>5. CASE h = "denied"
  <2>1. Awaits(h) = <<Keeping("peers"), ToClient>>
    BY <1>5 DEF Awaits, Denied
  <2> QED
    BY <1>1, <1>2, <2>1 DEF Climbs
<1>6. CASE h = "response"
  <2>1. Awaits(h) = <<Keeping("sessions"), Reading("channels")>>
    BY <1>6 DEF Awaits, Response
  <2>2. Before("sessions", "channels")
    BY DEF Before
  <2> QED
    BY <1>1, <1>2, <2>1, <2>2 DEF Climbs
<1>7. CASE h = "forward"
  <2>1. Awaits(h) = <<ToClient>>
    BY <1>7 DEF Awaits, Forward
  <2> QED
    BY <1>1, <2>1 DEF Climbs
<1>8. CASE h = "cleanup"
  <2>1. Awaits(h) = <<Writing("peers"), Writing("channels"), Writing("sessions"), Reading("peers")>>
    BY <1>8 DEF Awaits, Cleanup
  <2> QED
    BY <1>1, <1>2, <2>1 DEF Climbs
<1> QED
  BY <1>3, <1>4, <1>5, <1>6, <1>7, <1>8 DEF Handlers

\* What is left of a list climbs as the list did, above what its head keeps.
LEMMA RestClimbs ==
    ASSUME NEW s \in Seq(Acquisitions), s # <<>>, Climbs(s)
    PROVE  /\ Head(s) \in Acquisitions
           /\ Tail(s) \in Seq(Acquisitions)
           /\ Len(s) = 1 <=> Tail(s) = <<>>
           /\ Climbs(Tail(s))
           /\ Head(s).keep => Above({Head(s)}, Tail(s))
           /\ \A held : Above(held, s) => Above(held, Tail(s))
<1>1. /\ Head(s) \in Acquisitions /\ Head(s) = s[1]
      /\ Tail(s) \in Seq(Acquisitions)
      /\ Len(s) \in Nat \ {0} /\ Len(Tail(s)) = Len(s) - 1
      /\ \A i \in 1..Len(Tail(s)) : Tail(s)[i] = s[i + 1]
  BY HeadTailProperties, LenProperties, EmptySeq
<1>2. DOMAIN s = 1..Len(s) /\ DOMAIN Tail(s) = 1..Len(Tail(s))
  BY <1>1, LenProperties
<1>3. \A i \in DOMAIN Tail(s) : Tail(s)[i] = s[i + 1] /\ i + 1 \in DOMAIN s
  BY <1>1, <1>2
<1>4. Len(s) = 1 <=> Tail(s) = <<>>
  <2>1. Tail(s) = <<>> <=> Len(Tail(s)) = 0
    BY <1>1, EmptySeq
  <2> QED
    BY <1>1, <2>1
<1>5. Climbs(Tail(s))
  BY <1>1, <1>2, <1>3 DEF Climbs
<1>6. Head(s).keep => Above({Head(s)}, Tail(s))
  BY <1>1, <1>2, <1>3 DEF Climbs, Above
<1>7. \A held : Above(held, s) => Above(held, Tail(s))
  BY <1>3 DEF Above
<1> QED
  BY <1>1, <1>4, <1>5, <1>6, <1>7

-----------------------------------------------------------------------------
(* The steps.                                                              *)

LEMMA InitIInv == Init => IInv
  BY EmptySeq DEF Init, IInv, TypeOK, Climbs, Above

LEMMA StartStep ==
    ASSUME IInv, NEW c \in Conns, NEW h \in Handlers, Start(c, h)
    PROVE  IInv'
<1>1. /\ job[c] = "loop" /\ job' = [job EXCEPT ![c] = h]
      /\ todo' = [todo EXCEPT ![c] = Awaits(h)]
      /\ guards' = guards /\ queue' = queue
  BY DEF Start
<1>2. Awaits(h) \in Seq(Acquisitions) /\ Awaits(h) # <<>> /\ Climbs(Awaits(h))
  BY HandlersClimb
<1>3. h # "loop" /\ guards[c] = {}
  BY <1>1 DEF Handlers, IInv, TypeOK
<1>4. TypeOK'
  BY <1>1, <1>2, <1>3 DEF IInv, TypeOK
<1>5. todo' \in [Conns -> Seq(Acquisitions)] /\ guards' \in [Conns -> SUBSET Acquisitions]
  BY <1>1, <1>2 DEF IInv
<1>6. ASSUME NEW d \in Conns PROVE Climbs(todo'[d]) /\ Above(guards'[d], todo'[d])
  BY <1>1, <1>2, <1>3 DEF IInv, Above
<1> QED
  BY <1>4, <1>5, <1>6 DEF IInv

\* An await ends, and the guard of what it was may be kept.
LEMMA ProceedStep ==
    ASSUME IInv, NEW c \in Conns, todo[c] # <<>>, NEW held, Proceed(c, held),
           \/ held = guards[c]
           \/ Head(todo[c]).keep /\ held = guards[c] \cup {Head(todo[c])},
           queue' \in [Locks -> Seq(Conns)]
    PROVE  IInv'
<1> DEFINE a == Head(todo[c])
<1>1. /\ todo[c] \in Seq(Acquisitions) /\ guards[c] \subseteq Acquisitions
      /\ Climbs(todo[c]) /\ Above(guards[c], todo[c])
  BY DEF IInv
<1>2. /\ a \in Acquisitions /\ Tail(todo[c]) \in Seq(Acquisitions)
      /\ Len(todo[c]) = 1 <=> Tail(todo[c]) = <<>>
      /\ Climbs(Tail(todo[c]))
      /\ a.keep => Above({a}, Tail(todo[c]))
      /\ Above(guards[c], Tail(todo[c]))
  BY <1>1, RestClimbs
<1>3. /\ todo' = [todo EXCEPT ![c] = Tail(@)]
      /\ job' = [job EXCEPT ![c] = IF Len(todo[c]) = 1 THEN "loop" ELSE @]
      /\ guards' = [guards EXCEPT ![c] = IF Len(todo[c]) = 1 THEN {} ELSE held]
  BY DEF Proceed, Held
<1>4. held \subseteq Acquisitions /\ (\A g \in held : g.keep) /\ Above(held, Tail(todo[c]))
  <2>1. \A g \in guards[c] : g.keep
    BY DEF IInv, TypeOK
  <2> QED
    BY <1>1, <1>2, <2>1 DEF Above
<1>5. \A g \in held : g.on \in Locks
  BY <1>4 DEF Acquisitions
<1>6. job[c] # "loop"
  BY DEF IInv, TypeOK
<1>7. TypeOK'
  <2>1. job' \in [Conns -> Handlers \cup {"loop"}]
    BY <1>3 DEF IInv, TypeOK
  <2>2. ASSUME NEW d \in Conns
        PROVE  /\ (job'[d] = "loop") = (todo'[d] = <<>>)
               /\ job'[d] = "loop" => guards'[d] = {}
               /\ \A g \in guards'[d] : g.keep /\ g.on \in Locks
    <3>1. CASE d = c
      BY <1>2, <1>3, <1>4, <1>5, <1>6, <3>1 DEF IInv, TypeOK
    <3>2. CASE d # c
      BY <1>3, <3>2 DEF IInv, TypeOK
    <3> QED
      BY <3>1, <3>2
  <2> QED
    BY <2>1, <2>2 DEF TypeOK
<1>8. todo' \in [Conns -> Seq(Acquisitions)] /\ guards' \in [Conns -> SUBSET Acquisitions]
  BY <1>2, <1>3, <1>4 DEF IInv
<1>9. ASSUME NEW d \in Conns PROVE Climbs(todo'[d]) /\ Above(guards'[d], todo'[d])
  <2>1. CASE d = c
    BY <1>2, <1>3, <1>4, <2>1 DEF IInv, Above
  <2>2. CASE d # c
    BY <1>3, <2>2 DEF IInv
  <2> QED
    BY <2>1, <2>2
<1> QED
  BY <1>7, <1>8, <1>9 DEF IInv

LEMMA AskStep ==
    ASSUME IInv, NEW c \in Conns, Ask(c)
    PROVE  IInv'
<1>1. PICK l \in Locks : /\ queue' = [queue EXCEPT ![l] = Append(@, c)]
                         /\ UNCHANGED <<job, todo, guards>>
  BY DEF Ask
<1>2. Append(queue[l], c) \in Seq(Conns)
  BY AppendProperties DEF IInv, TypeOK
<1>3. TypeOK'
  BY <1>1, <1>2 DEF IInv, TypeOK
<1> QED
  BY <1>1, <1>3 DEF IInv

LEMMA TakeStep ==
    ASSUME IInv, NEW c \in Conns, Take(c)
    PROVE  IInv'
<1>1. PICK l \in Locks :
         /\ todo[c] # <<>> /\ queue[l] # <<>>
         /\ Proceed(c, IF Head(todo[c]).keep THEN guards[c] \cup {Head(todo[c])} ELSE guards[c])
         /\ queue' = [queue EXCEPT ![l] = Tail(@)]
  BY DEF Take, Awaiting
<1>2. Tail(queue[l]) \in Seq(Conns)
  BY <1>1, HeadTailProperties DEF IInv, TypeOK
<1>3. queue' \in [Locks -> Seq(Conns)]
  BY <1>1, <1>2 DEF IInv, TypeOK
<1>4. CASE Head(todo[c]).keep
  BY <1>1, <1>3, <1>4, ProceedStep
<1>5. CASE ~Head(todo[c]).keep
  BY <1>1, <1>3, <1>5, ProceedStep
<1> QED
  BY <1>4, <1>5

LEMMA SendStep ==
    ASSUME IInv, NEW c \in Conns, Send(c)
    PROVE  IInv'
<1>1. todo[c] # <<>> /\ Proceed(c, guards[c]) /\ queue' \in [Locks -> Seq(Conns)]
  BY DEF Send, Awaiting, IInv, TypeOK
<1> QED
  BY <1>1, ProceedStep

LEMMA NextIInv == IInv /\ [Next]_vars => IInv'
<1> SUFFICES ASSUME IInv, [Next]_vars PROVE IInv'
  OBVIOUS
<1>1. ASSUME NEW c \in Conns, NEW h \in Handlers, Start(c, h) PROVE IInv'
  BY <1>1, StartStep
<1>2. ASSUME NEW c \in Conns, Ask(c) \/ Take(c) \/ Send(c) PROVE IInv'
  BY <1>2, AskStep, TakeStep, SendStep
<1>3. CASE UNCHANGED vars
  BY <1>3 DEF vars, IInv, TypeOK
<1> QED
  BY <1>1, <1>2, <1>3 DEF Next

\* The next await is the first of those left.
LEMMA InOrder == IInv => LocksInOrder
<1> SUFFICES ASSUME IInv, NEW c \in Conns, NEW g \in guards[c], NEW l \in Locks, Awaiting(c, l)
             PROVE  Before(g.on, l)
  BY DEF LocksInOrder
<1>1. todo[c] \in Seq(Acquisitions) /\ todo[c] # <<>> /\ Head(todo[c]).on = l
  BY DEF IInv, Awaiting
<1>2. 1 \in DOMAIN todo[c] /\ todo[c][1].on = l
  BY <1>1, HeadTailProperties, LenProperties, EmptySeq
<1> QED
  BY <1>2 DEF IInv, Above

-----------------------------------------------------------------------------
(* The queues.  Whoever is in one waits for that lock, and is in it once.     *)

InLine ==
    \A l \in Locks :
        /\ \A i \in DOMAIN queue[l] : Awaiting(queue[l][i], l)
        /\ \A i, j \in DOMAIN queue[l] : queue[l][i] = queue[l][j] => i = j

LEMMA InitInLine == Init => InLine
  BY EmptySeq DEF Init, InLine

\* A task moves on from an await only when it is in no queue, or at the head of
\* one, which it then leaves.
LEMMA NextInLine == IInv /\ InLine /\ [Next]_vars => InLine'
<1> SUFFICES ASSUME IInv, InLine, [Next]_vars PROVE InLine'
  OBVIOUS
<1>1. \A l \in Locks : queue[l] \in Seq(Conns)
  BY DEF IInv, TypeOK
<1>2. ASSUME NEW c \in Conns, UNCHANGED queue, \A l \in Locks : ~Awaiting(c, l),
             \A d \in Conns \ {c} : todo'[d] = todo[d]
      PROVE  InLine'
  <2> SUFFICES ASSUME NEW l \in Locks, NEW i \in DOMAIN queue[l]
               PROVE  todo'[queue[l][i]] # <<>> /\ Head(todo'[queue[l][i]]).on = l
    BY <1>2 DEF InLine, Awaiting
  <2>1. queue[l][i] \in Conns /\ Awaiting(queue[l][i], l)
    BY <1>1 DEF InLine
  <2> QED
    BY <1>2, <2>1 DEF Awaiting
<1>3. ASSUME NEW c \in Conns, NEW h \in Handlers, Start(c, h) PROVE InLine'
  <2>1. UNCHANGED queue /\ \A d \in Conns \ {c} : todo'[d] = todo[d]
    BY <1>3 DEF Start, IInv
  <2>2. \A l \in Locks : ~Awaiting(c, l)
    BY <1>3 DEF Start, IInv, TypeOK, Awaiting
  <2> QED
    BY <1>2, <2>1, <2>2
<1>4. ASSUME NEW c \in Conns, Send(c) PROVE InLine'
  <2>1. UNCHANGED queue /\ \A d \in Conns \ {c} : todo'[d] = todo[d]
    BY <1>4 DEF Send, Proceed, IInv
  <2>2. \A l \in Locks : ~Awaiting(c, l)
    BY <1>4 DEF Send, Awaiting, Locks
  <2> QED
    BY <1>2, <2>1, <2>2
<1>5. ASSUME NEW c \in Conns, Ask(c) PROVE InLine'
  <2>1. PICK k \in Locks : /\ Awaiting(c, k)
                           /\ \A i \in DOMAIN queue[k] : queue[k][i] # c
                           /\ queue' = [queue EXCEPT ![k] = Append(queue[k], c)]
                           /\ todo' = todo
    BY <1>5 DEF Ask
  <2> DEFINE q == Append(queue[k], c)
             n == Len(queue[k])
  <2>2. /\ n \in Nat /\ DOMAIN queue[k] = 1..n
        /\ DOMAIN q = 1..(n + 1) /\ q[n + 1] = c
        /\ \A i \in 1..n : q[i] = queue[k][i]
    BY <1>1, LenProperties
  <2>3. \A l \in Locks : queue'[l] = IF l = k THEN q ELSE queue[l]
    BY <2>1 DEF IInv, TypeOK
  <2> HIDE DEF q, n
  <2>4. \A i \in DOMAIN q : Awaiting(q[i], k)
    BY <2>1, <2>2 DEF InLine
  <2>5. \A i, j \in DOMAIN q : q[i] = q[j] => i = j
    BY <2>1, <2>2 DEF InLine
  <2> QED
    BY <2>1, <2>3, <2>4, <2>5 DEF InLine, Awaiting
<1>6. ASSUME NEW c \in Conns, Take(c) PROVE InLine'
  <2>1. PICK k \in Locks : /\ Awaiting(c, k)
                           /\ queue[k] # <<>> /\ Head(queue[k]) = c
                           /\ queue' = [queue EXCEPT ![k] = Tail(queue[k])]
    BY <1>6 DEF Take
  <2>2. \A d \in Conns \ {c} : todo'[d] = todo[d]
    BY <1>6 DEF Take, Proceed, IInv
  <2> DEFINE q == Tail(queue[k])
             n == Len(queue[k])
  <2>3. /\ n \in Nat \ {0} /\ DOMAIN queue[k] = 1..n /\ queue[k][1] = c
        /\ DOMAIN q = 1..(n - 1)
        /\ \A i \in 1..(n - 1) : q[i] = queue[k][i + 1]
    <3>1. /\ q \in Seq(Conns) /\ Len(q) = n - 1
          /\ \A i \in 1..Len(q) : q[i] = queue[k][i + 1]
      BY <1>1, <2>1, HeadTailProperties
    <3>2. n \in Nat \ {0} /\ DOMAIN queue[k] = 1..n
      BY <1>1, <2>1, LenProperties, EmptySeq
    <3>3. queue[k][1] = c
      BY <1>1, <2>1
    <3> QED
      BY <3>1, <3>2, <3>3, LenProperties
  <2>4. \A l \in Locks : queue'[l] = IF l = k THEN q ELSE queue[l]
    BY <2>1 DEF IInv, TypeOK
  <2> HIDE DEF q, n
  <2>5. \A i \in DOMAIN q : i + 1 \in DOMAIN queue[k] /\ q[i] = queue[k][i + 1] /\ q[i] # c
    <3> SUFFICES ASSUME NEW i \in DOMAIN q
                 PROVE  i + 1 \in DOMAIN queue[k] /\ q[i] = queue[k][i + 1] /\ q[i] # c
      OBVIOUS
    <3>1. i + 1 \in 1..n /\ 1 \in 1..n /\ i + 1 # 1
      BY <2>3
    <3> QED
      BY <2>3, <3>1 DEF InLine
  <2>6. \A l \in Locks : \A i \in DOMAIN queue'[l] :
           queue'[l][i] \in Conns \ {c} /\ Awaiting(queue'[l][i], l)
    <3> SUFFICES ASSUME NEW l \in Locks, NEW i \in DOMAIN queue'[l]
                 PROVE  queue'[l][i] \in Conns \ {c} /\ Awaiting(queue'[l][i], l)
      OBVIOUS
    <3>1. CASE l = k
      BY <1>1, <2>4, <2>5, <3>1 DEF InLine
    <3>2. CASE l # k
      <4>1. queue[l][i] \in Conns /\ Awaiting(queue[l][i], l) /\ queue'[l][i] = queue[l][i]
        BY <1>1, <2>4, <3>2 DEF InLine
      <4> QED
        BY <2>1, <3>2, <4>1 DEF Awaiting
    <3> QED
      BY <3>1, <3>2
  <2>7. \A l \in Locks : \A i, j \in DOMAIN queue'[l] : queue'[l][i] = queue'[l][j] => i = j
    <3>1. \A i, j \in DOMAIN q : q[i] = q[j] => i = j
      BY <2>3, <2>5 DEF InLine
    <3> QED
      BY <2>4, <3>1 DEF InLine
  <2>8. \A l \in Locks : \A i \in DOMAIN queue'[l] :
           todo'[queue'[l][i]] # <<>> /\ Head(todo'[queue'[l][i]]).on = l
    BY <2>2, <2>6 DEF Awaiting
  <2> QED
    BY <2>7, <2>8 DEF InLine, Awaiting
<1>7. CASE UNCHANGED vars
  BY <1>7 DEF vars, InLine, Awaiting
<1> QED
  BY <1>3, <1>4, <1>5, <1>6, <1>7 DEF Next

-----------------------------------------------------------------------------
(* The theorems.                                                           *)

\* The invariant holds in every reachable state.
THEOREM Inductive == Spec => []IInv
  BY InitIInv, NextIInv, PTL DEF Spec

\* A task between two handlers awaits nothing and keeps no guard; what is kept is
\* the guard of a lock.
THEOREM TypeCorrect == Spec => []TypeOK
<1>1. IInv => TypeOK
  BY DEF IInv
<1> QED
  BY <1>1, Inductive, PTL

\* The handlers of signaling.rs take their locks in one order: whoever keeps a
\* guard waits only for a lock behind it.
THEOREM NoCircle == Spec => []LocksInOrder
<1> QED
  BY InOrder, Inductive, PTL

\* Somebody can always go on: of the locks that are waited for, the last one in
\* the order can be granted, unless a guard of it is kept by a task that waits for
\* no lock at all.
THEOREM NoDeadlock == Spec => []NobodyDeadlocked
<1>1. Spec => []InLine
  BY InitIInv, InitInLine, NextIInv, NextInLine, PTL DEF Spec
<1>2. IInv /\ InLine => NobodyDeadlocked
  <2> SUFFICES ASSUME IInv, InLine,
                      \E c \in Conns : Queued(c),
                      \A d \in Conns : guards[d] # {} => Queued(d)
               PROVE  \E l \in Locks : Grantable(l)
    BY DEF NobodyDeadlocked
  <2>1. \E l \in Locks : queue[l] # <<>>
    <3>1. PICK l \in Locks : \E i \in DOMAIN queue[l] : TRUE
      BY DEF Queued
    <3>2. queue[l] # <<>>
      BY <3>1
    <3> QED
      BY <3>2
  <2>2. PICK k \in Locks :
           queue[k] # <<>> /\ \A l \in Locks : Before(k, l) => queue[l] = <<>>
    BY <2>1 DEF Locks, Before
  <2>3. ASSUME NEW d \in Conns, NEW g \in guards[d] PROVE g.on # k
    <3>1. PICK l \in Locks : \E i \in DOMAIN queue[l] : queue[l][i] = d
      BY <2>3 DEF Queued
    <3>2. Awaiting(d, l) /\ queue[l] # <<>>
      BY <3>1 DEF InLine
    <3>3. Before(g.on, l)
      BY <2>3, <3>2, InOrder DEF LocksInOrder
    <3> QED
      BY <2>2, <3>2, <3>3
  <2>4. Head(todo[Head(queue[k])]).on = k
    <3>1. queue[k] \in Seq(Conns) /\ 1 \in DOMAIN queue[k] /\ Head(queue[k]) = queue[k][1]
      BY <2>2, LenProperties, EmptySeq DEF IInv, TypeOK
    <3> QED
      BY <3>1 DEF InLine, Awaiting
  <2>5. Grantable(k)
    BY <2>2, <2>3, <2>4 DEF Grantable, Conflict
  <2> QED
    BY <2>5
<1> QED
  BY <1>1, <1>2, Inductive, PTL
=============================================================================
