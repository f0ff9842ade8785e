----------------------- MODULE DeviceAdmissionProofs -----------------------
(***************************************************************************)
(* Proofs about DeviceAdmission for every number of handlers and devices,  *)
(* whether or not statements and signatures may fail.                      *)
(*                                                                         *)
(* About the table: a serial that has certificates has a newest one        *)
(* (HasLatest), and whatever is older than a blocked certificate of its    *)
(* serial is blocked too (Ordered): LIMIT 1 then reads enough.  About a    *)
(* handler: Sound says, for each point between two statements, what the    *)
(* handler has read and what of it still holds, the other handlers having  *)
(* run in between.                                                         *)
(***************************************************************************)
EXTENDS DeviceAdmission, SequenceTheorems, TLAPS

Rows == [sn : Serials, bound : Serials \cup {None}, status : {"active", "blocked"}]

HasLatest ==
    \A sn \in Serials :
        Of(sn) # {} => \E i \in Of(sn) : \A j \in Of(sn) : j <= i

Ordered ==
    \A i, j \in DOMAIN certs :
        i < j /\ certs[i].sn = certs[j].sn /\ certs[j].status = "blocked"
            => certs[i].status = "blocked"

\* A handler that started works on a serial, and has an outcome when it ended.
Begun(h) ==
    /\ pc[h] # "idle" => job[h].sn \in Serials /\ job[h].kind \in Kinds
    /\ pc[h] = "match" => job[h].cert # None
    /\ pc[h] = "done" <=> outcome[h] # None

\* One that must refuse, and has failed to read neither the device nor the
\* status of its certificates, cannot get past the latter.
Forced(h) == mustRefuse[h] /\ Spared(h, {"lookup", "status"})

Refusing(h) ==
    Forced(h) =>
        /\ pc[h] \in {"lookup", "status", "done"}
        /\ outcome[h] # "admitted"
        /\ pc[h] # "done" =>
              \A sn \in Serials : job[h].sn = sn => devices[sn] # "absent" /\ Blocked(sn)

\* What is shown does not speak against the device: nothing, one of its active
\* certificates, or one that names it.
Proves(c, sn) == c \in {None} \cup Active(sn) \/ Binds(c, sn)

\* One that nothing justifies to refuse finds nothing to refuse for.
Justified(h) ==
    ~cause[h] =>
        /\ outcome[h] = "refused" => ~Spared(h, {"match"})
        /\ \A sn \in Serials : job[h].sn = sn =>
              /\ pc[h] \in {"lookup", "status", "match"} => Proves(job[h].cert, sn)
              /\ pc[h] \in {"lookup", "status"} => ~Blocked(sn)
              /\ pc[h] = "lookup" => devices[sn] # "inactive"

\* One for a first device has its row before its certificate is inserted, and
\* a certificate when it admits.
OnRecord(h) ==
    \A sn \in Serials : job[h].sn = sn =>
        /\ pc[h] = "update" => devices[sn] # "absent"
        /\ job[h].kind = "first" /\ Spared(h, {"sign", "exists", "insert", "issue"}) =>
              /\ pc[h] = "issue" => devices[sn] # "absent"
              /\ outcome[h] = "admitted" => devices[sn] # "absent" /\ Of(sn) # {}

Sound(h) == Begun(h) /\ Refusing(h) /\ Justified(h) /\ OnRecord(h)

IInv ==
    /\ TypeOK
    /\ HasLatest
    /\ Ordered
    /\ \A h \in Handlers : Sound(h)

-----------------------------------------------------------------------------
(* Lemmas about the two tables.                                            *)

\* None is no value of anything.
LEMMA NoneApart ==
    /\ None \notin Serials /\ None \notin Kinds /\ None \notin Outcomes /\ None \notin Nat
    /\ None # "admitted" /\ None # "refused" /\ None # "stored" /\ None # "error"
  BY NoneAssumption DEF Outcomes

\* LIMIT 1 returns the newest row.
LEMMA LatestIsNewest ==
    ASSUME HasLatest, NEW sn \in Serials, Of(sn) # {}
    PROVE  Latest(sn) \in Of(sn) /\ \A j \in Of(sn) : j <= Latest(sn)
  BY DEF HasLatest, Latest

\* What the newest row says holds for all: it is active when any is.
LEMMA LatestSpeaksForAll ==
    ASSUME TypeOK, HasLatest, Ordered, NEW sn \in Serials, Of(sn) # {}
    PROVE  Passes(sn) <=> Active(sn) # {}
<1> DEFINE n == Latest(sn)
<1>1. n \in Of(sn) /\ \A j \in Of(sn) : j <= n
  BY LatestIsNewest
<1>2. DOMAIN certs \subseteq Nat /\ Of(sn) \subseteq DOMAIN certs
      /\ \A i \in DOMAIN certs : certs[i].status \in {"active", "blocked"}
  <2>1. certs \in Seq(Rows)
    BY DEF TypeOK, Rows
  <2>2. DOMAIN certs = 1 .. Len(certs) /\ \A i \in DOMAIN certs : certs[i] \in Rows
    BY <2>1
  <2> QED
    BY <2>1, <2>2, LenProperties DEF Rows, Of
<1> HIDE DEF n
<1>3. ASSUME certs[n].status = "active" PROVE Active(sn) # {}
  BY <1>1, <1>3 DEF Active
<1>4. ASSUME certs[n].status = "blocked", NEW j \in Of(sn)
      PROVE  certs[j].status = "blocked"
  <2>1. j \in Nat /\ n \in Nat /\ j <= n /\ certs[j].sn = certs[n].sn
    BY <1>1, <1>2 DEF Of
  <2>2. CASE j = n
    BY <1>4, <2>2
  <2>3. CASE j # n
    <3>1. j < n
      BY <2>1, <2>3
    <3> QED
      BY <3>1, <2>1, <1>1, <1>2, <1>4 DEF Ordered
  <2> QED
    BY <2>2, <2>3
<1> QED
  BY <1>1, <1>2, <1>3, <1>4 DEF Passes, Active, n

\* A row is inserted at the end: the serial has one more certificate, and the
\* newest of all is active.
LEMMA AddRow ==
    ASSUME TypeOK, HasLatest, Ordered,
           NEW r \in Rows, r.status = "active", certs' = Append(certs, r)
    PROVE  /\ certs' \in Seq(Rows)
           /\ \A sn : /\ Of(sn) \subseteq Of(sn)' /\ Active(sn) \subseteq Active(sn)'
                      /\ sn # r.sn => Of(sn)' = Of(sn) /\ Active(sn)' = Active(sn)
                      /\ sn = r.sn => Active(sn)' # {}
           /\ \A c, sn : Binds(c, sn) => Binds(c, sn)'
           /\ HasLatest' /\ Ordered'
<1> DEFINE n == Len(certs)
<1>1. certs \in Seq(Rows) /\ n \in Nat /\ DOMAIN certs = 1 .. n
  BY LenProperties DEF TypeOK, Rows
<1>2. /\ certs' \in Seq(Rows) /\ DOMAIN certs' = 1 .. n + 1
      /\ \A i \in 1 .. n : certs'[i] = certs[i]
      /\ certs'[n + 1] = r
  BY <1>1, AppendProperties, LenProperties
<1> HIDE DEF n
<1>3. ASSUME NEW sn
      PROVE  /\ Of(sn)' = IF sn = r.sn THEN Of(sn) \cup {n + 1} ELSE Of(sn)
             /\ Active(sn)' = IF sn = r.sn THEN Active(sn) \cup {n + 1} ELSE Active(sn)
  <2>1. \A i : i \in DOMAIN certs' <=> i \in DOMAIN certs \/ i = n + 1
    BY <1>1, <1>2
  <2>2. \A i : i \in Of(sn)' <=> i \in Of(sn) \/ (i = n + 1 /\ sn = r.sn)
    BY <2>1, <1>1, <1>2 DEF Of
  <2>3. \A i : i \in Active(sn)' <=> i \in Active(sn) \/ (i = n + 1 /\ sn = r.sn)
    BY <2>2, <1>1, <1>2 DEF Active, Of
  <2> QED
    BY <2>2, <2>3
<1>4. HasLatest'
  <2> SUFFICES ASSUME NEW sn \in Serials, Of(sn)' # {}
               PROVE  \E i \in Of(sn)' : \A j \in Of(sn)' : j <= i
    BY DEF HasLatest
  <2>1. CASE sn = r.sn
    <3>1. n + 1 \in Of(sn)' /\ \A j \in Of(sn)' : j <= n + 1
      BY <2>1, <1>1, <1>3 DEF Of
    <3> QED
      BY <3>1
  <2>2. CASE sn # r.sn
    BY <2>2, <1>3 DEF HasLatest
  <2> QED
    BY <2>1, <2>2
<1>5. Ordered'
  <2> SUFFICES ASSUME NEW i \in DOMAIN certs', NEW j \in DOMAIN certs',
                      i < j, certs'[i].sn = certs'[j].sn, certs'[j].status = "blocked"
               PROVE  certs'[i].status = "blocked"
    BY DEF Ordered
  <2>1. i \in 1 .. n /\ j \in 1 .. n
    BY <1>1, <1>2
  <2> QED
    BY <2>1, <1>1, <1>2 DEF Ordered
<1>6. \A c, sn : Binds(c, sn) => Binds(c, sn)'
  BY <1>1, <1>2 DEF Binds
<1> QED
  BY <1>2, <1>3, <1>4, <1>5, <1>6

\* An operator blocks or unblocks a serial: all its certificates, and no other.
LEMMA ChangeRows ==
    ASSUME TypeOK, HasLatest, Ordered, NEW s \in Serials,
           NEW old \in {"active", "blocked"}, NEW new \in {"active", "blocked"} \ {old},
           SetStatus(s, old, new)
    PROVE  /\ certs' \in Seq(Rows)
           /\ \A sn : Of(sn)' = Of(sn)
           /\ \A sn : sn # s => Active(sn)' = Active(sn)
           /\ Active(s)' = IF new = "active" THEN Of(s) ELSE {}
           /\ \A c, sn : Binds(c, sn) => Binds(c, sn)'
           /\ HasLatest' /\ Ordered'
<1> DEFINE n == Len(certs)
<1>1. /\ certs \in Seq(Rows) /\ n \in Nat /\ DOMAIN certs = 1 .. n
      /\ \A i \in 1 .. n : certs[i] \in Rows
  <2>1. certs \in Seq(Rows)
    BY DEF TypeOK, Rows
  <2> QED
    BY <2>1, LenProperties
<1>2. /\ DOMAIN certs' = 1 .. n
      /\ \A i \in 1 .. n :
            certs'[i] = IF certs[i].sn = s /\ certs[i].status = old
                        THEN [certs[i] EXCEPT !.status = new] ELSE certs[i]
      /\ certs' = [i \in 1 .. n |-> certs'[i]]
  BY <1>1 DEF SetStatus
<1> HIDE DEF n
<1>3. \A i \in 1 .. n : /\ certs'[i] \in Rows
                        /\ certs'[i].sn = certs[i].sn /\ certs'[i].bound = certs[i].bound
                        /\ certs'[i].status = IF certs[i].sn = s THEN new ELSE certs[i].status
  BY <1>1, <1>2 DEF Rows
<1>4. certs' \in Seq(Rows)
  <2>1. certs' \in [1 .. n -> Rows]
    BY <1>2, <1>3
  <2> QED
    BY <1>1, <2>1, SeqDef
<1>5. \A sn : Of(sn)' = Of(sn)
  BY <1>1, <1>2, <1>3 DEF Of
<1>6. \A sn : Active(sn)' = {i \in Of(sn) : certs'[i].status = "active"}
  BY <1>5 DEF Active
<1>7. \A sn : \A i \in Of(sn) : i \in 1 .. n /\ certs[i].sn = sn
  BY <1>1 DEF Of
<1>8. \A sn : sn # s => Active(sn)' = Active(sn)
  BY <1>3, <1>6, <1>7 DEF Active
<1>9. Active(s)' = IF new = "active" THEN Of(s) ELSE {}
  BY <1>3, <1>6, <1>7
<1>10. HasLatest'
  BY <1>5 DEF HasLatest
<1>11. Ordered'
  BY <1>1, <1>2, <1>3 DEF Ordered
<1>12. \A c, sn : Binds(c, sn) => Binds(c, sn)'
  BY <1>1, <1>2, <1>3 DEF Binds
<1> QED
  BY <1>4, <1>5, <1>8, <1>9, <1>10, <1>11, <1>12

\* A handler that does nothing in a step stays sound, if the step takes no row
\* away, and tells its history of whatever else changes under it.
LEMMA Untouched ==
    ASSUME NEW d \in Handlers, Sound(d),
           pc'[d] = pc[d], job'[d] = job[d], outcome'[d] = outcome[d],
           faulted'[d] = faulted[d],
           mustRefuse'[d] => mustRefuse[d],
           cause[d] => cause'[d],
           \A sn \in Serials : devices[sn] # "absent" => devices'[sn] # "absent",
           \A sn \in Serials : Of(sn) # {} => Of(sn)' # {},
           \A c, sn : Binds(c, sn) => Binds(c, sn)',
           \A sn \in Serials :
              d \in Running(sn) /\ mustRefuse'[d] /\ Blocked(sn) => Blocked(sn)',
           \A sn \in Serials :
              d \in Running(sn) /\ ~cause'[d] =>
                 /\ Active(sn) \subseteq Active(sn)'
                 /\ Blocked(sn)' => Blocked(sn)
                 /\ devices'[sn] = "inactive" => devices[sn] = "inactive"
    PROVE  Sound(d)'
<1>1. Begun(d)'
  BY DEF Sound, Begun
<1>2. Refusing(d)'
  BY DEF Sound, Refusing, Forced, Begun, Running, Spared
<1>3. Justified(d)'
  BY DEF Sound, Justified, Running, Spared, Proves
<1>4. OnRecord(d)'
  BY DEF Sound, OnRecord, Spared
<1> QED
  BY <1>1, <1>2, <1>3, <1>4 DEF Sound

\* What a step of a handler, done or failed, leaves in its record.
LEMMA FaultEffect ==
    ASSUME IInv, NEW h \in Handlers, Succeeds \/ Faults(h)
    PROVE  /\ faulted' \in [Handlers -> SUBSET Points]
           /\ faulted[h] \subseteq faulted'[h]
           /\ Faults(h) => pc[h] \in faulted'[h]
           /\ \A d \in Handlers \ {h} : faulted'[d] = faulted[d]
  BY DEF IInv, TypeOK, Succeeds, Faults

-----------------------------------------------------------------------------
(* The invariant is inductive.                                             *)

LEMMA InitIInv == Init => IInv
<1> SUFFICES ASSUME Init PROVE IInv
  OBVIOUS
<1>1. TypeOK
  <2>1. certs \in Seq([sn : Serials, bound : Serials \cup {None}, status : {"active", "blocked"}])
    BY EmptySeq DEF Init
  <2> QED
    BY <2>1 DEF Init, TypeOK, Points
<1>2. HasLatest /\ Ordered
  BY DEF Init, HasLatest, Ordered, Of
<1>3. \A h \in Handlers : Sound(h)
  BY NoneApart DEF Init, Sound, Begun, Refusing, Forced, Justified, OnRecord
<1> QED
  BY <1>1, <1>2, <1>3 DEF IInv

\* A step of one handler that writes neither table.
LEMMA HandlerStep ==
    ASSUME IInv, NEW h \in Handlers, UNCHANGED <<devices, certs>>, TypeOK', Sound(h)',
           \A d \in Handlers \ {h} :
              /\ pc'[d] = pc[d] /\ job'[d] = job[d] /\ outcome'[d] = outcome[d]
              /\ mustRefuse'[d] = mustRefuse[d] /\ cause'[d] = cause[d]
              /\ faulted'[d] = faulted[d]
    PROVE  IInv'
<1>1. HasLatest' /\ Ordered'
  BY DEF IInv, HasLatest, Ordered, Of
<1>2. \A sn : Of(sn)' = Of(sn) /\ Active(sn)' = Active(sn) /\ Blocked(sn)' = Blocked(sn)
  BY DEF Of, Active, Blocked
<1>3. \A c, sn : Binds(c, sn) => Binds(c, sn)'
  BY DEF Binds
<1>4. \A d \in Handlers \ {h} : Sound(d)'
  BY <1>2, <1>3, Untouched DEF IInv
<1> QED
  BY <1>1, <1>4 DEF IInv

LEMMA RegisterStep ==
    ASSUME IInv, NEW h \in Handlers, NEW sn \in Serials,
           NEW c \in Shown, Register(h, sn, c)
    PROVE  IInv'
<1>1. /\ pc[h] = "idle" /\ outcome[h] = None
      /\ pc' = [pc EXCEPT ![h] = "lookup"]
      /\ job' = [job EXCEPT ![h] = [kind |-> "known", sn |-> sn, cert |-> c]]
      /\ mustRefuse' = [mustRefuse EXCEPT ![h] = (devices[sn] = "active" /\ Blocked(sn))]
      /\ cause' = [cause EXCEPT ![h] = (devices[sn] = "inactive" \/ Blocked(sn)
                                           \/ ~Proves(c, sn))]
      /\ UNCHANGED <<devices, certs, audited, faulted, outcome>>
  BY DEF Register, Goto, IInv, Sound, Begun, Proves
<1>2. c \in Nat \cup {Unrecorded, None}
  BY LenProperties DEF IInv, TypeOK, Foreign, Shown
<1>3. TypeOK'
  BY <1>1, <1>2 DEF IInv, TypeOK, Points, Kinds
<1>4. /\ pc'[h] = "lookup" /\ job'[h] = [kind |-> "known", sn |-> sn, cert |-> c]
      /\ mustRefuse'[h] = (devices[sn] = "active" /\ Blocked(sn))
      /\ cause'[h] = (devices[sn] = "inactive" \/ Blocked(sn) \/ ~Proves(c, sn))
      /\ outcome'[h] = None
  BY <1>1 DEF IInv, TypeOK
<1>5. \A t : (Proves(c, t)' <=> Proves(c, t)) /\ (Blocked(t)' <=> Blocked(t))
  BY <1>1 DEF Of, Active, Blocked, Proves, Binds
<1>6. mustRefuse'[h] => devices[sn] = "active" /\ Blocked(sn)
  BY <1>4
<1>7. ~cause'[h] => devices[sn] # "inactive" /\ ~Blocked(sn) /\ Proves(c, sn)
  BY <1>4
<1>8. Sound(h)'
  <2>1. Begun(h)'
    BY <1>4, NoneApart DEF Begun, Kinds
  <2>2. pc'[h] = "lookup" /\ job'[h].sn = sn /\ job'[h].cert = c /\ outcome'[h] = None
    BY <1>4
  <2>3. Refusing(h)'
    BY <1>1, <1>5, <1>6, <2>2, NoneApart DEF Refusing, Forced
  <2>4. Justified(h)'
    BY <1>1, <1>5, <1>7, <2>2, NoneApart DEF Justified
  <2>5. OnRecord(h)'
    BY <1>4, NoneApart DEF OnRecord
  <2> QED
    BY <2>1, <2>3, <2>4, <2>5 DEF Sound
<1>9. \A d \in Handlers \ {h} :
         /\ pc'[d] = pc[d] /\ job'[d] = job[d] /\ outcome'[d] = outcome[d]
         /\ mustRefuse'[d] = mustRefuse[d] /\ cause'[d] = cause[d]
         /\ faulted'[d] = faulted[d]
  BY <1>1 DEF IInv, TypeOK
<1> QED
  BY <1>1, <1>3, <1>8, <1>9, HandlerStep

LEMMA RestStep ==
    ASSUME IInv, NEW h \in Handlers, NEW sn \in Serials, RestRegister(h, sn) \/ RestIssue(h, sn)
    PROVE  IInv'
<1>1. /\ pc[h] = "idle" /\ outcome[h] = None
      /\ job' = [job EXCEPT ![h] = [kind |-> "rest", sn |-> sn, cert |-> None]]
      /\ UNCHANGED <<devices, certs, audited, faulted, outcome, mustRefuse, cause>>
  BY DEF RestRegister, RestIssue, Goto, IInv, Sound, Begun
<1>2. PICK p \in {"exists", "sign"} : pc' = [pc EXCEPT ![h] = p]
  BY DEF RestRegister, RestIssue, Goto
<1>3. TypeOK'
  BY <1>1, <1>2 DEF IInv, TypeOK, Points, Kinds
<1>4. pc'[h] = p /\ job'[h] = [kind |-> "rest", sn |-> sn, cert |-> None]
  BY <1>1, <1>2 DEF IInv, TypeOK
<1>5. ~Forced(h)
  BY <1>1 DEF IInv, Sound, Refusing
<1>6. Sound(h)'
  <2>1. Begun(h)'
    BY <1>1, <1>4, NoneApart DEF Begun, Kinds
  <2>2. Refusing(h)'
    BY <1>1, <1>5 DEF Refusing, Forced, Spared
  <2>3. Justified(h)'
    BY <1>1, <1>4, NoneApart DEF Justified
  <2>4. OnRecord(h)'
    BY <1>1, <1>4, NoneApart DEF OnRecord
  <2> QED
    BY <2>1, <2>2, <2>3, <2>4 DEF Sound
<1>7. \A d \in Handlers \ {h} : pc'[d] = pc[d] /\ job'[d] = job[d]
  BY <1>1, <1>2 DEF IInv, TypeOK
<1> QED
  BY <1>1, <1>3, <1>6, <1>7, HandlerStep

LEMMA LookupStep ==
    ASSUME IInv, NEW h \in Handlers, Lookup(h)
    PROVE  IInv'
<1>0. PICK sn \in Serials : sn = job[h].sn
  BY DEF Lookup, IInv, Sound, Begun
<1>1. /\ pc[h] = "lookup" /\ outcome[h] = None
      /\ UNCHANGED <<devices, certs, audited, mustRefuse, cause>>
      /\ Succeeds \/ Faults(h)
  BY DEF Lookup, Fails, IInv, Sound, Begun
<1>f. /\ faulted' \in [Handlers -> SUBSET Points] /\ faulted[h] \subseteq faulted'[h]
      /\ Faults(h) => "lookup" \in faulted'[h]
      /\ \A d \in Handlers \ {h} : faulted'[d] = faulted[d]
  BY <1>1, FaultEffect
<1>2. \/ /\ devices[sn] = "absent" \/ Faults(h)
         /\ job' = [job EXCEPT ![h].kind = "first"]
         /\ pc' = [pc EXCEPT ![h] = "sign"] /\ outcome' = outcome
      \/ /\ devices[sn] = "inactive" /\ UNCHANGED <<job, faulted>>
         /\ pc' = [pc EXCEPT ![h] = "done"] /\ outcome' = [outcome EXCEPT ![h] = "refused"]
      \/ /\ devices[sn] = "active" /\ UNCHANGED <<job, faulted>>
         /\ pc' = [pc EXCEPT ![h] = "status"] /\ outcome' = outcome
  BY <1>0 DEF Lookup, Succeeds, Fails, Goto, End
<1>3. TypeOK'
  <2>1. job' \in [Handlers -> [kind : Kinds \cup {None}, sn : Serials \cup {None},
                              cert : Nat \cup {Unrecorded, None}]]
    <3>1. job \in [Handlers -> [kind : Kinds \cup {None}, sn : Serials \cup {None},
                               cert : Nat \cup {Unrecorded, None}]] /\ "first" \in Kinds
      BY DEF IInv, TypeOK, Kinds
    <3>2. job' = job \/ job' = [job EXCEPT ![h].kind = "first"]
      BY <1>2
    <3> QED
      BY <3>1, <3>2
  <2>2. pc' \in [Handlers -> Points] /\ outcome' \in [Handlers -> Outcomes \cup {None}]
    BY <1>2 DEF IInv, TypeOK, Points, Outcomes
  <2> QED
    BY <1>1, <1>f, <2>1, <2>2 DEF IInv, TypeOK
<1>4. \A t : Of(t)' = Of(t) /\ (Blocked(t)' <=> Blocked(t))
         /\ \A c : Proves(c, t)' <=> Proves(c, t)
  BY <1>1 DEF Of, Active, Blocked, Proves, Binds
<1>5. Sound(h)'
  <2>1. CASE /\ devices[sn] = "absent" \/ Faults(h)
             /\ job' = [job EXCEPT ![h].kind = "first"]
             /\ pc' = [pc EXCEPT ![h] = "sign"] /\ outcome' = outcome
    <3>1. pc'[h] = "sign" /\ job'[h].kind = "first" /\ job'[h].sn = sn /\ outcome'[h] = None
      BY <1>0, <1>1, <2>1 DEF IInv, TypeOK
    <3>2. ~Forced(h)'
      BY <1>0, <1>1, <1>f, <2>1 DEF IInv, Sound, Refusing, Forced, Spared
    <3> QED
      BY <1>1, <3>1, <3>2, NoneApart DEF Sound, Begun, Refusing, Justified, OnRecord, Kinds
  <2>2. CASE /\ devices[sn] = "inactive" /\ UNCHANGED <<job, faulted>>
             /\ pc' = [pc EXCEPT ![h] = "done"] /\ outcome' = [outcome EXCEPT ![h] = "refused"]
    <3>1. pc'[h] = "done" /\ job'[h] = job[h] /\ outcome'[h] = "refused"
      BY <1>1, <2>2 DEF IInv, TypeOK
    <3>2. cause[h]
      BY <1>0, <1>1, <2>2 DEF IInv, Sound, Justified
    <3> QED
      BY <1>0, <1>1, <2>2, <3>1, <3>2, NoneApart
      DEF IInv, Sound, Begun, Refusing, Forced, Justified, OnRecord, Spared
  <2>3. CASE /\ devices[sn] = "active" /\ UNCHANGED <<job, faulted>>
             /\ pc' = [pc EXCEPT ![h] = "status"] /\ outcome' = outcome
    <3>1. pc'[h] = "status" /\ job'[h] = job[h] /\ outcome'[h] = None
      BY <1>1, <2>3 DEF IInv, TypeOK
    <3> QED
      BY <1>0, <1>1, <1>4, <2>3, <3>1, NoneApart
      DEF IInv, Sound, Begun, Refusing, Forced, Justified, OnRecord, Spared
  <2> QED
    BY <1>2, <2>1, <2>2, <2>3
<1>6. \A d \in Handlers \ {h} :
         /\ pc'[d] = pc[d] /\ job'[d] = job[d] /\ outcome'[d] = outcome[d]
         /\ faulted'[d] = faulted[d]
  BY <1>1, <1>f, <1>2 DEF IInv, TypeOK
<1> QED
  BY <1>1, <1>3, <1>5, <1>6, HandlerStep

LEMMA StatusStep ==
    ASSUME IInv, NEW h \in Handlers, Status(h)
    PROVE  IInv'
<1>0. PICK sn \in Serials : sn = job[h].sn
  BY DEF Status, IInv, Sound, Begun
<1>1. /\ pc[h] = "status" /\ outcome[h] = None
      /\ UNCHANGED <<devices, certs, job, audited, mustRefuse, cause>>
      /\ Succeeds \/ Faults(h)
  BY DEF Status, Fails, IInv, Sound, Begun
<1>f. /\ faulted' \in [Handlers -> SUBSET Points] /\ faulted[h] \subseteq faulted'[h]
      /\ Faults(h) => "status" \in faulted'[h]
      /\ \A d \in Handlers \ {h} : faulted'[d] = faulted[d]
  BY <1>1, FaultEffect
<1>2. \/ /\ Of(sn) = {} \/ Faults(h)
         /\ pc' = [pc EXCEPT ![h] = "audit"] /\ outcome' = outcome
      \/ /\ Of(sn) # {} /\ ~Passes(sn)
         /\ pc' = [pc EXCEPT ![h] = "done"] /\ outcome' = [outcome EXCEPT ![h] = "refused"]
      \/ /\ Passes(sn) /\ outcome' = outcome
         /\ \/ pc' = [pc EXCEPT ![h] = "audit"]
            \/ job[h].cert # None /\ pc' = [pc EXCEPT ![h] = "match"]
  BY <1>0 DEF Status, Succeeds, Fails, Goto, End
<1>3. TypeOK'
  <2>1. pc' \in [Handlers -> Points] /\ outcome' \in [Handlers -> Outcomes \cup {None}]
    BY <1>2 DEF IInv, TypeOK, Points, Outcomes
  <2> QED
    BY <1>1, <1>f, <2>1 DEF IInv, TypeOK
<1>4. \A t : Of(t)' = Of(t) /\ (Blocked(t)' <=> Blocked(t))
         /\ \A c : Proves(c, t)' <=> Proves(c, t)
  BY <1>1 DEF Of, Active, Blocked, Proves, Binds
<1>5. Of(sn) # {} => (Passes(sn) <=> ~Blocked(sn))
  BY LatestSpeaksForAll DEF IInv, Blocked
<1>6. Passes(sn) => Of(sn) # {}
  BY DEF Passes
<1>7. /\ Forced(h) => Blocked(sn)
      /\ ~cause[h] => ~Blocked(sn) /\ Proves(job[h].cert, sn)
  BY <1>0, <1>1 DEF IInv, Sound, Refusing, Justified
<1>8. Sound(h)'
  <2>1. CASE /\ Of(sn) = {} \/ Faults(h)
             /\ pc' = [pc EXCEPT ![h] = "audit"] /\ outcome' = outcome
    <3>1. pc'[h] = "audit" /\ outcome'[h] = None
      BY <1>1, <2>1 DEF IInv, TypeOK
    <3>2. ~Forced(h)'
      BY <1>1, <1>f, <1>7, <2>1 DEF Blocked, Forced, Spared
    <3> QED
      BY <1>1, <3>1, <3>2, NoneApart DEF IInv, Sound, Begun, Refusing, Justified, OnRecord
  <2>2. CASE /\ Of(sn) # {} /\ ~Passes(sn)
             /\ pc' = [pc EXCEPT ![h] = "done"] /\ outcome' = [outcome EXCEPT ![h] = "refused"]
    <3>1. pc'[h] = "done" /\ outcome'[h] = "refused"
      BY <2>2 DEF IInv, TypeOK
    <3>2. cause[h]
      BY <1>5, <1>7, <2>2
    <3> QED
      BY <1>1, <3>1, <3>2, NoneApart DEF IInv, Sound, Begun, Refusing, Justified, OnRecord
  <2>3. CASE /\ Passes(sn) /\ outcome' = outcome
             /\ \/ pc' = [pc EXCEPT ![h] = "audit"]
                \/ job[h].cert # None /\ pc' = [pc EXCEPT ![h] = "match"]
    <3>1. outcome'[h] = None /\ (pc'[h] = "audit" \/ (pc'[h] = "match" /\ job[h].cert # None))
      BY <1>1, <2>3 DEF IInv, TypeOK
    <3>2. ~Forced(h)'
      BY <1>1, <1>f, <1>5, <1>6, <1>7, <2>3 DEF Forced, Spared
    <3>3. Begun(h)' /\ Refusing(h)' /\ OnRecord(h)'
      BY <1>1, <3>1, <3>2, NoneApart DEF IInv, Sound, Begun, Refusing, OnRecord
    <3>4. Justified(h)'
      BY <1>0, <1>1, <1>4, <1>7, <3>1, NoneApart DEF Justified
    <3> QED
      BY <3>3, <3>4 DEF Sound
  <2> QED
    BY <1>2, <2>1, <2>2, <2>3
<1>9. \A d \in Handlers \ {h} :
         /\ pc'[d] = pc[d] /\ outcome'[d] = outcome[d]
         /\ faulted'[d] = faulted[d]
  BY <1>1, <1>f, <1>2 DEF IInv, TypeOK
<1> QED
  BY <1>1, <1>3, <1>8, <1>9, HandlerStep

LEMMA MatchStep ==
    ASSUME IInv, NEW h \in Handlers, Match(h)
    PROVE  IInv'
<1>0. PICK sn \in Serials : sn = job[h].sn
  BY DEF Match, IInv, Sound, Begun
<1>1. /\ pc[h] = "match" /\ outcome[h] = None /\ job[h].cert # None
      /\ UNCHANGED <<devices, certs, job, audited, mustRefuse, cause>>
      /\ Succeeds \/ Faults(h)
  BY DEF Match, Fails, IInv, Sound, Begun
<1>f. /\ faulted' \in [Handlers -> SUBSET Points] /\ faulted[h] \subseteq faulted'[h]
      /\ Faults(h) => "match" \in faulted'[h]
      /\ \A d \in Handlers \ {h} : faulted'[d] = faulted[d]
  BY <1>1, FaultEffect
<1>2. \/ pc' = [pc EXCEPT ![h] = "audit"] /\ outcome' = outcome
      \/ /\ ~Proves(job[h].cert, sn) \/ Faults(h)
         /\ pc' = [pc EXCEPT ![h] = "done"] /\ outcome' = [outcome EXCEPT ![h] = "refused"]
  BY <1>0, <1>1 DEF Match, Matching, Fails, Goto, End, Proves
<1>3. TypeOK'
  <2>1. pc' \in [Handlers -> Points] /\ outcome' \in [Handlers -> Outcomes \cup {None}]
    BY <1>2 DEF IInv, TypeOK, Points, Outcomes
  <2> QED
    BY <1>1, <1>f, <2>1 DEF IInv, TypeOK
<1>4. ~Forced(h) /\ (~cause[h] => Proves(job[h].cert, sn))
  BY <1>0, <1>1 DEF IInv, Sound, Refusing, Justified
<1>5. Sound(h)'
  <2>1. CASE pc' = [pc EXCEPT ![h] = "audit"] /\ outcome' = outcome
    <3>1. pc'[h] = "audit" /\ outcome'[h] = None
      BY <1>1, <2>1 DEF IInv, TypeOK
    <3> QED
      BY <1>1, <1>f, <1>4, <3>1, NoneApart DEF IInv, Sound, Begun, Refusing, Forced, Justified, OnRecord, Spared
  <2>2. CASE /\ ~Proves(job[h].cert, sn) \/ Faults(h)
             /\ pc' = [pc EXCEPT ![h] = "done"] /\ outcome' = [outcome EXCEPT ![h] = "refused"]
    <3>1. pc'[h] = "done" /\ outcome'[h] = "refused" /\ (cause[h] \/ ~Spared(h, {"match"})')
      BY <1>4, <1>f, <2>2 DEF IInv, TypeOK, Spared
    <3> QED
      BY <1>1, <3>1, NoneApart DEF IInv, Sound, Begun, Refusing, Justified, OnRecord
  <2> QED
    BY <1>2, <2>1, <2>2
<1>6. \A d \in Handlers \ {h} :
         /\ pc'[d] = pc[d] /\ outcome'[d] = outcome[d]
         /\ faulted'[d] = faulted[d]
  BY <1>1, <1>f, <1>2 DEF IInv, TypeOK
<1> QED
  BY <1>1, <1>3, <1>5, <1>6, HandlerStep

LEMMA AuditStep ==
    ASSUME IInv, NEW h \in Handlers, Audit(h)
    PROVE  IInv'
<1>1. /\ pc[h] = "audit" /\ outcome[h] = None
      /\ pc' = [pc EXCEPT ![h] = "exists"] /\ outcome' = outcome
      /\ UNCHANGED <<devices, certs, job, faulted, mustRefuse, cause>>
      /\ audited' = audited \/ audited' = audited \cup {h}
  BY DEF Audit, Goto, IInv, Sound, Begun
<1>2. TypeOK'
  BY <1>1 DEF IInv, TypeOK, Points
<1>3. pc'[h] = "exists" /\ ~Forced(h)
  BY <1>1 DEF IInv, TypeOK, Sound, Refusing
<1>4. Sound(h)'
  BY <1>1, <1>3, NoneApart DEF IInv, Sound, Begun, Refusing, Forced, Justified, OnRecord, Spared
<1>5. \A d \in Handlers \ {h} : pc'[d] = pc[d] /\ faulted'[d] = faulted[d]
  BY <1>1 DEF IInv, TypeOK
<1> QED
  BY <1>1, <1>2, <1>4, <1>5, HandlerStep

\* Where register_device leaves its caller.
LEMMA AfterDeviceEffect ==
    ASSUME IInv, NEW h \in Handlers, pc[h] # "idle", NEW ok \in BOOLEAN, AfterDevice(h, ok)
    PROVE  /\ pc' \in [Handlers -> Points] /\ outcome' \in [Handlers -> Outcomes \cup {None}]
           /\ \A d \in Handlers \ {h} : pc'[d] = pc[d] /\ outcome'[d] = outcome[d]
           /\ \/ pc'[h] = "done" /\ outcome'[h] = "admitted" /\ job[h].kind = "known"
              \/ pc'[h] \in {"sign", "issue"} /\ outcome'[h] = outcome[h]
              \/ pc'[h] = "done" /\ outcome'[h] = "error"
<1>1. pc \in [Handlers -> Points] /\ outcome \in [Handlers -> Outcomes \cup {None}]
  BY DEF IInv, TypeOK
<1>2. job[h].kind \in {"known", "first", "rest"}
  BY DEF IInv, Sound, Begun, Kinds
<1>3. CASE job[h].kind = "known"
  BY <1>1, <1>3 DEF AfterDevice, End, Points, Outcomes
<1>4. CASE job[h].kind = "first"
  BY <1>1, <1>4 DEF AfterDevice, Goto, Points
<1>5. CASE job[h].kind = "rest"
  BY <1>1, <1>5 DEF AfterDevice, End, Goto, Points, Outcomes
<1> QED
  BY <1>2, <1>3, <1>4, <1>5

\* It leaves a handler for a first device with a row, or with a failure.
LEMMA AfterDeviceSound ==
    ASSUME IInv, NEW h \in Handlers, pc[h] \in {"exists", "update", "insert"},
           NEW ok \in BOOLEAN, AfterDevice(h, ok),
           UNCHANGED <<job, mustRefuse, cause>>,
           faulted[h] \subseteq faulted'[h],
           NEW sn \in Serials, sn = job[h].sn,
           devices'[sn] # "absent" \/ ~Spared(h, {"exists", "insert"})'
    PROVE  Sound(h)'
<1>1. outcome[h] = None /\ ~Forced(h)'
  BY DEF IInv, Sound, Begun, Refusing, Forced, Spared
<1>2. \/ pc'[h] = "done" /\ outcome'[h] = "admitted" /\ job[h].kind = "known"
      \/ pc'[h] \in {"sign", "issue"} /\ outcome'[h] = None
      \/ pc'[h] = "done" /\ outcome'[h] = "error"
  BY <1>1, AfterDeviceEffect
<1>3. Begun(h)' /\ Refusing(h)' /\ Justified(h)'
  BY <1>1, <1>2, NoneApart DEF IInv, Sound, Begun, Refusing, Justified
<1>4. OnRecord(h)'
  BY <1>2, NoneApart DEF OnRecord, Spared
<1> QED
  BY <1>3, <1>4 DEF Sound

LEMMA ExistsStep ==
    ASSUME IInv, NEW h \in Handlers, Exists(h)
    PROVE  IInv'
<1>0. PICK sn \in Serials : sn = job[h].sn
  BY DEF Exists, IInv, Sound, Begun
<1>1. /\ pc[h] = "exists" /\ outcome[h] = None
      /\ UNCHANGED <<devices, certs, job, audited, mustRefuse, cause>>
      /\ Succeeds \/ Faults(h)
  BY DEF Exists, Fails, IInv, Sound, Begun
<1>f. /\ faulted' \in [Handlers -> SUBSET Points] /\ faulted[h] \subseteq faulted'[h]
      /\ Faults(h) => "exists" \in faulted'[h]
      /\ \A d \in Handlers \ {h} : faulted'[d] = faulted[d]
  BY <1>1, FaultEffect
<1>2. ~Forced(h)
  BY <1>1 DEF IInv, Sound, Refusing
<1>3. CASE /\ outcome' = outcome
           /\ \/ pc' = [pc EXCEPT ![h] = "insert"]
              \/ devices[sn] # "absent" /\ pc' = [pc EXCEPT ![h] = "update"]
  <2>1. TypeOK'
    <3>1. pc' \in [Handlers -> Points]
      BY <1>3 DEF IInv, TypeOK, Points
    <3> QED
      BY <1>1, <1>f, <1>3, <3>1 DEF IInv, TypeOK
  <2>2. pc'[h] = "insert" \/ (pc'[h] = "update" /\ devices[sn] # "absent")
    BY <1>3 DEF IInv, TypeOK
  <2>3. Sound(h)'
    BY <1>0, <1>1, <1>f, <1>2, <1>3, <2>2, NoneApart
    DEF IInv, Sound, Begun, Refusing, Forced, Justified, OnRecord, Spared
  <2>4. \A d \in Handlers \ {h} :
           pc'[d] = pc[d] /\ outcome'[d] = outcome[d] /\ faulted'[d] = faulted[d]
    BY <1>1, <1>f, <1>3 DEF IInv, TypeOK
  <2> QED
    BY <1>1, <2>1, <2>3, <2>4, HandlerStep
<1>4. CASE AfterDevice(h, FALSE) /\ Faults(h)
  <2>1. /\ pc' \in [Handlers -> Points] /\ outcome' \in [Handlers -> Outcomes \cup {None}]
        /\ \A d \in Handlers \ {h} : pc'[d] = pc[d] /\ outcome'[d] = outcome[d]
    BY <1>1, <1>4, AfterDeviceEffect
  <2>2. TypeOK'
    BY <1>1, <1>f, <2>1 DEF IInv, TypeOK
  <2>3. Sound(h)'
    BY <1>0, <1>1, <1>f, <1>4, AfterDeviceSound DEF Spared
  <2> QED
    BY <1>1, <1>f, <2>1, <2>2, <2>3, HandlerStep
<1> QED
  BY <1>0, <1>3, <1>4 DEF Exists, Goto, Fails

LEMMA UpdateStep ==
    ASSUME IInv, NEW h \in Handlers, Update(h)
    PROVE  IInv'
<1>0. PICK sn \in Serials : sn = job[h].sn
  BY DEF Update, IInv, Sound, Begun
<1>1. /\ pc[h] = "update" /\ outcome[h] = None
      /\ UNCHANGED <<devices, certs, job, audited, faulted, mustRefuse, cause>>
  BY DEF Update, IInv, Sound, Begun
<1>2. PICK ok \in BOOLEAN : AfterDevice(h, ok)
  BY DEF Update
<1>3. devices'[sn] # "absent"
  BY <1>0, <1>1 DEF IInv, Sound, OnRecord
<1>4. /\ pc' \in [Handlers -> Points] /\ outcome' \in [Handlers -> Outcomes \cup {None}]
      /\ \A d \in Handlers \ {h} : pc'[d] = pc[d] /\ outcome'[d] = outcome[d]
  BY <1>1, <1>2, AfterDeviceEffect
<1>5. TypeOK'
  BY <1>1, <1>4 DEF IInv, TypeOK
<1>6. Sound(h)'
  BY <1>0, <1>1, <1>2, <1>3, AfterDeviceSound
<1> QED
  BY <1>1, <1>4, <1>5, <1>6, HandlerStep

LEMMA InsertStep ==
    ASSUME IInv, NEW h \in Handlers, Insert(h)
    PROVE  IInv'
<1>0. PICK sn \in Serials : sn = job[h].sn
  BY DEF Insert, IInv, Sound, Begun
<1>1. /\ pc[h] = "insert" /\ outcome[h] = None
      /\ UNCHANGED <<certs, job, audited, mustRefuse, cause>>
      /\ Succeeds \/ Faults(h)
      /\ \/ devices[sn] = "absent" /\ devices' = [devices EXCEPT ![sn] = "active"]
         \/ devices' = devices /\ (devices[sn] # "absent" \/ Faults(h))
  BY <1>0 DEF Insert, Fails, IInv, Sound, Begun
<1>f. /\ faulted' \in [Handlers -> SUBSET Points] /\ faulted[h] \subseteq faulted'[h]
      /\ Faults(h) => "insert" \in faulted'[h]
      /\ \A d \in Handlers \ {h} : faulted'[d] = faulted[d]
  BY <1>1, FaultEffect
<1>2. PICK ok \in BOOLEAN : AfterDevice(h, ok)
  BY DEF Insert
<1>3. /\ devices' \in [Serials -> {"absent", "active", "inactive"}]
      /\ devices'[sn] # "absent" \/ ~Spared(h, {"exists", "insert"})'
      /\ \A t \in Serials : devices[t] # "absent" => devices'[t] = devices[t]
      /\ \A t \in Serials : devices'[t] = "inactive" => devices[t] = "inactive"
  BY <1>1, <1>f DEF IInv, TypeOK, Spared
<1>4. /\ pc' \in [Handlers -> Points] /\ outcome' \in [Handlers -> Outcomes \cup {None}]
      /\ \A d \in Handlers \ {h} : pc'[d] = pc[d] /\ outcome'[d] = outcome[d]
  BY <1>1, <1>2, AfterDeviceEffect
<1>5. TypeOK' /\ HasLatest' /\ Ordered'
  <2>1. TypeOK'
    BY <1>1, <1>f, <1>3, <1>4 DEF IInv, TypeOK
  <2>2. HasLatest' /\ Ordered'
    BY <1>1 DEF IInv, HasLatest, Ordered, Of
  <2> QED
    BY <2>1, <2>2
<1>6. Sound(h)'
  BY <1>0, <1>1, <1>f, <1>2, <1>3, AfterDeviceSound
<1>7. \A t : Of(t)' = Of(t) /\ Active(t)' = Active(t) /\ (Blocked(t)' <=> Blocked(t))
         /\ \A c : Binds(c, t)' <=> Binds(c, t)
  BY <1>1 DEF Of, Active, Blocked, Binds
<1>8. ASSUME NEW d \in Handlers \ {h} PROVE Sound(d)'
  <2>1. Sound(d) /\ pc'[d] = pc[d] /\ outcome'[d] = outcome[d] /\ faulted'[d] = faulted[d]
    BY <1>1, <1>f, <1>4 DEF IInv
  <2> QED
    BY <2>1, <1>1, <1>3, <1>7, Untouched
<1> QED
  BY <1>5, <1>6, <1>8 DEF IInv

LEMMA SignStep ==
    ASSUME IInv, NEW h \in Handlers, Sign(h)
    PROVE  IInv'
<1>1. /\ pc[h] = "sign" /\ outcome[h] = None
      /\ UNCHANGED <<devices, certs, job, audited, mustRefuse, cause>>
      /\ Succeeds \/ Faults(h)
  BY DEF Sign, IInv, Sound, Begun
<1>f. /\ faulted' \in [Handlers -> SUBSET Points] /\ faulted[h] \subseteq faulted'[h]
      /\ Faults(h) => "sign" \in faulted'[h]
      /\ \A d \in Handlers \ {h} : faulted'[d] = faulted[d]
  BY <1>1, FaultEffect
<1>2. ~Forced(h)'
  BY <1>1, <1>f DEF IInv, Sound, Refusing, Forced, Spared
<1>3. CASE /\ outcome' = outcome
           /\ pc' = [pc EXCEPT ![h] = IF job[h].kind = "first" THEN "exists" ELSE "issue"]
  <2>1. TypeOK'
    <3>1. pc' \in [Handlers -> Points]
      BY <1>3 DEF IInv, TypeOK, Points
    <3> QED
      BY <1>1, <1>f, <1>3, <3>1 DEF IInv, TypeOK
  <2>2. outcome'[h] = None /\ (pc'[h] = "exists" \/ (pc'[h] = "issue" /\ job[h].kind # "first"))
    BY <1>1, <1>3 DEF IInv, TypeOK
  <2>3. Sound(h)'
    BY <1>1, <1>f, <1>2, <2>2, NoneApart
    DEF IInv, Sound, Begun, Refusing, Justified, OnRecord, Spared
  <2>4. \A d \in Handlers \ {h} : pc'[d] = pc[d] /\ outcome'[d] = outcome[d]
    BY <1>3 DEF IInv, TypeOK
  <2> QED
    BY <1>1, <1>f, <2>1, <2>3, <2>4, HandlerStep
<1>4. CASE Faults(h) /\ End(h, IF job[h].kind = "first" THEN "admitted" ELSE "error")
  <2>1. PICK o \in {"admitted", "error"} :
           pc' = [pc EXCEPT ![h] = "done"] /\ outcome' = [outcome EXCEPT ![h] = o]
    BY <1>4 DEF End
  <2>2. pc' \in [Handlers -> Points] /\ outcome' \in [Handlers -> Outcomes \cup {None}]
        /\ pc'[h] = "done" /\ outcome'[h] = o /\ o # None /\ o # "refused"
        /\ \A d \in Handlers \ {h} : pc'[d] = pc[d] /\ outcome'[d] = outcome[d]
    BY <2>1, NoneApart DEF IInv, TypeOK, Points, Outcomes
  <2>3. TypeOK'
    BY <1>1, <1>f, <2>2 DEF IInv, TypeOK
  <2>4. Sound(h)'
    BY <1>1, <1>f, <1>2, <1>4, <2>2, NoneApart
    DEF IInv, Sound, Begun, Refusing, Justified, OnRecord, Spared
  <2> QED
    BY <1>1, <1>f, <2>2, <2>3, <2>4, HandlerStep
<1> QED
  BY <1>3, <1>4 DEF Sign, Goto

LEMMA IssueStep ==
    ASSUME IInv, NEW h \in Handlers, Issue(h)
    PROVE  IInv'
<1>0. PICK sn \in Serials : sn = job[h].sn
  BY DEF Issue, IInv, Sound, Begun
<1>1. /\ pc[h] = "issue" /\ outcome[h] = None
      /\ UNCHANGED <<devices, job, audited, cause>>
      /\ Succeeds \/ Faults(h)
  BY DEF Issue, Fails, IInv, Sound, Begun
<1>f. /\ faulted' \in [Handlers -> SUBSET Points] /\ faulted[h] \subseteq faulted'[h]
      /\ Faults(h) => "issue" \in faulted'[h]
      /\ \A d \in Handlers \ {h} : faulted'[d] = faulted[d]
  BY <1>1, FaultEffect
<1>2. PICK o \in {"admitted", "stored", "error"} :
         pc' = [pc EXCEPT ![h] = "done"] /\ outcome' = [outcome EXCEPT ![h] = o]
  <2>1. \E o \in {"admitted", "stored", "error"} : End(h, o)
    BY DEF Issue
  <2> QED
    BY <2>1 DEF End
<1>3. pc' \in [Handlers -> Points] /\ outcome' \in [Handlers -> Outcomes \cup {None}]
      /\ pc'[h] = "done" /\ outcome'[h] = o /\ o # None /\ o # "refused"
      /\ \A d \in Handlers \ {h} :
            pc'[d] = pc[d] /\ outcome'[d] = outcome[d] /\ faulted'[d] = faulted[d]
  BY <1>1, <1>f, <1>2, NoneApart DEF IInv, TypeOK, Points, Outcomes
<1>4. ~Forced(h)
  BY <1>1 DEF IInv, Sound, Refusing
<1>5. CASE /\ devices[sn] # "absent" /\ certs' = Append(certs, RowOf(h)) /\ faulted' = faulted
           /\ mustRefuse' = [g \in Handlers |-> mustRefuse[g] /\ g \notin Running(sn)]
  <2>1. RowOf(h) \in Rows /\ RowOf(h).sn = sn /\ RowOf(h).status = "active"
    BY <1>0 DEF RowOf, BoundTo, Rows
  <2>2. /\ certs' \in Seq(Rows) /\ HasLatest' /\ Ordered'
        /\ \A t : /\ Of(t) \subseteq Of(t)' /\ Active(t) \subseteq Active(t)'
                  /\ t # sn => Of(t)' = Of(t) /\ Active(t)' = Active(t)
                  /\ t = sn => Active(t)' # {}
                  /\ \A c : Binds(c, t) => Binds(c, t)'
    BY <1>5, <2>1, AddRow DEF IInv
  <2>3. mustRefuse' \in [Handlers -> BOOLEAN]
        /\ \A d \in Handlers : mustRefuse'[d] => mustRefuse[d] /\ d \notin Running(sn)
    BY <1>5
  <2>4. TypeOK'
    BY <1>1, <1>f, <1>3, <2>2, <2>3 DEF IInv, TypeOK, Rows
  <2>5. Sound(h)'
    <3>1. Of(sn)' # {}
      BY <2>2 DEF Active
    <3>2. Begun(h)' /\ Refusing(h)' /\ Justified(h)'
      BY <1>1, <1>3, <1>f, <1>4, <1>5, <2>3, NoneApart
      DEF IInv, Sound, Begun, Refusing, Forced, Justified, Spared
    <3>3. OnRecord(h)'
      BY <1>0, <1>1, <1>3, <1>5, <3>1 DEF OnRecord
    <3> QED
      BY <3>2, <3>3 DEF Sound
  <2>6. ASSUME NEW d \in Handlers \ {h} PROVE Sound(d)'
    <3>1. Sound(d) /\ (mustRefuse'[d] => mustRefuse[d])
      BY <2>3 DEF IInv
    <3>2. \A t \in Serials : d \in Running(t) /\ mustRefuse'[d] /\ Blocked(t) => Blocked(t)'
      <4> SUFFICES ASSUME NEW t \in Serials, d \in Running(t), mustRefuse'[d], Blocked(t)
                   PROVE  Blocked(t)'
        OBVIOUS
      <4>1. t # sn
        BY <2>3
      <4> QED
        BY <4>1, <2>2 DEF Blocked
    <3>3. \A t \in Serials : /\ Active(t) \subseteq Active(t)' /\ (Blocked(t)' => Blocked(t))
                             /\ Of(t) # {} => Of(t)' # {}
      BY <2>2 DEF Blocked
    <3>4. /\ pc'[d] = pc[d] /\ job'[d] = job[d] /\ outcome'[d] = outcome[d]
          /\ faulted'[d] = faulted[d] /\ (cause[d] => cause'[d])
      BY <1>1, <1>3
    <3>5. \A t \in Serials : devices[t] # "absent" => devices'[t] # "absent"
      BY <1>1
    <3>6. \A t \in Serials :
             d \in Running(t) /\ ~cause'[d] =>
                /\ Active(t) \subseteq Active(t)'
                /\ Blocked(t)' => Blocked(t)
                /\ devices'[t] = "inactive" => devices[t] = "inactive"
      <4>1. devices' = devices
        BY <1>1
      <4> QED
        BY <3>3, <4>1
    <3>7. \A t \in Serials : Of(t) # {} => Of(t)' # {}
      BY <3>3
    <3>8. d \in Handlers /\ \A c, t : Binds(c, t) => Binds(c, t)'
      BY <2>2
    <3> QED
      BY <3>1, <3>2, <3>4, <3>5, <3>6, <3>7, <3>8, Untouched
  <2> QED
    BY <2>2, <2>4, <2>5, <2>6 DEF IInv
<1>6. CASE devices[sn] = "absent" \/ Faults(h)
  <2>1. CASE UNCHANGED <<certs, mustRefuse>>
    <3>1. TypeOK'
      BY <1>1, <1>f, <1>3, <2>1 DEF IInv, TypeOK
    <3>2. Begun(h)' /\ Refusing(h)' /\ Justified(h)'
      BY <1>1, <1>3, <1>f, <1>4, <2>1, NoneApart
      DEF IInv, Sound, Begun, Refusing, Forced, Justified, Spared
    <3>3. OnRecord(h)'
      BY <1>0, <1>1, <1>f, <1>3, <1>6 DEF IInv, Sound, OnRecord, Spared
    <3>4. Sound(h)'
      BY <3>2, <3>3 DEF Sound
    <3> QED
      BY <1>1, <1>3, <2>1, <3>1, <3>4, HandlerStep
  <2> QED
    BY <1>0, <1>5, <1>6, <2>1 DEF Issue, Succeeds
<1> QED
  BY <1>0, <1>5, <1>6 DEF Issue, Succeeds, Fails

LEMMA BlockStep ==
    ASSUME IInv, NEW s \in Serials, Block(s)
    PROVE  IInv'
<1>1. /\ SetStatus(s, "active", "blocked")
      /\ cause' = [h \in Handlers |-> cause[h] \/ h \in Running(s)]
      /\ UNCHANGED <<devices, pc, job, audited, outcome, faulted, mustRefuse>>
  BY DEF Block
<1>2. /\ certs' \in Seq(Rows) /\ HasLatest' /\ Ordered'
      /\ \A t : Of(t)' = Of(t) /\ \A c : Binds(c, t) => Binds(c, t)'
      /\ \A t : t # s => Active(t)' = Active(t)
      /\ Active(s)' = {}
  BY <1>1, ChangeRows DEF IInv
<1>3. cause' \in [Handlers -> BOOLEAN]
      /\ \A d \in Handlers : (cause[d] => cause'[d]) /\ (~cause'[d] => d \notin Running(s))
  BY <1>1
<1>4. TypeOK'
  BY <1>1, <1>2, <1>3 DEF IInv, TypeOK, Rows
<1>5. ASSUME NEW d \in Handlers PROVE Sound(d)'
  <2>1. Sound(d) /\ (cause[d] => cause'[d])
    BY <1>3 DEF IInv
  <2>2. \A t \in Serials : Blocked(t) => Blocked(t)'
    BY <1>2 DEF Blocked
  <2>3. \A t \in Serials :
           d \in Running(t) /\ ~cause'[d] =>
              Active(t) \subseteq Active(t)' /\ (Blocked(t)' => Blocked(t))
    <3> SUFFICES ASSUME NEW t \in Serials, d \in Running(t), ~cause'[d]
                 PROVE  Active(t) \subseteq Active(t)' /\ (Blocked(t)' => Blocked(t))
      OBVIOUS
    <3>1. t # s
      BY <1>3
    <3> QED
      BY <3>1, <1>2 DEF Blocked
  <2> QED
    BY <1>1, <1>2, <2>1, <2>2, <2>3, Untouched
<1> QED
  BY <1>2, <1>4, <1>5 DEF IInv

LEMMA UnblockStep ==
    ASSUME IInv, NEW s \in Serials, Unblock(s)
    PROVE  IInv'
<1>1. /\ SetStatus(s, "blocked", "active")
      /\ mustRefuse' = [h \in Handlers |-> mustRefuse[h] /\ h \notin Running(s)]
      /\ UNCHANGED <<devices, pc, job, audited, outcome, faulted, cause>>
  BY DEF Unblock
<1>2. /\ certs' \in Seq(Rows) /\ HasLatest' /\ Ordered'
      /\ \A t : Of(t)' = Of(t) /\ \A c : Binds(c, t) => Binds(c, t)'
      /\ \A t : t # s => Active(t)' = Active(t)
      /\ Active(s)' = Of(s)
  BY <1>1, ChangeRows DEF IInv
<1>3. mustRefuse' \in [Handlers -> BOOLEAN]
      /\ \A d \in Handlers : mustRefuse'[d] => mustRefuse[d] /\ d \notin Running(s)
  BY <1>1
<1>4. TypeOK'
  BY <1>1, <1>2, <1>3 DEF IInv, TypeOK, Rows
<1>5. ASSUME NEW d \in Handlers PROVE Sound(d)'
  <2>1. Sound(d) /\ (mustRefuse'[d] => mustRefuse[d])
    BY <1>3 DEF IInv
  <2>2. \A t \in Serials : d \in Running(t) /\ mustRefuse'[d] /\ Blocked(t) => Blocked(t)'
    <3> SUFFICES ASSUME NEW t \in Serials, d \in Running(t), mustRefuse'[d], Blocked(t)
                 PROVE  Blocked(t)'
      OBVIOUS
    <3>1. t # s
      BY <1>3
    <3> QED
      BY <3>1, <1>2 DEF Blocked
  <2>3. \A t \in Serials : Active(t) \subseteq Active(t)' /\ (Blocked(t)' => Blocked(t))
    BY <1>2 DEF Blocked, Active
  <2> QED
    BY <1>1, <1>2, <2>1, <2>2, <2>3, Untouched
<1> QED
  BY <1>2, <1>4, <1>5 DEF IInv

LEMMA DeactivateStep ==
    ASSUME IInv, NEW s \in Serials, Deactivate(s)
    PROVE  IInv'
<1>1. /\ devices[s] = "active"
      /\ devices' = [devices EXCEPT ![s] = "inactive"]
      /\ cause' = [h \in Handlers |-> cause[h] \/ h \in Running(s)]
      /\ UNCHANGED <<certs, pc, job, audited, outcome, faulted, mustRefuse>>
  BY DEF Deactivate
<1>2. /\ devices' \in [Serials -> {"absent", "active", "inactive"}]
      /\ \A t \in Serials : devices[t] # "absent" => devices'[t] # "absent"
      /\ \A t \in Serials : t # s => devices'[t] = devices[t]
  BY <1>1 DEF IInv, TypeOK
<1>3. cause' \in [Handlers -> BOOLEAN]
      /\ \A d \in Handlers : (cause[d] => cause'[d]) /\ (~cause'[d] => d \notin Running(s))
  BY <1>1
<1>4. TypeOK' /\ HasLatest' /\ Ordered'
  <2>1. TypeOK'
    BY <1>1, <1>2, <1>3 DEF IInv, TypeOK
  <2>2. HasLatest' /\ Ordered'
    BY <1>1 DEF IInv, HasLatest, Ordered, Of
  <2> QED
    BY <2>1, <2>2
<1>5. \A t : Of(t)' = Of(t) /\ Active(t)' = Active(t) /\ (Blocked(t)' <=> Blocked(t))
         /\ \A c : Binds(c, t)' <=> Binds(c, t)
  BY <1>1 DEF Of, Active, Blocked, Binds
<1>6. ASSUME NEW d \in Handlers PROVE Sound(d)'
  <2>1. Sound(d) /\ (cause[d] => cause'[d])
    BY <1>3 DEF IInv
  <2>2. \A t \in Serials :
           d \in Running(t) /\ ~cause'[d] => (devices'[t] = "inactive" => devices[t] = "inactive")
    BY <1>2, <1>3
  <2> QED
    BY <1>1, <1>2, <1>5, <2>1, <2>2, Untouched
<1> QED
  BY <1>4, <1>6 DEF IInv

LEMMA NextIInv == IInv /\ [Next]_vars => IInv'
<1> SUFFICES ASSUME IInv, [Next]_vars PROVE IInv'
  OBVIOUS
<1>1. ASSUME NEW h \in Handlers, NEW sn \in Serials,
             \/ \E c \in Shown : Register(h, sn, c)
             \/ RestRegister(h, sn) \/ RestIssue(h, sn)
      PROVE  IInv'
  BY <1>1, RegisterStep, RestStep
<1>2. ASSUME NEW h \in Handlers, Lookup(h) \/ Status(h) \/ Match(h) \/ Audit(h)
      PROVE  IInv'
  BY <1>2, LookupStep, StatusStep, MatchStep, AuditStep
<1>3. ASSUME NEW h \in Handlers, Exists(h) \/ Update(h) \/ Insert(h) \/ Sign(h) \/ Issue(h)
      PROVE  IInv'
  BY <1>3, ExistsStep, UpdateStep, InsertStep, SignStep, IssueStep
<1>4. ASSUME NEW sn \in Serials, Block(sn) \/ Unblock(sn) \/ Deactivate(sn)
      PROVE  IInv'
  BY <1>4, BlockStep, UnblockStep, DeactivateStep
<1>5. ASSUME UNCHANGED vars
      PROVE  IInv'
  <2>1. TypeOK'
    BY <1>5 DEF vars, IInv, TypeOK
  <2>2. HasLatest' /\ Ordered'
    BY <1>5 DEF vars, IInv, HasLatest, Ordered, Of
  <2>3. \A t : Of(t)' = Of(t) /\ Active(t)' = Active(t) /\ (Blocked(t)' <=> Blocked(t))
           /\ \A c : Binds(c, t)' <=> Binds(c, t)
    BY <1>5 DEF vars, Of, Active, Blocked, Binds
  <2>4. \A d \in Handlers : Sound(d)'
    BY <1>5, <2>3, Untouched DEF vars, IInv
  <2> QED
    BY <2>1, <2>2, <2>4 DEF IInv
<1> QED
  BY <1>1, <1>2, <1>3, <1>4, <1>5 DEF Next, Finished

\* The invariant holds in every reachable state.
THEOREM Inductive == Spec => []IInv
  BY InitIInv, NextIInv, PTL DEF Spec

\* Every variable keeps its type: no statement writes a status or a point that
\* another does not know.
THEOREM TypeCorrect == Spec => []TypeOK
<1>1. IInv => TypeOK
  BY DEF IInv
<1> QED
  BY <1>1, Inductive, PTL

\* A serial whose newest certificate is blocked has no active one.
THEOREM NewestDecides == Spec => []LatestDecides
<1>1. IInv => LatestDecides
  BY LatestSpeaksForAll DEF IInv, LatestDecides, Passes
<1> QED
  BY <1>1, Inductive, PTL

\* A device that was blocked when its Register began, and has been neither
\* unblocked nor issued a certificate since, is not admitted, unless the handler
\* failed to read the device or the status of its certificates.
THEOREM BlocksStand == Spec => []BlockStands
<1>1. IInv => BlockStands
  BY DEF IInv, Sound, Refusing, Forced, BlockStands
<1> QED
  BY <1>1, Inductive, PTL

\* Nobody is refused without a cause that arose since its Register began, unless
\* the handler failed to read the active certificates.
THEOREM RefusalsHaveCause == Spec => []RefusalHasCause
<1>1. IInv => RefusalHasCause
  BY DEF IInv, Sound, Justified, RefusalHasCause
<1> QED
  BY <1>1, Inductive, PTL

\* A first device that was admitted has its row and a certificate, whoever else
\* raced for the same row and whatever failed for others, unless its own
\* signature, row or certificate failed.
THEOREM AdmittedAreRecorded == Spec => []AdmittedIsRecorded
<1>1. IInv => AdmittedIsRecorded
  <2> SUFFICES ASSUME IInv, NEW h \in Handlers,
                      outcome[h] = "admitted", job[h].kind = "first",
                      Spared(h, {"sign", "exists", "insert", "issue"})
               PROVE  Recorded(job[h].sn)
    BY DEF AdmittedIsRecorded
  <2>1. pc[h] = "done" /\ job[h].sn \in Serials
    BY NoneApart DEF IInv, Sound, Begun
  <2> QED
    BY <2>1 DEF IInv, Sound, OnRecord, Recorded
<1> QED
  BY <1>1, Inductive, PTL

=============================================================================
