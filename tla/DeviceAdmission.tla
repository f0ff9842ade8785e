--------------------------- MODULE DeviceAdmission ---------------------------
(***************************************************************************)
(* Who is admitted: the Register handler of server/src/signaling.rs with   *)
(* the REST handlers of api.rs that work on the same two tables, devices   *)
(* (device_registry) and certs (certificates), through db.rs.              *)
(*                                                                         *)
(* Each SQL statement is one atomic step and there are no transactions     *)
(* around several, so the handlers interleave between any two statements.  *)
(* A serial stands for its peer id too (the id is a hash of the serial).   *)
(***************************************************************************)
EXTENDS Naturals, Sequences

CONSTANTS
    Handlers,   \* requests in the server, of either kind; each runs once
    Serials,    \* serial numbers of devices
    DbFails,    \* may a statement fail (pool exhausted, connection lost)?
    CaFails,    \* may the authority fail to sign (a stored row it cannot parse)?
    Unrecorded, \* a certificate that names the device and is in no row: its
                \* INSERT failed, or an earlier database held it
    None        \* no certificate presented; no value

Kinds == {"known", "first", "rest"}
Points == {"idle", "lookup", "status", "match", "audit", "exists", "update",
           "insert", "sign", "issue", "done"}
Outcomes == {"admitted", "refused", "stored", "error"}

ASSUME NoneAssumption ==
    None \notin Handlers \cup Serials \cup Nat \cup Kinds \cup Outcomes
ASSUME UnrecordedAssumption == Unrecorded \notin Nat \cup {None}
ASSUME FailsAssumption == DbFails \in BOOLEAN /\ CaFails \in BOOLEAN

VARIABLES
    devices,    \* serial -> "absent", or the row's active flag
    certs,      \* rows of certificates in the order of issued_at
    pc,         \* next statement of each handler
    job,        \* what each handler works on: kind, serial, certificate shown
    audited,    \* handlers that wrote their audit_log row
    outcome,    \* how each handler ended
    faulted,    \* history: the points at which a step of each handler failed
    mustRefuse, \* history: the device has been blocked since the handler began
    cause       \* history: something justified a refusal of the handler

vars == <<devices, certs, pc, job, audited, outcome, faulted, mustRefuse,
          cause>>

-----------------------------------------------------------------------------
Foreign == 0   \* a certificate that is not in the table and names no device

Of(sn) == {i \in DOMAIN certs : certs[i].sn = sn}
Active(sn) == {i \in Of(sn) : certs[i].status = "active"}

\* ORDER BY issued_at DESC LIMIT 1
Latest(sn) == CHOOSE i \in Of(sn) : \A j \in Of(sn) : j <= i

\* ca.rs binds a certificate to the serial and the peer id it is given.  The
\* REST handlers pass the serial number as the peer id and the MAC address as
\* the serial.
BoundTo(kind, sn) == IF kind = "rest" THEN None ELSE sn

Init ==
    /\ devices = [sn \in Serials |-> "absent"]
    /\ certs = <<>>
    /\ pc = [h \in Handlers |-> "idle"]
    /\ job = [h \in Handlers |-> [kind |-> None, sn |-> None, cert |-> None]]
    /\ audited = {}
    /\ outcome = [h \in Handlers |-> None]
    /\ faulted = [h \in Handlers |-> {}]
    /\ mustRefuse = [h \in Handlers |-> FALSE]
    /\ cause = [h \in Handlers |-> FALSE]

Goto(h, p) == pc' = [pc EXCEPT ![h] = p] /\ UNCHANGED outcome
End(h, o) ==
    /\ pc' = [pc EXCEPT ![h] = "done"]
    /\ outcome' = [outcome EXCEPT ![h] = o]

\* Whether a step of h succeeds.  (A failure of Audit or Update is on no record:
\* neither the verdict nor the two tables depend on it.)
Succeeds == UNCHANGED faulted
Faults(h) == faulted' = [faulted EXCEPT ![h] = @ \cup {pc[h]}]
Fails(h) == DbFails /\ Faults(h)

\* The handlers that work on sn now.
Running(sn) == {h \in Handlers : pc[h] \notin {"idle", "done"} /\ job[h].sn = sn}

-----------------------------------------------------------------------------
(* Register over the signaling socket.                                     *)

Blocked(sn) == Of(sn) # {} /\ Active(sn) = {}

\* What a client may show: nothing, or a certificate that is foreign, that names
\* its device but is not in the table, or that is one of the table.
Shown == {None, Foreign, Unrecorded} \cup DOMAIN certs

\* verify_device_binding: only the subject is read, no row and no signature.
Binds(c, sn) == c = Unrecorded \/ (c \in DOMAIN certs /\ certs[c].bound = sn)

Register(h, sn, c) ==
    /\ pc[h] = "idle"
    /\ c \in Shown
    /\ job' = [job EXCEPT ![h] = [kind |-> "known", sn |-> sn, cert |-> c]]
    /\ mustRefuse' = [mustRefuse EXCEPT ![h] = devices[sn] = "active" /\ Blocked(sn)]
    /\ cause' = [cause EXCEPT ![h] =
                    \/ devices[sn] = "inactive" \/ Blocked(sn)
                    \/ c \notin {None} \cup Active(sn) /\ ~Binds(c, sn)]
    /\ Goto(h, "lookup")
    /\ UNCHANGED <<devices, certs, audited, faulted>>

\* get_device_by_sn; an error counts as no row (.ok().flatten()).
Lookup(h) ==
    /\ pc[h] = "lookup"
    /\ \/ /\ (devices[job[h].sn] = "absent" /\ Succeeds) \/ Fails(h)
          /\ job' = [job EXCEPT ![h].kind = "first"]
          /\ Goto(h, "sign")
       \/ /\ devices[job[h].sn] = "inactive"
          /\ End(h, "refused")
          /\ Succeeds /\ UNCHANGED job
       \/ /\ devices[job[h].sn] = "active"
          /\ Goto(h, "status")
          /\ Succeeds /\ UNCHANGED job
    /\ UNCHANGED <<devices, certs, audited, mustRefuse, cause>>

\* Bug: a blocked certificate is let through like an active one.
PassesAny(sn) == Of(sn) # {}

\* get_certificate_status: the newest certificate decides.
Passes(sn) == Of(sn) # {} /\ certs[Latest(sn)].status = "active"

Status(h) ==
    /\ pc[h] = "status"
    /\ LET sn == job[h].sn
       IN  \/ ((Of(sn) = {} /\ Succeeds) \/ Fails(h)) /\ Goto(h, "audit")
           \/ Of(sn) # {} /\ ~Passes(sn) /\ Succeeds /\ End(h, "refused")
           \/ /\ Passes(sn) /\ Succeeds
              /\ Goto(h, IF job[h].cert = None THEN "audit" ELSE "match")
    /\ UNCHANGED <<devices, certs, job, audited, mustRefuse, cause>>

\* Bug: only the newest certificate is compared with the one shown.
MatchingLatest(sn) == {i \in Active(sn) : i = Latest(sn)}

\* get_active_certificates: any of them may match the one shown.
Matching(sn) == Active(sn)

\* With none that matches, the certificate shown speaks for itself.
Match(h) ==
    /\ pc[h] = "match"
    /\ LET sn == job[h].sn
           c == job[h].cert
       IN  \/ c \in Matching(sn) /\ Succeeds /\ Goto(h, "audit")
           \/ /\ (c \notin Matching(sn) /\ Succeeds) \/ Fails(h)
              /\ IF Binds(c, sn) THEN Goto(h, "audit") ELSE End(h, "refused")
    /\ UNCHANGED <<devices, certs, job, audited, mustRefuse, cause>>

\* log_connection_audit: a failure is only logged.
Audit(h) ==
    /\ pc[h] = "audit"
    /\ audited' = audited \cup {h} \/ (DbFails /\ UNCHANGED audited)
    /\ Goto(h, "exists")
    /\ UNCHANGED <<devices, certs, job, faulted, mustRefuse, cause>>

-----------------------------------------------------------------------------
(* db.register_device, two statements, shared by both kinds of handler.    *)

\* What each caller does with its result: signaling ignores it, REST does not.
AfterDevice(h, ok) ==
    CASE job[h].kind = "known" -> End(h, "admitted")
      [] job[h].kind = "first" -> Goto(h, "issue")
      [] job[h].kind = "rest" -> IF ok THEN Goto(h, "sign") ELSE End(h, "error")

Exists(h) ==
    /\ pc[h] = "exists"
    /\ \/ /\ Succeeds
          /\ Goto(h, IF devices[job[h].sn] = "absent" THEN "insert" ELSE "update")
       \/ Fails(h) /\ AfterDevice(h, FALSE)
    /\ UNCHANGED <<devices, certs, job, audited, mustRefuse, cause>>

\* last_seen, name and MAC address, which nothing here depends on.
Update(h) ==
    /\ pc[h] = "update"
    /\ AfterDevice(h, TRUE) \/ (DbFails /\ AfterDevice(h, FALSE))
    /\ UNCHANGED <<devices, certs, job, audited, faulted, mustRefuse, cause>>

\* Bug: the row is written only after the certificate, so never.
InsertNothing(h) ==
    /\ pc[h] = "insert"
    /\ AfterDevice(h, TRUE)
    /\ UNCHANGED <<devices, certs, job, audited, faulted, mustRefuse, cause>>

\* serial_number is UNIQUE: the loser of a race gets an error.
Insert(h) ==
    /\ pc[h] = "insert"
    /\ \/ /\ devices[job[h].sn] = "absent"
          /\ devices' = [devices EXCEPT ![job[h].sn] = "active"]
          /\ Succeeds /\ AfterDevice(h, TRUE)
       \/ /\ (devices[job[h].sn] # "absent" /\ Succeeds) \/ Fails(h)
          /\ UNCHANGED devices
          /\ AfterDevice(h, FALSE)
    /\ UNCHANGED <<certs, job, audited, mustRefuse, cause>>

\* Bug: the row is inserted with a status that the schema does not know.
RowPending(h) ==
    LET sn == job[h].sn
    IN  [sn |-> sn, bound |-> BoundTo(job[h].kind, sn), status |-> "pending"]

RowOf(h) ==
    LET sn == job[h].sn
    IN  [sn |-> sn, bound |-> BoundTo(job[h].kind, sn), status |-> "active"]

\* ca.issue_device_cert: signaling asks it before the rows, REST after the
\* device's.  The Err arm of signaling only logs: no row, no certificate, and
\* the device is admitted all the same.
Sign(h) ==
    /\ pc[h] = "sign"
    /\ \/ Succeeds /\ Goto(h, IF job[h].kind = "first" THEN "exists" ELSE "issue")
       \/ CaFails /\ Faults(h) /\ End(h, IF job[h].kind = "first" THEN "admitted" ELSE "error")
    /\ UNCHANGED <<devices, certs, job, audited, mustRefuse, cause>>

\* The INSERT of the certificate, which needs the device row (a foreign key).
\* Signaling sends the certificate and goes on whatever came of it.
Issue(h) ==
    /\ pc[h] = "issue"
    /\ LET sn == job[h].sn
       IN  \/ /\ devices[sn] # "absent"
              /\ certs' = Append(certs, RowOf(h))
              /\ End(h, IF job[h].kind = "rest" THEN "stored" ELSE "admitted")
              /\ mustRefuse' = [g \in Handlers |-> mustRefuse[g] /\ g \notin Running(sn)]
              /\ Succeeds
           \/ /\ (devices[sn] = "absent" /\ Succeeds) \/ Fails(h)
              /\ End(h, IF job[h].kind = "rest" THEN "error" ELSE "admitted")
              /\ UNCHANGED <<certs, mustRefuse>>
    /\ UNCHANGED <<devices, job, audited, cause>>

-----------------------------------------------------------------------------
(* The REST handlers, past a valid master key.                             *)

RestRegister(h, sn) ==
    /\ pc[h] = "idle"
    /\ job' = [job EXCEPT ![h] = [kind |-> "rest", sn |-> sn, cert |-> None]]
    /\ Goto(h, "exists")
    /\ UNCHANGED <<devices, certs, audited, faulted, mustRefuse, cause>>

RestIssue(h, sn) ==
    /\ pc[h] = "idle"
    /\ devices[sn] # "absent"
    /\ job' = [job EXCEPT ![h] = [kind |-> "rest", sn |-> sn, cert |-> None]]
    /\ Goto(h, "sign")
    /\ UNCHANGED <<devices, certs, audited, faulted, mustRefuse, cause>>

SetStatus(sn, old, new) ==
    certs' = [i \in DOMAIN certs |->
                 IF certs[i].sn = sn /\ certs[i].status = old
                 THEN [certs[i] EXCEPT !.status = new] ELSE certs[i]]

\* Bug: only the newest certificate is blocked.
BlockLatest(sn) ==
    /\ Of(sn) # {}
    /\ certs' = [certs EXCEPT ![Latest(sn)].status = "blocked"]
    /\ cause' = [h \in Handlers |-> cause[h] \/ h \in Running(sn)]
    /\ UNCHANGED <<devices, pc, job, audited, outcome, faulted, mustRefuse>>

Block(sn) ==
    /\ Active(sn) # {}
    /\ SetStatus(sn, "active", "blocked")
    /\ cause' = [h \in Handlers |-> cause[h] \/ h \in Running(sn)]
    /\ UNCHANGED <<devices, pc, job, audited, outcome, faulted, mustRefuse>>

Unblock(sn) ==
    /\ Of(sn) # Active(sn)
    /\ SetStatus(sn, "blocked", "active")
    /\ mustRefuse' = [h \in Handlers |-> mustRefuse[h] /\ h \notin Running(sn)]
    /\ UNCHANGED <<devices, pc, job, audited, outcome, faulted, cause>>

\* An operator clears the row's active flag: no handler does, several read it.
Deactivate(sn) ==
    /\ devices[sn] = "active"
    /\ devices' = [devices EXCEPT ![sn] = "inactive"]
    /\ cause' = [h \in Handlers |-> cause[h] \/ h \in Running(sn)]
    /\ UNCHANGED <<certs, pc, job, audited, outcome, faulted, mustRefuse>>

Finished == (\A h \in Handlers : pc[h] = "done") /\ UNCHANGED vars

Next ==
    \/ \E h \in Handlers :
          \/ \E sn \in Serials :
                \/ \E c \in Shown : Register(h, sn, c)
                \/ RestRegister(h, sn) \/ RestIssue(h, sn)
          \/ Lookup(h) \/ Status(h) \/ Match(h) \/ Audit(h)
          \/ Exists(h) \/ Update(h) \/ Insert(h) \/ Sign(h) \/ Issue(h)
    \/ \E sn \in Serials : Block(sn) \/ Unblock(sn) \/ Deactivate(sn)
    \/ Finished

Spec == Init /\ [][Next]_vars

-----------------------------------------------------------------------------
(* Properties.                                                             *)

TypeOK ==
    /\ devices \in [Serials -> {"absent", "active", "inactive"}]
    /\ certs \in Seq([sn : Serials, bound : Serials \cup {None},
                      status : {"active", "blocked"}])
    /\ pc \in [Handlers -> Points]
    /\ job \in [Handlers -> [kind : Kinds \cup {None}, sn : Serials \cup {None},
                             cert : Nat \cup {Unrecorded, None}]]
    /\ audited \subseteq Handlers
    /\ outcome \in [Handlers -> Outcomes \cup {None}]
    /\ faulted \in [Handlers -> SUBSET Points]
    /\ mustRefuse \in [Handlers -> BOOLEAN]
    /\ cause \in [Handlers -> BOOLEAN]

\* What went wrong for h itself, if anything, was none of these steps.
Spared(h, steps) == faulted[h] \cap steps = {}

\* A device that was blocked when its Register began, and has neither been
\* unblocked nor been issued a new certificate since, is not admitted: the
\* statements of the handler never combine two states of the tables into a
\* state that would have let it in.  Only two failed reads of its own do, since
\* they count as "no such row": of the device, and of its newest certificate.
BlockStands ==
    \A h \in Handlers :
        Spared(h, {"lookup", "status"}) /\ outcome[h] = "admitted" => ~mustRefuse[h]

\* The handler asks the newest certificate only (LIMIT 1): that is enough,
\* because a serial whose newest certificate is blocked has no active one.
LatestDecides ==
    \A sn \in Serials :
        Of(sn) # {} /\ certs[Latest(sn)].status = "blocked" => Active(sn) = {}

\* "un dispositivo puede tener varios ...; cualquiera de ellos es valido"
\* (db.rs:128-129): a refused Register had a reason, a block, an inactive row,
\* or a certificate that neither was active for its serial nor names it, at some
\* time since it began; re-issuing a certificate meanwhile is no reason.  Only a
\* failed read of the active certificates refuses without one.
RefusalHasCause ==
    \A h \in Handlers : Spared(h, {"match"}) /\ outcome[h] = "refused" => cause[h]

\* A device admitted as new has a row and a certificate, also when two first
\* Registers of it race and the database refuses one of the two INSERTs, when
\* it was taken for new because its SELECT failed, or when other handlers' steps
\* fail.  Only four steps of its own can break it, whose errors the handler
\* drops: the signature, the two statements that write the row, and the INSERT
\* of the certificate.
Recorded(sn) == devices[sn] # "absent" /\ Of(sn) # {}

AdmittedIsRecorded ==
    \A h \in Handlers :
        /\ outcome[h] = "admitted" /\ job[h].kind = "first"
        /\ Spared(h, {"sign", "exists", "insert", "issue"})
        => Recorded(job[h].sn)
=============================================================================
