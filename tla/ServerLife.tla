----------------------------- MODULE ServerLife -----------------------------
(***************************************************************************)
(* One server process over its lives: run_server in server/src/main.rs     *)
(* loads or makes the certificate authority (ca.rs) and stores it, then    *)
(* serves, with a task that makes a master key every hour next to the REST *)
(* handlers of api.rs that read and make keys too.  A crash loses what the *)
(* process knew; the tables ca_keys and master_keys (db.rs) stay.  The     *)
(* port is bound before the database is touched, so a second process of    *)
(* the same host never gets to boot.                                       *)
(*                                                                         *)
(* A row of master_keys stands for the time it has left: the queries ask   *)
(* for valid_until >= NOW(), so 0 is the last unit at which it is valid    *)
(* and an expired row is as good as none.                                  *)
(***************************************************************************)
EXTENDS Naturals

CONSTANTS
    Period,    \* the hour of a key and of the generator's sleep, in time units
    Latency,   \* bound: units from reading the clock to the end of an INSERT
    MaxCas,    \* bound: authorities ever generated
    MaxMissed, \* bound: generator INSERTs that fail in a row
    None       \* Option::None

ASSUME TimeAssumption == Period \in Nat /\ Latency \in 0..Period
ASSUME BoundsAssumption == MaxCas \in Nat /\ MaxMissed \in Nat
ASSUME NoneAssumption == None \notin Nat

VARIABLES
    pc,     \* the process: down, get_ca, store_ca (statements of the boot), serving
    ca,     \* AppState.ca
    stored, \* row 1 of ca_keys
    made,   \* authorities generated so far
    issued, \* history: authorities that signed the certificates handed out
    keys,   \* time left of every valid row of master_keys
    gen,    \* the generator task: its INSERT and the age of `now`, or its sleep
    rest,   \* a REST handler that makes a key, likewise
    hand,   \* time left of the key a REST handler answered last
    lapse,  \* history: how long the process has served without a valid key
    missed  \* history: generator INSERTs that failed since the last one stored

boot == <<pc, ca, stored, made>>
vars == <<boot, issued, keys, gen, rest, hand, lapse, missed>>

Off == [at |-> "off", t |-> 0]
Inserting == [at |-> "insert", t |-> 0]
Sleeping == [at |-> "sleep", t |-> Period]

\* valid_until = now + 1 h, and `now` is as old as the INSERT is under way.
RowOf(task) == Period - task.t
InFlight == {RowOf(task) : task \in {x \in {gen, rest} : x.at = "insert"}}

Init ==
    /\ pc = "down" /\ ca = None /\ stored = None /\ made = 0
    /\ issued = {} /\ keys = {}
    /\ gen = Off /\ rest = Off
    /\ hand = None /\ lapse = 0 /\ missed = 0

\* The rows of master_keys become those of K; a valid one ends the lapse.
Store(K) == keys' = K /\ lapse' = IF K = {} THEN lapse ELSE 0

-----------------------------------------------------------------------------
(* The boot: get_ca, new_or_load, store_ca.                                *)

Boot ==
    /\ pc = "down"
    /\ pc' = "get_ca"
    /\ UNCHANGED <<ca, stored, made, issued, keys, gen, rest, hand, lapse, missed>>

\* Bug: an error of the SELECT counts as no row, as elsewhere in the server.
LoadsOrNothing == {stored, None}

\* What get_ca may answer; an error ends the process (Crash).
Loads == {stored}

NewOrLoad ==
    /\ pc = "get_ca"
    /\ \E row \in Loads :
          IF row # None THEN ca' = row /\ UNCHANGED made
          ELSE made < MaxCas /\ made' = made + 1 /\ ca' = made + 1
    /\ pc' = "store_ca"
    /\ UNCHANGED <<stored, issued, keys, gen, rest, hand, lapse, missed>>

\* INSERT ... ON CONFLICT DO UPDATE; then the generator starts at once.
StoreCa ==
    /\ pc = "store_ca"
    /\ stored' = ca
    /\ pc' = "serving"
    /\ gen' = Inserting
    /\ lapse' = 0 /\ missed' = 0
    /\ UNCHANGED <<ca, made, issued, keys, rest, hand>>

\* The process dies: a failed statement of the boot (`?`), or any crash.  The
\* statement on its way may have been applied.
Crash ==
    /\ pc # "down"
    /\ pc' = "down" /\ ca' = None
    /\ stored' \in IF pc = "store_ca" THEN {stored, ca} ELSE {stored}
    /\ \E rows \in SUBSET InFlight : Store(keys \cup rows)
    /\ gen' = Off /\ rest' = Off
    /\ UNCHANGED <<made, issued, hand, missed>>

\* issue_device_cert, for a Register or a REST request.
IssueCert ==
    /\ pc = "serving"
    /\ issued' = issued \cup {ca}
    /\ UNCHANGED <<boot, keys, gen, rest, hand, lapse, missed>>

-----------------------------------------------------------------------------
(* The generator: read the clock, INSERT, sleep, whatever came of it.      *)

Wake ==
    /\ gen.at = "sleep" /\ gen.t = 0
    /\ gen' = Inserting
    /\ UNCHANGED <<boot, issued, keys, rest, hand, lapse, missed>>

Generate ==
    /\ gen.at = "insert"
    /\ Store(keys \cup {RowOf(gen)})
    /\ missed' = 0
    /\ gen' = Sleeping
    /\ UNCHANGED <<boot, issued, rest, hand>>

\* Bug: an error ends the loop.
GenerateFailsForGood ==
    /\ gen.at = "insert"
    /\ gen' = Off
    /\ UNCHANGED <<boot, issued, keys, rest, hand, lapse, missed>>

\* The error is logged; the row may have been stored all the same.
GenerateFails ==
    /\ gen.at = "insert"
    /\ missed < MaxMissed
    /\ \E K \in {keys, keys \cup {RowOf(gen)}} : Store(K)
    /\ missed' = missed + 1
    /\ gen' = Sleeping
    /\ UNCHANGED <<boot, issued, rest, hand>>

-----------------------------------------------------------------------------
(* The REST handlers, past require_admin.                                  *)

\* get_current_key finds a row: the newest one.
GetCurrent ==
    /\ pc = "serving"
    /\ rest = Off
    /\ \E newest \in keys : (\A k \in keys : k <= newest) /\ hand' = newest
    /\ UNCHANGED <<boot, issued, keys, gen, rest, lapse, missed>>

\* get_current_key finds none, or rotate_key, which does not look.
MakeKey(rotate) ==
    /\ pc = "serving"
    /\ rest = Off
    /\ rotate \/ keys = {}
    /\ rest' = Inserting
    /\ UNCHANGED <<boot, issued, keys, gen, hand, lapse, missed>>

\* Bug: the result of the INSERT is dropped (.ok()), as block_device does.
AnswerAnyway(ok) == hand' = RowOf(rest)

\* The key is answered only when its row was stored; else 500.
Answer(ok) == hand' = IF ok THEN RowOf(rest) ELSE hand

KeyMade(ok) ==
    /\ rest.at = "insert"
    /\ \E K \in {keys, keys \cup {RowOf(rest)}} : (ok => RowOf(rest) \in K) /\ Store(K)
    /\ Answer(ok)
    /\ rest' = Off
    /\ UNCHANGED <<boot, issued, gen, missed>>

-----------------------------------------------------------------------------
\* Bug: valid_until is not asked for.
AgedForEver(K) == {IF k = 0 THEN Period + 1 ELSE k - 1 : k \in K}

\* WHERE valid_until >= NOW(), one unit later.
Aged(K) == {k - 1 : k \in K \ {0}}

OneOlder(task) ==
    CASE task.at = "insert" -> [task EXCEPT !.t = @ + 1]
      [] task.at = "sleep" -> [task EXCEPT !.t = @ - 1]
      [] task.at = "off" -> task

\* Time passes: not past the end of a sleep, nor past the Latency of an INSERT.
Tick ==
    /\ gen.at = "sleep" => gen.t > 0
    /\ \A task \in {gen, rest} : task.at = "insert" => task.t < Latency
    /\ keys' = Aged(keys)
    /\ gen' = OneOlder(gen) /\ rest' = OneOlder(rest)
    /\ hand' = IF hand \in {None, 0} THEN None ELSE hand - 1
    /\ lapse' = IF pc = "serving" /\ keys' = {} THEN lapse + 1 ELSE 0
    /\ UNCHANGED <<boot, issued, missed>>

Next ==
    \/ Boot \/ NewOrLoad \/ StoreCa \/ Crash
    \/ IssueCert
    \/ Wake \/ Generate \/ GenerateFails
    \/ GetCurrent
    \/ \E rotate \in BOOLEAN : MakeKey(rotate)
    \/ \E ok \in BOOLEAN : KeyMade(ok)
    \/ Tick

Spec == Init /\ [][Next]_vars

-----------------------------------------------------------------------------
(* Properties.                                                             *)

Tasks == [at : {"off", "insert", "sleep"}, t : 0..Period]

TypeOK ==
    /\ pc \in {"down", "get_ca", "store_ca", "serving"}
    /\ {ca, stored} \subseteq (1..MaxCas) \cup {None}
    /\ made \in 0..MaxCas
    /\ issued \subseteq 1..MaxCas
    /\ keys \subseteq 0..Period
    /\ gen \in Tasks /\ rest \in Tasks
    /\ hand \in (0..Period) \cup {None}
    /\ lapse \in Nat
    /\ missed \in 0..MaxMissed

\* Every certificate handed out in any life of the server is signed by the
\* authority that ca_keys holds, so that the next life can vouch for it: no
\* crash, lost answer or failed statement of the boot (main.rs:136-142) makes
\* the server sign with an authority that is forgotten afterwards, although a
\* fresh one is generated whenever no row is found and the row is overwritten
\* at every boot.
SignedByStored == issued \subseteq {stored}

\* "Auto-generate master key every hour" (main.rs:164): the server is without
\* a valid key for no longer than two INSERTs take (the clock is read before
\* the one and the sleep starts after it), plus an hour and an INSERT for
\* every time the generator failed in a row: it never retries before the hour
\* is over.
GapBounded == lapse <= 2 * Latency + missed * (Period + Latency)

\* A key that the REST API answered validates until the valid_until it was
\* answered with: there is a row for it, across failed INSERTs, rotations,
\* and crashes of the server.
AnsweredKeyValidates == hand # None => hand \in keys
=============================================================================
