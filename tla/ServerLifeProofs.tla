-------------------------- MODULE ServerLifeProofs --------------------------
(***************************************************************************)
(* Proofs about ServerLife, for every period, latency and bound.           *)
(***************************************************************************)
EXTENDS ServerLife, TLAPS

\* TypeOK and what ties the tasks to the process: they run while it serves,
\* and an INSERT is never older than Latency.
Tasked ==
    /\ TypeOK
    /\ pc # "serving" => gen = Off /\ rest = Off
    /\ pc = "serving" => gen.at # "off"
    /\ pc \in {"store_ca", "serving"} => ca # None
    /\ rest.at # "sleep"
    /\ gen.at = "insert" => gen.t <= Latency
    /\ rest.at = "insert" => rest.t <= Latency

LEMMA RowType == ASSUME NEW task \in Tasks PROVE RowOf(task) \in 0..Period
BY TimeAssumption DEF Tasks, RowOf

LEMMA InitTasked == Init => Tasked
BY TimeAssumption, BoundsAssumption, NoneAssumption DEF Init, Tasked, TypeOK, Tasks, Off

LEMMA NextTasked == Tasked /\ [Next]_vars => Tasked'
<1> SUFFICES ASSUME Tasked, [Next]_vars PROVE Tasked'
  OBVIOUS
<1> USE TimeAssumption, BoundsAssumption, NoneAssumption
    DEF Tasked, TypeOK, Tasks, Off, Inserting, Sleeping, boot
<1>1. CASE Boot
  BY <1>1 DEF Boot
<1>2. CASE NewOrLoad
  BY <1>2 DEF NewOrLoad, Loads
<1>3. CASE StoreCa
  BY <1>3 DEF StoreCa
<1>4. CASE Crash
  <2>1. PICK rows \in SUBSET InFlight : Store(keys \cup rows)
    BY <1>4 DEF Crash
  <2>2. InFlight \subseteq 0..Period
    BY RowType DEF InFlight
  <2>3. keys' \subseteq 0..Period /\ lapse' \in Nat
    BY <2>1, <2>2 DEF Store
  <2> QED
    BY <1>4, <2>3 DEF Crash
<1>5. CASE IssueCert
  BY <1>5 DEF IssueCert
<1>6. CASE Wake
  BY <1>6 DEF Wake
<1>7. CASE Generate
  <2>1. keys' \subseteq 0..Period /\ lapse' \in Nat
    BY <1>7, RowType DEF Generate, Store
  <2> QED
    BY <1>7, <2>1 DEF Generate
<1>8. CASE GenerateFails
  <2>1. keys' \subseteq 0..Period /\ lapse' \in Nat
    BY <1>8, RowType DEF GenerateFails, Store
  <2> QED
    BY <1>8, <2>1 DEF GenerateFails
<1>9. CASE GetCurrent
  BY <1>9 DEF GetCurrent
<1>10. ASSUME NEW rotate \in BOOLEAN, MakeKey(rotate) PROVE Tasked'
  BY <1>10 DEF MakeKey
<1>11. ASSUME NEW ok \in BOOLEAN, KeyMade(ok) PROVE Tasked'
  <2>0. RowOf(rest) \in 0..Period
    BY RowType
  <2>1. keys' \subseteq 0..Period /\ lapse' \in Nat
    BY <1>11, <2>0 DEF KeyMade, Store
  <2>2. hand' \in (0..Period) \cup {None}
    BY <1>11, RowType DEF KeyMade, Answer
  <2> QED
    BY <1>11, <2>1, <2>2 DEF KeyMade
<1>12. CASE Tick
  BY <1>12 DEF Tick, Aged, OneOlder
<1>13. CASE UNCHANGED vars
  BY <1>13 DEF vars
<1> QED
  BY <1>1, <1>2, <1>3, <1>4, <1>5, <1>6, <1>7, <1>8, <1>9, <1>10, <1>11, <1>12, <1>13 DEF Next

\* Every variable of ServerLife keeps its type.
THEOREM TypeCorrect == Spec => []TypeOK
<1>1. Tasked => TypeOK
  BY DEF Tasked
<1> QED
  BY <1>1, InitTasked, NextTasked, PTL DEF Spec

-----------------------------------------------------------------------------
\* While the server may sign, what it signs with is what is stored or about to
\* be stored, and a row that is there is the one that was loaded.
Vouched ==
    /\ SignedByStored
    /\ pc = "store_ca" /\ stored # None => ca = stored
    /\ pc = "serving" => ca = stored

LEMMA NextVouched == Tasked /\ Vouched /\ [Next]_vars => Vouched'
<1> SUFFICES ASSUME Tasked, Vouched, [Next]_vars PROVE Vouched'
  OBVIOUS
<1> USE NoneAssumption, BoundsAssumption DEF Vouched, SignedByStored, boot
<1>1. CASE Boot
  BY <1>1 DEF Boot
<1>2. CASE NewOrLoad
  BY <1>2 DEF NewOrLoad, Loads
<1>3. CASE StoreCa
  BY <1>3 DEF StoreCa, Tasked, TypeOK
<1>4. CASE Crash
  BY <1>4 DEF Crash, Tasked, TypeOK
<1>5. CASE IssueCert
  BY <1>5 DEF IssueCert
<1>6. CASE Wake \/ Generate \/ GenerateFails
  BY <1>6 DEF Wake, Generate, GenerateFails
<1>7. CASE GetCurrent
  BY <1>7 DEF GetCurrent
<1>8. ASSUME NEW rotate \in BOOLEAN, MakeKey(rotate) PROVE Vouched'
  BY <1>8 DEF MakeKey
<1>9. ASSUME NEW ok \in BOOLEAN, KeyMade(ok) PROVE Vouched'
  BY <1>9 DEF KeyMade
<1>10. CASE Tick \/ UNCHANGED vars
  BY <1>10 DEF Tick, vars
<1> QED
  BY <1>1, <1>2, <1>3, <1>4, <1>5, <1>6, <1>7, <1>8, <1>9, <1>10 DEF Next

\* Whatever crashes and failed statements the boots run into, every certificate
\* handed out in any life of the server is signed by the stored authority.
THEOREM AllSignedByStored == Spec => []SignedByStored
<1>1. Init => Vouched
  BY DEF Init, Vouched, SignedByStored
<1>2. Vouched => SignedByStored
  BY DEF Vouched
<1> QED
  BY <1>1, <1>2, InitTasked, NextTasked, NextVouched, PTL DEF Spec

-----------------------------------------------------------------------------
\* An answered key is a stored one: no step takes a row away before its time,
\* and row and answer age together.
LEMMA NextAnswered ==
    Tasked /\ AnsweredKeyValidates /\ [Next]_vars => AnsweredKeyValidates'
<1> SUFFICES ASSUME Tasked, AnsweredKeyValidates, [Next]_vars
             PROVE  AnsweredKeyValidates'
  OBVIOUS
<1> USE DEF AnsweredKeyValidates, boot
<1>1. CASE Boot \/ NewOrLoad \/ StoreCa \/ IssueCert \/ Wake
  BY <1>1 DEF Boot, NewOrLoad, StoreCa, IssueCert, Wake
<1>2. CASE Crash \/ Generate \/ GenerateFails
  BY <1>2 DEF Crash, Generate, GenerateFails, Store
<1>3. CASE GetCurrent
  BY <1>3 DEF GetCurrent
<1>4. ASSUME NEW rotate \in BOOLEAN, MakeKey(rotate) PROVE AnsweredKeyValidates'
  BY <1>4 DEF MakeKey
<1>5. ASSUME NEW ok \in BOOLEAN, KeyMade(ok) PROVE AnsweredKeyValidates'
  BY <1>5 DEF KeyMade, Store, Answer
<1>6. CASE Tick
  BY <1>6, NoneAssumption DEF Tick, Aged, Tasked, TypeOK
<1>7. CASE UNCHANGED vars
  BY <1>7 DEF vars
<1> QED
  BY <1>1, <1>2, <1>3, <1>4, <1>5, <1>6, <1>7 DEF Next

\* A key answered by the REST API validates for as long as it was said to.
THEOREM AnsweredValidates == Spec => []AnsweredKeyValidates
<1>1. Init => AnsweredKeyValidates
  BY DEF Init, AnsweredKeyValidates
<1> QED
  BY <1>1, InitTasked, NextTasked, NextAnswered, PTL DEF Spec

-----------------------------------------------------------------------------
\* The time until the generator reads the clock again, negative while its
\* INSERT is under way, and how late its next stored row may be.
Until == IF gen.at = "sleep" THEN gen.t ELSE 0 - gen.t
Late == Latency + missed * (Period + Latency)

\* A key, or else the gap so far, covers the time until the generator acts, up
\* to Late.
Covered ==
    /\ keys # {} => lapse = 0
    /\ lapse <= Latency + Late
    /\ pc = "serving" =>
          /\ keys = {} => lapse + Until <= Late
          /\ keys # {} => \E k \in keys : Until <= k + Late

LEMMA LateGrows ==
    ASSUME Tasked
    PROVE  /\ Late \in Nat /\ Latency <= Late
           /\ missed' = missed => Late' = Late
           /\ missed' = missed + 1 => Late' = Late + Period + Latency
           /\ missed' = 0 => Late' = Latency
<1> DEFINE x == Period + Latency
<1>1. missed \in Nat /\ x \in Nat /\ Latency \in Nat /\ Period \in Nat
  BY TimeAssumption, BoundsAssumption DEF Tasked, TypeOK
<1>2. missed * x \in Nat /\ (missed + 1) * x = missed * x + x /\ 0 * x = 0
  BY <1>1
<1>3. Late = Latency + missed * x /\ Late' = Latency + missed' * x
  BY DEF Late
<1> QED
  BY <1>1, <1>2, <1>3

LEMMA NextCovered == Tasked /\ Covered /\ [Next]_vars => Covered'
<1> SUFFICES ASSUME Tasked, Covered, [Next]_vars PROVE Covered'
  OBVIOUS
<1>a. /\ lapse \in Nat /\ keys \subseteq 0..Period
      /\ gen.t \in 0..Period /\ gen.at \in {"off", "insert", "sleep"}
      /\ Period \in Nat /\ Latency \in Nat /\ Latency <= Period
  BY TimeAssumption DEF Tasked, TypeOK, Tasks
<1>b. Tasked'
  BY NextTasked
<1> USE <1>a, LateGrows DEF Covered, Until, boot
<1>1. CASE Boot \/ NewOrLoad \/ IssueCert \/ GetCurrent
  BY <1>1 DEF Boot, NewOrLoad, IssueCert, GetCurrent
<1>2. CASE StoreCa
  <2>1. /\ Until' = 0 /\ Late' = Latency /\ lapse' = 0 /\ keys' = keys
    BY <1>2 DEF StoreCa, Inserting
  <2>2. CASE keys = {}
    BY <2>1, <2>2
  <2>3. CASE keys # {}
    <3>1. PICK k \in keys' : TRUE
      BY <2>1, <2>3
    <3>2. Until' <= k + Late'
      BY <2>1, <3>1
    <3> QED
      BY <2>1, <3>2
  <2> QED
    BY <2>2, <2>3
<1>3. CASE Crash
  BY <1>3 DEF Crash, Store
<1>4. CASE Wake
  BY <1>4 DEF Wake, Inserting, Tasked
<1>5. CASE Generate
  <2>1. gen.t <= Latency /\ RowOf(gen) \in keys' /\ lapse' = 0
    BY <1>5 DEF Generate, Store, Tasked
  <2>2. Until' = Period /\ Late' = Latency
    BY <1>5 DEF Generate, Sleeping
  <2>3. Until' <= RowOf(gen) + Late' /\ lapse' <= Latency + Late'
    BY <2>1, <2>2 DEF RowOf
  <2> QED
    BY <2>1, <2>3
<1>6. CASE GenerateFails
  <2>1. /\ Late' = Late + Period + Latency
        /\ Until' = Period /\ 0 - Latency <= Until
        /\ keys \subseteq keys' /\ keys' \subseteq 0..Period
        /\ lapse' = IF keys' = {} THEN lapse ELSE 0
    BY <1>6, <1>b DEF GenerateFails, Sleeping, Store, Tasked, TypeOK
  <2>2. CASE keys' = {}
    BY <1>6, <2>1, <2>2 DEF GenerateFails, Tasked
  <2>3. CASE keys' # {}
    <3>1. PICK k \in keys' : TRUE
      BY <2>3
    <3>2. Until' <= k + Late' /\ lapse' = 0 /\ lapse' <= Latency + Late'
      BY <2>1, <2>3, <3>1
    <3> QED
      BY <2>3, <3>2
  <2> QED
    BY <2>2, <2>3
<1>7. ASSUME NEW rotate \in BOOLEAN, MakeKey(rotate) PROVE Covered'
  BY <1>7 DEF MakeKey
<1>8. ASSUME NEW ok \in BOOLEAN, KeyMade(ok) PROVE Covered'
  <2>1. /\ Until' = Until /\ Late' = Late /\ pc' = pc
        /\ keys \subseteq keys' /\ keys' \subseteq 0..Period
        /\ lapse' = IF keys' = {} THEN lapse ELSE 0
    BY <1>8, <1>b DEF KeyMade, Store, Tasked, TypeOK
  <2>2. CASE keys' = {}
    BY <2>1, <2>2
  <2>3. CASE keys' # {} /\ keys = {}
    <3>1. PICK k \in keys' : TRUE
      BY <2>3
    <3>2. /\ pc' = "serving" => Until' <= k + Late'
          /\ lapse' = 0 /\ lapse' <= Latency + Late'
      BY <2>1, <2>3, <3>1
    <3> QED
      BY <2>3, <3>2
  <2>4. CASE keys # {}
    BY <2>1, <2>4
  <2> QED
    BY <2>2, <2>3, <2>4
<1>9. CASE Tick
  <2>1. CASE pc # "serving"
    BY <1>9, <2>1 DEF Tick
  <2>2. CASE pc = "serving"
    <3>1. /\ Late' = Late /\ Until' = Until - 1 /\ pc' = pc
          /\ 0 - Latency <= Until'
      BY <1>9, <1>b, <2>2 DEF Tick, OneOlder, Tasked
    <3>2. CASE keys' = {}
      <4>1. lapse' = lapse + 1
        BY <1>9, <2>2, <3>2 DEF Tick
      <4>2. keys # {} => Until <= Late
        BY <1>9, <2>2, <3>2 DEF Tick, Aged
      <4> QED
        BY <2>2, <3>1, <3>2, <4>1, <4>2
    <3>3. CASE keys' # {}
      <4>1. PICK k \in keys : Until <= k + Late
        BY <1>9, <2>2, <3>3 DEF Tick, Aged
      <4>2. PICK j \in keys : j # 0
        BY <1>9, <3>3 DEF Tick, Aged
      <4>3. (IF k = 0 THEN j ELSE k) - 1 \in keys'
        BY <1>9, <4>2 DEF Tick, Aged
      <4>4. Until' <= (IF k = 0 THEN j ELSE k) - 1 + Late'
        BY <3>1, <4>1, <4>2
      <4> QED
        BY <1>9, <2>2, <3>1, <3>3, <4>3, <4>4 DEF Tick
    <3> QED
      BY <3>2, <3>3
  <2> QED
    BY <2>1, <2>2
<1>10. CASE UNCHANGED vars
  BY <1>10 DEF vars
<1> QED
  BY <1>1, <1>2, <1>3, <1>4, <1>5, <1>6, <1>7, <1>8, <1>9, <1>10 DEF Next

\* The server is never without a valid key for longer than two INSERTs, plus an
\* hour and an INSERT for every failure of the generator in a row.
THEOREM GapsBounded == Spec => []GapBounded
<1>1. Init => Covered
  BY LateGrows, InitTasked, TimeAssumption DEF Init, Covered
<1>2. Tasked /\ Covered => GapBounded
  <2> SUFFICES ASSUME Tasked, Covered PROVE GapBounded
    OBVIOUS
  <2> DEFINE x == missed * (Period + Latency)
  <2>1. x \in Nat /\ Latency \in Nat /\ lapse \in Nat
    BY TimeAssumption, BoundsAssumption DEF Tasked, TypeOK
  <2>2. lapse <= Latency + (Latency + x)
    BY DEF Covered, Late
  <2> HIDE DEF x
  <2>3. lapse <= 2 * Latency + x
    BY <2>1, <2>2
  <2> QED
    BY <2>3 DEF x, GapBounded
<1> QED
  BY <1>1, <1>2, InitTasked, NextTasked, NextCovered, PTL DEF Spec
=============================================================================
