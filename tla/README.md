# Formal model of the AzulDesk server

TLA+ modules for the server of this repository (`src/server`), model-checked
with TLC. Every safety property that a passing run checks is also proved with
TLAPS, for every value of the constants, and so is the refinement of the audio
relay; liveness is model-checked only. The models follow the Rust code: one action per critical section, SQL statement or `select!` branch.
The code decides what a model says; comments and documentation only supply the
promises that properties state.

    tlc -config MCSessionRelay.cfg MCSessionRelay      # one run
    tlapm SessionRelayProofs.tla                       # one component's proofs

Contents: 1 inventory, 2 modules and code, 3 runs, 4 bounds, 5 fairness,
6 proofs, 7 disagreements found, 8 what is not modelled, 9 plan.

## 1. Inventory

The repository holds a server (`server`), a crate of shared types (`core`) and
a relay crate that is a stub. Clients are not in the repository: what they may
do is whatever the server accepts.

| component | state | operations | interacts through |
|---|---|---|---|
| session relay, `session_relay.rs` | map id -> two seats, each an mpsc sender (`relays`, one mutex); per task: seat, channel, idle timer | join, room full, forward frame or input, write, ping, idle timeout, leave | the shared map and the mpsc channels of the room |
| audio relay, `audio_relay.rs` | the same map and seats, no timer, no Close | join, room full, forward, write, leave | its own map |
| signaling server, `signaling.rs` | `peers`, `peer_channels`, `sessions` (three RwLocks), a broadcast channel of 256; per task: `current_id` | Register, ConnectRequest, ConnectResponse, broadcast, cleanup | the three maps, mpsc and broadcast channels, database, CA |
| tables, `db.rs`, `schema.sql` | `device_registry`, `certificates`, `audit_log`, `master_keys`, `ca_keys`, `users` | one or two SQL statements each, no transactions | everybody, through a pool |
| certificate authority, `ca.rs` | CA key and certificate | issue, verify binding, load or create | signaling, REST |
| REST API, `api.rs` | none of its own | register, issue, block, unblock, keys, login, audit | database, CA |
| master keys, `main.rs`, `api.rs`, `db.rs` | rows with `valid_from`, `valid_until` | hourly generation, rotation, validation | database, time |
| startup, `main.rs` | - | open the database, load or create the CA, spawn the servers | database, CA |
| core types and crypto, relay crate, scripts | - | - | - |

What is hard, and what correct means, per component:

- **Session relay.** Everything between two acquisitions of the map's mutex
  interleaves: a sender is cloned under the lock and used after it; the exit of
  a task removes *both* seats of its id, so a task may find itself evicted while
  it still runs, and runs its own exit later on whatever the id holds by then;
  `ws.send` is awaited inside a `select!` branch, where nothing else is polled.
  Correct: no seat or entry is left behind or stolen, frames stay in the room,
  in order and without gaps, a session ends for both ends, a dead client is
  noticed.
- **Audio relay.** The same map with different rules: an exit clears only the
  task's own seat, and `None` from the channel does not end the loop. Correct:
  it is a two-seat room from which nobody is removed by others.
- **Signaling.** Register, the cleanup and the routing of requests each take
  several locks one after another; guards taken in an `if let` live until its
  end, across other acquisitions and a socket write; the broadcast channel
  drops old lists. Correct: registered means listed and reachable, what is
  listed is live, messages reach only their device, answers are not lost,
  dashboards converge, nobody deadlocks.
- **Admission.** Register reads and writes three tables statement by statement
  while REST handlers block, unblock and issue; statements and signatures fail
  and their errors are mostly dropped. Correct: a block that a Register finds
  stands, a refusal has a cause, an admitted device is on record.
- **Master keys.** A timer that starts after a statement that takes time, rows
  that expire, failures that are not retried, and REST handlers that make keys
  next to the generator. Correct: the server is not without a valid key for
  longer than the code accounts for; a key that was answered validates.
- **Startup.** Three statements, at each of which the process may die.
  Correct: whatever the lives of the server run into, certificates are signed by
  the authority that is stored.

The hazards of `PROJECT.json` list these at their lines, with the properties
that cover them.

## 2. Modules and the code

| module | models |
|---|---|
| `SessionRelay` | `session_relay.rs`, all of `session_ws`, without time |
| `SessionTimers` | `session_relay.rs`, the loop of one task with time |
| `TwoSeatRoom` | abstract specification: what the audio relay promises |
| `AudioRelay` | `audio_relay.rs`, all of `audio_session`; refines `TwoSeatRoom` |
| `SignalingHub` | `signaling.rs` without the database: maps, channels, guards |
| `SignalingLocks` | `signaling.rs`: the three RwLocks, their queues and the awaits of each handler |
| `DeviceAdmission` | Register's database part, the REST handlers of the same tables, `db.rs` |
| `ServerLife` | `main.rs` (boot, key generator), `ca.rs`, the key handlers of `api.rs`, `db.rs` |
| `SessionRelayProofs`, `SessionTimersProofs`, `AudioRelayProofs`, `SignalingHubProofs`, `SignalingLocksProofs`, `DeviceAdmissionProofs`, `ServerLifeProofs` | theorems about those components |
| `MC...` | instances for TLC: symmetry sets and the serials of each client |

How they fit together: `SessionRelay` leaves out time and `SessionTimers` the
rooms. The abstraction is that in `SessionRelay` the idle timer fires at any
moment on a client that is silent and never on one that answers; `SessionTimers`
says when that is so: `SilenceIsBounded` for the one half and
`AnsweringClientStays` for the other. (A client that answers and is dropped all
the same, after writes that blocked, is for `SessionRelay` a client whose stream
ends: `ReadEnds`, possible at any time.) `SignalingHub` takes it for granted
that every handler gets its locks, and `SignalingLocks` shows it for clients that
read what they are sent, and what is left when one does not.
`SignalingHub` and `DeviceAdmission` split one handler, Register, at its only
interface, whether a registration is admitted: the hub lets the environment
decide it, the admission model computes it. `ServerLife` gives `DeviceAdmission`
its authority and its master keys.

**SessionRelay.** A connection stands for its task and for its channel: `relays`
holds `c` where the code holds a sender of c's channel, `rx[c]` is the queue
behind it, `target[c]` is a clone not yet used. `pc` is the task's place:
`loop` (in `select!`), `forward` (between lookup and send), `writing` (inside
`ws.send`), `leaving` (after the loop). Join and Leave are one step each, since
the code does each under one acquisition of the mutex. Ping, pong and binary or
text frames differ only in what they forward; a ping resets the idle timer and
nothing else, so it is part of the choice when `IdleTimeout` may fire.
`FallSilent` is the environment: a network that dies or a client that hangs. `written`, `met` (who sat opposite) and
`evicted` (who lost its seat to the exit of another task) are history.

**SessionTimers.** One task; the room is a source of data to write. `Tick` is
one unit of time. A branch that is ready is taken before time passes (the
runtime is not starved), so time passes only while the task waits: for a
branch, or, `writing` one frame, for the socket. `nextPing` and `idle` run down
and go below zero while a write is awaited; the ticker makes up for missed ticks
(tokio's default, Burst). The first read of a frame resets `idle`, whatever its
kind. A failed write ends the loop, except that of a Pong, whose result is
dropped. The client answers a ping within `Answer` units, until it falls silent.
`quiet` and `blocked` are history: the time since the last frame was read, and
how much of it the task spent in writes.

**AudioRelay.** The same representation. `Room` instantiates `TwoSeatRoom` with
room = who is seated, heard = what was written, and inbox = the queue *with the
frame a speaker has looked up a target for but not yet sent*: the lookup is the
moment at which the abstract frame is spoken. The property `RoomPromise` is
`Room!Spec`; the mapping is `StateOf`, `Members` and `InboxOf`.

**SignalingHub.** A peer id is a device (in the code, the hash of its serial).
One acquisition of a lock is one step. The two guards that live on over later
steps (`peers` in ConnectRequest, signaling.rs:203, over the error writes, the
send and the insert into `sessions`; `sessions` in ConnectResponse,
signaling.rs:257) are modelled as readers that keep writers out
(`PeersReaders`, `SessionsReaders`). The broadcast channel keeps the newest
`Capacity` lists per receiver. `lost`, `overlapped` and `been` are history: the
answers dropped while their requester was connected, each with whether its own
request was still to be recorded (`Unrecorded`); the connections that at some
time were one of two tasks of the same device: a task is one of device d from the
Register that names d (`Owned`), and a request that names d as its target does
not make it one; and the devices that each connection has registered as.

**SignalingLocks.** A handler is the sequence of its awaits, read off the code:
an acquisition whose guard goes at the end of the statement, one whose guard
lives until the handler ends (the scrutinee of an `if let`), or a write to the
client. A lock is a FIFO queue of readers and writers; the head is granted when
it conflicts with no guard that is kept. The maps are left out, and with them
which branch a handler takes: a task may start any handler at any time, more
than the code can. The peers guard of `Denied` is kept over the write to the
client (signaling.rs:203-225). A client in `Hung` need not read. `LocksInOrder`
states the order the handlers share, which the source nowhere does: peers, then
sessions, then peer_channels.

**DeviceAdmission.** A handler runs through its statements one at a time. A
failed read counts as no row, a failed write goes unnoticed in signaling and is
an error over REST, as in the code. `Sign` is `issue_device_cert`, which signaling
asks before it writes the rows and REST after the device's; its failure ends a
first Register without a row and without a certificate, admitted (the `Err` arm,
signaling.rs:174-176), and is an error over REST. A client may show no
certificate, one of the table, a foreign one, or one that names its device and is
in no row (`Unrecorded`: its INSERT failed, or an earlier database held it);
`Binds` reads the subject alone, as `verify_device_binding` does, so that it
accepts the last kind. `mustRefuse`, `cause` and `faulted` are history: whether
the device has been blocked all along, whether anything justified a refusal since
the handler began, and at which points a step of the handler failed. Each
property names the failed steps of its own handler that it exempts: `BlockStands`
the SELECTs of the device and of its status, `RefusalHasCause` that of the active
certificates, `AdmittedIsRecorded` the signature, the two statements that write
the row and the INSERT of the certificate; `LatestDecides` exempts nothing.
`Deactivate` is external: several handlers read `device_registry.active`, none
clears it.

**ServerLife.** `pc` is the boot: each statement is a step, `Crash` is possible
between any two and may or may not apply the statement on its way; `ca` is the
authority in memory, `stored` the row. A row of `master_keys` is the time it has
left (`valid_until - now`, valid at 0 because the queries ask `>= NOW()`), an
expired row is dropped. A task that inserts a key is the age of the `now` it
read; the generator sleeps for `Period` after its INSERT, whatever came of it.
Generator and REST handlers run next to each other; one REST handler at a time is
enough, since they share only the table. `Answer` is what the client is told.
`lapse`, `missed`, `issued` are history: the time the server has run without a
valid key, the failures of the generator in a row, the authorities that signed.
Assumed: server and database share a clock; an INSERT takes `Latency` at most;
the statements of a dead process are applied before the next one reads (the
pool's connections are gone); one process per database, which the code brings
about on one host by binding its port before it opens the database
(main.rs:134, 136).

## 3. Runs

| run | checks | shows |
|---|---|---|
| `session_seats` | `TypeOK`, `SeatsAreLive`, `NoEmptyEntry`, `SeatNotStolen`, `Isolation`, `NoGaps`, `OnlyPeersOrEvictedTalk` | every race of joins, exits, evictions and rejoins leaves no seat or entry behind; frames stay in the room, in order, without gaps; whatever a client receives, a Close too, comes from somebody it sat opposite, or from a task that another's exit had evicted by then; a task that keeps its seat to the end is heard by its peers only |
| `session_close` | `CloseOnlyFromPeer`, **violated** | a late exit evicts strangers and sends one a Close |
| `session_live` | `DeadClientIsDropped`, `SessionEndsForBoth` | both ends of a session end, and silent clients are dropped, if writes to a silent client return |
| `session_hung` | `DeadClientIsDropped`, **violated** | without that assumption a hung client keeps its task and seat for ever |
| `session_timers` | `TypeOK`, `SilenceIsBounded`, `AnsweringClientStays` | a task outlives the last frame by IDLE_TIMEOUT plus the time its writes took and no more; a client that answers pings is dropped only if writes blocked for the slack between the timers (8 s of 20 s, with answers within 4 s) |
| `audio` | `TypeOK`, `SeatKept`, `RoomPromise` | the audio relay implements the abstract room |
| `hub` | `TypeOK`, `RegisteredAloneIsOnline`, `OnlyEarlyAnswersLost`, `RightDevice`, `EntriesAreLive` | with a device that comes back at any moment, a connection that changes its device, requests, answers and cleanups: messages reach only their device, the maps keep nothing of ended tasks but what a connection left of a device it was and is no longer; registered clients are listed and reachable, and answers get through, but for devices with two tasks at a time and answers that overtake the handler of their own request (with a third Register also for a device whose other task came and went meanwhile, section 7) |
| `hub_views` | `NewestListIsTrue`, `ViewsConverge` | the newest list is true; dashboards end up showing it, lagging ones included |
| `hub_rejoin` | `RegisteredIsOnline`, **violated** | a device that reconnects early is removed by its old task's cleanup |
| `hub_locks` | `TypeOK`, `LocksInOrder`, `NobodyDeadlocked`, `OnlyDenialsStall`, `AnswersGetThrough` | kept guards, queued writers and hung clients: whoever keeps a guard waits for a later lock only, so the handlers never all wait for each other; every handler ends, unless the server is telling a hung client that its request is denied; answers get through even then |
| `admission` | `TypeOK`, `BlockStands`, `LatestDecides`, `RefusalHasCause`, `AdmittedIsRecorded` | no interleaving of the statements admits a device that was blocked before its Register began and has not been unblocked or issued a certificate since, refuses one without cause, or admits a new one that is not on record; failures matter only in the handler's own steps that the property names. (A failed lookup in *another* handler may issue a fresh active certificate, and that is no longer a blocked device: the promise of `BlockStands` ends there.) |
| `server_life` | `TypeOK`, `SignedByStored`, `GapBounded`, `AnsweredKeyValidates` | over crashes, boots and failed statements: certificates are signed by the stored authority; the time without a valid key is two INSERTs, plus an hour and an INSERT per failure in a row; an answered key validates |

Every property of a passing run has a mutant in `PROJECT.json`: an operator of
the same module (marked "Bug" in its comment) that, put in the place of the
real definition, makes TLC report that property violated.

Deadlock is checked in every run. `Finished` is the only way to stop: all
connections (handlers) of the instance have been used, or the loop of the timed
task has ended. `SignalingLocks` and `ServerLife` never stop.

## 4. Bounds, and why they are enough

- **Connections.** Each joins once; a reconnection is another connection. Three
  are enough for each race of the seats: two peers and one who takes a freed
  seat while the evicted task still runs. `session_close` uses four, since two
  strangers must meet between an eviction and the late exit. The hub uses three:
  a device, its return, another device; the first may also change to the other
  device.
- **`Sessions`**: two ids where rooms could mix, one where they cannot.
- **`MaxFrames`**: three are needed to see a gap (one frame written, one lost,
  one written); none where only Closes matter. Liveness is checked with two
  connections and two frames.
- **`Askers`**, **`MaxRequests`**: in `hub` one connection of each device makes one
  request (none does where only lists matter): session ids are unique, so
  requests interact only through the maps, which the connections already contend
  for. **`MaxRegisters`**: in `hub` c1 registers twice, as either device, and the
  others once; once each elsewhere. A third Register of c1 matters for one case
  only, named in section 7; the theorems hold for every number.
- **`SignalingLocks`**: tasks run any number of handlers, in any order. A circle
  of two locks, or a reader queued behind a writer behind a guard, takes two or
  three tasks; one of the three is the hung one. The same instance with a fourth
  connection (1.2 million states) passes too; it is not among the runs because
  it takes four minutes.
- **`SessionTimers`**: a unit is 4 s, so the timers of 20 s and 8 s are 5 and 2,
  and an answer within 4 s is 1. `MaxBlocked` = 6 lets writes hold the loop for
  longer than the idle timer. The two bounds are tight: each fails if it is
  lowered by one unit. The theorems hold for every value.
- **`ServerLife`**: `Period` 4 and `Latency` 1 order what the code orders (an
  INSERT is much shorter than the hour); `MaxCas` = 3 authorities let a third
  life disagree with the second, `MaxMissed` = 2 failures add up. The theorems
  hold for every value.
- **`Capacity`** = 1 (256 in the code): the smallest queue lags soonest.
- **`Watchers`** bounds whose broadcast queue is followed; receivers do not
  interact, so one is enough.
- **`Handlers`** = 3: one to set the tables up and two to race, with blocks,
  unblocks and deactivations, which are not bounded, at any moment.
- **`DbFails`** lets any statement of any handler return an error. Block and
  Unblock are single statements: a failing one changes nothing. **`CaFails`** lets
  any signature fail, as it does when the stored authority cannot be parsed
  (ca.rs:37-52). One **`Unrecorded`** certificate stands for all that name the
  device and are in no row.
- The order of `issued_at` is taken to be the order in which the INSERTs commit:
  the column is `NOW()` of a one-statement transaction.

Symmetry is used only in runs without liveness properties and only over
connections or handlers that no constant tells apart.

## 5. Fairness

`Fairness` in `SessionRelay`, `SignalingHub` and `SignalingLocks` is what tokio and
the channels grant, and no more:

- a task that stays able to run does (weak fairness on steps outside `select!`);
- `select!` polls its branches in random order, so a branch that is ready again
  and again is taken (strong fairness on receiving and on the idle timer);
- the idle timer is pinned outside the loop and reset only by the client, so on
  a silent client it gets ready;
- a client that answers drains its socket (`WriteDone` on a live client);
- tokio's RwLock queues in FIFO order. `SignalingLocks` models the queue and
  needs weak fairness only: a task at the head that can be granted the lock is.
  `SignalingHub` has no queues and uses the result: an acquisition that is
  possible again and again succeeds (strong fairness on `Handle`), for clients
  that read what they are sent.

`WritesReturn` is separate: a write to a silent client returns in the end. TCP
grants it for a dead network (retransmission times out), not for a client that
hangs while its TCP stack acknowledges. `FairSpec` assumes it, `RuntimeSpec`
does not, and `session_hung` shows the difference. No fairness is assumed of
clients: they need not join, speak, register, ask, answer or leave.

## 6. Proofs

For every value of the constants:

| module | theorem | property |
|---|---|---|
| `SessionRelayProofs` | `TypeCorrect` | `TypeOK` |
| | `LiveSeats` | `SeatsAreLive` |
| | `NoLeftoverEntry` | `NoEmptyEntry` |
| | `Isolated` | `Isolation` |
| | `SeatsAreNotStolen` | `SeatNotStolen` |
| | `OnlyPeersTalk` | `OnlyPeersOrEvictedTalk` |
| | `NothingSkipped` | `NoGaps` |
| `SessionTimersProofs` | `TypeCorrect` | `TypeOK` |
| | `SilenceBounded` | `SilenceIsBounded` |
| | `AnsweringStays` | `AnsweringClientStays` |
| `AudioRelayProofs` | `TypeCorrect` | `TypeOK` |
| | `SeatsAreKept` | `SeatKept` |
| | `Refinement` | `RoomPromise` |
| `SignalingHubProofs` | `TypeCorrect` | `TypeOK` |
| | `RoutesToDevice` | `RightDevice` |
| | `NothingLeftBehind` | `EntriesAreLive` |
| | `AloneIsOnline` | `RegisteredAloneIsOnline` |
| | `OnlyEarlyLost` | `OnlyEarlyAnswersLost` |
| | `NewestIsTrue` | `NewestListIsTrue` |
| `SignalingLocksProofs` | `TypeCorrect` | `TypeOK` |
| | `NoCircle` | `LocksInOrder` |
| | `NoDeadlock` | `NobodyDeadlocked` |
| `DeviceAdmissionProofs` | `TypeCorrect` | `TypeOK` |
| | `NewestDecides` | `LatestDecides` |
| | `BlocksStand` | `BlockStands` |
| | `RefusalsHaveCause` | `RefusalHasCause` |
| | `AdmittedAreRecorded` | `AdmittedIsRecorded` |
| `ServerLifeProofs` | `TypeCorrect` | `TypeOK` |
| | `AllSignedByStored` | `SignedByStored` |
| | `AnsweredValidates` | `AnsweredKeyValidates` |
| | `GapsBounded` | `GapBounded` |

Assumed: the types of the constants as their modules' ASSUMEs state them, and
that `None` is none of the other values (`DeviceAdmission` compares it with kinds
of handlers and outcomes, too), and that `Unrecorded` is neither `None` nor the
number of a row; in `ServerLife` also `Latency <= Period`. TLC
evaluates every ASSUME in the runs. The bounds (`MaxFrames`, `MaxRegisters` and
so on) are constants of any size; the sets of connections, devices and handlers
need not even be finite. Each inductive invariant was model-checked on the
instance of its run before it was proved.

**SessionRelay.** The properties are not inductive. `IInv` adds: a connection has a seat exactly
from its join on (`Placed`); a cloned sender not yet used points across the room
(`Aimed`); a task that writes has a message at the head of its queue (`Busy`);
and what is queued or written came from across the room *to a connection that
had a seat* (`Heard`). The last part is what carries the argument: a join gives
a connection its session and seat, and since it had none before it is in nobody's
queue, so no old message changes its meaning. A forwarded frame uses an old
clone, but session and seat of a connection never change after its join, so the
clone still points across the room even when its owner has been evicted. A Leave
puts its Close across the room for the same reason; it clears both seats of its
id, hence the entry goes and nothing of the leaver stays. `SeatNotStolen` needs
only that `FreeSeat` hands out an empty seat and that Leave writes `None`.

Two more invariants rest on `IInv`. `Talk`: the two of a room have met
(`Paired`), whoever runs still has its seat or has been evicted
(`SeatOrEvicted`), and whoever has cloned a sender, queued a message or had one
written has met the receiver or has been evicted (`KnowsStays`: neither is ever
undone). The Close of a leaver goes to the other seat: a leaver that has its own
seat has met whoever is there (`OppositeKnown`), and one that has not has been
evicted, as in `session_close`. `Flow`: while c receives, what it has
written and what is queued for it (`Stream`) holds the frames of d without a gap,
and the number that follows the last one is d's counter, if d has cloned c's
sender and not used it, or the counter plus one, if d merely sits opposite. A
write moves a frame within the stream; a join makes only strangers face each
other, in whose streams there is nothing of the other; a failed write loses a
frame, but the task then receives no more.

**SessionTimers.** Two invariants carry the argument. `Lockstep`: the idle timer
and the time since the last frame add up to `Idle`, and the timer is overdue by
no more than the time spent in writes, since `Tick` in the loop needs `idle > 0`.
`SilenceIsBounded` follows. `Progress` follows a live client between two frames:
either the ticker still has to fire, and fires within `Ping` of the last frame
read plus what writes took, or a ping is being written, or the client owes a pong
of a known age, or the pong waits in `inbox`, where it is read before time
passes. In each case the silence is at most `Ping + Answer + blocked`, so a fired
idle timer leaves `blocked >= Idle - Ping - Answer`.

**AudioRelay.** An exit clears the task's own seat only, so, unlike in the
session relay, map and tasks mirror each other: every seat of the map belongs to
a running task that believes in it (`SeatsAreLive`), and every running task has
the seat it believes in (`SeatKept`). From the two together follows
that at most one task is about to send to a given connection (`OneSpeaker`),
which is what makes `InboxOf` a queue plus at most one pending frame. The
refinement then goes action by action: a lookup is `Say`, the send after it a
stutter, since the frame moves from the pending place to the queue; a join is
`Enter`, where the size of a room is the number of its taken seats; the end of a
loop is `GoDeaf`, a leave is `Exit`. A connection that has not joined holds no
frame (`Fresh`), so the room it enters starts without echoes.

**SignalingHub.** `IInv` says of each entry of the three maps where its task is:
an entry of `peers` belongs to a task between its insert and its removal, or to
one that has changed its device since (`Listed`); the same of `peer_channels`
(`Wired`) and, through the requester in the session id, of `sessions`
(`Recorded`). The entries that a change of device left are those of a device in
`been` that is not the current one (`Abandoned`). `EntriesAreLive` follows. `Alone` says that a task outside
`overlapped` shares its device with no other; then every entry that some step
inserts, overwrites or removes is another device's or its own, and its own are
in the maps (`Shown`), which gives `RegisteredAloneIsOnline`. For the answers,
`Excused` follows a session id from the request on its way through a channel to
the client that may answer: it is recorded, or its handler is about to record it,
or one of the excuses of `OnlyEarlyAnswersLost` applies already. For the lists,
a task between a change and its broadcast is `Untold`; every other step leaves
`Online` alone, and the broadcast puts the true list at the end of every queue,
full or not (`PushLast`).

The proof changed the model twice. `Owned` counted the *target* of a request as
the requester's own device, so that `overlapped`, and with it the exemption in
three properties, was larger than meant; it is tight now. And
`OnlyEarlyAnswersLost` did not hold beyond the bound of its run (section 7).

**SignalingLocks.** The handlers are sequences of awaits, and in each of them
what is kept is kept only over later locks (`Climbs`); the guards a task has and
the awaits it has left climb likewise (`Above`), which is `LocksInOrder`. With
`InLine` (who is in a queue awaits that lock, and is in it once) this gives
`NobodyDeadlocked`: take the last lock in the order that anybody waits for; a
task that kept a guard of it and waited would wait for a later one. FIFO queues,
where a writer holds up readers it does not conflict with, are covered, since
only the head of the queue counts.

**DeviceAdmission.** About the tables: whatever is older than a blocked
certificate of its serial is blocked (`Ordered`), so that `LIMIT 1` reads enough
(`LatestSpeaksForAll`). About a handler: `Sound` says, for each point between
two statements, what it has read and what of it still holds although the others
ran in between: a handler that must refuse is not past the status query and will
find the block there (`Refusing`); one without a cause to refuse will find
nothing (`Justified`); one for a first device whose own steps did not fail has
the row before it inserts the certificate (`OnRecord`). Whatever a REST handler or another Register does to the tables
either preserves these or sets `cause`, or clears `mustRefuse`, in the same step.

**ServerLife.** `Tasked` ties the tasks to the process (they run exactly while it
serves, and no INSERT is older than `Latency`). `Vouched` adds to
`SignedByStored` that a booting process that loaded a row holds that row, and a
serving one what is stored; a crash in `store_ca` is harmless because nothing was
signed yet or the row written is the one that was read. `AnsweredKeyValidates` is
inductive on top of `Tasked`. For the gap, `Covered` compares the generator's
next look at the clock (`Until`, negative while its INSERT is under way) with how
late its next row may be (`Late`, which grows by an hour and an INSERT per
failure): some key lasts to within `Late` of it, or, with no key left, the lapse
so far and the time still to wait fit into `Late`. What the lapse can add after
that is one INSERT.

Only model-checked: liveness (`DeadClientIsDropped`, `SessionEndsForBoth`,
`ViewsConverge`, `OnlyDenialsStall`, `AnswersGetThrough`), which under fairness is
out of the prover's reach. For the locks, `NobodyDeadlocked` is the part of it
that a state can show. The three properties that are violated (section 7) are,
of course, not theorems either.

## 7. Disagreements found

Three runs end in a violation, each with the code doing one thing and a comment
saying another (quotes and lines are in `PROJECT.json`):

- `session_close`: the exit takes whoever sits in the other seat *now*
  (session_relay.rs:133). Peers a and b; a leaves and evicts b; before b's task
  runs its exit, c and d meet under the same id; b's exit evicts both and sends
  a Close to one of them, who never sat opposite b.
- `session_hung`: while `ws.send` is awaited the idle timer is not polled.
- `hub_rejoin`: the cleanup (signaling.rs:291) removes the entries of its peer
  id without asking whether they are its own.

Seen while modelling, without a violating run of their own:

- The session is inserted after the request was sent (signaling.rs:246), so an
  answer that comes in between is dropped, although its comment says the session
  is remembered to route it. `OnlyEarlyAnswersLost` shows that nothing else is
  lost, unless the requester's device has a second connection.
- That second connection need not run beside the requester: the cleanup removes
  the sessions of its *device* (signaling.rs:293-296). A requester that asks as
  one device, registers as another, and comes back as the first, finds its
  session gone if another connection of the first device came and went meanwhile.
  This takes three Registers over one connection, more than the run `hub` makes
  (with three, TLC finds it in the property without its last disjunct); it came
  up when the proof for every number of Registers failed.
- A client that asks with a certificate, is refused and does not read its socket
  keeps the `peers` guard (signaling.rs:203-225): registrations, cleanups, new
  requests and broadcasts wait for as long as the write does. This is `Stalled`
  in `SignalingLocks`; `OnlyDenialsStall` shows that nothing else stalls.
- There is no idle timer in signaling.rs: a client that hangs stays listed.
- The server is without a valid key for a moment every hour, since the sleep
  starts after the INSERT, and for an hour after a failed one: `GapBounded` says
  how long at most. A rotation leaves the older keys valid; `create_master_key`
  is not called.
- A second Register with another serial over one connection overwrites
  `current_id` (signaling.rs:191); the cleanup removes the last id only, and the
  first stays listed for ever, with its sessions. `EntriesAreLive` exempts
  entries of a device that the connection has been and is no longer
  (`Abandoned`) and fails without the exemption.
- The `Err` arm of `issue_device_cert` (signaling.rs:174-176) logs and goes on: a
  first device is admitted, listed and told `Registered` without the row and the
  certificate that the comment at signaling.rs:159-160 announces, although no
  statement failed. TLC finds it when `AdmittedIsRecorded` does not exempt `sign`,
  with `DbFails` off, too.
- A first Register whose INSERTs fail is admitted and sent a certificate of
  which the database knows nothing (signaling.rs:163, `.ok()`); this, and the
  failed signature, is why `AdmittedIsRecorded` exempts four of the handler's own
  steps.
- A Register whose SELECT of the device or of its status fails takes the device
  for new, or for one without certificates (signaling.rs:82, 96), and admits it
  though it is blocked.
- A block that falls after the status query of a running Register is not seen by
  it, and nothing asks again while the device stays connected.
- `verify_device_binding` reads the subject of a certificate and neither its
  signature nor a table, where its caller's comment says that the certificate was
  issued by this authority (signaling.rs:130-131). `Binds` models what it reads.
- The REST handlers call `issue_device_cert(serial, mac)` where it takes
  `(peer_id, serial)` (api.rs:114, 142). `BoundTo` models what such a
  certificate is bound to.
- `current_log_id` is never assigned, so no audit row is ever closed
  (signaling.rs:300).
- `verify_certificate` asks for the issuer "Spyware" (ca.rs:58), which is not in
  the name of an authority that `generate_ca` makes: a request with a
  certificate is always denied. The models do not rely on it.
- `db.rs` selects `users.is_admin`, which `schema.sql` does not create (migrated
  databases may have it): on a fresh database every `require_admin` fails, and
  the actions `GetCurrent` and `MakeKey` of `ServerLife` do not occur.

## 8. Not modelled, and why

- Heartbeats, Registered and Error answers: they change no state that another
  step reads. (Their writes are awaits of `SignalingLocks`.)
- Unbounded mpsc channels: memory is not a property of the interleavings.
- Which branch of a handler runs, in `SignalingLocks`; time, in every module but
  `SessionTimers` and `ServerLife`.
- Several servers on one database: two that boot at once on an empty table could
  sign with different authorities. The code runs one process per host.
- Users: login and `require_admin` read a table that only the command line
  changes.
- `close_audit_log` (unreachable), read-only REST queries, login (stateless),
  static files, logging.
- Key generation and signatures: external. `core/src/crypto.rs` is called by no
  program of the repository; the relay crate parses arguments and logs.
- Installation scripts, container files, log rotation.

## 9. Plan

Done: `SessionRelay`, `SessionTimers`, `TwoSeatRoom`, `AudioRelay`,
`SignalingHub`, `SignalingLocks`, `DeviceAdmission`, `ServerLife`, and the proofs
of section 6: every safety property of a passing run, and the one refinement.

Left to model:

- in `DeviceAdmission`, the answer of the REST block and unblock when their
  statement fails;
- in `SignalingLocks`, the time for which a denial to a slow client holds the
  others up.

Abstract specifications worth stating: for the session relay a room like
`TwoSeatRoom` whose members may be removed by an exit; for the hub a directory
(who is online, who asked whom).

Theorems worth proving next: what `TwoSeatRoom` itself implies (order and
completeness of what a member hears), carried over to `AudioRelay` by its
refinement; the refinement of an abstract room by `SessionRelay`; that only a
denial to a client makes another task wait on a socket, the safety part of
`OnlyDenialsStall`.
