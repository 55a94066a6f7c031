# TLA+ models of the SunGrid backend

The backend commands and polls RWK35 reclosers: operators POST maneuvers (TRIP,
CLOSE), a worker polls all devices in cycles, browsers follow over WebSockets.
This directory holds TLA+ modules for the parts where order, time and failure
matter, TLC configurations that check them on small instances, and proofs that
TLAPS checks for every value of the constants. Paths below are relative to
`src/`.

## Inventory

| Part | State it keeps | Operations | Talks to | What makes it correct |
|---|---|---|---|---|
| Maneuver endpoint, `apps/maneuvers/views.py` | Redis keys `maneuver:<id>` and `cooldown:<id>`, `ManeuverLog` rows | `maneuver_view` (ten numbered steps and a `finally`), audit list | Redis, telemetry table, recloser over TCP, channel layer | one maneuver of a project at a time; no frame during a cooldown; a truthful and complete audit log; the key goes away |
| Derived status, `apps/protocol/rwk35.py:555-633` | none | `extract_hot_fields`, `voltages_match`, `compute_derived_status` | called by poller and endpoint | the status is the documented one; what a lost point does to it is known |
| Frame receiver, `rwk35.py:85-143, 459-524` | bytes of a frame, deadlines | `recv_dnp3_frame`, `recv_solicited`, `flush_socket` and their async twins | a TCP stream | it returns in time, and misses no frame |
| Frame codec, `rwk35.py:18-82, 146-456` | none | CRC, `build_frame`, `strip_crc_blocks`, `parse_response` | the receiver's bytes | what is built is parsed back, whatever is cut off; no byte sequence makes it raise; a damaged header is refused |
| Polling worker, `apps/workers/.../poll_reclosers.py` | `shutdown_event`, `last_prune`, the cycle's results | `handle`, `poll_device`, `persist_points`, `broadcast_telemetry`, `mark_offline` | all enabled devices, database, channel layer | one device's failure costs no other its record; it stops when told, and only then |
| Prune command | none | delete old records | database | only old records go |
| Telemetry store and views, `apps/telemetry` | `TelemetryRecord`, points | `latest`, history, points | read by the endpoint's guard and by the health view | the newest record is the newest reading; a stale one is not shown |
| WebSocket consumers, `apps/telemetry/consumers.py` | group memberships | connect, disconnect, three events | channel layer | no event of its group is missed, told twice or late; no membership is left |
| Projects, users, roles, sessions, `apps/core` | `Project`, `User`, sessions | CRUD, login, logout, permission classes | everyone | only operators command; a project with an audit trail stays |
| Health views, `apps/core/views_health.py` | none | `live`, `ready`, `devices` | telemetry table, Redis | one missed poll is no outage, and an outage shows |
| Settings, URLs, admin, migrations, deployment | configuration | | | |

The hard behaviours are these. Requests run in threads of their own and share a
Redis lock with a TTL, no owner token and an unconditional DEL. The worker holds
readings for as long as the slowest device of the cycle takes, while maneuvers
store newer ones. Receive timeouts are per `recv` in one version and per frame
in the other. A response that is longer than its frame is parsed as far as it
came. The views judge a device by the age of a record that a cycle of 120 s
should have renewed. Browsers join and leave groups while events are sent.
Processes, Redis and devices fail between any two steps.
`PROJECT.json` lists each hazard at its line.

## Modules

| Module | Models | Kind |
|---|---|---|
| `Maneuver` | `maneuver_view` | state machine |
| `ManeuverGate` | what the endpoint promises to the recloser | abstract specification |
| `ManeuverRefinement` | the mapping from `Maneuver` to `ManeuverGate` | refinement |
| `DerivedStatus` | points to hot fields to status | functions and a small state machine |
| `Framing` | CRC, frames and CRC blocks | functions |
| `ParseResponse` | what a device sends, the line, and `parse_response` (EXTENDS `Framing`) | state machine over functions |
| `Receive` | one call of `recv_solicited[_async]` | timed state machine |
| `PollDevice` | its two callers, `poll_device` and `_read_after_command` (EXTENDS `Receive`) | timed state machine, composed |
| `PollCycle` | the worker's loop, its announcements, the telemetry table and its other writers | state machine |
| `Heartbeat` | the rhythm of the cycles, the age of the newest record, `devices` and `latest` | timed state machine |
| `Feed` | WebSocket connections, groups, and everyone who sends to them | state machine |
| `MCManeuver`, `MCDerivedStatus`, `MCParseResponse` | | symmetry, grids and messages for TLC |
| `ManeuverProofs`, `ManeuverRefinementProofs`, `DerivedStatusProofs`, `ParseResponseProofs`, `PollDeviceProofs` (with those about `Receive`), `PollCycleProofs`, `HeartbeatProofs`, `FeedProofs` | | theorems |

How they fit: `PollDevice` is what `PollCycle` takes as one step with three
outcomes (`DeviceAnswers` with or without points, `DeviceFails`), and its bound
on the time of that step is the reason why a cycle has a limit in `Heartbeat`.
`ParseResponse` starts where `Receive` ends, with a frame. `PollCycle`'s and
`Feed`'s maneuver steps are the `VerifyRead`, `Persist` and `Broadcast` of
`Maneuver`, of which there is one at a time per project as long as the mutex
holds.

### Maneuver

One project (projects share nothing here), a set of requests, each made once.
`pc[r]` is the step of the view that a request takes next; there is one step
for every point at which another request, the poller, Redis or a crash can be in
between. Steps of the code with an outcome that another party decides have one
action per outcome:

| Code | Actions |
|---|---|
| admission, lines 86-92 | `Arrive`, `TurnAway` |
| 1 mutex, 97-125 | `Acquire`, `LockBusy`, `LockError` |
| 2 cooldown, 127-140 | `CooldownRefuses`, `CooldownPasses` |
| 3 guard, 142-162 | `GuardNoTelemetry`, `GuardRefuses`, `GuardPasses` |
| 4 ping, 164-177 | `PingFails`, `PingAnswers` |
| 5 control frame, 179-196, 51-63 | `SendFails`, `SendFrame`, `ReplyOrTimeout`, `ReplyFails` |
| 6 verification read, 199, 66-83 | `VerifyRead` |
| 7-10, 201-255 | `Persist`, `WriteLog`, `SetCooldown`, `Broadcast` |
| any uncaught exception | `Abort` |
| `finally`, 257-259 | `Release` |
| process killed, time, Redis restart | `Crash`, `Tick`, `RedisRestarts` |
| the poller's records | `PollerPersists` |

A Redis key is the number of ticks that its TTL has left, so that time is
finite without a bound. `owner`, `sent` and `announced` are history: the code
does not have them. `LockError` covers a SET that ran although its reply was
lost. `Release` covers a DEL that fails and is suppressed. The control and the
reply frame are not looked into; an audit row is its request and its result.

`HoldLimit` is the longest time, in ticks, that a request stays in its try
block. It is not in the code: each call has a timeout, but the timeouts of a
receive are per `recv`, so the sum has no bound. Properties that need the
mutex are stated for `HoldLimit < MutexTTL` and a Redis that keeps its keys
(`Prompt`), and a run shows what happens without.

### DerivedStatus

`hot` is a partial function from fields to voltages in units of 100 V. `Extract`
takes one point after the other, online or not; `Derive` computes the status.
Only the six voltage fields are followed, since the status depends on no other.
A voltage may be `NaN`, with which every comparison is false: `AtMost(v, x)` and
`~Above(v, x)` are not the same, and each condition of the code is written with
the comparison that it has.

### Framing and ParseResponse

`Framing` computes on bytes; a register of the CRC is the set of its bits. Two
of its facts are checked once by TLC as assumptions of `MCParseResponse`: the
frames that the code writes out in hexadecimal are what `build_frame` makes of
their payload (`WrittenFramesFit`), and the receiver asks for exactly the bytes
of a frame, for every length a frame can have (`LengthFits`).

In `ParseResponse` a message is a function code, a list of objects, a cut and
the bits that turn. `Received` encodes it as a device does and cuts it where the
frame ends. `Answers` are the responses to a READ, complete or cut off, in which
nothing has turned; `DeviceAssumption` says that such a response is `WellFormed`:
an object has a qualifier of its kind, the indexes of a range follow each other,
numbers fit their bytes, and what the parser does not know looks like nothing it
knows. TLC checks it of the messages of `MCParseResponse`; other messages, noise
among them, need not satisfy it. The parser's outer loop is the mode `header`, its inner loops the
mode `points`; there is one action per way on: `Begin`, `BeginObject`,
`StopParsing`, `NextPoint`, `EndObject`. The code has its loops five times, for
each qualifier and kind; `Kinds` is the table of their differences. What a value
is as a float is left out: a value is its bytes and its factor. Which values
Python finds different after rounding (`change_count` counts those) is the
parameter `Differs`; the proofs hold for any, and `MCDiffers` is as exact as the
checked messages need it.

### Receive and PollDevice

Bytes come one at a time and cost no time; time passes in ticks. The timer
`quiet` restarts with each byte in the blocking version (`settimeout`), and with
each frame in the async one (`wait_for` around the frame). `clock` is cut at
`Horizon`, beyond which no test of the code tells times apart. Chunks of more
than one byte are several byte steps at the same time. A frame is `final`,
`partial` or `other`; lengths are `HeaderRest` and at most `MaxPayload`.

`PollDevice` puts the call into its two callers. `stage` follows the code:
connect, flush, send, receive, close. `spent` adds up the ticks of all timers,
but not what a chunk adds to a flush (`FlushChunk` takes it back) and not
`drain` and `wait_closed`, for which the code has no limit: `PollBounded` says
that nothing else can make a poll longer. `CloseLine` has the outcome that
`wait_closed` raises in the finally clause.

### PollCycle

The worker's `wpc` follows `handle`: `head`, `gather`, `serve`, `toProject`,
`toAll`, `prune`, `wait`. Readings are numbered in the order in which they were
taken, and `newest` is the number of the reading in the newest record of a
project, so an overtaking shows as a step back. Maneuvers appear with their two
relevant steps, one at a time per project as `Maneuver` has it. Records are
stamped with the time of their insert, so the record inserted last is the
newest. `stored`, `toldProject` and `toldAll` are history of the running cycle.
`MaxReadings` bounds the readings taken.

### Heartbeat

One project and the worker's clock. `age` is the age of the newest record's
`cycle_timestamp`, cut off past `StaleAfter`; `Online` and `Shown` are the
conditions of the two views. A cycle comes to the project at any moment up to
`CycleLimit` (`Stores`, `Fails`, `Skips`), the wait ends with the interval, and
a worker that has ended may be started at any time. `missed` counts the cycles
without a record since the newest one, whoever stored it.

### Feed

A connection goes from `new` to `joining`, `joined` (after `group_add`), `open`
(after `accept`), `leaving` and `gone`. The channel layer is not code of this
repository and is modelled from its use: a queue per channel that drops when it
is full, memberships that can be lost, sends that fail before or after Redis has
run them. `lossy` and `abandoned` remember which connections the layer or the
death of a process has failed; the properties speak of the others. Records are
numbered in the order in which they are stored, so that old and new can be told
apart in what a client hears.

## Runs

| Run | Instance | Shows |
|---|---|---|
| `ManeuverPrompt` | 3 requests, TTL 3, cooldown 2, hold 2 | mutual exclusion, own DEL, cooldown up to the send, guard changed by the poller alone, sound and complete audit, `ManeuverGate` implemented; types and the inductive invariant of the proofs |
| `ManeuverDegraded` | 2 requests, TTL 1, hold 0, Redis may forget | the audit log stays sound and complete with no mutex at all; every admitted request is answered or its process dies; an abandoned key goes |
| `ManeuverOverrun` | 2 requests, hold 2 = TTL | finding: two maneuvers at once |
| `DerivedStatus` | six points, each offline, NaN or one of six voltages | OPEN exactly as documented; full power is CLOSED; a lost point turns OPEN and CLOSED into each other in two cases only |
| `DerivedStatusDoc` | the same | finding: CLOSED where the docstring says ERROR |
| `PollCycle` | 2 projects, 2 readings, with and without `--once` | answers are stored, announcements agree, the newest record goes back only across writers; a signal stops the worker, `--once` ends, otherwise it polls again |
| `PollDevice` | both callers; timeout 3, connect 2, gap 1; header 2, payload up to 2 | a poll is bounded by its timers and ends, a verification read ends when the device falls silent, an empty answer means two READs that were answered badly or not at all; a lone start byte is never missed |
| `ParseResponse` | 1-2 of 7 objects cut at every byte, noise, one frame with any one or two header bits turned behind 05 64 | what was sent is parsed back, a cut loses no whole point, no read past the end, a damaged header yields nothing |
| `ParseResponseCut` | the same | finding: a left-over CRC becomes a point |
| `Heartbeat` | one tick is 30 s: interval 4, cycle 2, online 10, stale 12 | one miss is forgiven, an outage shows, an enabled project is taken up |
| `Feed` | 1 connection, 2 projects, queue of 2, 3 records, 3 events | nothing missed, told in order, no trace left |
| `FeedGlobal` | 2 connections, 1 project | finding: the global route never hears of a maneuver |

Why the bounds are enough. Three requests have a holder, a waiter and a third
who arrives when the first is gone; every pairwise race needs two. A TTL of
three with a hold of two lets a key be fresh, used up to its last tick, and
abandoned. `ManeuverDegraded` lets Redis drop a key under its holder at any
step, which for the view is what an expiry is; that the audit log also survives
expiries, and any other TTLs, is what `AuditStepwise`, `AuditTrue` and `AuditBacks` prove.
The six voltages of `MCDerivedStatus` lie on each side of each threshold: 0.1
kV, 4 kV, 6 kV, and the 5% band of 6 kV (57) and of 4.2 kV (40). Two projects
are one that fails and one that must not notice; two readings are what an
overtaking needs. A timeout of three ticks and frames of up to four bytes after
05 64 let a frame begin before the deadline and end after it with bytes spread
over all ticks, in each of two attempts; that `PollBounded` and `BoundedByTwice`
hold for any of these numbers is proved. Each kind, qualifier and the end of a
block and of its CRC occur in the objects of `MCParseResponse`, and two objects
are what is left of one and taken for the header of another; the values are
chosen to look like headers. In `Heartbeat` the numbers are the code's, but for
`CycleLimit`: `poll_device` takes up to 5 s to connect, twice 2 x 10 s to
receive and three times 0.3 s to flush, 46 s in all, and 60 s leave the rest
for the database. A Redis that does not answer costs 2 s per project, so that from some
seven failing announcements on the assumption of `OneMissForgiven` is gone. One
connection is enough for `Feed`: connections share nothing but the groups, and
what one does changes no other's queue; its run has two projects for the group
that is not its own. What the run checks of it is proved for any number of
connections, projects and events and any capacity. Three events overflow a queue of two.
Deadlock is left unchecked where the modelled call or the bounded history ends:
`DerivedStatus`, `PollDevice`, `ParseResponse`, `Feed`.

## Fairness

`Maneuver`: time passes, and a request that is not killed takes its next step,
since each call of the view has a timeout (Redis 2 s, ping, connect 5 s, reply
10 s, read 8 s, channel 2 s). For the receives this assumes a device that does
not trickle bytes for ever. Clients, the poller, crashes and Redis restarts
are not fair. `PollCycle`: the worker's step is fair as a whole, for the same
reason; flushes extend their deadline with each chunk, and `drain` and
`wait_closed` have no timeout, so this assumes devices that fall silent for 0.3
s and take their bytes. A worker step is also the failure of a database
call, so fairness does not promise that the database works. `PollDevice`:
time passes, timers raise and the code goes on (`Progress`); bytes never have to
come, and chunks never have to stop, so that `PollReturns` and `ReadReturns`
assume what they need of the device by name. `ParseResponse`: the parser waits
for nobody. `Heartbeat`: time passes, and a worker that is not ended goes on;
that its steps come in time is in the guard of `Tick`, from `PollBounded`.

## Proofs

All proofs are checked to the last leaf, from the named assumptions on the
constants (`ConstantsAssumption`, `LevelsAssumption`, `NumbersAssumption`,
`LimitsAssumption`, `RefinementAssumption`, and three about the surroundings:
`BytesAssumption`, a socket gives bytes; `DeviceAssumption`, what answers a READ
encodes its objects as DNP3 has them; `GroupsAssumption`, `telemetry` is the name
of no project's group). Every safety invariant and action property that a passing
run checks is a theorem, but for `DamageRefused`. TLC has checked each inductive
invariant before it was proved.

`ManeuverProofs`. `TypeCorrect` has one step per action. Mutual exclusion is
not inductive: it does not say why a second SET NX must fail. The invariant
`HolderKeepsMutex` does (`MutexHeld`): the key of a request in its try block is
its own, and `mutex + held[r] >= MutexTTL`, so under `Prompt` the key exists as
long as its holder is there; and a cooldown found missing stays missing up to
the send, since only a holder sets one. From it follow `Exclusion`,
`OwnRelease`, `CooldownStands` and `GuardStable`, each with `Prompt` as its
assumption. The audit log needs no assumption: `AuditInStep` ties the step that
a request has reached to its frame, its row and its answer, and each action
touches the row and the answer of one request only (lemma by lemma for the ways
out of the view: audited, unaudited, locked, released). It is `AuditStepwise`,
and `AuditTrue` and `AuditBacks` follow.

`ManeuverRefinementProofs`. `Implementation`: under `Prompt`, each action maps
to `Start`, `Command`, `StartCooling`, `Finish`, `StopCooling` or to a stutter.
`Exclusion` makes the mapping's CHOOSE the one request in the try block.

`DerivedStatusProofs`. `StatusCorrect` and `LossEffect`, for any set of
integer voltages and NaN, from lemmas about the functions: OPEN is derived
exactly when documented (`OpenExactly`), what one field less leaves of each
condition (`OneLoss`), and that without a live input the match of voltages has
nothing to compare and holds (`NothingToCompare`). So the loss of a point is not
harmless: with an input of 5.7 kV and an output of 3.0 kV the status is OPEN, and
CLOSED once the input's point is lost. `EffectOfOneLoss` says of every loss what
it does, and that OPEN with a second live input and power on all outputs are safe.

`PollCycleProofs`. `NoAnswerLost` and `OneStoryTold`, with `CycleInStep` as the
invariant: what is left to serve, stored and told fits what gather returned.
`OrderedByWriter` says of each step that stores what made it go back. Its
invariant `ReadingsInOrder` adds where the number of a reading can be: none is
above the last one taken, and what a writer holds until it stores is no older
than the project's newest record if that writer is the one who stored it;
`WhoStores` says that only the two writers replace one record by another.

`PollDeviceProofs`. `Bounded`, for any timeout: `BegunInTime` says how much of
the clock the frame being read may have used. `PollWithinLimit`: `PollInv` says
at each stage what the stages before it have spent at most (`Before`), and cites
the lemmas about the receiver for what an answer may cost. The caller's steps
are steps of the receiver, or leave it alone, or set it up anew
(`PollMovesReceiver`), so that what is inductive in `Receive` is in the
conversation: `AnswerWithinTwice`, and `StartByteFound` from `HuntInStep`, which
ties the byte that the hunt remembers to the last byte that came. `ResultTold`
needs `StagesInStep`: which results, attempts and outcomes each stage can have.

`ParseResponseProofs`, about the functions. `PayloadKept` is about the functions alone, for payloads
of any length: byte j of the payload stands at a place of the raw bytes that
`strip_crc_blocks` takes byte j from (`PlaceInBlock`), and what is left over is
at most two bytes. `FrameAccepted` puts the header before it: the checksum that
`build_frame` writes is the one that `validate_header_crc` computes, whatever
the function CRC is, and what follows are the blocks. `NeverRaises`: `InBounds`
is inductive, since each read is behind its own guard. `CountedRight` is the
part of `Faithful` that is about the counters, for any bytes: the point before
of the same index is the greatest of the earlier places, which exists
(`LastPlace`, by well-foundedness), and its counts, one more report and perhaps
one more change are those of the new point. `TypeCorrect` follows.

The round trip, for any number of objects, samples and bytes: `ParsedAsSent` (the
points of a whole response are the readings the device encoded) and
`CutKeepsWhatArrived` (those of a response that is cut off begin with all readings
that arrived whole). Neither property says anything before the parser is done, so
the invariant `Kept` says where it stands in what was sent (`OnTrack`): in front of
the header of the n-th object with the readings of those before it (`AtObject`), in
this object with its first k readings (`InObject`), or past all that arrived
(`AllRead`). The last case is what the left-over CRC asks for: what the parser
still takes from those two bytes comes after what arrived, and of a whole response
they are too short for a header. The argument has four parts. `FlattenSeq`, which
puts objects and readings in a row, is defined by a recursive function; that one
exists, and what it gives for one sequence more, follows by induction on a set of
numbers, from a well-founded order (`InductionSet`). From it comes where each byte
of a response stands (`ObjectBytes`, `FragmentPlaces`, `KnownPlaces`). What the
parser reads there is what was written (`HeaderRead`, `SampleRead`). And what
`WhollyReceived` counts, whose definition knows nothing of the parser, is what it
has read when it leaves an object, at its end or at the cut (`WhollyAt`,
`WhollyIn`). `FrameRead` begins it: a frame in which no bit has turned is accepted.

`HeartbeatProofs`. `MissForgiven` and `OutageSeen`: the invariant `AgeInv`
bounds the age from above by what has passed of the cycle and the cycles missed,
and from below by the intervals that the misses have taken. It needs
`LimitsAssumption`, which is what the constants of the worker and of the views
must satisfy together.

`FeedProofs`. `StepKinds` sorts all steps: of a connection, of the layer that
forgets, a send (`SendStep`, with the event and the group), and what a publisher
does in silence. `NoTraceLeft`: `LeavesNoTrace` is not inductive, since it does
not say that one who is refused was never added; `Membership` does, and
`Subscribed` is its converse for the connections that the layer has not failed.
With both, an event reaches a served connection exactly if it is for its group,
so that what is due and what is heard grow alike (`FollowsSend`) and `NoneMissed`
follows. `ToldOrderly`: `InOrder` does not say what may still come, so `Tidy`
holds what a client has heard against the records stored and against those that
the worker and a maneuver are about to announce: these are newer than every
event of their kind so far, and after the outcome of a maneuver at most one
update is older. One lemma for each kind of event that is added (`TidyUpdate`,
`TidyDone`, `TidyOther`), one for what goes on unheard (`TidyLater`), one for
what is lost (`TidyPrefix`).

Model-checked only: the liveness properties (`Answered`, `MutexFreed`,
`SignalStops`, `PollsForever`, `OnceEnds`, `PollReturns`, `ReadReturns`,
`Terminates`, `TakenUp`), which rest on fairness, beyond what the prover does;
and `DamageRefused`. That no one or two turned bits keep the checksum is a fact
about the values of the CRC, over every header and pattern, and it holds of the
damages in `Messages` only: more bits may well cancel each other. The proofs above
hold for whatever function the CRC is.

## Findings

1. A maneuver that takes longer than 60 s runs without its mutex
   (`views.py:100`), and its DEL then frees whoever has it (`views.py:259`).
2. `compute_derived_status` derives CLOSED from partial readings that its
   docstring calls ERROR (`rwk35.py:629`), and from NaN; an OPEN reading that loses
   its only live input is such a one.
3. `strip_crc_blocks` leaves the last block's CRC in place (`rwk35.py:79`). A
   whole response hides it, since two bytes are no header; of one that is cut off
   inside an object they become a point that was never sent.
4. The global WebSocket route "(all projects)" (`consumers.py:12`) hears of no
   maneuver and of no outage (`views.py:242`, `poll_reclosers.py:185`).

Smaller disagreements between texts and code that the models show but no run is
spent on: "Another maneuver is in progress" (`views.py:110`) may be said of a key
that nobody holds any more; the "last successful poll" of `devices`
(`views_health.py:49`) is the newest record, which a maneuver may have stored
without an answer; `recv_solicited` returns a response without FIN at its
deadline (`rwk35.py:507`), against its docstring.

## Not modelled

- Floats as numbers (rounding, the factor of 1000), names and time stamps of
  points, and what the tables of points hold beside the voltages: no decision
  rests on them.
- `drain` and `wait_closed` as waits: the code gives them no limit, and
  `PollDevice` says what holds without them. `flush_socket` has no caller.
- Which READ an answer belongs to: the code does not look.
- Sessions, roles and the user CRUD: single-row operations of Django and its REST
  framework. That somebody who may not command is turned away is a step of
  `Maneuver`.
- `prune_telemetry` run by hand; `live` and `ready`; `history` and
  `points_detail`, which only read.
- The admin site, URLs, migrations, settings and deployment, which hold no logic
  of their own.

## Plan

1. `PollCycle` from `PollDevice`: a mapping under which a conversation is the one
   step that the cycle sees.
2. A composition of `Maneuver` and `PollCycle` over one telemetry table, with
   `PollCycle`'s maneuver steps shown to be implemented by `Maneuver`.
3. What `ManeuverGate` promises (a command only while one maneuver is on, none
   while cooling) as theorems of the abstract specification.
4. `DamageRefused` for any header: the CRC is linear, so it is a fact about the
   finitely many patterns of one or two bits.
