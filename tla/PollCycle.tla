----------------------------- MODULE PollCycle -----------------------------
(***************************************************************************)
(* The polling worker (workers/management/commands/poll_reclosers.py) and  *)
(* those it shares the telemetry table with.  A cycle asks all enabled     *)
(* devices at once, waits for the slowest, and then stores and announces   *)
(* the answers one project after the other:                                *)
(*                                                                         *)
(*   head -> gather -> serve <-> toProject -> toAll -> serve               *)
(*                     serve -> prune -> wait -> head                      *)
(*                                                                         *)
(* Meanwhile administrators disable and delete projects, signals arrive,   *)
(* and maneuvers store the reading they took after their control frame.    *)
(*                                                                         *)
(* The readings of all devices are numbered in the order in which they     *)
(* were taken; 0 stands for no reading.                                    *)
(***************************************************************************)
EXTENDS Naturals

CONSTANTS
    Projects,       \* the rows of core.Project
    MaxReadings     \* bound on the readings taken

ASSUME ConstantsAssumption == MaxReadings \in Nat

VARIABLES
    once,           \* whether the command runs with --once
    wpc,            \* where handle() is
    shutdown,       \* shutdown_event
    pruneDue,       \* whether last_prune is None or a day old
    row,            \* enabled, disabled or deleted
    result,         \* what gather returned for a project of the cycle
    points,         \* the reading that the worker holds of a project
    todo,           \* projects of the cycle that are not served yet
    serving,        \* the project whose record is being announced
    taken,          \* readings taken so far
    verify,         \* the readings that maneuvers hold, not stored yet
    newest,         \* the reading of the newest TelemetryRecord
    writer,         \* who stored that record
    aged,           \* projects whose newest record is past its retention
    stored,         \* history: projects given a record in this cycle
    toldProject,    \* history: what project_<id> was sent in this cycle
    toldAll         \* history: projects told of to "telemetry" in this cycle

worker  == <<wpc, pruneDue, result, points, todo, serving>>
table   == <<newest, writer, aged>>
history == <<stored, toldProject, toldAll>>
vars    == <<once, worker, shutdown, row, taken, verify, table, history>>

Rows == {"enabled", "disabled", "deleted"}
Over == {"stopped", "dead"}

Init ==
    /\ once \in BOOLEAN
    /\ wpc = "head"
    /\ shutdown = FALSE
    /\ pruneDue = TRUE
    /\ row = [p \in Projects |-> "enabled"]
    /\ result = [p \in Projects |-> "none"]
    /\ points = [p \in Projects |-> 0]
    /\ todo = {}
    /\ serving \in Projects
    /\ taken = 0
    /\ verify = [p \in Projects |-> {}]
    /\ newest = [p \in Projects |-> 0]
    /\ writer = [p \in Projects |-> "nobody"]
    /\ aged = {}
    /\ stored = {}
    /\ toldProject = [p \in Projects |-> {}]
    /\ toldAll = {}

-----------------------------------------------------------------------------
(* The cycle.                                                              *)

\* Mutant: the loop does not look at shutdown_event.
BeginCycleDeaf ==
    /\ wpc = "head"
    /\ wpc' = "gather"
    /\ todo' = {p \in Projects : row[p] = "enabled"}
    /\ result' = [p \in Projects |-> IF p \in todo' THEN "asked" ELSE "none"]
    /\ points' = [p \in Projects |-> 0]
    /\ stored' = {}
    /\ toldProject' = [p \in Projects |-> {}]
    /\ toldAll' = {}
    /\ UNCHANGED <<once, pruneDue, serving, shutdown, row, taken, verify, table>>

\* The loop tests shutdown_event and lists the enabled projects.
BeginCycle ==
    /\ wpc = "head"
    /\ ~shutdown
    /\ wpc' = "gather"
    /\ todo' = {p \in Projects : row[p] = "enabled"}
    /\ result' = [p \in Projects |-> IF p \in todo' THEN "asked" ELSE "none"]
    /\ points' = [p \in Projects |-> 0]
    /\ stored' = {}
    /\ toldProject' = [p \in Projects |-> {}]
    /\ toldAll' = {}
    /\ UNCHANGED <<once, pruneDue, serving, shutdown, row, taken, verify, table>>

LeaveLoop ==
    /\ wpc = "head"
    /\ shutdown
    /\ wpc' = "stopped"
    /\ UNCHANGED <<once, pruneDue, result, points, todo, serving, shutdown, row,
                   taken, verify, table, history>>

\* poll_device returns points, after one or two READs.
DeviceAnswers(p) ==
    /\ wpc = "gather"
    /\ result[p] = "asked"
    /\ taken < MaxReadings
    /\ taken' = taken + 1
    /\ points' = [points EXCEPT ![p] = taken']
    /\ result' = [result EXCEPT ![p] = "points"]
    /\ UNCHANGED <<once, wpc, pruneDue, todo, serving, shutdown, row, verify, table,
                   history>>

\* Mutant: a silent device is asked again until it answers.
DeviceRetried(p) ==
    /\ wpc = "gather"
    /\ result[p] = "asked"
    /\ UNCHANGED vars

\* Neither READ is answered with points, or poll_device raises and gather
\* returns the exception.
DeviceFails(p) ==
    /\ wpc = "gather"
    /\ result[p] = "asked"
    /\ \E outcome \in {"empty", "error"} : result' = [result EXCEPT ![p] = outcome]
    /\ UNCHANGED <<once, wpc, pruneDue, points, todo, serving, shutdown, row, taken,
                   verify, table, history>>

GatherReturns ==
    /\ wpc = "gather"
    /\ \A p \in Projects : result[p] # "asked"
    /\ wpc' = "serve"
    /\ UNCHANGED <<once, pruneDue, result, points, todo, serving, shutdown, row,
                   taken, verify, table, history>>

\* Mutant: the first project in error ends the cycle.
ServeErrorBreaks(p) ==
    /\ wpc = "serve"
    /\ p \in todo
    /\ result[p] = "error"
    /\ todo' = {}
    /\ UNCHANGED <<once, wpc, pruneDue, result, points, serving, shutdown, row,
                   taken, verify, table, history>>

\* Mutant: the event's type is misspelt.
ServeErrorMisspelt(p) ==
    /\ wpc = "serve"
    /\ p \in todo
    /\ result[p] = "error"
    /\ toldProject' = [toldProject EXCEPT ![p] = @ \cup {"device_offline"}]
    /\ todo' = todo \ {p}
    /\ UNCHANGED <<once, wpc, pruneDue, result, points, serving, shutdown, row,
                   taken, verify, table, stored, toldAll>>

\* mark_offline tells the project's group; an error is suppressed.
ServeError(p) ==
    /\ wpc = "serve"
    /\ p \in todo
    /\ result[p] = "error"
    /\ toldProject' \in {toldProject,
                         [toldProject EXCEPT ![p] = @ \cup {"device.offline"}]}
    /\ todo' = todo \ {p}
    /\ UNCHANGED <<once, wpc, pruneDue, result, points, serving, shutdown, row,
                   taken, verify, table, stored, toldAll>>

ServeEmpty(p) ==
    /\ wpc = "serve"
    /\ p \in todo
    /\ result[p] = "empty"
    /\ todo' = todo \ {p}
    /\ UNCHANGED <<once, wpc, pruneDue, result, points, serving, shutdown, row,
                   taken, verify, table, history>>

\* persist_points: the record is stamped with the time of the insert, not with
\* the time of the reading, and so becomes the newest.  A project that was
\* disabled meanwhile gets it as well.
PersistPoints(p) ==
    /\ wpc = "serve"
    /\ p \in todo
    /\ result[p] = "points"
    /\ row[p] # "deleted"
    /\ newest' = [newest EXCEPT ![p] = points[p]]
    /\ writer' = [writer EXCEPT ![p] = "poller"]
    /\ aged' = aged \ {p}
    /\ stored' = stored \cup {p}
    /\ todo' = todo \ {p}
    /\ serving' = p
    /\ wpc' = "toProject"
    /\ UNCHANGED <<once, pruneDue, result, points, shutdown, row, taken, verify,
                   toldProject, toldAll>>

\* Mutant: a failure of the first send is ignored by itself.
AnnounceAnyway ==
    /\ wpc = "toProject"
    /\ toldProject' \in {toldProject,
                         [toldProject EXCEPT ![serving] = @ \cup {"telemetry.update"}]}
    /\ wpc' = "toAll"
    /\ UNCHANGED <<once, pruneDue, result, points, todo, serving, shutdown, row,
                   taken, verify, table, stored, toldAll>>

\* broadcast_telemetry: the project's group first, then the group of all; the
\* first failure ends it and is ignored.
AnnounceToProject ==
    /\ wpc = "toProject"
    /\ \/ /\ toldProject' = [toldProject EXCEPT ![serving] = @ \cup {"telemetry.update"}]
          /\ wpc' = "toAll"
       \/ UNCHANGED toldProject /\ wpc' = "serve"
    /\ UNCHANGED <<once, pruneDue, result, points, todo, serving, shutdown, row,
                   taken, verify, table, stored, toldAll>>

AnnounceToAll ==
    /\ wpc = "toAll"
    /\ toldAll' \in {toldAll, toldAll \cup {serving}}
    /\ wpc' = "serve"
    /\ UNCHANGED <<once, pruneDue, result, points, todo, serving, shutdown, row,
                   taken, verify, table, stored, toldProject>>

\* Mutant: --once skips the prune and goes on.
CycleServedForEver ==
    /\ wpc = "serve"
    /\ todo = {}
    /\ wpc' = IF pruneDue /\ ~once THEN "prune" ELSE "wait"
    /\ UNCHANGED <<once, pruneDue, result, points, todo, serving, shutdown, row,
                   taken, verify, table, history>>

\* All are served: --once returns, else the daily prune is due or not.
CycleServed ==
    /\ wpc = "serve"
    /\ todo = {}
    /\ wpc' = IF once THEN "stopped" ELSE IF pruneDue THEN "prune" ELSE "wait"
    /\ UNCHANGED <<once, pruneDue, result, points, todo, serving, shutdown, row,
                   taken, verify, table, history>>

\* prune_telemetry: records past their retention go.
Prune ==
    /\ wpc = "prune"
    /\ newest' = [p \in Projects |-> IF p \in aged THEN 0 ELSE newest[p]]
    /\ writer' = [p \in Projects |-> IF p \in aged THEN "nobody" ELSE writer[p]]
    /\ aged' = {}
    /\ pruneDue' = FALSE
    /\ wpc' = "wait"
    /\ UNCHANGED <<once, result, points, todo, serving, shutdown, row, taken,
                   verify, history>>

\* The wait ends with the interval or with the signal.
WaitEnds ==
    /\ wpc = "wait"
    /\ wpc' = "head"
    /\ UNCHANGED <<once, pruneDue, result, points, todo, serving, shutdown, row,
                   taken, verify, table, history>>

\* A database call of the worker raises, and nothing catches it: listing the
\* projects, storing a record (a deleted project violates the foreign key) or
\* pruning.  The process is over.
DatabaseRaises ==
    /\ \/ wpc = "head" /\ ~shutdown
       \/ wpc = "serve" /\ \E p \in todo : result[p] = "points"
       \/ wpc = "prune"
    /\ wpc' = "dead"
    /\ UNCHANGED <<once, pruneDue, result, points, todo, serving, shutdown, row,
                   taken, verify, table, history>>

-----------------------------------------------------------------------------
(* The others.                                                             *)

\* SIGTERM or SIGINT.
Signal ==
    /\ wpc \notin Over
    /\ shutdown' = TRUE
    /\ UNCHANGED <<once, worker, row, taken, verify, table, history>>

DayPasses ==
    /\ pruneDue' = TRUE
    /\ UNCHANGED <<once, wpc, result, points, todo, serving, shutdown, row, taken,
                   verify, table, history>>

RecordAges(p) ==
    /\ newest[p] > 0
    /\ aged' = aged \cup {p}
    /\ UNCHANGED <<once, worker, shutdown, row, taken, verify, newest, writer,
                   history>>

\* ProjectViewSet: an update of enabled, or a delete, which takes the records
\* along.  (Rows of ManeuverLog protect their project; whether it has any is
\* not followed here, so it may be deleted at any time.)
SwitchProject(p) ==
    /\ row[p] # "deleted"
    /\ \E e \in {"enabled", "disabled"} : row' = [row EXCEPT ![p] = e]
    /\ UNCHANGED <<once, worker, shutdown, taken, verify, table, history>>

DeleteProject(p) ==
    /\ row[p] # "deleted"
    /\ row' = [row EXCEPT ![p] = "deleted"]
    /\ newest' = [newest EXCEPT ![p] = 0]
    /\ writer' = [writer EXCEPT ![p] = "nobody"]
    /\ aged' = aged \ {p}
    /\ verify' = [verify EXCEPT ![p] = {}]
    /\ UNCHANGED <<once, worker, shutdown, taken, history>>

\* Mutant: maneuvers of a project are not kept apart.
ManeuverReadsUnlocked(p) ==
    /\ row[p] # "deleted"
    /\ taken < MaxReadings
    /\ taken' = taken + 1
    /\ verify' = [verify EXCEPT ![p] = @ \cup {taken'}]
    /\ UNCHANGED <<once, worker, shutdown, row, table, history>>

\* _read_after_command takes a reading, one maneuver of a project at a time
\* (module Maneuver); the project was enabled when the maneuver began.  A read
\* without an answer ends in an empty ERROR record, a reading like any other.
ManeuverReads(p) ==
    /\ row[p] # "deleted"
    /\ verify[p] = {}
    /\ taken < MaxReadings
    /\ taken' = taken + 1
    /\ verify' = [verify EXCEPT ![p] = {taken'}]
    /\ UNCHANGED <<once, worker, shutdown, row, table, history>>

\* Step 7 of maneuver_view: the record is stored, or that fails.
ManeuverPersists(p) ==
    \E v \in verify[p] :
        /\ newest' = [newest EXCEPT ![p] = v]
        /\ writer' = [writer EXCEPT ![p] = "maneuver"]
        /\ aged' = aged \ {p}
        /\ verify' = [verify EXCEPT ![p] = @ \ {v}]
        /\ UNCHANGED <<once, worker, shutdown, row, taken, history>>

ManeuverFails(p) ==
    \E v \in verify[p] :
        /\ verify' = [verify EXCEPT ![p] = @ \ {v}]
        /\ UNCHANGED <<once, worker, shutdown, row, taken, table, history>>

WorkerStep ==
    \/ BeginCycle \/ LeaveLoop \/ GatherReturns
    \/ \E p \in Projects :
          \/ DeviceAnswers(p) \/ DeviceFails(p)
          \/ ServeError(p) \/ ServeEmpty(p) \/ PersistPoints(p)
    \/ AnnounceToProject \/ AnnounceToAll
    \/ CycleServed \/ Prune \/ WaitEnds \/ DatabaseRaises

Next ==
    \/ WorkerStep
    \/ Signal \/ DayPasses
    \/ \E p \in Projects :
          \/ RecordAges(p) \/ SwitchProject(p) \/ DeleteProject(p)
          \/ ManeuverReads(p) \/ ManeuverPersists(p) \/ ManeuverFails(p)

Spec == Init /\ [][Next]_vars

\* The worker goes on: connects, READs and group sends have timeouts.  (A flush
\* extends its deadline with every chunk, so this also assumes that a device is
\* silent for 0.3 s at some time.)
FairSpec == Spec /\ WF_vars(WorkerStep)

-----------------------------------------------------------------------------
(* Properties.                                                             *)

TypeOK ==
    /\ once \in BOOLEAN
    /\ wpc \in {"head", "gather", "serve", "toProject", "toAll", "prune", "wait"} \cup Over
    /\ shutdown \in BOOLEAN /\ pruneDue \in BOOLEAN
    /\ row \in [Projects -> Rows]
    /\ result \in [Projects -> {"none", "asked", "points", "empty", "error"}]
    /\ points \in [Projects -> 0..MaxReadings]
    /\ todo \subseteq Projects
    /\ serving \in Projects
    /\ taken \in 0..MaxReadings
    /\ verify \in [Projects -> SUBSET (1..MaxReadings)]
    /\ newest \in [Projects -> 0..MaxReadings]
    /\ writer \in [Projects -> {"nobody", "poller", "maneuver"}]
    /\ aged \subseteq Projects
    /\ stored \subseteq Projects
    /\ toldProject \in [Projects -> SUBSET {"telemetry.update", "device.offline"}]
    /\ toldAll \subseteq Projects

\* A device that fails, an announcement that fails or a signal costs no other
\* device its record: when a cycle is over without a database error, every
\* device that answered with points has one (poll_reclosers.py:221-244).
EveryAnswerStored ==
    wpc \in {"head", "prune", "wait", "stopped"} =>
        \A p \in Projects : result[p] = "points" <=> p \in stored

\* In one cycle a project's subscribers hear of a record or of an outage,
\* never of both; what they hear of is stored; and the global group hears of
\* nothing that the project's own group did not (poll_reclosers.py:119-191).
OneStory ==
    \A p \in Projects :
        /\ toldProject[p] # {"telemetry.update", "device.offline"}
        /\ "telemetry.update" \in toldProject[p] => p \in stored
        /\ p \in toldAll => "telemetry.update" \in toldProject[p]

\* The newest record goes back to an earlier reading only where poller and
\* maneuver have overtaken each other between reading and storing; each of the
\* two alone keeps the order (poll_reclosers.py:86-88, views.py:203-205).
BackwardsOnlyAcrossWriters ==
    [][\A p \in Projects :
          newest'[p] > 0 /\ newest'[p] < newest[p] => writer'[p] # writer[p]]_vars

\* The inductive invariant behind the two invariants above: what is served,
\* stored and told in the running cycle fits what gather returned, at every
\* point of the loop over zip(projects, results) (poll_reclosers.py:218-244).
CycleInStep ==
    /\ \A p \in Projects :
        /\ p \in stored => result[p] = "points" /\ p \notin todo
        /\ "device.offline" \in toldProject[p] => result[p] = "error" /\ p \notin todo
        /\ "telemetry.update" \in toldProject[p] => p \in stored
        /\ p \in toldAll => "telemetry.update" \in toldProject[p]
        /\ wpc \notin {"gather", "dead"} =>
              /\ result[p] # "asked"
              /\ result[p] = "points" /\ p \notin todo => p \in stored
    /\ wpc = "gather" => \A p \in Projects : p \in todo <=> result[p] # "none"
    /\ wpc \in {"head", "prune", "wait", "stopped"} => todo = {}
    /\ wpc \in {"toProject", "toAll"} => serving \in stored
    /\ wpc = "toAll" => "telemetry.update" \in toldProject[serving]

\* A signal ends the worker, wherever in its cycle it arrives
\* (poll_reclosers.py:29, 215, 259).
SignalStops == shutdown ~> wpc \in Over

\* Only a signal or the database ends the worker: otherwise it comes back to
\* asking the devices, whatever they answer (poll_reclosers.py:215-264).
PollsForever == []<><<BeginCycle>>_vars \/ <>(wpc \in Over)

\* With --once the worker ends after one cycle, without a signal
\* (poll_reclosers.py:254).
OnceEnds == once => <>(wpc \in Over)
=============================================================================
