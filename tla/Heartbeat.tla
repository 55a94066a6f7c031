----------------------------- MODULE Heartbeat ------------------------------
(***************************************************************************)
(* How old the newest TelemetryRecord of one project gets, and what two    *)
(* views make of its age: devices (core/views_health.py) reports a device  *)
(* online, and latest (telemetry/views.py) shows a record, when it is not  *)
(* older than a limit of each.  Records come from the worker's cycles      *)
(* (poll_reclosers.py), one for a project at most, and from maneuvers.     *)
(*                                                                         *)
(* Time is counted in ticks.  What a cycle does in which order is in       *)
(* PollCycle; here it lasts up to CycleLimit, in which it comes to this    *)
(* project at some moment.                                                 *)
(***************************************************************************)
EXTENDS Naturals

CONSTANTS
    Interval,       \* --interval, 120 s
    CycleLimit,     \* the longest time from a cycle's start to its end
    OnlineFor,      \* timeout_seconds of devices, 300 s
    StaleAfter      \* STALENESS_MINUTES of latest, 360 s

\* A cycle starts at the latest so long after the one before.
Longest == IF CycleLimit > Interval THEN CycleLimit ELSE Interval

ASSUME NumbersAssumption ==
    /\ Interval \in Nat \ {0}
    /\ CycleLimit \in Nat
    /\ OnlineFor \in Nat
    /\ StaleAfter \in Nat

\* The limits leave room for one cycle without a record, but not for three.
ASSUME LimitsAssumption ==
    /\ 2 * Longest + CycleLimit <= OnlineFor
    /\ OnlineFor < 3 * Interval
    /\ OnlineFor <= StaleAfter
    /\ StaleAfter < 4 * Interval

VARIABLES
    phase,          \* ask (the project is still to come), served, wait or gone
    picked,         \* the cycle's list has the project
    enabled,        \* Project.enabled
    elapsed,        \* ticks since cycle_start
    age,            \* ticks since the newest record's cycle_timestamp
    fresh,          \* history: the newest record is from the running cycle
    missed,         \* history: cycles since that record that stored none
    counted         \* history: the worker runs since before that record

cycle == <<phase, picked, elapsed>>
past  == <<fresh, missed, counted>>
vars  == <<cycle, enabled, age, past>>

\* Past StaleAfter, ages are not told apart, and there may be no record at all.
Oldest    == StaleAfter + 1
MostMissed == 5

Init ==
    /\ phase = "gone"
    /\ picked = FALSE
    /\ enabled \in BOOLEAN
    /\ elapsed = 0
    /\ age \in 0..Oldest
    /\ fresh = FALSE
    /\ missed = 0
    /\ counted = FALSE

\* The views: cycle_timestamp >= cutoff, and not cycle_timestamp < cutoff.
Online == age <= OnlineFor
Shown  == age <= StaleAfter

-----------------------------------------------------------------------------
(* The worker.                                                             *)

\* Mutant: the projects are listed once, before the loop.
BeginAsListed ==
    /\ phase' = "ask"
    /\ elapsed' = 0
    /\ picked' = IF phase = "gone" THEN enabled ELSE picked
    /\ fresh' = FALSE
    /\ UNCHANGED <<enabled, age, missed, counted>>

\* cycle_start is taken, and the enabled projects are listed.
Begin ==
    /\ phase' = "ask"
    /\ elapsed' = 0
    /\ picked' = enabled
    /\ fresh' = FALSE
    /\ UNCHANGED <<enabled, age, missed, counted>>

\* The command is started (again).
WorkerStarts == phase = "gone" /\ Begin

\* The wait of sleep_time is over.
NextCycle ==
    /\ phase = "wait"
    /\ elapsed >= Interval
    /\ Begin

\* The device gave points, and they are persisted.
Stores ==
    /\ phase = "ask"
    /\ picked
    /\ phase' = "served"
    /\ age' = 0
    /\ fresh' = TRUE
    /\ missed' = 0
    /\ counted' = TRUE
    /\ UNCHANGED <<picked, enabled, elapsed>>

Missing ==
    missed' = IF fresh \/ ~counted \/ missed = MostMissed THEN missed ELSE missed + 1

\* Mutant: an outage is stored as a record without values.
FailsOnRecord ==
    /\ phase = "ask"
    /\ picked
    /\ phase' = "served"
    /\ age' = 0
    /\ Missing
    /\ UNCHANGED <<picked, enabled, elapsed, fresh, counted>>

\* It gave none, or an exception: nothing is stored.
Fails ==
    /\ phase = "ask"
    /\ picked
    /\ phase' = "served"
    /\ Missing
    /\ UNCHANGED <<picked, enabled, elapsed, age, fresh, counted>>

\* The project was not enabled when the cycle started.
Skips ==
    /\ phase = "ask"
    /\ ~picked
    /\ phase' = "served"
    /\ Missing
    /\ UNCHANGED <<picked, enabled, elapsed, age, fresh, counted>>

\* Mutant: the interval is waited for after the cycle.
CycleEndsAnew ==
    /\ phase = "served"
    /\ phase' = "wait"
    /\ elapsed' = 0
    /\ UNCHANGED <<picked, enabled, age, past>>

\* The other projects are served, and the day's prune is done: it leaves
\* records of less than a year alone.  What is left of the interval is waited
\* for.
CycleEnds ==
    /\ phase = "served"
    /\ phase' = "wait"
    /\ UNCHANGED <<picked, enabled, elapsed, age, past>>

\* A signal, a database error, a kill.
WorkerEnds ==
    /\ phase # "gone"
    /\ phase' = "gone"
    /\ fresh' = FALSE
    /\ missed' = 0
    /\ counted' = FALSE
    /\ UNCHANGED <<picked, enabled, elapsed, age>>

-----------------------------------------------------------------------------
(* The others.                                                             *)

\* A maneuver's verification read is persisted.
ManeuverStores ==
    /\ age' = 0
    /\ missed' = 0
    /\ fresh' = (phase # "gone")
    /\ counted' = (phase # "gone")
    /\ UNCHANGED <<cycle, enabled>>

SwitchProject ==
    /\ enabled' = ~enabled
    /\ UNCHANGED <<cycle, age, past>>

\* A cycle is over in time, and the wait ends with the interval.
Tick ==
    /\ phase \in {"ask", "served"} => elapsed < CycleLimit
    /\ phase = "wait" => elapsed < Interval
    /\ elapsed' = IF phase = "gone" THEN elapsed ELSE elapsed + 1
    /\ age' = IF age < Oldest THEN age + 1 ELSE age
    /\ UNCHANGED <<phase, picked, enabled, past>>

WorkerStep == NextCycle \/ Stores \/ Fails \/ Skips \/ CycleEnds

Next ==
    \/ WorkerStep \/ WorkerStarts \/ WorkerEnds
    \/ ManeuverStores \/ SwitchProject
    \/ Tick

Spec == Init /\ [][Next]_vars

\* Time passes, and a worker that is not ended goes on.
FairSpec == Spec /\ WF_vars(Tick) /\ WF_vars(WorkerStep)

-----------------------------------------------------------------------------
(* Properties.                                                             *)

TypeOK ==
    /\ phase \in {"ask", "served", "wait", "gone"}
    /\ picked \in BOOLEAN
    /\ enabled \in BOOLEAN
    /\ elapsed \in 0..Longest
    /\ age \in 0..Oldest
    /\ fresh \in BOOLEAN
    /\ missed \in 0..MostMissed
    /\ counted \in BOOLEAN

\* One cycle that failed is not taken for an outage: while the worker runs, a
\* device that missed one poll is still reported online, through the whole of
\* the next cycle, and a maneuver's guard reads a status that is no older
\* (views_health.py:51-61, poll_reclosers.py:256-258, maneuvers/views.py:143).
OneMissForgiven == counted /\ missed <= 1 => Online

\* An outage is not hidden: after four cycles without a record no view reports
\* the device, and after five none shows its last record, whatever was stored
\* before, and whenever in its cycle (views_health.py:51-61,
\* telemetry/views.py:26-30).
OutageShows ==
    /\ counted /\ missed >= 4 => ~Online
    /\ counted /\ missed = MostMissed => ~Shown

\* A project that is enabled, in whatever cycle, is reported online for good
\* once its device answers: a worker that keeps running takes it up
\* (poll_reclosers.py:215-218, views_health.py:54-61).
TakenUp ==
    /\ <>[](phase # "gone" /\ enabled)
    /\ <>[][~Fails]_vars
    => <>[]Online
=============================================================================
