-------------------------- MODULE PollCycleProofs --------------------------
(***************************************************************************)
(* What TLAPS proves about PollCycle for any set of projects and any       *)
(* number of readings.                                                     *)
(***************************************************************************)
EXTENDS PollCycle, TLAPS

OthersStep ==
    \/ Signal \/ DayPasses
    \/ \E p \in Projects :
          \/ RecordAges(p) \/ SwitchProject(p) \/ DeleteProject(p)
          \/ ManeuverReads(p) \/ ManeuverPersists(p) \/ ManeuverFails(p)

\* The administrators, the clock, the signals and the maneuvers touch nothing
\* of a running cycle.
LEMMA OthersAside ==
    ASSUME OthersStep
    PROVE  UNCHANGED <<once, wpc, result, points, todo, serving, history>>
BY DEF OthersStep, Signal, DayPasses, RecordAges, SwitchProject, DeleteProject,
       ManeuverReads, ManeuverPersists, ManeuverFails, worker

-----------------------------------------------------------------------------
(* Types.                                                                  *)

\* TypeOK in three parts: the flags, the cycle, and what the worker shares with
\* the others.
Flags == once \in BOOLEAN /\ shutdown \in BOOLEAN /\ pruneDue \in BOOLEAN

CycleTypes ==
    /\ wpc \in {"head", "gather", "serve", "toProject", "toAll", "prune", "wait"} \cup Over
    /\ result \in [Projects -> {"none", "asked", "points", "empty", "error"}]
    /\ points \in [Projects -> 0..MaxReadings]
    /\ todo \subseteq Projects
    /\ serving \in Projects
    /\ stored \subseteq Projects
    /\ toldProject \in [Projects -> SUBSET {"telemetry.update", "device.offline"}]
    /\ toldAll \subseteq Projects

SharedTypes ==
    /\ row \in [Projects -> Rows]
    /\ taken \in 0..MaxReadings
    /\ verify \in [Projects -> SUBSET (1..MaxReadings)]
    /\ newest \in [Projects -> 0..MaxReadings]
    /\ writer \in [Projects -> {"nobody", "poller", "maneuver"}]
    /\ aged \subseteq Projects

LEMMA TypeParts == TypeOK <=> Flags /\ CycleTypes /\ SharedTypes
BY DEF TypeOK, Flags, CycleTypes, SharedTypes

LEMMA FlagsKept == Flags /\ [Next]_vars => Flags'
BY Zenon DEF Flags, Next, WorkerStep, BeginCycle, LeaveLoop, GatherReturns, DeviceAnswers,
   DeviceFails, ServeError, ServeEmpty, PersistPoints, AnnounceToProject, AnnounceToAll,
   CycleServed, Prune, WaitEnds, DatabaseRaises, Signal, DayPasses, RecordAges,
   SwitchProject, DeleteProject, ManeuverReads, ManeuverPersists, ManeuverFails, vars, worker

LEMMA CycleTypesKept == TypeOK /\ [Next]_vars => CycleTypes'
<1> SUFFICES ASSUME TypeOK, [Next]_vars PROVE CycleTypes'
  OBVIOUS
<1>t. CycleTypes /\ SharedTypes
  BY TypeParts
<1> USE ConstantsAssumption, <1>t DEF CycleTypes, Over
<1>1. CASE BeginCycle
  BY <1>1 DEF BeginCycle
<1>2. CASE LeaveLoop \/ GatherReturns \/ CycleServed \/ Prune \/ WaitEnds \/ DatabaseRaises
  BY <1>2 DEF LeaveLoop, GatherReturns, CycleServed, Prune, WaitEnds, DatabaseRaises,
     history
<1>3. ASSUME NEW p \in Projects, DeviceAnswers(p) PROVE CycleTypes'
  BY <1>3 DEF DeviceAnswers, SharedTypes, history
<1>4. ASSUME NEW p \in Projects, DeviceFails(p) PROVE CycleTypes'
  BY <1>4 DEF DeviceFails, history
<1>5. ASSUME NEW p \in Projects, ServeError(p) PROVE CycleTypes'
  BY <1>5 DEF ServeError
<1>6. ASSUME NEW p \in Projects, ServeEmpty(p) PROVE CycleTypes'
  BY <1>6 DEF ServeEmpty, history
<1>7. ASSUME NEW p \in Projects, PersistPoints(p) PROVE CycleTypes'
  BY <1>7 DEF PersistPoints
<1>8. CASE AnnounceToProject \/ AnnounceToAll
  BY <1>8 DEF AnnounceToProject, AnnounceToAll
<1>9. CASE OthersStep \/ UNCHANGED vars
  <2>1. UNCHANGED <<wpc, result, points, todo, serving, history>>
    BY <1>9, OthersAside DEF vars, worker
  <2> QED
    BY <2>1 DEF history
<1> QED
  BY <1>1, <1>2, <1>3, <1>4, <1>5, <1>6, <1>7, <1>8, <1>9 DEF Next, WorkerStep, OthersStep

LEMMA SharedTypesKept == TypeOK /\ [Next]_vars => SharedTypes'
<1> SUFFICES ASSUME TypeOK, [Next]_vars PROVE SharedTypes'
  OBVIOUS
<1>t. SharedTypes /\ points \in [Projects -> 0..MaxReadings]
  BY TypeParts DEF CycleTypes
<1> USE ConstantsAssumption, <1>t DEF SharedTypes, Rows, table
<1>1. CASE \/ BeginCycle \/ LeaveLoop \/ GatherReturns \/ CycleServed \/ WaitEnds
           \/ DatabaseRaises \/ AnnounceToProject \/ AnnounceToAll
           \/ \E p \in Projects : DeviceFails(p) \/ ServeError(p) \/ ServeEmpty(p)
           \/ Signal \/ DayPasses \/ UNCHANGED vars
  <2>1. UNCHANGED <<row, taken, verify, table>>
    BY <1>1 DEF BeginCycle, LeaveLoop, GatherReturns, CycleServed, WaitEnds,
       DatabaseRaises, AnnounceToProject, AnnounceToAll, DeviceFails, ServeError,
       ServeEmpty, Signal, DayPasses, vars
  <2> QED
    BY <2>1
<1>2. ASSUME NEW p \in Projects, DeviceAnswers(p) PROVE SharedTypes'
  BY <1>2 DEF DeviceAnswers
<1>3. ASSUME NEW p \in Projects, PersistPoints(p) PROVE SharedTypes'
  BY <1>3 DEF PersistPoints
<1>4. CASE Prune
  BY <1>4 DEF Prune
<1>5. ASSUME NEW p \in Projects, RecordAges(p) \/ SwitchProject(p) PROVE SharedTypes'
  BY <1>5 DEF RecordAges, SwitchProject
<1>6. ASSUME NEW p \in Projects, DeleteProject(p) PROVE SharedTypes'
  BY <1>6 DEF DeleteProject
<1>7. ASSUME NEW p \in Projects, ManeuverReads(p) PROVE SharedTypes'
  <2>1. taken' \in 1..MaxReadings
    BY <1>7 DEF ManeuverReads
  <2> QED
    BY <1>7, <2>1 DEF ManeuverReads
<1>8. ASSUME NEW p \in Projects, ManeuverPersists(p) \/ ManeuverFails(p)
      PROVE  SharedTypes'
  BY <1>8 DEF ManeuverPersists, ManeuverFails
<1> QED
  BY <1>1, <1>2, <1>3, <1>4, <1>5, <1>6, <1>7, <1>8 DEF Next, WorkerStep

\* No variable of the worker, the table or the maneuvers leaves its type, for
\* any projects and any number of readings (poll_reclosers.py:193-264).
THEOREM TypeCorrect == Spec => []TypeOK
<1>1. Init => TypeOK
  <2> SUFFICES ASSUME Init PROVE TypeOK
    OBVIOUS
  <2>1. Flags
    BY Zenon DEF Init, Flags
  <2>2. CycleTypes /\ SharedTypes
    BY ConstantsAssumption DEF Init, CycleTypes, SharedTypes, Rows
  <2> QED
    BY <2>1, <2>2, TypeParts
<1>2. TypeOK /\ [Next]_vars => TypeOK'
  <2> SUFFICES ASSUME TypeOK, [Next]_vars PROVE TypeOK'
    OBVIOUS
  <2>1. Flags' /\ CycleTypes' /\ SharedTypes'
    BY TypeParts, FlagsKept, CycleTypesKept, SharedTypesKept
  <2> QED
    BY <2>1 DEF TypeOK, Flags, CycleTypes, SharedTypes
<1> QED
  BY <1>1, <1>2, PTL DEF Spec

-----------------------------------------------------------------------------
(* The cycle.                                                              *)

\* Whatever step is taken, what is served, stored and told fits what gather
\* returned.
LEMMA CycleKept == TypeOK /\ CycleInStep /\ [Next]_vars => CycleInStep'
<1> SUFFICES ASSUME TypeOK, CycleInStep, [Next]_vars PROVE CycleInStep'
  OBVIOUS
<1>t. CycleTypes
  BY TypeParts
<1> USE <1>t DEF CycleTypes, CycleInStep
<1>1. CASE BeginCycle
  BY <1>1 DEF BeginCycle
<1>2. CASE LeaveLoop \/ GatherReturns \/ CycleServed \/ Prune \/ WaitEnds
  BY <1>2 DEF LeaveLoop, GatherReturns, CycleServed, Prune, WaitEnds, history
<1>3. CASE DatabaseRaises
  BY <1>3 DEF DatabaseRaises, history
<1>4. ASSUME NEW p \in Projects, DeviceAnswers(p) \/ DeviceFails(p) PROVE CycleInStep'
  BY <1>4 DEF DeviceAnswers, DeviceFails, history
<1>5. ASSUME NEW p \in Projects, ServeError(p) \/ ServeEmpty(p) PROVE CycleInStep'
  BY <1>5 DEF ServeError, ServeEmpty, history
<1>6. ASSUME NEW p \in Projects, PersistPoints(p) PROVE CycleInStep'
  BY <1>6 DEF PersistPoints
<1>7. CASE AnnounceToProject
  BY <1>7 DEF AnnounceToProject
<1>8. CASE AnnounceToAll
  BY <1>8 DEF AnnounceToAll
<1>9. CASE OthersStep \/ UNCHANGED vars
  <2>1. UNCHANGED <<wpc, result, todo, serving, history>>
    BY <1>9, OthersAside DEF vars, worker
  <2> QED
    BY <2>1 DEF history
<1> QED
  BY <1>1, <1>2, <1>3, <1>4, <1>5, <1>6, <1>7, <1>8, <1>9 DEF Next, WorkerStep, OthersStep

LEMMA CycleInvariant == Spec => [](TypeOK /\ CycleInStep)
<1>1. Init => CycleInStep
  BY DEF Init, CycleInStep
<1> QED
  BY <1>1, TypeCorrect, CycleKept, PTL DEF Spec

\* Whatever devices, administrators and announcements do, a finished cycle has
\* stored exactly the answers with points (poll_reclosers.py:221-244).
THEOREM NoAnswerLost == Spec => []EveryAnswerStored
<1>1. TypeOK /\ CycleInStep => EveryAnswerStored
  BY DEF TypeOK, CycleInStep, EveryAnswerStored
<1> QED
  BY <1>1, CycleInvariant, PTL

\* In a cycle no project's subscribers hear of a record and of an outage, nor of
\* a record that is not stored (poll_reclosers.py:119-191).
THEOREM OneStoryTold == Spec => []OneStory
<1>1. TypeOK /\ CycleInStep => OneStory
  BY DEF TypeOK, CycleInStep, OneStory
<1> QED
  BY <1>1, CycleInvariant, PTL
-----------------------------------------------------------------------------
(* The order of the readings.                                              *)

\* BackwardsOnlyAcrossWriters speaks of the moment at which a record is stored.
\* What each of the two writers holds until then is no older than what it stored
\* last: of a maneuver, because a project has one at a time; of the worker,
\* because it serves a project once a cycle.
ReadingsInOrder ==
    \A p \in Projects :
        /\ newest[p] <= taken /\ points[p] <= taken
        /\ \A v, w \in verify[p] : v = w
        /\ \A v \in verify[p] :
              v <= taken /\ (writer[p] = "maneuver" => newest[p] <= v)
        /\ writer[p] = "poller" /\ p \in todo /\ result[p] = "points"
              => newest[p] <= points[p]

\* A new reading is newer than every record; storing one leaves its writer with
\* none; a record that is deleted or pruned leaves none to be behind.
LEMMA OrderKept ==
    TypeOK /\ TypeOK' /\ ReadingsInOrder /\ [Next]_vars => ReadingsInOrder'
<1> SUFFICES ASSUME TypeOK, TypeOK', ReadingsInOrder, [Next]_vars
             PROVE  ReadingsInOrder'
  OBVIOUS
<1>t. /\ CycleTypes /\ SharedTypes
      /\ \A p \in Projects : newest[p] \in Nat /\ points[p] \in Nat
      /\ taken \in Nat
      /\ \A p \in Projects : verify[p] \subseteq Nat
  BY TypeParts, ConstantsAssumption DEF SharedTypes, CycleTypes
<1> USE <1>t, ConstantsAssumption DEF ReadingsInOrder, CycleTypes, SharedTypes, table
<1>1. CASE BeginCycle
  BY <1>1 DEF BeginCycle
<1>2. CASE \/ LeaveLoop \/ GatherReturns \/ CycleServed \/ WaitEnds \/ DatabaseRaises
           \/ AnnounceToProject \/ AnnounceToAll \/ Signal \/ DayPasses \/ UNCHANGED vars
           \/ \E p \in Projects : RecordAges(p) \/ SwitchProject(p)
  <2>1. UNCHANGED <<result, points, todo, taken, verify, newest, writer>>
    BY <1>2 DEF LeaveLoop, GatherReturns, CycleServed, WaitEnds, DatabaseRaises,
       AnnounceToProject, AnnounceToAll, Signal, DayPasses, RecordAges, SwitchProject,
       vars, worker
  <2> QED
    BY <2>1
<1>3. ASSUME NEW p \in Projects, DeviceAnswers(p) PROVE ReadingsInOrder'
  BY <1>3 DEF DeviceAnswers
<1>4. ASSUME NEW p \in Projects, DeviceFails(p) PROVE ReadingsInOrder'
  BY <1>4 DEF DeviceFails
<1>5. ASSUME NEW p \in Projects, ServeError(p) \/ ServeEmpty(p) PROVE ReadingsInOrder'
  BY <1>5 DEF ServeError, ServeEmpty
<1>6. ASSUME NEW p \in Projects, PersistPoints(p) PROVE ReadingsInOrder'
  BY <1>6 DEF PersistPoints
<1>7. CASE Prune
  BY <1>7 DEF Prune
<1>8. ASSUME NEW p \in Projects, DeleteProject(p) PROVE ReadingsInOrder'
  BY <1>8 DEF DeleteProject, worker
<1>9. ASSUME NEW p \in Projects, ManeuverReads(p) PROVE ReadingsInOrder'
  BY <1>9 DEF ManeuverReads, worker
<1>10. ASSUME NEW p \in Projects, ManeuverPersists(p) \/ ManeuverFails(p)
       PROVE  ReadingsInOrder'
  BY <1>10 DEF ManeuverPersists, ManeuverFails, worker
<1> QED
  BY <1>1, <1>2, <1>3, <1>4, <1>5, <1>6, <1>7, <1>8, <1>9, <1>10 DEF Next, WorkerStep

\* Where a record replaces another, it is one of the two writers that stores it.
LEMMA WhoStores ==
    ASSUME TypeOK, [Next]_vars, NEW p \in Projects, newest'[p] # newest[p],
           newest'[p] > 0
    PROVE  \/ PersistPoints(p) \/ ManeuverPersists(p)
<1>1. newest \in [Projects -> 0..MaxReadings]
  BY DEF TypeOK
<1>2. ASSUME NEW q \in Projects, PersistPoints(q) PROVE PersistPoints(p)
  BY <1>1, <1>2 DEF PersistPoints
<1>3. ASSUME NEW q \in Projects, ManeuverPersists(q) PROVE ManeuverPersists(p)
  BY <1>1, <1>3 DEF ManeuverPersists
<1>4. ~Prune
  BY <1>1 DEF Prune
<1>5. ASSUME NEW q \in Projects PROVE ~DeleteProject(q)
  BY <1>1 DEF DeleteProject
<1>6. \/ newest' = newest \/ Prune
      \/ \E q \in Projects : PersistPoints(q) \/ DeleteProject(q) \/ ManeuverPersists(q)
  <2>1. WorkerStep => \/ newest' = newest \/ Prune
                     \/ \E q \in Projects : PersistPoints(q)
    BY DEF WorkerStep, BeginCycle, LeaveLoop, GatherReturns, DeviceAnswers, DeviceFails,
       ServeError, ServeEmpty, AnnounceToProject, AnnounceToAll, CycleServed, WaitEnds,
       DatabaseRaises, table
  <2>2. OthersStep => \/ newest' = newest
                     \/ \E q \in Projects : DeleteProject(q) \/ ManeuverPersists(q)
    BY DEF OthersStep, RecordAges, SwitchProject, ManeuverReads, ManeuverFails, Signal,
       DayPasses, table
  <2> QED
    BY <2>1, <2>2 DEF Next, OthersStep, vars, table
<1> QED
  BY <1>2, <1>3, <1>4, <1>5, <1>6

\* With any number of projects and readings, the newest record goes back to an
\* earlier reading only where one writer stores over the other
\* (poll_reclosers.py:86-88, views.py:203-205).
THEOREM OrderedByWriter == Spec => BackwardsOnlyAcrossWriters
<1>1. Init => ReadingsInOrder
  <2> SUFFICES ASSUME Init PROVE ReadingsInOrder
    OBVIOUS
  <2>1. /\ taken = 0
        /\ \A p \in Projects : /\ newest[p] = 0 /\ points[p] = 0 /\ verify[p] = {}
                               /\ result[p] = "none"
    BY DEF Init
  <2> SUFFICES ASSUME NEW p \in Projects
               PROVE  /\ newest[p] <= taken /\ points[p] <= taken
                      /\ verify[p] = {} /\ result[p] # "points"
    BY DEF ReadingsInOrder
  <2> QED
    BY <2>1
<1>2. TypeOK /\ ReadingsInOrder /\ [Next]_vars
      => [\A p \in Projects :
             newest'[p] > 0 /\ newest'[p] < newest[p] => writer'[p] # writer[p]]_vars
  <2> SUFFICES ASSUME TypeOK, ReadingsInOrder, [Next]_vars, NEW p \in Projects,
                      newest'[p] > 0, newest'[p] < newest[p]
               PROVE  writer'[p] # writer[p]
    OBVIOUS
  <2>t. /\ newest[p] \in Nat /\ points[p] \in Nat /\ verify[p] \subseteq Nat
        /\ newest \in [Projects -> 0..MaxReadings]
        /\ writer \in [Projects -> {"nobody", "poller", "maneuver"}]
    BY ConstantsAssumption DEF TypeOK
  <2>1. CASE PersistPoints(p)
    BY <2>1, <2>t DEF PersistPoints, ReadingsInOrder
  <2>2. CASE ManeuverPersists(p)
    BY <2>2, <2>t DEF ManeuverPersists, ReadingsInOrder
  <2>3. newest'[p] # newest[p]
    BY <2>t
  <2> QED
    BY <2>1, <2>2, <2>3, WhoStores
<1> QED
  BY <1>1, <1>2, TypeCorrect, OrderKept, PTL DEF Spec, BackwardsOnlyAcrossWriters
=============================================================================
