-------------------------- MODULE HeartbeatProofs ---------------------------
(***************************************************************************)
(* What TLAPS proves about Heartbeat for any interval and limits.          *)
(***************************************************************************)
EXTENDS Heartbeat, TLAPS

\* The time that n cycles take at least.
AtLeast(n) == IF n = 0 THEN 0
              ELSE IF n = 1 THEN Interval
              ELSE IF n = 2 THEN 2 * Interval
              ELSE IF n = 3 THEN 3 * Interval
              ELSE 4 * Interval

Asking == phase = "ask"

\* Where the cycle is in time.
InTime ==
    /\ phase \in {"ask", "served"} => elapsed <= CycleLimit
    /\ fresh => counted /\ missed = 0
    /\ counted => phase # "gone"

\* A record is no older than the cycles since it took at most.
AgeAtMost ==
    counted =>
        /\ fresh => age <= elapsed
        /\ ~fresh /\ Asking /\ missed = 0 => age <= elapsed + Longest
        /\ ~fresh /\ Asking /\ missed = 1 => age <= elapsed + 2 * Longest
        /\ ~fresh /\ ~Asking => missed >= 1
        /\ ~fresh /\ ~Asking /\ missed = 1 => age <= elapsed + Longest

\* It is no younger than those that missed it took at least.
AgeAtLeast ==
    counted /\ ~fresh =>
        \/ age > StaleAfter
        \/ Asking /\ age >= AtLeast(missed) + elapsed
        \/ ~Asking /\ age >= AtLeast(missed - 1) + elapsed

AgeInv == TypeOK /\ InTime /\ AgeAtMost /\ AgeAtLeast

\* The numbers in the form in which the steps use them.
LEMMA Numbers ==
    /\ Interval \in Nat /\ CycleLimit \in Nat /\ OnlineFor \in Nat /\ StaleAfter \in Nat
    /\ Longest \in Nat /\ Interval <= Longest /\ CycleLimit <= Longest
    /\ Oldest = StaleAfter + 1 /\ MostMissed = 5
    /\ 2 * Longest + CycleLimit <= OnlineFor
    /\ OnlineFor < 3 * Interval
    /\ OnlineFor <= StaleAfter
    /\ StaleAfter < 4 * Interval
BY NumbersAssumption, LimitsAssumption DEF Longest, Oldest, MostMissed

\* Each cycle more takes an interval more, up to the fourth.
LEMMA CyclesTakeTime ==
    /\ AtLeast(0) = 0 /\ AtLeast(1) = Interval
    /\ AtLeast(2) = 2 * Interval /\ AtLeast(3) = 3 * Interval
    /\ AtLeast(4) = 4 * Interval /\ AtLeast(5) = 4 * Interval
BY NumbersAssumption DEF AtLeast

\* The variables that are true or false, and the others.
Flags == /\ picked \in BOOLEAN
         /\ enabled \in BOOLEAN
         /\ fresh \in BOOLEAN
         /\ counted \in BOOLEAN

Counts == /\ phase \in {"ask", "served", "wait", "gone"}
          /\ elapsed \in 0..Longest
          /\ age \in 0..Oldest
          /\ missed \in 0..MostMissed

\* No variable leaves its type.
LEMMA TypeKept == TypeOK /\ [Next]_vars => TypeOK'
<1> SUFFICES ASSUME TypeOK, [Next]_vars PROVE TypeOK'
  OBVIOUS
<1>1. Flags'
  <2>1. Flags
    BY DEF TypeOK, Flags
  <2> QED
    BY <2>1, Zenon DEF Flags, Next, WorkerStep, NextCycle, WorkerStarts, Begin, Stores, Fails,
       Skips, CycleEnds, WorkerEnds, ManeuverStores, SwitchProject, Tick, vars, cycle, past
<1>2. Counts'
  <2>1. Counts
    BY DEF TypeOK, Counts
  <2>2. CASE WorkerStep
    BY <2>1, <2>2, Numbers DEF WorkerStep, NextCycle, Begin, Stores, Fails, Skips, Missing,
       CycleEnds, Counts, past
  <2>3. CASE WorkerStarts \/ WorkerEnds \/ ManeuverStores \/ SwitchProject
    BY <2>1, <2>3, Numbers DEF WorkerStarts, Begin, WorkerEnds, ManeuverStores,
       SwitchProject, cycle, past, Counts
  <2>4. CASE Tick
    BY <2>1, <2>4, Numbers DEF Tick, past, Counts
  <2>5. CASE UNCHANGED vars
    BY <2>1, <2>5 DEF vars, cycle, past, Counts
  <2> QED
    BY <2>2, <2>3, <2>4, <2>5 DEF Next
<1> QED
  BY <1>1, <1>2 DEF Flags, Counts, TypeOK

\* The age keeps between what the cycles take at least and at most.
LEMMA AgeInvKept == AgeInv /\ [Next]_vars => AgeInv'
<1> SUFFICES ASSUME AgeInv, [Next]_vars PROVE AgeInv'
  OBVIOUS
<1>t. TypeOK /\ TypeOK'
  BY TypeKept DEF AgeInv
<1>n. /\ elapsed \in Nat /\ age \in 0..Oldest /\ missed \in 0..5
      /\ fresh \in BOOLEAN /\ counted \in BOOLEAN
      /\ Interval \in Nat /\ CycleLimit \in Nat /\ StaleAfter \in Nat /\ Longest \in Nat
      /\ Interval <= Longest /\ CycleLimit <= Longest /\ elapsed <= Longest
      /\ Oldest = StaleAfter + 1
  BY <1>t, Numbers DEF TypeOK
<1>1. CASE Begin /\ phase = "wait" /\ elapsed >= Interval
  <2>1. AgeAtMost'
    BY <1>1, <1>n DEF AgeInv, InTime, AgeAtMost, Asking, Begin
  <2>2. AgeAtLeast'
    <3>1. /\ phase' = "ask" /\ elapsed' = 0 /\ ~fresh'
          /\ UNCHANGED <<age, missed, counted>>
      BY <1>1 DEF Begin
    <3>2. CASE fresh
      BY <1>n, <3>1, <3>2, CyclesTakeTime DEF AgeInv, InTime, AgeAtLeast, Asking
    <3>3. CASE ~fresh /\ counted
      <4>1. missed \in 1..5
        BY <1>1, <1>n, <3>3 DEF AgeInv, AgeAtMost, Asking
      <4>2. age > StaleAfter \/ age >= AtLeast(missed - 1) + elapsed
        BY <1>1, <3>3 DEF AgeInv, AgeAtLeast, Asking
      <4>3. AtLeast(missed - 1) + Interval >= AtLeast(missed)
            \/ (missed = 5 /\ AtLeast(missed - 1) >= AtLeast(missed))
        BY <1>n, <4>1, CyclesTakeTime
      <4>4. AtLeast(missed) \in Nat /\ AtLeast(missed - 1) \in Nat
        BY <1>n, <4>1, CyclesTakeTime
      <4> QED
        BY <1>1, <1>n, <3>1, <4>2, <4>3, <4>4 DEF AgeAtLeast, Asking
    <3> QED
      BY <1>n, <3>1, <3>2, <3>3 DEF AgeAtLeast
  <2>3. InTime'
    BY <1>1, <1>n DEF AgeInv, InTime, Begin
  <2> QED
    BY <1>t, <2>1, <2>2, <2>3 DEF AgeInv
<1>2. CASE WorkerStarts \/ WorkerEnds
  <2>1. ~counted' /\ ~fresh'
    BY <1>2 DEF WorkerStarts, WorkerEnds, Begin, AgeInv, InTime
  <2>2. InTime'
    BY <1>2, <1>n, <2>1 DEF WorkerStarts, WorkerEnds, Begin, InTime
  <2> QED
    BY <1>t, <2>1, <2>2 DEF AgeInv, AgeAtMost, AgeAtLeast
<1>3. CASE Stores \/ ManeuverStores
  <2>1. age' = 0 /\ missed' = 0 /\ elapsed' = elapsed /\ counted' = fresh'
    BY <1>3 DEF Stores, ManeuverStores, cycle
  <2>2. InTime'
    BY <1>3, <2>1 DEF Stores, ManeuverStores, cycle, AgeInv, InTime
  <2> QED
    BY <1>t, <1>n, <2>1, <2>2 DEF AgeInv, AgeAtMost, AgeAtLeast
<1>4. CASE Fails \/ Skips
  <2>1. /\ phase = "ask" /\ phase' = "served" /\ Missing
        /\ UNCHANGED <<elapsed, age, fresh, counted>>
    BY <1>4 DEF Fails, Skips
  <2>2. InTime'
    BY <1>n, <2>1 DEF AgeInv, InTime, Missing, MostMissed
  <2>3. AgeAtMost'
    BY <1>n, <2>1 DEF AgeInv, AgeAtMost, Asking, Missing, MostMissed
  <2>4. AgeAtLeast'
    <3> SUFFICES ASSUME counted, ~fresh PROVE AgeAtLeast'
      BY <2>1 DEF AgeAtLeast
    <3>1. missed' = IF missed = 5 THEN 5 ELSE missed + 1
      BY <2>1 DEF Missing, MostMissed
    <3>2. age > StaleAfter \/ age >= AtLeast(missed) + elapsed
      BY <2>1 DEF AgeInv, AgeAtLeast, Asking
    <3>3. AtLeast(missed' - 1) <= AtLeast(missed) /\ AtLeast(missed' - 1) \in Nat
          /\ AtLeast(missed) \in Nat
      BY <1>n, <3>1, CyclesTakeTime
    <3> QED
      BY <1>n, <2>1, <3>2, <3>3 DEF AgeAtLeast, Asking
  <2> QED
    BY <1>t, <2>2, <2>3, <2>4 DEF AgeInv
<1>5. CASE CycleEnds
  BY <1>5, <1>t DEF CycleEnds, past, AgeInv, InTime, AgeAtMost, AgeAtLeast, Asking
<1>6. CASE SwitchProject
  BY <1>6, <1>t DEF SwitchProject, cycle, past, AgeInv, InTime, AgeAtMost, AgeAtLeast,
     Asking
<1>7. CASE Tick
  <2>1. UNCHANGED <<phase, fresh, missed, counted>>
    BY <1>7 DEF Tick, past
  <2>2. InTime'
    BY <1>7, <1>n, <2>1 DEF Tick, AgeInv, InTime
  <2>3. ASSUME counted
        PROVE elapsed' = elapsed + 1 /\ age' = IF age < Oldest THEN age + 1 ELSE age
    BY <1>7, <2>3 DEF Tick, AgeInv, InTime
  <2>4. AgeAtMost'
    BY <1>n, <2>1, <2>3 DEF AgeInv, AgeAtMost, Asking
  <2>5. AgeAtLeast'
    <3> SUFFICES ASSUME counted, ~fresh PROVE AgeAtLeast'
      BY <2>1 DEF AgeAtLeast
    <3>1. /\ AtLeast(missed) \in Nat
          /\ missed > 0 => AtLeast(missed - 1) \in Nat
          /\ ~Asking => missed > 0
      BY <1>n, CyclesTakeTime DEF AgeInv, AgeAtMost
    <3> QED
      BY <1>n, <2>1, <2>3, <3>1 DEF AgeInv, AgeAtLeast, Asking
  <2> QED
    BY <1>t, <2>2, <2>4, <2>5 DEF AgeInv
<1>8. CASE UNCHANGED vars
  BY <1>8, <1>t DEF vars, cycle, past, AgeInv, InTime, AgeAtMost, AgeAtLeast, Asking
<1> QED
  BY <1>1, <1>2, <1>3, <1>4, <1>5, <1>6, <1>7, <1>8 DEF Next, WorkerStep, NextCycle

LEMMA AgeInvariant == Spec => []AgeInv
<1>1. Init => AgeInv
  <2> SUFFICES ASSUME Init PROVE AgeInv
    OBVIOUS
  <2>1. Flags
    BY Zenon DEF Init, Flags
  <2>2. Counts
    BY Numbers DEF Init, Counts
  <2>3. InTime /\ AgeAtMost /\ AgeAtLeast
    BY Numbers DEF Init, InTime, AgeAtMost, AgeAtLeast
  <2> QED
    BY <2>1, <2>2, <2>3 DEF AgeInv, TypeOK, Flags, Counts
<1> QED
  BY <1>1, AgeInvKept, PTL DEF Spec

\* No variable leaves its type: the counts and the age stay where they are cut off.
THEOREM TypeCorrect == Spec => []TypeOK
<1>1. AgeInv => TypeOK
  BY DEF AgeInv
<1> QED
  BY <1>1, AgeInvariant, PTL

\* With any interval and limits that leave the room, one missed poll is no outage
\* (views_health.py:51-61, poll_reclosers.py:215-258).
THEOREM MissForgiven == Spec => []OneMissForgiven
<1>1. AgeInv => OneMissForgiven
  BY Numbers DEF AgeInv, TypeOK, InTime, AgeAtMost, Asking, OneMissForgiven, Online
<1> QED
  BY <1>1, AgeInvariant, PTL

\* With any such interval and limits, four missed polls are an outage, and after
\* five no view shows the last record (views_health.py:51-61,
\* telemetry/views.py:26-30).
THEOREM OutageSeen == Spec => []OutageShows
<1>1. AgeInv => OutageShows
  <2> SUFFICES ASSUME AgeInv, counted, missed \in 4..5
               PROVE  ~Online /\ (missed = 5 => ~Shown)
    BY Numbers DEF AgeInv, TypeOK, OutageShows
  <2>1. ~fresh /\ elapsed \in Nat /\ age \in Nat
    BY Numbers DEF AgeInv, InTime, TypeOK
  <2>2. age > StaleAfter \/ age >= AtLeast(missed - 1) \/ age >= AtLeast(missed)
    BY <2>1, CyclesTakeTime, Numbers DEF AgeInv, AgeAtLeast
  <2> QED
    BY <2>1, <2>2, CyclesTakeTime, Numbers DEF Online, Shown
<1> QED
  BY <1>1, AgeInvariant, PTL
=============================================================================
