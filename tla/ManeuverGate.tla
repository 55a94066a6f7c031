---------------------------- MODULE ManeuverGate ----------------------------
(***************************************************************************)
(* What the maneuver endpoint promises to the recloser, without Redis,     *)
(* without time and without the audit log: maneuvers happen one at a time, *)
(* each sends at most one control frame, none is sent during a cooldown,   *)
(* and a cooldown begins only after the frame of the maneuver in progress. *)
(***************************************************************************)
CONSTANTS
    Requests,       \* the requests that may start a maneuver
    Nobody          \* no maneuver is in progress

VARIABLES
    busy,           \* the request whose maneuver is in progress, or Nobody
    cooling,        \* whether a cooldown is running
    commanded       \* the requests whose control frame was sent

vars == <<busy, cooling, commanded>>

Init ==
    /\ busy = Nobody
    /\ cooling = FALSE
    /\ commanded = {}

Start(r) ==
    /\ busy = Nobody
    /\ r \notin commanded
    /\ busy' = r
    /\ UNCHANGED <<cooling, commanded>>

Command(r) ==
    /\ busy = r
    /\ ~cooling
    /\ r \notin commanded
    /\ commanded' = commanded \cup {r}
    /\ UNCHANGED <<busy, cooling>>

StartCooling(r) ==
    /\ busy = r
    /\ r \in commanded
    /\ cooling' = TRUE
    /\ UNCHANGED <<busy, commanded>>

Finish(r) ==
    /\ busy = r
    /\ busy' = Nobody
    /\ UNCHANGED <<cooling, commanded>>

StopCooling ==
    /\ cooling
    /\ cooling' = FALSE
    /\ UNCHANGED <<busy, commanded>>

Next ==
    \/ \E r \in Requests :
          Start(r) \/ Command(r) \/ StartCooling(r) \/ Finish(r)
    \/ StopCooling

Spec == Init /\ [][Next]_vars
=============================================================================
