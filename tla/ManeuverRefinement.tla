------------------------- MODULE ManeuverRefinement -------------------------
(***************************************************************************)
(* Maneuver implements ManeuverGate: the request in its try block is the   *)
(* maneuver in progress, the cooldown key is the cooldown, and the frames  *)
(* that left are the commands.                                             *)
(***************************************************************************)
EXTENDS Maneuver

CONSTANT Nobody
ASSUME RefinementAssumption == Nobody \notin Requests

InProgress ==
    IF \E r \in Requests : InBody(r)
    THEN CHOOSE r \in Requests : InBody(r)
    ELSE Nobody

Gate == INSTANCE ManeuverGate WITH
            busy <- InProgress,
            cooling <- cooldown > 0,
            commanded <- sent

\* Redis keys, TTLs and an unconditional DEL amount to a gate that lets one
\* maneuver of the project through at a time and keeps frames out of
\* cooldowns (views.py:97-259).
ImplementsGate == Gate!Spec
=============================================================================
