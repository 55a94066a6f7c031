--------------------------- MODULE DerivedStatus ---------------------------
(***************************************************************************)
(* How a recloser's points become its derived status (protocol/rwk35.py):  *)
(* extract_hot_fields keeps the voltages whose point is online, and        *)
(* compute_derived_status decides between OPEN, CLOSED and ERROR.  That    *)
(* decision is what the guard and the verdict of a maneuver rest on.       *)
(*                                                                         *)
(* Voltages are integers in units of 100 V, so the thresholds of 0.1, 4    *)
(* and 6 kV are 1, 40 and 60.  hot is a partial function: a field that is  *)
(* not in its domain is a key that the dict lacks.  A device may also      *)
(* report a float that is not a number: with it every comparison is false. *)
(***************************************************************************)
EXTENDS Integers, Sequences

CONSTANTS
    Levels,         \* the voltages a point may report
    NaN             \* not a number

ASSUME LevelsAssumption ==
    /\ Levels \subseteq Int
    /\ NaN \notin Int

VARIABLES
    hot,            \* the fields extracted so far
    next,           \* position of the next point in the response
    status          \* the derived status, or "none" while points are read

vars == <<hot, next, status>>

\* The voltage fields in the order of their point ids 2004 to 2009.
Points  == <<"ua", "ub", "uc", "ur", "us", "ut">>
Inputs  == {"ua", "ub", "uc"}
Outputs == {"ur", "us", "ut"}
Fields  == Inputs \cup Outputs
Other   == [ua |-> "ur", ub |-> "us", uc |-> "ut"]

-----------------------------------------------------------------------------
(* compute_derived_status and voltages_match.                              *)

Number(v) == v # NaN

Above(v, x)   == Number(v) /\ v > x
AtLeast(v, x) == Number(v) /\ v >= x
Below(v, x)   == Number(v) /\ v < x
AtMost(v, x)  == Number(v) /\ v <= x

\* They differ by more than 5% of the first.
Apart(i, j) ==
    /\ Number(i) /\ Number(j)
    /\ 20 * (i - j) > i \/ 20 * (j - i) > i

\* hot.get(f) or 0
Volts(h, f) == IF f \in DOMAIN h THEN h[f] ELSE 0

\* Phases whose input is absent or at most 4 kV, or whose output is absent,
\* are passed over.
voltages_match(h) ==
    \A i \in Inputs \cap DOMAIN h :
        Other[i] \in DOMAIN h /\ ~AtMost(h[i], 40) => ~Apart(h[i], h[Other[i]])

\* Mutant: all inputs are asked for.
has_all_inputs(h) == \A i \in Inputs : Above(Volts(h, i), 40)

has_input(h) == \E i \in Inputs : Above(Volts(h, i), 40)

outputs_energized(h) == \A o \in Outputs : AtLeast(Volts(h, o), 60)

outputs_de_energized(h) == \A o \in Outputs : Below(Volts(h, o), 40)

all_zero(h) == \A f \in Fields : AtMost(Volts(h, f), 1)

\* Mutant: the match of voltages is asked first.
matched_first(h) ==
    IF all_zero(h) THEN "ERROR"
    ELSE IF voltages_match(h) THEN "CLOSED"
    ELSE IF has_input(h) /\ outputs_de_energized(h) THEN "OPEN" ELSE "ERROR"

\* No two of the conditions of the early returns hold together.
compute_derived_status(h) ==
    CASE all_zero(h) -> "ERROR"
      [] outputs_energized(h) -> "CLOSED"
      [] has_input(h) /\ outputs_de_energized(h) -> "OPEN"
      [] OTHER -> IF voltages_match(h) THEN "CLOSED" ELSE "ERROR"

-----------------------------------------------------------------------------
Init ==
    /\ hot = [f \in {} |-> 0]
    /\ next = 1
    /\ status = "none"

\* extract_hot_fields: a point that is not online is skipped, like one that the
\* response does not hold.
Extract ==
    /\ next <= Len(Points)
    /\ \/ \E v \in Levels \cup {NaN} :
             hot' = [f \in DOMAIN hot \cup {Points[next]} |->
                        IF f = Points[next] THEN v ELSE hot[f]]
       \/ UNCHANGED hot
    /\ next' = next + 1
    /\ UNCHANGED status

\* The status is derived once the points are exhausted.
Derive ==
    /\ next > Len(Points)
    /\ status = "none"
    /\ status' = compute_derived_status(hot)
    /\ UNCHANGED <<hot, next>>

Next == Extract \/ Derive

Spec == Init /\ [][Next]_vars

-----------------------------------------------------------------------------
(* Properties.                                                             *)

\* The three states as the docstring of compute_derived_status tells them
\* (rwk35.py:592-595).
Documented(h) ==
    IF \A o \in Outputs : AtLeast(Volts(h, o), 60) THEN "CLOSED"
    ELSE IF /\ \A o \in Outputs : Below(Volts(h, o), 40)
            /\ \E i \in Inputs : Above(Volts(h, i), 40)
         THEN "OPEN"
    ELSE "ERROR"

\* OPEN is derived exactly when it is documented, and a recloser with power on
\* all its outputs is never anything but CLOSED: neither the voltage-match
\* fallback (rwk35.py:629) nor a value that is not a number turns a documented
\* OPEN or CLOSED into something else, or makes an OPEN.
DocumentedWhenClear ==
    status # "none" =>
        /\ status = "OPEN" <=> Documented(hot) = "OPEN"
        /\ Documented(hot) = "CLOSED" => status = "CLOSED"

Without(h, f) == [g \in DOMAIN h \ {f} |-> h[g]]

LiveInputs(h) == {i \in Inputs : Above(Volts(h, i), 40)}

\* What one point that drops out makes of a status that a maneuver acts on.  OPEN
\* stays as long as another input is alive; without its last one it turns round
\* to CLOSED, since no phase is left to compare (rwk35.py:578-586, 629), unless
\* everything that is left is near zero.  CLOSED turns round to OPEN exactly if the
\* lost point was the only output that kept it from OPEN, so never from power on
\* all outputs.
EffectOfOneLoss ==
    \A f \in Fields :
        LET after == compute_derived_status(Without(hot, f))
        IN  /\ status = "OPEN" /\ LiveInputs(hot) # {f} => after = "OPEN"
            /\ status = "OPEN" /\ LiveInputs(hot) = {f} =>
                  after = IF \A g \in Fields \ {f} : AtMost(Volts(hot, g), 1)
                          THEN "ERROR" ELSE "CLOSED"
            /\ status = "CLOSED" =>
                  (after = "OPEN" <=> /\ LiveInputs(hot) # {}
                                      /\ f \in Outputs
                                      /\ \A o \in Outputs \ {f} : Below(Volts(hot, o), 40))

\* The docstring as a whole: everything else is ERROR.
AsDocumented == status # "none" => status = Documented(hot)
=============================================================================
