----------------------------- MODULE MCManeuver -----------------------------
(* Model-checking instances of Maneuver and of its refinement.             *)
EXTENDS ManeuverRefinement, TLC

\* Requests are told apart only by what they do.  The refinement mapping's
\* CHOOSE does not break this: while ImplementsGate holds, it chooses from a
\* set of one.
Symmetry == Permutations(Requests)
=============================================================================
