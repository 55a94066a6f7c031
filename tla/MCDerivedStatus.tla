-------------------------- MODULE MCDerivedStatus --------------------------
(* A grid of voltages around the thresholds: near zero, residual, either   *)
(* side of 4 kV, either side of 6 kV and of the 5% tolerance of 6 kV.      *)
EXTENDS DerivedStatus

Grid == {1, 30, 40, 42, 57, 60}
=============================================================================
