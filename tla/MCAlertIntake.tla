--------------------------- MODULE MCAlertIntake ---------------------------
(* Finite instances of AlertIntake for TLC: the tasks that take in the alert  *)
(* and the snapshots of its evidence are model values of the configuration.   *)
EXTENDS AlertIntake, TLC

=============================================================================
