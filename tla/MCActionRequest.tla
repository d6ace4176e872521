--------------------------- MODULE MCActionRequest --------------------------
(* Small instances of ActionRequest for TLC. *)
EXTENDS ActionRequest, TLC

CONSTANTS a1, a2, r1, r2, r3

Callers == Permutations({a1, a2})
=============================================================================
