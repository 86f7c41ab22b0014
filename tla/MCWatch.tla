------------------------------ MODULE MCWatch ------------------------------
(* Small instances of Watch for TLC. *)
EXTENDS Watch, TLC

CONSTANTS p1, p2

TwoPaths == {p1, p2}
=============================================================================
