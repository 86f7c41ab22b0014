--------------------------- MODULE MCEventedSpace ---------------------------
(* Small instances of EventedSpace for TLC. *)
EXTENDS EventedSpace

CONSTANTS p1, p2, c1

TwoPaths  == {p1, p2}
OneCaller == {c1}

Mishaps == {"fault", "reopen"}
=============================================================================
