-------------------------- MODULE MCIndexLifecycle --------------------------
(* Small instances of IndexLifecycle for TLC. *)
EXTENDS IndexLifecycle

CONSTANTS p1, p2, t1, t2

TwoPaths == {p1, p2}
OnePath  == {p1}
OneTab   == {t1}
TwoTabs  == {t1, t2}

Interrupted == {"close", "early"}
=============================================================================
