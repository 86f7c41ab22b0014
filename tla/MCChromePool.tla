---------------------------- MODULE MCChromePool ----------------------------
(* Small instances of ChromePool for TLC. *)
EXTENDS ChromePool, TLC

CONSTANTS s1, s2

Two == {s1, s2}
=============================================================================
