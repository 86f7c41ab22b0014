---------------------------- MODULE MCSpaceSync ----------------------------
(* Small instances of SpaceSync for TLC. *)
EXTENDS SpaceSync, TLC

CONSTANTS p1, p2, w1, w2

SizeDistinct(d) == d

OnePath  == {p1}
TwoPaths == {p1, p2}
Workers  == {w1, w2}
OneSlot  == {1}
TwoSlots == {1, 2}
NoPaths  == {}
StdP2    == {p2}

SyncAll    == {{}}
MaybeSkip1 == {{}, {p1}}

Limits(write, delete, trouble) ==
  [k \in Kind |-> CASE k = "write" -> write [] k = "delete" -> delete
                    [] k = "trouble" -> trouble]

RaceLimits  == Limits(2, 1, 1)
QuietLimits == Limits(3, 1, 1)

Mishaps     == {"fault", "crash", "tear"}
NoSilent    == {"fault", "crash", "config"}
AllTroubles == {"fault", "crash", "tear", "config", "silent"}
WorkerSymmetry == Permutations(Workers)
=============================================================================
