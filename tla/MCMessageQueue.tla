--------------------------- MODULE MCMessageQueue ---------------------------
(* Small instances of MessageQueue for TLC. *)
EXTENDS MessageQueue, TLC

CONSTANTS t1, t2, w1, w2, w3

TwoTabs == {t1, t2}
TwoWorkers   == {w1, w2}
ThreeWorkers == {w1, w2, w3}
Apart      == [w \in TwoWorkers |-> IF w = w1 THEN t1 ELSE t2]
\* w2 takes over from w1 when the plugs of the first tab are reloaded.
SplitTabs  == [w \in ThreeWorkers |-> IF w = w3 THEN t2 ELSE t1]
OneEach == {w1, w3}

Nothing == {}
Orderly == {"reload", "reopen", "flush", "await"}
=============================================================================
