-------------------------- MODULE MCServiceWorker --------------------------
(* Small instances of ServiceWorker for TLC. *)
EXTENDS ServiceWorker, TLC

CONSTANTS note, photo, e1, e2

BothFiles == {note, photo}
Notes     == {note}
Two       == {e1, e2}
=============================================================================
