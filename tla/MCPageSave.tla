----------------------------- MODULE MCPageSave -----------------------------
(* Small instances of PageSave for TLC. *)
EXTENDS PageSave, TLC

CONSTANTS p1, p2, l1, l2

TwoPages  == {p1, p2}
OneLoader == {l1}

Faults    == {"fail", "compose"}
=============================================================================
