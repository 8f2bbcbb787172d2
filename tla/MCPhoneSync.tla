---------------------------- MODULE MCPhoneSync ------------------------------
(***************************************************************************)
(* Instances of PhoneSync for TLC: the pulls of one isolate.               *)
(***************************************************************************)
EXTENDS PhoneSync
CONSTANTS ui, bg, p1, p2, e1, e2, n1, n2   \* isolates, pulls, events, notifications
OneIsolate == [p \in Pull |-> ui]
=============================================================================
