---------------------------- MODULE MCOfflineCache ----------------------------
(***************************************************************************)
(* Instances of OfflineCache for TLC: an event with a ticket and a poster. *)
(***************************************************************************)
EXTENDS OfflineCache, TLC
CONSTANTS e1, t1, poster, pull, other
OneTicket == t1 :> e1
OneImage  == poster :> {e1}
===============================================================================
