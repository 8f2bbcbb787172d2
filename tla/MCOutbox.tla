------------------------------ MODULE MCOutbox -------------------------------
(***************************************************************************)
(* Instances of Outbox for TLC: an event and a watchlist item.             *)
(***************************************************************************)
EXTENDS Outbox
CONSTANTS event, item

\* An update, which may conflict; a notify, whose effect a version check does
\* not keep from happening twice; a row the server rejects; and an edit of the
\* item, which changes the phone's copy before the server has answered.
MixedEdits ==
  ({event} \X {"update", "notify", "bad"}) \union {<<item, "update">>}
=============================================================================
