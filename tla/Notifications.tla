---------------------------- MODULE Notifications ----------------------------
(***************************************************************************)
(* The rules of apps/api/src/kp_api/notifications.py that do not depend on *)
(* who runs them: which notification of an event is still open to a merge, *)
(* what a merge leaves, what a new notification is and which ones the      *)
(* deletion of the event withdraws.  EventStore runs them in transactions. *)
(*                                                                         *)
(* Time is counted in ticks of the database clock.                         *)
(***************************************************************************)
EXTENDS Integers

CONSTANTS
  Window,     \* COALESCE_WINDOW: how long an automatic notification waits
  Margin,     \* MERGE_MARGIN: a notification this close to delivery is left alone
  NoMessage   \* the null message

ASSUME TimingAssumption == Window \in Nat /\ Margin \in Nat

Kinds == {"event_changed", "manual", "event_created"}

\* _KIND_RANK
KindRank(kind) ==
  CASE kind = "event_changed" -> 0
    [] kind = "manual"        -> 1
    [] kind = "event_created" -> 2

StrongerKind(a, b) == IF KindRank(a) >= KindRank(b) THEN a ELSE b

\* The SELECT of announce: an undelivered notification of the event with
\* more than the margin left.
Mergeable(row, e, now) ==
  /\ row.event = e
  /\ ~row.deleted
  /\ row.deliverAfter > now + Margin

\* The merge branch of announce.
Merge(row, kind, changes, message) ==
  [row EXCEPT !.kind    = StrongerKind(row.kind, kind),
              !.changes = @ \union changes,
              !.message = IF message # NoMessage THEN message ELSE @,
              !.version = @ + 1]

\* The other branch: a manual notification is due at once.
NewNotification(e, kind, changes, message, now) ==
  [event        |-> e,
   kind         |-> kind,
   changes      |-> changes,
   message      |-> message,
   deliverAfter |-> IF kind = "manual" THEN now ELSE now + Window,
   version      |-> 1,
   deleted      |-> FALSE]

\* Mutant: what is too late to merge is too late to withdraw.
WithdrawableOpen(row, e, now) == Mergeable(row, e, now)

\* The SELECT of withdraw_pending, and what it does to each row.
Withdrawable(row, e, now) ==
  /\ row.event = e
  /\ ~row.deleted
  /\ row.deliverAfter > now

Withdrawn(row) == [row EXCEPT !.deleted = TRUE, !.version = @ + 1]
=============================================================================
