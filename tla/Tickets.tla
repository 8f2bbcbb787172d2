------------------------------- MODULE Tickets --------------------------------
(***************************************************************************)
(* The server's tickets (api/v1/tickets.py, adapters/storage/minio.py): an *)
(* uploader asks for a presigned URL, puts the file into the object store  *)
(* and registers it; registering is refused while the object is missing.   *)
(* A deletion is soft and leaves the object alone.                         *)
(*                                                                         *)
(* A ticket is named by its object key, which is drawn at random for every *)
(* upload URL and is unique in the table.  The events are those of         *)
(* EventStore: a start, which an edit moves, and a deletion.  A request is *)
(* one step, as each of them writes one row.  A refused request -- 404 for *)
(* an event or ticket that is gone, 422 for a missing object, a key that   *)
(* is registered again -- changes nothing and is not a step.               *)
(***************************************************************************)
EXTENDS Naturals

CONSTANTS
  Event,
  Ticket,      \* object keys
  EventOf,     \* event a key was asked for
  Starts,      \* times an event may start
  FirstStart,  \* ... and does at first
  MaxTime,     \* bound: the clock
  MaxEdits     \* bound: edits of events

VARIABLES
  events,      \* event -> [starts, deleted]
  stored,      \* keys with an object in the store
  tickets,     \* key -> "none", "live", "deleted": the row in tickets
  clock,
  edits

server == <<events, stored, tickets, clock, edits>>

\* _event_in_workspace and _ticket_in_workspace: what is deleted is not found.
EventIsLive(t)  == ~events[EventOf[t]].deleted
TicketIsLive(t) == tickets[t] = "live"

ObjectExists(t) == t \in stored

\* upload_url, only for a live event and with a fresh key, and the PUT.
Upload(t) ==
  /\ EventIsLive(t)
  /\ stored' = stored \union {t}
  /\ UNCHANGED <<events, tickets, clock, edits>>

\* register_ticket
Register(t) ==
  /\ EventIsLive(t) /\ ObjectExists(t)
  /\ tickets[t] = "none"
  /\ tickets' = [tickets EXCEPT ![t] = "live"]
  /\ UNCHANGED <<events, stored, clock, edits>>

\* delete_ticket, which does not look at the event.
DeleteTicket(t) ==
  /\ TicketIsLive(t)
  /\ tickets' = [tickets EXCEPT ![t] = "deleted"]
  /\ UNCHANGED <<events, stored, clock, edits>>

\* get_download_url, and the object behind it.
Downloadable(t) == TicketIsLive(t) /\ ObjectExists(t)

\* An edit moves an event to another time, or deletes it.
EditEvent(e) ==
  /\ edits < MaxEdits
  /\ ~events[e].deleted
  /\ \/ \E time \in Starts \ {events[e].starts} : events' = [events EXCEPT ![e].starts = time]
     \/ events' = [events EXCEPT ![e].deleted = TRUE]
  /\ edits' = edits + 1
  /\ UNCHANGED <<stored, tickets, clock>>

Tick ==
  /\ clock < MaxTime
  /\ clock' = clock + 1
  /\ UNCHANGED <<events, stored, tickets, edits>>

ServerInit ==
  /\ events \in [Event -> [starts : FirstStart, deleted : {FALSE}]]
  /\ stored = {}
  /\ tickets = [t \in Ticket |-> "none"]
  /\ clock = 0 /\ edits = 0

ServerNext ==
  \/ \E t \in Ticket : Upload(t) \/ Register(t) \/ DeleteTicket(t)
  \/ \E e \in Event : EditEvent(e)
  \/ Tick
===============================================================================
