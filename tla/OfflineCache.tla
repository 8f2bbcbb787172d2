----------------------------- MODULE OfflineCache -----------------------------
(***************************************************************************)
(* The files a phone keeps for the day it has no network                   *)
(* (features/sync/offline_cache_service.dart): after a pull, a refresh     *)
(* downloads the images and the tickets of every event still to come and   *)
(* then cleans away those of events more than a day past.  The ticket      *)
(* viewer (ticket_viewer_screen.dart) downloads in the same way.           *)
(*                                                                         *)
(* Nothing keeps two of these apart: a pull does not wait for the refresh  *)
(* it starts, the background job starts a second one behind the first, and *)
(* the viewer opens whenever the user likes.  They share the files and the *)
(* table that lists them; every await between a read and a write is a      *)
(* place where the others run.                                             *)
(*                                                                         *)
(* Of a pull only its end is modelled -- the phone's rows are the server's *)
(* -- and PhoneSync says how it gets there.  Failures, kills and files     *)
(* purged by the system are bounded together by MaxFailures.               *)
(***************************************************************************)
EXTENDS Tickets

CONSTANTS
  Image,       \* image URLs
  UsedBy,      \* image -> the events it is the cover or venue of
  Puller,      \* runs of a pull and of the refresh it does not wait for
  Second,      \* second refreshes of the background job
  Viewer,      \* ticket viewers
  Grace,       \* the day a past event is kept for
  None,
  MaxFailures  \* bound

ASSUME OfflineAssumption ==
  /\ Ticket \intersect Image = {}
  /\ EventOf \in [Ticket -> Event]
  /\ UsedBy \in [Image -> SUBSET Event]

Asset   == Ticket \union Image
Worker == Puller \union Second \union Viewer

VARIABLES
  cachedEvents,  \* the phone's rows of events
  cachedTickets, \* ... and of tickets
  file,          \* item -> "none", "partial", "whole"
  row,           \* item -> is it in CachedTicketFiles or CachedImages?
  worker,
  failures,
  twice,         \* history: items of which a download truncated the file under
                 \* another one, or after one that had run beside it
  redone         \* history: listed items whose file was gone, and whose new
                 \* download is not listed yet

disk == <<file, row, twice, redone>>
cacheVars == <<server, cachedEvents, cachedTickets, disk, worker, failures>>

\* hold: what a download's open file is to it.  It is its "own" until another
\* download truncates it, when its bytes are "shared" with the other's, or
\* until the file is deleted and it writes to a "lost" one.
AtRest ==
  [pc |-> "idle", events |-> {}, todo |-> {}, drop |-> {},
   step |-> "next", item |-> None, hold |-> "own"]

At(w, pc)     == worker[w].pc = pc /\ worker[w].step = "next"
AtStep(w, s)  == worker[w].step = s
Becomes(w, r) == worker' = [worker EXCEPT ![w] = r]

\* watchUpcomingEvents
Upcoming(rows) == {e \in Event : ~rows[e].deleted /\ rows[e].starts >= clock}

\* pastEventsBefore(now - 1 day)
Past == {e \in Event : ~cachedEvents[e].deleted /\ cachedEvents[e].starts + Grace < clock}

\* ticketsForEventIds
TicketsOf(E) == {t \in Ticket : cachedTickets[t] = "live" /\ EventOf[t] \in E}
ImagesOf(E)  == {i \in Image : UsedBy[i] \intersect E # {}}

\* Mutant: the table alone says what is on disk.
CachedByRow(i) == row[i]

Cached(i) == row[i] /\ file[i] # "none"

-----------------------------------------------------------------------------
(* A refresh *)

\* The events to come, and their images; what is needed is decided here, once.
Begin(rows) ==
  [AtRest EXCEPT !.pc = "images",
                 !.events = Upcoming(rows), !.todo = ImagesOf(Upcoming(rows))]

\* pullChanges ends, and its refresh starts.
Pull(r) ==
  /\ At(r, "idle")
  /\ cachedEvents' = events /\ cachedTickets' = tickets
  /\ Becomes(r, Begin(events))
  /\ UNCHANGED <<server, disk, failures>>

\* kpBackgroundCallback: a second refresh, while the pull's own is under way.
RefreshAgain(r) ==
  /\ At(r, "idle")
  /\ \E q \in Puller : worker[q].pc \notin {"idle", "view"}
  /\ Becomes(r, Begin(cachedEvents))
  /\ UNCHANGED <<server, cachedEvents, cachedTickets, disk, failures>>

ListTickets(r) ==
  /\ At(r, "images") /\ worker[r].todo = {}
  /\ Becomes(r, [worker[r] EXCEPT !.pc = "tickets", !.todo = TicketsOf(worker[r].events)])
  /\ UNCHANGED <<server, cachedEvents, cachedTickets, disk, failures>>

\* The viewer is opened on a ticket of any event.
View(v) ==
  /\ At(v, "idle")
  /\ \E t \in Ticket :
       /\ cachedTickets[t] = "live"
       /\ Becomes(v, [AtRest EXCEPT !.pc = "view", !.todo = {t}])
  /\ UNCHANGED <<server, cachedEvents, cachedTickets, disk, failures>>

-----------------------------------------------------------------------------
(* A download: _ensureImageCached, _ensureTicketCached, _ensureLocalFile *)

\* The download of its item is over, well or badly.
Ended(w) ==
  IF worker[w].pc = "view" THEN AtRest
  ELSE [worker[w] EXCEPT !.todo = @ \ {worker[w].item}, !.item = None,
                         !.step = "next", !.hold = "own"]

\* What is in the table and on disk is left alone, whatever it holds.
Look(w) ==
  /\ worker[w].pc \in {"images", "tickets", "view"} /\ AtStep(w, "next")
  /\ \E i \in worker[w].todo :
       IF Cached(i)
       THEN /\ Becomes(w, [worker[w] EXCEPT !.todo = @ \ {i},
                                            !.pc = IF @ = "view" THEN "idle" ELSE @])
            /\ UNCHANGED redone
       ELSE /\ Becomes(w, [worker[w] EXCEPT
                             !.item = i, !.step = IF i \in Ticket THEN "ask" ELSE "open"])
            /\ redone' = IF row[i] THEN redone \union {i} ELSE redone
  /\ UNCHANGED <<server, cachedEvents, cachedTickets, file, row, twice, failures>>

\* The download URL of a ticket, which stays good when the ticket is deleted; a
\* deleted ticket has none: a 404, and the next item.
Ask(w) ==
  /\ AtStep(w, "ask")
  /\ Becomes(w, IF Downloadable(worker[w].item) THEN [worker[w] EXCEPT !.step = "open"]
                ELSE Ended(w))
  /\ UNCHANGED <<server, cachedEvents, cachedTickets, disk, failures>>

Writing(i) == {w \in Worker : AtStep(w, "write") /\ worker[w].item = i}
InHand(i)  == \E w \in Worker : worker[w].step \in {"write", "record"} /\ worker[w].item = i

\* Every download that has file i open holds it like this from now on.
Held(i, hold) ==
  [w \in Worker |-> IF w \in Writing(i) /\ worker[w].hold # "lost"
                    THEN [worker[w] EXCEPT !.hold = hold] ELSE worker[w]]

\* Does a download that now opens i meet another one: one that has it in hand, or
\* one that has listed it since this one looked?
Meets(i) == InHand(i) \/ (row[i] /\ i \notin redone)

\* Mutant: the table is written with the file's name, before its content.
OpenRecorded(w) ==
  LET i == worker[w].item IN
  /\ AtStep(w, "open")
  /\ file' = [file EXCEPT ![i] = "partial"]
  /\ row' = [row EXCEPT ![i] = TRUE]
  /\ worker' = [Held(i, "shared") EXCEPT ![w].step = "write"]
  /\ twice' = IF Meets(i) THEN twice \union {i} ELSE twice
  /\ UNCHANGED <<server, cachedEvents, cachedTickets, redone, failures>>

\* The bytes have come: writeAsBytes truncates the file ...
Open(w) ==
  LET i == worker[w].item IN
  /\ AtStep(w, "open")
  /\ file' = [file EXCEPT ![i] = "partial"]
  /\ worker' = [Held(i, "shared") EXCEPT ![w].step = "write"]
  /\ twice' = IF Meets(i) THEN twice \union {i} ELSE twice
  /\ UNCHANGED <<server, cachedEvents, cachedTickets, row, redone, failures>>

\* ... and writes.  All write the same bytes: the others cannot harm what is
\* whole now, but what was written before another's truncation is gone unless
\* that one ends.
Write(w) ==
  LET i == worker[w].item IN
  /\ AtStep(w, "write")
  /\ \/ /\ worker[w].hold = "own"
        /\ file' = [file EXCEPT ![i] = "whole"]
        /\ worker' = [Held(i, "own") EXCEPT ![w].step = "record", ![w].hold = "own"]
     \/ /\ worker[w].hold = "shared"
        /\ \E content \in {"partial", "whole"} : file' = [file EXCEPT ![i] = content]
        /\ Becomes(w, [worker[w] EXCEPT !.step = "record", !.hold = "own"])
     \/ /\ worker[w].hold = "lost"
        /\ Becomes(w, [worker[w] EXCEPT !.step = "record", !.hold = "own"])
        /\ UNCHANGED file
  /\ UNCHANGED <<server, cachedEvents, cachedTickets, row, twice, redone, failures>>

\* upsertTicketFile, upsertCachedImage; asking the length of a file that was
\* deleted meanwhile is an error, and swallowed.
Record(w) ==
  LET i == worker[w].item IN
  /\ AtStep(w, "record")
  /\ row' = [row EXCEPT ![i] = @ \/ file[i] # "none"]
  /\ redone' = redone \ {i}
  /\ Becomes(w, Ended(w))
  /\ UNCHANGED <<server, cachedEvents, cachedTickets, file, twice, failures>>

-----------------------------------------------------------------------------
(* The cleaning: _gcPastEvents *)

\* Images of past events that no event to come needs; nothing past, no cleaning.
Clean(r) ==
  /\ At(r, "tickets") /\ worker[r].todo = {}
  /\ Becomes(r, IF Past = {} THEN AtRest
                ELSE [worker[r] EXCEPT !.pc = "findImages", !.events = Past,
                                  !.drop = ImagesOf(Past) \ ImagesOf(worker[r].events)])
  /\ UNCHANGED <<server, cachedEvents, cachedTickets, disk, failures>>

\* What the tables list of them: the images all at once, the tickets one by one.
FindImages(r) ==
  /\ At(r, "findImages")
  /\ Becomes(r, [worker[r] EXCEPT !.pc = "dropImages",
                                  !.todo = {i \in worker[r].drop : row[i]}])
  /\ UNCHANGED <<server, cachedEvents, cachedTickets, disk, failures>>

FindTicket(r) ==
  /\ At(r, "dropTickets")
  /\ \E t \in worker[r].todo :
       Becomes(r, IF row[t] THEN [worker[r] EXCEPT !.pc = "dropTicket", !.item = t]
                  ELSE [worker[r] EXCEPT !.todo = @ \ {t}])
  /\ UNCHANGED <<server, cachedEvents, cachedTickets, disk, failures>>

\* file.delete(), for what the table listed then.
DropFile(r) ==
  /\ \E i \in worker[r].todo :
       /\ \/ At(r, "dropImages")
          \/ At(r, "dropTicket") /\ i = worker[r].item
       /\ file' = [file EXCEPT ![i] = "none"]
       /\ worker' = [Held(i, "lost") EXCEPT
                       ![r] = [worker[r] EXCEPT
                                 !.todo = @ \ {i}, !.drop = @ \union {i}, !.item = None,
                                 !.pc = IF @ = "dropTicket" THEN "dropTickets" ELSE @]]
  /\ UNCHANGED <<server, cachedEvents, cachedTickets, row, twice, redone, failures>>

\* The rows go together at the end: those of the images, and then the
\* tickets of the same past events are listed ...
DropImageRows(r) ==
  /\ At(r, "dropImages") /\ worker[r].todo = {}
  /\ row' = [i \in Asset |-> row[i] /\ i \notin worker[r].drop]
  /\ Becomes(r, [worker[r] EXCEPT !.pc = "dropTickets", !.todo = TicketsOf(worker[r].events), !.drop = {}])
  /\ UNCHANGED <<server, cachedEvents, cachedTickets, file, twice, redone, failures>>

\* ... and then those of the tickets.
DropTicketRows(r) ==
  /\ At(r, "dropTickets") /\ worker[r].todo = {}
  /\ row' = [i \in Asset |-> row[i] /\ i \notin worker[r].drop]
  /\ Becomes(r, AtRest)
  /\ UNCHANGED <<server, cachedEvents, cachedTickets, file, twice, redone, failures>>

-----------------------------------------------------------------------------
(* Failures *)

Failure == failures < MaxFailures /\ failures' = failures + 1

\* No network, no space: swallowed, and the refresh goes on with the next item.
DownloadFails(w) ==
  /\ worker[w].step # "next" /\ Failure
  /\ Becomes(w, Ended(w))
  /\ UNCHANGED <<server, cachedEvents, cachedTickets, disk>>

\* The app is killed, or the background job ends and takes its first refresh
\* with it.
KillWorkers ==
  /\ Failure
  /\ \E W \in {Worker} \union {{w} : w \in Worker} :
       /\ \E w \in W : ~At(w, "idle")
       /\ worker' = [w \in Worker |-> IF w \in W THEN AtRest ELSE worker[w]]
  /\ UNCHANGED <<server, cachedEvents, cachedTickets, disk>>

\* "cache wipe, OS purge"
Purge(i) ==
  /\ file[i] # "none" /\ Failure
  /\ file' = [file EXCEPT ![i] = "none"]
  /\ worker' = Held(i, "lost")
  /\ UNCHANGED <<server, cachedEvents, cachedTickets, row, twice, redone>>

-----------------------------------------------------------------------------
CacheInit ==
  /\ ServerInit
  /\ cachedEvents = events /\ cachedTickets = tickets
  /\ file = [i \in Asset |-> "none"] /\ row = [i \in Asset |-> FALSE]
  /\ worker = [w \in Worker |-> AtRest]
  /\ failures = 0 /\ twice = {} /\ redone = {}

DownloadStep(w) == Look(w) \/ Ask(w) \/ Open(w) \/ Write(w) \/ Record(w)

RefreshStep(r) ==
  \/ ListTickets(r) \/ DownloadStep(r)
  \/ Clean(r) \/ FindImages(r) \/ FindTicket(r)
  \/ DropFile(r) \/ DropImageRows(r) \/ DropTicketRows(r)

CacheNext ==
  \/ ServerNext /\ UNCHANGED <<cachedEvents, cachedTickets, disk, worker, failures>>
  \/ \E r \in Puller : Pull(r)
  \/ \E r \in Second : RefreshAgain(r)
  \/ \E r \in Puller \union Second : RefreshStep(r)
  \/ \E v \in Viewer : View(v) \/ DownloadStep(v)
  \/ \E w \in Worker : DownloadFails(w)
  \/ KillWorkers
  \/ \E i \in Asset : Purge(i)

\* The phone syncs again and again, and what runs goes on.
CacheFairness ==
  /\ \A r \in Puller : WF_cacheVars(Pull(r))
  /\ \A r \in Puller \union Second : WF_cacheVars(RefreshStep(r))
  /\ \A v \in Viewer : WF_cacheVars(DownloadStep(v))

CacheSpec == CacheInit /\ [][CacheNext]_cacheVars /\ CacheFairness

-----------------------------------------------------------------------------
(* Properties *)

\* A download that is cut short is not mistaken for a ticket, although nothing
\* checks what a listed file holds: a file with a row is whole, unless two
\* downloads of it overlapped, or it is being downloaded again, or that was cut
\* short, under the row of a file that has gone.
TornOnlyIfTwice ==
  \A i \in Asset : row[i] /\ file[i] = "partial" => i \in twice \union redone

\* What an event still to come needs is on the phone in the end, whole but for
\* the same two exceptions: what was deleted by a cleaning that did not know of
\* the event's new time, purged, or cut short before it had a row is downloaded
\* again.
Needed(i) ==
  LET upcoming == {e \in Event : ~events[e].deleted /\ events[e].starts >= clock} IN
  IF i \in Ticket THEN tickets[i] = "live" /\ EventOf[i] \in upcoming
                  ELSE UsedBy[i] \intersect upcoming # {}

ReadyForTheDoor ==
  <>[](\A i \in Asset : Needed(i) =>
         row[i] /\ file[i] # "none" /\ (file[i] = "partial" => i \in twice \union redone))
===============================================================================
