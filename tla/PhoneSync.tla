----------------------------- MODULE PhoneSync -------------------------------
(***************************************************************************)
(* How a phone follows the server: SyncController.pullChanges, its cache   *)
(* and cursor (drift, on disk) and the delivery of event notifications.    *)
(*                                                                         *)
(* A pull is a process: the app's timer, its resume and a pull-to-refresh  *)
(* start pulls in the UI isolate, the background job in one of its own.    *)
(* isSyncing keeps a second pull of the same isolate away, but only until  *)
(* the last page is stored: the delivery that follows may overlap the next *)
(* pull.  Requests get lost, showing may fail, and the app may be killed   *)
(* between any two steps.                                                  *)
(*                                                                         *)
(* The server is the one of EventStore, one transaction at a time for each *)
(* event, reduced to what a phone can see of it: which change of which     *)
(* entity becomes visible when, under which number.                        *)
(***************************************************************************)
EXTENDS Notifications, FiniteSets

CONSTANTS
  Event, Notif,   \* entities: events and their notifications
  Pull,           \* pulls that may be running at the same time
  Isolate,        \* Dart isolates of the app
  IsolateOf,      \* the isolate of each pull
  Limit,          \* batchSize: changes in a page
  StaleAfter,     \* _staleAfter: an overdue notification is dropped
  Skew,           \* how far the phone's clock is ahead of the server's
  NoRow,          \* no row in the cache
  MaxSeq,         \* bound: changes on the server
  MaxTime,        \* bound: ticks of the server's clock
  MaxFailures     \* bound: lost requests, failed shows and kills

Key == Event \union Notif

ASSUME SyncAssumption ==
  /\ Event \intersect Notif = {}
  /\ IsFiniteSet(Event) /\ IsFiniteSet(Notif)
  /\ IsolateOf \in [Pull -> Isolate]
  /\ Limit \in Nat \ {0}
  /\ {StaleAfter, Skew, MaxSeq, MaxTime, MaxFailures} \subseteq Nat

\* A change of an entity; due is the deliver_after of a notification.
Change ==
  [seq : 1 .. MaxSeq, key : Key, event : Event, version : 1 .. MaxSeq,
   deleted : BOOLEAN, due : 0 .. MaxTime + Window]

ASSUME NoRowAssumption == NoRow \notin Change

VARIABLES
  log,        \* committed changes
  open,       \* the transaction on each event: its changes and when it began
  nextSeq,
  clock,      \* the database clock
  cache,      \* the phone's tables: the change last applied to each entity
  cursor,     \* sync_cursor
  shown,      \* shownVersion of each notification, 0 for null
  tray,       \* the version of each notification the user was shown, 0 for none
  pull,       \* the state of each pull
  failures,
  \* history, read by no action:
  served,     \* the highest next_seq given to the phone
  late,       \* changes that were committed below it
  dropped     \* notifications marked as shown and not shown

server  == <<log, open, nextSeq, clock>>
phone   == <<cache, cursor, shown, tray>>
history == <<served, late, dropped>>
vars    == <<server, phone, pull, failures, history>>

-----------------------------------------------------------------------------
(* The server *)

Free == [changes |-> {}, since |-> 0]

Published(k) == {c \in log : c.key = k}
Newest(S)    == CHOOSE c \in S : \A d \in S : d.seq <= c.seq
Exists(k)    == Published(k) # {}
Row(k)       == Newest(Published(k))
Live(k)      == Exists(k) /\ ~Row(k).deleted

Fresh(n) == ~Exists(n) /\ \A e \in Event : \A c \in open[e].changes : c.key # n

EventChange(seq, e, version, deleted) ==
  [seq |-> seq, key |-> e, event |-> e, version |-> version,
   deleted |-> deleted, due |-> 0]

\* The next change of an entity that has one.
Revised(seq, k, deleted) ==
  [Row(k) EXCEPT !.seq = seq, !.version = @ + 1, !.deleted = deleted]

\* announce without MERGE_MARGIN.
MergeableTooLate(e, n) == Live(n) /\ Row(n).event = e /\ Row(n).due > clock

MergeableNow(e, n) == Live(n) /\ Row(n).event = e /\ Row(n).due > clock + Margin

\* announce: what it may write for event e, with number seq.
Announcements(seq, e, manual) ==
  LET open_ == {n \in Notif : MergeableNow(e, n)} IN
  IF open_ # {}
  THEN {Revised(seq, n, FALSE) : n \in {m \in open_ : \A o \in open_ : Row(o).due <= Row(m).due}}
  ELSE {[seq |-> seq, key |-> n, event |-> e, version |-> 1, deleted |-> FALSE,
         due |-> IF manual THEN clock ELSE clock + Window] : n \in {m \in Notif : Fresh(m)}}

\* A request writes these changes of event e and its notifications; the row of
\* the event stays locked until it ends.
Writes(e, changes) ==
  /\ nextSeq + Cardinality(changes) - 1 <= MaxSeq
  /\ open' = [open EXCEPT ![e] = [changes |-> changes, since |-> clock]]
  /\ nextSeq' = nextSeq + Cardinality(changes)
  /\ UNCHANGED <<log, clock, phone, pull, failures, history>>

\* The requests of EventStore that a phone hears of.
Request(e) ==
  /\ open[e].changes = {}
  /\ \/ /\ ~Exists(e)                                    \* create
        /\ \E n \in Announcements(nextSeq + 1, e, FALSE) :
             Writes(e, {EventChange(nextSeq, e, 1, FALSE), n})
     \/ /\ Live(e)                                       \* update
        /\ \/ Writes(e, {Revised(nextSeq, e, FALSE)})
           \/ \E n \in Announcements(nextSeq + 1, e, FALSE) :
                Writes(e, {Revised(nextSeq, e, FALSE), n})
     \/ /\ Live(e)                                       \* notify
        /\ \E n \in Announcements(nextSeq, e, TRUE) : Writes(e, {n})
     \/ /\ Live(e)                                       \* delete
        /\ LET due == {n \in Notif : Live(n) /\ Row(n).event = e /\ Row(n).due > clock} IN
           \E seqOf \in [due -> nextSeq + 1 .. nextSeq + Cardinality(due)] :
             /\ \A m, n \in due : seqOf[m] = seqOf[n] => m = n
             /\ Writes(e, {Revised(nextSeq, e, TRUE)}
                            \union {Revised(seqOf[n], n, TRUE) : n \in due})

Commit(e) ==
  /\ open[e].changes # {}
  /\ log'  = log \union open[e].changes
  /\ open' = [open EXCEPT ![e] = Free]
  /\ late' = late \union {c \in open[e].changes : c.seq <= served}
  /\ UNCHANGED <<nextSeq, clock, phone, pull, failures, served, dropped>>

Abort(e) ==
  /\ open[e].changes # {}
  /\ open' = [open EXCEPT ![e] = Free]
  /\ UNCHANGED <<log, nextSeq, clock, phone, pull, failures, history>>

\* Assumed of the server: a transaction ends within MERGE_MARGIN.
Tick ==
  /\ clock < MaxTime
  /\ \A e \in Event : open[e].changes # {} => clock < open[e].since + Margin
  /\ clock' = clock + 1
  /\ UNCHANGED <<log, open, nextSeq, phone, pull, failures, history>>

-----------------------------------------------------------------------------
(* A pull *)

Steps   == {"idle", "request", "read", "apply", "mark", "list", "deliver", "show", "shown"}
Syncing == {"request", "read", "apply"}      \* isSyncing

Idle ==
  [pc     |-> "idle",
   cursor |-> 0,
   first  |-> FALSE,    \* isFirstSync
   now    |-> 0,        \* serverNow
   page   |-> {},       \* changes of the page not applied yet
   next   |-> 0,        \* next_seq
   more   |-> FALSE,    \* has_more
   due    |-> {},       \* rows of dueNotifications not handled yet
   row    |-> NoRow]    \* the one being shown

Step(p, pc) == pull[p].pc = pc

\* pullChanges: read the cursor, unless the isolate is already syncing.
Start(p) ==
  /\ Step(p, "idle")
  /\ \A q \in Pull : IsolateOf[q] = IsolateOf[p] => pull[q].pc \notin Syncing
  /\ pull' = [pull EXCEPT ![p] = [Idle EXCEPT !.pc = "request", !.cursor = cursor,
                                              !.first = (cursor = 0), !.now = clock + Skew]]
  /\ UNCHANGED <<server, phone, failures, history>>

\* Mutant: the phone's own clock.
OwnClock(p) ==
  /\ Step(p, "request")
  /\ pull' = [pull EXCEPT ![p].pc = "read"]
  /\ UNCHANGED <<server, phone, failures, history>>

\* fetch_changes reads the clock ...
ServerTime(p) ==
  /\ Step(p, "request")
  /\ pull' = [pull EXCEPT ![p].pc = "read", ![p].now = clock]
  /\ UNCHANGED <<server, phone, failures, history>>

\* ... and then the log: the changes above the cursor with the lowest numbers,
\* as many as fit in a page.
Above(b)  == {c \in log : c.seq > b}
Page(rows) == {c \in rows : Cardinality({d \in rows : d.seq < c.seq}) < Limit}
Oldest(S) == CHOOSE c \in S : \A d \in S : c.seq <= d.seq

\* Mutant: next_seq is the last number given out.
NextIsIssued(p) ==
  LET rows == Above(pull[p].cursor) IN
  /\ Step(p, "read")
  /\ pull' = [pull EXCEPT ![p].pc = "apply", ![p].page = Page(rows), ![p].next = nextSeq - 1,
                          ![p].more = (Page(rows) # rows)]
  /\ served' = IF nextSeq - 1 > served THEN nextSeq - 1 ELSE served
  /\ UNCHANGED <<server, phone, failures, late, dropped>>

ReadPage(p) ==
  LET rows == Above(pull[p].cursor)
      page == Page(rows)
      next == IF page = {} THEN pull[p].cursor ELSE Newest(page).seq
  IN
  /\ Step(p, "read")
  /\ pull' = [pull EXCEPT ![p].pc = "apply", ![p].page = page, ![p].next = next,
                          ![p].more = (page # rows)]
  /\ served' = IF next > served THEN next ELSE served
  /\ UNCHANGED <<server, phone, failures, late, dropped>>

\* _applyChange: an upsert by id, which leaves shownVersion alone.
Apply(p) ==
  /\ Step(p, "apply")
  /\ pull[p].page # {}
  /\ LET c == Oldest(pull[p].page) IN
     /\ cache' = [cache EXCEPT ![c.key] = c]
     /\ pull' = [pull EXCEPT ![p].page = @ \ {c}]
  /\ UNCHANGED <<server, cursor, shown, tray, failures, history>>

\* The page is done: the next one, or what follows the last one.
AfterPage(p, now) ==
  IF pull[p].more
  THEN [pull[p] EXCEPT !.pc = "request", !.cursor = pull[p].next, !.next = 0, !.more = FALSE, !.now = now]
  ELSE [Idle EXCEPT !.pc = IF pull[p].first THEN "mark" ELSE "list", !.now = now]

\* writeCursor, after the last change of a page.
StoreCursor(p) ==
  /\ Step(p, "apply")
  /\ pull[p].page = {}
  /\ cursor' = pull[p].next
  /\ pull' = [pull EXCEPT ![p] = AfterPage(p, pull[p].now)]
  /\ UNCHANGED <<server, cache, shown, tray, failures, history>>

\* markDueNotificationsShown
MarkHistory(p) ==
  LET marked == {n \in Notif : cache[n] # NoRow /\ cache[n].due <= pull[p].now} IN
  /\ Step(p, "mark")
  /\ shown' = [n \in Notif |-> IF n \in marked THEN cache[n].version ELSE shown[n]]
  /\ dropped' = dropped \union marked
  /\ pull' = [pull EXCEPT ![p] = Idle]
  /\ UNCHANGED <<server, cache, cursor, tray, failures, served, late>>

\* dueNotifications
ListDue(p) ==
  LET due == {n \in Notif : /\ cache[n] # NoRow /\ ~cache[n].deleted
                            /\ cache[n].due <= pull[p].now
                            /\ shown[n] < cache[n].version}
  IN
  /\ Step(p, "list")
  /\ pull' = [pull EXCEPT ![p] = IF due = {} THEN Idle
                                 ELSE [@ EXCEPT !.pc = "deliver", !.due = {cache[n] : n \in due}]]
  /\ UNCHANGED <<server, phone, failures, history>>

\* Row r is done: the next one, if there is one.
Done(p, r) ==
  LET rest == pull[p].due \ {r} IN
  pull' = [pull EXCEPT ![p] = IF rest = {} THEN Idle
                              ELSE [@ EXCEPT !.pc = "deliver", !.due = rest, !.row = NoRow]]

\* _deliverDueNotifications: a row is dropped when its event is missing or
\* deleted or when it is long overdue, and shown otherwise.
Deliver(p) ==
  /\ Step(p, "deliver")
  /\ \E r \in pull[p].due :
       /\ \A q \in pull[p].due : r.due <= q.due
       /\ IF \/ cache[r.event] = NoRow \/ cache[r.event].deleted
             \/ pull[p].now - r.due > StaleAfter
          THEN /\ shown' = [shown EXCEPT ![r.key] = r.version]
               /\ dropped' = dropped \union {r.key}
               /\ Done(p, r)
          ELSE /\ pull' = [pull EXCEPT ![p].pc = "show", ![p].row = r]
               /\ UNCHANGED <<shown, dropped>>
  /\ UNCHANGED <<server, cache, cursor, tray, failures, served, late>>

\* showEventNotification: fetches the cover, then asks the platform.
Show(p) ==
  /\ Step(p, "show")
  /\ tray' = [tray EXCEPT ![pull[p].row.key] = pull[p].row.version]
  /\ pull' = [pull EXCEPT ![p].pc = "shown"]
  /\ UNCHANGED <<server, cache, cursor, shown, failures, history>>

\* markNotificationShown
MarkShown(p) ==
  /\ Step(p, "shown")
  /\ shown' = [shown EXCEPT ![pull[p].row.key] = pull[p].row.version]
  /\ Done(p, pull[p].row)
  /\ UNCHANGED <<server, cache, cursor, tray, failures, history>>

Failure == failures < MaxFailures /\ failures' = failures + 1

\* Mutant: a failed show counts as shown.
ShowFailsForGood(p) ==
  /\ Step(p, "show") /\ Failure
  /\ shown' = [shown EXCEPT ![pull[p].row.key] = pull[p].row.version]
  /\ Done(p, pull[p].row)
  /\ UNCHANGED <<server, cache, cursor, tray, history>>

\* recordNotificationFailure: the row stays unshown.
ShowFails(p) ==
  /\ Step(p, "show") /\ Failure
  /\ Done(p, pull[p].row)
  /\ UNCHANGED <<server, phone, history>>

\* The request or its answer is lost: the pull ends, pages already stored stay.
RequestFails(p) ==
  /\ pull[p].pc \in {"request", "read", "apply"} /\ Failure
  /\ pull' = [pull EXCEPT ![p] = Idle]
  /\ UNCHANGED <<server, phone, history>>

\* The system kills an isolate.
Kill(i) ==
  /\ \E p \in Pull : IsolateOf[p] = i /\ pull[p].pc # "idle"
  /\ Failure
  /\ pull' = [p \in Pull |-> IF IsolateOf[p] = i THEN Idle ELSE pull[p]]
  /\ UNCHANGED <<server, phone, history>>

-----------------------------------------------------------------------------
Init ==
  /\ log = {} /\ open = [e \in Event |-> Free] /\ nextSeq = 1 /\ clock = 0
  /\ cache = [k \in Key |-> NoRow] /\ cursor = 0
  /\ shown = [n \in Notif |-> 0] /\ tray = [n \in Notif |-> 0]
  /\ pull = [p \in Pull |-> Idle]
  /\ failures = 0
  /\ served = 0 /\ late = {} /\ dropped = {}

PullStep(p) ==
  \/ Start(p) \/ ServerTime(p) \/ ReadPage(p) \/ Apply(p) \/ StoreCursor(p)
  \/ MarkHistory(p) \/ ListDue(p) \/ Deliver(p) \/ Show(p) \/ MarkShown(p)

Next ==
  \/ \E e \in Event : Request(e) \/ Commit(e) \/ Abort(e)
  \/ Tick
  \/ \E p \in Pull : PullStep(p) \/ ShowFails(p) \/ RequestFails(p)
  \/ \E i \in Isolate : Kill(i)

\* Transactions end, and the app's timers and the background job start pulls
\* for ever; a pull that neither fails nor is killed goes on.
Fairness ==
  /\ \A e \in Event : WF_vars(Commit(e) \/ Abort(e))
  /\ \A p \in Pull : WF_vars(PullStep(p))

Spec == Init /\ [][Next]_vars /\ Fairness

-----------------------------------------------------------------------------
(* Properties *)

\* What the cursor claims: every change up to it is in the cache, or a newer
\* one of the same entity is -- except changes committed below a number the
\* phone had been given.  Killing the app between a change and the cursor
\* only makes it read changes again.
CacheKeepsUp ==
  \A c \in log \ late :
    c.seq <= cursor => cache[c.key] # NoRow /\ cache[c.key].seq >= c.seq

\* No notification is shown before its time, however fast the phone's clock.
NeverEarly ==
  \A n \in Notif : tray[n] # 0 => Row(n).due <= clock

\* What the user was shown is final: no change merged into the notification
\* later.  This is what MERGE_MARGIN and the order of the two reads in
\* fetch_changes are for, and it needs both.
ShownIsFinal ==
  \A n \in Notif : tray[n] # 0 /\ late = {} =>
    \A c \in log \union UNION {open[e].changes : e \in Event} :
      c.key = n /\ ~c.deleted => c.version <= tray[n]

\* Every notification is shown in the end, in its last version, unless it was
\* withdrawn, its time has not come, or the phone decided to drop it.
Settled(n) ==
  Live(n) /\ Row(n).due <= clock /\ n \notin dropped /\ late = {} => tray[n] = Row(n).version
Delivered == <>[](\A n \in Notif : Settled(n))

-----------------------------------------------------------------------------
(* What the documentation says and the code does not do *)

\* sync.md: the cursor is the highest seq applied, and the client loops until
\* it has caught up.  A transaction that takes a number before another one and
\* commits after it is never seen.
NothingMissed ==
  \A c \in log : c.seq <= cursor => cache[c.key] # NoRow /\ cache[c.key].seq >= c.seq
=============================================================================
