# Kulturní Přehled: specifications

Kulturní Přehled keeps the shared agenda of a small group: events, tickets,
costs and a watchlist, on a server (FastAPI, PostgreSQL) and on phones that
work offline (Flutter, drift/SQLite), and plans a season with agents that
scrape programmes, judge what fits and watch sold-out halls. What is hard in
it is the way an edit travels: from a phone's outbox through a retried batch
into a transaction, from there into the change log, and by pages into every
other phone's cache, where it may become a notification that is shown once; and
everything that several writers without a common lock do to the same rows, files
and limits. This directory specifies both in TLA+, checks it with TLC and proves
parts of it with TLAPS.

    tlc -workers 2 -config EventStore_events.cfg MCEventStore    # a run
    tlapm EventStoreProofs.tla                                   # proofs

`PROJECT.json` lists the runs, the source lines of every definition, the
hazards with the properties that cover them, and for every property a mutant:
a plausible bug that makes it fail. A mutant is an operator beside the one it
stands in for, marked `Mutant:`, and used by nothing.

## 1. The system

Paths are below `src/apps/api/src/kp_api/` (server), `src/apps/mobile/lib/`
(phone), `src/infra/` and `src/skills/`.

| Component | Where | State | Operations | Modelled by |
|---|---|---|---|---|
| Event API | `api/v1/events.py` | tables `events`, `event_notifications` | create, update, delete, notify | `EventStore` |
| Batch apply | `api/v1/sync.py`, `sync/service.py` | `applied_ops` | `POST /v1/sync/apply`: one transaction, a savepoint per operation, recorded answers | `EventStore` |
| Notification rules | `notifications.py` | `event_notifications` | announce (coalesce), withdraw | `Notifications` |
| Change log | `sync/changelog.py`, `sync/service.py` | `change_log` and its sequence | append in the writer's transaction, `GET /v1/sync` | `ChangeFeed`, `EventStore`, `PhoneSync` |
| Phone sync | `features/sync/sync_controller.dart`, `background_sync.dart`, `data/drift/database.dart` | cache tables, `sync_cursor`, `shownVersion` | pull, apply a page, deliver notifications | `PhoneSync` |
| Outbox | `features/outbox/outbox_controller.dart`, dialog in `event_detail_screen.dart` | `pending_ops` | queue, push, split a rejected batch, resolve a conflict | `Outbox` |
| Tokens | `adapters/auth.py`, `api/v1/auth.py`; `data/api_client/kp_client.dart`, `data/storage/token_store.dart` | token families; one pair on the phone | issue, rotate with a grace period, revoke a family; refresh under a file lock | `TokenRefresh` |
| Watchlist | `api/v1/watchlist.py`, the appliers in `sync/service.py` | items with parent and position | create, update, check, move, delete with children | `Watchlist` |
| Season planner | `api/v1/season.py`, `domain/candidate_identity.py` | plans, pool, scenarios, programme links | upload a pool (merge by identity), decide, push and apply scenarios, acknowledge novelties | `Season` |
| Seat watches | `api/v1/season.py`, `infra/claudebox/seat-watch.py` | watches | users create, change, delete; the runner reads halls, reports and mails | `SeatWatch` |
| Fetcher | `skills/lib/kp_fetch.py` | cache of pages, state of each host | conditional requests under a budget, a gap and a cooldown | `Fetcher` |
| Calendar | `adapters/calendar_ics.py` | the cached feed of a process | fetch, classify | `CalendarView`, `Planner` |
| Validator, agents | `skills/kulturni-sezona/bin/kp_validate.py`, the `SKILL.md` files | the files of a run | read plan, context and calendar, judge | `PlanRules`, `Planner` |
| Tickets | `api/v1/tickets.py`, `adapters/storage/minio.py` | table `tickets`, objects | presigned upload, register, download, delete | `Tickets` |
| Offline cache | `features/sync/offline_cache_service.dart`, `ticket_viewer_screen.dart` | files, `cached_ticket_files`, `cached_images` | download, clean up past events | `OfflineCache` |
| Reminders | `features/notifications/notification_service.dart` | the platform's schedule | rescheduling | - |
| The rest | costs, stats, digest, feedback, mail, music, shell, migrations, web app, deployment | single rows, or none | CRUD, formatting, wiring | - |

How they interact: REST handlers and batch appliers write tables and append to
the change log in one transaction; phones poll the log by cursor and never get
a push; a phone's own edits go through the outbox only and come back to it by
the log; UI and background isolates share one SQLite file, one cursor, one
token pair and one directory of files, but no memory, and no lock but that around
a refresh of the tokens. Scrapers fill the fetcher's cache and push pools to the season API, which
the planner's page and the agents read; agents save what the API answers as files
and let the validator judge; the seat runner is one more client of the API.

What makes each part correct, and what makes that hard:

* **Event API and batch apply.** Requests run at READ COMMITTED without locking
  what they read. An operation a phone retries takes effect once; the recorded
  answer is the truth; a deletion is final; the log ends with the version the
  table has. Hard: interleavings between SELECT, UPDATE, the insertion of the
  answer and COMMIT, rollbacks at any point, sequence numbers that are taken
  before they are visible.
* **Notifications.** One open notification per event, none for a deleted
  event. Hard: announcements racing each other, a deletion, the clock and the
  phones that read.
* **Change log.** Changes of one entity appear in the order of their numbers.
  Hard: commit order is not number order.
* **Phone sync.** What is below the cursor is in the cache; a notification is
  shown not too early, in its final version, and in the end. Hard: overlapping
  pulls, kills between two writes, late commits, a wrong phone clock.
* **Outbox.** An edit takes effect once, in order, and leaves the phone only
  with an answer. Hard: requests lost or late, batches cut in pieces, conflicts
  kept pending, kills.
* **Tokens.** Two isolates and a server with reuse detection: no race may log a
  device out, no family of tokens forks, a dead pair does not stay. Hard: the
  store is written key by key, the lock excludes processes only, answers get
  lost after the rotation.
* **Watchlist.** The tree has one level, siblings have distinct positions and stay
  where they were put, the log has the last state. Hard: every check is made before the
  write and without a lock; a midpoint may not exist.
* **Season.** A merge keeps what the user decided, there is one row per event, an
  identical push is silent, the cursor passes no novelty unseen but in known ways. Hard: overlapping
  uploads, decisions and applications, each writing back what it read.
* **Seat watches.** A find is mailed once, and every watch gets its turn. Hard:
  users change a watch between the runner's list, its report and its mail; halls hang.
* **Fetcher.** Budget and cooldown hold across processes; what counts as fresh is;
  every page is checked again. Hard: the cache is read without the lock, two files
  make one page, a run needs more requests than a day has.
* **Planning.** What is offered is free and within the rules. Hard: context and calendar
  are read one after the other, through a cache another client refreshes; the rules
  are checked by shortcuts.
* **Offline cache.** What a coming event needs is on the phone, whole. Hard: three
  downloaders and a cleaning share files and table without any lock, and may be
  cut off at every await.

## 2. Plan

| | Module | Models | Composes with | State |
|---|---|---|---|---|
| 1 | `Notifications` | rules of `notifications.py` as operators | used by 3, 4 | done |
| 2 | `ChangeFeed` | abstract: what the log promises | implemented by 3 | done |
| 3 | `EventStore` | REST and batch transactions | EXTENDS 1, refines 2 | done |
| 4 | `PhoneSync` | pulls, cursor, cache, delivery | EXTENDS 1 | done |
| 5 | `Outbox` | queue, push, conflicts | the server of 3, a batch at a time | done |
| 6 | `TokenRefresh` | token family, grace period, two isolates, crashes | | done |
| 7 | `Watchlist` | nesting, cascade, positions of bounded precision | | done |
| 8 | `Season` | pool uploads by identity, scenarios, novelties | | done |
| 9 | `SeatWatch` | API and runner | | done |
| 10 | `Fetcher` | cache, budget and cooldown of a host | | done |
| 11 | `CalendarView`, `PlanRules`, `Planner` | classification; rules; the runs of the agents over the cached calendar | 11c EXTENDS 11b EXTENDS 11a | done |
| 12 | `Tickets`, `OfflineCache` | the server's tickets; the phone's files | 12b EXTENDS 12a | done |
| 13 | `Reminders` | rescheduling against pulls | 4 | left |

The order is that of importance: 1-5 are the way of an edit from one phone to
the other, and everything else hangs on it. Left besides 13: two events in one
batch and deadlocks between batches (`EventStore`), two events that share an image
(`OfflineCache`; the instance is too large for a run), costs.

`Sorting`, used by 8 and 11, has Python's sort as an operator. Proofs: every safety property of
modules 3-12 is proved, and the refinement of `ChangeFeed` (section 5). What is left to prove is
what module 13 and the parts named above would add.

## 3. Modules

### Notifications

Operators only. `Mergeable`, `Merge` and `NewNotification` are the branches of
`announce`, `Withdrawable` and `Withdrawn` those of `withdraw_pending`. A set of
changed columns stands for the list of changes, a kind keeps its rank, time is
counted in ticks. The only assumption, `TimingAssumption`, is that window and
margin are natural numbers.

### ChangeFeed

The feed as a phone may rely on it: `Issue` takes numbers, `Publish` makes the
changes of a transaction visible, possibly below visible ones, but above every
visible change of the same entity. It forbids neither gaps nor late commits,
because the code does not.

### EventStore

A session is a request in a transaction. Its steps are the statements another
request can come between: look up a recorded answer (`Lookup`), SELECT and check
(`Read`), UPDATE with the log entry (`Write`), lock, look again and announce
(`Announce`), withdraw (`Withdraw`), insert the answer (`Record`), `Commit`.
`Abort` stands for deadlocks, lost connections, errors and restarts. `Begin` is a
request's arrival and `TakeOp` the next operation of a batch, so any operation
may be in any batch, at any place, and may be sent any number of times.

* `tx[s].mem` is the ORM's copy of the row, and that is what the code logs;
  `Stored` is the UPDATE, which names only the columns whose value in memory
  changed. The difference between the two is why two concurrent edits of
  different columns both survive in the table but not in the log.
* `Over` is what READ COMMITTED shows: committed rows and one's own.
  `LockedByOther` is a row lock until the end of the holder's transaction. Both
  are external: PostgreSQL as the code uses it.
* A REST handler that refuses ends the transaction, a batch operation goes back
  to its savepoint, which at that point has written nothing, and records its
  answer. An exception no handler catches (`EventGone` in an update, a primary
  key) rolls back everything, the batch included.
* `owner` and `by` of a log entry are history: which event and which operation
  it comes from.

Abstracted: one workspace, members with the same rights; the columns an event
has are a few, of which some are watched; images and links have no columns of
their own; a constraint violation other than a primary key is an operation of
kind `other` (refused) or an `Abort`.

### PhoneSync

A pull is a process: `Start` (cursor, `isSyncing`), `ServerTime` and `ReadPage`
(the two reads of `fetch_changes`), `Apply` per change, `StoreCursor`, then
`MarkHistory` on a first sync, otherwise `ListDue`, `Deliver`, `Show`,
`MarkShown` per notification. `RequestFails`, `ShowFails` and `Kill` may happen
between any two. `isSyncing` covers a pull up to its last cursor, so delivery may
overlap the next pull of the isolate. `IsolateOf` says which pulls share the flag.

The server in it is that of `EventStore` without what phones cannot see: a
request takes numbers for what it will publish (`Request`), then commits or
aborts. There is one open transaction per event, which is what `WritesUnderLock`
says of `EventStore`. It assumes
that a transaction ends within `MERGE_MARGIN`, which is what the module comment of
`notifications.py` has the margin for; without it `ShownIsFinal` is false. A page is the set of
its changes not yet applied, which `Apply` takes by their numbers. Tickets, costs and items are
applied exactly as events are and are left out.

History variables: `served` and `late` (changes committed below a number the
phone has been given), `dropped`. No guard reads them.

### Outbox

`ops` and `pending` are `pending_ops`; operations are numbered by `created_at` and
the number is the `op_id`. `ReadBatch`, `Post`, `Result`, `Answered`, `Reject`,
`GiveUp` are `pushPending` and `_send`; `Queue` is the `queue*` methods;
`Discard`, `KeepMine` and `Requeue` are the dialog. The server takes a batch at
once (`Serve`): the steps of that are in `EventStore`, where it is checked what two
copies of one operation do at the same time. A request the phone gave up may
arrive later (`late`), at any time and once.

Abstracted: payloads are their effect on the version; a batch of 50 rows is
`Limit`; a 5xx is a request that did not arrive; copies of the same given-up
batch are one member of `late`, which the recorded answers make equal;
`requeueWithFreshBaseVersion` reads 200 rows and the instances have fewer.
An operation is `bad` if the server cannot parse it.
`queueEventDelete` exists in the controller and no screen calls it; it is
modelled as the kind `delete`.

### TokenRefresh

The refresh of an isolate is `Unauthorised` (the 401), `Lock`, `ReadPair` (the store
again, under the lock), `Rotate` (the whole transaction of `POST /v1/auth/refresh`,
which locks the row), then `WriteKey` for every key, or `Reread` and `ClearKey`. The
user's `SignIn` and `SignOut` write and clear the same keys without the lock.
`shared` says whether the isolates run in one process, where the file lock does not
keep them apart; it is either, for ever. `GiveUp` loses a request or an answer,
`Kill` ends a process and starts the app again.

A number is a token pair: the access token is good for `AccessTTL` ticks whatever
happens, the refresh token has a row. A refresh from several requests of one
isolate is one (`_refreshInFlight`). The two dates the store keeps with a pair are
one key. Signing in while a token is stored, other devices, personal access tokens
and `/v1/auth/logout`, which the app never calls, are left out.

`signedIn` is history too: a sign-in has ended, and no other and no sign-out has begun since.
`Pair` is what the three keys may hold.

`mishaps` is history: what the code does not protect against and has happened.
The properties say that nothing else signs a user out or gets a family revoked.
`raced` is set only within one process or with the user, so between processes they
rest on the lock; a race that ends well sets nothing.

### Watchlist

The REST handlers and the appliers of the outbox are two copies of the same reads,
checks and writes, and one action stands for both; where they differ, in the place of an item that
moves to the end, it follows the applier. A request is `Begin` (its row, and
its children if it deletes), `ReadFamily` (is the parent a live root, has the item
children?), `Siblings` (what positions there are) and `Commit`; a commit writes the
columns that changed in memory. `Flushed` is what `record_watchlist_change` logs: the
row as the transaction has it. Positions are integers with `One` for the distance 1.0, so
that a midpoint may not exist and is rounded either way, as with doubles.

History variables: `torn` (written over a row that has changed since it was read),
`displaced` (placed among siblings that have), `cramped` (placed where no midpoint was
left). The properties say that these are the only ways to go wrong.

### Season

A request in flight is what its SELECTs saw (`seen`), with a second SELECT where the
handler has one (`ReadAgain`); `Effect` makes of it what the handler makes of the ORM's
objects, and `Commit` writes the columns that changed, if the unique indexes let it. The
core is `Upload`, a pure operator: `Collapsed` (the last of each key, then of each identity, in the
order in which a Python dict keeps them), `Purged` (venues vetoed since), `Mapped` (the maps built before
the loop) and `Ingest`, one item against those maps, repeated by a recursive function; with `Fold`,
`Inherit`, `Rewrite` and `Merged` for what
`_merge_candidate` and the update of a row do. An item is a key, a url, a body (the scraped
fields) and an enrichment; `Identity` gives the identity of a url, as
`candidate_identity.py` computes it from host, path and evening.

`announced`, `dismissed`, `overlooked` and `heirs` are history: what listings have shown, what the reader passed over,
rows committed behind a listing or the cursor, and rows that took their `first_seen_at` from one of those folded into them.
A listing asks for what was first seen after `Since`: a time the reader names, or the cursor, which is the season's start as
long as nothing was acknowledged (`Cursor`). An acknowledgement may bear the time of any listing, or one of
`Moments`, since the API takes any time: the season skill acknowledges its first push with the present one. `dismissed` is what was passed over so:
acknowledged beyond every listing that started at the cursor, or older than a season of which nothing had been acknowledged.
`settled` is the last upload that nothing overtook, and whether it was `Apart`: named each row
of the pool, by key or identity, at most once. A payload that names a row twice makes `put_pool` lose
what it stored a moment before (the run `repush`), so the properties about a row's fate ask for it.

### SeatWatch

`Send`, `Read`, `Commit` are a user's request, `StartPass`, `ReadHall`, `PostReport`,
`CommitReport`, `Notify` the runner's pass, `Kill` its end at any point, after which the
report it had sent may still be served (`CommitOrphan`). A hall shows a free pair,
singles, an expired link, or hangs; `todo` is the set of watches that the pass has not got
to, `Current` the next of them in the order of the list, the oldest first. A pass can bear `Patience` hanging halls: one
more has used up the five minutes of its service, which kills it (a hall may take 45 s for every operation of a socket).
A change of a user's sets the state, to any of the four, the link or both. `Notify` mails, ends the pass by an exception, or, where no mail is
configured, goes on without. `life` counts the starts of a watch, `mails`
the mails of each start, `silent` the watches whose mail failed, was cut off or is not configured, or that a user has set found.

### Fetcher

A `get` is `LoadMeta`, `LoadBody` (without the lock), `Lock` (cooldown and budget), `Awake`
(the gap), `Answer` (the body is replaced), `WriteMeta`, `Release` (the state of the host is
written). A run is a sequence of pages, always in the same order. Times are ages, which a
`Tick` raises; no tick passes while a scraper works. How old a page may be is the run's affair: the limit is 0 in a run that refreshes
(`KP_FETCH_REFRESH`), a few days for a page that the run watches (`KP_FETCH_FRESH_URLS`) or a feed, `MaxAge`
otherwise, less a fixed part by page; `limits` has the limits that the runs of a host may give a page, and each `get` takes one. A 304
renews the metadata (`Touched`). The list of requests in a host's
file is a function from numbers to ages: a request keeps its number (`request`) from the moment it is
made until it is a day old, so that what is on file can be compared with what was sent. `torn` has the pages whose two
files may not belong together.

### CalendarView, PlanRules, Planner

`ParseCalendar` is the classification of the feed: which days are blocked and which
windows conflict. `PlanRules` is `kp_validate.py` as it computes: neighbours by date,
weeks by their lists of titles, one first title per work, complaints compared as texts
(`Fits`). `SortedBy` of `Sorting` sorts by ranks, stably and without recursion. `Planner` runs an agent: `Start` (the plan), `ReadContext`
(`GET /v1/digest/context`), `Ask` for the calendar, then any number of verdicts, `Fit` on a
novelty or `Gate` on a scenario. A request for the feed is `Ask` (the cached copy is
looked at), `Serve` (the calendar's server answers, at times with garbage), `Arrive` or
`FailFetch`; the planner's page sends them too, and `Restart` empties the process. What the feed serves counts as the calendar: Google
"regenerates the feed lazily anyway" (`calendar_ics.py:44`), and that delay comes on top of what `OffersAreFree` says.
`settled` and `stale` are history.

### Tickets, OfflineCache

`Tickets` is the server: requests of one step each, as each writes one row; a ticket is
named by its object key. `OfflineCache` adds the phone. A worker is the refresh of a pull
(`Pull`), the background job's second one (`RefreshAgain`) or a viewer (`View`). A download
is `Look` (row and file?), `Ask` (a ticket's URL, which stays good when the ticket is deleted),
`Open` (the bytes have come and truncate the file), `Write`, `Record`; a cleaning is `Clean`, `FindImages` (their rows, all at once),
`FindTicket` (one row at a time), `DropFile`, `DropImageRows`, `DropTicketRows`. `hold` says
what two writers do to each other's bytes in one file, and to a file that was deleted under
them. Of a pull only its end is in the module. `twice` and `redone` are history: `twice` has the items of which a download opened
the file while another one had it in hand, or after one had listed it since this one looked; `redone` those whose file had gone
while the row stayed, from the look that finds this to the new row. The refresh drops an empty
answer and the viewer writes and records it (`ticket_viewer_screen.dart:101`); the model has the refresh's check for both.


## 4. Runs

| Run | Instance | Shows |
|---|---|---|
| `events` | two sessions, one event, three notifications; four edits (create, update and delete in batches, an update over REST), 5 requests, batches of 2; or six operations around announcements, 4 requests, 3 ticks | `AnswerMatchesLog`, `AppliedAtMostOnce`, `LastChangeHasVersion`, `OneOpenNotification`, `DeletionIsFinal`, `NothingPendingOfDeleted`, `FeedInv`, `ImplementsFeed` (refinement) |
| `phone` | two pulls of one isolate, two events, a notification, pages of 2, 4 changes, 2 ticks, a phone clock one tick fast, one failure or kill | `CacheKeepsUp`, `NeverEarly`, `ShownIsFinal`, `Delivered` (liveness) |
| `missed_change` | one pull, two events, two notifications | the violation of `NothingMissed` |
| `outbox` | an event (updates, announcements, unparsable rows) and a watchlist item (updates), three operations in batches of two, one failure or kill | `EffectOnce`, `EditsInOrder`, `NothingForgotten`, `ConflictIsReal`, `PushEndsOrWedges` (liveness) |
| `tokens` | two isolates of one process or of two, the user, two tokens, 3 ticks with lifetimes of 1 and 2, no grace within a tick, one lost request or kill | `OneLiveToken`, `PairIsCurrent`, `SessionKept`, `DeadPairIsDropped` (liveness) |
| `season` | two clients, a concert under two slugs, a festival under two keys, a club; ten payloads, one of which names a row twice; pools empty or forked; a season that starts between its candidates or after them; listings since any time and acknowledgements of any; nine workloads of up to four requests | `UploadKeepsDecisions`, `OneRowPerEvent`, `RepushIsQuiet`, `AckedWasSeen` |
| `repush` | the same | the violation of `IdenticalRepushBumpsNothing` |
| `seats` | two tabs, a candidate asked for under two links and a watch without candidate, four workloads, a kill, a change of a hall, passes that one hanging hall slows and two get killed | `OneMail`, `FoundIsAnnounced`, `NoWatchStarves` (liveness) |
| `watchlist` | two members, a list with a child and a list without room between two roots, five workloads | `TreeKept`, `SiblingsApart`, `AnchorHonoured`, `LogIsCurrent` |
| `fetch` | two scrapers, seven hosts: three pages with a budget of two, a page that some runs refresh or watch beside another one, refusals, a kill, a page that changes | `BudgetKept`, `CooldownKept`, `ServedIsConfirmed`, `EveryPageChecked` (liveness) |
| `planner` | all plans over a pool of four, six novelties, nine scenarios, three sets of bookings, one calendar; and a changing calendar with failures, garbage, a restart and the page | `VerdictsAreExact`, `OffersAreFree` |
| `offline` | one event that moves or is deleted, a ticket, a poster, a pull's refresh and a second refresh or viewer, two ticks, one failure, kill or purge | `TornOnlyIfTwice`, `ReadyForTheDoor` (liveness) |

**The bounds.** *Two actors* everywhere: each race of the code is between the read of
one and the write of another, and a third would be one of the two again. *Server.* `Workloads`
bounds a behaviour to edits or to announcements; time passes only in the latter,
as only announcements depend on it. Five
requests leave room for an operation that is sent again after a race. One event
is enough, because nothing relates two events but the numbers of the log, and the
two-event case is in `phone`; what it leaves out is a deadlock between batches,
whose outcome (`Abort`) is in the model. Columns: one watched, one not; values:
two. Window 2 and margin 1 give every position of the clock relative to a
deadline: mergeable, too late to merge, due. *Phone.* Four changes make two pages with
an update between them; `StaleAfter` 1 lets a notification become stale. Three operations
with batches of two make a full batch, a second one and a split. Two tokens are a login
and a refresh, or two logins; three ticks are enough for a rotation,
a reuse after the grace and the expiry of the refresh token, in this order. *Season.* Three
requests are two that overlap and one before or after; each workload mixes the kinds that
share a table; a season starts before or after what is in its pool, and `Moments` are before and after the time at which
a behaviour starts. *Seats.* `Patience` 1, where the service has about six: two creations that race both watch the candidate at a
link that hangs, and every pass is killed before it comes to a third watch. *Watchlist.* `One` = 2 leaves one midpoint between new neighbours and none
after that. *Fetcher.* A day of 2 ticks, a cooldown of 1 to 3 and an age limit of 8 keep the order of
the real ones. A run is longer than the budget, and this is what `EveryPageChecked`
needs to say something; it holds as long as a page lives for enough days to let the budget go round:
pages ≲ budget × age limit / interval of the runs; and as long as the pages that have a shorter limit in some run,
asked for by each scraper once a tick, leave room in the budget (`LeaveRoom`). The run has two pages, one of them refreshed, with a budget of
5; with the 4 that the refreshed one can take up in a day the property fails. *Planner.* Two weeks of five days of
eight hours, a cap of 2 and a gap of 2 put every pair of events on each side of each limit.
*Offline.* Grace 1 within two ticks makes an event that is coming, past within the grace, and
past; with two events and a shared image the instance has 1.3 million states and was
explored once, without a violation. `CHECK_DEADLOCK FALSE` everywhere: all bounds are
budgets, and with a spent budget the system rightly stops.

**Symmetry** is used for sessions, events, notifications, clients and members in runs
without liveness, whose properties are symmetric in them.

**Fairness.** Only for the liveness properties. `PhoneSync`: transactions end
(they are requests with timeouts), and a pull that can take a step takes it; pulls
start again for ever, which the timer of the app and the periodic task of
`background_sync.dart` justify. `Outbox`: a push that is not killed goes on,
because every request is answered or times out; nothing is assumed to start one.
`TokenRefresh`: a refresh that has begun goes on, and isolates send requests again and
again, which the periodic task justifies. `SeatWatch`: `kp-seat-watch.timer` starts a pass every ten minutes for ever, and its
service ends one after five. `Fetcher`: time passes, runs come again, which `kulturni-prehled-weekly.timer` sees to, and a run that works goes on. `OfflineCache`:
pulls come again, and a refresh that can take a step takes it. Of users, and of the second refresh's
start, nothing is assumed; kills and failures are finitely many.

### Where code and documents differ

`missed_change` is checked: `sync.md` says "the client loops on `has_more=true` until
caught up", but a transaction with a lower number may commit after a phone was
given a higher one, and it is never read.

`repush` is checked: `docs/api.md` says "identical re-push bumps nothing". The pool has a festival (key k3) and a concert
(k2); an upload lists the concert under k3 and then the festival under k5. Two shows may share a key, which holds the
date but not the hour (`schemas.py:427`). The concert takes the festival's row by its key and the concert's row
is folded into it. Then the festival is looked up in `by_identity`, which was built before the loop and still has that
row, so it adopts and rekeys it (`season.py:493`) and overwrites it: the concert is gone from the pool, what the user noted on it is on the
festival, and the same upload once more creates a row. It was the proof of `UploadKeepsDecisions` that failed at this
point.

Noticed while modelling, each an execution of a model, and not the subject of a run:

*Events, sync and outbox*

* `models.py:13` calls the version an optimistic lock. Two requests that read version 1
  both write version 2 (`events.py:168`); the second author is never told. `LastChangeHasVersion` is what is left.
* `sync.md:43` says that a client that follows the log can build a tombstone. An edit that read the event before
  its deletion logs a live snapshot above it (`service.py:241`); the table stays deleted (`DeletionIsFinal`).
* `sync.md:266` says that a first sync replays no history. One that ends between two pages leaves a
  cursor, the next pull is not a first one (`sync_controller.dart:57`) and shows old notifications. A
  first sync of an empty server leaves the cursor at 0, so the next one is a first one again.
* `models.py:14` says that clients echo the version they last saw. Edits of watchlist items echo
  `cached version + 1` before the answer is known (`watchlist_repository.dart:120`), and another member's edit may have got that number.
* `sync.md:101` says that the pusher runs on a network stream. After a failure only another edit starts a push (`outbox_controller.dart:220`).
* `sync.md` says that an event deleted meanwhile is answered 404 or `not_found`.
  Only the notify handlers catch `EventGone`; an update answers 500, and in a batch
  this fails every operation in it (`Announce` ends the transaction there).
* `CacheKeepsUp` does not hold for pulls in two isolates: each has its own `isSyncing`, and an older
  page written last leaves a stale row below the cursor until the entity changes again.
* As soon as the oldest 50 rows of the outbox are all in conflict, `pushPending`
  sends them again and again and never reaches later edits. `PushEndsOrWedges`
  says that this is the only way a push does not end.
* "Keep mine" deletes a row and inserts another; an app killed in between loses the edit.
* `sync.md` mentions a nightly purge of deleted rows that `cli.py` does not have.

*Tokens*

* The comment in `kp_client.dart` says that the loser of a race of two isolates of
  one process finds the winner's pair in the store. It does if the winner has
  stored it by then; if not, the loser's `clear` and the winner's `write`
  interleave key by key and the device is signed out (the mishap `raced`). The grace period
  covers the race as long as a refresh takes less than half of it (`slow`).
* `auth.py` calls a lost answer to a rotation benign. It does not burn the family
  within the grace period, but the phone has no token that works any more and
  clears its store with the next 401 (`lost`).
* `kp_client.dart` says that clearing the store redirects to the login on the next
  frame. `AuthController` reads the store only when the app starts.
* Signing out does not take the lock: a refresh that is on its way stores its pair
  afterwards, and the background isolate goes on with it.
* `docs/api.md` says that reuse burns all tokens of the user; the code burns one
  family, and only after the grace period.

*Watchlist*

* "watchlist nests one level only": two concurrent moves can nest two items under each other, or
  an item under a child, and a creation under a parent deleted meanwhile leaves an orphan. `TreeKept` says that a
  request that nobody overtook does none of this.
* Two items appended at the same time share a position; so do items put between neighbours with no midpoint left.
* `_scope_max_position` of the REST handler counts the item that moves, the copy in `service.py` does not.

*Season and seat watches*

* `by_dedup_key` is not corrected either when a row is rekeyed (`season.py:494`): its old key still leads to it, for an
  item later in the same payload.
* A decision made between an upload's SELECT and its commit on a row that is folded away is lost.
* `season.py:1192`: "a stale or replayed ack can never rewind the cursor". `ack_novelties` compares with the cursor it has
  read, without a lock: of two that both read the old one, the earlier may commit last, and what was mailed is listed as new again.
* A candidate may be acknowledged unseen: an upload that stamped its rows before a listing commits after it; a row takes its
  `first_seen_at` from such a one; a reader acknowledges a time beyond its listing, as the season skill does after its first push; and what
  is older than the season's start is never listed before the first acknowledgement, which then passes it (`season.py:1155`).
  `AckedWasSeen` says that these are the only ways.
* `kp-seat-watch.service`: "A hall that will not load is a normal outcome — the watch records the reason and the next pass tries again."
  A pass reads the halls in the same order each time, at up to 45 s for every operation of a socket, and is killed after five minutes:
  watches on halls that hang use it up every time, and one behind them is never read. `NoWatchStarves` says that it takes more than `Patience` of them.
* `season.py:1287` says that "the list marks it expired on the next pass": the list changes nothing, only a report does.
* `notified_at` is never set and `max_price_czk` never looked at. A report is sent before the mail, so a runner killed in
  between loses the mail. Two overlapping creations give a candidate two live watches.

*Fetcher and planning*

* `kp_fetch.py:23`: "A page that does not fit is served from the cache, stale, and refreshed by a later run; a first fill of an empty
  cache therefore spreads over several runs". The budget is spent in the order in which a run asks. Pages that are due in every run
  (under `KP_FETCH_REFRESH`, in `KP_FETCH_FRESH_URLS`, or of a feed) may take it all, and then what comes after them is never asked for;
  two such pages with a budget of two are enough. `EveryPageChecked` says that it takes this (`LeaveRoom`).
* A 304 renews the metadata read before the lock, which may overwrite those of a newer body; a run killed between
  body and metadata may leave a 404's body under the metadata of a page. Requests of a killed run are not charged.
* `calendar_ics.py:309`: "only reports `fetch_failed` when nothing was ever cached". A 200 answer that is no
  calendar replaces a good copy and blanks the view for a TTL; of two overlapping fetches the slower, older one stays.
* `violations.ts:79`: "adjacent-by-date comparison suffices for a min-gap check". It does not if a season event, which is
  exempt, lies between two close ones (`Hidden`), and dropping it exposes the pair.
* `fit` compares complaints by their texts, so a third date of a title passes where the plan has two; it does not look at prices;
  and two novelties that fit one by one need not fit together. A selected candidate that is also booked counts twice.

*Offline cache*

* `background_sync.dart` calls its second refresh "a near-no-op when the first already finished". It has not: the first is
  not awaited, both download the same files at the same time, and the isolate's end may cut one off in the middle of a file the other
  has recorded. Nothing reads the file again (`Look`), so a torn ticket stays.
* `offline_cache_service.dart:21`: "Failures are swallowed per-item — the next sync gets another chance." Not for what is listed: a
  torn file that has a row is taken for the ticket for good. It takes two downloads that met on one item, or one download, cut short, of a file
  that a purge or an interrupted cleaning had taken away under its row; `TornOnlyIfTwice` says that there is no third way.
* Images of a past event are dropped unless a *coming* event needs them: one that started today does not count, despite the
  day of grace. Files of deleted tickets and events, and files without a row, are never collected.
* An object may be replaced through its presigned URL after it was registered; the phone never notices.

## 5. Proofs

For all values of the constants that satisfy the named assumptions.

| Module | Theorem | Of |
|---|---|---|
| `EventStoreProofs` | `TypeCorrect` | `TypeOK` |
| | `LogsUnderLock`, `FeedImplemented` | `FeedInv`, `ImplementsFeed` |
| | `RetriesAreHarmless`, `AnswersAreTrue` | `AppliedAtMostOnce`, `AnswerMatchesLog` |
| | `PhonesGetTheVersion` | `LastChangeHasVersion` |
| | `DeletionWithdraws`, `DeletionStands` | `NothingPendingOfDeleted`, `DeletionIsFinal` |
| | `AnnouncementsMerge` | `OneOpenNotification` |
| `OutboxProofs` | `EditsActOnce`, `EditsActInOrder` | `EffectOnce`, `EditsInOrder` |
| | `EditsAreKept`, `ConflictsAreReal` | `NothingForgotten`, `ConflictIsReal` |
| `PhoneSyncProofs` | `NothingEarly` | `NeverEarly` |
| | `CacheFollows`, `NothingAfterwards` (pulls of one isolate) | `CacheKeepsUp`, `ShownIsFinal` |
| `TokenRefreshProofs` | `FamilyNeverForks` | `OneLiveToken` |
| | `PairStaysCurrent`, `SessionIsKept` | `PairIsCurrent`, `SessionKept` |
| `WatchlistAndPlannerProofs` | `PositionsAreApart`, `LogAgrees` | `SiblingsApart`, `LogIsCurrent` |
| | `TreeStaysFlat`, `AnchorIsHonoured` | `TreeKept`, `AnchorHonoured` |
| | `RunsAreConsistent` | the inductive invariant of `Planner` |
| | `FreeTimeIsRespected`, `RulesAreKept` | `OffersAreFree`, `VerdictsAreExact` |
| `SeasonProofs` | `TheCursorPassesNothing` | `AckedWasSeen` |
| | `EventsAreUnified`, `DecisionsAreKept` | `OneRowPerEvent`, `UploadKeepsDecisions` |
| | `RepushesAreQuiet` | `RepushIsQuiet` |
| `SeatAndCacheProofs` | `MailedOnce`, `FindsAreAnnounced` | `OneMail`, `FoundIsAnnounced` |
| | `ListedIsWhole` | `TornOnlyIfTwice` |
| `FetcherProofs` | `BudgetIsKept`, `CooldownIsKept` | `BudgetKept`, `CooldownKept` |
| | `PagesAreConfirmed` | `ServedIsConfirmed` |

**Types.** `TypeOK` of `EventStore` is not inductive: `Write` takes the version from the copy in
memory, and that this is a row depends on the step the session is at. `Typed` adds `StepOK`:
which of operation, copy and answer exist at which step, and that a creation writes all
columns. One lemma per action; `SetTx` reduces each to the record of one session. Every later
proof about `EventStore` rests on `Typed`.

**The feed.** The refinement needs that what a commit publishes of an entity is above
everything published of it. That does not follow from increasing numbers, since numbers are
taken before the commit. `FeedInv` is the argument, in three parts: all numbers, committed or
pending, are distinct and below `nextSeq`; a transaction logs changes only of what it holds
locked, and locks are exclusive; so what is pending is newer than everything committed of its
entity. Steps that log (`Write`, `Put`, `Withdraw`) share `LogsKeepsFeed`, those that do not
`QuietKeepsFeed`. Without the lock in `Announce` a notification would have two writers: the
mutant `PlainSelect` breaks the invariant and the refinement.

**Answers.** `AnswerInv` says the same of the committed tables and of each transaction: the
effects of an operation are at most one, and the answer is the truth about it (`Tells`). While a session
works on an operation its answer is in `res`, afterwards among the answers it will commit
(`AnswerOf`). That two copies cannot both commit comes from `Record`: a session has an
answer pending only of an operation that nobody has answered. The invariant does not need the locks.

**Versions.** `VersionInv`: a session has logged, as its newest change of an event, the version
it has written, and no change of what it has not written. With `PendingIsNewest` a commit
carries this over to the tables.

**Deletion.** `DeletionInv` is about what a session *sees* (`EventOf`, `NotifOf`). A session that
holds the row of a deleted event sees nothing of it waiting, unless it is about to withdraw
it (`SeesNonePending`). An announcement looks at the event again under the lock, and a
deletion withdraws under the same lock. What is pending over a deleted row is deleted, because
the UPDATE leaves alone the columns that have not changed in memory.

**Open notifications.** `OpenInv` has the same form: of an event it holds a session sees at most one
open notification (`SeesOneOpen`). `announce()` searches after it has locked the row, so it sees
what the holder before it has committed. Time only closes notifications, which needs that
the margin is a natural number.

**Outbox.** `OutboxInv` speaks of the server as one record, because a batch passes through states
that no variable ever holds: `ServerOK` is kept by one operation (`ApplyOne`) and, by induction over the
operations of a batch, by `AfterBatch`. What makes it inductive is `Sendable`: when a batch is sent, what is older
than its operations is in it or done with. Every batch in flight, cut or late has it, and a
late one keeps it, because what is done stays done. From it the answers are recorded in order
(`AnsweredInOrder`), hence the writes are (`Ordered`), and an operation whose write is there has an answer
(`WritesAnswered`), which is why no retry writes twice. `LeftForAReason` is the phone's side of it.

**Phone.** `PhoneInv` needs no lock: versions of an entity grow with their numbers, and a
merge is into a notification that is not due before its transaction has to end (`InTime`); so what a
page says is due at the server's time is due. `Follows` and `FinalInv` have the hypothesis `SameIsolate`.
With two isolates both properties are false, as section 4 says. Within one, one pull at a time reads pages, from
where the cursor is (`OnePull`); what the page it applies no longer holds is in the cache, and it is older than
what the page still holds (`PageInv`). `KnownBy` says that a reader of the log up to the cursor has every
merge into what is due, apart from late commits.

**Tokens.** `TokenInv`: tokens are issued in the order of their numbers, a family is named by a
token no newer than its members, at most one token of a family has not been rotated (`OneUnrotated`,
the part that makes the invariant inductive), and a phone stores or carries only issued tokens.
`SessionInv` adds who holds the lock (`OneHolder`) and, as long as there was no mishap, `CalmInv`: an isolate asks
with the token issued last, or, if isolates share a process, with one rotated so lately that the server
refuses it without revoking anything (`AsksInTime`); only one at a time is in the middle of the keys,
writing the last pair (`WritesLast`); the store is cleared only when the last token has expired (`ClearsLast`).

**Watchlist.** `ListInv`: what a request has read is a list that was (`Sound`), what it has checked holds in that
list (`Checked`), and the place it computed is where it was asked for among the siblings it read (`WellPlaced`). A commit that
nobody overtook therefore meets the list it has checked, which gives the two action properties; the two
invariants are part of `ListInv`. Positions need the greatest and the least value of a function on a finite set.

**Uploads.** An upload is a fold of unknown length. What `Ingest` does to the pool is proved once (`Ingest` keeps the
tables well-formed, what it changes and what it leaves), and each theorem has a predicate of the tables after n items that one more item
keeps. `Unified`: of every event carried so far there is one live row, and of every other one the map still has
all live rows; since an item folds all twins the map shows it, its event has one row afterwards, also when an earlier item had turned
a row into another event. `Collapsed` matters here: the items have different identities, which takes the facts about sorting (`InOrderSorts`).
`Keeps`, for uploads that are `Apart`: the rows that no item so far has named are as they were, in the tables and in both maps, so that the
next item meets its rows as the request saw them (`Taken`); each row touched has a row that stands for it, and it is the one the item left.
`DecisionsAreKept` then carries this through the commit, which meets the tables it has read because nothing overtook it.
`RepushesAreQuiet` needs `SettledInv`: after an upload that was apart each item has a row that holds its fields, and it is the only
row the item names (`Rests`). From there every item of the second upload finds just this row and changes only `last_seen_at` (`Resting`).

**Novelties.** `AckInv`: what is not later than a listing that started at the cursor, or than the cursor, is `Known` (`Covered`); of a listing in
flight, what is behind the cursor it has read is known, and so is what has been stored since (`TxAcked`). So a listing adds what it
shows to what was known before its start, and an acknowledgement up to a listing's time passes only known rows. `SeasonTyped` says of a request in flight that
its tables are older copies of the present ones: no row is missing from the present ones, none changes its plan, and what is retired stays retired.
That an upload never lowers a `first_seen_at` except by folding in a row is why `heirs` is enough.

**Planning.** `PlannerInv`: what a cached copy lacks has been in the calendar for no longer than the copy's age, and for an
answer under way no longer than a tick (`CopyOK`, `AskedOK`); so what the agent gets has everything that was settled when it asked (`BlockedOK`),
and a verdict is about the files the run has (`VerdictOK`). `FreeTimeIsRespected` goes from there by the days of an item: one that is not
blocked as a day or a window does not collide. `RulesAreKept` is about lists of any length: a sorted list has a close pair exactly if it has
close neighbours, unless a season event lies between (`Hidden`); the week's complaint names all its titles; and the complaints of the plan with
one event more are those of the plan, exactly if the event brings no breach or one that reads alike.

**Seat watches.** `WatchInv`: a pass holds each watch once, as it was listed, and none that was mailed about since it was
started (`PassOK`); a report in flight is about the runner's watch (`ReportOK`); what was mailed about
is over, because its watch is no longer active or was started anew (`MailsOK`).

**Fetcher.** `FetchInv`: what is on file was sent, and what was sent is on file, in the hands of who holds the lock, or lost by one of
the kills (`Counted`); the age of the last refusal and what is left of the cooldown make up its span
(`Cooling`); metadata are of a content that the site had not longer ago than they say, whatever age limit each run has for them, and
a page that nobody is storing has the body of its metadata (`Cached`), and so does what a scraper has read, unless it
is `mixed` (`Reading`).

**Files.** `DiskInv`: each worker holds at most one file, open only after the bytes
have come; and of an item no two downloads met on, at most one worker has it in hand. It is the first to list the item, or it has found
the file gone under its row, which is what `redone` remembers until the new file is listed; so a listed file that is not whole is one two
downloads met on, or one that is being downloaded again or was when it was cut short.

**Induction.** The provers cannot instantiate a theorem about any predicate. Induction over numbers is therefore
stated of sets (`SetInduction`), and follows, as least elements and greatest values do, from the well-foundedness of strict
inclusion of finite sets, which the library has as a fact.

**Assumptions.** `OpAssumption` (operation ids are distinct, a creation sets every column),
`StoreAssumption`, `TimingAssumption`, `OutboxAssumption`, `SyncAssumption`, `TokenAssumption`, `WatchlistAssumption`,
`StartsAssumption` (the lists that the runs of `Watchlist` start from are such as the code makes), `SeatWatchAssumption`,
`FetcherAssumption`, `OfflineAssumption`; `SeasonAssumption` and, in `Season`, `StartsAssumption` (payloads are lists, changes
are of status or note, scenario names are finitely many; stored rows have all columns, were seen before now and have keys
of their own); `HoursAssumption`, `RulesAssumption`, `TtlAssumption`, `WorldsAssumption` (hours of a day, limits, a
TTL, and that a world's events and calendar items are such); and that the values for "nothing" are none of the others (`NoRowAssumption`,
`NoneAssumption`); TLC evaluates them in the runs. They say nothing of how many sessions, events, notifications,
operations, tokens, members, watches, scrapers, workers, items or events to plan there are, nor of the bounds.

**What the proofs changed.** The model of the tokens had been wrong: with two kills the history variable
`signedIn` counted a user as signed in while another sign-in or a sign-out had begun and been cut off, and `SessionKept` failed
there. One kill, as in the run, does not get so far; the invariant did not go through. The code was not at fault.

The properties of `Season` and `Planner` had been too strong for every instance but the run's, and each was brought to what the code does by a proof that
failed. `UploadKeepsDecisions` and `RepushIsQuiet` do not hold of a payload that names a row twice, which is a fault of the code and has a run of its own
(`repush`). `AckedWasSeen` had no `heirs`, and took a row for overlooked by the listings of any plan; now only those of its own
plan count. `OffersAreFree` forbade to find an event to fit that the plan has already, whose complaints are then
no new ones. `VerdictsAreExact` overlooked that a complaint about a new event may read like one about another show of the same title on the same day;
the exemption is `twins` in `FitIsExact`.

**Only model-checked.** Liveness (`Delivered`, `PushEndsOrWedges`,
`DeadPairIsDropped`, `NoWatchStarves`, `EveryPageChecked`, `ReadyForTheDoor`) stays with TLC, since fairness and `ENABLED` are
beyond the proof system. `TypeOK`-like conditions are proved where a theorem needs them, within the inductive invariants. Theorems about
each module are about its own model: that a module agrees with the part of another that it abstracts (the server of `Outbox` and of
`PhoneSync` with `EventStore`) is argued in section 3, and neither checked nor proved.

## 6. Not modelled

Reminders: `notification_service.dart` cancels and sets every reminder anew from
the cache, and only showing a notification is in `PhoneSync`. Costs, stats and feedback:
single statements over single rows, with the change log written as for events. Mail and
music adapters: formatting and external calls without state.
Application shell, migrations, the web client's own state, screens, deployment: no
protocol of their own; what screens and the page send is in `Outbox`, `Season`, `SeatWatch`
and `Planner`. Of the skills, the scrapers' parsing and the agents' judgement. Of
`candidate_identity.py` and `program_key.py`, how identities and keys are spelled. Workspaces and
permissions are left out: all members have the same rights over the one shared workspace.
