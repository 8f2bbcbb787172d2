------------------------------- MODULE Planner -------------------------------
(***************************************************************************)
(* The agents that plan: the weekly watcher says of a novelty whether it   *)
(* fits the standing plan, the season run gates its scenarios.  Each reads *)
(* the plan, the booked events and the household calendar one after the    *)
(* other, and the calendar comes through the cache of the API's process,   *)
(* which the planner's web page uses and refreshes at the same time.       *)
(*                                                                         *)
(* Ages are in ticks; a request for the feed ends within one, it has ten   *)
(* seconds against a quarter of an hour for the cache.                     *)
(***************************************************************************)
EXTENDS PlanRules, FiniteSets

CONSTANTS NotCached,
          Ttl,                      \* of a cached feed, in ticks
          Now,                      \* the hour at which the agents run
          WeeklyLast, SeasonLast,   \* last day of what a run asks for
          Worlds     \* pool, novelties, works heard this year, scenarios, plans
                     \* and bookings to start from, bookings, calendars, modes of
                     \* a run, whether the page is open, and bounds on edits of
                     \* plan and bookings, changes of the calendar, failures,
                     \* garbage and restarts

ASSUME TtlAssumption == Ttl \in Nat \ {0}

\* Moments are numbers, a programme is a list, a price is of finitely many.
EventOK(e) ==
    /\ e.at \in Int
    /\ DOMAIN e.works \subseteq Nat
    /\ IsFiniteSet(e.prices) /\ e.prices \subseteq Nat

\* A candidate is known by its key.
ASSUME WorldsAssumption ==
    /\ Now \in Int /\ WeeklyLast \in Int /\ SeasonLast \in Int
    /\ \A w \in Worlds :
          /\ IsFiniteSet(w.pool) /\ \A s \in w.starts : IsFiniteSet(s)
          /\ \A e \in w.pool \cup w.novelties \cup w.bookings \cup UNION w.starts : EventOK(e)
          /\ \A c, d \in w.pool \cup w.novelties : c.key = d.key => c = d
          /\ \A keys \in w.scenarios : keys \in Seq(Range(keys))
          /\ \A items \in w.calendars : \A i \in items :
                i.from \in Int /\ (i.to = NoEnd \/ i.to \in Int)

Agent == "agent"
Spa == "spa"

VARIABLES world,
          calendar,   \* the household's calendar: a set of items
          cache,      \* calendar_ics._cache: [feed, age] or NotCached
          req,        \* the requests for the calendar that the API works on
          plan,       \* keys of the selected candidates
          booked,     \* events with tickets
          run,        \* the files of the agent's run, and its last verdict
          left,       \* what is left of the bounds
          present     \* history: for how long an item has been in the calendar

plannerVars == <<world, calendar, cache, req, plan, booked, run, left, present>>
data == <<world, plan, booked>>

Items == UNION {UNION w.calendars : w \in Worlds}
NoRequest == [pc |-> "idle", cached |-> NotCached, got |-> {}, late |-> FALSE]

\* pc: idle, context, calendar, judge.  settled: history, what the household
\* had in its calendar long enough when the answer came; stale: history, the
\* answer came from the cache because the feed could not be had.
NoRun == [pc |-> "idle", mode |-> "weekly", plan |-> <<>>, booked |-> <<>>,
          blocked |-> Unavailable, settled |-> {}, stale |-> FALSE,
          subject |-> <<>>, ok |-> FALSE]

Horizon(mode) == IF mode = "weekly" THEN WeeklyLast ELSE SeasonLast
ByStart(events) ==
    LET listed == SetToSeq(events)
    IN  SortedBy(listed, [n \in DOMAIN listed |-> listed[n].at])

PlanSummary == ByStart({c \in world.pool : c.key \in plan})

\* The booked events of the context: from now to the horizon.
Booked(mode) ==
    ByStart({b \in booked : b.at >= Now /\ b.at <= Horizon(mode) * HoursPerDay + Now})

-----------------------------------------------------------------------------
(* The household *)

Decide(c) ==
    /\ left.edits > 0
    /\ left' = [left EXCEPT !.edits = @ - 1]
    /\ plan' = IF c.key \in plan THEN plan \ {c.key} ELSE plan \cup {c.key}
    /\ UNCHANGED <<world, calendar, cache, req, booked, run, present>>

Book(b) ==
    /\ left.edits > 0
    /\ left' = [left EXCEPT !.edits = @ - 1]
    /\ booked' = IF b \in booked THEN booked \ {b} ELSE booked \cup {b}
    /\ UNCHANGED <<world, calendar, cache, req, plan, run, present>>

Reschedule(items) ==
    /\ left.changes > 0 /\ items # calendar
    /\ left' = [left EXCEPT !.changes = @ - 1]
    /\ calendar' = items
    /\ present' = [i \in Items |-> IF i \in items \cap calendar THEN present[i] ELSE 0]
    /\ UNCHANGED <<data, cache, req, run>>

-----------------------------------------------------------------------------
(* GET /v1/season/calendar *)

Settled == {i \in calendar : present[i] > Ttl}

\* The answer reaches the agent, which keeps it as blocked.json; the page
\* paints it.
Answer(c, feed, stale) ==
    /\ req' = [req EXCEPT ![c] = NoRequest]
    /\ run' = IF c # Agent THEN run
              ELSE [run EXCEPT !.pc = "judge", !.settled = Settled, !.stale = stale,
                       !.blocked = ParseCalendar(feed, Day(Now), Horizon(run.mode))]

Mine(c) == c = Agent => run.pc = "calendar"

\* The cached copy is looked at once, before the feed is awaited.
Ask(c, refresh) ==
    /\ req[c].pc = "idle" /\ Mine(c)
    /\ IF cache # NotCached /\ cache.age < (IF refresh THEN 0 ELSE Ttl)
       THEN Answer(c, cache.feed, FALSE)
       ELSE /\ req' = [req EXCEPT ![c] = [NoRequest EXCEPT !.pc = "sent", !.cached = cache]]
            /\ UNCHANGED run
    /\ UNCHANGED <<data, calendar, cache, left, present>>

\* The calendar's server answers, at times with a page that is no calendar.
Serve(c, feed) ==
    /\ req[c].pc = "sent"
    /\ feed \in {calendar, Garbage}
    /\ feed = Garbage => left.garbage > 0
    /\ left' = [left EXCEPT !.garbage = IF feed = Garbage THEN @ - 1 ELSE @]
    /\ req' = [req EXCEPT ![c].pc = "served", ![c].got = feed]
    /\ UNCHANGED <<data, calendar, cache, run, present>>

Arrive(c) ==
    /\ req[c].pc = "served"
    /\ cache' = [feed |-> req[c].got, age |-> 0]
    /\ Answer(c, req[c].got, FALSE)
    /\ UNCHANGED <<data, calendar, left, present>>

\* Mutant: a failure counts as a fetch, the copy is fresh again.
AfterFailureRenewed(cached) ==
    IF cached = NotCached THEN cache ELSE [cached EXCEPT !.age = 0]

AfterFailure(cached) == cache

FailFetch(c) ==
    /\ req[c].pc \in {"sent", "served"}
    /\ left.failures > 0
    /\ left' = [left EXCEPT !.failures = @ - 1]
    /\ cache' = AfterFailure(req[c].cached)
    /\ LET cached == req[c].cached IN
       IF cached = NotCached THEN Answer(c, Garbage, FALSE)
       ELSE Answer(c, cached.feed, TRUE)
    /\ UNCHANGED <<data, calendar, present>>

\* The process loses its cache and its requests; the agent asks again.
Restart ==
    /\ left.restarts > 0
    /\ left' = [left EXCEPT !.restarts = @ - 1]
    /\ cache' = NotCached
    /\ req' = [c \in DOMAIN req |-> NoRequest]
    /\ UNCHANGED <<data, calendar, run, present>>

Older(n) == IF n > Ttl THEN n ELSE n + 1

TimePasses ==
    /\ \A c \in DOMAIN req : ~req[c].late
    /\ req' = [c \in DOMAIN req |-> [req[c] EXCEPT !.late = req[c].pc # "idle"]]
    /\ present' = [i \in Items |-> IF i \in calendar THEN Older(present[i]) ELSE 0]
    /\ cache' = IF cache = NotCached THEN cache ELSE [cache EXCEPT !.age = Older(@)]
    /\ UNCHANGED <<data, calendar, run, left>>

-----------------------------------------------------------------------------
(* The agent's run *)

Start(mode) ==
    /\ run.pc = "idle"
    /\ run' = [NoRun EXCEPT !.pc = "context", !.mode = mode,
                   !.plan = IF mode = "weekly" THEN PlanSummary ELSE <<>>]
    /\ UNCHANGED <<data, calendar, cache, req, left, present>>

ReadContext ==
    /\ run.pc = "context"
    /\ run' = [run EXCEPT !.pc = "calendar", !.booked = Booked(run.mode)]
    /\ UNCHANGED <<data, calendar, cache, req, left, present>>

Fit(c) ==
    /\ run.pc = "judge" /\ run.mode = "weekly"
    /\ run' = [run EXCEPT !.subject = <<c.key>>,
                   !.ok = Fits(c, run.plan, run.booked, run.blocked, world.heard)]
    /\ UNCHANGED <<data, calendar, cache, req, left, present>>

Gate(keys) ==
    /\ run.pc = "judge" /\ run.mode = "season"
    /\ run' = [run EXCEPT !.subject = keys,
                   !.ok = ScenarioOk(keys, world.pool, run.booked, run.blocked,
                                     world.heard)]
    /\ UNCHANGED <<data, calendar, cache, req, left, present>>

Finish ==
    /\ run.pc = "judge"
    /\ run' = NoRun
    /\ UNCHANGED <<data, calendar, cache, req, left, present>>

PlannerInit ==
    /\ world \in Worlds
    /\ calendar \in world.calendars
    /\ plan \in world.plans
    /\ booked \in world.starts
    /\ cache = NotCached
    /\ req = [c \in {Agent, Spa} |-> NoRequest]
    /\ run = NoRun
    /\ left = world.bounds
    /\ present = [i \in Items |-> 0]

Household ==
    \/ \E c \in world.pool : Decide(c)
    \/ \E b \in world.bookings : Book(b)
    \/ \E items \in world.calendars : Reschedule(items)
Calendar ==
    \/ \E c \in {Agent, Spa}, refresh \in BOOLEAN :
          /\ refresh => c = Spa
          /\ c = Spa => world.page
          /\ Ask(c, refresh)
    \/ \E c \in {Agent, Spa} : Serve(c, calendar) \/ Serve(c, Garbage)
    \/ \E c \in {Agent, Spa} : Arrive(c) \/ FailFetch(c)
Run ==
    \/ \E mode \in world.modes : Start(mode)
    \/ ReadContext \/ Finish
    \/ \E c \in world.novelties : Fit(c)
    \/ \E keys \in world.scenarios : Gate(keys)

PlannerNext == Household \/ Calendar \/ Run \/ Restart \/ TimePasses

PlannerSpec == PlannerInit /\ [][PlannerNext]_plannerVars

-----------------------------------------------------------------------------
(* Correctness *)

Judged == run.pc = "judge" /\ run.subject # <<>>
Known == world.pool \cup world.novelties
Subjects == {c \in Known : c.key \in Range(run.subject)}

\* An event at the given hour would collide with the item, told by hours.
Collides(e, i) ==
    LET day == Slot(e) * HoursPerDay .. (Slot(e) + 1) * HoursPerDay - 1
        span == {i.from} \cup (i.from .. EndOf(i) - 1)
    IN  IF i.allDay \/ i.away THEN day \cap span # {}
        ELSE i.from - Before <= e.at /\ e.at <= EndOf(i) + After

\* What the household has had in its calendar for longer than a cached copy
\* may live is never offered over: an event found to fit that the plan does not
\* have already, or a scenario let through, leaves it free.  It holds if the
\* agent was given a calendar, and not an old copy because the feed could not
\* be had; and for what the run asked for, the days up to its horizon.
OffersAreFree ==
    Judged /\ run.ok /\ run.blocked.available /\ ~run.stale =>
        \A c \in Subjects, i \in run.settled :
            (/\ \A n \in DOMAIN run.plan : run.plan[n].key # c.key
             /\ ~i.cancelled
             /\ Between(i, Day(Now), Horizon(run.mode))
             /\ Slot(c) \in Day(Now) .. Horizon(run.mode))
            => ~Collides(c, i)

\* Two events too close, whatever lies between them.
Close(a, b) ==
    /\ DayDiff(Slot(a), Slot(b)) < MinGapDays
    /\ ~a.seasonEvent /\ ~b.seasonEvent
\* A season event on one of their days or between hides a close pair.
Hidden(a, b, all) ==
    \E e \in Range(all) :
        e.seasonEvent /\ \/ Slot(e) \in Slot(a) .. Slot(b)
                         \/ Slot(e) \in Slot(b) .. Slot(a)
Crowded(w, all) == Cardinality({n \in DOMAIN all : Week(Slot(all[n])) = w}) > WeekCap
Repeats(events) ==
    \E p, q \in WorksOf(events) : p # q /\ Work(events, p) = Work(events, q)
Heard(events) == \E e \in Range(events) : Range(e.works) \cap world.heard # {}

\* What a fit is, told over all pairs: the new event's week has room, no other
\* event is close to it (unless a season event hides it), its works are new,
\* it collides with nothing.  A complaint about the plan as it is may read like
\* one about the new event: about another date of a work that the plan has
\* twice, or about a show of the same title on the same day; these are left out.
FitIsExact(c) ==
    LET all == Append(run.plan, c) \o run.booked
        me == Len(run.plan) + 1
        twins == {n \in DOMAIN all \ {me} :
                     all[n].title = c.title /\ Slot(all[n]) = Slot(c)}
        near == {n \in DOMAIN all \ {me} : Close(all[n], c)}
        worn == Repeats(Append(run.plan, c)) \/ Heard(<<c>>)
        full == Crowded(Week(Slot(c)), all)
        taken == TimedConflict(c, run.blocked)
    IN  /\ run.ok => /\ ~full
                     /\ worn => Repeats(run.plan) \/ Heard(run.plan)
                     /\ twins = {} => /\ ~taken
                                      /\ \A n \in near : Hidden(all[n], c, all)
        /\ ~run.ok => full \/ taken \/ worn \/ near # {}

\* The same of a scenario: whatever breaks a rule stops it, and only that does.
GateIsExact ==
    LET events == ResolveEvents(run.subject, world.pool)
        all == events \o run.booked
        near == {p \in (DOMAIN all) \X (DOMAIN all) :
                    p[1] < p[2] /\ Close(all[p[1]], all[p[2]])}
        full == \E n \in DOMAIN all : Crowded(Week(Slot(all[n])), all)
        taken == \E e \in Range(events) : TimedConflict(e, run.blocked)
        worn == Repeats(events) \/ Heard(events)
        priced == {e \in Range(events) : e.prices # {}}
    IN  IF ~InPool(run.subject, world.pool) THEN ~run.ok
        ELSE /\ run.ok => /\ ~full /\ ~taken /\ ~worn
                          /\ \A p \in near : Hidden(all[p[1]], all[p[2]], all)
                          /\ \A e \in priced : Min(e.prices) <= PriceExclude
             /\ ~run.ok => \/ full \/ taken \/ worn \/ near # {}
                           \/ \E e \in priced : Max(e.prices) > PriceExclude

\* The verdicts, found by comparing neighbours and by comparing the texts of
\* complaints, are those of the rules.
VerdictsAreExact ==
    Judged => IF run.mode = "season" THEN GateIsExact
              ELSE \A c \in Subjects : FitIsExact(c)
=============================================================================
