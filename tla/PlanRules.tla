------------------------------ MODULE PlanRules ------------------------------
(***************************************************************************)
(* The canon of the plan's rules, skills/kulturni-sezona/bin/              *)
(* kp_validate.py: what it finds wrong with a list of events, and its two  *)
(* verdicts, on a scenario and on one more event for the plan.  Warnings   *)
(* (dear, heard last year, a month or a lane too plain) change no verdict  *)
(* and are left out.                                                       *)
(*                                                                         *)
(* An event is [key, title, at, seasonEvent, works, prices]: works are the *)
(* pieces of its programme, in order, prices the numbers in its price.  A  *)
(* booked event has no works and is never a season event (BookedEvent).    *)
(***************************************************************************)
EXTENDS CalendarView, Sorting, SequencesExt

CONSTANTS DaysPerWeek, WeekCap, MinGapDays,
          Before, After,               \* hours around a timed item
          PriceExclude, ClampRatio, ClampFactor

ASSUME RulesAssumption ==
    /\ MinGapDays \in Int /\ PriceExclude \in Int
    /\ ClampRatio \in Nat /\ ClampFactor \in 1 .. ClampRatio

Week(d) == d \div DaysPerWeek
DayDiff(a, b) == IF a < b THEN b - a ELSE a - b
Slot(e) == Day(e.at)

\* The middle of the price range; a far top price is taken for a box's.
Midpoint(prices) ==
    LET lower == Min(prices)
        upper == Max(prices)
    IN  (lower + (IF lower > 0 /\ upper > ClampRatio * lower
                  THEN ClampFactor * lower ELSE upper)) \div 2

TimedConflict(e, blocked) ==
    \/ Slot(e) \in blocked.blockedDays
    \/ \E c \in blocked.conflicts : c.from - Before <= e.at /\ e.at <= c.to + After

\* Mutant: compared in the order in which they are listed.
DatedAsListed(events) == events

\* By date.
Dated(events) == SortedBy(events, [n \in DOMAIN events |-> Slot(events[n])])

\* The report's texts tell violations apart by these fields, no others.
WeeksOver(dated) ==
    LET places(w) == {n \in DOMAIN dated : Week(Slot(dated[n])) = w}
        order(w) == InOrder(places(w), [n \in DOMAIN dated |-> n])
    IN  {[week |-> w, titles |-> [k \in DOMAIN order(w) |-> dated[order(w)[k]].title]] :
            w \in {v \in {Week(Slot(dated[n])) : n \in DOMAIN dated} :
                      Cardinality(places(v)) > WeekCap}}

\* Only neighbours by date are compared.
Gaps(dated) ==
    {[a |-> <<dated[k].title, Slot(dated[k])>>,
      b |-> <<dated[k + 1].title, Slot(dated[k + 1])>>] :
        k \in {n \in 1 .. Len(dated) - 1 :
                  /\ DayDiff(Slot(dated[n]), Slot(dated[n + 1])) < MinGapDays
                  /\ ~dated[n].seasonEvent /\ ~dated[n + 1].seasonEvent}}

CheckSchedule(events, booked, blocked) ==
    LET dated == Dated(events \o booked) IN
    WeeksOver(dated) \cup Gaps(dated) \cup
    {[blockedKey |-> e.key, title |-> e.title, day |-> Slot(e)] :
        e \in {f \in Range(events) : TimedConflict(f, blocked)}}

\* Where the works stand: <<the event's place, the place in its programme>>.
WorksOf(events) == UNION {{n} \X DOMAIN events[n].works : n \in DOMAIN events}
Work(events, p) == events[p[1]].works[p[2]]

\* A work is reported wherever it stands again, with the title that had it first.
CheckWorks(events, heard) ==
    LET title(p) == events[p[1]].title
        earlier(p, q) == p[1] < q[1] \/ (p[1] = q[1] /\ p[2] < q[2])
        before(p) == {q \in WorksOf(events) :
                         Work(events, q) = Work(events, p) /\ earlier(q, p)}
        first(P) == CHOOSE p \in P : \A q \in P : p = q \/ earlier(p, q)
    IN  {[work |-> Work(events, p), seen |-> title(first(before(p))), title |-> title(p)] :
            p \in {q \in WorksOf(events) : before(q) # {}}}
        \cup {[heard |-> Work(events, p), title |-> title(p)] :
            p \in {q \in WorksOf(events) : Work(events, q) \in heard}}

CheckPrices(events) ==
    {[excluded |-> e.key] :
        e \in {f \in Range(events) : f.prices # {} /\ Midpoint(f.prices) > PriceExclude}}

-----------------------------------------------------------------------------
\* Are the keys of a scenario all in the pool?
InPool(keys, pool) == Range(keys) \subseteq {c.key : c \in pool}
\* The events of such a scenario; of another one it does not matter what else
\* is wrong.
ResolveEvents(keys, pool) == [n \in DOMAIN keys |-> CHOOSE c \in pool : c.key = keys[n]]

\* scenario: exit status 0.
ScenarioOk(keys, pool, booked, blocked, heard) ==
    LET events == ResolveEvents(keys, pool) IN
    /\ InPool(keys, pool)
    /\ CheckSchedule(events, booked, blocked) = {}
    /\ CheckWorks(events, heard) = {}
    /\ CheckPrices(events) = {}

\* fit: one more event brings no violation that the plan did not have.
Fits(c, selected, booked, blocked, heard) ==
    LET found(events) == CheckSchedule(events, booked, blocked)
                             \cup CheckWorks(events, heard)
    IN  found(Append(selected, c)) \subseteq found(selected)
=============================================================================
