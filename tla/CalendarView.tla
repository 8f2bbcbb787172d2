---------------------------- MODULE CalendarView ----------------------------
(***************************************************************************)
(* adapters/calendar_ics.py: what the API makes of the household calendar. *)
(* Moments are local hours, days are numbered.  An item is one occurrence  *)
(* of an event of the feed (the expansion of recurring events is the       *)
(* library's): [from, to, allDay, away, cancelled], where to may be NoEnd  *)
(* and away says that the title speaks of a holiday.                       *)
(***************************************************************************)
EXTENDS Integers

CONSTANTS HoursPerDay, NoEnd,
          Garbage        \* a feed that does not parse

ASSUME HoursAssumption == HoursPerDay \in Nat \ {0}

Day(h) == h \div HoursPerDay

\* An item without an end takes a day, or an hour.
EndOf(i) == IF i.to # NoEnd THEN i.to
            ELSE i.from + (IF i.allDay THEN HoursPerDay ELSE 1)

\* The first day past the item: an end at midnight belongs to the day before.
ExclusiveEnd(i) ==
    IF EndOf(i) % HoursPerDay = 0 THEN Day(EndOf(i)) ELSE Day(EndOf(i)) + 1

\* At least one day, even if the end is not after the start.
CoveredDays(i) == {Day(i.from)} \cup (Day(i.from) .. ExclusiveEnd(i) - 1)

\* An evening out is a window not to collide with, not a lost day.
Blocking(i) == i.allDay \/ i.away

Between(i, first, last) ==
    /\ i.from < (last + 1) * HoursPerDay
    /\ EndOf(i) > first * HoursPerDay \/ i.from >= first * HoursPerDay

Unavailable == [available |-> FALSE, blockedDays |-> {}, conflicts |-> {}]

ParseCalendar(feed, first, last) ==
    IF feed = Garbage THEN Unavailable
    ELSE LET classified == {i \in feed : ~i.cancelled /\ Between(i, first, last)}
             blocking == {i \in classified : Blocking(i)}
         IN  [available |-> TRUE,
              blockedDays |-> (UNION {CoveredDays(i) : i \in blocking})
                                  \cap (first .. last),
              conflicts |-> {[from |-> i.from, to |-> EndOf(i)] :
                                  i \in classified \ blocking}]
=============================================================================
