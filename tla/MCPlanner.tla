----------------------------- MODULE MCPlanner -----------------------------
(***************************************************************************)
(* Two weeks of five days of eight hours.  In the first world every plan   *)
(* is judged against one calendar; in the second the calendar changes, the *)
(* feed fails or is garbage, the page asks too and the API restarts.       *)
(***************************************************************************)
EXTENDS Planner

Event(key, title, at, season, works, prices) ==
    [key |-> key, title |-> title, at |-> at, seasonEvent |-> season,
     works |-> works, prices |-> prices]
Booking(title, at) == Event("booked", title, at, FALSE, <<>>, {})
Opera == Booking("Opera", 46)
Bought == Booking("Gala", 15)
Ballet == Booking("Ballet", 2)                 \* earlier today
Item(from, to, allDay, away, cancelled) ==
    [from |-> from, to |-> to, allDay |-> allDay, away |-> away,
     cancelled |-> cancelled]

Gala == Event("gala", "Gala", 15, FALSE, <<"mahler">>, {500, 1500})
Again == Event("again", "Gala", 47, FALSE, <<"mahler">>, {2500, 4000})
Fest == Event("fest", "Fest", 33, TRUE, <<"janacek">>, {})
Duo == Event("duo", "Duo", 32, FALSE, <<"bach">>, {100, 9000})
Pool == {Gala, Again, Fest, Duo}

Third == Event("third", "Gala", 67, FALSE, <<"mahler">>, {})
Trio == Event("trio", "Trio", 13, FALSE, <<"haydn">>, {})
Quartet == Event("quartet", "Quartet", 62, FALSE, <<"ravel">>, {})
Echo == Event("echo", "Echo", 71, FALSE, <<"bach", "verdi">>, {})
Opening == Event("opening", "Opening", 38, TRUE, <<"orff">>, {})
Matinee == Event("matinee", "Matinee", 40, FALSE, <<"suk">>, {})
Novelties == {Third, Trio, Quartet, Echo, Opening, Matinee}

Scenarios == {<<"gala">>, <<"gala", "duo">>, <<"fest", "gala">>, <<"gala", "gala">>,
              <<"duo", "fest", "gala">>, <<"again">>, <<"lost", "duo">>, <<"duo", "fest">>,
              <<"fest", "duo">>}

Trip == Item(50, 66, FALSE, TRUE, FALSE)       \* ends inside a day
Dinner == Item(36, NoEnd, FALSE, FALSE, FALSE)
Day9 == Item(72, NoEnd, TRUE, FALSE, FALSE)
Off == Item(8, 32, TRUE, FALSE, TRUE)
Late == Item(61, 64, FALSE, TRUE, FALSE)       \* ends at midnight

Rules == [pool |-> Pool, novelties |-> Novelties, heard |-> {"verdi"},
          scenarios |-> Scenarios, plans |-> SUBSET {c.key : c \in Pool},
          bookings |-> {Opera, Bought, Ballet},
          starts |-> {{}, {Opera, Ballet}, {Bought}},
          calendars |-> {{Dinner, Off, Late}},
          modes |-> {"weekly", "season"}, page |-> FALSE,
          bounds |-> [edits |-> 1, changes |-> 0, failures |-> 0, garbage |-> 0,
                      restarts |-> 0]]

Caching == [pool |-> {Duo}, novelties |-> {Quartet, Opening},
            heard |-> {}, scenarios |-> {}, plans |-> {{"duo"}}, bookings |-> {},
            starts |-> {{}},
            calendars |-> {{}, {Trip}, {Dinner, Day9}},
            modes |-> {"weekly"}, page |-> TRUE,
            bounds |-> [edits |-> 0, changes |-> 2, failures |-> 1, garbage |-> 1,
                        restarts |-> 1]]

MCWorlds == {Rules, Caching}
=============================================================================
