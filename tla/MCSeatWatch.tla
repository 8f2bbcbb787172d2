---- MODULE MCSeatWatch ----
(***************************************************************************)
(* Two tabs, a candidate whose watch is asked for under two hall links,    *)
(* and a watch of no candidate and no known time.                          *)
(***************************************************************************)
EXTENDS SeatWatch, TLC

Asked == {[cand |-> "concert", url |-> "old", starts |-> 1],
          [cand |-> "concert", url |-> "fresh", starts |-> 1],
          [cand |-> Null, url |-> "fresh", starts |-> Undated]}

FirstShows == {"old" :> "pair" @@ "fresh" :> "singles",
               "old" :> "hangs" @@ "fresh" :> "pair",
               "old" :> "expired" @@ "fresh" :> "pair"}

Agenda(kinds, requests, changes, kills) ==
    [kinds |-> kinds, requests |-> requests, changes |-> changes, kills |-> kills]
Work == {Agenda({"create"}, 2, 1, 1), Agenda({"create", "patch"}, 3, 0, 0),
         Agenda({"create", "patch"}, 2, 0, 1), Agenda({"create", "delete"}, 3, 0, 0)}
=============================================================================
