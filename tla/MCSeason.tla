------------------------------ MODULE MCSeason ------------------------------
(***************************************************************************)
(* An instance of Season for TLC: a concert under its old and its new      *)
(* slug, a listing of it elsewhere, and another evening without identity.  *)
(***************************************************************************)
EXTENDS Season, TLC

CONSTANTS c1, c2

Item(key, url, body, enr) == [key |-> key, url |-> url, body |-> body, enr |-> enr]

Ids == ("old" :> "concert") @@ ("new" :> "concert") @@ ("fest" :> "festival")
       @@ ("plain" :> "none")

Enriched == Item("k1", "old", "a", "e")
Bare     == Item("k1", "old", "a", Null)
Moved    == Item("k2", "new", "b", Null)
Reused   == Item("k3", "new", "b", Null)    \* the festival's key, kept by a skill
Festival == Item("k3", "fest", "a", Null)
Club     == Item("k4", "plain", "club", Null)
Renamed  == Item("k5", "fest", "a", Null)   \* the festival under a key of its own

Uploads == {<<>>, <<Enriched>>, <<Bare>>, <<Moved>>, <<Enriched, Moved>>,
            <<Festival>>, <<Club>>, <<Reused>>, <<Moved, Festival>>,
            <<Reused, Renamed>>}

Stored(item, first) == Candidate(1, item, first)
Start(rows) ==
    [pool |-> rows,
     scens |-> IF rows = <<>> THEN <<>> ELSE <<Scenario(1, "n1", DOMAIN rows)>>]
\* An empty pool, and two that an earlier rewrite of slugs has forked, with a
\* scenario of both rows.
StartPools ==
    {Start(<<>>),
     Start(<<Stored(Enriched, 1), [Stored(Moved, 2) EXCEPT !.status = "rejected"]>>),
     Start(<<Stored(Festival, 1), [Stored(Moved, 2) EXCEPT !.note = "note"]>>)}

Decisions == {"status" :> "selected", "status" :> "undecided", "note" :> "note"}

\* The season starts between the candidates that are stored, or is to come: for
\* requests that read no novelties it is all the same.
Work(kinds, limit) ==
    [kinds |-> kinds, limit |-> limit,
     days |-> IF "list" \in kinds THEN {1, 4} ELSE {1}]
Agenda == {Work({"upload", "patch"}, 3), Work({"upload", "scenarios"}, 3),
           Work({"upload", "apply"}, 3), Work({"scenarios", "apply"}, 3),
           Work({"upload", "delete", "veto"}, 3), Work({"upload", "create"}, 2),
           Work({"upload", "list", "ack"}, 3), Work({"list", "ack"}, 4),
           Work({"link", "unlink"}, 4)}

Symmetry == Permutations(Clients)
=============================================================================
