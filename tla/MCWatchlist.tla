---- MODULE MCWatchlist ----
(***************************************************************************)
(* Two members; a list of two roots, one with a child, and a list of three *)
(* roots with no number left between the first two.                        *)
(***************************************************************************)
EXTENDS Watchlist, TLC

CONSTANTS u1, u2

Lists == {<<Item(Root, One), Item(Root, 2 * One), Item(1, One)>>,
          <<Item(Root, One), Item(Root, One + 1), Item(Root, 3 * One)>>}

Work(kinds, limit) == [kinds |-> kinds, limit |-> limit]
Agenda == {Work({"create", "delete"}, 3), Work({"move", "delete"}, 3),
           Work({"create", "move"}, 2), Work({"edit", "check", "move"}, 2),
           Work({"edit", "check", "delete"}, 3)}

Symmetry == Permutations(Users)
=============================================================================
