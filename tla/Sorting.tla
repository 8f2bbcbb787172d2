------------------------------- MODULE Sorting -------------------------------
(***************************************************************************)
(* Sorting as Python does it, stably, by ranks: a definition without       *)
(* recursion, so that what it does can be proved.                          *)
(***************************************************************************)
EXTENDS Naturals, FiniteSets, Sequences

\* Places in the order of their values, equal ones as they came: Python's sort.
InOrder(places, value) ==
    LET Ahead(n) == {m \in places : \/ value[m] < value[n]
                                    \/ value[m] = value[n] /\ m < n}
    IN  [k \in 1 .. Cardinality(places) |->
            CHOOSE n \in places : Cardinality(Ahead(n)) = k - 1]

SortedBy(events, value) ==
    LET order == InOrder(DOMAIN events, value)
    IN  [k \in DOMAIN order |-> events[order[k]]]
=============================================================================
