----------------------------- MODULE Watchlist -----------------------------
(***************************************************************************)
(* The shared watchlist: items that nest one level under a parent, ordered *)
(* by positions that are midpoints of their neighbours.  The REST handlers *)
(* of api/v1/watchlist.py and the appliers of sync/service.py do the same  *)
(* reads, checks and writes (the second copy is kept in step by hand), so  *)
(* one action stands for both.                                             *)
(*                                                                         *)
(* A request takes several reads and one commit, READ COMMITTED and        *)
(* without locks before the write: a commit writes the columns whose value *)
(* differs from the one read.  Requests that are refused write nothing;    *)
(* their transaction ends.                                                 *)
(***************************************************************************)
EXTENDS Integers, Sequences, FiniteSets, SequencesExt

CONSTANTS Users,         \* members, each with at most one request in flight
          Nobody,
          One,           \* the distance 1.0 in units of the least difference
          Starts,        \* the lists a behaviour may start from
          Agendas        \* workloads: kinds of request, and how many of them

ASSUME WatchlistAssumption ==
    /\ Nobody \notin Users
    /\ One \in Nat \ {0}

\* title counts the edits of it; done names who ticked the item; the item in
\* place n is the parent of those whose parent is n, 0 stands for no parent.
Row == [parent : Nat, position : Int, title : Nat, done : Users \cup {Nobody},
        version : Nat, live : BOOLEAN]

\* The list of a behaviour's start is one that creations could have made.
ASSUME StartsAssumption ==
    \A list \in Starts :
        /\ list \in Seq(Row)
        /\ \A i \in DOMAIN list : list[i].parent <= Len(list)
        /\ \A i, j \in DOMAIN list :
              i # j /\ list[i].parent = list[j].parent
              => list[i].position # list[j].position

VARIABLES items,     \* watchlist_items, by the order of creation
          logged,    \* the payload of the last change_log row of each item
          tx,        \* the request each member has in flight
          agenda,    \* what is left of the workload
          torn,      \* history: items written over a row read earlier
          displaced, \* history: items placed among siblings read earlier
          cramped    \* history: items placed where no midpoint was left

history == <<torn, displaced, cramped>>
vars == <<items, logged, tx, agenda, history>>

Root == 0
NoTx == [stage |-> "idle"]

Item(parent, position) ==
    [parent |-> parent, position |-> position, title |-> 0, done |-> Nobody,
     version |-> 1, live |-> TRUE]

Scope(parent) == {i \in DOMAIN items : items[i].live /\ items[i].parent = parent}

Columns(row, old, new) ==
    [c \in DOMAIN row |-> IF new[c] = old[c] THEN row[c] ELSE new[c]]

-----------------------------------------------------------------------------
(* Positions *)

Highest(S) == CHOOSE n \in S : \A m \in S : m <= n
Lowest(S) == CHOOSE n \in S : \A m \in S : n <= m

\* Half way, to the nearest number there is.
Midpoints(a, b) == {(a + b) \div 2, (a + b + 1) \div 2}

\* Mutant: as many as there are, plus one.
AppendedByCount(others) == (Cardinality(others) + 1) * One

Appended(others) == IF others = {} THEN One ELSE Highest(others) + One

\* Mutant: the neighbour is taken on the other side.
BesideSwapped(others, side, at) ==
    LET above == {n \in others : n > at}
        below == {n \in others : n < at}
    IN  IF side = "before"
        THEN IF above = {} THEN {at + One} ELSE Midpoints(at, Lowest(above))
        ELSE IF below = {} THEN {at - One} ELSE Midpoints(Highest(below), at)

\* Next to an anchor at "at", between it and its neighbour on that side.
Beside(others, side, at) ==
    LET above == {n \in others : n > at}
        below == {n \in others : n < at}
    IN  IF side = "after"
        THEN IF above = {} THEN {at + One} ELSE Midpoints(at, Lowest(above))
        ELSE IF below = {} THEN {at - One} ELSE Midpoints(Highest(below), at)

\* Where an item goes in the scope of its parent: the moving item does not
\* count as a neighbour of an anchor.
Places(parent, item, near) ==
    LET others == {items[i].position : i \in Scope(parent) \ {item}} IN
    IF near.side = "end" THEN {Appended(others)}
    ELSE Beside(others, near.side, items[near.anchor].position)

-----------------------------------------------------------------------------
(* Requests *)

Nears(parent) ==
    {[side |-> "end"]} \cup [side : {"after", "before"}, anchor : Scope(parent)]

Requests(u) ==
    LET live == {i \in DOMAIN items : items[i].live}
        parents == live \cup {Root}
    IN  (UNION {[kind : {"create"}, parent : {p}, near : Nears(p)] : p \in parents})
        \cup (UNION {[kind : {"move"}, item : live, parent : {p}, near : Nears(p)] :
                        p \in parents})
        \cup [kind : {"edit", "delete"}, item : live]
        \cup [kind : {"check"}, item : live, done : {u, Nobody}]

\* Only the deletion of a root looks for children.
DeletesChild(r) == r.kind = "delete" /\ items[r.item].parent # Root

\* The first SELECT: the item, and the comparison with the version sent.
Begin(u) ==
    /\ tx[u] = NoTx /\ agenda.limit > 0
    /\ \E r \in Requests(u) :
          /\ r.kind \in agenda.kinds
          /\ r.kind = "check" => (items[r.item].done = Nobody) # (r.done = Nobody)
          /\ tx' = [tx EXCEPT ![u] =
                [stage |-> IF r.kind \in {"edit", "check"} \/ DeletesChild(r)
                           THEN "ready" ELSE "family",
                 req |-> r, view |-> items, kids |-> {}, place |-> {},
                 row |-> IF r.kind = "create" THEN NoTx ELSE items[r.item]]]
    /\ agenda' = [agenda EXCEPT !.limit = @ - 1]
    /\ UNCHANGED <<items, logged, history>>

\* Mutant: an item that has children may move under another.
MayNestAlways(r) ==
    /\ items[r.parent].live /\ items[r.parent].parent = Root
    /\ r.kind = "move" => r.parent # r.item

\* May the request put its item under a parent?
MayNest(r) ==
    /\ items[r.parent].live /\ items[r.parent].parent = Root
    /\ r.kind = "move" => r.parent # r.item /\ Scope(r.item) = {}

\* The parent and the children are read: checked for a creation and a move,
\* collected for the deletion of a root.
ReadFamily(u) ==
    /\ tx[u].stage = "family"
    /\ LET r == tx[u].req IN
       tx' = [tx EXCEPT ![u] =
           IF r.kind = "delete"
           THEN [@ EXCEPT !.stage = "ready", !.view = items, !.kids = Scope(r.item)]
           ELSE IF r.parent = Root \/ MayNest(r)
           THEN [@ EXCEPT !.stage = "place", !.view = items]
           ELSE NoTx]
    /\ UNCHANGED <<items, logged, agenda, history>>

Subject(r) == IF r.kind = "create" THEN 0 ELSE r.item

Siblings(parent) == {<<i, items[i].position>> : i \in Scope(parent)}

\* The anchor and its neighbour are read; an anchor that is gone or in another
\* scope is refused.
Place(u) ==
    /\ tx[u].stage = "place"
    /\ LET r == tx[u].req IN
       IF r.near.side # "end" => r.near.anchor \in Scope(r.parent)
       THEN \E p \in Places(r.parent, Subject(r), r.near) :
               tx' = [tx EXCEPT ![u] =
                   [stage |-> "ready", req |-> r, view |-> @.view, kids |-> {},
                    row |-> @.row, place |-> Siblings(r.parent), position |-> p]]
       ELSE tx' = [tx EXCEPT ![u] = NoTx]
    /\ UNCHANGED <<items, logged, agenda, history>>

-----------------------------------------------------------------------------
(* Commits *)

\* What the request makes of the row it has read.
Changed(t) ==
    LET r == t.req
        row == [t.row EXCEPT !.version = @ + 1]
    IN  CASE r.kind = "edit"   -> [row EXCEPT !.title = @ + 1]
          [] r.kind = "check"  -> [row EXCEPT !.done = r.done]
          [] r.kind = "move"   -> [row EXCEPT !.parent = r.parent,
                                              !.position = t.position]
          [] r.kind = "delete" -> [row EXCEPT !.live = FALSE]

Deleted(row) == [row EXCEPT !.live = FALSE, !.version = @ + 1]

\* Mutant: only the parent's deletion is logged.
FlushedFirst(t) ==
    [i \in {t.req.item} |-> Changed(t)]

\* The rows a request writes, as its session sees them after the flush; the
\* change log gets exactly these.
Flushed(t) ==
    [i \in {t.req.item} \cup t.kids |->
        IF i = t.req.item THEN Changed(t) ELSE Deleted(t.view[i])]

Read(t, i) == IF i = t.req.item THEN t.row ELSE t.view[i]

Store(t) ==
    LET rows == Flushed(t) IN
    /\ items' = [i \in DOMAIN items |->
          IF i \in {t.req.item} \cup t.kids
          THEN Columns(items[i], Read(t, i),
                       IF i = t.req.item THEN Changed(t) ELSE Deleted(t.view[i]))
          ELSE items[i]]
    /\ logged' = [i \in DOMAIN items |->
          IF i \in DOMAIN rows THEN rows[i] ELSE logged[i]]
    /\ torn' = {i \in torn : i \notin DOMAIN rows} \cup
          {i \in {t.req.item} \cup t.kids : items[i] # Read(t, i)}

Insert(t) ==
    LET row == Item(t.req.parent, t.position) IN
    /\ items' = Append(items, row)
    /\ logged' = Append(logged, row)
    /\ UNCHANGED torn

\* The placed item, in its scope: have its siblings changed since they were
\* read, and was there a number left for it?
Placed(t, item) ==
    /\ displaced' = IF Siblings(t.req.parent) # t.place
                       \/ (t.req.kind = "move" /\ items[item] # t.row)
                    THEN displaced \cup {item} ELSE displaced
    /\ cramped' = IF t.req.near.side # "end"
                     /\ \E s \in t.place : s[1] # item /\ s[2] = t.position
                  THEN cramped \cup {item} ELSE cramped

Commit(u) ==
    LET t == tx[u] IN
    /\ t.stage = "ready"
    /\ IF t.req.kind = "create" THEN Insert(t) ELSE Store(t)
    /\ IF t.req.kind \in {"create", "move"}
       THEN Placed(t, IF t.req.kind = "create" THEN Len(items) + 1 ELSE t.req.item)
       ELSE UNCHANGED <<displaced, cramped>>
    /\ tx' = [tx EXCEPT ![u] = NoTx]
    /\ UNCHANGED agenda

\* The connection drops, or PostgreSQL ends a deadlock.
Fail(u) ==
    /\ tx[u] # NoTx
    /\ tx' = [tx EXCEPT ![u] = NoTx]
    /\ UNCHANGED <<items, logged, agenda, history>>

Init ==
    /\ items \in Starts /\ logged = items
    /\ tx = [u \in Users |-> NoTx]
    /\ agenda \in Agendas
    /\ torn = {} /\ displaced = {} /\ cramped = {}

Next ==
    \E u \in Users :
        Begin(u) \/ ReadFamily(u) \/ Place(u) \/ Commit(u) \/ Fail(u)

Spec == Init /\ [][Next]_vars

-----------------------------------------------------------------------------
(* Properties *)

\* Every live item is a root or the child of a live root; a phone shows no
\* other.
Shown(list) ==
    \A i \in DOMAIN list : list[i].live /\ list[i].parent # Root =>
        list[list[i].parent].live /\ list[list[i].parent].parent = Root

\* What the nesting of item k rests on.
Family(list, k) ==
    <<list[k].live, list[k].parent,
      {i \in DOMAIN list : list[i].live /\ list[i].parent = k}>>

\* Was the family of a row that the request writes or nests under changed
\* after the request looked at it?
Underfoot(t) ==
    \E k \in (({Subject(t.req)} \cup t.kids \cup
               (IF t.req.kind = "delete" THEN {} ELSE {t.req.parent})) \ {0}) :
        k \in DOMAIN t.view /\ Family(items, k) # Family(t.view, k)

\* The tree stays one level deep, and a deletion leaves no child behind, unless
\* somebody else changed the family of one of the rows concerned between the
\* check and the commit (watchlist.py: "watchlist nests one level only").
TreeKept ==
    [][Shown(items) /\ ~Shown(items') =>
        \E u \in Users : tx[u] # NoTx /\ tx'[u] = NoTx
                         /\ tx[u].req.kind \in {"create", "move", "delete"}
                         /\ Underfoot(tx[u])]_vars

\* Two siblings share a position only when one of them was placed among
\* siblings that have changed since they were read, or where no midpoint was
\* left.
SiblingsApart ==
    \A i, j \in DOMAIN items :
        /\ i # j /\ items[i].live /\ items[j].live
        /\ items[i].parent = items[j].parent
        /\ items[i].position = items[j].position
        => {i, j} \cap (displaced \cup cramped) # {}

\* An item put before or after an anchor among siblings that have not changed
\* meanwhile is its direct neighbour on that side, if there is a number left
\* (_compute_position: "the new position sits between the anchor and its
\* existing neighbour").
AnchorHonoured ==
    [][\A u \in Users :
        /\ tx[u].stage = "ready" /\ items' # items /\ tx'[u] = NoTx
        /\ tx[u].req.kind \in {"create", "move"} /\ tx[u].req.near.side # "end"
        => LET t == tx[u]
               i == IF t.req.kind = "create" THEN Len(items') ELSE t.req.item
               a == items[t.req.near.anchor].position
               Between(p) == IF t.req.near.side = "after"
                             THEN a < p /\ p <= items'[i].position
                             ELSE items'[i].position <= p /\ p < a
           IN  \/ i \in displaced' \cup cramped' \/ i = t.req.near.anchor
               \/ /\ {s \in t.place : s[1] # i /\ Between(s[2])} = {}
                  /\ Between(items'[i].position)]_vars

\* What the change log says last of an item is its row, so that a phone that
\* has read everything shows what the server has, unless the write met a row
\* that had changed since it was read (record_watchlist_change logs every row
\* of a cascade).
LogIsCurrent ==
    \A i \in DOMAIN items \ torn : logged[i] = items[i]
=============================================================================
