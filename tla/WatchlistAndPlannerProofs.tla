---------------------- MODULE WatchlistAndPlannerProofs ----------------------
(***************************************************************************)
(* Theorems about two components of the server's side that share nothing   *)
(* but the facts about finite sets proved first.  For any number of        *)
(* members, any starting list and any workload of the Watchlist: siblings  *)
(* share a position only where they may, the change log agrees with the    *)
(* list, the tree stays one level deep and an anchor is honoured.  For     *)
(* every world of the Planner: a planning run judges what the calendar     *)
(* showed it, offers nothing over what it knew the user to have booked,    *)
(* and its verdict is the one the rules define.                            *)
(***************************************************************************)
EXTENDS Watchlist, Planner, Integers, FiniteSetTheorems, WellFoundedInduction,
        SequenceTheorems, TLAPS

-----------------------------------------------------------------------------
(* Greatest and least values *)

\* An integer function on a finite set that is not empty has a greatest value:
\* of the sets on which it is at least some value of it, one contains no other.
LEMMA GreatestValue ==
  ASSUME NEW D, IsFiniteSet(D), D # {}, NEW f \in [D -> Int]
  PROVE  \E m \in D : \A n \in D : f[n] <= f[m]
<1> DEFINE AtLeast(x) == {y \in D : f[x] <= f[y]}
           All        == {AtLeast(x) : x \in D}
<1>1. All \subseteq FiniteSubsetsOf(D) /\ All # {}
  <2>1. FiniteSubsetsOf(D) = SUBSET D
    BY FS_FiniteSubsetsOfFinite
  <2>2. All \subseteq SUBSET D
    OBVIOUS
  <2>3. PICK x \in D : TRUE
    OBVIOUS
  <2>4. AtLeast(x) \in All
    OBVIOUS
  <2> QED BY <2>1, <2>2, <2>4
<1>2. PICK U \in All : \A V \in All : ~(<<V, U>> \in StrictSubsetOrdering(D))
  BY <1>1, FS_StrictSubsetOrderingWellFounded, WFMin
<1>3. PICK m \in D : U = AtLeast(m)
  OBVIOUS
<1>4. ASSUME NEW n \in D, f[m] < f[n] PROVE FALSE
  <2>1. AtLeast(n) \subseteq AtLeast(m)
    <3>1. ASSUME NEW y \in D, f[n] <= f[y] PROVE f[m] <= f[y]
      <4>1. f[y] \in Int /\ f[m] \in Int /\ f[n] \in Int
        OBVIOUS
      <4> QED BY <4>1, <3>1, <1>4
    <3> QED BY <3>1
  <2>2. m \in AtLeast(m) /\ m \notin AtLeast(n)
    BY <1>4
  <2>3. <<AtLeast(n), AtLeast(m)>> \in StrictSubsetOrdering(D)
    <3> HIDE DEF AtLeast
    <3>1. AtLeast(n) \in SUBSET D /\ AtLeast(m) \in SUBSET D
      BY DEF AtLeast
    <3> QED BY <2>1, <2>2, <3>1 DEF StrictSubsetOrdering
  <2> QED BY <1>2, <1>3, <2>3
<1>5. \A n \in D : f[n] <= f[m]
  BY <1>4
<1> QED BY <1>5

\* And a least value.
LEMMA LeastValue ==
  ASSUME NEW D, IsFiniteSet(D), D # {}, NEW f \in [D -> Int]
  PROVE  \E m \in D : \A n \in D : f[m] <= f[n]
<1> DEFINE g == [x \in D |-> -f[x]]
<1>1. g \in [D -> Int]
  OBVIOUS
<1> HIDE DEF g
<1>2. PICK m \in D : \A n \in D : g[n] <= g[m]
  BY <1>1, GreatestValue
<1>3. \A n \in D : g[n] = -f[n]
  BY DEF g
<1>4. \A n \in D : f[m] <= f[n]
  BY <1>2, <1>3
<1> QED BY <1>4

-----------------------------------------------------------------------------
(* The invariant *)

Index == Nat \ {0}

Near == [side : {"end"}] \cup [side : {"after", "before"}, anchor : Index]

Request ==
  [kind : {"create"}, parent : Nat, near : Near]
  \cup [kind : {"move"}, item : Index, parent : Nat, near : Near]
  \cup [kind : {"edit", "delete"}, item : Index]
  \cup [kind : {"check"}, item : Index, done : Users \cup {Nobody}]

Placing(t) == t.req.kind \in {"create", "move"}

\* A request before its item is placed, and one that has been.
Open ==
  [stage : {"family", "place", "ready"}, req : Request, view : Seq(Row),
   kids : SUBSET Index, place : {{}}, row : Row \cup {NoTx}]

Positioned ==
  [stage : {"ready"}, req : Request, view : Seq(Row), kids : {{}},
   place : SUBSET (Index \X Int), row : Row \cup {NoTx}, position : Int]

Typed ==
  /\ items \in Seq(Row) /\ logged \in Seq(Row) /\ Len(logged) = Len(items)
  /\ \A i \in DOMAIN items : items[i].parent <= Len(items)
  /\ tx \in [Users -> {NoTx} \cup Open \cup Positioned]

\* What a request names was there when the request began, and what it has read
\* of the list is a list that was.
Sound(t) ==
  /\ Len(t.view) <= Len(items)
  /\ t.req.kind # "create" =>
       t.req.item \in DOMAIN t.view /\ t.row \in Row /\ t.row.live
  /\ Placing(t) => t.req.parent <= Len(t.view) /\ t.kids = {}
  /\ \A k \in t.kids : k \in DOMAIN t.view /\ t.view[k].live
  /\ t.kids # {} => t.req.kind = "delete"
  /\ t.stage = "family" => t.req.kind \in {"create", "move", "delete"}
  /\ t.stage = "place" => Placing(t)
  /\ t.stage = "ready" /\ Placing(t) => t \in Positioned

Children(list, k) == {i \in DOMAIN list : list[i].live /\ list[i].parent = k}

\* What a request has checked of the tree holds in the list it has read.
Checked(t) ==
  /\ t.stage \in {"place", "ready"} /\ Placing(t) /\ t.req.parent # Root =>
       /\ t.view[t.req.parent].live /\ t.view[t.req.parent].parent = Root
       /\ t.req.kind = "move" => t.req.parent # t.req.item
                                 /\ Children(t.view, t.req.item) = {}
  /\ t.stage = "ready" /\ t.req.kind = "delete" =>
       \/ t.view[t.req.item].parent # Root /\ t.kids = {}
       \/ t.kids = Children(t.view, t.req.item)

\* A placed item is where its request asked for it, among the siblings read.
WellPlaced(t) ==
  LET others == {s \in t.place : s[1] # Subject(t.req)} IN
  CASE t.req.near.side = "end" -> \A s \in others : s[2] < t.position
    [] t.req.near.side = "after" ->
         \E at \in Int :
           /\ <<t.req.near.anchor, at>> \in t.place /\ at <= t.position
           /\ \A s \in others : s[2] > at => t.position <= s[2]
    [] t.req.near.side = "before" ->
         \E at \in Int :
           /\ <<t.req.near.anchor, at>> \in t.place /\ t.position <= at
           /\ \A s \in others : s[2] < at => s[2] <= t.position

\* The inductive invariant.
ListInv ==
  /\ Typed
  /\ \A u \in Users : tx[u] # NoTx => Sound(tx[u]) /\ Checked(tx[u])
  /\ \A u \in Users : tx[u].stage = "ready" /\ Placing(tx[u]) => WellPlaced(tx[u])
  /\ SiblingsApart
  /\ LogIsCurrent

-----------------------------------------------------------------------------
(* Rows and columns *)

LEMMA ColumnsMerge ==
  ASSUME NEW row \in Row, NEW old \in Row, NEW new \in Row
  PROVE  /\ Columns(row, old, new) \in Row
         /\ \A c \in {"parent", "position", "live"} :
              Columns(row, old, new)[c] = IF new[c] = old[c] THEN row[c] ELSE new[c]
<1> DEFINE w == Columns(row, old, new)
<1>1. DOMAIN w = DOMAIN row
  BY DEF Columns
<1>2. DOMAIN row = {"parent", "position", "title", "done", "version", "live"}
  BY DEF Row
<1>3. \A c \in DOMAIN row : w[c] = IF new[c] = old[c] THEN row[c] ELSE new[c]
  BY DEF Columns
<1>4. /\ w.parent \in Nat /\ w.position \in Int /\ w.title \in Nat
      /\ w.done \in Users \cup {Nobody} /\ w.version \in Nat /\ w.live \in BOOLEAN
  BY <1>2, <1>3 DEF Row
<1>5. w = [c \in DOMAIN w |-> w[c]]
  BY DEF Columns
<1> HIDE DEF w
<1>6. w = [parent |-> w.parent, position |-> w.position, title |-> w.title,
           done |-> w.done, version |-> w.version, live |-> w.live]
  BY <1>1, <1>2, <1>5
<1>7. w \in Row
  BY <1>4, <1>6 DEF Row
<1> QED BY <1>2, <1>3, <1>7 DEF w

\* A write over the row that was read leaves the row it made.
LEMMA ColumnsWrite ==
  ASSUME NEW row \in Row, NEW new \in Row
  PROVE  Columns(row, row, new) = new
BY DEF Columns, Row

LEMMA ChangedRow ==
  ASSUME NEW t, t.req \in Request, t.row \in Row,
         t.req.kind # "create", t.req.kind = "move" => t.position \in Int
  PROVE  /\ Changed(t) \in Row
         /\ t.req.kind # "move" => /\ Changed(t).parent = t.row.parent
                                   /\ Changed(t).position = t.row.position
         /\ t.req.kind = "move" => /\ Changed(t).parent = t.req.parent
                                   /\ Changed(t).position = t.position
         /\ Changed(t).live = IF t.req.kind = "delete" THEN FALSE ELSE t.row.live
<1> DEFINE row == [t.row EXCEPT !.version = @ + 1]
<1>1. row \in Row /\ row.parent = t.row.parent /\ row.position = t.row.position
      /\ row.live = t.row.live
  BY DEF Row
<1> HIDE DEF row
<1>2. CASE t.req.kind = "edit"
  <2>1. Changed(t) = [row EXCEPT !.title = @ + 1]
    BY <1>2 DEF Changed, row
  <2> QED BY <2>1, <1>1, <1>2 DEF Row
<1>3. CASE t.req.kind = "check"
  <2>1. Changed(t) = [row EXCEPT !.done = t.req.done]
    BY <1>3 DEF Changed, row
  <2>2. t.req.done \in Users \cup {Nobody}
    BY <1>3 DEF Request
  <2> QED BY <2>1, <2>2, <1>1, <1>3 DEF Row
<1>4. CASE t.req.kind = "move"
  <2>1. Changed(t) = [row EXCEPT !.parent = t.req.parent, !.position = t.position]
    BY <1>4 DEF Changed, row
  <2>2. t.req.parent \in Nat
    BY <1>4 DEF Request
  <2> QED BY <2>1, <2>2, <1>1, <1>4 DEF Row
<1>5. CASE t.req.kind = "delete"
  <2>1. Changed(t) = [row EXCEPT !.live = FALSE]
    BY <1>5 DEF Changed, row
  <2> QED BY <2>1, <1>1, <1>5 DEF Row
<1> QED BY <1>2, <1>3, <1>4, <1>5 DEF Request

LEMMA DeletedRow ==
  ASSUME NEW row \in Row
  PROVE  /\ Deleted(row) \in Row /\ Deleted(row).live = FALSE
         /\ Deleted(row).parent = row.parent /\ Deleted(row).position = row.position
<1> DEFINE gone == [row EXCEPT !.live = FALSE]
<1>a. gone \in Row
  BY DEF Row
<1>b. Deleted(row) = [gone EXCEPT !.version = @ + 1]
  BY DEF Deleted
<1>1. Deleted(row) \in Row
  <2> HIDE DEF gone
  <2> QED BY <1>a, <1>b DEF Row
<1>2. Deleted(row).live = FALSE
  BY DEF Deleted, Row
<1>3. Deleted(row).parent = row.parent /\ Deleted(row).position = row.position
  BY DEF Deleted, Row
<1> QED BY <1>1, <1>2, <1>3

LEMMA NoTxApart == NoTx \notin Open /\ NoTx \notin Positioned
<1>1. DOMAIN NoTx = {"stage"}
  BY DEF NoTx
<1>2. \A t \in Open \cup Positioned : "req" \in DOMAIN t
  BY DEF Open, Positioned
<1> QED BY <1>1, <1>2

LEMMA WatchInitInv == Init => ListInv
<1> SUFFICES ASSUME Init PROVE ListInv
  OBVIOUS
<1>1. /\ items \in Seq(Row) /\ logged = items
      /\ \A i \in DOMAIN items : items[i].parent <= Len(items)
      /\ \A i, j \in DOMAIN items : i # j /\ items[i].parent = items[j].parent
                                    => items[i].position # items[j].position
  BY StartsAssumption DEF Init
<1>2. \A u \in Users : tx[u] = NoTx
  BY DEF Init
<1>3. tx \in [Users -> {NoTx} \cup Open \cup Positioned]
  BY DEF Init
<1>4. NoTx.stage # "ready"
  BY DEF NoTx
<1> QED BY <1>1, <1>2, <1>3, <1>4 DEF ListInv, Typed, SiblingsApart, LogIsCurrent

-----------------------------------------------------------------------------
(* The steps that only read *)

\* A step of one request that leaves the list alone.
LEMMA Reads ==
  ASSUME ListInv, NEW u \in Users, NEW n \in {NoTx} \cup Open \cup Positioned,
         tx' = [tx EXCEPT ![u] = n], UNCHANGED <<items, logged, torn, displaced, cramped>>,
         n # NoTx => Sound(n) /\ Checked(n),
         n.stage = "ready" /\ Placing(n) => WellPlaced(n)
  PROVE  ListInv'
<1>1. Typed'
  BY DEF ListInv, Typed
<1>2. ASSUME NEW v \in Users
      PROVE  tx'[v] = IF v = u THEN n ELSE tx[v]
  BY DEF ListInv, Typed
<1>3. ASSUME NEW v \in Users, tx'[v] # NoTx
      PROVE  Sound(tx[v])' /\ Checked(tx[v])'
  <2>1. Sound(tx'[v]) /\ Checked(tx'[v])
    BY <1>2, <1>3 DEF ListInv
  <2> QED BY <2>1 DEF Sound, Checked, Placing, Children
<1>4. ASSUME NEW v \in Users, tx'[v].stage = "ready", Placing(tx[v])'
      PROVE  WellPlaced(tx[v])'
  <2>1. WellPlaced(tx'[v])
    BY <1>2, <1>4 DEF ListInv, Placing
  <2> QED BY <2>1 DEF WellPlaced, Subject
<1>5. SiblingsApart' /\ LogIsCurrent'
  BY DEF ListInv, SiblingsApart, LogIsCurrent
<1> QED BY <1>1, <1>3, <1>4, <1>5 DEF ListInv

LEMMA ScopeIndexes ==
  ASSUME items \in Seq(Row), NEW p
  PROVE  /\ Scope(p) = Children(items, p)
         /\ Scope(p) \subseteq DOMAIN items
         /\ DOMAIN items = 1 .. Len(items)
         /\ Scope(p) \in SUBSET Index
BY DEF Scope, Children, Index

LEMMA RowsTyped ==
  ASSUME items \in Seq(Row), NEW i \in DOMAIN items
  PROVE  items[i] \in Row /\ items[i].parent \in Nat /\ items[i].position \in Int
<1>1. items[i] \in Row
  OBVIOUS
<1> QED BY <1>1 DEF Row

LEMMA RequestsTyped ==
  ASSUME items \in Seq(Row), NEW u \in Users, NEW r \in Requests(u)
  PROVE  /\ r \in Request
         /\ r.kind # "create" => r.item \in DOMAIN items /\ items[r.item].live
         /\ r.kind \in {"create", "move"} => r.parent \in 0 .. Len(items)
<1> DEFINE live == {i \in DOMAIN items : items[i].live}
           parents == live \cup {Root}
<1>1. /\ live \subseteq DOMAIN items /\ live \in SUBSET Index
      /\ parents \subseteq 0 .. Len(items)
  <2>1. DOMAIN items = 1 .. Len(items) /\ Len(items) \in Nat
    OBVIOUS
  <2> QED BY <2>1 DEF Index, Root
<1>2. \A p : Nears(p) \subseteq Near
  BY ScopeIndexes DEF Nears, Near
<1>3. \/ \E p \in parents : r \in [kind : {"create"}, parent : {p}, near : Nears(p)]
      \/ \E p \in parents :
            r \in [kind : {"move"}, item : live, parent : {p}, near : Nears(p)]
      \/ r \in [kind : {"edit", "delete"}, item : live]
      \/ r \in [kind : {"check"}, item : live, done : {u, Nobody}]
  <2> DEFINE C(p) == [kind : {"create"}, parent : {p}, near : Nears(p)]
             M(p) == [kind : {"move"}, item : live, parent : {p}, near : Nears(p)]
             E == [kind : {"edit", "delete"}, item : live]
             K == [kind : {"check"}, item : live, done : {u, Nobody}]
             UC == UNION {C(p) : p \in parents}
             UM == UNION {M(p) : p \in parents}
  <2>1. Requests(u) = UC \cup UM \cup E \cup K
    BY DEF Requests
  <2>2. r \in UC \/ r \in UM \/ r \in E \/ r \in K
    <3> HIDE DEF UC, UM, E, K
    <3> QED BY <2>1
  <2> HIDE DEF C, M, E, K, parents
  <2>3. ASSUME r \in UNION {C(p) : p \in parents} PROVE \E p \in parents : r \in C(p)
    BY Zenon, <2>3
  <2>4. ASSUME r \in UNION {M(p) : p \in parents} PROVE \E p \in parents : r \in M(p)
    BY Zenon, <2>4
  <2>5. \/ \E p \in parents : r \in C(p)
        \/ \E p \in parents : r \in M(p)
        \/ r \in E
        \/ r \in K
    BY <2>2, <2>3, <2>4
  <2> QED BY <2>5 DEF C, M, E, K, parents
<1>4. \A i \in live : items[i].live
  OBVIOUS
<1> HIDE DEF live, parents
<1>5. CASE \E p \in parents : r \in [kind : {"create"}, parent : {p}, near : Nears(p)]
  <2>1. r \in [kind : {"create"}, parent : Nat, near : Near] /\ r.parent \in 0 .. Len(items)
    BY <1>1, <1>2, <1>5
  <2> QED BY <2>1 DEF Request
<1>6. CASE \E p \in parents :
             r \in [kind : {"move"}, item : live, parent : {p}, near : Nears(p)]
  <2>1. /\ r \in [kind : {"move"}, item : Index, parent : Nat, near : Near]
        /\ r.parent \in 0 .. Len(items) /\ r.item \in live
    BY <1>1, <1>2, <1>6
  <2> QED BY <2>1, <1>1, <1>4 DEF Request
<1>7. CASE r \in [kind : {"edit", "delete"}, item : live]
  <2>1. r \in [kind : {"edit", "delete"}, item : Index] /\ r.item \in live
        /\ r.kind \notin {"create", "move"}
    BY <1>1, <1>7
  <2> QED BY <2>1, <1>1, <1>4 DEF Request
<1>8. CASE r \in [kind : {"check"}, item : live, done : {u, Nobody}]
  <2>1. r \in [kind : {"check"}, item : Index, done : Users \cup {Nobody}]
        /\ r.item \in live /\ r.kind \notin {"create", "move"}
    BY <1>1, <1>8
  <2> QED BY <2>1, <1>1, <1>4 DEF Request
<1> QED BY <1>3, <1>5, <1>6, <1>7, <1>8

LEMMA BeginKeeps ==
  ASSUME ListInv, NEW u \in Users, Begin(u)
  PROVE  ListInv'
<1>1. PICK r \in Requests(u) :
        tx' = [tx EXCEPT ![u] =
                [stage |-> IF r.kind \in {"edit", "check"} \/ DeletesChild(r)
                           THEN "ready" ELSE "family",
                 req |-> r, view |-> items, kids |-> {}, place |-> {},
                 row |-> IF r.kind = "create" THEN NoTx ELSE items[r.item]]]
  BY DEF Begin
<1> DEFINE st == IF r.kind \in {"edit", "check"} \/ DeletesChild(r)
                 THEN "ready" ELSE "family"
           row == IF r.kind = "create" THEN NoTx ELSE items[r.item]
           n == [stage |-> st, req |-> r, view |-> items, kids |-> {}, place |-> {},
                 row |-> row]
<1>2. items \in Seq(Row)
  BY DEF ListInv, Typed
<1>3. /\ r \in Request
      /\ r.kind # "create" => r.item \in DOMAIN items /\ items[r.item].live
      /\ r.kind \in {"create", "move"} => r.parent \in 0 .. Len(items)
  BY <1>2, RequestsTyped
<1>4. r.kind # "create" => row \in Row /\ row.live
  BY <1>2, <1>3
<1>5. row \in Row \cup {NoTx}
  BY <1>4
<1>6. st \in {"family", "ready"} /\ (st = "ready" =>
        r.kind \in {"edit", "check"} \/ (r.kind = "delete" /\ items[r.item].parent # Root))
  BY DEF DeletesChild
<1>7. st = "family" => r.kind \in {"create", "move", "delete"}
  BY <1>3 DEF Request
<1> HIDE DEF st, row
<1>8. n \in Open
  BY <1>2, <1>3, <1>5, <1>6 DEF Open
<1>9. Sound(n) /\ Checked(n)
  <2>1. Sound(n)
    BY <1>2, <1>3, <1>4, <1>6, <1>7 DEF Sound, Placing
  <2>2. Checked(n)
    BY <1>6 DEF Checked, Placing
  <2> QED BY <2>1, <2>2
<1>10. ~(n.stage = "ready" /\ Placing(n))
  BY <1>6 DEF Placing
<1>11. tx' = [tx EXCEPT ![u] = n]
  BY <1>1 DEF st, row
<1>12. UNCHANGED <<items, logged, torn, displaced, cramped>>
  BY DEF Begin, history
<1> HIDE DEF n
<1> QED BY <1>8, <1>9, <1>10, <1>11, <1>12, Reads

LEMMA FailKeeps ==
  ASSUME ListInv, NEW u \in Users, Fail(u)
  PROVE  ListInv'
<1>1. NoTx.stage # "ready"
  BY DEF NoTx
<1>2. UNCHANGED <<items, logged, torn, displaced, cramped>>
  BY DEF Fail, history
<1> QED BY <1>1, <1>2, Reads DEF Fail

\* A request that is in flight is one of the two kinds of record.
LEMMA InFlight ==
  ASSUME Typed, NEW u \in Users, tx[u] # NoTx
  PROVE  tx[u] \in Open \/ tx[u] \in Positioned
BY DEF Typed

LEMMA ReadFamilyKeeps ==
  ASSUME ListInv, NEW u \in Users, ReadFamily(u)
  PROVE  ListInv'
<1> DEFINE t == tx[u]
           r == t.req
           del == [t EXCEPT !.stage = "ready", !.view = items, !.kids = Scope(r.item)]
           put == [t EXCEPT !.stage = "place", !.view = items]
<1>1. /\ t.stage = "family"
      /\ tx' = [tx EXCEPT ![u] = IF r.kind = "delete" THEN del
                                 ELSE IF r.parent = Root \/ MayNest(r) THEN put
                                 ELSE NoTx]
      /\ UNCHANGED <<items, logged, torn, displaced, cramped>>
  BY DEF ReadFamily, history
<1>2. t # NoTx /\ items \in Seq(Row)
  BY <1>1 DEF NoTx, ListInv, Typed
<1>3. t \in Open
  <2>1. t \in Open \/ t \in Positioned
    BY <1>2, InFlight DEF ListInv
  <2> QED BY <2>1, <1>1 DEF Positioned
<1>4. Sound(t)
  BY <1>2 DEF ListInv
<1>5. /\ DOMAIN items = 1 .. Len(items) /\ Len(items) \in Nat
      /\ DOMAIN t.view = 1 .. Len(t.view) /\ Len(t.view) \in Nat
      /\ Len(t.view) <= Len(items)
  BY <1>2, <1>3, <1>4 DEF Open, Sound
<1>6. r \in Request /\ t.row \in Row \cup {NoTx}
  BY <1>3 DEF Open
<1>7. r.kind # "create" => r.item \in DOMAIN items /\ t.row \in Row /\ t.row.live
  BY <1>4, <1>5 DEF Sound
<1>8. Placing(t) => r.parent <= Len(items)
  <2>1. Placing(t) => r.parent \in Nat /\ r.parent <= Len(t.view)
    BY <1>4, <1>6 DEF Sound, Placing, Request
  <2> QED BY <2>1, <1>5
<1>9. CASE r.kind = "delete"
  <2>1. /\ Scope(r.item) \in SUBSET Index
        /\ Scope(r.item) = Children(items, r.item)
        /\ \A k \in Scope(r.item) : k \in DOMAIN items /\ items[k].live
    BY <1>2, ScopeIndexes DEF Children
  <2>2. /\ del \in Open /\ del.stage = "ready" /\ del.view = items
        /\ del.kids = Scope(r.item) /\ del.req = r /\ del.row = t.row
    BY <1>2, <1>3, <2>1 DEF Open
  <2> HIDE DEF del
  <2>3. Sound(del)
    BY <1>2, <1>5, <1>7, <1>9, <2>1, <2>2 DEF Sound, Placing
  <2>4. Checked(del) /\ ~Placing(del)
    BY <1>9, <2>1, <2>2 DEF Checked, Placing
  <2> QED BY <1>1, <1>9, <2>2, <2>3, <2>4, Reads
<1>10. CASE r.kind # "delete" /\ (r.parent = Root \/ MayNest(r))
  <2>1. Placing(t) /\ t.kids = {}
    BY <1>1, <1>4, <1>10 DEF Sound, Placing
  <2>2. /\ put \in Open /\ put.stage = "place" /\ put.view = items
        /\ put.kids = {} /\ put.req = r /\ put.row = t.row
    BY <1>2, <1>3, <2>1 DEF Open
  <2> HIDE DEF put
  <2>3. Sound(put)
    BY <1>2, <1>5, <1>7, <1>8, <2>1, <2>2 DEF Sound, Placing
  <2>4. Checked(put)
    <3>1. r.kind = "move" => Scope(r.item) = Children(items, r.item)
      BY <1>2, ScopeIndexes
    <3> QED BY <1>10, <2>2, <3>1 DEF Checked, MayNest, Placing
  <2> QED BY <1>1, <1>10, <2>2, <2>3, <2>4, Reads
<1>11. CASE r.kind # "delete" /\ ~(r.parent = Root \/ MayNest(r))
  <2>1. tx' = [tx EXCEPT ![u] = NoTx] /\ NoTx.stage # "ready"
    BY <1>1, <1>11 DEF NoTx
  <2> QED BY <1>1, <2>1, Reads
<1> QED BY <1>9, <1>10, <1>11

-----------------------------------------------------------------------------
(* Positions *)

ValuesOf(S, D, f) == (\A i \in D : f[i] \in S) /\ (\A n \in S : \E i \in D : n = f[i])

\* The set of the values of a function on a finite set has the bounds that the
\* positions are computed from.
LEMMA HighestBounds ==
  ASSUME NEW D, IsFiniteSet(D), NEW f \in [D -> Int], NEW S, ValuesOf(S, D, f), S # {}
  PROVE  /\ Highest(S) \in S /\ \A n \in S : n <= Highest(S)
         /\ Lowest(S) \in S /\ \A n \in S : Lowest(S) <= n
<1>1. D # {} /\ (\A i \in D : f[i] \in S) /\ (\A n \in S : \E i \in D : n = f[i])
  BY DEF ValuesOf
<1>2. \E m \in S : \A n \in S : n <= m
  <2>1. PICK m \in D : \A n \in D : f[n] <= f[m]
    BY <1>1, GreatestValue
  <2> QED BY <1>1, <2>1
<1>3. \E m \in S : \A n \in S : m <= n
  <2>1. PICK m \in D : \A n \in D : f[m] <= f[n]
    BY <1>1, LeastValue
  <2> QED BY <1>1, <2>1
<1> QED BY <1>2, <1>3 DEF Highest, Lowest

LEMMA HalfWay ==
  ASSUME NEW a \in Int, NEW b \in Int, a < b, NEW p \in Midpoints(a, b)
  PROVE  p \in Int /\ a <= p /\ p <= b
BY DEF Midpoints

LEMMA BesideBounds ==
  ASSUME NEW D, IsFiniteSet(D), NEW f \in [D -> Int], NEW S, ValuesOf(S, D, f),
         NEW at \in Int, NEW side \in {"after", "before"}, NEW p \in Beside(S, side, at)
  PROVE  /\ p \in Int
         /\ side = "after" => at <= p /\ \A n \in S : n > at => p <= n
         /\ side = "before" => p <= at /\ \A n \in S : n < at => n <= p
<1> DEFINE above == {n \in S : n > at}
           below == {n \in S : n < at}
<1>1. S \subseteq Int
  BY DEF ValuesOf
<1>2. ASSUME above # {}
      PROVE  Lowest(above) \in above /\ \A n \in above : Lowest(above) <= n
  <2> DEFINE E == {i \in D : f[i] > at}
             g == [i \in E |-> f[i]]
  <2>1. IsFiniteSet(E) /\ g \in [E -> Int] /\ ValuesOf(above, E, g)
    BY FS_Subset DEF ValuesOf
  <2> HIDE DEF E, g, above
  <2> QED BY <2>1, <1>2, HighestBounds
<1>3. ASSUME below # {}
      PROVE  Highest(below) \in below /\ \A n \in below : n <= Highest(below)
  <2> DEFINE E == {i \in D : f[i] < at}
             g == [i \in E |-> f[i]]
  <2>1. IsFiniteSet(E) /\ g \in [E -> Int] /\ ValuesOf(below, E, g)
    BY FS_Subset DEF ValuesOf
  <2> HIDE DEF E, g, below
  <2> QED BY <2>1, <1>3, HighestBounds
<1>4. CASE side = "after"
  <2>1. CASE above = {}
    <3>1. p = at + One
      BY <1>4, <2>1 DEF Beside
    <3> QED BY <3>1, <1>1, <1>4, <2>1, WatchlistAssumption
  <2>2. CASE above # {}
    <3>1. p \in Midpoints(at, Lowest(above))
      BY <1>4, <2>2 DEF Beside
    <3>2. Lowest(above) \in Int /\ at < Lowest(above)
      BY <1>1, <1>2, <2>2
    <3>3. p \in Int /\ at <= p /\ p <= Lowest(above)
      BY <3>1, <3>2, HalfWay
    <3>4. \A n \in S : n > at => Lowest(above) <= n /\ n \in Int
      BY <1>1, <1>2, <2>2
    <3>5. \A n \in S : n > at => p <= n
      <4> HIDE DEF above
      <4> QED BY <3>2, <3>3, <3>4
    <3> QED BY <3>3, <3>5, <1>4
  <2> QED BY <2>1, <2>2
<1>5. CASE side = "before"
  <2>1. CASE below = {}
    <3>1. p = at - One
      BY <1>5, <2>1 DEF Beside
    <3> QED BY <3>1, <1>1, <1>5, <2>1, WatchlistAssumption
  <2>2. CASE below # {}
    <3>1. p \in Midpoints(Highest(below), at)
      BY <1>5, <2>2 DEF Beside
    <3>2. Highest(below) \in Int /\ Highest(below) < at
      BY <1>1, <1>3, <2>2
    <3>3. p \in Int /\ Highest(below) <= p /\ p <= at
      BY <3>1, <3>2, HalfWay
    <3>4. \A n \in S : n < at => n <= Highest(below) /\ n \in Int
      BY <1>1, <1>3, <2>2
    <3>5. \A n \in S : n < at => n <= p
      <4> HIDE DEF below
      <4> QED BY <3>2, <3>3, <3>4
    <3> QED BY <3>3, <3>5, <1>5
  <2> QED BY <2>1, <2>2
<1> QED BY <1>4, <1>5

LEMMA AppendedBound ==
  ASSUME NEW D, IsFiniteSet(D), NEW f \in [D -> Int], NEW S, ValuesOf(S, D, f)
  PROVE  Appended(S) \in Int /\ \A n \in S : n < Appended(S)
<1>1. S \subseteq Int
  BY DEF ValuesOf
<1>2. CASE S = {}
  BY <1>2, WatchlistAssumption DEF Appended
<1>3. CASE S # {}
  <2>1. Highest(S) \in S /\ \A n \in S : n <= Highest(S)
    BY <1>3, HighestBounds
  <2>2. Appended(S) = Highest(S) + One
    BY <1>3 DEF Appended
  <2>3. One \in Int /\ 0 < One
    BY WatchlistAssumption
  <2>5. Highest(S) \in Int
    BY <1>1, <2>1
  <2>4. ASSUME NEW n \in S PROVE n < Appended(S)
    <3>1. n \in Int /\ n <= Highest(S)
      BY <1>1, <2>1
    <3> QED BY <2>2, <2>3, <2>5, <3>1
  <2> QED BY <2>2, <2>3, <2>4, <2>5
<1> QED BY <1>2, <1>3

LEMMA PlaceKeeps ==
  ASSUME ListInv, NEW u \in Users, Place(u)
  PROVE  ListInv'
<1> DEFINE t == tx[u]
           r == t.req
           self == Subject(r)
           D == Scope(r.parent) \ {self}
           f == [i \in D |-> items[i].position]
           S == {items[i].position : i \in D}
           q(p) == [stage |-> "ready", req |-> r, view |-> t.view, kids |-> {},
                    row |-> t.row, place |-> Siblings(r.parent), position |-> p]
<1>1. t.stage = "place" /\ UNCHANGED <<items, logged, torn, displaced, cramped>>
  BY DEF Place, history
<1>2. t # NoTx /\ items \in Seq(Row)
  BY <1>1 DEF NoTx, ListInv, Typed
<1>3. t \in Open
  <2>1. t \in Open \/ t \in Positioned
    BY <1>2, InFlight DEF ListInv
  <2> QED BY <2>1, <1>1 DEF Positioned
<1>4. Sound(t) /\ Checked(t) /\ Placing(t)
  BY <1>1, <1>2 DEF ListInv, Sound
<1>5. r \in Request /\ r.near \in Near /\ r.parent \in Nat
  <2>1. r \in Request
    BY <1>3 DEF Open
  <2> QED BY <2>1, <1>4 DEF Request, Placing
<1>6. CASE r.near.side # "end" /\ r.near.anchor \notin Scope(r.parent)
  <2>1. tx' = [tx EXCEPT ![u] = NoTx] /\ NoTx.stage # "ready"
    BY <1>6 DEF Place, NoTx
  <2> QED BY <1>1, <2>1, Reads
<1>7. CASE r.near.side # "end" => r.near.anchor \in Scope(r.parent)
  <2>1. PICK p \in Places(r.parent, self, r.near) : tx' = [tx EXCEPT ![u] = q(p)]
    BY <1>7 DEF Place
  <2>2. /\ Scope(r.parent) \subseteq DOMAIN items /\ Scope(r.parent) \in SUBSET Index
        /\ DOMAIN items = 1 .. Len(items)
    BY <1>2, ScopeIndexes
  <2>3. IsFiniteSet(D)
    <3>1. IsFiniteSet(1 .. Len(items))
      BY <1>2, FS_Interval
    <3> QED BY <2>2, <3>1, FS_Subset
  <2>12. \A i \in DOMAIN items : items[i].position \in Int
    BY <1>2, RowsTyped
  <2>4. f \in [D -> Int] /\ ValuesOf(S, D, f)
    BY <2>2, <2>12 DEF ValuesOf
  <2>5. Siblings(r.parent) \in SUBSET (Index \X Int)
    BY <2>2, <2>12 DEF Siblings
  <2>6. \A s \in Siblings(r.parent) : s[1] # self => s[2] \in S /\ s[2] \in Int
    BY <2>5 DEF Siblings
  <2>7. Places(r.parent, self, r.near) =
          IF r.near.side = "end" THEN {Appended(S)}
          ELSE Beside(S, r.near.side, items[r.near.anchor].position)
    BY DEF Places
  <2> HIDE DEF D, f, S
  <2>8. p \in Int /\ WellPlaced(q(p))
    <3>1. CASE r.near.side = "end"
      <4>1. p \in Int /\ \A n \in S : n < p
        BY <2>1, <2>3, <2>4, <2>7, <3>1, AppendedBound
      <4>2. \A s \in Siblings(r.parent) : s[1] # self => s[2] < p
        BY <2>6, <4>1
      <4> QED BY <3>1, <4>1, <4>2 DEF WellPlaced
    <3>2. CASE r.near.side # "end"
      <4> DEFINE at == items[r.near.anchor].position
      <4>1. /\ r.near.side \in {"after", "before"}
            /\ <<r.near.anchor, at>> \in Siblings(r.parent) /\ at \in Int
        <5>1. r.near.side \in {"after", "before"}
          BY <1>5, <3>2 DEF Near
        <5>2. r.near.anchor \in Scope(r.parent)
          BY <1>7, <3>2
        <5> QED BY <2>2, <2>12, <5>1, <5>2 DEF Siblings
      <4>2. p \in Beside(S, r.near.side, at)
        BY <2>1, <2>7, <3>2
      <4>6. \A side \in {"after", "before"} : \A m \in Beside(S, side, at) :
              /\ m \in Int
              /\ side = "after" => at <= m /\ \A n \in S : n > at => m <= n
              /\ side = "before" => m <= at /\ \A n \in S : n < at => n <= m
        <5> HIDE DEF at
        <5>1. at \in Int
          BY <4>1
        <5> QED BY <2>3, <2>4, <5>1, BesideBounds
      <4> HIDE DEF at
      <4>4. CASE r.near.side = "after"
        <5>2. p \in Beside(S, "after", at)
          BY <4>2, <4>4
        <5>3. p \in Int /\ at <= p /\ \A n \in S : n > at => p <= n
          BY <4>6, <5>2
        <5>1. \A s \in Siblings(r.parent) : s[1] # self => (s[2] > at => p <= s[2])
          BY <2>6, <5>3
        <5> QED BY <4>1, <4>4, <5>1, <5>3 DEF WellPlaced
      <4>5. CASE r.near.side = "before"
        <5>2. p \in Beside(S, "before", at)
          BY <4>2, <4>5
        <5>3. p \in Int /\ p <= at /\ \A n \in S : n < at => n <= p
          BY <4>6, <5>2
        <5>1. \A s \in Siblings(r.parent) : s[1] # self => (s[2] < at => s[2] <= p)
          BY <2>6, <5>3
        <5> QED BY <4>1, <4>5, <5>1, <5>3 DEF WellPlaced
      <4> QED BY <4>1, <4>4, <4>5
    <3> QED BY <3>1, <3>2
  <2>9. q(p) \in Positioned /\ q(p).stage = "ready"
    BY <1>3, <2>5, <2>8 DEF Open, Positioned
  <2>10. Sound(q(p))
    BY <1>4, <2>9 DEF Sound, Placing
  <2>11. Checked(q(p))
    BY <1>1, <1>4 DEF Checked, Placing
  <2> HIDE DEF q
  <2> QED BY <1>1, <2>1, <2>8, <2>9, <2>10, <2>11, Reads
<1> QED BY <1>6, <1>7

-----------------------------------------------------------------------------
(* Commits *)

\* The rows a request writes, and what it writes into each.
Written(t) == {t.req.item} \cup t.kids
New(t, i) == IF i = t.req.item THEN Changed(t) ELSE Deleted(t.view[i])

\* What a commit relies on.
LEMMA ReadyFacts ==
  ASSUME ListInv, NEW u \in Users, tx[u].stage = "ready"
  PROVE  /\ tx[u] # NoTx /\ Sound(tx[u]) /\ Checked(tx[u])
         /\ tx[u].req \in Request /\ tx[u].view \in Seq(Row)
         /\ Placing(tx[u]) => /\ WellPlaced(tx[u]) /\ tx[u].position \in Int
                              /\ tx[u].place \in SUBSET (Index \X Int)
                              /\ tx[u].req.near \in Near /\ tx[u].req.parent \in Nat
                              /\ tx[u].req.parent <= Len(items)
         /\ items \in Seq(Row) /\ logged \in Seq(Row) /\ Len(logged) = Len(items)
         /\ DOMAIN items = 1 .. Len(items) /\ Len(items) \in Nat
         /\ DOMAIN tx[u].view \subseteq DOMAIN items
<1>1. tx[u] # NoTx
  BY DEF NoTx
<1>2. tx[u] \in Open \/ tx[u] \in Positioned
  BY <1>1, InFlight DEF ListInv
<1>3. Sound(tx[u]) /\ Checked(tx[u])
  BY <1>1 DEF ListInv
<1>4. tx[u].req \in Request /\ tx[u].view \in Seq(Row)
  BY <1>2 DEF Open, Positioned
<1>5. /\ items \in Seq(Row) /\ logged \in Seq(Row) /\ Len(logged) = Len(items)
      /\ DOMAIN items = 1 .. Len(items) /\ Len(items) \in Nat
  BY DEF ListInv, Typed
<1>6. /\ DOMAIN tx[u].view = 1 .. Len(tx[u].view) /\ Len(tx[u].view) \in Nat
      /\ Len(tx[u].view) <= Len(items)
  BY <1>3, <1>4 DEF Sound
<1>7. ASSUME Placing(tx[u])
      PROVE  /\ WellPlaced(tx[u]) /\ tx[u].position \in Int
             /\ tx[u].place \in SUBSET (Index \X Int)
             /\ tx[u].req.near \in Near /\ tx[u].req.parent \in Nat
             /\ tx[u].req.parent <= Len(items)
  <2>1. WellPlaced(tx[u])
    BY <1>7 DEF ListInv
  <2>2. tx[u] \in Positioned
    BY <1>3, <1>7 DEF Sound
  <2>3. tx[u].position \in Int /\ tx[u].place \in SUBSET (Index \X Int)
    BY <2>2 DEF Positioned
  <2>4. tx[u].req.near \in Near /\ tx[u].req.parent \in Nat
    BY <1>4, <1>7 DEF Request, Placing
  <2>5. tx[u].req.parent <= Len(tx[u].view)
    BY <1>3, <1>7 DEF Sound
  <2> QED BY <1>5, <1>6, <2>1, <2>3, <2>4, <2>5
<1>8. DOMAIN tx[u].view \subseteq DOMAIN items
  BY <1>5, <1>6
<1> QED BY <1>1, <1>3, <1>4, <1>5, <1>7, <1>8

LEMMA FunctionIsSeq ==
  ASSUME NEW n \in Nat, NEW S, NEW f \in [1 .. n -> S]
  PROVE  f \in Seq(S) /\ Len(f) = n
<1>1. f \in Seq(S)
  BY SeqDef
<1> QED BY <1>1, LenProperties

LEMMA StoreRows ==
  ASSUME ListInv, NEW u \in Users, tx[u].stage = "ready", tx[u].req.kind # "create",
         Store(tx[u])
  PROVE  /\ items' \in Seq(Row) /\ Len(items') = Len(items)
         /\ logged' \in Seq(Row) /\ Len(logged') = Len(items)
         /\ \A i \in DOMAIN items \ Written(tx[u]) :
               items'[i] = items[i] /\ logged'[i] = logged[i]
         /\ \A i \in Written(tx[u]) :
               /\ i \in DOMAIN items
               /\ Read(tx[u], i) \in Row /\ New(tx[u], i) \in Row
               /\ items'[i] = Columns(items[i], Read(tx[u], i), New(tx[u], i))
               /\ logged'[i] = New(tx[u], i)
         /\ torn' = (torn \ Written(tx[u]))
                    \cup {i \in Written(tx[u]) : items[i] # Read(tx[u], i)}
<1> DEFINE t == tx[u]
           W == Written(t)
<1>1. /\ Sound(t) /\ t.req \in Request /\ t.view \in Seq(Row)
      /\ Placing(t) => t.position \in Int
      /\ items \in Seq(Row) /\ logged \in Seq(Row) /\ Len(logged) = Len(items)
      /\ DOMAIN items = 1 .. Len(items) /\ Len(items) \in Nat
      /\ DOMAIN t.view \subseteq DOMAIN items
  BY ReadyFacts
<1>2. t.req.item \in DOMAIN items /\ t.row \in Row
  BY <1>1 DEF Sound
<1>3. \A k \in t.kids : k \in DOMAIN items /\ t.view[k] \in Row
  BY <1>1 DEF Sound
<1>4. Changed(t) \in Row
  BY <1>1, <1>2, ChangedRow DEF Placing
<1>5. ASSUME NEW i \in W
      PROVE  i \in DOMAIN items /\ Read(t, i) \in Row /\ New(t, i) \in Row
  BY <1>2, <1>3, <1>4, DeletedRow DEF Read, New, Written
<1>6. items' = [i \in DOMAIN items |->
                  IF i \in W THEN Columns(items[i], Read(t, i), New(t, i)) ELSE items[i]]
  BY DEF Store, Written, New
<1>7. logged' = [i \in DOMAIN items |-> IF i \in W THEN New(t, i) ELSE logged[i]]
  <2> DEFINE rows == Flushed(t)
  <2>1. DOMAIN rows = W /\ \A i \in W : rows[i] = New(t, i)
    BY DEF Flushed, Written, New
  <2>2. logged' = [i \in DOMAIN items |-> IF i \in DOMAIN rows THEN rows[i] ELSE logged[i]]
    BY DEF Store
  <2> HIDE DEF rows, W
  <2> QED BY <2>1, <2>2
<1>8. torn' = (torn \ W) \cup {i \in W : items[i] # Read(t, i)}
  <2> DEFINE rows == Flushed(t)
  <2>1. DOMAIN rows = W
    BY DEF Flushed, Written
  <2>2. torn' = {i \in torn : i \notin DOMAIN rows} \cup {i \in W : items[i] # Read(t, i)}
    BY DEF Store, Written
  <2> QED BY <2>1, <2>2
<1> HIDE DEF W
<1>9. items' \in Seq(Row) /\ Len(items') = Len(items)
  <2>1. \A i \in DOMAIN items : items[i] \in Row
    BY <1>1
  <2>2. \A i \in W : Columns(items[i], Read(t, i), New(t, i)) \in Row
    BY <1>5, <2>1, ColumnsMerge
  <2>3. items' \in [1 .. Len(items) -> Row]
    BY <1>1, <1>6, <2>1, <2>2
  <2> QED BY <1>1, <2>3, FunctionIsSeq
<1>10. logged' \in Seq(Row) /\ Len(logged') = Len(items)
  <2>1. \A i \in DOMAIN items : logged[i] \in Row
    BY <1>1
  <2>2. logged' \in [1 .. Len(items) -> Row]
    BY <1>1, <1>5, <1>7, <2>1
  <2> QED BY <1>1, <2>2, FunctionIsSeq
<1>11. \A i \in DOMAIN items \ W : items'[i] = items[i] /\ logged'[i] = logged[i]
  BY <1>6, <1>7
<1>12. \A i \in W : /\ items'[i] = Columns(items[i], Read(t, i), New(t, i))
                    /\ logged'[i] = New(t, i)
  BY <1>5, <1>6, <1>7
<1> QED BY <1>5, <1>8, <1>9, <1>10, <1>11, <1>12 DEF W

\* Only a move changes where an item stands, and only a deletion its life.
LEMMA StoreKeepsPlaces ==
  ASSUME ListInv, NEW u \in Users, tx[u].stage = "ready", ~Placing(tx[u]), Store(tx[u])
  PROVE  /\ \A i \in DOMAIN items :
               /\ items'[i].parent = items[i].parent
               /\ items'[i].position = items[i].position
               /\ items'[i].live => items[i].live
               /\ tx[u].req.kind # "delete" => items'[i].live = items[i].live
         /\ tx[u].req.kind = "delete" => \A i \in Written(tx[u]) : ~items'[i].live
<1> DEFINE t == tx[u]
<1>1. /\ Sound(t) /\ t.req \in Request /\ items \in Seq(Row)
  BY ReadyFacts
<1>2. t.req.kind # "create" /\ t.req.kind # "move"
  BY DEF Placing
<1>3. /\ \A i \in DOMAIN items \ Written(t) : items'[i] = items[i]
      /\ \A i \in Written(t) :
            /\ i \in DOMAIN items
            /\ Read(t, i) \in Row /\ New(t, i) \in Row
            /\ items'[i] = Columns(items[i], Read(t, i), New(t, i))
  BY <1>2, StoreRows
<1>4. t.row \in Row /\ t.row.live = TRUE
  BY <1>1, <1>2 DEF Sound, Row
<1>5. ASSUME NEW i \in Written(t)
      PROVE  /\ New(t, i).parent = Read(t, i).parent
             /\ New(t, i).position = Read(t, i).position
             /\ New(t, i).live = IF t.req.kind = "delete" THEN FALSE ELSE Read(t, i).live
             /\ Read(t, i).live = TRUE
  <2>1. CASE i = t.req.item
    BY <1>1, <1>2, <1>4, <2>1, ChangedRow DEF New, Read
  <2>2. CASE i # t.req.item
    <3>1. /\ New(t, i) = Deleted(t.view[i]) /\ Read(t, i) = t.view[i]
          /\ t.req.kind = "delete" /\ i \in t.kids
      BY <1>1, <2>2 DEF New, Read, Written, Sound
    <3>2. t.view[i] \in Row
      BY <1>3, <3>1
    <3>3. t.view[i].live = TRUE
      BY <1>1, <3>1, <3>2 DEF Sound, Row
    <3> QED BY <3>1, <3>2, <3>3, DeletedRow
  <2> QED BY <2>1, <2>2
<1>6. ASSUME NEW i \in Written(t)
      PROVE  /\ items'[i].parent = items[i].parent
             /\ items'[i].position = items[i].position
             /\ items'[i].live = IF t.req.kind = "delete" THEN FALSE ELSE items[i].live
  <2>1. items[i] \in Row
    BY <1>1, <1>3
  <2>2. \A c \in {"parent", "position", "live"} :
           items'[i][c] = IF New(t, i)[c] = Read(t, i)[c] THEN items[i][c] ELSE New(t, i)[c]
    BY <1>3, <2>1, ColumnsMerge
  <2> QED BY <2>2, <1>5
<1>7. \A i \in DOMAIN items : items[i].live \in BOOLEAN
  BY <1>1, RowsTyped DEF Row
<1> HIDE DEF t
<1>8. ASSUME NEW i \in DOMAIN items
      PROVE  /\ items'[i].parent = items[i].parent
             /\ items'[i].position = items[i].position
             /\ items'[i].live => items[i].live
             /\ t.req.kind # "delete" => items'[i].live = items[i].live
  BY <1>3, <1>6, <1>7
<1> QED BY <1>6, <1>8 DEF t

\* A move writes one row; the parent and the position it writes are those asked
\* for when the row is as it was read.
LEMMA MoveMoves ==
  ASSUME ListInv, NEW u \in Users, tx[u].stage = "ready", tx[u].req.kind = "move",
         Store(tx[u])
  PROVE  LET m == tx[u].req.item IN
         /\ m \in DOMAIN items
         /\ \A i \in DOMAIN items : i # m => items'[i] = items[i]
         /\ items'[m].live = items[m].live
         /\ items'[m].parent = IF tx[u].req.parent = tx[u].row.parent
                               THEN items[m].parent ELSE tx[u].req.parent
         /\ items[m] = tx[u].row => /\ items'[m].parent = tx[u].req.parent
                                    /\ items'[m].position = tx[u].position
<1> DEFINE t == tx[u]
           m == t.req.item
<1>1. /\ Sound(t) /\ t.req \in Request /\ items \in Seq(Row) /\ Placing(t)
      /\ t.position \in Int
  BY ReadyFacts DEF Placing
<1>2. Written(t) = {m} /\ t.row \in Row
  BY <1>1 DEF Sound, Written
<1>3. /\ \A i \in DOMAIN items \ Written(t) : items'[i] = items[i]
      /\ m \in DOMAIN items /\ Read(t, m) = t.row /\ New(t, m) = Changed(t)
      /\ Changed(t) \in Row
      /\ items'[m] = Columns(items[m], t.row, Changed(t))
  BY <1>2, StoreRows DEF Read, New
<1>4. /\ Changed(t).parent = t.req.parent /\ Changed(t).position = t.position
      /\ Changed(t).live = t.row.live
  BY <1>1, <1>2, ChangedRow
<1>5. \A c \in {"parent", "position", "live"} :
         items'[m][c] = IF Changed(t)[c] = t.row[c] THEN items[m][c] ELSE Changed(t)[c]
  BY <1>1, <1>2, <1>3, ColumnsMerge
<1>6. items[m] = t.row => items'[m] = Changed(t)
  BY <1>2, <1>3, ColumnsWrite
<1> HIDE DEF t, m
<1>7. /\ \A i \in DOMAIN items : i # m => items'[i] = items[i]
      /\ items'[m].live = items[m].live
      /\ items'[m].parent = IF t.req.parent = t.row.parent THEN items[m].parent
                            ELSE t.req.parent
  BY <1>2, <1>3, <1>4, <1>5
<1>8. items[m] = t.row => items'[m].parent = t.req.parent /\ items'[m].position = t.position
  BY <1>4, <1>6
<1> QED BY <1>3, <1>7, <1>8 DEF t, m

\* A creation adds a row.
LEMMA InsertAdds ==
  ASSUME ListInv, NEW u \in Users, tx[u].stage = "ready", tx[u].req.kind = "create",
         Insert(tx[u])
  PROVE  LET n == Len(items) + 1
             row == Item(tx[u].req.parent, tx[u].position) IN
         /\ row \in Row /\ row.live /\ row.parent = tx[u].req.parent
         /\ row.position = tx[u].position
         /\ items' \in Seq(Row) /\ Len(items') = n /\ DOMAIN items' = 1 .. n
         /\ logged' \in Seq(Row) /\ Len(logged') = n
         /\ items'[n] = row /\ logged'[n] = row
         /\ \A i \in DOMAIN items : i # n /\ items'[i] = items[i] /\ logged'[i] = logged[i]
         /\ torn' = torn
<1> DEFINE t == tx[u]
           n == Len(items) + 1
           row == Item(t.req.parent, t.position)
<1>1. /\ t.req.parent \in Nat /\ t.position \in Int
      /\ items \in Seq(Row) /\ logged \in Seq(Row) /\ Len(logged) = Len(items)
      /\ DOMAIN items = 1 .. Len(items) /\ Len(items) \in Nat
  BY ReadyFacts DEF Placing
<1>2. /\ row \in Row /\ row.live /\ row.parent = t.req.parent /\ row.position = t.position
  BY <1>1 DEF Item, Row
<1>3. items' = Append(items, row) /\ logged' = Append(logged, row) /\ torn' = torn
  BY DEF Insert
<1> HIDE DEF t, row
<1>4. /\ items' \in Seq(Row) /\ Len(items') = n /\ DOMAIN items' = 1 .. n
      /\ logged' \in Seq(Row) /\ Len(logged') = n
      /\ items'[n] = row /\ logged'[n] = row
  BY <1>1, <1>2, <1>3
<1>5. \A i \in DOMAIN items : i # n /\ items'[i] = items[i] /\ logged'[i] = logged[i]
  BY <1>1, <1>2, <1>3
<1> QED BY <1>2, <1>3, <1>4, <1>5 DEF t, row

\* The placed item of a request, unless it is displaced or cramped: its siblings
\* are those that were read, and none of them has its position.
LEMMA PlacedApart ==
  ASSUME ListInv, NEW u \in Users, tx[u].stage = "ready", Placing(tx[u]),
         NEW n, Placed(tx[u], n), n \notin displaced' \cup cramped'
  PROVE  /\ Siblings(tx[u].req.parent) = tx[u].place
         /\ tx[u].req.kind = "move" => items[n] = tx[u].row
         /\ \A s \in tx[u].place : s[1] # n /\ s[1] # Subject(tx[u].req)
                                   => s[2] # tx[u].position
<1> DEFINE t == tx[u]
<1>1. /\ WellPlaced(t) /\ t.position \in Int /\ t.place \in SUBSET (Index \X Int)
      /\ t.req.near \in Near
  BY ReadyFacts
<1>2. /\ Siblings(t.req.parent) = t.place
      /\ t.req.kind = "move" => items[n] = t.row
  BY DEF Placed
<1>3. ~(t.req.near.side # "end" /\ \E s \in t.place : s[1] # n /\ s[2] = t.position)
  BY DEF Placed
<1>4. CASE t.req.near.side = "end"
  <2>1. \A s \in t.place : s[1] # Subject(t.req) => s[2] < t.position
    BY <1>1, <1>4 DEF WellPlaced
  <2>2. \A s \in t.place : s[2] \in Int
    BY <1>1
  <2> QED BY <1>1, <1>2, <2>1, <2>2
<1>5. CASE t.req.near.side # "end"
  BY <1>2, <1>3, <1>5
<1> QED BY <1>4, <1>5

LEMMA OthersKept ==
  ASSUME ListInv, NEW u \in Users, tx' = [tx EXCEPT ![u] = NoTx],
         Len(items) \in Nat, Len(items') \in Nat, Len(items) <= Len(items')
  PROVE  /\ tx' \in [Users -> {NoTx} \cup Open \cup Positioned]
         /\ \A v \in Users : tx'[v] # NoTx => Sound(tx[v])' /\ Checked(tx[v])'
         /\ \A v \in Users :
               tx'[v].stage = "ready" /\ Placing(tx[v])' => WellPlaced(tx[v])'
<1>1. tx' \in [Users -> {NoTx} \cup Open \cup Positioned]
  BY DEF ListInv, Typed
<1>2. \A v \in Users : tx'[v] = IF v = u THEN NoTx ELSE tx[v]
  BY DEF ListInv, Typed
<1>3. ASSUME NEW v \in Users, tx'[v] # NoTx
      PROVE  Sound(tx[v])' /\ Checked(tx[v])'
  <2>1. tx'[v] = tx[v] /\ Sound(tx[v]) /\ Checked(tx[v])
    BY <1>2, <1>3 DEF ListInv
  <2>2. Len(tx[v].view) \in Nat
    <3>1. tx[v] \in Open \/ tx[v] \in Positioned
      BY <1>3, <2>1, InFlight DEF ListInv
    <3>2. tx[v].view \in Seq(Row)
      BY <3>1 DEF Open, Positioned
    <3> QED BY <3>2
  <2>3. Len(tx[v].view) <= Len(items')
    BY <2>1, <2>2 DEF Sound
  <2>4. Sound(tx[v])'
    BY <2>1, <2>3 DEF Sound, Placing
  <2>5. Checked(tx[v])'
    BY <2>1 DEF Checked, Placing, Children
  <2> QED BY <2>4, <2>5
<1>4. ASSUME NEW v \in Users, tx'[v].stage = "ready", Placing(tx[v])'
      PROVE  WellPlaced(tx[v])'
  <2>1. tx'[v] = tx[v] /\ WellPlaced(tx[v])
    BY <1>2, <1>4 DEF ListInv, Placing, NoTx
  <2> QED BY <2>1 DEF WellPlaced, Subject
<1> QED BY <1>1, <1>3, <1>4

LEMMA CommitStoreTyped ==
  ASSUME ListInv, NEW u \in Users, Commit(u), tx[u].req.kind # "create"
  PROVE  Typed' /\ LogIsCurrent'
<1> DEFINE t == tx[u]
<1>1. t.stage = "ready" /\ Store(t) /\ tx' = [tx EXCEPT ![u] = NoTx]
  BY DEF Commit
<1>2. /\ items \in Seq(Row) /\ Len(items) \in Nat /\ DOMAIN items = 1 .. Len(items)
      /\ Placing(t) => t.req.parent \in Nat /\ t.req.parent <= Len(items)
      /\ \A i \in DOMAIN items : items[i].parent <= Len(items)
  BY <1>1, ReadyFacts DEF ListInv, Typed
<1>3. /\ items' \in Seq(Row) /\ Len(items') = Len(items)
      /\ logged' \in Seq(Row) /\ Len(logged') = Len(items)
      /\ \A i \in DOMAIN items \ Written(t) : items'[i] = items[i] /\ logged'[i] = logged[i]
      /\ \A i \in Written(t) :
            /\ i \in DOMAIN items
            /\ Read(t, i) \in Row /\ New(t, i) \in Row
            /\ items'[i] = Columns(items[i], Read(t, i), New(t, i))
            /\ logged'[i] = New(t, i)
      /\ torn' = (torn \ Written(t)) \cup {i \in Written(t) : items[i] # Read(t, i)}
  BY <1>1, StoreRows
<1>4. DOMAIN items' = DOMAIN items
  BY <1>2, <1>3
<1>5. tx' \in [Users -> {NoTx} \cup Open \cup Positioned]
  <2>1. Len(items') \in Nat /\ Len(items) <= Len(items')
    BY <1>2, <1>3
  <2> QED BY <1>1, <1>2, <2>1, OthersKept
<1>6. ASSUME NEW i \in DOMAIN items PROVE items'[i].parent <= Len(items)
  <2>1. CASE t.req.kind = "move"
    <3>1. items'[i].parent = items[i].parent \/ items'[i].parent = t.req.parent
      BY <1>1, <2>1, MoveMoves
    <3> QED BY <1>2, <2>1, <3>1 DEF Placing
  <2>2. CASE t.req.kind # "move"
    <3>1. items'[i].parent = items[i].parent
      BY <1>1, <2>2, StoreKeepsPlaces DEF Placing
    <3> QED BY <1>2, <3>1
  <2> QED BY <2>1, <2>2
<1>7. Typed'
  BY <1>3, <1>4, <1>5, <1>6 DEF Typed
<1>8. ASSUME NEW i \in DOMAIN items, i \notin torn'
      PROVE  logged'[i] = items'[i]
  <2>1. CASE i \in Written(t)
    <3>1. items[i] = Read(t, i)
      BY <1>3, <1>8, <2>1
    <3> QED BY <1>3, <2>1, <3>1, ColumnsWrite
  <2>2. CASE i \notin Written(t)
    BY <1>3, <1>8, <2>2 DEF ListInv, LogIsCurrent
  <2> QED BY <2>1, <2>2
<1> QED BY <1>4, <1>7, <1>8 DEF LogIsCurrent

LEMMA CommitInsertTyped ==
  ASSUME ListInv, NEW u \in Users, Commit(u), tx[u].req.kind = "create"
  PROVE  Typed' /\ LogIsCurrent'
<1> DEFINE t == tx[u]
           n == Len(items) + 1
           row == Item(t.req.parent, t.position)
<1>1. t.stage = "ready" /\ Insert(t) /\ tx' = [tx EXCEPT ![u] = NoTx]
  BY DEF Commit
<1>2. /\ items \in Seq(Row) /\ Len(items) \in Nat /\ DOMAIN items = 1 .. Len(items)
      /\ t.req.parent \in Nat /\ t.req.parent <= Len(items)
      /\ \A i \in DOMAIN items : items[i].parent <= Len(items) /\ items[i].parent \in Nat
  BY <1>1, ReadyFacts, RowsTyped DEF ListInv, Typed, Placing
<1>3. /\ row \in Row /\ row.parent = t.req.parent
      /\ items' \in Seq(Row) /\ Len(items') = n /\ DOMAIN items' = 1 .. n
      /\ logged' \in Seq(Row) /\ Len(logged') = n
      /\ items'[n] = row /\ logged'[n] = row
      /\ \A i \in DOMAIN items : i # n /\ items'[i] = items[i] /\ logged'[i] = logged[i]
      /\ torn' = torn
  BY <1>1, InsertAdds
<1> HIDE DEF row
<1>4. \A i \in DOMAIN items' : i = n \/ i \in DOMAIN items
  BY <1>2, <1>3
<1>5. tx' \in [Users -> {NoTx} \cup Open \cup Positioned]
  <2>1. Len(items') \in Nat /\ Len(items) <= Len(items')
    BY <1>2, <1>3
  <2> QED BY <1>1, <1>2, <2>1, OthersKept
<1>6. \A i \in DOMAIN items' : items'[i].parent <= n
  BY <1>2, <1>3, <1>4
<1>7. Typed'
  BY <1>3, <1>5, <1>6 DEF Typed
<1>8. ASSUME NEW i \in DOMAIN items', i \notin torn'
      PROVE  logged'[i] = items'[i]
  BY <1>3, <1>4, <1>8 DEF ListInv, LogIsCurrent
<1> QED BY <1>7, <1>8 DEF LogIsCurrent

\* Siblings that share a position, of which the item n is one, if they did not
\* before: n was placed where that may happen.
LEMMA StoreApart ==
  ASSUME ListInv, NEW u \in Users, Commit(u), tx[u].req.kind # "create"
  PROVE  SiblingsApart'
<1> DEFINE t == tx[u]
           m == t.req.item
<1>1. t.stage = "ready" /\ Store(t)
  BY DEF Commit
<1>2. items \in Seq(Row) /\ items' \in Seq(Row) /\ DOMAIN items' = DOMAIN items
  <2>1. items \in Seq(Row)
    BY <1>1, ReadyFacts
  <2>2. items' \in Seq(Row) /\ Len(items') = Len(items)
    BY <1>1, StoreRows
  <2> QED BY <2>1, <2>2
<1>3. CASE t.req.kind # "move"
  <2>1. /\ ~Placing(t) /\ UNCHANGED <<displaced, cramped>>
    BY <1>3 DEF Commit, Placing
  <2>2. \A i \in DOMAIN items : /\ items'[i].parent = items[i].parent
                                /\ items'[i].position = items[i].position
                                /\ items'[i].live => items[i].live
    BY <1>1, <2>1, StoreKeepsPlaces
  <2> QED BY <1>2, <2>1, <2>2 DEF ListInv, SiblingsApart
<1>4. CASE t.req.kind = "move"
  <2>1. Placing(t) /\ Placed(t, m) /\ displaced \subseteq displaced' /\ cramped \subseteq cramped'
    BY <1>4 DEF Commit, Placing, Placed
  <2>2. /\ m \in DOMAIN items
        /\ \A i \in DOMAIN items : i # m => items'[i] = items[i]
        /\ items[m] = t.row => /\ items'[m].parent = t.req.parent
                               /\ items'[m].position = t.position
    BY <1>1, <1>4, MoveMoves
  <2>3. Subject(t.req) = m
    BY <1>4 DEF Subject
  <2> HIDE DEF m
  <2>4. ASSUME NEW j \in DOMAIN items', j # m, items'[j].live,
               items'[j].parent = items'[m].parent,
               items'[j].position = items'[m].position
        PROVE  m \in displaced' \cup cramped'
    <3>1. SUFFICES ASSUME m \notin displaced' \cup cramped' PROVE FALSE
      OBVIOUS
    <3>2. /\ Siblings(t.req.parent) = t.place /\ items[m] = t.row
          /\ \A s \in t.place : s[1] # m /\ s[1] # Subject(t.req) => s[2] # t.position
      BY <1>1, <1>4, <2>1, <3>1, PlacedApart
    <3>3. items[j].live /\ items[j].parent = t.req.parent /\ items[j].position = t.position
      BY <1>2, <2>2, <2>4, <3>2
    <3>4. <<j, items[j].position>> \in Siblings(t.req.parent)
      BY <1>2, <2>4, <3>3 DEF Siblings, Scope
    <3> QED BY <2>3, <2>4, <3>2, <3>3, <3>4
  <2>5. ASSUME NEW i \in DOMAIN items', NEW j \in DOMAIN items',
               i # j, items'[i].live, items'[j].live, items'[i].parent = items'[j].parent,
               items'[i].position = items'[j].position
        PROVE  {i, j} \cap (displaced' \cup cramped') # {}
    <3>1. CASE i = m
      BY <2>4, <2>5, <3>1
    <3>2. CASE j = m
      BY <2>4, <2>5, <3>2
    <3>3. CASE i # m /\ j # m
      <4>1. items'[i] = items[i] /\ items'[j] = items[j]
        BY <1>2, <2>2, <3>3
      <4>2. {i, j} \cap (displaced \cup cramped) # {}
        BY <1>2, <2>5, <4>1 DEF ListInv, SiblingsApart
      <4> QED BY <2>1, <4>2
    <3> QED BY <3>1, <3>2, <3>3
  <2> QED BY <2>5 DEF SiblingsApart
<1> QED BY <1>3, <1>4

LEMMA InsertApart ==
  ASSUME ListInv, NEW u \in Users, Commit(u), tx[u].req.kind = "create"
  PROVE  SiblingsApart'
<1> DEFINE t == tx[u]
           n == Len(items) + 1
<1>1. t.stage = "ready" /\ Insert(t)
  BY DEF Commit
<1>2. Placing(t) /\ Placed(t, n) /\ displaced \subseteq displaced' /\ cramped \subseteq cramped'
  BY DEF Commit, Placing, Placed
<1>3. items \in Seq(Row) /\ DOMAIN items = 1 .. Len(items) /\ Len(items) \in Nat
  BY <1>1, ReadyFacts
<1>4. /\ items'[n].parent = t.req.parent /\ items'[n].position = t.position
      /\ DOMAIN items' = 1 .. n
      /\ \A i \in DOMAIN items : i # n /\ items'[i] = items[i]
  BY <1>1, InsertAdds
<1>5. \A i \in DOMAIN items' : i # n => i \in DOMAIN items
  BY <1>3, <1>4
<1> HIDE DEF n
<1>6. ASSUME NEW j \in DOMAIN items', j # n, items'[j].live,
             items'[j].parent = items'[n].parent,
             items'[j].position = items'[n].position
      PROVE  n \in displaced' \cup cramped'
  <2>1. SUFFICES ASSUME n \notin displaced' \cup cramped' PROVE FALSE
    OBVIOUS
  <2>2. /\ Siblings(t.req.parent) = t.place
        /\ \A s \in t.place : s[1] # n /\ s[1] # Subject(t.req) => s[2] # t.position
    BY <1>1, <1>2, <2>1, PlacedApart
  <2>3. /\ j \in DOMAIN items /\ items[j].live /\ items[j].parent = t.req.parent
        /\ items[j].position = t.position
    BY <1>4, <1>5, <1>6
  <2>4. <<j, items[j].position>> \in Siblings(t.req.parent)
    BY <2>3 DEF Siblings, Scope
  <2>5. Subject(t.req) = 0 /\ j # 0
    BY <1>3, <2>3 DEF Subject
  <2> QED BY <1>6, <2>2, <2>3, <2>4, <2>5
<1>7. ASSUME NEW i \in DOMAIN items', NEW j \in DOMAIN items',
             i # j, items'[i].live, items'[j].live, items'[i].parent = items'[j].parent,
             items'[i].position = items'[j].position
      PROVE  {i, j} \cap (displaced' \cup cramped') # {}
  <2>1. CASE i = n
    BY <1>6, <1>7, <2>1
  <2>2. CASE j = n
    BY <1>6, <1>7, <2>2
  <2>3. CASE i # n /\ j # n
    <3>1. /\ i \in DOMAIN items /\ j \in DOMAIN items
          /\ items'[i] = items[i] /\ items'[j] = items[j]
      BY <1>4, <1>5, <2>3
    <3>2. {i, j} \cap (displaced \cup cramped) # {}
      BY <1>7, <3>1 DEF ListInv, SiblingsApart
    <3> QED BY <1>2, <3>2
  <2> QED BY <2>1, <2>2, <2>3
<1> QED BY <1>7 DEF SiblingsApart

LEMMA CommitKeeps ==
  ASSUME ListInv, NEW u \in Users, Commit(u)
  PROVE  ListInv'
<1>1. Typed' /\ LogIsCurrent'
  BY CommitStoreTyped, CommitInsertTyped
<1>2. SiblingsApart'
  BY StoreApart, InsertApart
<1>3. Len(items) \in Nat /\ Len(items') \in Nat /\ Len(items) <= Len(items')
  <2>1. tx[u].stage = "ready" /\ (tx[u].req.kind = "create" => Insert(tx[u]))
        /\ (tx[u].req.kind # "create" => Store(tx[u]))
    BY DEF Commit
  <2>2. Len(items) \in Nat
    BY <2>1, ReadyFacts
  <2>3. CASE tx[u].req.kind = "create"
    BY <2>1, <2>2, <2>3, InsertAdds
  <2>4. CASE tx[u].req.kind # "create"
    BY <2>1, <2>2, <2>4, StoreRows
  <2> QED BY <2>2, <2>3, <2>4
<1>4. tx' = [tx EXCEPT ![u] = NoTx]
  BY DEF Commit
<1>5. /\ \A v \in Users : tx'[v] # NoTx => Sound(tx[v])' /\ Checked(tx[v])'
      /\ \A v \in Users :
            tx'[v].stage = "ready" /\ Placing(tx[v])' => WellPlaced(tx[v])'
  BY <1>3, <1>4, OthersKept
<1> QED BY <1>1, <1>2, <1>5 DEF ListInv

LEMMA StepInv == ListInv /\ [Next]_vars => ListInv'
<1> SUFFICES ASSUME ListInv, [Next]_vars PROVE ListInv'
  OBVIOUS
<1>1. ASSUME NEW u \in Users, Begin(u) PROVE ListInv'
  BY <1>1, BeginKeeps
<1>2. ASSUME NEW u \in Users, ReadFamily(u) PROVE ListInv'
  BY <1>2, ReadFamilyKeeps
<1>3. ASSUME NEW u \in Users, Place(u) PROVE ListInv'
  BY <1>3, PlaceKeeps
<1>4. ASSUME NEW u \in Users, Commit(u) PROVE ListInv'
  BY <1>4, CommitKeeps
<1>5. ASSUME NEW u \in Users, Fail(u) PROVE ListInv'
  BY <1>5, FailKeeps
<1>6. CASE UNCHANGED vars
  <2>1. UNCHANGED <<items, logged, tx, torn, displaced, cramped>>
    BY <1>6 DEF vars, history
  <2>2. Typed' /\ SiblingsApart' /\ LogIsCurrent'
    BY <2>1 DEF ListInv, Typed, SiblingsApart, LogIsCurrent
  <2>3. ASSUME NEW u \in Users, tx'[u] # NoTx PROVE Sound(tx[u])' /\ Checked(tx[u])'
    <3>1. Sound(tx[u]) /\ Checked(tx[u])
      BY <2>1, <2>3 DEF ListInv
    <3> QED BY <2>1, <3>1 DEF Sound, Checked, Placing, Children
  <2>4. ASSUME NEW u \in Users, tx'[u].stage = "ready", Placing(tx[u])'
        PROVE  WellPlaced(tx[u])'
    <3>1. WellPlaced(tx[u])
      BY <2>1, <2>4 DEF ListInv, Placing
    <3> QED BY <2>1, <3>1 DEF WellPlaced, Subject
  <2> QED BY <2>2, <2>3, <2>4 DEF ListInv
<1> QED BY <1>1, <1>2, <1>3, <1>4, <1>5, <1>6 DEF Next

LEMMA InvHolds == Spec => []ListInv
<1> QED BY WatchInitInv, StepInv, PTL DEF Spec

\* Two siblings share a position only when one of them was placed among
\* siblings that had changed since they were read, or where no number was left
\* (watchlist.py computes the position from rows it read before the write).
THEOREM PositionsAreApart == Spec => []SiblingsApart
<1>1. ListInv => SiblingsApart
  BY DEF ListInv
<1> QED BY <1>1, InvHolds, PTL

\* The last change logged of an item is its row, unless a write met a row that
\* had changed since it was read (record_watchlist_change logs every row of a
\* cascade).
THEOREM LogAgrees == Spec => []LogIsCurrent
<1>1. ListInv => LogIsCurrent
  BY DEF ListInv
<1> QED BY <1>1, InvHolds, PTL

-----------------------------------------------------------------------------
(* What a step may not do *)

\* A step that changes the list is the commit of a request.
LEMMA OnlyCommits ==
  ASSUME ListInv, [Next]_vars, items' # items
  PROVE  \E u \in Users : Commit(u)
BY DEF Next, Begin, ReadFamily, Place, Fail, vars

\* The rows that a request writes or nests under are as it has read them.
LEMMA SameFamily ==
  ASSUME NEW t, ~Underfoot(t), NEW k \in DOMAIN t.view, k # 0,
         \/ k = Subject(t.req) \/ k \in t.kids
         \/ t.req.kind # "delete" /\ k = t.req.parent
  PROVE  /\ items[k].live = t.view[k].live /\ items[k].parent = t.view[k].parent
         /\ Children(items, k) = Children(t.view, k)
<1>1. Family(items, k) = Family(t.view, k)
  BY DEF Underfoot
<1> QED BY <1>1 DEF Family, Children

LEMMA CreateKeepsTree ==
  ASSUME ListInv, NEW u \in Users, Commit(u), tx[u].req.kind = "create",
         Shown(items), ~Underfoot(tx[u])
  PROVE  Shown(items')
<1> DEFINE t == tx[u]
           n == Len(items) + 1
           p == t.req.parent
<1>1. t.stage = "ready" /\ Insert(t) /\ Placing(t)
  BY DEF Commit, Placing
<1>2. /\ items \in Seq(Row) /\ DOMAIN items = 1 .. Len(items) /\ Len(items) \in Nat
      /\ p \in Nat /\ Sound(t) /\ Checked(t)
      /\ t.view \in Seq(Row) /\ DOMAIN t.view \subseteq DOMAIN items
  BY <1>1, ReadyFacts
<1>3. /\ items'[n].parent = p
      /\ DOMAIN items' = 1 .. n
      /\ \A i \in DOMAIN items : i # n /\ items'[i] = items[i]
  BY <1>1, InsertAdds
<1>4. ASSUME NEW i \in DOMAIN items', items'[i].live, items'[i].parent # Root
      PROVE  items'[items'[i].parent].live /\ items'[items'[i].parent].parent = Root
  <2>1. CASE i = n
    <3>1. p \in DOMAIN t.view
      BY <1>1, <1>2, <1>3, <1>4, <2>1 DEF Sound, Root
    <3>2. t.view[p].live /\ t.view[p].parent = Root
      BY <1>1, <1>2, <1>3, <1>4, <2>1 DEF Checked
    <3>3. p # 0 /\ t.req.kind # "delete"
      BY <1>3, <1>4, <2>1 DEF Root
    <3>4. items[p].live /\ items[p].parent = Root
      BY <3>1, <3>2, <3>3, SameFamily
    <3> QED BY <1>2, <1>3, <2>1, <3>1, <3>4
  <2>2. CASE i # n
    <3>1. i \in DOMAIN items /\ items'[i] = items[i]
      BY <1>2, <1>3, <2>2
    <3>2. items[i].parent \in DOMAIN items
      <4>1. items[i].parent \in Nat /\ items[i].parent <= Len(items)
        BY <1>2, <3>1, RowsTyped DEF ListInv, Typed
      <4> QED BY <1>2, <1>4, <3>1, <4>1 DEF Root
    <3> QED BY <1>3, <1>4, <3>1, <3>2 DEF Shown
  <2> QED BY <2>1, <2>2
<1> QED BY <1>4 DEF Shown

\* The parent of a live child is in the list.
LEMMA ParentsListed ==
  ASSUME ListInv, NEW i \in DOMAIN items, items[i].parent # Root
  PROVE  items[i].parent \in DOMAIN items
<1>1. items \in Seq(Row) /\ DOMAIN items = 1 .. Len(items)
  BY DEF ListInv, Typed
<1>2. items[i].parent \in Nat /\ items[i].parent <= Len(items)
  BY <1>1, RowsTyped DEF ListInv, Typed
<1> QED BY <1>1, <1>2 DEF Root

LEMMA MoveKeepsTree ==
  ASSUME ListInv, NEW u \in Users, Commit(u), tx[u].req.kind = "move",
         Shown(items), ~Underfoot(tx[u])
  PROVE  Shown(items')
<1> DEFINE t == tx[u]
           m == t.req.item
           p == t.req.parent
<1>1. t.stage = "ready" /\ Store(t) /\ Placing(t)
  BY DEF Commit, Placing
<1>2. /\ items \in Seq(Row) /\ DOMAIN items = 1 .. Len(items) /\ Len(items) \in Nat
      /\ p \in Nat /\ Sound(t) /\ Checked(t)
      /\ t.view \in Seq(Row) /\ DOMAIN t.view \subseteq DOMAIN items
      /\ DOMAIN items' = DOMAIN items
  <2>1. Len(items') = Len(items) /\ items' \in Seq(Row)
    BY <1>1, StoreRows
  <2> QED BY <1>1, <2>1, ReadyFacts
<1>3. /\ m \in DOMAIN items
      /\ \A i \in DOMAIN items : i # m => items'[i] = items[i]
      /\ items'[m].live = items[m].live
      /\ items'[m].parent = items[m].parent \/ items'[m].parent = p
  BY <1>1, MoveMoves
<1>4. m \in DOMAIN t.view /\ m # 0 /\ m = Subject(t.req)
  BY <1>2 DEF Sound, Subject
<1>5. CASE items'[m].parent = items[m].parent
  <2>1. \A i \in DOMAIN items : items'[i].live = items[i].live
                                /\ items'[i].parent = items[i].parent
    BY <1>3, <1>5
  <2> QED BY <1>2, <2>1, ParentsListed DEF Shown
<1>6. CASE items'[m].parent # items[m].parent /\ p = Root
  <2>1. items'[m].parent = Root
    BY <1>3, <1>6
  <2>2. ASSUME NEW i \in DOMAIN items, items'[i].live, items'[i].parent # Root
        PROVE  items'[items'[i].parent].live /\ items'[items'[i].parent].parent = Root
    <3>1. i # m /\ items'[i] = items[i]
      BY <1>3, <2>1, <2>2
    <3>2. items[i].parent \in DOMAIN items
      BY <2>2, <3>1, ParentsListed
    <3>3. items[items[i].parent].live /\ items[items[i].parent].parent = Root
      BY <2>2, <3>1 DEF Shown
    <3> QED BY <1>3, <2>1, <3>1, <3>2, <3>3
  <2> QED BY <1>2, <2>2 DEF Shown
<1>7. CASE items'[m].parent # items[m].parent /\ p # Root
  <2>1. p \in DOMAIN t.view /\ p # 0
    BY <1>1, <1>2, <1>7 DEF Sound, Root
  <2>2. /\ t.view[p].live /\ t.view[p].parent = Root /\ p # m
        /\ Children(t.view, m) = {}
    BY <1>1, <1>2, <1>7 DEF Checked
  <2>3. items[p].live /\ items[p].parent = Root
    BY <2>1, <2>2, SameFamily
  <2>4. Children(items, m) = {}
    BY <1>4, <2>2, SameFamily
  <2>5. ASSUME NEW i \in DOMAIN items, items'[i].live, items'[i].parent # Root
        PROVE  items'[items'[i].parent].live /\ items'[items'[i].parent].parent = Root
    <3>1. CASE i = m
      BY <1>2, <1>3, <1>7, <2>1, <2>2, <2>3, <3>1
    <3>2. CASE i # m
      <4>1. items'[i] = items[i] /\ items[i].parent \in DOMAIN items
        BY <1>3, <2>5, <3>2, ParentsListed
      <4>2. items[i].parent # m
        BY <2>4, <2>5, <4>1 DEF Children
      <4> QED BY <1>3, <2>5, <4>1, <4>2 DEF Shown
    <3> QED BY <3>1, <3>2
  <2> QED BY <1>2, <2>5 DEF Shown
<1> QED BY <1>5, <1>6, <1>7

LEMMA DeleteKeepsTree ==
  ASSUME ListInv, NEW u \in Users, Commit(u), tx[u].req.kind = "delete",
         Shown(items), ~Underfoot(tx[u])
  PROVE  Shown(items')
<1> DEFINE t == tx[u]
           d == t.req.item
<1>1. t.stage = "ready" /\ Store(t) /\ ~Placing(t)
  BY DEF Commit, Placing
<1>2. /\ items \in Seq(Row) /\ DOMAIN items = 1 .. Len(items) /\ Len(items) \in Nat
      /\ Sound(t) /\ Checked(t)
      /\ t.view \in Seq(Row) /\ DOMAIN t.view \subseteq DOMAIN items
      /\ DOMAIN items' = DOMAIN items
      /\ \A i \in DOMAIN items \ Written(t) : items'[i] = items[i]
  <2>1. Len(items') = Len(items) /\ items' \in Seq(Row)
        /\ \A i \in DOMAIN items \ Written(t) : items'[i] = items[i]
    BY <1>1, StoreRows
  <2> QED BY <1>1, <2>1, ReadyFacts
<1>3. /\ \A i \in DOMAIN items : /\ items'[i].parent = items[i].parent
                                 /\ items'[i].live => items[i].live
      /\ \A i \in Written(t) : ~items'[i].live
  BY <1>1, StoreKeepsPlaces
<1>4. d \in DOMAIN t.view /\ d # 0 /\ d = Subject(t.req)
  BY <1>2 DEF Sound, Subject
<1>5. ASSUME NEW i \in DOMAIN items, items'[i].live, items[i].parent \in Written(t)
      PROVE  FALSE
  <2>1. items[i].live /\ i \notin Written(t)
    BY <1>3, <1>5
  <2>2. items[i].parent # Root /\ items[i].parent \in DOMAIN items
    BY <1>2, <1>4, <1>5 DEF Written, Sound, Root
  <2>3. items[items[i].parent].parent = Root
    BY <2>1, <2>2 DEF Shown
  <2>4. CASE items[i].parent = d
    <3>1. items[d].parent = t.view[d].parent /\ Children(items, d) = Children(t.view, d)
      BY <1>4, SameFamily
    <3>2. t.kids = Children(items, d)
      BY <1>1, <1>2, <2>3, <2>4, <3>1 DEF Checked
    <3>3. i \in Children(items, d)
      BY <2>1, <2>4 DEF Children
    <3> QED BY <2>1, <3>2, <3>3 DEF Written
  <2>5. CASE items[i].parent # d
    <3> DEFINE k == items[i].parent
    <3>1. k \in t.kids /\ k \in DOMAIN t.view /\ k # 0
      BY <1>2, <1>5, <2>2, <2>5 DEF Written, Sound, Root
    <3>2. items[k].parent = t.view[k].parent /\ items[d].parent = t.view[d].parent
          /\ Children(items, d) = Children(t.view, d)
      BY <1>4, <3>1, SameFamily
    <3>3. CASE t.kids = {}
      BY <3>1, <3>3
    <3>4. CASE t.kids = Children(t.view, d)
      <4>1. items[k].parent = d
        BY <3>1, <3>2, <3>4 DEF Children
      <4> QED BY <1>4, <2>3, <4>1 DEF Root
    <3> QED BY <1>1, <1>2, <3>3, <3>4 DEF Checked
  <2> QED BY <2>4, <2>5
<1>6. ASSUME NEW i \in DOMAIN items, items'[i].live, items'[i].parent # Root
      PROVE  items'[items'[i].parent].live /\ items'[items'[i].parent].parent = Root
  <2>1. /\ items'[i].parent = items[i].parent /\ items[i].live
        /\ items[i].parent \in DOMAIN items /\ items[i].parent \notin Written(t)
    BY <1>3, <1>5, <1>6, ParentsListed
  <2>2. items'[items[i].parent] = items[items[i].parent]
    BY <1>2, <2>1
  <2> QED BY <1>6, <2>1, <2>2 DEF Shown
<1> QED BY <1>2, <1>6 DEF Shown

LEMMA EditKeepsTree ==
  ASSUME ListInv, NEW u \in Users, Commit(u), Shown(items),
         tx[u].req.kind \notin {"create", "move", "delete"}
  PROVE  Shown(items')
<1>1. tx[u].stage = "ready" /\ Store(tx[u]) /\ ~Placing(tx[u])
  BY DEF Commit, Placing
<1>2. DOMAIN items' = DOMAIN items
  <2>1. items \in Seq(Row)
    BY <1>1, ReadyFacts
  <2>2. Len(items') = Len(items) /\ items' \in Seq(Row)
    BY <1>1, StoreRows
  <2> QED BY <2>1, <2>2
<1>3. \A i \in DOMAIN items : /\ items'[i].parent = items[i].parent
                              /\ items'[i].live = items[i].live
  BY <1>1, StoreKeepsPlaces
<1> QED BY <1>2, <1>3, ParentsListed DEF Shown

\* The tree stays one level deep, and a deletion leaves no child behind, unless
\* somebody changed the family of one of the rows concerned between the check
\* and the commit (watchlist.py: "watchlist nests one level only").
THEOREM TreeStaysFlat == Spec => TreeKept
<1>1. ASSUME ListInv, [Next]_vars, Shown(items), ~Shown(items')
      PROVE  \E u \in Users : tx[u] # NoTx /\ tx'[u] = NoTx
                              /\ tx[u].req.kind \in {"create", "move", "delete"}
                              /\ Underfoot(tx[u])
  <2>1. PICK u \in Users : Commit(u)
    BY <1>1, OnlyCommits
  <2>2. tx[u] # NoTx /\ tx'[u] = NoTx
    BY <1>1, <2>1 DEF Commit, NoTx, ListInv, Typed
  <2>3. tx[u].req.kind \in {"create", "move", "delete"}
    BY <1>1, <2>1, EditKeepsTree
  <2>4. Underfoot(tx[u])
    BY <1>1, <2>1, <2>3, CreateKeepsTree, MoveKeepsTree, DeleteKeepsTree
  <2> QED BY <2>2, <2>3, <2>4
<1> QED BY <1>1, InvHolds, PTL DEF Spec, TreeKept

\* An item that a commit places beside its anchor, unless it is displaced,
\* cramped or the anchor itself: it is strictly on the side asked for, and no
\* sibling read stands between.
LEMMA PlacedBeside ==
  ASSUME ListInv, NEW u \in Users, tx[u].stage = "ready", Placing(tx[u]),
         tx[u].req.near.side # "end",
         NEW n, Placed(tx[u], n), n \notin displaced' \cup cramped',
         n # tx[u].req.near.anchor, n # Subject(tx[u].req) => Subject(tx[u].req) = 0,
         n \in Int
  PROVE  LET t == tx[u]
             a == items[t.req.near.anchor].position
             InGap(p) == IF t.req.near.side = "after"
                           THEN a < p /\ p <= t.position
                           ELSE t.position <= p /\ p < a
         IN  /\ \A s \in t.place : s[1] # n => ~InGap(s[2])
             /\ InGap(t.position)
<1> DEFINE t == tx[u]
           anchor == t.req.near.anchor
           a == items[anchor].position
<1>1. /\ WellPlaced(t) /\ t.position \in Int /\ t.place \in SUBSET (Index \X Int)
      /\ t.req.near \in Near
  BY ReadyFacts
<1>2. /\ Siblings(t.req.parent) = t.place
      /\ \A s \in t.place : s[1] # n /\ s[1] # Subject(t.req) => s[2] # t.position
  BY PlacedApart
<1>3. \A s \in t.place : /\ s[1] \in Nat /\ s[1] # 0 /\ s[2] \in Int
                         /\ s[1] # n => s[1] # Subject(t.req)
  BY <1>1 DEF Index
<1>4. \A at : <<anchor, at>> \in t.place => at = a
  BY <1>2 DEF Siblings
<1> HIDE DEF t, a, anchor
<1>5. CASE t.req.near.side = "after"
  <2>1. PICK at \in Int : /\ <<anchor, at>> \in t.place /\ at <= t.position
                          /\ \A s \in t.place : s[1] # Subject(t.req) =>
                                (s[2] > at => t.position <= s[2])
    BY <1>1, <1>5 DEF WellPlaced, anchor
  <2>2. at = a /\ anchor # n
    BY <1>4, <2>1 DEF anchor, t
  <2>3. at # t.position
    BY <1>2, <1>3, <2>1, <2>2
  <2>4. a < t.position
    BY <1>1, <2>1, <2>2, <2>3
  <2>5. ASSUME NEW s \in t.place, s[1] # n, a < s[2], s[2] <= t.position PROVE FALSE
    <3>1. s[2] # t.position /\ t.position <= s[2] /\ s[2] \in Int
      BY <1>2, <1>3, <2>1, <2>2, <2>5
    <3> QED BY <1>1, <2>5, <3>1
  <2> QED BY <1>1, <1>5, <2>4, <2>5 DEF t, a, anchor
<1>6. CASE t.req.near.side = "before"
  <2>1. PICK at \in Int : /\ <<anchor, at>> \in t.place /\ t.position <= at
                          /\ \A s \in t.place : s[1] # Subject(t.req) =>
                                (s[2] < at => s[2] <= t.position)
    BY <1>1, <1>6 DEF WellPlaced, anchor
  <2>2. at = a /\ anchor # n
    BY <1>4, <2>1 DEF anchor, t
  <2>3. at # t.position
    BY <1>2, <1>3, <2>1, <2>2
  <2>4. t.position < a
    BY <1>1, <2>1, <2>2, <2>3
  <2>5. ASSUME NEW s \in t.place, s[1] # n, t.position <= s[2], s[2] < a PROVE FALSE
    <3>1. s[2] # t.position /\ s[2] <= t.position /\ s[2] \in Int
      BY <1>2, <1>3, <2>1, <2>2, <2>5
    <3> QED BY <1>1, <2>5, <3>1
  <2> QED BY <1>1, <1>6, <2>4, <2>5 DEF t, a, anchor
<1> QED BY <1>1, <1>5, <1>6 DEF Near, t

\* An item put before or after an anchor, among siblings that have not changed
\* meanwhile, is its direct neighbour on that side if a number was left
\* (_compute_position: "the new position sits between the anchor and its
\* existing neighbour").
THEOREM AnchorIsHonoured == Spec => AnchorHonoured
<1>1. ASSUME ListInv, [Next]_vars
      PROVE  \A u \in Users :
        /\ tx[u].stage = "ready" /\ items' # items /\ tx'[u] = NoTx
        /\ tx[u].req.kind \in {"create", "move"} /\ tx[u].req.near.side # "end"
        => LET t == tx[u]
               i == IF t.req.kind = "create" THEN Len(items') ELSE t.req.item
               a == items[t.req.near.anchor].position
               InGap(p) == IF t.req.near.side = "after"
                             THEN a < p /\ p <= items'[i].position
                             ELSE items'[i].position <= p /\ p < a
           IN  \/ i \in displaced' \cup cramped' \/ i = t.req.near.anchor
               \/ /\ {s \in t.place : s[1] # i /\ InGap(s[2])} = {}
                  /\ InGap(items'[i].position)
  <2> TAKE u \in Users
  <2> HAVE /\ tx[u].stage = "ready" /\ items' # items /\ tx'[u] = NoTx
           /\ tx[u].req.kind \in {"create", "move"} /\ tx[u].req.near.side # "end"
  <2> DEFINE t == tx[u]
             i == IF t.req.kind = "create" THEN Len(items') ELSE t.req.item
             a == items[t.req.near.anchor].position
             InGap(p) == IF t.req.near.side = "after"
                           THEN a < p /\ p <= items'[i].position
                           ELSE items'[i].position <= p /\ p < a
  <2>1. Commit(u)
    <3>1. PICK v \in Users : Commit(v)
      BY <1>1, OnlyCommits
    <3>2. tx[u] # NoTx
      BY <1>1 DEF NoTx
    <3>3. v = u
      BY <1>1, <3>1, <3>2 DEF Commit, ListInv, Typed
    <3> QED BY <3>1, <3>3
  <2>2. /\ DOMAIN items = 1 .. Len(items) /\ Len(items) \in Nat /\ Placing(t)
        /\ t.position \in Int
    BY <1>1, ReadyFacts DEF Placing
  <2>3. SUFFICES ASSUME i \notin displaced' \cup cramped', i # t.req.near.anchor
                 PROVE  /\ {s \in t.place : s[1] # i /\ InGap(s[2])} = {}
                        /\ InGap(items'[i].position)
    OBVIOUS
  <2>4. /\ Placed(t, i) /\ i \in Int /\ (i # Subject(t.req) => Subject(t.req) = 0)
        /\ items'[i].position = t.position
    <3>1. CASE t.req.kind = "create"
      <4>1. Insert(t) /\ Placed(t, Len(items) + 1)
        BY <2>1, <3>1 DEF Commit
      <4>2. Len(items') = Len(items) + 1
            /\ items'[Len(items) + 1].position = t.position
        BY <1>1, <3>1, <4>1, InsertAdds
      <4> QED BY <2>2, <3>1, <4>1, <4>2 DEF Subject
    <3>2. CASE t.req.kind = "move"
      <4>1. Store(t) /\ Placed(t, t.req.item) /\ i = t.req.item
        BY <2>1, <3>2 DEF Commit
      <4>2. items[t.req.item] = t.row
        BY <1>1, <2>2, <2>3, <3>2, <4>1, PlacedApart
      <4>3. items'[t.req.item].position = t.position /\ t.req.item \in DOMAIN items
        BY <1>1, <3>2, <4>1, <4>2, MoveMoves
      <4> QED BY <2>2, <3>2, <4>1, <4>3 DEF Subject
    <3> QED BY <1>1, <3>1, <3>2
  <2> HIDE DEF i
  <2>5. LET B(p) == IF t.req.near.side = "after"
                    THEN a < p /\ p <= t.position
                    ELSE t.position <= p /\ p < a
        IN  /\ \A s \in t.place : s[1] # i => ~B(s[2])
            /\ B(t.position)
    BY <1>1, <2>2, <2>3, <2>4, PlacedBeside
  <2>6. (\A s \in t.place : s[1] # i => ~InGap(s[2])) /\ InGap(items'[i].position)
    BY <2>4, <2>5
  <2> QED BY <2>6
<1> QED BY <1>1, InvHolds, PTL DEF Spec, AnchorHonoured

Feeds == (UNION {w.calendars : w \in Worlds}) \cup {Garbage, {}}
Copies == {NotCached} \cup [feed : Feeds, age : 0 .. Ttl + 1]
Asked == [pc : {"idle", "sent", "served"}, cached : Copies, got : Feeds, late : BOOLEAN]
RunFields == {"pc", "mode", "plan", "booked", "blocked", "settled", "stale",
              "subject", "ok"}

PlannerTyped ==
    /\ world \in Worlds /\ calendar \in world.calendars
    /\ IsFiniteSet(booked) /\ booked \subseteq world.bookings \cup UNION world.starts
    /\ present \in [Items -> 0 .. Ttl + 1]
    /\ cache \in Copies
    /\ req \in [{Agent, Spa} -> Asked]
    /\ DOMAIN run = RunFields

\* What a copy lacks has not been in the calendar for longer than this.
Lacks(feed, since) == feed # Garbage => \A i \in calendar \ feed : present[i] <= since

CopyOK == cache # NotCached => Lacks(cache.feed, cache.age + 1)
AskedOK ==
    \A c \in {Agent, Spa} :
        req[c].pc = "served" => Lacks(req[c].got, IF req[c].late THEN 1 ELSE 0)

\* The agent asks once in a run, and judges when it has the answer.
WaitsOK ==
    /\ req[Agent].pc # "idle" => run.pc = "calendar"
    /\ run.pc # "judge" => run.subject = <<>>

\* The agent's blocked.json is of a calendar that has what was settled.
BlockedOK ==
    run.pc = "judge" /\ run.blocked.available /\ ~run.stale =>
        \E feed \in Feeds :
            /\ run.blocked = ParseCalendar(feed, Day(Now), Horizon(run.mode))
            /\ run.settled \subseteq feed

\* The last verdict is about the files that the run has.
VerdictOK ==
    Judged =>
        \/ /\ run.mode = "weekly"
           /\ \E c \in world.novelties :
                 /\ run.subject = <<c.key>>
                 /\ run.ok = Fits(c, run.plan, run.booked, run.blocked, world.heard)
        \/ /\ run.mode = "season" /\ run.subject \in world.scenarios
           /\ run.ok = ScenarioOk(run.subject, world.pool, run.booked, run.blocked,
                                  world.heard)

FilesOK ==
    /\ run.plan \in Seq(world.pool)
    /\ run.booked \in Seq(world.bookings \cup UNION world.starts)
    /\ run.settled \subseteq Items

PlannerInv ==
    /\ PlannerTyped /\ CopyOK /\ AskedOK
    /\ WaitsOK /\ BlockedOK /\ VerdictOK /\ FilesOK
-----------------------------------------------------------------------------
(* Sorting *)

\* The place of a sorted element is the number of those ahead of it.
Ahead(places, value, n) ==
    {m \in places : value[m] < value[n] \/ (value[m] = value[n] /\ m < n)}

\* All of the places, each once, by value and then as they came.
Sorts(N, order, places, value) ==
    /\ N \in Nat /\ order \in [1 .. N -> places]
    /\ \A n \in places : \E k \in 1 .. N : order[k] = n
    /\ \A j, k \in 1 .. N : j < k =>
          \/ value[order[j]] < value[order[k]]
          \/ value[order[j]] = value[order[k]] /\ order[j] < order[k]
    /\ \A k \in 1 .. N : Cardinality(Ahead(places, value, order[k])) = k - 1

LEMMA InOrderSorts ==
  ASSUME NEW places, IsFiniteSet(places), places \subseteq Int,
         NEW value, \A n \in places : value[n] \in Int
  PROVE  Sorts(Cardinality(places), InOrder(places, value), places, value)
<1> DEFINE N == Cardinality(places)
           order == InOrder(places, value)
<1> DEFINE A(n) == Ahead(places, value, n)
<1>1. N \in Nat /\ IsFiniteSet(0 .. N - 1) /\ Cardinality(0 .. N - 1) = N
  <2>1. N \in Nat
    BY FS_CardinalityType
  <2>2. 0 \in Int /\ N - 1 \in Int /\ (0 > N - 1 => N = 0)
    BY <2>1
  <2>3. IsFiniteSet(0 .. N - 1) /\ Cardinality(0 .. N - 1) = IF 0 > N - 1 THEN 0 ELSE N - 1 - 0 + 1
    BY <2>2, FS_Interval
  <2> QED BY <2>1, <2>2, <2>3
<1>2. \A n \in places : IsFiniteSet(A(n)) /\ Cardinality(A(n)) \in 0 .. N - 1
  <2> SUFFICES ASSUME NEW n \in places
               PROVE  IsFiniteSet(A(n)) /\ Cardinality(A(n)) \in 0 .. N - 1
    OBVIOUS
  <2>1. A(n) \in SUBSET places /\ n \notin A(n)
    BY DEF Ahead
  <2>2. IsFiniteSet(A(n)) /\ Cardinality(A(n)) <= N /\ Cardinality(A(n)) # N
    BY <2>1, FS_Subset
  <2> QED BY <2>2, <1>1, FS_CardinalityType
<1>3. ASSUME NEW m \in places, NEW n \in places, m \in A(n)
      PROVE  Cardinality(A(m)) < Cardinality(A(n))
  <2>1. A(m) \in SUBSET A(n)
    <3>1. SUFFICES ASSUME NEW l \in A(m) PROVE l \in A(n)
      OBVIOUS
    <3>2. l \in places /\ l \in Int /\ m \in Int /\ n \in Int
      BY DEF Ahead
    <3>3. value[l] \in Int /\ value[m] \in Int /\ value[n] \in Int
      BY <3>2
    <3>4. /\ value[l] < value[m] \/ (value[l] = value[m] /\ l < m)
          /\ value[m] < value[n] \/ (value[m] = value[n] /\ m < n)
      BY <1>3 DEF Ahead
    <3> QED BY <3>2, <3>3, <3>4 DEF Ahead
  <2>2. m \notin A(m)
    BY DEF Ahead
  <2>3. Cardinality(A(m)) <= Cardinality(A(n)) /\ Cardinality(A(m)) # Cardinality(A(n))
    BY <2>1, <2>2, <1>2, <1>3, FS_Subset
  <2> QED BY <2>3, <1>2, <1>1
<1>4. \A m, n \in places : m = n \/ m \in A(n) \/ n \in A(m)
  BY DEF Ahead
<1> DEFINE rank == [n \in places |-> Cardinality(A(n))]
<1>5. rank \in Injection(places, 0 .. N - 1)
  <2>1. rank \in [places -> 0 .. N - 1]
    BY <1>2
  <2>2. \A m, n \in places : rank[m] = rank[n] => m = n
    <3> HIDE DEF A
    <3> QED BY <1>3, <1>4, <1>2, <1>1
  <2> HIDE DEF rank
  <2> QED BY <2>1, <2>2 DEF Injection, IsInjective
<1>6. rank \in Surjection(places, 0 .. N - 1)
  BY <1>5, <1>1, FS_Injection
<1>7. \A k \in 1 .. N : \E n \in places : Cardinality(A(n)) = k - 1
  <2> SUFFICES ASSUME NEW k \in 1 .. N PROVE \E n \in places : rank[n] = k - 1
    OBVIOUS
  <2>1. k - 1 \in 0 .. N - 1
    BY <1>1
  <2> HIDE DEF rank
  <2> QED BY <2>1, <1>6 DEF Surjection
<1>8. order = [k \in 1 .. N |-> CHOOSE n \in places : Cardinality(A(n)) = k - 1]
  BY DEF InOrder, Ahead
<1> HIDE DEF N
<1>9. \A k \in 1 .. N : order[k] \in places /\ Cardinality(A(order[k])) = k - 1
  <2> HIDE DEF A
  <2> QED BY <1>7, <1>8
<1>10. order \in [1 .. N -> places]
  <2> HIDE DEF A
  <2> QED BY <1>8, <1>9
<1>11. \A n \in places : \E k \in 1 .. N : order[k] = n
  <2> SUFFICES ASSUME NEW n \in places PROVE \E k \in 1 .. N : order[k] = n
    OBVIOUS
  <2> DEFINE k == Cardinality(A(n)) + 1
  <2>1. k \in 1 .. N /\ rank[n] = k - 1
    BY <1>1, <1>2
  <2>2. order[k] \in places /\ rank[order[k]] = k - 1
    BY <2>1, <1>9
  <2> HIDE DEF k, rank
  <2>3. order[k] = n
    BY <2>1, <2>2, <1>5 DEF Injection, IsInjective
  <2> QED BY <2>1, <2>3
<1>12. ASSUME NEW j \in 1 .. N, NEW k \in 1 .. N, j < k
       PROVE  order[j] \in A(order[k])
  <2> HIDE DEF A
  <2>1. /\ order[j] \in places /\ order[k] \in places
        /\ Cardinality(A(order[j])) = j - 1 /\ Cardinality(A(order[k])) = k - 1
    BY <1>9
  <2>2. j \in Int /\ k \in Int /\ j - 1 < k - 1
    BY <1>12
  <2>3. order[k] \notin A(order[j])
    <3>1. order[k] \in A(order[j]) => Cardinality(A(order[k])) < Cardinality(A(order[j]))
      BY <2>1, <1>3
    <3> QED BY <3>1, <2>1, <2>2
  <2>4. order[j] # order[k]
    BY <2>1, <2>2
  <2> QED BY <2>1, <2>3, <2>4, <1>4
<1> HIDE DEF order
<1>13. \A j, k \in 1 .. N : j < k =>
          \/ value[order[j]] < value[order[k]]
          \/ value[order[j]] = value[order[k]] /\ order[j] < order[k]
  <2> QED BY <1>12 DEF Ahead
<1> HIDE DEF A, rank, order
<1>14. \A k \in 1 .. N : Cardinality(Ahead(places, value, order[k])) = k - 1
  BY <1>9 DEF A
<1> HIDE DEF N, order
<1>15. Sorts(N, order, places, value)
  BY <1>1, <1>10, <1>11, <1>13, <1>14 DEF Sorts
<1> QED BY <1>15 DEF N, order

\* A sorted sequence has the elements of the one it was made from.
LEMMA SortedByIs ==
  ASSUME NEW S, NEW events \in Seq(S), NEW value,
         \A n \in DOMAIN events : value[n] \in Int
  PROVE  LET order == InOrder(DOMAIN events, value)
         IN  /\ Len(events) \in Nat /\ Cardinality(DOMAIN events) = Len(events)
             /\ order \in [1 .. Len(events) -> 1 .. Len(events)]
             /\ SortedBy(events, value) = [k \in 1 .. Len(events) |-> events[order[k]]]
             /\ SortedBy(events, value) \in Seq(S)
             /\ Len(SortedBy(events, value)) = Len(events)
<1>1. Len(events) \in Nat /\ DOMAIN events = 1 .. Len(events)
  BY LenProperties
<1>2. IsFiniteSet(DOMAIN events) /\ Cardinality(DOMAIN events) = Len(events)
  <2>1. 1 \in Int /\ Len(events) \in Int
    BY <1>1
  <2>2. /\ IsFiniteSet(1 .. Len(events))
        /\ Cardinality(1 .. Len(events)) = IF 1 > Len(events) THEN 0 ELSE Len(events) - 1 + 1
    BY <2>1, FS_Interval
  <2> QED BY <1>1, <2>2
<1> DEFINE order == InOrder(DOMAIN events, value)
<1>3. order \in [1 .. Len(events) -> 1 .. Len(events)]
  BY <1>1, <1>2, InOrderSorts DEF Sorts
<1> HIDE DEF order
<1>4. SortedBy(events, value) = [k \in 1 .. Len(events) |-> events[order[k]]]
  BY <1>3 DEF SortedBy, order
<1>5. \A k \in 1 .. Len(events) : events[order[k]] \in S
  BY <1>1, <1>3, ElementOfSeq
<1>6. SortedBy(events, value) \in Seq(S) /\ Len(SortedBy(events, value)) = Len(events)
  BY <1>1, <1>4, <1>5
<1> QED BY <1>1, <1>2, <1>3, <1>4, <1>6 DEF order

LEMMA SetToSeqIs ==
  ASSUME NEW S, IsFiniteSet(S)
  PROVE  SetToSeq(S) \in Seq(S)
<1>1. Cardinality(S) \in Nat /\ ExistsBijection(1 .. Cardinality(S), S)
  BY FS_CardinalityType
<1>2. PICK f \in [1 .. Cardinality(S) -> S] : IsInjective(f)
  BY <1>1 DEF ExistsBijection, Bijection, Injection
<1>3. SetToSeq(S) \in [1 .. Cardinality(S) -> S]
  BY <1>2 DEF SetToSeq
<1> QED BY <1>1, <1>3

LEMMA ByStartIs ==
  ASSUME NEW S, IsFiniteSet(S), \A e \in S : e.at \in Int
  PROVE  ByStart(S) \in Seq(S)
<1> DEFINE listed == SetToSeq(S)
           value == [n \in DOMAIN listed |-> listed[n].at]
<1>1. listed \in Seq(S)
  BY SetToSeqIs
<1>2. \A n \in DOMAIN listed : value[n] \in Int
  <2> HIDE DEF listed
  <2> QED BY <1>1
<1>3. ByStart(S) = SortedBy(listed, value)
  BY DEF ByStart
<1> HIDE DEF listed, value
<1> QED BY <1>1, <1>2, <1>3, SortedByIs

-----------------------------------------------------------------------------
(* The invariant *)

LEMMA WorldFacts ==
  ASSUME PlannerTyped
  PROVE  /\ IsFiniteSet(world.pool)
         /\ \A e \in world.pool \cup world.novelties \cup world.bookings \cup UNION world.starts :
               EventOK(e)
         /\ calendar \in Feeds /\ \A shown \in world.calendars : shown \in Feeds
         /\ \A i \in calendar : i \in Items
         /\ Ttl \in Nat /\ Ttl > 0
BY WorldsAssumption, TtlAssumption DEF PlannerTyped, Feeds, Items

LEMMA NoRequestIs == NoRequest \in Asked
<1>1. {} \in Feeds
  BY DEF Feeds
<1>2. NotCached \in Copies
  BY DEF Copies
<1> QED BY <1>1, <1>2 DEF NoRequest, Asked

LEMMA PlannerInitInv == PlannerInit => PlannerInv
<1> SUFFICES ASSUME PlannerInit PROVE PlannerInv
  OBVIOUS
<1> USE DEF PlannerInit
<1>1. PlannerTyped
  <2>1. NoRequest \in Asked
    BY NoRequestIs
  <2>2. IsFiniteSet(booked) /\ booked \subseteq world.bookings \cup UNION world.starts
    BY WorldsAssumption
  <2>3. DOMAIN run = RunFields
    BY DEF NoRun, RunFields
  <2>4. present \in [Items -> 0 .. Ttl + 1]
    BY TtlAssumption
  <2>5. cache \in Copies
    BY DEF Copies
  <2> QED BY <2>1, <2>2, <2>3, <2>4, <2>5 DEF PlannerTyped
<1>2. CopyOK /\ AskedOK
  BY DEF CopyOK, AskedOK, NoRequest
<1>3. WaitsOK /\ BlockedOK /\ VerdictOK /\ FilesOK
  BY DEF WaitsOK, BlockedOK, VerdictOK, Judged, FilesOK, NoRun, NoRequest
<1> QED BY <1>1, <1>2, <1>3 DEF PlannerInv

\* What is not about the run is kept by what leaves the run alone.
RunInv == WaitsOK /\ BlockedOK /\ VerdictOK /\ FilesOK

LEMMA RunKept ==
  ASSUME PlannerInv, UNCHANGED <<world, run>>,
         req'[Agent].pc # "idle" => req[Agent].pc # "idle"
  PROVE  RunInv'
BY DEF PlannerInv, RunInv, WaitsOK, BlockedOK, VerdictOK, Judged, FilesOK

\* The household: what is new in the calendar has been there for no time.
LEMMA DecideInv ==
  ASSUME PlannerInv, NEW c \in world.pool, Decide(c)
  PROVE  PlannerInv'
<1>1. RunInv'
  BY RunKept DEF Decide
<1>2. PlannerTyped' /\ CopyOK' /\ AskedOK'
  BY DEF PlannerInv, PlannerTyped, CopyOK, AskedOK, Lacks, Decide
<1> QED BY <1>1, <1>2 DEF PlannerInv, RunInv

LEMMA BookInv ==
  ASSUME PlannerInv, NEW b \in world.bookings, Book(b)
  PROVE  PlannerInv'
<1>1. RunInv'
  BY RunKept DEF Book
<1>2. PlannerTyped'
  <2>1. IsFiniteSet(booked \ {b}) /\ IsFiniteSet(booked \cup {b})
    BY FS_AddElement, FS_RemoveElement DEF PlannerInv, PlannerTyped
  <2> QED BY <2>1 DEF PlannerInv, PlannerTyped, Book
<1>3. CopyOK' /\ AskedOK'
  BY DEF PlannerInv, CopyOK, AskedOK, Lacks, Book
<1> QED BY <1>1, <1>2, <1>3 DEF PlannerInv, RunInv

LEMMA RescheduleInv ==
  ASSUME PlannerInv, NEW shown \in world.calendars, Reschedule(shown)
  PROVE  PlannerInv'
<1> USE DEF Reschedule, data
<1>1. RunInv'
  BY RunKept
<1>2. PlannerTyped'
  <2>1. present' \in [Items -> 0 .. Ttl + 1]
    BY WorldFacts DEF PlannerInv, PlannerTyped
  <2> QED BY <2>1 DEF PlannerInv, PlannerTyped
<1>3. ASSUME NEW feed, NEW since \in Nat, Lacks(feed, since)
      PROVE  Lacks(feed, since)'
  <2>1. \A i \in shown : i \in Items
    BY DEF PlannerInv, PlannerTyped, Items
  <2> QED BY <1>3, <2>1 DEF Lacks
<1>4. CopyOK'
  <2>1. cache # NotCached => cache.age + 1 \in Nat
    BY WorldFacts DEF PlannerInv, PlannerTyped, Copies
  <2> QED BY <2>1, <1>3 DEF PlannerInv, CopyOK, Lacks
<1>5. AskedOK'
  BY <1>3 DEF PlannerInv, AskedOK, Lacks
<1> QED BY <1>1, <1>2, <1>4, <1>5 DEF PlannerInv, RunInv

\* The answer reaches the page or the agent.
LEMMA AnswerInv ==
  ASSUME PlannerInv, NEW c \in {Agent, Spa}, NEW feed \in Feeds, NEW stale \in BOOLEAN,
         c = Agent => run.pc = "calendar",
         ~stale /\ feed # Garbage => Settled \subseteq feed,
         Answer(c, feed, stale), world' = world
  PROVE  /\ RunInv' /\ DOMAIN run' = RunFields
         /\ req' = [req EXCEPT ![c] = NoRequest] /\ req' \in [{Agent, Spa} -> Asked]
<1>1. req' = [req EXCEPT ![c] = NoRequest] /\ req' \in [{Agent, Spa} -> Asked]
  BY NoRequestIs DEF Answer, PlannerInv, PlannerTyped
<1>2. req'[Agent].pc # "idle" => c # Agent /\ req[Agent].pc # "idle"
  BY <1>1 DEF PlannerInv, PlannerTyped, NoRequest
<1>3. CASE c # Agent
  <2>1. run' = run
    BY <1>3 DEF Answer
  <2>2. RunInv'
    BY <2>1, <1>2, RunKept
  <2> QED BY <1>1, <2>1, <2>2 DEF PlannerInv, PlannerTyped
<1>4. CASE c = Agent
  <2> DEFINE view == ParseCalendar(feed, Day(Now), Horizon(run.mode))
  <2>1. run' = [run EXCEPT !.pc = "judge", !.settled = Settled, !.stale = stale,
                          !.blocked = view]
    BY <1>4 DEF Answer
  <2>2. DOMAIN run = RunFields /\ run.subject = <<>>
    BY <1>4 DEF PlannerInv, PlannerTyped, WaitsOK
  <2> HIDE DEF view
  <2>3. /\ DOMAIN run' = RunFields /\ run'.pc = "judge" /\ run'.settled = Settled
        /\ run'.stale = stale /\ run'.blocked = view /\ run'.mode = run.mode
        /\ run'.plan = run.plan /\ run'.booked = run.booked /\ run'.subject = <<>>
    BY <2>1, <2>2 DEF RunFields
  <2>4. WaitsOK'
    BY <1>2, <1>4, <2>3 DEF WaitsOK
  <2>5. BlockedOK'
    <3>1. view.available => feed # Garbage
      BY DEF view, ParseCalendar, Unavailable
    <3>2. (ParseCalendar(feed, Day(Now), Horizon(run.mode)))'
             = ParseCalendar(feed, Day(Now), Horizon(run'.mode))
      BY DEF Horizon
    <3> QED BY <2>3, <3>1 DEF BlockedOK, view
  <2>6. VerdictOK'
    BY <2>3 DEF VerdictOK, Judged
  <2>7. FilesOK'
    <3>1. Settled \subseteq Items
      BY WorldFacts DEF Settled, PlannerInv
    <3> QED BY <2>3, <3>1 DEF PlannerInv, FilesOK, Items
  <2> QED BY <1>1, <2>3, <2>4, <2>5, <2>6, <2>7 DEF RunInv
<1> QED BY <1>3, <1>4

\* What has been settled is in a copy that is young enough.
LEMMA SettledThere ==
  ASSUME PlannerInv, NEW feed, NEW since \in Nat, since <= Ttl, Lacks(feed, since),
         feed # Garbage
  PROVE  Settled \subseteq feed
<1> SUFFICES ASSUME NEW i \in Settled, i \notin feed PROVE FALSE
  OBVIOUS
<1>1. i \in calendar /\ present[i] > Ttl /\ present[i] <= since
  BY DEF Settled, Lacks
<1>2. present[i] \in Nat /\ Ttl \in Nat
  BY <1>1, WorldFacts DEF PlannerInv, PlannerTyped
<1> QED BY <1>1, <1>2

LEMMA AskInv ==
  ASSUME PlannerInv, NEW c \in {Agent, Spa}, NEW refresh \in BOOLEAN, Ask(c, refresh),
         refresh => c = Spa
  PROVE  PlannerInv'
<1> USE DEF Ask, data
<1>1. CASE cache # NotCached /\ cache.age < (IF refresh THEN 0 ELSE Ttl)
  <2>1. Answer(c, cache.feed, FALSE)
    BY <1>1
  <2>2. cache.feed \in Feeds /\ cache.age \in Nat /\ Ttl \in Nat /\ cache.age < Ttl
    BY <1>1, WorldFacts DEF PlannerInv, PlannerTyped, Copies
  <2>3. cache.feed # Garbage => Settled \subseteq cache.feed
    <3>1. cache.age + 1 \in Nat /\ cache.age + 1 <= Ttl
      BY <2>2
    <3> QED BY <1>1, <3>1, SettledThere DEF PlannerInv, CopyOK
  <2>4. RunInv' /\ DOMAIN run' = RunFields /\ req' = [req EXCEPT ![c] = NoRequest]
        /\ req' \in [{Agent, Spa} -> Asked]
    BY <2>1, <2>2, <2>3, AnswerInv DEF Mine
  <2>5. PlannerTyped' /\ CopyOK'
    BY <2>4 DEF PlannerInv, PlannerTyped, CopyOK, Lacks
  <2>6. AskedOK'
    BY <2>4 DEF PlannerInv, PlannerTyped, AskedOK, Lacks, NoRequest
  <2> QED BY <2>4, <2>5, <2>6 DEF PlannerInv, RunInv
<1>2. CASE ~(cache # NotCached /\ cache.age < (IF refresh THEN 0 ELSE Ttl))
  <2> DEFINE sent == [NoRequest EXCEPT !.pc = "sent", !.cached = cache]
  <2>1. req' = [req EXCEPT ![c] = sent] /\ run' = run
    BY <1>2
  <2>2. sent \in Asked /\ sent.pc = "sent"
    BY NoRequestIs DEF PlannerInv, PlannerTyped, Asked, NoRequest
  <2> HIDE DEF sent
  <2>3. PlannerTyped' /\ CopyOK'
    BY <2>1, <2>2 DEF PlannerInv, PlannerTyped, CopyOK, Lacks
  <2>4. AskedOK'
    BY <2>1, <2>2 DEF PlannerInv, PlannerTyped, AskedOK, Lacks
  <2>5. RunInv'
    BY <2>1, <2>2 DEF PlannerInv, PlannerTyped, RunInv, WaitsOK, BlockedOK, VerdictOK,
                      Judged, FilesOK, Mine
  <2> QED BY <2>3, <2>4, <2>5 DEF PlannerInv, RunInv
<1> QED BY <1>1, <1>2

\* What is served is the calendar of that moment.
LEMMA ServeInv ==
  ASSUME PlannerInv, NEW c \in {Agent, Spa}, NEW feed, Serve(c, feed)
  PROVE  PlannerInv'
<1> USE DEF Serve, data
<1>1. feed \in Feeds
  BY WorldFacts DEF PlannerInv, Feeds
<1> DEFINE served == [req[c] EXCEPT !.pc = "served", !.got = feed]
<1>2. req' = [req EXCEPT ![c] = served]
  BY DEF PlannerInv, PlannerTyped
<1>3. served \in Asked /\ served.pc = "served" /\ served.got = feed
  BY <1>1 DEF PlannerInv, PlannerTyped, Asked
<1> HIDE DEF served
<1>4. PlannerTyped' /\ CopyOK'
  BY <1>2, <1>3 DEF PlannerInv, PlannerTyped, CopyOK, Lacks
<1>5. AskedOK'
  <2>1. \A since : Lacks(feed, since)
    BY DEF Lacks
  <2> QED BY <1>2, <1>3, <2>1 DEF PlannerInv, PlannerTyped, AskedOK, Lacks
<1>6. RunInv'
  <2>1. req'[Agent].pc # "idle" => req[Agent].pc # "idle"
    BY <1>2 DEF PlannerInv, PlannerTyped
  <2> QED BY <2>1, RunKept
<1> QED BY <1>4, <1>5, <1>6 DEF PlannerInv, RunInv

\* A request ends within a tick: what the new copy lacks is that young.
LEMMA ArriveInv ==
  ASSUME PlannerInv, NEW c \in {Agent, Spa}, Arrive(c)
  PROVE  PlannerInv'
<1> USE DEF Arrive, data
<1> DEFINE feed == req[c].got
<1>1. /\ feed \in Feeds /\ req[c].pc = "served"
      /\ Lacks(feed, IF req[c].late THEN 1 ELSE 0)
  BY DEF PlannerInv, PlannerTyped, Asked, AskedOK
<1>2. Lacks(feed, 1)
  <2>1. \A i \in calendar : present[i] \in Nat
    BY WorldFacts DEF PlannerInv, PlannerTyped
  <2> QED BY <1>1, <2>1 DEF Lacks
<1>3. cache' = [feed |-> feed, age |-> 0] /\ Answer(c, feed, FALSE)
  OBVIOUS
<1> HIDE DEF feed
<1>4. feed # Garbage => Settled \subseteq feed
  BY <1>2, WorldFacts, SettledThere DEF PlannerInv
<1>5. RunInv' /\ DOMAIN run' = RunFields /\ req' = [req EXCEPT ![c] = NoRequest]
      /\ req' \in [{Agent, Spa} -> Asked]
  BY <1>1, <1>3, <1>4, AnswerInv DEF PlannerInv, WaitsOK
<1>6. PlannerTyped'
  <2>1. cache' \in Copies
    BY <1>1, <1>3, WorldFacts DEF Copies, PlannerInv
  <2> QED BY <1>5, <2>1 DEF PlannerInv, PlannerTyped
<1>7. CopyOK'
  BY <1>2, <1>3 DEF CopyOK, Lacks
<1>8. AskedOK'
  BY <1>5 DEF PlannerInv, PlannerTyped, AskedOK, Lacks, NoRequest
<1> QED BY <1>5, <1>6, <1>7, <1>8 DEF PlannerInv, RunInv

\* A failure leaves the copy as it is, and says so if it answers from it.
LEMMA FailFetchInv ==
  ASSUME PlannerInv, NEW c \in {Agent, Spa}, FailFetch(c)
  PROVE  PlannerInv'
<1> USE DEF FailFetch, AfterFailure, data
<1> DEFINE cached == req[c].cached
<1>1. cached \in Copies
  BY DEF PlannerInv, PlannerTyped, Asked
<1>2. /\ RunInv' /\ DOMAIN run' = RunFields /\ req' = [req EXCEPT ![c] = NoRequest]
      /\ req' \in [{Agent, Spa} -> Asked]
  <2>1. c = Agent => run.pc = "calendar"
    BY DEF PlannerInv, WaitsOK
  <2>2. CASE cached = NotCached
    <3>1. Answer(c, Garbage, FALSE) /\ Garbage \in Feeds
      BY <2>2 DEF Feeds
    <3> QED BY <3>1, <2>1, AnswerInv
  <2>3. CASE cached # NotCached
    <3>1. Answer(c, cached.feed, TRUE) /\ cached.feed \in Feeds
      BY <2>3, <1>1 DEF Copies
    <3> HIDE DEF cached
    <3> QED BY <3>1, <2>1, AnswerInv
  <2> QED BY <2>2, <2>3
<1>3. PlannerTyped' /\ CopyOK'
  BY <1>2 DEF PlannerInv, PlannerTyped, CopyOK, Lacks
<1>4. AskedOK'
  BY <1>2 DEF PlannerInv, PlannerTyped, AskedOK, Lacks, NoRequest
<1> QED BY <1>2, <1>3, <1>4 DEF PlannerInv, RunInv

LEMMA RestartInv ==
  ASSUME PlannerInv, Restart
  PROVE  PlannerInv'
<1> USE DEF Restart, data
<1>1. req' = [c \in {Agent, Spa} |-> NoRequest]
  BY DEF PlannerInv, PlannerTyped
<1>2. PlannerTyped' /\ CopyOK'
  BY <1>1, NoRequestIs DEF PlannerInv, PlannerTyped, CopyOK, Copies
<1>3. AskedOK' /\ req'[Agent].pc = "idle"
  BY <1>1 DEF AskedOK, NoRequest
<1>4. RunInv'
  BY <1>3, RunKept
<1> QED BY <1>2, <1>3, <1>4 DEF PlannerInv, RunInv

\* Copies and calendar age together, and no request sees more than one tick.
LEMMA TimePassesInv ==
  ASSUME PlannerInv, TimePasses
  PROVE  PlannerInv'
<1> USE DEF TimePasses, data
<1>1. Ttl \in Nat /\ Ttl > 0 /\ \A i \in calendar : i \in Items
  BY WorldFacts DEF PlannerInv
<1>2. \A i \in Items : /\ present[i] \in 0 .. Ttl + 1 /\ present'[i] \in 0 .. Ttl + 1
                       /\ i \in calendar => present'[i] = Older(present[i])
  BY <1>1 DEF PlannerInv, PlannerTyped, Older
<1>3. \A c \in {Agent, Spa} :
         /\ req[c] \in Asked /\ ~req[c].late
         /\ req'[c] = [req[c] EXCEPT !.late = req[c].pc # "idle"]
  BY DEF PlannerInv, PlannerTyped
<1>4. \A c \in {Agent, Spa} :
         /\ req'[c] \in Asked /\ req'[c].pc = req[c].pc /\ req'[c].got = req[c].got
         /\ req'[c].late = (req[c].pc # "idle")
  <2> SUFFICES ASSUME NEW c \in {Agent, Spa}
               PROVE  /\ req'[c] \in Asked /\ req'[c].pc = req[c].pc
                      /\ req'[c].got = req[c].got /\ req'[c].late = (req[c].pc # "idle")
    OBVIOUS
  <2> DEFINE r == req[c]
             busy == r.pc # "idle"
  <2>1. r \in Asked /\ req'[c] = [r EXCEPT !.late = busy] /\ busy \in BOOLEAN
    BY <1>3
  <2> HIDE DEF r, busy
  <2>2. /\ [r EXCEPT !.late = busy] \in Asked /\ [r EXCEPT !.late = busy].pc = r.pc
        /\ [r EXCEPT !.late = busy].got = r.got /\ [r EXCEPT !.late = busy].late = busy
    BY <2>1 DEF Asked
  <2> QED BY <2>1, <2>2 DEF r, busy
<1>5. cache' \in Copies
  <2>1. CASE cache = NotCached
    BY <2>1 DEF Copies
  <2>2. CASE cache # NotCached
    <3>1. cache \in [feed : Feeds, age : 0 .. Ttl + 1]
      BY <2>2 DEF PlannerInv, PlannerTyped, Copies
    <3>2. Older(cache.age) \in 0 .. Ttl + 1
      BY <1>1, <3>1 DEF Older
    <3> QED BY <2>2, <3>1, <3>2 DEF Copies
  <2> QED BY <2>1, <2>2
<1>6. PlannerTyped'
  <2>1. present' \in [Items -> 0 .. Ttl + 1]
    BY <1>2
  <2>2. req' \in [{Agent, Spa} -> Asked]
    <3>1. req' = [c \in {Agent, Spa} |-> req'[c]]
      BY DEF PlannerInv, PlannerTyped
    <3> QED BY <3>1, <1>4
  <2> QED BY <1>5, <2>1, <2>2 DEF PlannerInv, PlannerTyped
<1>7. CopyOK'
  <2> SUFFICES ASSUME cache' # NotCached PROVE Lacks(cache.feed, cache.age + 1)'
    BY DEF CopyOK
  <2>1. cache # NotCached /\ cache \in [feed : Feeds, age : 0 .. Ttl + 1]
    BY DEF PlannerInv, PlannerTyped, Copies
  <2>2. cache'.feed = cache.feed /\ cache'.age = Older(cache.age)
    BY <2>1
  <2>3. Lacks(cache.feed, cache.age + 1)
    BY <2>1 DEF PlannerInv, CopyOK
  <2>4. \A i \in calendar : present[i] <= cache.age + 1 => present'[i] <= cache'.age + 1
    BY <1>1, <1>2, <2>1, <2>2 DEF Older
  <2> QED BY <2>2, <2>3, <2>4 DEF Lacks
<1>8. AskedOK'
  <2> SUFFICES ASSUME NEW c \in {Agent, Spa}, req[c].pc = "served"
               PROVE  Lacks(req[c].got, 1)'
    BY <1>4 DEF AskedOK
  <2>1. Lacks(req[c].got, 0)
    BY <1>3 DEF PlannerInv, AskedOK
  <2>2. \A i \in calendar : present[i] <= 0 => present'[i] <= 1
    BY <1>1, <1>2 DEF Older
  <2> QED BY <1>4, <2>1, <2>2 DEF Lacks
<1>9. RunInv'
  BY <1>4, RunKept
<1> QED BY <1>6, <1>7, <1>8, <1>9 DEF PlannerInv, RunInv

\* The agent: all but the run stays.
LEMMA RestKept ==
  ASSUME PlannerInv, UNCHANGED <<data, calendar, cache, req, present>>,
         DOMAIN run' = RunFields
  PROVE  PlannerTyped' /\ CopyOK' /\ AskedOK'
BY DEF PlannerInv, PlannerTyped, CopyOK, AskedOK, Lacks, data

LEMMA StartInv ==
  ASSUME PlannerInv, NEW mode, Start(mode)
  PROVE  PlannerInv'
<1> USE DEF Start
<1> DEFINE summary == IF mode = "weekly" THEN PlanSummary ELSE <<>>
<1>1. summary \in Seq(world.pool)
  <2> DEFINE S == {c \in world.pool : c.key \in plan}
  <2>1. IsFiniteSet(S) /\ \A e \in S : e.at \in Int
    BY WorldFacts, FS_Subset DEF PlannerInv, EventOK
  <2>2. ByStart(S) \in Seq(S)
    BY <2>1, ByStartIs
  <2>3. ByStart(S) \in Seq(world.pool)
    BY <2>2, SeqMonotonic
  <2>4. <<>> \in Seq(world.pool)
    OBVIOUS
  <2>5. PlanSummary \in Seq(world.pool)
    BY <2>3 DEF PlanSummary
  <2> QED BY <2>4, <2>5
<1>2. run' = [NoRun EXCEPT !.pc = "context", !.mode = mode, !.plan = summary]
  OBVIOUS
<1> HIDE DEF summary
<1>3. /\ DOMAIN run' = RunFields /\ run'.pc = "context" /\ run'.plan = summary
      /\ run'.booked = <<>> /\ run'.settled = {} /\ run'.subject = <<>>
  BY <1>2 DEF NoRun, RunFields
<1>4. RunInv'
  <2>1. req[Agent].pc = "idle"
    BY DEF PlannerInv, WaitsOK
  <2>2. WaitsOK' /\ BlockedOK' /\ VerdictOK'
    BY <1>3, <2>1 DEF WaitsOK, BlockedOK, VerdictOK, Judged
  <2>3. world' = world
    BY DEF data
  <2>4. run'.plan \in Seq(world'.pool)
    BY <1>1, <1>3, <2>3
  <2>5. run'.booked \in Seq(world'.bookings \cup UNION world'.starts)
    <3> DEFINE events == world'.bookings \cup UNION world'.starts
    <3>1. <<>> \in Seq(events)
      OBVIOUS
    <3> HIDE DEF events
    <3>2. run'.booked \in Seq(events)
      BY <1>3, <3>1
    <3> QED BY <3>2 DEF events
  <2>6. run'.settled \subseteq Items
    BY <1>3
  <2>7. FilesOK'
    BY <2>4, <2>5, <2>6 DEF FilesOK, Items
  <2> QED BY <2>2, <2>7 DEF RunInv
<1>5. PlannerTyped' /\ CopyOK' /\ AskedOK'
  BY <1>3, RestKept
<1> QED BY <1>4, <1>5 DEF PlannerInv, RunInv

LEMMA ReadContextInv ==
  ASSUME PlannerInv, ReadContext
  PROVE  PlannerInv'
<1> USE DEF ReadContext
<1>1. Booked(run.mode) \in Seq(world.bookings \cup UNION world.starts)
  <2> DEFINE S == {b \in booked : b.at >= Now /\ b.at <= Horizon(run.mode) * HoursPerDay + Now}
  <2>1. IsFiniteSet(S) /\ \A e \in S : e.at \in Int
    BY WorldFacts, FS_Subset DEF PlannerInv, PlannerTyped, EventOK
  <2>2. ByStart(S) \in Seq(S)
    BY <2>1, ByStartIs
  <2>3. S \subseteq world.bookings \cup UNION world.starts
    BY DEF PlannerInv, PlannerTyped
  <2>4. ByStart(S) \in Seq(world.bookings \cup UNION world.starts)
    BY <2>2, <2>3, SeqMonotonic
  <2> QED BY <2>4 DEF Booked
<1>2. run' = [run EXCEPT !.pc = "calendar", !.booked = Booked(run.mode)]
      /\ DOMAIN run = RunFields
  BY DEF PlannerInv, PlannerTyped
<1>3. /\ DOMAIN run' = RunFields /\ run'.pc = "calendar" /\ run'.booked = Booked(run.mode)
      /\ run'.plan = run.plan /\ run'.settled = run.settled /\ run'.subject = run.subject
  BY <1>2 DEF RunFields
<1>4. RunInv'
  BY <1>1, <1>3 DEF PlannerInv, RunInv, WaitsOK, BlockedOK, VerdictOK, Judged, FilesOK, data
<1>5. PlannerTyped' /\ CopyOK' /\ AskedOK'
  BY <1>3, RestKept
<1> QED BY <1>4, <1>5 DEF PlannerInv, RunInv

\* A verdict changes nothing that it is about.
LEMMA JudgedInv ==
  ASSUME PlannerInv, UNCHANGED <<data, calendar, cache, req, present>>, run.pc = "judge",
         NEW keys, NEW ok, run' = [run EXCEPT !.subject = keys, !.ok = ok],
         \/ /\ run.mode = "weekly"
            /\ \E c \in world.novelties :
                  /\ keys = <<c.key>>
                  /\ ok = Fits(c, run.plan, run.booked, run.blocked, world.heard)
         \/ /\ run.mode = "season" /\ keys \in world.scenarios
            /\ ok = ScenarioOk(keys, world.pool, run.booked, run.blocked, world.heard)
  PROVE  PlannerInv'
<1>1. DOMAIN run = RunFields
  BY DEF PlannerInv, PlannerTyped
<1>2. /\ DOMAIN run' = RunFields /\ run'.pc = "judge" /\ run'.mode = run.mode
      /\ run'.plan = run.plan /\ run'.booked = run.booked /\ run'.blocked = run.blocked
      /\ run'.settled = run.settled /\ run'.stale = run.stale
      /\ run'.subject = keys /\ run'.ok = ok
  BY <1>1 DEF RunFields
<1>3. WaitsOK' /\ BlockedOK' /\ FilesOK'
  BY <1>2 DEF PlannerInv, WaitsOK, BlockedOK, FilesOK, data
<1>4. VerdictOK'
  BY <1>2 DEF VerdictOK, data
<1>5. PlannerTyped' /\ CopyOK' /\ AskedOK'
  BY <1>2, RestKept
<1> QED BY <1>3, <1>4, <1>5 DEF PlannerInv

LEMMA FitInv ==
  ASSUME PlannerInv, NEW c \in world.novelties, Fit(c)
  PROVE  PlannerInv'
BY JudgedInv DEF Fit

LEMMA GateInv ==
  ASSUME PlannerInv, NEW keys \in world.scenarios, Gate(keys)
  PROVE  PlannerInv'
BY JudgedInv DEF Gate

LEMMA FinishInv ==
  ASSUME PlannerInv, Finish
  PROVE  PlannerInv'
<1> USE DEF Finish
<1>1. /\ DOMAIN run' = RunFields /\ run'.pc = "idle" /\ run'.plan = <<>>
      /\ run'.booked = <<>> /\ run'.settled = {} /\ run'.subject = <<>>
  BY DEF NoRun, RunFields
<1>2. RunInv'
  <2>1. req[Agent].pc = "idle"
    BY DEF PlannerInv, WaitsOK
  <2> QED BY <1>1, <2>1 DEF RunInv, WaitsOK, BlockedOK, VerdictOK, Judged, FilesOK, data
<1>3. PlannerTyped' /\ CopyOK' /\ AskedOK'
  BY <1>1, RestKept
<1> QED BY <1>2, <1>3 DEF PlannerInv, RunInv

LEMMA PlannerStep ==
  ASSUME PlannerInv, [PlannerNext]_plannerVars
  PROVE  PlannerInv'
<1>1. CASE Household
  BY <1>1, DecideInv, BookInv, RescheduleInv DEF Household
<1>2. CASE Calendar
  BY <1>2, AskInv, ServeInv, ArriveInv, FailFetchInv DEF Calendar
<1>3. CASE Run
  BY <1>3, StartInv, ReadContextInv, FitInv, GateInv, FinishInv DEF Run
<1>4. CASE Restart \/ TimePasses
  BY <1>4, RestartInv, TimePassesInv
<1>5. CASE UNCHANGED plannerVars
  <2>1. RunInv'
    BY <1>5, RunKept DEF plannerVars
  <2>2. PlannerTyped' /\ CopyOK' /\ AskedOK'
    BY <1>5 DEF plannerVars, PlannerInv, PlannerTyped, CopyOK, AskedOK, Lacks
  <2> QED BY <2>1, <2>2 DEF PlannerInv, RunInv
<1> QED BY <1>1, <1>2, <1>3, <1>4, <1>5 DEF PlannerNext

THEOREM RunsAreConsistent == PlannerSpec => []PlannerInv
<1>1. PlannerInit => PlannerInv
  BY PlannerInitInv
<1>2. PlannerInv /\ [PlannerNext]_plannerVars => PlannerInv'
  BY PlannerStep
<1> QED BY <1>1, <1>2, PTL DEF PlannerSpec
-----------------------------------------------------------------------------
(* What fits collides with nothing *)

\* Days follow one another as their hours do.
LEMMA DayIs ==
  ASSUME NEW d \in Int, NEW h \in Int
  PROVE  /\ Day(h) \in Int
         /\ h \in d * HoursPerDay .. (d + 1) * HoursPerDay - 1 <=> Day(h) = d
BY HoursAssumption, SMT DEF Day

LEMMA DayGrows ==
  ASSUME NEW g \in Int, NEW h \in Int, g <= h
  PROVE  Day(g) <= Day(h)
BY HoursAssumption, SMT DEF Day

\* An end at midnight is the last hour of no day.
LEMMA LastDay ==
  ASSUME NEW h \in Int, NEW end \in Int, h < end
  PROVE  Day(h) <= (IF end % HoursPerDay = 0 THEN Day(end) ELSE Day(end) + 1) - 1
<1>1. Day(h) \in Int /\ Day(end) \in Int /\ Day(h) <= Day(end)
  BY DayGrows, DayIs
<1>2. CASE end % HoursPerDay = 0
  <2>1. end = (HoursPerDay * Day(end)) + (end % HoursPerDay)
    BY HoursAssumption, SMT DEF Day
  <2>2. end = HoursPerDay * Day(end)
    BY <1>1, <1>2, <2>1, HoursAssumption
  <2>3. Day(h) # Day(end)
    <3>1. SUFFICES ASSUME Day(h) = Day(end) PROVE FALSE
      OBVIOUS
    <3>2. h >= Day(end) * HoursPerDay
      BY <1>1, <3>1, DayIs, HoursAssumption
    <3> QED BY <2>2, <3>2, <1>1, HoursAssumption
  <2> QED BY <1>1, <1>2, <2>3
<1>3. CASE end % HoursPerDay # 0
  BY <1>1, <1>3
<1> QED BY <1>2, <1>3

\* A calendar that has the item keeps its time free.
LEMMA FreeOfItem ==
  ASSUME NEW feed, feed # Garbage, NEW i \in feed,
         i.from \in Int, i.to = NoEnd \/ i.to \in Int, ~i.cancelled,
         NEW first \in Int, NEW last \in Int, Between(i, first, last),
         NEW e, e.at \in Int, Slot(e) \in first .. last,
         ~TimedConflict(e, ParseCalendar(feed, first, last))
  PROVE  ~Collides(e, i)
<1> DEFINE classified == {j \in feed : ~j.cancelled /\ Between(j, first, last)}
           blocking == {j \in classified : Blocking(j)}
           view == ParseCalendar(feed, first, last)
<1>1. /\ view.blockedDays = (UNION {CoveredDays(j) : j \in blocking}) \cap (first .. last)
      /\ view.conflicts = {[from |-> j.from, to |-> EndOf(j)] : j \in classified \ blocking}
  BY DEF ParseCalendar
<1>2. i \in classified
  OBVIOUS
<1>3. CASE Blocking(i)
  <2>1. Slot(e) \notin CoveredDays(i)
    <3>1. i \in blocking
      BY <1>2, <1>3
    <3>2. Slot(e) \notin view.blockedDays
      BY DEF TimedConflict
    <3> HIDE DEF blocking, view
    <3> QED BY <1>1, <3>1, <3>2
  <2>2. EndOf(i) \in Int
    BY HoursAssumption DEF EndOf
  <2> SUFFICES ASSUME NEW h \in Slot(e) * HoursPerDay .. (Slot(e) + 1) * HoursPerDay - 1,
                      h = i.from \/ h \in i.from .. EndOf(i) - 1
               PROVE  FALSE
    BY <1>3 DEF Collides, Blocking
  <2>3. Slot(e) \in Int /\ h \in Int /\ Day(h) = Slot(e)
    BY HoursAssumption, DayIs DEF Slot
  <2>4. CASE h = i.from
    BY <2>1, <2>3, <2>4 DEF CoveredDays
  <2>5. CASE h \in i.from .. EndOf(i) - 1
    <3>1. Day(i.from) <= Day(h) /\ Day(i.from) \in Int
      BY <2>5, <2>2, DayGrows, DayIs
    <3>2. Day(h) <= ExclusiveEnd(i) - 1
      BY <2>5, <2>2, LastDay DEF ExclusiveEnd
    <3>3. ExclusiveEnd(i) \in Int
      BY <2>2, DayIs DEF ExclusiveEnd
    <3> QED BY <2>1, <2>3, <3>1, <3>2, <3>3 DEF CoveredDays
  <2> QED BY <2>4, <2>5
<1>4. CASE ~Blocking(i)
  <2> DEFINE w == [from |-> i.from, to |-> EndOf(i)]
  <2>1. w \in view.conflicts
    <3>1. i \in classified \ blocking
      BY <1>2, <1>4
    <3> HIDE DEF classified, blocking, view
    <3> QED BY <1>1, <3>1
  <2>2. ~(w.from - Before <= e.at /\ e.at <= w.to + After)
    <3> HIDE DEF w
    <3> QED BY <2>1 DEF TimedConflict
  <2> QED BY <2>2, <1>4 DEF Collides, Blocking
<1> QED BY <1>3, <1>4

\* The complaint about an event that collides names its key, and no other kind
\* of complaint reads like it.
LEMMA BlockedComplaint ==
  ASSUME NEW events, NEW booked_, NEW blocked_, NEW heard_, NEW key, NEW title, NEW day,
         [blockedKey |-> key, title |-> title, day |-> day] \in
            CheckSchedule(events, booked_, blocked_) \cup CheckWorks(events, heard_)
  PROVE  \E f \in Range(events) : TimedConflict(f, blocked_) /\ f.key = key
<1> DEFINE x == [blockedKey |-> key, title |-> title, day |-> day]
           dated == Dated(events \o booked_)
<1>1. DOMAIN x = {"blockedKey", "title", "day"}
  OBVIOUS
<1>2. x \notin WeeksOver(dated)
  <2>1. \A y \in WeeksOver(dated) : DOMAIN y = {"week", "titles"}
    <3> SUFFICES ASSUME NEW y \in WeeksOver(dated) PROVE DOMAIN y = {"week", "titles"}
      OBVIOUS
    <3> HIDE DEF dated
    <3>1. \E w, t : y = [week |-> w, titles |-> t]
      BY DEF WeeksOver
    <3> QED BY <3>1
  <2> QED BY <1>1, <2>1
<1>3. x \notin Gaps(dated)
  <2>1. \A y \in Gaps(dated) : DOMAIN y = {"a", "b"}
    BY DEF Gaps
  <2> QED BY <1>1, <2>1
<1>4. x \notin CheckWorks(events, heard_)
  <2>1. \A y \in CheckWorks(events, heard_) :
           DOMAIN y = {"work", "seen", "title"} \/ DOMAIN y = {"heard", "title"}
    <3> SUFFICES ASSUME NEW y \in CheckWorks(events, heard_)
                 PROVE  DOMAIN y = {"work", "seen", "title"} \/ DOMAIN y = {"heard", "title"}
      OBVIOUS
    <3>1. \/ \E w, s, t : y = [work |-> w, seen |-> s, title |-> t]
          \/ \E w, t : y = [heard |-> w, title |-> t]
      BY Zenon DEF CheckWorks
    <3> QED BY <3>1
  <2> QED BY <1>1, <2>1
<1>5. x \in {[blockedKey |-> e.key, title |-> e.title, day |-> Slot(e)] :
                e \in {f \in Range(events) : TimedConflict(f, blocked_)}}
  BY <1>2, <1>3, <1>4 DEF CheckSchedule
<1> QED BY <1>5

LEMMA CollisionComplained ==
  ASSUME NEW events, NEW booked_, NEW blocked_, NEW e \in Range(events),
         TimedConflict(e, blocked_)
  PROVE  [blockedKey |-> e.key, title |-> e.title, day |-> Slot(e)]
            \in CheckSchedule(events, booked_, blocked_)
<1>1. e \in {f \in Range(events) : TimedConflict(f, blocked_)}
  OBVIOUS
<1> QED BY <1>1 DEF CheckSchedule

\* What is appended is there, with all that was.
LEMMA AppendRange ==
  ASSUME NEW S, NEW s \in Seq(S), NEW e
  PROVE  Range(Append(s, e)) = Range(s) \cup {e}
<1>1. Len(s) \in Nat /\ DOMAIN s = 1 .. Len(s)
  BY LenProperties
<1>2. /\ DOMAIN Append(s, e) = 1 .. Len(s) + 1
      /\ \A n \in 1 .. Len(s) : Append(s, e)[n] = s[n]
      /\ Append(s, e)[Len(s) + 1] = e
  BY <1>1
<1> QED BY <1>1, <1>2 DEF Range

\* Without a calendar nothing is known; with one, the run has the agent's.
LEMMA SubjectIs ==
  ASSUME PlannerInv, Judged, NEW c \in Subjects
  PROVE  \/ /\ run.mode = "weekly"
            /\ run.subject = <<c.key>>
            /\ run.ok = Fits(c, run.plan, run.booked, run.blocked, world.heard)
            /\ c \in world.novelties
         \/ /\ run.mode = "season"
            /\ run.ok = ScenarioOk(run.subject, world.pool, run.booked, run.blocked,
                                   world.heard)
            /\ run.ok => c \in Range(ResolveEvents(run.subject, world.pool))
<1>1. \A d, e \in Known : d.key = e.key => d = e
  BY WorldsAssumption DEF Known, PlannerInv, PlannerTyped
<1>2. c \in Known /\ c.key \in Range(run.subject)
  BY DEF Subjects
<1>3. ASSUME run.mode = "weekly", NEW d \in world.novelties, run.subject = <<d.key>>,
             run.ok = Fits(d, run.plan, run.booked, run.blocked, world.heard)
      PROVE  c = d
  BY <1>1, <1>2, <1>3 DEF Range, Known
<1>4. ASSUME run.ok = ScenarioOk(run.subject, world.pool, run.booked, run.blocked,
                                 world.heard), run.ok
      PROVE  c \in Range(ResolveEvents(run.subject, world.pool))
  <2>1. PICK n \in DOMAIN run.subject : run.subject[n] = c.key
    BY <1>2 DEF Range
  <2>2. run.subject[n] \in Range(run.subject)
    BY DEF Range
  <2>3. Range(run.subject) \subseteq {d.key : d \in world.pool}
    BY <1>4 DEF ScenarioOk, InPool
  <2>4. \E d \in world.pool : d.key = run.subject[n]
    BY <2>2, <2>3
  <2> DEFINE hit == CHOOSE d \in world.pool : d.key = run.subject[n]
  <2>5. hit \in world.pool /\ hit.key = run.subject[n]
    BY <2>4
  <2>6. /\ DOMAIN ResolveEvents(run.subject, world.pool) = DOMAIN run.subject
        /\ ResolveEvents(run.subject, world.pool)[n] = hit
    BY DEF ResolveEvents
  <2> HIDE DEF hit
  <2>7. hit = c
    BY <1>1, <1>2, <2>1, <2>5 DEF Known
  <2> QED BY <2>6, <2>7 DEF Range
<1> QED BY <1>3, <1>4 DEF PlannerInv, VerdictOK

LEMMA OffersFree == PlannerInv => OffersAreFree
<1> SUFFICES ASSUME PlannerInv, Judged, run.ok, run.blocked.available, ~run.stale,
                    NEW c \in Subjects, NEW i \in run.settled,
                    \A n \in DOMAIN run.plan : run.plan[n].key # c.key,
                    ~i.cancelled, Between(i, Day(Now), Horizon(run.mode)),
                    Slot(c) \in Day(Now) .. Horizon(run.mode)
             PROVE  ~Collides(c, i)
  BY DEF OffersAreFree
<1>1. PICK feed \in Feeds :
         /\ run.blocked = ParseCalendar(feed, Day(Now), Horizon(run.mode))
         /\ run.settled \subseteq feed
  BY DEF PlannerInv, BlockedOK, Judged
<1>2. feed # Garbage /\ i \in feed
  BY <1>1 DEF ParseCalendar, Unavailable
<1>3. i.from \in Int /\ (i.to = NoEnd \/ i.to \in Int)
  <2>1. i \in Items
    BY DEF PlannerInv, FilesOK
  <2> QED BY <2>1, WorldsAssumption DEF Items
<1>4. c.at \in Int
  <2>1. c \in world.pool \cup world.novelties
    BY DEF Subjects, Known
  <2> QED BY <2>1, WorldsAssumption DEF PlannerInv, PlannerTyped, EventOK
<1>5. Day(Now) \in Int /\ Horizon(run.mode) \in Int
  BY WorldsAssumption, DayIs DEF Horizon
<1>6. ~TimedConflict(c, run.blocked)
  <2>1. run.plan \in Seq(world.pool)
    BY DEF PlannerInv, FilesOK
  <2> DEFINE found(events) == CheckSchedule(events, run.booked, run.blocked)
                                  \cup CheckWorks(events, world.heard)
             x == [blockedKey |-> c.key, title |-> c.title, day |-> Slot(c)]
  <2>2. CASE run.mode = "weekly" /\ Fits(c, run.plan, run.booked, run.blocked, world.heard)
    <3> SUFFICES ASSUME TimedConflict(c, run.blocked) PROVE FALSE
      OBVIOUS
    <3>1. c \in Range(Append(run.plan, c))
      BY <2>1, AppendRange
    <3>2. x \in found(Append(run.plan, c))
      BY <3>1, CollisionComplained
    <3>3. x \in found(run.plan)
      BY <2>2, <3>2 DEF Fits
    <3>4. \E f \in Range(run.plan) : f.key = c.key
      BY <3>3, BlockedComplaint
    <3> QED BY <3>4 DEF Range
  <2>3. CASE /\ ScenarioOk(run.subject, world.pool, run.booked, run.blocked, world.heard)
             /\ c \in Range(ResolveEvents(run.subject, world.pool))
    BY <2>3, CollisionComplained DEF ScenarioOk
  <2> QED BY <2>2, <2>3, SubjectIs
<1> QED BY <1>1, <1>2, <1>3, <1>4, <1>5, <1>6, FreeOfItem

\* What the household has had in its calendar for longer than a cached copy may
\* live is never offered over.
THEOREM FreeTimeIsRespected == PlannerSpec => []OffersAreFree
BY RunsAreConsistent, OffersFree, PTL
-----------------------------------------------------------------------------
(* The rules, told over the events as they come *)

Sooner(value, m, n) == value[m] < value[n] \/ (value[m] = value[n] /\ m < n)

\* To be ahead is to come sooner, and nothing else.
Ordered(N, order, A, va) ==
    /\ N \in Nat /\ order \in Bijection(1 .. N, A)
    /\ \A j, k \in 1 .. N : j < k <=> Sooner(va, order[j], order[k])

LEMMA InOrderIs ==
  ASSUME NEW A, IsFiniteSet(A), A \subseteq Int,
         NEW va, \A n \in A : va[n] \in Int
  PROVE  Ordered(Cardinality(A), InOrder(A, va), A, va)
<1> DEFINE N == Cardinality(A)
           order == InOrder(A, va)
<1>0. N = Cardinality(A) /\ order = InOrder(A, va)
  OBVIOUS
<1> HIDE DEF order, N
<1>1. /\ N \in Nat /\ order \in [1 .. N -> A]
      /\ \A n \in A : \E k \in 1 .. N : order[k] = n
      /\ \A j, k \in 1 .. N : j < k =>
            \/ va[order[j]] < va[order[k]]
            \/ va[order[j]] = va[order[k]] /\ order[j] < order[k]
  <2>1. Sorts(N, order, A, va)
    BY <1>0, InOrderSorts
  <2> QED BY <2>1 DEF Sorts
<1>2. \A j, k \in 1 .. N : j < k => Sooner(va, order[j], order[k])
  BY <1>1 DEF Sooner
<1>3. \A m, n \in A : Sooner(va, m, n) => ~Sooner(va, n, m) /\ m # n
  <2> SUFFICES ASSUME NEW m \in A, NEW n \in A, Sooner(va, m, n)
               PROVE  ~Sooner(va, n, m) /\ m # n
    OBVIOUS
  <2>1. va[m] \in Int /\ va[n] \in Int /\ m \in Int /\ n \in Int
    OBVIOUS
  <2> QED BY <2>1 DEF Sooner
<1>4. \A j, k \in 1 .. N : order[j] \in A /\ (j # k => order[j] # order[k])
  <2> SUFFICES ASSUME NEW j \in 1 .. N, NEW k \in 1 .. N
               PROVE  order[j] \in A /\ (j # k => order[j] # order[k])
    OBVIOUS
  <2>1. order[j] \in A /\ order[k] \in A
    BY <1>1
  <2>2. j # k => j < k \/ k < j
    BY <1>1
  <2> QED BY <2>1, <2>2, <1>2, <1>3
<1>5. \A j, k \in 1 .. N : Sooner(va, order[j], order[k]) => j < k
  <2> SUFFICES ASSUME NEW j \in 1 .. N, NEW k \in 1 .. N,
                      Sooner(va, order[j], order[k]), ~(j < k)
               PROVE  FALSE
    OBVIOUS
  <2>1. j = k \/ k < j
    BY <1>1
  <2>2. order[j] \in A /\ order[k] \in A
    BY <1>1
  <2> QED BY <2>1, <2>2, <1>2, <1>3
<1>6. order \in Bijection(1 .. N, A)
  BY <1>1, <1>4 DEF Bijection, Injection, IsInjective, Surjection
<1>7. Ordered(N, order, A, va)
  BY <1>1, <1>2, <1>5, <1>6 DEF Ordered
<1> QED BY <1>7 DEF N, order

\* The order in which places are put is theirs alone: it is carried over by
\* whatever keeps who comes sooner.
Carried(A, va, B, vb, f) ==
    /\ IsFiniteSet(B) /\ Cardinality(B) = Cardinality(A)
    /\ InOrder(B, vb) = [k \in 1 .. Cardinality(A) |-> f[InOrder(A, va)[k]]]

LEMMA InOrderCarried ==
  ASSUME NEW A, IsFiniteSet(A), A \subseteq Int,
         NEW va, \A n \in A : va[n] \in Int,
         NEW B, B \subseteq Int,
         NEW vb, \A n \in B : vb[n] \in Int,
         NEW f \in Bijection(A, B),
         \A m, n \in A : Sooner(va, m, n) <=> Sooner(vb, f[m], f[n])
  PROVE  Carried(A, va, B, vb, f)
<1> DEFINE N == Cardinality(A)
           oa == InOrder(A, va)
           ob == InOrder(B, vb)
<1>1. IsFiniteSet(B) /\ Cardinality(B) = N
  BY FS_Bijection DEF ExistsBijection
<1>0. N = Cardinality(A) /\ oa = InOrder(A, va) /\ ob = InOrder(B, vb)
  OBVIOUS
<1> HIDE DEF N, oa, ob
<1>2. /\ N \in Nat /\ oa \in [1 .. N -> A]
      /\ \A k \in 1 .. N : Cardinality(Ahead(A, va, oa[k])) = k - 1
  <2>1. Sorts(N, oa, A, va)
    BY <1>0, InOrderSorts
  <2> QED BY <2>1 DEF Sorts
<1>3. /\ ob \in [1 .. N -> B]
      /\ \A n \in B : \E k \in 1 .. N : ob[k] = n
      /\ \A k \in 1 .. N : Cardinality(Ahead(B, vb, ob[k])) = k - 1
  <2>1. Sorts(N, ob, B, vb)
    BY <1>0, <1>1, InOrderSorts
  <2> QED BY <2>1 DEF Sorts
<1>4. /\ f \in [A -> B] /\ \A m, n \in A : f[m] = f[n] => m = n
      /\ \A b \in B : \E a \in A : f[a] = b
  BY DEF Bijection, Injection, Surjection, IsInjective
<1>5. ASSUME NEW n \in A
      PROVE  Cardinality(Ahead(B, vb, f[n])) = Cardinality(Ahead(A, va, n))
  <2> DEFINE S == Ahead(A, va, n)
             T == Ahead(B, vb, f[n])
             g == [m \in S |-> f[m]]
  <2>1. \A m \in S : m \in A /\ Sooner(va, m, n)
    BY DEF Ahead, Sooner
  <2>2. \A b : b \in T <=> b \in B /\ Sooner(vb, b, f[n])
    BY DEF Ahead, Sooner
  <2>3. \A m \in A : m \in S <=> Sooner(va, m, n)
    BY DEF Ahead, Sooner
  <2>4. IsFiniteSet(S)
    BY FS_Subset DEF Ahead
  <2> HIDE DEF S, T
  <2>5. g \in [S -> T]
    BY <1>4, <2>1, <2>2
  <2>6. \A b \in T : \E m \in S : g[m] = b
    BY <1>4, <2>2, <2>3
  <2>7. \A l, m \in S : g[l] = g[m] => l = m
    BY <1>4, <2>1
  <2> HIDE DEF g
  <2>8. g \in Bijection(S, T)
    BY <2>5, <2>6, <2>7 DEF Bijection, Injection, Surjection, IsInjective
  <2>9. Cardinality(T) = Cardinality(S)
    BY <2>4, <2>8, FS_Bijection DEF ExistsBijection
  <2> QED BY <2>9 DEF S, T
<1>6. \A k \in 1 .. N : ob[k] = f[oa[k]]
  <2> SUFFICES ASSUME NEW k \in 1 .. N PROVE ob[k] = f[oa[k]]
    OBVIOUS
  <2>1. oa[k] \in A /\ f[oa[k]] \in B /\ Cardinality(Ahead(B, vb, f[oa[k]])) = k - 1
    BY <1>2, <1>4, <1>5
  <2>2. PICK j \in 1 .. N : ob[j] = f[oa[k]]
    BY <1>3, <2>1
  <2>3. j - 1 = k - 1
    BY <1>3, <2>1, <2>2
  <2>4. j = k
    BY <1>2, <2>3
  <2> QED BY <2>2, <2>4
<1>7. ob = [k \in 1 .. N |-> f[oa[k]]]
  BY <1>3, <1>6
<1> QED BY <1>1, <1>7 DEF N, oa, ob, Carried

\* The least and the greatest of finitely many numbers.
LEMMA MinMaxIs ==
  ASSUME NEW S, IsFiniteSet(S), S \subseteq Int, S # {}
  PROVE  /\ Min(S) \in S /\ \A x \in S : Min(S) <= x
         /\ Max(S) \in S /\ \A x \in S : x <= Max(S)
<1> DEFINE N == Cardinality(S)
           va == [n \in S |-> n]
           order == InOrder(S, va)
<1>1. \A n \in S : va[n] \in Int /\ va[n] = n
  OBVIOUS
<1>0. N = Cardinality(S) /\ order = InOrder(S, va)
  OBVIOUS
<1> HIDE DEF order, N, va
<1>2. /\ N \in Nat /\ order \in [1 .. N -> S]
      /\ \A n \in S : \E k \in 1 .. N : order[k] = n
      /\ \A j, k \in 1 .. N : j < k =>
            \/ va[order[j]] < va[order[k]]
            \/ va[order[j]] = va[order[k]] /\ order[j] < order[k]
  <2>1. Sorts(N, order, S, va)
    BY <1>0, <1>1, InOrderSorts
  <2> QED BY <2>1 DEF Sorts
<1>3. \A j, k \in 1 .. N : j < k => order[j] <= order[k]
  <2> SUFFICES ASSUME NEW j \in 1 .. N, NEW k \in 1 .. N, j < k
               PROVE  order[j] <= order[k]
    OBVIOUS
  <2>1. order[j] \in S /\ order[k] \in S /\ order[j] \in Int /\ order[k] \in Int
    BY <1>2
  <2> QED BY <1>1, <1>2, <2>1
<1>4. 1 \in 1 .. N /\ N \in 1 .. N
  <2>0. PICK x \in S : TRUE
    OBVIOUS
  <2>1. \E k \in 1 .. N : order[k] = x
    BY <1>2
  <2> QED BY <1>2, <2>1
<1>5. /\ order[1] \in S /\ \A x \in S : order[1] <= x
      /\ order[N] \in S /\ \A x \in S : x <= order[N]
  <2> SUFFICES ASSUME NEW x \in S PROVE order[1] <= x /\ x <= order[N]
    BY <1>2, <1>4
  <2>1. PICK k \in 1 .. N : order[k] = x
    BY <1>2
  <2>2. (1 = k \/ 1 < k) /\ (k = N \/ k < N) /\ x \in Int
    BY <1>2, <2>1
  <2> QED BY <1>3, <1>4, <2>1, <2>2
<1> QED BY <1>5 DEF Min, Max

Slots(s) == [n \in DOMAIN s |-> Slot(s[n])]
\* The places of a week, and the titles of its events in their order.
In(s, w) == {n \in DOMAIN s : Week(Slot(s[n])) = w}
Titles(s, w) ==
    [k \in 1 .. Cardinality(In(s, w)) |-> s[InOrder(In(s, w), Slots(s))[k]].title]

\* dated is s by date: its n-th event is the one at place order[n] of s.
ByDate(s, dated, order) ==
    /\ Len(s) \in Nat /\ DOMAIN s = 1 .. Len(s)
    /\ IsFiniteSet(DOMAIN s) /\ Cardinality(DOMAIN s) = Len(s)
    /\ order \in Bijection(DOMAIN s, DOMAIN s)
    /\ dated = [k \in DOMAIN s |-> s[order[k]]]
    /\ DOMAIN dated = DOMAIN s /\ Len(dated) = Len(s)
    /\ \A j, k \in DOMAIN s : j < k <=> Sooner(Slots(s), order[j], order[k])

LEMMA SlotsAre ==
  ASSUME NEW S, \A e \in S : e.at \in Int, NEW s \in Seq(S)
  PROVE  \A n \in DOMAIN s : Slots(s)[n] = Slot(s[n]) /\ Slots(s)[n] \in Int
<1> SUFFICES ASSUME NEW n \in DOMAIN s PROVE Slots(s)[n] = Slot(s[n]) /\ Slots(s)[n] \in Int
  OBVIOUS
<1>1. Slots(s)[n] = Slot(s[n])
  BY DEF Slots
<1>2. s[n] \in S
  BY ElementOfSeq, LenProperties
<1> QED BY <1>1, <1>2, DayIs, HoursAssumption DEF Slot

LEMMA DatedIs ==
  ASSUME NEW S, \A e \in S : e.at \in Int, NEW s \in Seq(S)
  PROVE  ByDate(s, Dated(s), InOrder(DOMAIN s, Slots(s)))
<1> DEFINE order == InOrder(DOMAIN s, Slots(s))
           dated == Dated(s)
<1>1. \A n \in DOMAIN s : Slots(s)[n] \in Int
  BY SlotsAre
<1>2. /\ Len(s) \in Nat /\ Cardinality(DOMAIN s) = Len(s)
      /\ SortedBy(s, Slots(s)) = [k \in 1 .. Len(s) |-> s[order[k]]]
      /\ SortedBy(s, Slots(s)) \in Seq(S)
      /\ Len(SortedBy(s, Slots(s))) = Len(s)
  BY <1>1, SortedByIs
<1>3. Len(s) \in Nat /\ DOMAIN s = 1 .. Len(s)
  BY LenProperties
<1>4. IsFiniteSet(DOMAIN s) /\ DOMAIN s \subseteq Int
  BY <1>3, FS_Interval
<1>5. Ordered(Cardinality(DOMAIN s), order, DOMAIN s, Slots(s))
  BY <1>1, <1>4, InOrderIs
<1>6. dated = SortedBy(s, Slots(s))
  BY DEF Dated, Slots
<1> HIDE DEF order, dated
<1>7. Ordered(Len(s), order, DOMAIN s, Slots(s))
  BY <1>2, <1>5
<1>8. /\ order \in Bijection(DOMAIN s, DOMAIN s)
      /\ \A j, k \in DOMAIN s : j < k <=> Sooner(Slots(s), order[j], order[k])
  BY <1>3, <1>7 DEF Ordered
<1>9. dated = [k \in DOMAIN s |-> s[order[k]]] /\ DOMAIN dated = DOMAIN s /\ Len(dated) = Len(s)
  BY <1>2, <1>3, <1>6
<1>10. ByDate(s, dated, order)
  BY <1>2, <1>3, <1>4, <1>8, <1>9 DEF ByDate
<1> QED BY <1>10 DEF dated, order

LEMMA InIs ==
  ASSUME NEW S, \A e \in S : e.at \in Int, NEW s \in Seq(S), NEW w
  PROVE  /\ In(s, w) \subseteq DOMAIN s /\ IsFiniteSet(In(s, w)) /\ In(s, w) \subseteq Int
         /\ Cardinality(In(s, w)) \in Nat
         /\ \A n \in In(s, w) : Slots(s)[n] \in Int
<1>1. In(s, w) \subseteq DOMAIN s /\ DOMAIN s = 1 .. Len(s) /\ Len(s) \in Nat
  BY LenProperties DEF In
<1>2. IsFiniteSet(DOMAIN s)
  BY <1>1, FS_Interval
<1>3. IsFiniteSet(In(s, w))
  BY <1>1, <1>2, FS_Subset
<1> QED BY <1>1, <1>3, FS_CardinalityType, SlotsAre

\* A week by date has the events of the week in their order.
LEMMA WeekByDate ==
  ASSUME NEW S, \A e \in S : e.at \in Int, NEW s \in Seq(S), NEW w
  PROVE  LET dated == Dated(s)
             places == {n \in DOMAIN dated : Week(Slot(dated[n])) = w}
             order == InOrder(places, [n \in DOMAIN dated |-> n])
         IN  /\ Cardinality(places) = Cardinality(In(s, w))
             /\ [k \in DOMAIN order |-> dated[order[k]].title] = Titles(s, w)
<1> DEFINE dated == Dated(s)
           by == InOrder(DOMAIN s, Slots(s))
           places == {n \in DOMAIN dated : Week(Slot(dated[n])) = w}
           id == [n \in DOMAIN dated |-> n]
           order == InOrder(places, id)
           f == [n \in places |-> by[n]]
<1>1. ByDate(s, dated, by)
  BY DatedIs
<1> HIDE DEF dated, by
<1>2. /\ Len(s) \in Nat /\ DOMAIN s = 1 .. Len(s) /\ DOMAIN dated = DOMAIN s
      /\ by \in Bijection(DOMAIN s, DOMAIN s)
      /\ \A k \in DOMAIN s : dated[k] = s[by[k]]
      /\ \A j, k \in DOMAIN s : j < k <=> Sooner(Slots(s), by[j], by[k])
  BY <1>1 DEF ByDate
<1>3. /\ by \in [DOMAIN s -> DOMAIN s]
      /\ \A j, k \in DOMAIN s : by[j] = by[k] => j = k
      /\ \A n \in DOMAIN s : \E k \in DOMAIN s : by[k] = n
  BY <1>2 DEF Bijection, Injection, Surjection, IsInjective
<1>4. /\ In(s, w) \subseteq DOMAIN s /\ IsFiniteSet(In(s, w)) /\ In(s, w) \subseteq Int
      /\ \A n \in In(s, w) : Slots(s)[n] \in Int
  BY InIs
<1>5. \A n \in DOMAIN s : n \in places <=> by[n] \in In(s, w)
  BY <1>2, <1>3 DEF In
<1>6. places \subseteq DOMAIN s /\ places \subseteq Int /\ \A n \in places : id[n] = n /\ id[n] \in Int
  BY <1>2
<1>7. IsFiniteSet(places)
  <2>1. IsFiniteSet(DOMAIN s)
    BY <1>2, FS_Interval
  <2> QED BY <1>6, <2>1, FS_Subset
<1> HIDE DEF places, id
<1>8. f \in Bijection(places, In(s, w))
  <2>1. f \in [places -> In(s, w)]
    BY <1>5, <1>6
  <2>2. \A m, n \in places : f[m] = f[n] => m = n
    BY <1>3, <1>6
  <2>3. \A n \in In(s, w) : \E m \in places : f[m] = n
    BY <1>3, <1>4, <1>5
  <2> HIDE DEF f
  <2> QED BY <2>1, <2>2, <2>3 DEF Bijection, Injection, Surjection, IsInjective
<1>9. \A m, n \in places : Sooner(id, m, n) <=> Sooner(Slots(s), f[m], f[n])
  <2>1. \A m, n \in places : Sooner(id, m, n) <=> m < n
    BY <1>6 DEF Sooner
  <2>2. \A n \in places : f[n] = by[n]
    OBVIOUS
  <2> QED BY <1>2, <1>6, <2>1, <2>2
<1>10. \A n \in places : f[n] = by[n]
  OBVIOUS
<1> HIDE DEF f
<1>11. /\ Cardinality(In(s, w)) = Cardinality(places)
       /\ InOrder(In(s, w), Slots(s)) = [k \in 1 .. Cardinality(places) |-> f[InOrder(places, id)[k]]]
  <2>1. Carried(places, id, In(s, w), Slots(s), f)
    BY <1>4, <1>6, <1>7, <1>8, <1>9, InOrderCarried
  <2> QED BY <2>1 DEF Carried
<1>12. Ordered(Cardinality(places), order, places, id)
  BY <1>6, <1>7, InOrderIs
<1> DEFINE N == Cardinality(places)
<1>13. order \in [1 .. N -> places]
  BY <1>12 DEF Ordered, Bijection, Injection
<1> HIDE DEF N, order
<1>14. InOrder(In(s, w), Slots(s)) = [k \in 1 .. N |-> f[order[k]]]
  BY <1>11 DEF N, order
<1>15. \A k \in 1 .. N : dated[order[k]] = s[InOrder(In(s, w), Slots(s))[k]]
  BY <1>2, <1>6, <1>10, <1>13, <1>14
<1>16. DOMAIN order = 1 .. N /\ Cardinality(In(s, w)) = N
  BY <1>11, <1>13 DEF N
<1>17. [k \in DOMAIN order |-> dated[order[k]].title] = Titles(s, w)
  BY <1>15, <1>16 DEF Titles
<1> QED BY <1>11, <1>17 DEF N, order, dated, places, id

Full(s, w) == In(s, w) # {} /\ Cardinality(In(s, w)) > WeekCap

LEMMA WeeksOverIs ==
  ASSUME NEW S, \A e \in S : e.at \in Int, NEW s \in Seq(S), NEW x
  PROVE  x \in WeeksOver(Dated(s)) <=>
            \E w : Full(s, w) /\ x = [week |-> w, titles |-> Titles(s, w)]
<1> DEFINE dated == Dated(s)
           places(w) == {n \in DOMAIN dated : Week(Slot(dated[n])) = w}
           order(w) == InOrder(places(w), [n \in DOMAIN dated |-> n])
           weeks == {v \in {Week(Slot(dated[n])) : n \in DOMAIN dated} :
                        Cardinality(places(v)) > WeekCap}
           titles(w) == [k \in DOMAIN order(w) |-> dated[order(w)[k]].title]
<1>1. \A w : /\ Cardinality(places(w)) = Cardinality(In(s, w))
             /\ titles(w) = Titles(s, w)
  BY WeekByDate
<1>2. ByDate(s, dated, InOrder(DOMAIN s, Slots(s)))
  BY DatedIs
<1>3. WeeksOver(dated) = {[week |-> w, titles |-> titles(w)] : w \in weeks}
  BY DEF WeeksOver
<1>4. \A w : w \in weeks <=> Full(s, w)
  <2> DEFINE by == InOrder(DOMAIN s, Slots(s))
  <2> HIDE DEF dated, by, titles
  <2>1. /\ DOMAIN dated = DOMAIN s
        /\ \A k \in DOMAIN s : by[k] \in DOMAIN s /\ dated[k] = s[by[k]]
        /\ \A n \in DOMAIN s : \E k \in DOMAIN s : by[k] = n
    BY <1>2 DEF by, ByDate, Bijection, Injection, Surjection
  <2>2. \A w : w \in {Week(Slot(dated[n])) : n \in DOMAIN dated} <=> In(s, w) # {}
    <3>1. ASSUME NEW w, w \in {Week(Slot(dated[n])) : n \in DOMAIN dated}
          PROVE  In(s, w) # {}
      <4>1. PICK k \in DOMAIN dated : w = Week(Slot(dated[k]))
        BY <3>1
      <4>2. by[k] \in In(s, w)
        BY <2>1, <4>1 DEF In
      <4> QED BY <4>2
    <3>2. ASSUME NEW w, NEW n \in In(s, w)
          PROVE  w \in {Week(Slot(dated[k])) : k \in DOMAIN dated}
      <4>1. n \in DOMAIN s /\ w = Week(Slot(s[n]))
        BY DEF In
      <4>2. PICK k \in DOMAIN s : by[k] = n
        BY <2>1, <4>1
      <4> QED BY <2>1, <4>1, <4>2
    <3> QED BY <3>1, <3>2
  <2> HIDE DEF places
  <2> QED BY <1>1, <2>2 DEF Full
<1> HIDE DEF dated, titles, weeks
<1> QED BY <1>1, <1>3, <1>4 DEF dated

\* The place that comes next.
Neighbours(s, m, n) ==
    /\ m \in DOMAIN s /\ n \in DOMAIN s /\ Sooner(Slots(s), m, n)
    /\ \A l \in DOMAIN s : ~(Sooner(Slots(s), m, l) /\ Sooner(Slots(s), l, n))

GapOf(a, b) == [a |-> <<a.title, Slot(a)>>, b |-> <<b.title, Slot(b)>>]

LEMMA GapsIs ==
  ASSUME NEW S, \A e \in S : e.at \in Int, NEW s \in Seq(S), NEW x
  PROVE  x \in Gaps(Dated(s)) <=>
            \E m, n \in DOMAIN s :
                Neighbours(s, m, n) /\ Close(s[m], s[n]) /\ x = GapOf(s[m], s[n])
<1> DEFINE dated == Dated(s)
           by == InOrder(DOMAIN s, Slots(s))
<1>1. ByDate(s, dated, by)
  BY DatedIs
<1>2. x \in Gaps(dated) <=>
         \E k \in 1 .. Len(dated) - 1 :
             Close(dated[k], dated[k + 1]) /\ x = GapOf(dated[k], dated[k + 1])
  BY DEF Gaps, Close, GapOf
<1> HIDE DEF dated, by
<1>3. /\ Len(s) \in Nat /\ DOMAIN s = 1 .. Len(s) /\ Len(dated) = Len(s)
      /\ \A k \in DOMAIN s : by[k] \in DOMAIN s /\ dated[k] = s[by[k]]
      /\ \A n \in DOMAIN s : \E k \in DOMAIN s : by[k] = n
      /\ \A j, k \in DOMAIN s : j < k <=> Sooner(Slots(s), by[j], by[k])
  BY <1>1 DEF ByDate, Bijection, Injection, Surjection
<1>4. ASSUME NEW k \in 1 .. Len(dated) - 1,
             Close(dated[k], dated[k + 1]), x = GapOf(dated[k], dated[k + 1])
      PROVE  \E m, n \in DOMAIN s :
                 Neighbours(s, m, n) /\ Close(s[m], s[n]) /\ x = GapOf(s[m], s[n])
  <2>1. k \in DOMAIN s /\ k + 1 \in DOMAIN s /\ k < k + 1
    BY <1>3
  <2> DEFINE m == by[k]
             n == by[k + 1]
  <2>2. m \in DOMAIN s /\ n \in DOMAIN s /\ dated[k] = s[m] /\ dated[k + 1] = s[n]
    BY <1>3, <2>1
  <2>3. Sooner(Slots(s), m, n)
    BY <1>3, <2>1
  <2>4. ASSUME NEW l \in DOMAIN s, Sooner(Slots(s), m, l), Sooner(Slots(s), l, n)
        PROVE  FALSE
    <3>1. PICK j \in DOMAIN s : by[j] = l
      BY <1>3
    <3>2. k < j /\ j < k + 1
      BY <1>3, <2>1, <2>4, <3>1
    <3> QED BY <1>3, <2>1, <3>2
  <2> HIDE DEF m, n
  <2>5. Neighbours(s, m, n)
    BY <2>2, <2>3, <2>4 DEF Neighbours
  <2> QED BY <1>4, <2>2, <2>5
<1>5. ASSUME NEW m \in DOMAIN s, NEW n \in DOMAIN s,
             Neighbours(s, m, n), Close(s[m], s[n]), x = GapOf(s[m], s[n])
      PROVE  \E k \in 1 .. Len(dated) - 1 :
                 Close(dated[k], dated[k + 1]) /\ x = GapOf(dated[k], dated[k + 1])
  <2>1. PICK j \in DOMAIN s : by[j] = m
    BY <1>3
  <2>2. PICK k \in DOMAIN s : by[k] = n
    BY <1>3
  <2>3. j < k
    BY <1>3, <1>5, <2>1, <2>2 DEF Neighbours
  <2>4. j + 1 \in DOMAIN s /\ j < j + 1 /\ j \in 1 .. Len(dated) - 1
    <3>1. j \in 1 .. Len(s) /\ k \in 1 .. Len(s) /\ Len(s) \in Nat
      BY <1>3
    <3>2. j + 1 \in 1 .. Len(s) /\ j < j + 1 /\ j \in 1 .. Len(s) - 1
      BY <2>3, <3>1
    <3>3. DOMAIN s = 1 .. Len(s) /\ Len(dated) = Len(s)
      BY <1>3
    <3> QED BY <3>2, <3>3
  <2>5. k = j + 1
    <3>1. SUFFICES ASSUME j + 1 < k PROVE FALSE
      BY <1>3, <2>3
    <3>2. /\ Sooner(Slots(s), m, by[j + 1]) /\ Sooner(Slots(s), by[j + 1], n)
          /\ by[j + 1] \in DOMAIN s
      BY <1>3, <2>1, <2>2, <2>4, <3>1
    <3> QED BY <1>5, <3>2 DEF Neighbours
  <2>6. dated[j] = s[m] /\ dated[j + 1] = s[n]
    BY <1>3, <2>1, <2>2, <2>5
  <2> QED BY <1>5, <2>4, <2>6
<1> QED BY <1>2, <1>4, <1>5 DEF dated

\* An event close to another that no season event hides is close to a neighbour.
LEMMA CloseToNeighbour ==
  ASSUME NEW S, \A e \in S : e.at \in Int, NEW s \in Seq(S),
         NEW m \in DOMAIN s, NEW n \in DOMAIN s, m # n, Close(s[m], s[n]),
         ~Hidden(s[m], s[n], s)
  PROVE  \E l \in DOMAIN s :
            Close(s[l], s[n]) /\ (Neighbours(s, l, n) \/ Neighbours(s, n, l))
<1> DEFINE dated == Dated(s)
           by == InOrder(DOMAIN s, Slots(s))
<1>1. ByDate(s, dated, by)
  BY DatedIs
<1> HIDE DEF dated, by
<1>2. /\ Len(s) \in Nat /\ DOMAIN s = 1 .. Len(s)
      /\ \A k \in DOMAIN s : by[k] \in DOMAIN s
      /\ \A l \in DOMAIN s : \E k \in DOMAIN s : by[k] = l
      /\ \A j, k \in DOMAIN s : j < k <=> Sooner(Slots(s), by[j], by[k])
  BY <1>1 DEF ByDate, Bijection, Injection, Surjection
<1>3. \A l \in DOMAIN s : Slots(s)[l] = Slot(s[l]) /\ Slots(s)[l] \in Int
  BY SlotsAre
<1>4. \A j, k \in DOMAIN s : j <= k => Slot(s[by[j]]) <= Slot(s[by[k]])
  <2> SUFFICES ASSUME NEW j \in DOMAIN s, NEW k \in DOMAIN s, j <= k
               PROVE  Slot(s[by[j]]) <= Slot(s[by[k]])
    OBVIOUS
  <2>1. /\ Slots(s)[by[j]] = Slot(s[by[j]]) /\ Slots(s)[by[j]] \in Int
        /\ Slots(s)[by[k]] = Slot(s[by[k]]) /\ Slots(s)[by[k]] \in Int
    BY <1>2, <1>3
  <2>2. j = k \/ j < k
    BY <1>2
  <2>3. j < k => Sooner(Slots(s), by[j], by[k])
    BY <1>2
  <2> QED BY <2>1, <2>2, <2>3 DEF Sooner
<1>5. \A l \in DOMAIN s : s[l] \in Range(s)
  BY DEF Range
<1>6. ASSUME NEW k \in DOMAIN s, k + 1 \in DOMAIN s
      PROVE  Neighbours(s, by[k], by[k + 1])
  <2>1. /\ by[k] \in DOMAIN s /\ by[k + 1] \in DOMAIN s
        /\ Sooner(Slots(s), by[k], by[k + 1])
    <3>1. k < k + 1
      BY <1>2
    <3> QED BY <1>2, <1>6, <3>1
  <2>2. ASSUME NEW l \in DOMAIN s, Sooner(Slots(s), by[k], l),
               Sooner(Slots(s), l, by[k + 1])
        PROVE  FALSE
    <3>1. PICK j \in DOMAIN s : by[j] = l
      BY <1>2
    <3>2. k < j /\ j < k + 1
      BY <1>2, <1>6, <2>2, <3>1
    <3> QED BY <1>2, <3>2
  <2> QED BY <2>1, <2>2 DEF Neighbours
<1>7. PICK j \in DOMAIN s : by[j] = m
  BY <1>2
<1>8. PICK k \in DOMAIN s : by[k] = n
  BY <1>2
<1>9. /\ DayDiff(Slot(s[m]), Slot(s[n])) < MinGapDays
      /\ ~s[m].seasonEvent /\ ~s[n].seasonEvent
      /\ \A e \in Range(s) :
            e.seasonEvent => /\ Slot(e) \notin Slot(s[m]) .. Slot(s[n])
                             /\ Slot(e) \notin Slot(s[n]) .. Slot(s[m])
  BY DEF Close, Hidden
<1>10. Slot(s[m]) \in Int /\ Slot(s[n]) \in Int /\ MinGapDays \in Int
  BY <1>3, RulesAssumption
<1>11. CASE j < k
  <2>1. k - 1 \in DOMAIN s /\ j <= k - 1 /\ k - 1 <= k
    <3>1. j \in 1 .. Len(s) /\ k \in 1 .. Len(s) /\ Len(s) \in Nat
      BY <1>2
    <3>2. k - 1 \in 1 .. Len(s) /\ j <= k - 1 /\ k - 1 <= k
      BY <1>11, <3>1
    <3>3. DOMAIN s = 1 .. Len(s)
      BY <1>2
    <3> QED BY <3>2, <3>3
  <2> DEFINE l == by[k - 1]
  <2>2. /\ l \in DOMAIN s /\ s[l] \in Range(s) /\ Slot(s[l]) \in Int
        /\ Slot(s[m]) <= Slot(s[l]) /\ Slot(s[l]) <= Slot(s[n])
    <3>1. Slot(s[by[j]]) <= Slot(s[l]) /\ Slot(s[l]) <= Slot(s[by[k]])
      BY Zenon, <1>4, <2>1
    <3>2. l \in DOMAIN s
      BY Zenon, <1>2, <2>1
    <3> HIDE DEF l
    <3>3. s[l] \in Range(s) /\ Slot(s[l]) \in Int
      BY <1>3, <1>5, <3>2
    <3> QED BY Zenon, <1>7, <1>8, <3>1, <3>2, <3>3
  <2>3. Neighbours(s, l, n)
    <3>1. (k - 1) + 1 = k
      BY <1>2
    <3>2. k - 1 \in DOMAIN s /\ (k - 1) + 1 \in DOMAIN s
      BY <2>1, <3>1
    <3>3. Neighbours(s, by[k - 1], by[(k - 1) + 1])
      BY <1>6, <3>2
    <3> QED BY <1>8, <3>1, <3>3
  <2> HIDE DEF l
  <2>4. ~s[l].seasonEvent
    BY <1>9, <1>10, <2>2
  <2>5. DayDiff(Slot(s[l]), Slot(s[n])) < MinGapDays
    BY <1>9, <1>10, <2>2 DEF DayDiff
  <2> QED BY <1>9, <2>2, <2>3, <2>4, <2>5 DEF Close
<1>12. CASE k < j
  <2>1. k + 1 \in DOMAIN s /\ k + 1 <= j /\ k <= k + 1
    <3>1. j \in 1 .. Len(s) /\ k \in 1 .. Len(s) /\ Len(s) \in Nat
      BY <1>2
    <3>2. k + 1 \in 1 .. Len(s) /\ k + 1 <= j /\ k <= k + 1
      BY <1>12, <3>1
    <3>3. DOMAIN s = 1 .. Len(s)
      BY <1>2
    <3> QED BY <3>2, <3>3
  <2> DEFINE l == by[k + 1]
  <2>2. /\ l \in DOMAIN s /\ s[l] \in Range(s) /\ Slot(s[l]) \in Int
        /\ Slot(s[n]) <= Slot(s[l]) /\ Slot(s[l]) <= Slot(s[m])
    <3>1. Slot(s[by[k]]) <= Slot(s[l]) /\ Slot(s[l]) <= Slot(s[by[j]])
      BY Zenon, <1>4, <2>1
    <3>2. l \in DOMAIN s
      BY Zenon, <1>2, <2>1
    <3> HIDE DEF l
    <3>3. s[l] \in Range(s) /\ Slot(s[l]) \in Int
      BY <1>3, <1>5, <3>2
    <3> QED BY Zenon, <1>7, <1>8, <3>1, <3>2, <3>3
  <2>3. Neighbours(s, n, l)
    BY <1>6, <1>8, <2>1
  <2> HIDE DEF l
  <2>4. ~s[l].seasonEvent
    BY <1>9, <1>10, <2>2
  <2>5. DayDiff(Slot(s[l]), Slot(s[n])) < MinGapDays
    BY <1>9, <1>10, <2>2 DEF DayDiff
  <2> QED BY <1>9, <2>2, <2>3, <2>4, <2>5 DEF Close
<1>13. j < k \/ k < j
  <2>1. DOMAIN s = 1 .. Len(s)
    BY <1>2
  <2>2. j \in Int /\ k \in Int
    BY <2>1
  <2>3. j # k
    BY <1>7, <1>8
  <2> QED BY <2>2, <2>3
<1> QED BY <1>11, <1>12, <1>13

\* all is base with one more event, c at place me; shift says where the others are.
Inserted(base, all, me, c, shift) ==
    /\ me \in DOMAIN all /\ all[me] = c
    /\ shift \in Bijection(DOMAIN base, DOMAIN all \ {me})
    /\ \A n \in DOMAIN base : all[shift[n]] = base[n]
    /\ \A m, n \in DOMAIN base :
          Sooner(Slots(base), m, n) <=> Sooner(Slots(all), shift[m], shift[n])

LEMMA AppendInserts ==
  ASSUME NEW S, \A e \in S : e.at \in Int, NEW selected \in Seq(S), NEW others \in Seq(S),
         NEW c \in S
  PROVE  \E shift : Inserted(selected \o others, Append(selected, c) \o others,
                             Len(selected) + 1, c, shift)
<1> DEFINE base == selected \o others
           more == Append(selected, c)
           all == more \o others
           L == Len(selected)
           M == Len(others)
           me == L + 1
           shift == [n \in DOMAIN base |-> IF n < me THEN n ELSE n + 1]
<1>1. L \in Nat /\ M \in Nat
  BY LenProperties
<1>2. more \in Seq(S) /\ Len(more) = L + 1 /\ more[L + 1] = c
      /\ \A n \in 1 .. L : more[n] = selected[n]
  OBVIOUS
<1>3. /\ base \in Seq(S) /\ DOMAIN base = 1 .. L + M
      /\ \A n \in 1 .. L : base[n] = selected[n]
      /\ \A n \in L + 1 .. L + M : base[n] = others[n - L]
  BY <1>1, ConcatProperties
<1> HIDE DEF more
<1>4. /\ all \in Seq(S) /\ DOMAIN all = 1 .. L + 1 + M
      /\ \A n \in 1 .. L + 1 : all[n] = more[n]
      /\ \A n \in L + 2 .. L + 1 + M : all[n] = others[n - (L + 1)]
  <2>1. more \in Seq(S) /\ Len(more) = L + 1 /\ L + 1 \in Nat
    BY <1>1, <1>2
  <2>2. /\ all \in Seq(S) /\ Len(all) = Len(more) + M
        /\ \A n \in 1 .. Len(more) + M :
              all[n] = IF n <= Len(more) THEN more[n] ELSE others[n - Len(more)]
    BY <2>1, ConcatProperties
  <2> HIDE DEF all, L, M
  <2>3. DOMAIN all = 1 .. L + 1 + M
    BY <1>1, <2>1, <2>2, LenProperties
  <2>4. \A n \in 1 .. L + 1 + M : all[n] = IF n <= L + 1 THEN more[n] ELSE others[n - (L + 1)]
    BY <2>1, <2>2
  <2> QED BY <1>1, <2>2, <2>3, <2>4
<1> HIDE DEF base, all, L, M
<1>5. me \in DOMAIN all /\ all[me] = c
  BY <1>1, <1>2, <1>4
<1>6. \A n \in 1 .. L + M : shift[n] = (IF n < me THEN n ELSE n + 1)
  BY <1>3
<1>7. \A n \in 1 .. L + M : shift[n] \in 1 .. L + 1 + M /\ shift[n] # me
  BY <1>1, <1>6
<1>8. \A n \in 1 .. L + M : all[shift[n]] = base[n]
  <2> SUFFICES ASSUME NEW n \in 1 .. L + M PROVE all[shift[n]] = base[n]
    OBVIOUS
  <2>1. CASE n <= L
    <3>1. n \in 1 .. L /\ n \in 1 .. L + 1 /\ shift[n] = n
      BY <1>1, <1>6, <2>1
    <3> QED BY <1>2, <1>3, <1>4, <3>1
  <2>2. CASE n > L
    <3>1. /\ n \in L + 1 .. L + M /\ n + 1 \in L + 2 .. L + 1 + M /\ shift[n] = n + 1
          /\ (n + 1) - (L + 1) = n - L
      BY <1>1, <1>6, <2>2
    <3>2. all[n + 1] = others[(n + 1) - (L + 1)] /\ base[n] = others[n - L]
      BY <1>3, <1>4, <3>1
    <3> QED BY <3>1, <3>2
  <2> QED BY <1>1, <2>1, <2>2
<1>9. \A m, n \in 1 .. L + M : m < n <=> shift[m] < shift[n]
  BY <1>1, <1>6
<1>10. \A k \in 1 .. L + 1 + M : k # me => \E n \in 1 .. L + M : shift[n] = k
  <2> SUFFICES ASSUME NEW k \in 1 .. L + 1 + M, k # me
               PROVE  \E n \in 1 .. L + M : shift[n] = k
    OBVIOUS
  <2>1. CASE k < me
    <3>1. k \in 1 .. L + M /\ shift[k] = k
      BY <1>1, <1>6, <2>1
    <3> QED BY <3>1
  <2>2. CASE k > me
    <3>1. k - 1 \in 1 .. L + M /\ ~(k - 1 < me) /\ (k - 1) + 1 = k
      BY <1>1, <2>2
    <3>2. shift[k - 1] = k
      BY <1>6, <3>1
    <3> QED BY <3>1, <3>2
  <2> QED BY <1>1, <2>1, <2>2
<1>11. shift \in Bijection(DOMAIN base, DOMAIN all \ {me})
  <2>1. shift \in [DOMAIN base -> DOMAIN all \ {me}]
    BY <1>3, <1>4, <1>7
  <2>2. \A m, n \in 1 .. L + M : shift[m] = shift[n] => m = n
    BY <1>1, <1>6
  <2> HIDE DEF shift, me
  <2> QED BY <1>3, <1>4, <1>10, <2>1, <2>2
        DEF Bijection, Injection, Surjection, IsInjective
<1>12. \A m, n \in DOMAIN base :
          Sooner(Slots(base), m, n) <=> Sooner(Slots(all), shift[m], shift[n])
  <2> SUFFICES ASSUME NEW m \in DOMAIN base, NEW n \in DOMAIN base
               PROVE  Sooner(Slots(base), m, n) <=> Sooner(Slots(all), shift[m], shift[n])
    OBVIOUS
  <2>1. /\ shift[m] \in DOMAIN all /\ shift[n] \in DOMAIN all
        /\ all[shift[m]] = base[m] /\ all[shift[n]] = base[n]
        /\ m < n <=> shift[m] < shift[n]
    BY <1>3, <1>4, <1>7, <1>8, <1>9
  <2> HIDE DEF shift
  <2>2. /\ Slots(base)[m] = Slot(base[m]) /\ Slots(base)[n] = Slot(base[n])
        /\ Slots(all)[shift[m]] = Slot(base[m]) /\ Slots(all)[shift[n]] = Slot(base[n])
    BY <2>1 DEF Slots
  <2> QED BY <2>1, <2>2 DEF Sooner
<1> HIDE DEF me, shift
<1>13. Inserted(base, all, me, c, shift)
  BY <1>3, <1>5, <1>8, <1>11, <1>12 DEF Inserted
<1> QED BY <1>13 DEF base, all, more, me, L

LEMMA InsertedIs ==
  ASSUME NEW base, NEW all, NEW me, NEW c, NEW shift, Inserted(base, all, me, c, shift)
  PROVE  /\ \A n \in DOMAIN base : shift[n] \in DOMAIN all /\ shift[n] # me
         /\ \A m, n \in DOMAIN base : shift[m] = shift[n] => m = n
         /\ \A k \in DOMAIN all : k # me => \E n \in DOMAIN base : shift[n] = k
BY DEF Inserted, Bijection, Injection, Surjection, IsInjective

\* The other events of a week are those it had.
LEMMA SameWeek ==
  ASSUME NEW S, \A e \in S : e.at \in Int, NEW base \in Seq(S), NEW all \in Seq(S),
         NEW me, NEW c, NEW shift, Inserted(base, all, me, c, shift), NEW w
  PROVE  /\ w # Week(Slot(c)) /\ Full(all, w)
               => Full(base, w) /\ Titles(all, w) = Titles(base, w)
         /\ w = Week(Slot(c)) => Cardinality(In(all, w)) = Cardinality(In(base, w)) + 1
<1> DEFINE A == In(base, w)
           B == In(all, w) \ {me}
           f == [n \in A |-> shift[n]]
<1>1. /\ A \subseteq DOMAIN base /\ IsFiniteSet(A) /\ A \subseteq Int
      /\ \A n \in A : Slots(base)[n] \in Int
  BY InIs
<1>2. /\ In(all, w) \subseteq Int /\ IsFiniteSet(In(all, w)) /\ In(all, w) \subseteq DOMAIN all
      /\ \A n \in In(all, w) : Slots(all)[n] \in Int
      /\ Cardinality(A) \in Nat /\ Cardinality(In(all, w)) \in Nat
  BY InIs
<1>3. /\ \A n \in DOMAIN base : shift[n] \in DOMAIN all /\ shift[n] # me
      /\ \A m, n \in DOMAIN base : shift[m] = shift[n] => m = n
      /\ \A k \in DOMAIN all : k # me => \E n \in DOMAIN base : shift[n] = k
  BY InsertedIs
<1>4. /\ me \in DOMAIN all /\ all[me] = c /\ \A n \in DOMAIN base : all[shift[n]] = base[n]
      /\ \A m, n \in DOMAIN base :
            Sooner(Slots(base), m, n) <=> Sooner(Slots(all), shift[m], shift[n])
  BY DEF Inserted
<1>5. \A n \in DOMAIN base : n \in A <=> shift[n] \in B
  BY <1>3, <1>4 DEF In
<1>6. B \subseteq In(all, w) /\ B \subseteq DOMAIN all /\ me \notin B
  BY <1>2
<1> HIDE DEF A, B
<1>7. f \in Bijection(A, B)
  <2>1. f \in [A -> B]
    BY <1>1, <1>5
  <2>2. \A m, n \in A : f[m] = f[n] => m = n
    BY <1>1, <1>3
  <2>3. \A k \in B : \E n \in A : f[n] = k
    BY <1>3, <1>5, <1>6
  <2> HIDE DEF f
  <2> QED BY <2>1, <2>2, <2>3 DEF Bijection, Injection, Surjection, IsInjective
<1>8. \A m, n \in A : Sooner(Slots(base), m, n) <=> Sooner(Slots(all), f[m], f[n])
  <2>1. \A n \in A : f[n] = shift[n] /\ n \in DOMAIN base
    BY <1>1
  <2> QED BY <1>4, <2>1
<1>9. \A n \in A : f[n] = shift[n]
  OBVIOUS
<1> HIDE DEF f
<1>10. Carried(A, Slots(base), B, Slots(all), f)
  BY <1>1, <1>2, <1>6, <1>7, <1>8, InOrderCarried
<1>11. CASE w = Week(Slot(c))
  <2>1. In(all, w) = B \cup {me} /\ IsFiniteSet(B)
    BY <1>4, <1>10, <1>11 DEF B, In, Carried
  <2>2. Cardinality(B \cup {me}) = Cardinality(B) + 1
    BY <1>6, <2>1, FS_AddElement
  <2> QED BY <1>10, <1>11, <2>1, <2>2 DEF Carried, A
<1>12. CASE w # Week(Slot(c))
  <2>1. In(all, w) = B
    BY <1>4, <1>12 DEF B, In
  <2>2. Cardinality(B) = Cardinality(A)
        /\ InOrder(B, Slots(all)) = [k \in 1 .. Cardinality(A) |-> f[InOrder(A, Slots(base))[k]]]
    BY <1>10 DEF Carried
  <2> DEFINE N == Cardinality(A)
             order == InOrder(A, Slots(base))
  <2>3. Ordered(N, order, A, Slots(base))
    BY <1>1, InOrderIs
  <2> HIDE DEF N, order
  <2>4. order \in [1 .. N -> A]
    BY <2>3 DEF Ordered, Bijection, Injection
  <2>5. \A k \in 1 .. N : all[f[order[k]]] = base[order[k]]
    BY <1>1, <1>4, <1>9, <2>4
  <2>6. Titles(all, w) = [k \in 1 .. N |-> all[f[order[k]]].title]
    <3>1. \A k \in 1 .. N : InOrder(B, Slots(all))[k] = f[order[k]]
      BY <2>2 DEF N, order
    <3>2. Titles(all, w) = [k \in 1 .. N |-> all[InOrder(B, Slots(all))[k]].title]
      BY <2>1, <2>2 DEF Titles, N
    <3> QED BY <3>1, <3>2
  <2>7. Titles(base, w) = [k \in 1 .. N |-> base[order[k]].title]
    BY DEF Titles, N, order, A
  <2>8. Titles(all, w) = Titles(base, w)
    BY <2>5, <2>6, <2>7
  <2>9. Full(all, w) => Full(base, w)
    <3>1. B # {} => A # {}
      BY <1>3, <1>5, <1>6
    <3> QED BY <2>1, <2>2, <3>1 DEF Full, A
  <2> QED BY <1>12, <2>8, <2>9
<1> QED BY <1>11, <1>12

\* Two others that are neighbours now were neighbours before.
LEMMA SameNeighbours ==
  ASSUME NEW base, NEW all, NEW me, NEW c, NEW shift, Inserted(base, all, me, c, shift),
         NEW m, NEW n, Neighbours(all, m, n), m # me, n # me
  PROVE  \E j, k \in DOMAIN base :
            Neighbours(base, j, k) /\ base[j] = all[m] /\ base[k] = all[n]
<1>1. m \in DOMAIN all /\ n \in DOMAIN all /\ Sooner(Slots(all), m, n)
  BY DEF Neighbours
<1>2. PICK j \in DOMAIN base : shift[j] = m
  BY <1>1, InsertedIs
<1>3. PICK k \in DOMAIN base : shift[k] = n
  BY <1>1, InsertedIs
<1>4. Sooner(Slots(base), j, k) /\ base[j] = all[m] /\ base[k] = all[n]
  BY <1>1, <1>2, <1>3 DEF Inserted
<1>5. ASSUME NEW l \in DOMAIN base, Sooner(Slots(base), j, l), Sooner(Slots(base), l, k)
      PROVE  FALSE
  <2>1. shift[l] \in DOMAIN all
    BY InsertedIs
  <2>2. Sooner(Slots(all), m, shift[l]) /\ Sooner(Slots(all), shift[l], n)
    BY <1>2, <1>3, <1>5 DEF Inserted
  <2> QED BY <2>1, <2>2 DEF Neighbours
<1>6. Neighbours(base, j, k)
  BY <1>4, <1>5 DEF Neighbours
<1> QED BY <1>4, <1>6

\* Where works stand, and which of them are complained of.
LEMMA WorksAre ==
  ASSUME NEW events, NEW p
  PROVE  p \in WorksOf(events) <=>
            \E n \in DOMAIN events : \E j \in DOMAIN events[n].works : p = <<n, j>>
BY DEF WorksOf

LEMMA WorksComplained ==
  ASSUME NEW events, DOMAIN events \subseteq Int,
         \A n \in DOMAIN events : DOMAIN events[n].works \subseteq Int
  PROVE  CheckWorks(events, world.heard) # {} <=> Repeats(events) \/ Heard(events)
<1> DEFINE P == WorksOf(events)
           title(p) == events[p[1]].title
           earlier(p, q) == p[1] < q[1] \/ (p[1] = q[1] /\ p[2] < q[2])
           before(p) == {q \in P : Work(events, q) = Work(events, p) /\ earlier(q, p)}
           first(Q) == CHOOSE p \in Q : \A q \in Q : p = q \/ earlier(p, q)
           again == {[work |-> Work(events, p), seen |-> title(first(before(p))),
                      title |-> title(p)] : p \in {q \in P : before(q) # {}}}
           heard == {[heard |-> Work(events, p), title |-> title(p)] :
                        p \in {q \in P : Work(events, q) \in world.heard}}
<1>1. CheckWorks(events, world.heard) = again \cup heard
  BY DEF CheckWorks
<1>2. \A p \in P : /\ p = <<p[1], p[2]>> /\ p[1] \in DOMAIN events /\ p[1] \in Int
                   /\ p[2] \in DOMAIN events[p[1]].works /\ p[2] \in Int
  <2> SUFFICES ASSUME NEW p \in P
               PROVE  /\ p = <<p[1], p[2]>> /\ p[1] \in DOMAIN events /\ p[1] \in Int
                      /\ p[2] \in DOMAIN events[p[1]].works /\ p[2] \in Int
    OBVIOUS
  <2>1. PICK n \in DOMAIN events : \E j \in DOMAIN events[n].works : p = <<n, j>>
    BY WorksAre
  <2>2. PICK j \in DOMAIN events[n].works : p = <<n, j>>
    BY <2>1
  <2> QED BY <2>2
<1>3. \A p, q \in P : p # q => earlier(p, q) \/ earlier(q, p)
  BY <1>2
<1>4. \A p \in P : ~earlier(p, p)
  BY <1>2
<1> HIDE DEF P, earlier, first, title
<1>5. (\E q \in P : before(q) # {}) <=> Repeats(events)
  <2>1. ASSUME NEW q \in P, NEW p \in before(q) PROVE Repeats(events)
    BY <1>4, <2>1 DEF Repeats, P
  <2>2. ASSUME Repeats(events) PROVE \E q \in P : before(q) # {}
    <3>1. PICK p, q \in P : p # q /\ Work(events, p) = Work(events, q)
      BY <2>2 DEF Repeats, P
    <3>2. p \in before(q) \/ q \in before(p)
      BY <1>3, <3>1
    <3> QED BY <3>2
  <2> QED BY <2>1, <2>2
<1>6. (\E q \in P : Work(events, q) \in world.heard) <=> Heard(events)
  <2>1. ASSUME NEW q \in P, Work(events, q) \in world.heard PROVE Heard(events)
    <3>1. events[q[1]] \in Range(events)
      BY <1>2 DEF Range
    <3>2. Work(events, q) \in Range(events[q[1]].works)
      BY <1>2 DEF Range, Work
    <3> QED BY <2>1, <3>1, <3>2 DEF Heard
  <2>2. ASSUME Heard(events) PROVE \E q \in P : Work(events, q) \in world.heard
    <3>1. PICK e \in Range(events) : Range(e.works) \cap world.heard # {}
      BY <2>2 DEF Heard
    <3>2. PICK n \in DOMAIN events : events[n] = e
      BY DEF Range
    <3>3. PICK j \in DOMAIN e.works : e.works[j] \in world.heard
      BY <3>1 DEF Range
    <3>4. <<n, j>> \in P /\ Work(events, <<n, j>>) = e.works[j]
      BY <3>2, WorksAre DEF P, Work
    <3> QED BY <3>3, <3>4
  <2> QED BY <2>1, <2>2
<1>7. again # {} <=> \E q \in P : before(q) # {}
  <2> HIDE DEF before
  <2> QED OBVIOUS
<1>8. heard # {} <=> \E q \in P : Work(events, q) \in world.heard
  OBVIOUS
<1> HIDE DEF again, heard
<1> QED BY <1>1, <1>5, <1>6, <1>7, <1>8

\* What is heard again in the plan and one more event, is so in the plan.
LEMMA HeardBefore ==
  ASSUME NEW S, NEW selected \in Seq(S), NEW c, ~Repeats(Append(selected, c)),
         ~Heard(<<c>>),
         DOMAIN Append(selected, c) \subseteq Int,
         \A n \in DOMAIN Append(selected, c) : DOMAIN Append(selected, c)[n].works \subseteq Int,
         NEW x \in CheckWorks(Append(selected, c), world.heard)
  PROVE  x \in CheckWorks(selected, world.heard)
<1> DEFINE events == Append(selected, c)
           P == WorksOf(events)
           title(p) == events[p[1]].title
           earlier(p, q) == p[1] < q[1] \/ (p[1] = q[1] /\ p[2] < q[2])
           before(p) == {q \in P : Work(events, q) = Work(events, p) /\ earlier(q, p)}
           first(Q) == CHOOSE p \in Q : \A q \in Q : p = q \/ earlier(p, q)
           again == {[work |-> Work(events, p), seen |-> title(first(before(p))),
                      title |-> title(p)] : p \in {q \in P : before(q) # {}}}
           heard == {[heard |-> Work(events, p), title |-> title(p)] :
                        p \in {q \in P : Work(events, q) \in world.heard}}
<1>1. CheckWorks(events, world.heard) = again \cup heard
  BY DEF CheckWorks
<1>2. \A p \in P : \E n \in DOMAIN events : \E j \in DOMAIN events[n].works : p = <<n, j>>
  <2> SUFFICES ASSUME NEW p \in P
               PROVE  \E n \in DOMAIN events : \E j \in DOMAIN events[n].works : p = <<n, j>>
    OBVIOUS
  <2> HIDE DEF events
  <2> QED BY WorksAre
<1>3. \A p, q \in P : earlier(p, q) => p # q
  <2> SUFFICES ASSUME NEW p \in P, earlier(p, p) PROVE FALSE
    OBVIOUS
  <2>1. PICK n \in DOMAIN events : \E j \in DOMAIN events[n].works : p = <<n, j>>
    BY <1>2
  <2>2. PICK j \in DOMAIN events[n].works : p = <<n, j>>
    BY <2>1
  <2>3. n \in Int /\ j \in Int
    OBVIOUS
  <2> QED BY <2>2, <2>3
<1>4. \A q \in P : before(q) = {}
  <2> HIDE DEF events, earlier
  <2> QED BY <1>3 DEF Repeats, events
<1>5. x \in heard
  <2> HIDE DEF before, heard
  <2>1. again = {}
    BY <1>4
  <2> HIDE DEF again, events
  <2>2. x \in again \cup heard
    BY <1>1 DEF events
  <2> QED BY <2>1, <2>2
<1>6. PICK p \in P : Work(events, p) \in world.heard
                     /\ x = [heard |-> Work(events, p), title |-> title(p)]
  BY <1>5
<1>12. PICK n \in DOMAIN events : \E j \in DOMAIN events[n].works : p = <<n, j>>
  BY <1>2
<1>7. PICK j \in DOMAIN events[n].works : p = <<n, j>>
  BY <1>12
<1>8. /\ Len(selected) \in Nat /\ DOMAIN selected = 1 .. Len(selected)
      /\ DOMAIN events = 1 .. Len(selected) + 1 /\ events[Len(selected) + 1] = c
      /\ \A m \in 1 .. Len(selected) : events[m] = selected[m]
  BY LenProperties
<1>9. Work(events, p) = events[n].works[j] /\ title(p) = events[n].title
  BY <1>7 DEF Work
<1> HIDE DEF events, P, again, heard, title
<1>10. CASE n = Len(selected) + 1
  <2>1. events[n] = c /\ c.works[j] \in Range(c.works)
    BY <1>7, <1>8, <1>10 DEF Range
  <2>2. c \in Range(<<c>>)
    BY DEF Range
  <2> QED BY <1>6, <1>9, <2>1, <2>2 DEF Heard
<1>11. CASE n # Len(selected) + 1
  <2>1. n \in DOMAIN selected /\ events[n] = selected[n]
    BY <1>7, <1>8, <1>11
  <2>2. p \in WorksOf(selected)
    BY <1>7, <2>1, WorksAre
  <2>3. Work(selected, p) = Work(events, p) /\ selected[p[1]].title = title(p)
    BY <1>7, <1>9, <2>1 DEF Work
  <2>4. p \in {q \in WorksOf(selected) : Work(selected, q) \in world.heard}
    BY <1>6, <2>2, <2>3
  <2>5. x = [heard |-> Work(selected, p), title |-> selected[p[1]].title]
    BY <1>6, <2>3
  <2> QED BY <2>4, <2>5 DEF CheckWorks
<1> QED BY <1>10, <1>11

\* The middle lies between the ends, a far top price taken for a box's or not.
LEMMA MidpointIs ==
  ASSUME NEW S, IsFiniteSet(S), S \subseteq Nat, S # {}
  PROVE  /\ Min(S) \in Nat /\ Max(S) \in Nat /\ Midpoint(S) \in Int
         /\ Min(S) <= Midpoint(S) /\ Midpoint(S) <= Max(S)
<1> DEFINE a == Min(S)
           b == Max(S)
           top == IF a > 0 /\ b > ClampRatio * a THEN ClampFactor * a ELSE b
<1>1. a \in Nat /\ b \in Nat /\ a <= b
  <2>1. S \subseteq Int
    OBVIOUS
  <2> QED BY <2>1, MinMaxIs
<1>2. Midpoint(S) = (a + top) \div 2
  BY DEF Midpoint
<1> HIDE DEF a, b
<1>3. top \in Nat /\ a <= top /\ top <= b
  <2>1. CASE a > 0 /\ b > ClampRatio * a
    <3>1. ClampFactor \in Nat /\ ClampRatio \in Nat /\ 1 <= ClampFactor /\ ClampFactor <= ClampRatio
      BY RulesAssumption
    <3>2. 1 * a <= ClampFactor * a /\ ClampFactor * a <= ClampRatio * a
          /\ ClampFactor * a \in Nat /\ ClampRatio * a \in Nat
      BY <1>1, <3>1, SMT
    <3> QED BY <1>1, <2>1, <3>2
  <2>2. CASE ~(a > 0 /\ b > ClampRatio * a)
    BY <1>1, <2>2
  <2> QED BY <2>1, <2>2
<1> HIDE DEF top
<1>4. (a + top) \div 2 \in Int /\ a <= (a + top) \div 2 /\ (a + top) \div 2 <= b
  BY <1>1, <1>3
<1> QED BY <1>1, <1>2, <1>4 DEF a, b

-----------------------------------------------------------------------------
(* The verdicts *)

\* All the events that a run may read.
Listed == world.pool \cup world.novelties \cup world.bookings \cup UNION world.starts

LEMMA ListedOK ==
  ASSUME PlannerInv
  PROVE  /\ \A e \in Listed : EventOK(e) /\ e.at \in Int
         /\ run.plan \in Seq(Listed) /\ run.booked \in Seq(Listed)
         /\ \A S : S \subseteq world.pool => Seq(S) \subseteq Seq(Listed)
<1>1. \A e \in Listed : EventOK(e) /\ e.at \in Int
  BY WorldFacts DEF PlannerInv, Listed, EventOK
<1>2. run.plan \in Seq(Listed)
  <2>1. world.pool \subseteq Listed
    BY DEF Listed
  <2> QED BY <2>1, SeqMonotonic DEF PlannerInv, FilesOK
<1>3. run.booked \in Seq(Listed)
  <2>1. world.bookings \cup (UNION world.starts) \subseteq Listed
    BY DEF Listed
  <2>2. run.booked \in Seq(world.bookings \cup (UNION world.starts))
    BY DEF PlannerInv, FilesOK
  <2> QED BY <2>1, <2>2, SeqMonotonic
<1>4. ASSUME NEW S, S \subseteq world.pool PROVE Seq(S) \subseteq Seq(Listed)
  <2>1. S \subseteq Listed
    BY <1>4 DEF Listed
  <2> QED BY <2>1, SeqMonotonic
<1> QED BY <1>1, <1>2, <1>3, <1>4

\* Works and prices of listed events are as WorksComplained and MidpointIs ask.
LEMMA WorksOK ==
  ASSUME \A e \in Listed : EventOK(e), NEW s \in Seq(Listed)
  PROVE  /\ DOMAIN s \subseteq Int /\ DOMAIN s = 1 .. Len(s) /\ Len(s) \in Nat
         /\ \A n \in DOMAIN s : s[n] \in Listed /\ s[n] \in Range(s)
         /\ \A n \in DOMAIN s : DOMAIN s[n].works \subseteq Int
         /\ Range(s) \subseteq Listed
<1>1. DOMAIN s = 1 .. Len(s) /\ Len(s) \in Nat
  BY LenProperties
<1>2. \A n \in DOMAIN s : s[n] \in Listed
  BY <1>1, ElementOfSeq
<1>3. \A n \in DOMAIN s : DOMAIN s[n].works \subseteq Int
  BY <1>2 DEF EventOK
<1> QED BY <1>1, <1>2, <1>3 DEF Range

\* A schedule without a complaint.
LEMMA ScheduleClear ==
  ASSUME \A e \in Listed : EventOK(e) /\ e.at \in Int,
         NEW events \in Seq(Listed), NEW others \in Seq(Listed), NEW view
  PROVE  LET all == events \o others IN
         CheckSchedule(events, others, view) = {} <=>
            /\ \A n \in DOMAIN all : ~Crowded(Week(Slot(all[n])), all)
            /\ \A e \in Range(events) : ~TimedConflict(e, view)
            /\ \A m, n \in DOMAIN all : ~(Neighbours(all, m, n) /\ Close(all[m], all[n]))
<1> DEFINE all == events \o others
<1>1. all \in Seq(Listed)
  BY ConcatProperties
<1> HIDE DEF all
<1>2. CheckSchedule(events, others, view) =
         WeeksOver(Dated(all)) \cup Gaps(Dated(all)) \cup
         {[blockedKey |-> e.key, title |-> e.title, day |-> Slot(e)] :
            e \in {f \in Range(events) : TimedConflict(f, view)}}
  BY DEF CheckSchedule, all
<1>3. WeeksOver(Dated(all)) = {} <=> \A n \in DOMAIN all : ~Crowded(Week(Slot(all[n])), all)
  <2>1. \A w : Full(all, w) <=> \E n \in DOMAIN all : w = Week(Slot(all[n])) /\ Crowded(w, all)
    BY DEF Full, In, Crowded
  <2>2. \A x : x \in WeeksOver(Dated(all)) <=>
                  \E w : Full(all, w) /\ x = [week |-> w, titles |-> Titles(all, w)]
    BY <1>1, WeeksOverIs
  <2>3. ASSUME NEW x \in WeeksOver(Dated(all))
        PROVE  \E n \in DOMAIN all : Crowded(Week(Slot(all[n])), all)
    BY <2>1, <2>2
  <2>4. ASSUME NEW n \in DOMAIN all, Crowded(Week(Slot(all[n])), all)
        PROVE  WeeksOver(Dated(all)) # {}
    <3> DEFINE w == Week(Slot(all[n]))
               x == [week |-> w, titles |-> Titles(all, w)]
    <3>1. Full(all, w)
      BY <2>1, <2>4
    <3>2. x \in WeeksOver(Dated(all))
      <4> HIDE DEF w
      <4> QED BY <2>2, <3>1
    <3> QED BY <3>2
  <2> QED BY <2>3, <2>4
<1>4. Gaps(Dated(all)) = {} <=>
         \A m, n \in DOMAIN all : ~(Neighbours(all, m, n) /\ Close(all[m], all[n]))
  <2>1. \A x : x \in Gaps(Dated(all)) <=>
                  \E m, n \in DOMAIN all :
                      Neighbours(all, m, n) /\ Close(all[m], all[n]) /\ x = GapOf(all[m], all[n])
    BY <1>1, GapsIs
  <2> QED BY <2>1
<1>5. {[blockedKey |-> e.key, title |-> e.title, day |-> Slot(e)] :
          e \in {f \in Range(events) : TimedConflict(f, view)}} = {}
        <=> \A e \in Range(events) : ~TimedConflict(e, view)
  OBVIOUS
<1> QED BY <1>2, <1>3, <1>4, <1>5 DEF all

LEMMA GateExact ==
  ASSUME PlannerInv, Judged, run.mode = "season"
  PROVE  GateIsExact
<1> DEFINE events == ResolveEvents(run.subject, world.pool)
           all == events \o run.booked
           near == {p \in (DOMAIN all) \X (DOMAIN all) :
                        p[1] < p[2] /\ Close(all[p[1]], all[p[2]])}
           full == \E n \in DOMAIN all : Crowded(Week(Slot(all[n])), all)
           taken == \E e \in Range(events) : TimedConflict(e, run.blocked)
           worn == Repeats(events) \/ Heard(events)
           priced == {e \in Range(events) : e.prices # {}}
<1>1. /\ run.subject \in Seq(Range(run.subject))
      /\ run.ok = ScenarioOk(run.subject, world.pool, run.booked, run.blocked, world.heard)
  BY WorldsAssumption DEF PlannerInv, PlannerTyped, VerdictOK
<1>2. CASE ~InPool(run.subject, world.pool)
  BY <1>1, <1>2 DEF GateIsExact, ScenarioOk
<1>3. CASE InPool(run.subject, world.pool)
  <2>1. events \in Seq(world.pool)
    <3>1. \A n \in DOMAIN run.subject : \E c \in world.pool : c.key = run.subject[n]
      BY <1>3 DEF InPool, Range
    <3>2. DOMAIN run.subject = 1 .. Len(run.subject) /\ Len(run.subject) \in Nat
      BY <1>1, LenProperties
    <3>3. events \in [1 .. Len(run.subject) -> world.pool]
      BY <3>1, <3>2 DEF ResolveEvents
    <3> QED BY <3>2, <3>3
  <2>2. /\ \A e \in Listed : EventOK(e) /\ e.at \in Int
        /\ events \in Seq(Listed) /\ run.booked \in Seq(Listed)
    BY <2>1, ListedOK
  <2> HIDE DEF events
  <2>3. all \in Seq(Listed)
    BY <2>2, ConcatProperties
  <2>4. run.ok = /\ CheckSchedule(events, run.booked, run.blocked) = {}
                 /\ CheckWorks(events, world.heard) = {}
                 /\ CheckPrices(events) = {}
    BY <1>1, <1>3 DEF ScenarioOk, events
  <2>5. CheckSchedule(events, run.booked, run.blocked) = {} <=>
           /\ \A n \in DOMAIN all : ~Crowded(Week(Slot(all[n])), all)
           /\ \A e \in Range(events) : ~TimedConflict(e, run.blocked)
           /\ \A m, n \in DOMAIN all : ~(Neighbours(all, m, n) /\ Close(all[m], all[n]))
    BY <2>2, ScheduleClear
  <2>6. CheckWorks(events, world.heard) # {} <=> worn
    BY <2>2, WorksOK, WorksComplained
  <2>7. \A e \in priced : /\ Midpoint(e.prices) \in Int /\ Min(e.prices) \in Nat
                          /\ Max(e.prices) \in Nat /\ PriceExclude \in Int
                          /\ Min(e.prices) <= Midpoint(e.prices)
                          /\ Midpoint(e.prices) <= Max(e.prices)
    <3> SUFFICES ASSUME NEW e \in priced
                 PROVE  /\ Midpoint(e.prices) \in Int /\ Min(e.prices) \in Nat
                        /\ Max(e.prices) \in Nat /\ PriceExclude \in Int
                        /\ Min(e.prices) <= Midpoint(e.prices)
                        /\ Midpoint(e.prices) <= Max(e.prices)
      OBVIOUS
    <3>1. e \in Listed /\ e.prices # {}
      BY <2>2, WorksOK
    <3>2. IsFiniteSet(e.prices) /\ e.prices \subseteq Nat
      BY <2>2, <3>1 DEF EventOK
    <3> QED BY <3>1, <3>2, MidpointIs, RulesAssumption
  <2>8. CheckPrices(events) = {} <=> \A e \in priced : ~(Midpoint(e.prices) > PriceExclude)
    BY DEF CheckPrices
  <2> HIDE DEF all
  <2>9. \A m, n \in DOMAIN all : m \in Int /\ n \in Int
    BY <2>2, <2>3, WorksOK
  <2>10. \A m, n \in DOMAIN all : Slot(all[m]) \in Int /\ Slot(all[n]) \in Int
    BY <2>2, <2>3, SlotsAre
  <2>11. ASSUME \A m, n \in DOMAIN all : ~(Neighbours(all, m, n) /\ Close(all[m], all[n])),
                NEW p \in near
         PROVE  Hidden(all[p[1]], all[p[2]], all)
    <3>1. /\ p[1] \in DOMAIN all /\ p[2] \in DOMAIN all /\ p[1] # p[2]
          /\ Close(all[p[1]], all[p[2]])
      BY <2>9
    <3>2. SUFFICES ASSUME ~Hidden(all[p[1]], all[p[2]], all) PROVE FALSE
      OBVIOUS
    <3>3. \E l \in DOMAIN all : Close(all[l], all[p[2]])
              /\ (Neighbours(all, l, p[2]) \/ Neighbours(all, p[2], l))
      BY <2>2, <2>3, <3>1, <3>2, CloseToNeighbour
    <3>4. \A l \in DOMAIN all : Close(all[l], all[p[2]]) => Close(all[p[2]], all[l])
      BY <2>10, <3>1 DEF Close, DayDiff
    <3> QED BY <2>11, <3>1, <3>3, <3>4
  <2>12. ASSUME NEW m \in DOMAIN all, NEW n \in DOMAIN all, Neighbours(all, m, n),
                Close(all[m], all[n])
         PROVE  near # {}
    <3>1. m # n
      <4>1. Slots(all)[m] \in Int
        BY <2>2, <2>3, SlotsAre
      <4> QED BY <2>9, <2>12, <4>1 DEF Neighbours, Sooner
    <3>2. Close(all[n], all[m])
      BY <2>10, <2>12 DEF Close, DayDiff
    <3>3. m < n \/ n < m
      BY <2>9, <3>1
    <3>4. <<m, n>> \in near \/ <<n, m>> \in near
      BY <2>12, <3>2, <3>3
    <3> QED BY <3>4
  <2> HIDE DEF near, priced
  <2>13. run.ok => /\ ~full /\ ~taken /\ ~worn
                   /\ \A p \in near : Hidden(all[p[1]], all[p[2]], all)
                   /\ \A e \in priced : Min(e.prices) <= PriceExclude
    <3> SUFFICES ASSUME run.ok
                 PROVE  /\ ~full /\ ~taken /\ ~worn
                        /\ \A p \in near : Hidden(all[p[1]], all[p[2]], all)
                        /\ \A e \in priced : Min(e.prices) <= PriceExclude
      OBVIOUS
    <3>1. \A e \in priced : Min(e.prices) <= PriceExclude
      <4> SUFFICES ASSUME NEW e \in priced PROVE Min(e.prices) <= PriceExclude
        OBVIOUS
      <4>1. ~(Midpoint(e.prices) > PriceExclude)
        BY <2>4, <2>8
      <4>2. /\ Midpoint(e.prices) \in Int /\ Min(e.prices) \in Nat /\ PriceExclude \in Int
            /\ Min(e.prices) <= Midpoint(e.prices)
        BY <2>7
      <4> QED BY <4>1, <4>2
    <3> QED BY <2>4, <2>5, <2>6, <2>11, <3>1
  <2>14. ~run.ok => \/ full \/ taken \/ worn \/ near # {}
                    \/ \E e \in priced : Max(e.prices) > PriceExclude
    <3> SUFFICES ASSUME ~run.ok, ~full, ~taken, ~worn, near = {}
                 PROVE  \E e \in priced : Max(e.prices) > PriceExclude
      OBVIOUS
    <3>1. CheckPrices(events) # {}
      BY <2>4, <2>5, <2>6, <2>12
    <3>2. PICK e \in priced : Midpoint(e.prices) > PriceExclude
      BY <2>8, <3>1
    <3> QED BY <2>7, <3>2
  <2> QED BY <1>3, <2>13, <2>14 DEF GateIsExact, near, priced, all, events
<1> QED BY <1>2, <1>3

\* The kinds of complaint are told apart by their fields.
LEMMA Complaints ==
  ASSUME NEW dated, NEW events, NEW works
  PROVE  /\ \A x \in WeeksOver(dated) : DOMAIN x = {"week", "titles"}
         /\ \A x \in Gaps(dated) : DOMAIN x = {"a", "b"}
         /\ \A x \in CheckWorks(events, works) :
               DOMAIN x = {"work", "seen", "title"} \/ DOMAIN x = {"heard", "title"}
<1>1. ASSUME NEW x \in WeeksOver(dated) PROVE DOMAIN x = {"week", "titles"}
  <2>1. \E w, t : x = [week |-> w, titles |-> t]
    BY DEF WeeksOver
  <2> QED BY <2>1
<1>2. ASSUME NEW x \in Gaps(dated) PROVE DOMAIN x = {"a", "b"}
  BY DEF Gaps
<1>3. ASSUME NEW x \in CheckWorks(events, works)
      PROVE  DOMAIN x = {"work", "seen", "title"} \/ DOMAIN x = {"heard", "title"}
  <2>1. \/ \E w, s, t : x = [work |-> w, seen |-> s, title |-> t]
        \/ \E w, t : x = [heard |-> w, title |-> t]
    BY Zenon DEF CheckWorks
  <2> QED BY <2>1
<1> QED BY <1>1, <1>2, <1>3

Collisions(events, view) ==
    {[blockedKey |-> e.key, title |-> e.title, day |-> Slot(e)] :
        e \in {f \in Range(events) : TimedConflict(f, view)}}

\* A complaint that is made of the one and of the other is of one kind.
LEMMA SameKind ==
  ASSUME NEW selected, NEW events, NEW others, NEW view, NEW works, NEW x,
         x \in CheckSchedule(selected, others, view) \cup CheckWorks(selected, works)
  PROVE  /\ x \in WeeksOver(Dated(events \o others)) => x \in WeeksOver(Dated(selected \o others))
         /\ x \in Gaps(Dated(events \o others)) => x \in Gaps(Dated(selected \o others))
         /\ x \in CheckWorks(events, works) => x \in CheckWorks(selected, works)
         /\ x \in Collisions(events, view) => x \in Collisions(selected, view)
<1> DEFINE was == Dated(selected \o others)
           is == Dated(events \o others)
<1>1. CheckSchedule(selected, others, view) =
         WeeksOver(was) \cup Gaps(was) \cup Collisions(selected, view)
  BY DEF CheckSchedule, Collisions
<1> HIDE DEF was, is
<1>2. \A e, y : y \in Collisions(e, view) => DOMAIN y = {"blockedKey", "title", "day"}
  BY DEF Collisions
<1>3. /\ x \in WeeksOver(was) \cup WeeksOver(is) => DOMAIN x = {"week", "titles"}
      /\ x \in Gaps(was) \cup Gaps(is) => DOMAIN x = {"a", "b"}
      /\ x \in CheckWorks(selected, works) \cup CheckWorks(events, works) =>
            DOMAIN x = {"work", "seen", "title"} \/ DOMAIN x = {"heard", "title"}
      /\ x \in Collisions(selected, view) \cup Collisions(events, view) =>
            DOMAIN x = {"blockedKey", "title", "day"}
  BY <1>2, Complaints
<1>4. x \in WeeksOver(was) \/ x \in Gaps(was) \/ x \in Collisions(selected, view)
      \/ x \in CheckWorks(selected, works)
  BY <1>1
<1>5. /\ {"week", "titles"} # {"a", "b"} /\ {"week", "titles"} # {"work", "seen", "title"}
      /\ {"week", "titles"} # {"heard", "title"} /\ {"week", "titles"} # {"blockedKey", "title", "day"}
      /\ {"a", "b"} # {"work", "seen", "title"} /\ {"a", "b"} # {"heard", "title"}
      /\ {"a", "b"} # {"blockedKey", "title", "day"}
      /\ {"blockedKey", "title", "day"} # {"work", "seen", "title"}
      /\ {"blockedKey", "title", "day"} # {"heard", "title"}
  OBVIOUS
<1> QED BY <1>3, <1>4, <1>5 DEF was, is

LEMMA FitExact ==
  ASSUME PlannerInv, Judged, run.mode # "season", NEW c \in Subjects
  PROVE  FitIsExact(c)
<1> DEFINE trial == Append(run.plan, c)
           base == run.plan \o run.booked
           all == trial \o run.booked
           me == Len(run.plan) + 1
           twins == {n \in DOMAIN all \ {me} : all[n].title = c.title /\ Slot(all[n]) = Slot(c)}
           near == {n \in DOMAIN all \ {me} : Close(all[n], c)}
           worn == Repeats(trial) \/ Heard(<<c>>)
           full == Crowded(Week(Slot(c)), all)
           taken == TimedConflict(c, run.blocked)
           found(events) == CheckSchedule(events, run.booked, run.blocked)
                                \cup CheckWorks(events, world.heard)
<1>1. /\ run.ok = Fits(c, run.plan, run.booked, run.blocked, world.heard)
      /\ c \in world.novelties
  BY SubjectIs
<1>2. run.ok <=> found(trial) \subseteq found(run.plan)
  BY <1>1 DEF Fits
<1>3. /\ \A e \in Listed : EventOK(e) /\ e.at \in Int
      /\ run.plan \in Seq(Listed) /\ run.booked \in Seq(Listed) /\ c \in Listed
  BY <1>1, ListedOK DEF Listed
<1>4. /\ trial \in Seq(Listed) /\ trial[me] = c /\ me \in DOMAIN trial
      /\ \A n \in DOMAIN run.plan : trial[n] = run.plan[n] /\ n \in DOMAIN trial /\ n # me
      /\ Range(trial) = Range(run.plan) \cup {c}
  <2>1. Len(run.plan) \in Nat /\ DOMAIN run.plan = 1 .. Len(run.plan)
    BY <1>3, LenProperties
  <2>2. Range(trial) = Range(run.plan) \cup {c}
    BY <1>3, AppendRange
  <2> QED BY <1>3, <2>1, <2>2
<1>5. PICK shift : Inserted(base, all, me, c, shift)
  BY <1>3, AppendInserts
<1>6. base \in Seq(Listed) /\ all \in Seq(Listed)
  BY <1>3, <1>4, ConcatProperties
<1>7. \A n \in DOMAIN run.plan : n \in DOMAIN all /\ all[n] = run.plan[n]
  <2>1. /\ Len(run.plan) \in Nat /\ DOMAIN run.plan = 1 .. Len(run.plan)
        /\ Len(run.booked) \in Nat /\ Len(trial) = Len(run.plan) + 1
    BY <1>3, LenProperties
  <2> HIDE DEF trial
  <2>2. /\ Len(all) = Len(trial) + Len(run.booked)
        /\ \A n \in 1 .. Len(trial) + Len(run.booked) :
              all[n] = IF n <= Len(trial) THEN trial[n] ELSE run.booked[n - Len(trial)]
    BY <1>3, <1>4, ConcatProperties
  <2>3. DOMAIN all = 1 .. Len(all)
    BY <1>6, LenProperties
  <2> HIDE DEF all
  <2> SUFFICES ASSUME NEW n \in DOMAIN run.plan PROVE n \in DOMAIN all /\ all[n] = run.plan[n]
    OBVIOUS
  <2>4. n \in 1 .. Len(run.plan)
    BY <2>1
  <2>5. /\ n \in 1 .. Len(trial) + Len(run.booked) /\ n <= Len(trial)
        /\ n \in 1 .. Len(all)
    <3> DEFINE T == Len(trial)
               B == Len(run.booked)
               A == Len(all)
    <3>1. T \in Nat /\ B \in Nat /\ A = T + B /\ T = Len(run.plan) + 1
      BY <2>1, <2>2
    <3> HIDE DEF T, B, A
    <3>2. n \in 1 .. T + B /\ n <= T /\ n \in 1 .. A
      BY <2>1, <2>4, <3>1
    <3> QED BY <3>2 DEF T, B, A
  <2>6. all[n] = trial[n]
    BY <2>2, <2>5
  <2> QED BY <1>4, <2>3, <2>5, <2>6
<1>8. /\ \A n \in DOMAIN base : shift[n] \in DOMAIN all /\ shift[n] # me /\ all[shift[n]] = base[n]
      /\ me \in DOMAIN all /\ all[me] = c
      /\ \A k \in DOMAIN all : k # me => \E n \in DOMAIN base : shift[n] = k
  <2>1. /\ \A n \in DOMAIN base : shift[n] \in DOMAIN all /\ shift[n] # me
        /\ \A k \in DOMAIN all : k # me => \E n \in DOMAIN base : shift[n] = k
    <3> HIDE DEF base, all, me
    <3> QED BY <1>5, InsertedIs
  <2> HIDE DEF base, all, me
  <2> QED BY <1>5, <2>1 DEF Inserted
<1> HIDE DEF trial, base, all, me
<1>9. CheckSchedule(trial, run.booked, run.blocked) =
         WeeksOver(Dated(all)) \cup Gaps(Dated(all)) \cup Collisions(trial, run.blocked)
      /\ CheckSchedule(run.plan, run.booked, run.blocked) =
         WeeksOver(Dated(base)) \cup Gaps(Dated(base)) \cup Collisions(run.plan, run.blocked)
  BY DEF CheckSchedule, Collisions, all, base
<1>10. \A x \in found(run.plan) :
          /\ x \in WeeksOver(Dated(all)) => x \in WeeksOver(Dated(base))
          /\ x \in Gaps(Dated(all)) => x \in Gaps(Dated(base))
          /\ x \in CheckWorks(trial, world.heard) => x \in CheckWorks(run.plan, world.heard)
          /\ x \in Collisions(trial, run.blocked) => x \in Collisions(run.plan, run.blocked)
  BY SameKind DEF all, base
<1>11. \A s \in Seq(Listed) :
          /\ DOMAIN s \subseteq Int /\ \A n \in DOMAIN s : DOMAIN s[n].works \subseteq Int
          /\ \A n \in DOMAIN s : s[n] \in Range(s) /\ Slot(s[n]) \in Int
          /\ CheckWorks(s, world.heard) # {} <=> Repeats(s) \/ Heard(s)
  <2> SUFFICES ASSUME NEW s \in Seq(Listed)
               PROVE  /\ DOMAIN s \subseteq Int /\ \A n \in DOMAIN s : DOMAIN s[n].works \subseteq Int
                      /\ \A n \in DOMAIN s : s[n] \in Range(s) /\ Slot(s[n]) \in Int
                      /\ CheckWorks(s, world.heard) # {} <=> Repeats(s) \/ Heard(s)
    OBVIOUS
  <2>1. DOMAIN s \subseteq Int /\ \A n \in DOMAIN s : DOMAIN s[n].works \subseteq Int
    BY <1>3, WorksOK
  <2>2. CheckWorks(s, world.heard) # {} <=> Repeats(s) \/ Heard(s)
    BY <2>1, WorksComplained
  <2>3. \A n \in DOMAIN s : s[n] \in Range(s)
    BY DEF Range
  <2>4. \A n \in DOMAIN s : Slot(s[n]) \in Int
    BY <1>3, SlotsAre
  <2> QED BY <2>1, <2>2, <2>3, <2>4
<1>12. ASSUME run.ok PROVE ~full
  <2> DEFINE w == Week(Slot(c))
  <2> SUFFICES ASSUME full PROVE FALSE
    OBVIOUS
  <2>1. Full(all, w)
    BY <1>8 DEF Full, Crowded, In
  <2> DEFINE x == [week |-> w, titles |-> Titles(all, w)]
  <2> HIDE DEF w
  <2>2. x \in WeeksOver(Dated(all))
    BY <1>3, <1>6, <2>1, WeeksOverIs
  <2>3. x \in found(trial)
    BY <1>9, <2>2
  <2>4. x \in WeeksOver(Dated(base))
    BY <1>2, <1>10, <1>12, <2>2, <2>3
  <2>5. PICK v : Full(base, v) /\ x = [week |-> v, titles |-> Titles(base, v)]
    BY <1>3, <1>6, <2>4, WeeksOverIs
  <2>6. v = w /\ Titles(base, v) = Titles(all, w)
    BY <2>5
  <2>7. Cardinality(In(all, w)) = Cardinality(In(base, w)) + 1
    BY <1>3, <1>5, <1>6, SameWeek DEF w
  <2>8. Cardinality(In(all, w)) \in Nat /\ Cardinality(In(base, w)) \in Nat
    BY <1>3, <1>6, InIs
  <2>9. DOMAIN Titles(all, w) = 1 .. Cardinality(In(all, w))
        /\ DOMAIN Titles(base, w) = 1 .. Cardinality(In(base, w))
    BY DEF Titles
  <2>10. Cardinality(In(all, w)) \in 1 .. Cardinality(In(base, w))
    <3>1. Cardinality(In(all, w)) \in 1 .. Cardinality(In(all, w))
      BY <2>7, <2>8
    <3> QED BY <2>6, <2>9, <3>1
  <2> QED BY <2>7, <2>8, <2>10
<1>13. ASSUME run.ok, worn PROVE Repeats(run.plan) \/ Heard(run.plan)
  <2>1. Repeats(trial) \/ Heard(trial)
    BY <1>4, <1>13 DEF Heard, Range
  <2>2. PICK x : x \in CheckWorks(trial, world.heard)
    BY <1>4, <1>11, <2>1
  <2>3. x \in CheckWorks(run.plan, world.heard)
    BY <1>2, <1>10, <1>13, <2>2
  <2> QED BY <1>3, <1>11, <2>3
<1>14. ASSUME run.ok, twins = {} PROVE ~taken
  <2> SUFFICES ASSUME taken PROVE FALSE
    OBVIOUS
  <2> DEFINE x == [blockedKey |-> c.key, title |-> c.title, day |-> Slot(c)]
  <2>1. x \in Collisions(trial, run.blocked)
    <3>1. c \in {f \in Range(trial) : TimedConflict(f, run.blocked)}
      BY <1>4
    <3> QED BY <3>1 DEF Collisions
  <2>2. x \in Collisions(run.plan, run.blocked)
    BY <1>2, <1>9, <1>10, <1>14, <2>1
  <2>3. PICK f \in Range(run.plan) : x = [blockedKey |-> f.key, title |-> f.title, day |-> Slot(f)]
    BY <2>2 DEF Collisions
  <2>4. f.title = c.title /\ Slot(f) = Slot(c)
    BY <2>3
  <2>5. PICK n \in DOMAIN run.plan : run.plan[n] = f
    BY DEF Range
  <2>6. n \in twins
    BY <1>4, <1>7, <2>4, <2>5
  <2> QED BY <1>14, <2>6
<1>15. ASSUME run.ok, twins = {}, NEW n \in near PROVE Hidden(all[n], c, all)
  <2> SUFFICES ASSUME ~Hidden(all[n], c, all) PROVE FALSE
    OBVIOUS
  <2>1. n \in DOMAIN all /\ n # me /\ Close(all[n], all[me])
    BY <1>8
  <2>2. PICK l \in DOMAIN all :
           Close(all[l], all[me]) /\ (Neighbours(all, l, me) \/ Neighbours(all, me, l))
    BY <1>3, <1>6, <1>8, <2>1, CloseToNeighbour
  <2>3. Close(all[me], all[l])
    BY <1>6, <1>8, <1>11, <2>2 DEF Close, DayDiff
  <2>4. PICK x \in {GapOf(all[l], all[me]), GapOf(all[me], all[l])} : x \in Gaps(Dated(all))
    BY <1>3, <1>6, <1>8, <2>2, <2>3, GapsIs
  <2>5. x \in Gaps(Dated(base))
    BY <1>2, <1>9, <1>10, <1>15, <2>4
  <2>6. PICK j, k \in DOMAIN base : x = GapOf(base[j], base[k])
    BY <1>3, <1>6, <2>5, GapsIs
  <2>7. \/ base[j].title = c.title /\ Slot(base[j]) = Slot(c)
        \/ base[k].title = c.title /\ Slot(base[k]) = Slot(c)
    BY <1>8, <2>4, <2>6 DEF GapOf
  <2>8. shift[j] \in twins \/ shift[k] \in twins
    BY <1>8, <2>7
  <2> QED BY <1>15, <2>8
<1>16. ASSUME ~run.ok, ~full, ~taken, ~worn, near = {} PROVE FALSE
  <2>1. PICK x \in found(trial) : x \notin found(run.plan)
    BY <1>2, <1>16
  <2>2. CASE x \in WeeksOver(Dated(all))
    <3>1. PICK w : Full(all, w) /\ x = [week |-> w, titles |-> Titles(all, w)]
      BY <1>3, <1>6, <2>2, WeeksOverIs
    <3>2. w # Week(Slot(c))
      BY <1>16, <3>1 DEF Full, Crowded, In
    <3>3. Full(base, w) /\ Titles(all, w) = Titles(base, w)
      BY <1>3, <1>5, <1>6, <3>1, <3>2, SameWeek
    <3>4. x \in WeeksOver(Dated(base))
      BY <1>3, <1>6, <3>1, <3>3, WeeksOverIs
    <3> QED BY <1>9, <2>1, <3>4
  <2>3. CASE x \in Gaps(Dated(all))
    <3>1. PICK m, n \in DOMAIN all :
             Neighbours(all, m, n) /\ Close(all[m], all[n]) /\ x = GapOf(all[m], all[n])
      BY <1>3, <1>6, <2>3, GapsIs
    <3>2. Close(all[n], all[m])
      BY <1>6, <1>11, <3>1 DEF Close, DayDiff
    <3>3. m # n
      <4>1. Slots(all)[m] \in Int
        BY <1>3, <1>6, SlotsAre
      <4>2. m \in Int
        BY <1>6, <1>11
      <4> QED BY <3>1, <4>1, <4>2 DEF Neighbours, Sooner
    <3>4. m # me /\ n # me
      BY <1>8, <1>16, <3>1, <3>2, <3>3
    <3>5. PICK j, k \in DOMAIN base :
             Neighbours(base, j, k) /\ base[j] = all[m] /\ base[k] = all[n]
      BY <1>5, <3>1, <3>4, SameNeighbours
    <3>6. x \in Gaps(Dated(base))
      BY <1>3, <1>6, <3>1, <3>5, GapsIs
    <3> QED BY <1>9, <2>1, <3>6
  <2>4. CASE x \in Collisions(trial, run.blocked)
    <3>1. PICK f \in Range(trial) : TimedConflict(f, run.blocked)
             /\ x = [blockedKey |-> f.key, title |-> f.title, day |-> Slot(f)]
      BY <2>4 DEF Collisions
    <3>2. f \in Range(run.plan)
      BY <1>4, <1>16, <3>1
    <3>3. x \in Collisions(run.plan, run.blocked)
      BY <3>1, <3>2 DEF Collisions
    <3> QED BY <1>9, <2>1, <3>3
  <2>5. CASE x \in CheckWorks(trial, world.heard)
    <3>1. DOMAIN trial \subseteq Int /\ \A n \in DOMAIN trial : DOMAIN trial[n].works \subseteq Int
      BY <1>4, <1>11
    <3>2. x \in CheckWorks(run.plan, world.heard)
      BY <1>3, <1>16, <2>5, <3>1, HeardBefore DEF trial
    <3> QED BY <2>1, <3>2
  <2> QED BY <1>9, <2>1, <2>2, <2>3, <2>4, <2>5
<1> HIDE DEF twins, near, worn, full, taken, found
<1>17. /\ run.ok => /\ ~full
                    /\ worn => Repeats(run.plan) \/ Heard(run.plan)
                    /\ twins = {} => /\ ~taken
                                     /\ \A n \in near : Hidden(all[n], c, all)
       /\ ~run.ok => full \/ taken \/ worn \/ near # {}
  BY <1>12, <1>13, <1>14, <1>15, <1>16
<1> QED BY <1>17 DEF FitIsExact, twins, near, worn, full, taken, all, trial, me

LEMMA VerdictsExact == PlannerInv => VerdictsAreExact
BY GateExact, FitExact DEF VerdictsAreExact

\* What the validator finds, comparing neighbours by date and the texts of its
\* complaints, is what the rules say of all the pairs.
THEOREM RulesAreKept == PlannerSpec => []VerdictsAreExact
BY RunsAreConsistent, VerdictsExact, PTL
=============================================================================
