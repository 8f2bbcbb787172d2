---------------------------- MODULE SeasonProofs ----------------------------
(***************************************************************************)
(* Theorems about Season, for any number of clients and any workload: the  *)
(* novelty cursor passes nothing that was not listed, an upload leaves one *)
(* row of each event it carries and keeps what the user decided, and the   *)
(* same upload again changes nothing.                                      *)
(*                                                                         *)
(* An upload folds its items into the pool one after the other.  What that *)
(* fold keeps (Unified, Keeps, Resting) is proved by induction on the      *)
(* number of items ingested; the rest is invariants of the specification.  *)
(***************************************************************************)
EXTENDS Season, FiniteSetTheorems, SequenceTheorems, WellFoundedInduction, TLAPS

-----------------------------------------------------------------------------
(* Sorting, and induction on the naturals *)

\* The place of a sorted element is the number of those ahead of it.
Ahead(places, value, n) ==
    {m \in places : value[m] < value[n] \/ (value[m] = value[n] /\ m < n)}

\* All of the places, each once, by value and then as they came.
Sorts(N, order, places, value) ==
    /\ N \in Nat /\ order \in [1 .. N -> places]
    /\ \A n \in places : \E k \in 1 .. N : order[k] = n
    /\ \A j, k \in 1 .. N : j < k =>
          \/ value[order[j]] < value[order[k]]
          \/ value[order[j]] = value[order[k]] /\ order[j] < order[k]
    /\ \A k \in 1 .. N : Cardinality(Ahead(places, value, order[k])) = k - 1

LEMMA InOrderSorts ==
  ASSUME NEW places, IsFiniteSet(places), places \subseteq Int,
         NEW value, \A n \in places : value[n] \in Int
  PROVE  Sorts(Cardinality(places), InOrder(places, value), places, value)
<1> DEFINE N == Cardinality(places)
           order == InOrder(places, value)
<1> DEFINE A(n) == Ahead(places, value, n)
<1>1. N \in Nat /\ IsFiniteSet(0 .. N - 1) /\ Cardinality(0 .. N - 1) = N
  <2>1. N \in Nat
    BY FS_CardinalityType
  <2>2. 0 \in Int /\ N - 1 \in Int /\ (0 > N - 1 => N = 0)
    BY <2>1
  <2>3. IsFiniteSet(0 .. N - 1) /\ Cardinality(0 .. N - 1) = IF 0 > N - 1 THEN 0 ELSE N - 1 - 0 + 1
    BY <2>2, FS_Interval
  <2> QED BY <2>1, <2>2, <2>3
<1>2. \A n \in places : IsFiniteSet(A(n)) /\ Cardinality(A(n)) \in 0 .. N - 1
  <2> SUFFICES ASSUME NEW n \in places
               PROVE  IsFiniteSet(A(n)) /\ Cardinality(A(n)) \in 0 .. N - 1
    OBVIOUS
  <2>1. A(n) \in SUBSET places /\ n \notin A(n)
    BY DEF Ahead
  <2>2. IsFiniteSet(A(n)) /\ Cardinality(A(n)) <= N /\ Cardinality(A(n)) # N
    BY <2>1, FS_Subset
  <2> QED BY <2>2, <1>1, FS_CardinalityType
<1>3. ASSUME NEW m \in places, NEW n \in places, m \in A(n)
      PROVE  Cardinality(A(m)) < Cardinality(A(n))
  <2>1. A(m) \in SUBSET A(n)
    <3>1. SUFFICES ASSUME NEW l \in A(m) PROVE l \in A(n)
      OBVIOUS
    <3>2. l \in places /\ l \in Int /\ m \in Int /\ n \in Int
      BY DEF Ahead
    <3>3. value[l] \in Int /\ value[m] \in Int /\ value[n] \in Int
      BY <3>2
    <3>4. /\ value[l] < value[m] \/ (value[l] = value[m] /\ l < m)
          /\ value[m] < value[n] \/ (value[m] = value[n] /\ m < n)
      BY <1>3 DEF Ahead
    <3> QED BY <3>2, <3>3, <3>4 DEF Ahead
  <2>2. m \notin A(m)
    BY DEF Ahead
  <2>3. Cardinality(A(m)) <= Cardinality(A(n)) /\ Cardinality(A(m)) # Cardinality(A(n))
    BY <2>1, <2>2, <1>2, <1>3, FS_Subset
  <2> QED BY <2>3, <1>2, <1>1
<1>4. \A m, n \in places : m = n \/ m \in A(n) \/ n \in A(m)
  BY DEF Ahead
<1> DEFINE rank == [n \in places |-> Cardinality(A(n))]
<1>5. rank \in Injection(places, 0 .. N - 1)
  <2>1. rank \in [places -> 0 .. N - 1]
    BY <1>2
  <2>2. \A m, n \in places : rank[m] = rank[n] => m = n
    <3> HIDE DEF A
    <3> QED BY <1>3, <1>4, <1>2, <1>1
  <2> HIDE DEF rank
  <2> QED BY <2>1, <2>2 DEF Injection, IsInjective
<1>6. rank \in Surjection(places, 0 .. N - 1)
  BY <1>5, <1>1, FS_Injection
<1>7. \A k \in 1 .. N : \E n \in places : Cardinality(A(n)) = k - 1
  <2> SUFFICES ASSUME NEW k \in 1 .. N PROVE \E n \in places : rank[n] = k - 1
    OBVIOUS
  <2>1. k - 1 \in 0 .. N - 1
    BY <1>1
  <2> HIDE DEF rank
  <2> QED BY <2>1, <1>6 DEF Surjection
<1>8. order = [k \in 1 .. N |-> CHOOSE n \in places : Cardinality(A(n)) = k - 1]
  BY DEF InOrder, Ahead
<1> HIDE DEF N
<1>9. \A k \in 1 .. N : order[k] \in places /\ Cardinality(A(order[k])) = k - 1
  <2> HIDE DEF A
  <2> QED BY <1>7, <1>8
<1>10. order \in [1 .. N -> places]
  <2> HIDE DEF A
  <2> QED BY <1>8, <1>9
<1>11. \A n \in places : \E k \in 1 .. N : order[k] = n
  <2> SUFFICES ASSUME NEW n \in places PROVE \E k \in 1 .. N : order[k] = n
    OBVIOUS
  <2> DEFINE k == Cardinality(A(n)) + 1
  <2>1. k \in 1 .. N /\ rank[n] = k - 1
    BY <1>1, <1>2
  <2>2. order[k] \in places /\ rank[order[k]] = k - 1
    BY <2>1, <1>9
  <2> HIDE DEF k, rank
  <2>3. order[k] = n
    BY <2>1, <2>2, <1>5 DEF Injection, IsInjective
  <2> QED BY <2>1, <2>3
<1>12. ASSUME NEW j \in 1 .. N, NEW k \in 1 .. N, j < k
       PROVE  order[j] \in A(order[k])
  <2> HIDE DEF A
  <2>1. /\ order[j] \in places /\ order[k] \in places
        /\ Cardinality(A(order[j])) = j - 1 /\ Cardinality(A(order[k])) = k - 1
    BY <1>9
  <2>2. j \in Int /\ k \in Int /\ j - 1 < k - 1
    BY <1>12
  <2>3. order[k] \notin A(order[j])
    <3>1. order[k] \in A(order[j]) => Cardinality(A(order[k])) < Cardinality(A(order[j]))
      BY <2>1, <1>3
    <3> QED BY <3>1, <2>1, <2>2
  <2>4. order[j] # order[k]
    BY <2>1, <2>2
  <2> QED BY <2>1, <2>3, <2>4, <1>4
<1> HIDE DEF order
<1>13. \A j, k \in 1 .. N : j < k =>
          \/ value[order[j]] < value[order[k]]
          \/ value[order[j]] = value[order[k]] /\ order[j] < order[k]
  <2> QED BY <1>12 DEF Ahead
<1> HIDE DEF A, rank, order
<1>14. \A k \in 1 .. N : Cardinality(Ahead(places, value, order[k])) = k - 1
  BY <1>9 DEF A
<1> HIDE DEF N, order
<1>15. Sorts(N, order, places, value)
  BY <1>1, <1>10, <1>11, <1>13, <1>14 DEF Sorts
<1> QED BY <1>15 DEF N, order

\* A set of naturals that is not empty has a least element: of its initial
\* segments, which are finite, one contains no other.
LEMMA LeastExists ==
  ASSUME NEW T \in SUBSET Nat, T # {}
  PROVE  \E m \in T : \A n \in T : m <= n
<1> DEFINE Below(x) == {y \in T : y <= x}
           All      == {Below(x) : x \in T}
<1>1. All \subseteq FiniteSubsetsOf(T) /\ All # {}
  <2>1. ASSUME NEW x \in T PROVE IsFiniteSet(Below(x))
    BY FS_BoundedSetOfNaturals
  <2> QED BY <2>1 DEF FiniteSubsetsOf
<1>2. PICK U \in All : \A V \in All : ~(<<V, U>> \in StrictSubsetOrdering(T))
  BY <1>1, FS_StrictSubsetOrderingWellFounded, WFMin
<1>3. PICK m \in T : U = Below(m)
  OBVIOUS
<1>4. ASSUME NEW n \in T, n < m PROVE FALSE
  <2>1. Below(n) \subseteq Below(m)
    <3>1. ASSUME NEW y \in T, y <= n PROVE y <= m
      <4>1. y \in Nat /\ m \in Nat /\ n \in Nat
        OBVIOUS
      <4> QED BY <4>1, <3>1, <1>4
    <3> QED BY <3>1
  <2>2. m \in Below(m) /\ m \notin Below(n)
    BY <1>4
  <2>3. <<Below(n), Below(m)>> \in StrictSubsetOrdering(T)
    <3> HIDE DEF Below
    <3>1. Below(n) \in SUBSET T /\ Below(m) \in SUBSET T
      BY DEF Below
    <3> QED BY <2>1, <2>2, <3>1 DEF StrictSubsetOrdering
  <2> QED BY <1>2, <1>3, <2>3
<1>5. \A n \in T : m <= n
  BY <1>4
<1> QED BY <1>5

\* Induction, for a set of naturals.
LEMMA SetInduction ==
  ASSUME NEW T, 0 \in T, \A n \in Nat : n \in T => n + 1 \in T
  PROVE  Nat \subseteq T
<1>1. SUFFICES ASSUME Nat \ T # {} PROVE FALSE
  OBVIOUS
<1>2. PICK m \in Nat \ T : \A n \in Nat \ T : m <= n
  BY LeastExists, <1>1
<1>3. m # 0 /\ m - 1 \in Nat /\ m - 1 \notin Nat \ T
  BY <1>2
<1> QED BY <1>3, <1>2

\* The place with the greatest value.
LEMMA GreatestBy ==
  ASSUME NEW S, IsFiniteSet(S), S \subseteq Int, S # {}, NEW value,
         \A n \in S : value[n] \in Int
  PROVE  \E m \in S : \A n \in S : value[n] <= value[m]
<1> DEFINE N == Cardinality(S)
           order == InOrder(S, value)
<1>1. Sorts(N, order, S, value)
  BY InOrderSorts
<1> HIDE DEF N, order
<1>2. /\ N \in Nat /\ order \in [1 .. N -> S]
      /\ \A n \in S : \E k \in 1 .. N : order[k] = n
      /\ \A j, k \in 1 .. N : j < k => value[order[j]] <= value[order[k]]
  <2>1. ASSUME NEW j \in 1 .. N, NEW k \in 1 .. N, j < k
        PROVE  value[order[j]] <= value[order[k]]
    <3>1. order[j] \in S /\ order[k] \in S
      BY <1>1 DEF Sorts
    <3>2. value[order[j]] \in Int /\ value[order[k]] \in Int
      BY <3>1
    <3>3. value[order[j]] < value[order[k]] \/ value[order[j]] = value[order[k]]
      BY <1>1, <2>1 DEF Sorts
    <3> QED BY <3>2, <3>3
  <2> QED BY <1>1, <2>1 DEF Sorts
<1>3. N \in 1 .. N
  <2>1. PICK n \in S : TRUE
    OBVIOUS
  <2>2. PICK k \in 1 .. N : order[k] = n
    BY <1>2
  <2> QED BY <1>2, <2>2
<1>4. ASSUME NEW n \in S PROVE value[n] <= value[order[N]]
  <2>1. PICK k \in 1 .. N : order[k] = n
    BY <1>2
  <2>2. k = N \/ k < N
    BY <1>2
  <2>3. value[n] \in Int
    OBVIOUS
  <2> QED BY <1>2, <1>3, <2>1, <2>2, <2>3
<1> QED BY <1>2, <1>3, <1>4

-----------------------------------------------------------------------------
(* The tables of Season *)

Table(t) == t \in Seq({t[i] : i \in DOMAIN t})

LEMMA TableIs ==
  ASSUME NEW t, Table(t)
  PROVE  Len(t) \in Nat /\ DOMAIN t = 1 .. Len(t) /\ t = [i \in 1 .. Len(t) |-> t[i]]
BY DEF Table

LEMMA SeqIsTable ==
  ASSUME NEW S, NEW t \in Seq(S)
  PROVE  Table(t)
<1>1. Len(t) \in Nat /\ DOMAIN t = 1 .. Len(t) /\ t = [i \in 1 .. Len(t) |-> t[i]]
  OBVIOUS
<1> QED BY <1>1 DEF Table

LEMMA MapIsTable ==
  ASSUME NEW n \in Nat, NEW t, t = [i \in 1 .. n |-> t[i]]
  PROVE  Table(t) /\ Len(t) = n /\ DOMAIN t = 1 .. n
<1> DEFINE S == {t[i] : i \in DOMAIN t}
<1>1. DOMAIN t = 1 .. n /\ \A i \in 1 .. n : t[i] \in S
  OBVIOUS
<1>2. t \in [1 .. n -> S]
  <2> HIDE DEF S
  <2> QED BY <1>1
<1>3. t \in Seq(S) /\ Len(t) = n
  <2> HIDE DEF S
  <2> QED BY <1>2
<1> QED BY <1>1, <1>3 DEF Table

LEMMA IntervalIn ==
  ASSUME NEW m \in Nat, NEW n \in Nat, m <= n
  PROVE  1 .. m \subseteq 1 .. n
OBVIOUS

\* A table after another, and a row after the rows of one.
Joined(t, a, b) ==
    /\ Table(t) /\ Len(t) = Len(a) + Len(b)
    /\ \A i \in DOMAIN t : /\ i \in DOMAIN a => t[i] = a[i]
                           /\ i \notin DOMAIN a => i - Len(a) \in DOMAIN b /\ t[i] = b[i - Len(a)]

LEMMA JoinedIs ==
  ASSUME NEW a, Table(a), NEW b, Table(b)
  PROVE  Joined(a \o b, a, b)
<1> DEFINE S == {a[i] : i \in DOMAIN a} \cup {b[i] : i \in DOMAIN b}
<1>1. a \in Seq(S) /\ b \in Seq(S)
  BY TableIs DEF Table
<1> HIDE DEF S
<1>2. /\ a \o b \in Seq(S) /\ Len(a \o b) = Len(a) + Len(b)
      /\ \A i \in 1 .. Len(a) + Len(b) :
            (a \o b)[i] = IF i <= Len(a) THEN a[i] ELSE b[i - Len(a)]
  BY <1>1
<1>3. Table(a \o b)
  BY <1>2, SeqIsTable
<1>4. /\ DOMAIN a = 1 .. Len(a) /\ DOMAIN b = 1 .. Len(b)
      /\ Len(a) \in Nat /\ Len(b) \in Nat
      /\ DOMAIN (a \o b) = 1 .. Len(a) + Len(b)
  BY <1>1, <1>2
<1>5. ASSUME NEW i \in DOMAIN (a \o b)
      PROVE  /\ i \in DOMAIN a => i <= Len(a)
             /\ i \notin DOMAIN a => ~(i <= Len(a)) /\ i - Len(a) \in DOMAIN b
  BY <1>4
<1> QED BY <1>2, <1>3, <1>4, <1>5 DEF Joined

LEMMA AppendJoins ==
  ASSUME NEW a, Table(a), NEW r
  PROVE  Table(Append(a, r)) /\ Len(Append(a, r)) = Len(a) + 1
         /\ DOMAIN Append(a, r) = DOMAIN a \cup {Len(a) + 1}
         /\ Len(a) + 1 \notin DOMAIN a
         /\ \A i \in DOMAIN a : Append(a, r)[i] = a[i]
         /\ Append(a, r)[Len(a) + 1] = r
<1> DEFINE S == {a[i] : i \in DOMAIN a} \cup {r}
<1>1. a \in Seq(S) /\ r \in S
  BY TableIs DEF Table
<1> HIDE DEF S
<1>2. /\ Append(a, r) \in Seq(S) /\ Len(Append(a, r)) = Len(a) + 1
      /\ \A i \in 1 .. Len(a) : Append(a, r)[i] = a[i]
      /\ Append(a, r)[Len(a) + 1] = r
      /\ DOMAIN a = 1 .. Len(a) /\ Len(a) \in Nat
  BY <1>1
<1>3. Table(Append(a, r))
  BY <1>2, SeqIsTable
<1>4. DOMAIN Append(a, r) = 1 .. Len(a) + 1
  BY <1>2
<1> QED BY <1>2, <1>3, <1>4

\* What a commit makes of a table: every row with the columns that changed
\* since they were read, and after them the new rows.
Overlaid(t, rows, old, new) ==
    /\ Table(t) /\ Len(t) = Len(rows) + (Len(new) - Len(old))
    /\ \A i \in DOMAIN t :
        /\ i \in DOMAIN old =>
              i \in DOMAIN rows /\ t[i] = Columns(rows[i], old[i], new[i])
        /\ i \in DOMAIN rows \ DOMAIN old => t[i] = rows[i]
        /\ i \notin DOMAIN rows =>
              \E j \in DOMAIN new \ DOMAIN old :
                 j = Len(old) + (i - Len(rows)) /\ t[i] = new[j]

LEMMA RowsAre ==
  ASSUME NEW rows, Table(rows), NEW old, Table(old), NEW new, Table(new),
         Len(old) <= Len(rows), Len(old) <= Len(new)
  PROVE  Overlaid(Rows(rows, old, new), rows, old, new)
<1> DEFINE kept == [i \in DOMAIN rows |->
                       IF i \in DOMAIN old THEN Columns(rows[i], old[i], new[i])
                       ELSE rows[i]]
           added == SubSeq(new, Len(old) + 1, Len(new))
<1>1. /\ DOMAIN rows = 1 .. Len(rows) /\ DOMAIN old = 1 .. Len(old)
      /\ DOMAIN new = 1 .. Len(new)
      /\ Len(rows) \in Nat /\ Len(old) \in Nat /\ Len(new) \in Nat
  BY TableIs
<1>2. Table(kept) /\ Len(kept) = Len(rows) /\ DOMAIN kept = 1 .. Len(rows)
  BY <1>1, MapIsTable
<1>3. /\ Table(added) /\ Len(added) = Len(new) - Len(old)
      /\ DOMAIN added = 1 .. Len(new) - Len(old)
      /\ \A k \in 1 .. Len(new) - Len(old) : added[k] = new[Len(old) + k]
  <2> DEFINE S == {new[i] : i \in DOMAIN new}
  <2>1. new \in Seq(S) /\ Len(old) + 1 \in 1 .. Len(new) + 1 /\ Len(new) \in Nat
    BY <1>1 DEF Table
  <2> HIDE DEF S
  <2>2. added = [k \in 1 .. Len(new) - Len(old) |-> new[Len(old) + k]]
    <3>1. added = [k \in 1 .. (Len(new) - (Len(old) + 1)) + 1 |-> new[(Len(old) + 1 + k) - 1]]
      BY DEF SubSeq
    <3>2. (Len(new) - (Len(old) + 1)) + 1 = Len(new) - Len(old)
      BY <1>1
    <3>3. \A k \in 1 .. Len(new) - Len(old) : (Len(old) + 1 + k) - 1 = Len(old) + k
      BY <1>1
    <3> QED BY <3>1, <3>2, <3>3
  <2>3. Len(new) - Len(old) \in Nat
    BY <1>1
  <2> HIDE DEF added
  <2> QED BY <2>2, <2>3, MapIsTable
<1> DEFINE t == kept \o added
<1>4. Joined(t, kept, added)
  BY <1>2, <1>3, JoinedIs
<1>5. Rows(rows, old, new) = t
  BY DEF Rows
<1>6. \A i \in DOMAIN rows : kept[i] = IF i \in DOMAIN old
                                     THEN Columns(rows[i], old[i], new[i]) ELSE rows[i]
  OBVIOUS
<1> HIDE DEF kept, added, t
<1>7. Table(t) /\ Len(t) = Len(rows) + (Len(new) - Len(old))
  BY <1>2, <1>3, <1>4 DEF Joined
<1>8. \A i \in DOMAIN old : i \in DOMAIN rows
  BY <1>1
<1>9. ASSUME NEW i \in DOMAIN t
      PROVE  /\ i \in DOMAIN rows => t[i] = kept[i]
             /\ i \notin DOMAIN rows =>
                   \E j \in DOMAIN new \ DOMAIN old :
                      j = Len(old) + (i - Len(rows)) /\ t[i] = new[j]
  <2>1. i \in DOMAIN rows => t[i] = kept[i]
    BY <1>1, <1>2, <1>4 DEF Joined
  <2>2. ASSUME i \notin DOMAIN rows
        PROVE  \E j \in DOMAIN new \ DOMAIN old :
                  j = Len(old) + (i - Len(rows)) /\ t[i] = new[j]
    <3>1. i - Len(rows) \in DOMAIN added /\ t[i] = added[i - Len(rows)]
      BY <1>1, <1>2, <1>4, <2>2 DEF Joined
    <3> DEFINE j == Len(old) + (i - Len(rows))
    <3>2. t[i] = new[j]
      BY <3>1, <1>3
    <3>3. j \in 1 .. Len(new) /\ j \notin 1 .. Len(old)
      BY <3>1, <1>1, <1>3
    <3>4. j = Len(old) + (i - Len(rows))
      OBVIOUS
    <3> HIDE DEF j
    <3> QED BY <3>2, <3>3, <3>4, <1>1
  <2> QED BY <2>1, <2>2
<1>10. \A i \in DOMAIN t :
        /\ i \in DOMAIN old =>
              i \in DOMAIN rows /\ t[i] = Columns(rows[i], old[i], new[i])
        /\ i \in DOMAIN rows \ DOMAIN old => t[i] = rows[i]
        /\ i \notin DOMAIN rows =>
              \E j \in DOMAIN new \ DOMAIN old :
                 j = Len(old) + (i - Len(rows)) /\ t[i] = new[j]
  BY <1>6, <1>8, <1>9
<1> QED BY <1>5, <1>7, <1>10 DEF Overlaid

\* Least, of naturals.
LEMMA LeastIs ==
  ASSUME NEW S \in SUBSET Nat, S # {}
  PROVE  Least(S) \in S /\ \A n \in S : Least(S) <= n
BY LeastExists DEF Least

-----------------------------------------------------------------------------
(* An upload, item by item *)

IsRow(r) == r = [f \in Fields |-> r[f]]

CandidateOK(r) ==
    /\ IsRow(r) /\ DOMAIN r = Fields
    /\ r.first \in Nat /\ r.last \in Nat /\ r.version \in Nat /\ r.live \in BOOLEAN

\* A row with other values is a row.
LEMMA MapIsRow ==
  ASSUME NEW r, NEW v, r = [f \in Fields |-> v[f]]
  PROVE  IsRow(r) /\ DOMAIN r = Fields
BY DEF IsRow

LEMMA RetiredIs ==
  ASSUME NEW old, CandidateOK(old), NEW r, r = [old EXCEPT !.live = FALSE, !.version = @ + 1]
  PROVE  /\ CandidateOK(r) /\ r.live = FALSE
         /\ r.plan = old.plan /\ r.key = old.key /\ r.url = old.url /\ r.first = old.first
<1>1. r = [f \in Fields |-> IF f = "version" THEN old.version + 1
                            ELSE IF f = "live" THEN FALSE ELSE old[f]]
  BY DEF CandidateOK
<1>2. IsRow(r) /\ DOMAIN r = Fields
  BY <1>1, MapIsRow
<1>3. /\ r.live = FALSE /\ r.version = old.version + 1
      /\ r.plan = old.plan /\ r.key = old.key /\ r.url = old.url /\ r.first = old.first
      /\ r.last = old.last
  BY <1>1 DEF Fields
<1> QED BY <1>2, <1>3 DEF CandidateOK

LEMMA DecidedIs ==
  ASSUME NEW old, CandidateOK(old), NEW status,
         NEW r, r = [old EXCEPT !.status = status, !.version = @ + 1]
  PROVE  /\ CandidateOK(r)
         /\ r.plan = old.plan /\ r.first = old.first /\ r.live = old.live
<1>1. r = [f \in Fields |-> IF f = "version" THEN old.version + 1
                            ELSE IF f = "status" THEN status ELSE old[f]]
  BY DEF CandidateOK
<1>2. IsRow(r) /\ DOMAIN r = Fields
  BY <1>1, MapIsRow
<1>3. /\ r.version = old.version + 1
      /\ r.plan = old.plan /\ r.first = old.first /\ r.live = old.live
      /\ r.last = old.last
  BY <1>1 DEF Fields
<1> QED BY <1>2, <1>3 DEF CandidateOK

PoolOK(t) == Table(t) /\ \A i \in DOMAIN t : CandidateOK(t[i])

Ids == {Identity[u] : u \in Urls} \ {NoIdentity}
Members(t, plan) == {i \in DOMAIN t : t[i].plan = plan}

\* The maps lead to rows of the plan.
AccOK(acc, plan) ==
    /\ DOMAIN acc = {"pool", "scens", "byKey", "byId"}
    /\ PoolOK(acc.pool)
    /\ \A k \in DOMAIN acc.byKey :
          acc.byKey[k] = 0 \/ acc.byKey[k] \in Members(acc.pool, plan)
    /\ DOMAIN acc.byId = Ids
    /\ \A d \in Ids : acc.byId[d] \subseteq Members(acc.pool, plan)

ItemOK(acc, item) == item.key \in DOMAIN acc.byKey /\ item.url \in Urls

\* The live rows of the item's event.
Twins(acc, item) ==
    IF Identity[item.url] = NoIdentity THEN {}
    ELSE {t \in acc.byId[Identity[item.url]] : acc.pool[t].live}

\* An item of an unknown key and an unknown event is a new row.
Created(a, item, plan, now, b) ==
    /\ a.byKey[item.key] = 0 /\ Twins(a, item) = {}
    /\ b.pool = Append(a.pool, Candidate(plan, item, now))
    /\ b.scens = a.scens
    /\ DOMAIN b.byKey = DOMAIN a.byKey
    /\ \A k \in DOMAIN a.byKey :
          b.byKey[k] = IF k = item.key THEN Len(a.pool) + 1 ELSE a.byKey[k]
    /\ DOMAIN b.byId = Ids
    /\ \A d \in Ids : b.byId[d] =
          IF d = Identity[item.url] THEN a.byId[d] \cup {Len(a.pool) + 1} ELSE a.byId[d]

\* The row that the item's event ends in, with what it takes from the others.
Absorbed(a, item, row, now, w) ==
    LET old == a.pool[row]
        losers == Twins(a, item) \ {row}
        decided == {l \in losers : a.pool[l].status # "undecided"}
        noted == {l \in losers : a.pool[l].note # Null}
    IN  /\ DOMAIN w = Fields
        /\ w.plan = old.plan /\ w.live = old.live /\ w.last = now
        /\ w.key = IF a.byKey[item.key] = 0 THEN item.key ELSE old.key
        /\ w.url = item.url /\ w.body = item.body
        /\ w.enr = IF item.enr = Null THEN old.enr ELSE item.enr
        /\ w.status = IF old.status = "undecided" /\ decided # {}
                      THEN a.pool[Least(decided)].status ELSE old.status
        /\ w.note = IF old.note = Null /\ noted # {}
                    THEN a.pool[Least(noted)].note ELSE old.note
        /\ w.first = Least({a.pool[l].first : l \in losers \cup {row}})
        /\ w.version \in Nat
        /\ losers = {} /\ old.url = item.url /\ old.body = item.body
           /\ (item.enr = Null \/ old.enr = item.enr) => w.version = old.version

Updated(a, item, plan, now, row, b) ==
    LET losers == Twins(a, item) \ {row} IN
    /\ row \in Members(a.pool, plan) /\ losers \subseteq Members(a.pool, plan)
    /\ IF a.byKey[item.key] = 0 THEN row \in Twins(a, item) ELSE row = a.byKey[item.key]
    /\ Table(b.pool) /\ Len(b.pool) = Len(a.pool) /\ DOMAIN b.pool = DOMAIN a.pool
    /\ \A i \in DOMAIN a.pool \ (losers \cup {row}) : b.pool[i] = a.pool[i]
    /\ \A i \in losers :
          b.pool[i] = [a.pool[i] EXCEPT !.live = FALSE, !.version = @ + 1]
    /\ Absorbed(a, item, row, now, b.pool[row])
    /\ b.scens = Rewrite(a.scens, plan, row, losers)
    /\ DOMAIN b.byKey = DOMAIN a.byKey
    /\ \A k \in DOMAIN a.byKey :
          b.byKey[k] = IF k \in {a.pool[l].key : l \in losers} THEN 0
                       ELSE IF k = item.key THEN row ELSE a.byKey[k]
    /\ b.byId = a.byId

Ingested(a, item, plan, now, b) ==
    /\ AccOK(b, plan)
    /\ \/ Created(a, item, plan, now, b)
       \/ \E row \in DOMAIN a.pool : Updated(a, item, plan, now, row, b)

LEMMA IntervalIs ==
  ASSUME NEW n \in Int
  PROVE  IsFiniteSet(1 .. n) /\ 1 .. n \subseteq Nat \ {0}
<1>1. IsFiniteSet(1 .. n)
  <2>1. 1 \in Int
    OBVIOUS
  <2> QED BY <2>1, FS_Interval
<1>2. 1 .. n \subseteq Nat \ {0}
  OBVIOUS
<1> QED BY <1>1, <1>2

LEMMA TwinsAre ==
  ASSUME NEW plan, NEW a, AccOK(a, plan), NEW item, ItemOK(a, item)
  PROVE  /\ Twins(a, item) \subseteq Members(a.pool, plan)
         /\ Twins(a, item) \subseteq DOMAIN a.pool /\ IsFiniteSet(DOMAIN a.pool)
         /\ IsFiniteSet(Twins(a, item))
         /\ DOMAIN a.pool \subseteq Nat \ {0}
         /\ \A t \in Twins(a, item) : a.pool[t].live
<1>1. Identity[item.url] # NoIdentity => Identity[item.url] \in Ids
  BY DEF Ids, ItemOK
<1>2. Twins(a, item) \subseteq Members(a.pool, plan) /\ Twins(a, item) \subseteq DOMAIN a.pool
  BY <1>1 DEF AccOK, Twins, Members
<1>3. IsFiniteSet(DOMAIN a.pool) /\ DOMAIN a.pool \subseteq Nat \ {0}
  <2>1. DOMAIN a.pool = 1 .. Len(a.pool) /\ Len(a.pool) \in Nat
    BY TableIs DEF AccOK, PoolOK
  <2>2. 1 \in Int /\ Len(a.pool) \in Int
    BY <2>1
  <2>3. PICK N : N = Len(a.pool)
    OBVIOUS
  <2>4. DOMAIN a.pool = 1 .. N /\ N \in Int
    BY <2>1, <2>2, <2>3
  <2>5. IsFiniteSet(1 .. N)
    BY <2>4, IntervalIs
  <2>6. 1 .. N \subseteq Nat \ {0}
    BY <2>4, IntervalIs
  <2> QED BY <2>4, <2>5, <2>6
<1>4. IsFiniteSet(Twins(a, item))
  BY <1>2, <1>3, FS_Subset
<1> QED BY <1>2, <1>3, <1>4 DEF Twins

\* The row that is adopted is one of the twins.
LEMMA AdoptedIs ==
  ASSUME NEW plan, NEW a, AccOK(a, plan), NEW item, ItemOK(a, item),
         Twins(a, item) # {}
  PROVE  (CHOOSE t \in Twins(a, item) :
            \A u \in Twins(a, item) : a.pool[u].last <= a.pool[t].last) \in Twins(a, item)
<1> DEFINE T == Twins(a, item)
           v == [t \in DOMAIN a.pool |-> a.pool[t].last]
<1>1. IsFiniteSet(T) /\ T \subseteq Int /\ T # {} /\ T \subseteq DOMAIN a.pool
  BY TwinsAre
<1>2. \A t \in T : v[t] \in Int /\ v[t] = a.pool[t].last
  BY <1>1 DEF AccOK, PoolOK, CandidateOK
<1> HIDE DEF T, v
<1>3. \E t \in T : \A u \in T : v[u] <= v[t]
  BY <1>1, <1>2, GreatestBy
<1>4. \E t \in T : \A u \in T : a.pool[u].last <= a.pool[t].last
  BY <1>2, <1>3
<1>5. (CHOOSE t \in T : \A u \in T : a.pool[u].last <= a.pool[t].last) \in T
  BY <1>4
<1> QED BY <1>5 DEF T

LEMMA IngestCreates ==
  ASSUME NEW plan, NEW now \in Nat, NEW a, AccOK(a, plan), NEW item, ItemOK(a, item),
         a.byKey[item.key] = 0, Twins(a, item) = {}
  PROVE  Ingested(a, item, plan, now, Ingest(plan, now, a, item))
<1> DEFINE b == Ingest(plan, now, a, item)
           fresh == Len(a.pool) + 1
           new == Candidate(plan, item, now)
           id == Identity[item.url]
<1>1. b = [a EXCEPT
            !.pool = Append(@, new),
            !.byKey = [@ EXCEPT ![item.key] = fresh],
            !.byId = [d \in DOMAIN @ |-> IF d = id THEN @[d] \cup {fresh} ELSE @[d]]]
  BY DEF Ingest, Twins
<1>2. DOMAIN a = {"pool", "scens", "byKey", "byId"} /\ Table(a.pool) /\ DOMAIN a.byId = Ids
  BY DEF AccOK, PoolOK
<1>3. id # NoIdentity => id \in Ids
  BY DEF ItemOK, Ids
<1>4. /\ DOMAIN b = {"pool", "scens", "byKey", "byId"}
      /\ b.pool = Append(a.pool, new)
      /\ b.scens = a.scens
      /\ b.byKey = [a.byKey EXCEPT ![item.key] = fresh]
      /\ b.byId = [d \in Ids |-> IF d = id THEN a.byId[d] \cup {fresh} ELSE a.byId[d]]
  <2> HIDE DEF b, fresh, new, id
  <2> QED BY <1>1, <1>2
<1>5. CandidateOK(new) /\ new.plan = plan /\ new.live
  <2>1. IsRow(new)
    BY DEF IsRow, Candidate, Fields
  <2> QED BY <2>1 DEF CandidateOK, Candidate, Fields
<1> HIDE DEF b, new
<1>6. /\ Table(b.pool) /\ DOMAIN b.pool = DOMAIN a.pool \cup {fresh}
      /\ fresh \notin DOMAIN a.pool
      /\ \A i \in DOMAIN a.pool : b.pool[i] = a.pool[i]
      /\ b.pool[fresh] = new
  BY <1>2, <1>4, AppendJoins
<1>7. DOMAIN b.byKey = DOMAIN a.byKey /\ DOMAIN b.byId = Ids
  BY <1>2, <1>4
<1>8. \A k \in DOMAIN a.byKey : b.byKey[k] = IF k = item.key THEN fresh ELSE a.byKey[k]
  BY <1>4
<1>9. \A d \in Ids : b.byId[d] = IF d = id THEN a.byId[d] \cup {fresh} ELSE a.byId[d]
  BY <1>4
<1>10. Created(a, item, plan, now, b)
  BY <1>4, <1>7, <1>8, <1>9 DEF Created, new
<1> HIDE DEF fresh, id
<1>11. AccOK(b, plan)
  <2>1. PoolOK(b.pool)
    BY <1>5, <1>6 DEF AccOK, PoolOK
  <2>2. \A i \in Members(a.pool, plan) : i \in Members(b.pool, plan)
    BY <1>6 DEF Members
  <2>3. fresh \in Members(b.pool, plan)
    BY <1>5, <1>6 DEF Members
  <2>4. \A k \in DOMAIN b.byKey : b.byKey[k] = 0 \/ b.byKey[k] \in Members(b.pool, plan)
    BY <2>2, <2>3, <1>7, <1>8 DEF AccOK
  <2>5. \A d \in Ids : b.byId[d] \subseteq Members(b.pool, plan)
    BY <2>2, <2>3, <1>9 DEF AccOK
  <2> QED BY <2>1, <2>4, <2>5, <1>4, <1>7 DEF AccOK
<1> QED BY <1>10, <1>11 DEF Ingested, b

\* The row that takes an item, and what becomes of it.
LEMMA WinnerIs ==
  ASSUME NEW plan, NEW now \in Nat, NEW a, AccOK(a, plan), NEW item, ItemOK(a, item),
         NEW row \in DOMAIN a.pool, NEW r,
         LET f == Inherit(a.pool, row, Twins(a, item) \ {row})
         IN  r = Merged(IF a.byKey[item.key] = 0 THEN [f EXCEPT !.key = item.key] ELSE f,
                        item, now)
  PROVE  Absorbed(a, item, row, now, r) /\ CandidateOK(r)
<1> DEFINE losers == Twins(a, item) \ {row}
           old == a.pool[row]
           decided == {l \in losers : a.pool[l].status # "undecided"}
           noted == {l \in losers : a.pool[l].note # Null}
           firsts == {a.pool[l].first : l \in losers \cup {row}}
           f == Inherit(a.pool, row, losers)
           g == IF a.byKey[item.key] = 0 THEN [f EXCEPT !.key = item.key] ELSE f
<1>1. CandidateOK(old) /\ losers \subseteq DOMAIN a.pool /\ IsFiniteSet(losers)
  BY TwinsAre, FS_Subset DEF AccOK, PoolOK
<1>2. Cardinality(losers) \in Nat
  BY <1>1, FS_CardinalityType
<1>3. firsts \in SUBSET Nat /\ firsts # {}
  BY <1>1 DEF AccOK, PoolOK, CandidateOK
<1>4. Least(firsts) \in Nat
  BY <1>3, LeastIs
<1>5. f = [old EXCEPT
            !.status = IF @ = "undecided" /\ decided # {}
                       THEN a.pool[Least(decided)].status ELSE @,
            !.note = IF @ = Null /\ noted # {} THEN a.pool[Least(noted)].note ELSE @,
            !.first = Least(firsts),
            !.version = @ + Cardinality(losers)]
  BY DEF Inherit
<1> HIDE DEF losers, decided, noted, firsts, f
<1>6. /\ DOMAIN f = Fields /\ f.first = Least(firsts)
      /\ f.status = IF old.status = "undecided" /\ decided # {}
                    THEN a.pool[Least(decided)].status ELSE old.status
      /\ f.note = IF old.note = Null /\ noted # {}
                  THEN a.pool[Least(noted)].note ELSE old.note
      /\ f.plan = old.plan /\ f.live = old.live /\ f.key = old.key /\ f.enr = old.enr
      /\ f.version \in Nat
      /\ f.version = old.version + Cardinality(losers)
      /\ f.url = old.url /\ f.body = old.body
  BY <1>1, <1>2, <1>5 DEF CandidateOK, Fields
<1>7. /\ DOMAIN g = Fields /\ g.first = f.first /\ g.status = f.status /\ g.note = f.note
      /\ g.plan = f.plan /\ g.live = f.live /\ g.enr = f.enr /\ g.version = f.version
      /\ g.url = f.url /\ g.body = f.body
      /\ g.key = IF a.byKey[item.key] = 0 THEN item.key ELSE f.key
  BY <1>6 DEF Fields
<1>8. r = Merged(g, item, now)
  BY DEF f, losers
<1> HIDE DEF g, old
<1> DEFINE enr == IF item.enr = Null THEN g.enr ELSE item.enr
<1>9. PICK v \in Nat :
        /\ r = [g EXCEPT !.url = item.url, !.body = item.body, !.enr = enr,
                         !.last = now, !.version = v]
        /\ g.url = item.url /\ g.body = item.body /\ g.enr = enr => v = g.version
  <2> DEFINE same == <<g.url, g.body, g.enr>> = <<item.url, item.body, enr>>
             v == IF same THEN g.version ELSE g.version + 1
  <2>1. v \in Nat
    BY <1>6, <1>7
  <2>2. r = [g EXCEPT !.url = item.url, !.body = item.body, !.enr = enr,
                      !.last = now, !.version = v]
    BY <1>8 DEF Merged
  <2>3. g.url = item.url /\ g.body = item.body /\ g.enr = enr => v = g.version
    OBVIOUS
  <2> HIDE DEF v
  <2> QED BY <2>1, <2>2, <2>3
<1> HIDE DEF enr
<1>10. /\ DOMAIN r = Fields /\ r.url = item.url /\ r.body = item.body
       /\ r.enr = enr /\ r.last = now /\ r.version \in Nat
       /\ r.first = g.first /\ r.status = g.status /\ r.note = g.note
       /\ r.plan = g.plan /\ r.live = g.live /\ r.key = g.key
       /\ g.url = item.url /\ g.body = item.body /\ g.enr = enr => r.version = g.version
  <2>1. Fields = {"plan", "key", "url", "body", "enr", "status", "note", "first", "last",
                  "version", "live"}
    BY DEF Fields
  <2>2. DOMAIN g = Fields
    BY <1>7
  <2>3. DOMAIN r = Fields /\ \A x \in Fields :
          r[x] = IF x = "url" THEN item.url ELSE IF x = "body" THEN item.body
                 ELSE IF x = "enr" THEN enr ELSE IF x = "last" THEN now
                 ELSE IF x = "version" THEN v ELSE g[x]
    BY <1>9, <2>2
  <2>4. r.url = item.url /\ r.body = item.body /\ r.enr = enr /\ r.last = now /\ r.version = v
    BY <2>1, <2>3
  <2>5. /\ r.first = g.first /\ r.status = g.status /\ r.note = g.note
        /\ r.plan = g.plan /\ r.live = g.live /\ r.key = g.key
    BY <2>1, <2>3
  <2> QED BY Zenon, <1>9, <2>3, <2>4, <2>5
<1>11. losers = {} => f.version = old.version
  <2>1. old.version \in Nat
    BY <1>1 DEF CandidateOK
  <2>2. losers = {} => Cardinality(losers) = 0
    BY FS_EmptySet
  <2> QED BY <1>6, <2>1, <2>2
<1>12. Absorbed(a, item, row, now, r)
  <2>1. old.enr = g.enr /\ old.url = g.url /\ old.body = g.body
    BY <1>6, <1>7
  <2>2. /\ losers = {} /\ old.url = item.url /\ old.body = item.body
           /\ (item.enr = Null \/ old.enr = item.enr) => r.version = old.version
    BY <1>7, <1>10, <1>11, <2>1 DEF enr
  <2> QED BY <1>6, <1>7, <1>10, <2>2 DEF Absorbed, old, losers, decided, noted, firsts, enr
<1>13. CandidateOK(r)
  <2>1. IsRow(r)
    BY <1>6, <1>7, <1>9 DEF IsRow
  <2> QED BY <2>1, <1>1, <1>4, <1>6, <1>7, <1>10 DEF CandidateOK
<1> QED BY <1>12, <1>13

LEMMA IngestUpdates ==
  ASSUME NEW plan, NEW now \in Nat, NEW a, AccOK(a, plan), NEW item, ItemOK(a, item),
         a.byKey[item.key] # 0 \/ Twins(a, item) # {}
  PROVE  Ingested(a, item, plan, now, Ingest(plan, now, a, item))
<1> DEFINE b == Ingest(plan, now, a, item)
           T == Twins(a, item)
           byKey == a.byKey[item.key]
           adopted == CHOOSE t \in T : \A u \in T : a.pool[u].last <= a.pool[t].last
           row == IF byKey = 0 /\ T # {} THEN adopted ELSE byKey
           losers == T \ {row}
           rows == Fold(a.pool, row, losers)
           Keyed(r) == IF byKey = 0 THEN [r EXCEPT !.key = item.key] ELSE r
           P == [i \in DOMAIN rows |-> IF i = row THEN Merged(Keyed(rows[i]), item, now)
                                       ELSE rows[i]]
           gone == {a.pool[l].key : l \in losers}
           K == [k \in DOMAIN a.byKey |-> IF k \in gone THEN 0
                                          ELSE IF k = item.key THEN row ELSE a.byKey[k]]
           S == Rewrite(a.scens, plan, row, losers)
<1>1. /\ T \subseteq Members(a.pool, plan) /\ \A t \in T : a.pool[t].live
      /\ Members(a.pool, plan) \subseteq DOMAIN a.pool /\ 0 \notin DOMAIN a.pool
      /\ \A i \in DOMAIN a.pool : CandidateOK(a.pool[i])
  BY TwinsAre DEF AccOK, PoolOK, Members
<1>2. T # {} => adopted \in T
  <2> HIDE DEF adopted
  <2> QED BY AdoptedIs DEF adopted
<1>3. /\ row \in Members(a.pool, plan) /\ row \in DOMAIN a.pool /\ row # 0
      /\ IF byKey = 0 THEN row \in T ELSE row = byKey
  <2>0. byKey # 0 \/ T # {}
    OBVIOUS
  <2> HIDE DEF adopted, T
  <2>1. CASE byKey = 0
    <3>1. row = adopted /\ adopted \in T
      BY <2>0, <2>1, <1>2
    <3> HIDE DEF row
    <3> QED BY <2>1, <3>1, <1>1
  <2>2. CASE byKey # 0
    BY <2>2, <1>1 DEF AccOK, ItemOK
  <2> QED BY <2>1, <2>2
<1>4. b = [a EXCEPT !.pool = P, !.scens = S, !.byKey = K]
  <2>1. ~(row = 0)
    BY <1>3
  <2>2. b = IF row = 0
            THEN [a EXCEPT
                    !.pool = Append(@, Candidate(plan, item, now)),
                    !.byKey = [@ EXCEPT ![item.key] = Len(a.pool) + 1],
                    !.byId = [d \in DOMAIN @ |-> IF d = Identity[item.url]
                                                 THEN @[d] \cup {Len(a.pool) + 1} ELSE @[d]]]
            ELSE [a EXCEPT !.pool = P, !.scens = S, !.byKey = K]
    BY DEF Ingest, Twins
  <2> HIDE DEF b, P, S, K, row
  <2> QED BY <2>1, <2>2
<1>5. \A i \in DOMAIN a.pool : rows[i] = IF i = row THEN Inherit(a.pool, row, losers)
                                         ELSE IF i \in losers
                                         THEN [a.pool[i] EXCEPT !.live = FALSE, !.version = @ + 1]
                                         ELSE a.pool[i]
  BY DEF Fold
<1>6. DOMAIN rows = DOMAIN a.pool
  BY DEF Fold
<1>7. DOMAIN a = {"pool", "scens", "byKey", "byId"} /\ Table(a.pool) /\ DOMAIN a.byId = Ids
  BY DEF AccOK, PoolOK
<1> HIDE DEF b, rows, P, K, S, row, losers, T
<1>8. /\ DOMAIN b = {"pool", "scens", "byKey", "byId"}
      /\ b.pool = P /\ b.scens = S /\ b.byKey = K /\ b.byId = a.byId
  BY <1>4, <1>7
<1>9. /\ Table(P) /\ Len(P) = Len(a.pool) /\ DOMAIN P = DOMAIN a.pool
      /\ \A i \in DOMAIN a.pool : P[i] = IF i = row THEN Merged(Keyed(rows[i]), item, now)
                                         ELSE rows[i]
  <2>1. DOMAIN a.pool = 1 .. Len(a.pool) /\ Len(a.pool) \in Nat
    BY <1>7, TableIs
  <2>2. P = [i \in 1 .. Len(a.pool) |-> P[i]]
    BY <1>6, <2>1 DEF P
  <2>3. Table(P) /\ Len(P) = Len(a.pool) /\ DOMAIN P = 1 .. Len(a.pool)
    BY <2>1, <2>2, MapIsTable
  <2>4. \A i \in DOMAIN a.pool : P[i] = IF i = row THEN Merged(Keyed(rows[i]), item, now)
                                         ELSE rows[i]
    BY <1>6 DEF P
  <2> QED BY <2>1, <2>3, <2>4
<1>10. Absorbed(a, item, row, now, P[row]) /\ CandidateOK(P[row])
  <2>1. P[row] = Merged(Keyed(Inherit(a.pool, row, T \ {row})), item, now)
    BY <1>3, <1>5, <1>9 DEF losers
  <2>2. P[row] = Merged(IF a.byKey[item.key] = 0
                        THEN [Inherit(a.pool, row, T \ {row}) EXCEPT !.key = item.key]
                        ELSE Inherit(a.pool, row, T \ {row}), item, now)
    BY <2>1
  <2>3. LET f == Inherit(a.pool, row, Twins(a, item) \ {row})
        IN  P[row] = Merged(IF a.byKey[item.key] = 0 THEN [f EXCEPT !.key = item.key] ELSE f,
                            item, now)
    BY <2>2 DEF T
  <2> DEFINE p == P[row]
  <2> HIDE DEF p
  <2>4. LET f == Inherit(a.pool, row, Twins(a, item) \ {row})
        IN  p = Merged(IF a.byKey[item.key] = 0 THEN [f EXCEPT !.key = item.key] ELSE f,
                       item, now)
    BY <2>3 DEF p
  <2>5. Absorbed(a, item, row, now, p) /\ CandidateOK(p)
    BY <1>3, <2>4, WinnerIs
  <2> QED BY <2>5 DEF p
<1>11. \A i \in DOMAIN a.pool \ (losers \cup {row}) : P[i] = a.pool[i]
  BY <1>5, <1>9
<1>12. losers \subseteq T /\ row \notin losers
  BY DEF losers
<1>13. \A i \in losers : P[i] = [a.pool[i] EXCEPT !.live = FALSE, !.version = @ + 1]
  BY <1>1, <1>5, <1>9, <1>12
<1>14. Updated(a, item, plan, now, row, b)
  <2>1. losers = Twins(a, item) \ {row}
    BY DEF losers, T
  <2>2. row \in Members(a.pool, plan) /\ losers \subseteq Members(a.pool, plan)
    BY <1>1, <1>3, <1>12
  <2>3. IF a.byKey[item.key] = 0 THEN row \in Twins(a, item) ELSE row = a.byKey[item.key]
    BY <1>3 DEF T
  <2>4. \A k \in DOMAIN a.byKey : K[k] = IF k \in {a.pool[l].key : l \in losers} THEN 0
                                        ELSE IF k = item.key THEN row ELSE a.byKey[k]
    BY DEF K
  <2>5. DOMAIN K = DOMAIN a.byKey
    BY DEF K
  <2>6. S = Rewrite(a.scens, plan, row, losers)
    BY DEF S
  <2> QED BY <2>1, <2>2, <2>3, <2>4, <2>5, <2>6, <1>8, <1>9, <1>10, <1>11, <1>13 DEF Updated
<1>15. AccOK(b, plan)
  <2>1. \A i \in losers : CandidateOK(P[i]) /\ P[i].plan = a.pool[i].plan
    <3> SUFFICES ASSUME NEW i \in losers PROVE CandidateOK(P[i]) /\ P[i].plan = a.pool[i].plan
      OBVIOUS
    <3>1. CandidateOK(a.pool[i]) /\ P[i] = [a.pool[i] EXCEPT !.live = FALSE, !.version = @ + 1]
      BY <1>1, <1>12, <1>13
    <3> QED BY <3>1, RetiredIs
  <2>2. P[row].plan = a.pool[row].plan
    BY <1>10 DEF Absorbed
  <2>3. \A i \in DOMAIN P : CandidateOK(P[i]) /\ P[i].plan = a.pool[i].plan
    BY <1>1, <1>9, <1>10, <1>11, <2>1, <2>2
  <2>4. PoolOK(P) /\ \A i \in Members(a.pool, plan) : i \in Members(P, plan)
    BY <1>9, <2>3 DEF PoolOK, Members
  <2>5. \A k \in DOMAIN K : K[k] = 0 \/ K[k] \in Members(P, plan)
    BY <1>3, <2>4 DEF K, AccOK
  <2>6. \A d \in Ids : a.byId[d] \subseteq Members(P, plan)
    BY <2>4 DEF AccOK
  <2> QED BY <1>7, <1>8, <2>4, <2>5, <2>6 DEF AccOK
<1> QED BY <1>3, <1>14, <1>15 DEF Ingested, b

LEMMA IngestIs ==
  ASSUME NEW plan, NEW now \in Nat, NEW a, AccOK(a, plan), NEW item, ItemOK(a, item)
  PROVE  Ingested(a, item, plan, now, Ingest(plan, now, a, item))
<1>1. \/ a.byKey[item.key] = 0 /\ Twins(a, item) = {}
      \/ a.byKey[item.key] # 0 \/ Twins(a, item) # {}
  OBVIOUS
<1> QED BY <1>1, IngestCreates, IngestUpdates

\* The items that are left: each is one that counts, no two have a key or an
\* event in common, and the event of each that counts is there.
CollapsedOK(items, todo) ==
    /\ Len(todo) \in Nat /\ DOMAIN todo = 1 .. Len(todo)
    /\ \A k \in DOMAIN todo : \E n \in Counting(items) : todo[k] = items[n]
    /\ \A j, k \in DOMAIN todo : j # k =>
          /\ todo[j].key # todo[k].key
          /\ Identity[todo[j].url] # NoIdentity =>
                Identity[todo[j].url] # Identity[todo[k].url]
    /\ \A n \in Counting(items) : Identity[items[n].url] # NoIdentity =>
          \E k \in DOMAIN todo : Identity[todo[k].url] = Identity[items[n].url]

LEMMA CollapsedIs ==
  ASSUME NEW items \in Payloads
  PROVE  CollapsedOK(items, Collapsed(items))
<1> DEFINE allowed == {n \in DOMAIN items : ~Vetoed(items[n])}
           Spelled(n) == {m \in allowed : items[m].key = items[n].key}
           first == [n \in allowed |-> Least(Spelled(n))]
           last == {n \in allowed : \A m \in Spelled(n) : m <= n}
           id(n) == Identity[items[n].url]
           kept == {n \in last : \A m \in last :
                       \/ Identity[items[n].url] = NoIdentity
                       \/ Identity[items[m].url] # Identity[items[n].url]
                       \/ first[m] <= first[n]}
           order == InOrder(kept, first)
           todo == Collapsed(items)
           N == Cardinality(kept)
<1>1. Len(items) \in Nat /\ DOMAIN items = 1 .. Len(items) /\ IsFiniteSet(DOMAIN items)
  <2>1. items \in Seq(Range(items))
    BY SeasonAssumption
  <2>2. Len(items) \in Nat /\ DOMAIN items = 1 .. Len(items)
    BY <2>1, LenProperties
  <2>3. 1 \in Int /\ Len(items) \in Int
    BY <2>2
  <2> QED BY <2>2, <2>3, FS_Interval
<1>2. /\ allowed \subseteq DOMAIN items /\ last \subseteq allowed /\ kept \subseteq last
      /\ IsFiniteSet(last) /\ IsFiniteSet(kept)
      /\ \A n \in allowed : n \in Nat
  <2>1. /\ allowed \subseteq DOMAIN items /\ last \subseteq allowed /\ kept \subseteq last
        /\ last \subseteq DOMAIN items /\ kept \subseteq DOMAIN items
    OBVIOUS
  <2> HIDE DEF allowed, last, kept
  <2>2. IsFiniteSet(last) /\ IsFiniteSet(kept)
    BY <1>1, <2>1, FS_Subset
  <2> QED BY <1>1, <2>1, <2>2
<1>3. \A n \in allowed : first[n] \in Spelled(n) /\ first[n] \in Nat
  <2> SUFFICES ASSUME NEW n \in allowed PROVE first[n] \in Spelled(n) /\ first[n] \in Nat
    OBVIOUS
  <2>1. n \in Spelled(n) /\ Spelled(n) \subseteq allowed
    OBVIOUS
  <2>2. first[n] = Least(Spelled(n))
    OBVIOUS
  <2> HIDE DEF Spelled, first, allowed
  <2>3. Spelled(n) \in SUBSET Nat /\ Spelled(n) # {}
    BY <1>2, <2>1
  <2> QED BY <2>2, <2>3, LeastIs
<1>4. Counting(items) = last
  BY DEF Counting
<1>5. todo = [k \in DOMAIN order |-> items[order[k]]]
  BY DEF Collapsed
<1>6. \A n \in kept : n \in Int /\ first[n] \in Int
  <2> HIDE DEF kept, last, allowed, first
  <2> QED BY <1>2, <1>3
<1>7. Sorts(N, order, kept, first)
  <2> HIDE DEF kept, first
  <2> QED BY <1>2, <1>6, InOrderSorts
<1>8. /\ N \in Nat /\ order \in [1 .. N -> kept]
      /\ \A n \in kept : \E k \in 1 .. N : order[k] = n
      /\ \A j, k \in 1 .. N : order[j] = order[k] => j = k
  <2> HIDE DEF N, order, kept, first
  <2>1. /\ N \in Nat /\ order \in [1 .. N -> kept]
        /\ \A n \in kept : \E k \in 1 .. N : order[k] = n
        /\ \A j, k \in 1 .. N : j < k =>
              \/ first[order[j]] < first[order[k]]
              \/ first[order[j]] = first[order[k]] /\ order[j] < order[k]
    BY <1>7 DEF Sorts
  <2>2. ASSUME NEW j \in 1 .. N, NEW k \in 1 .. N, order[j] = order[k], j < k PROVE FALSE
    <3>1. order[j] \in kept /\ order[j] \in Int /\ first[order[j]] \in Int
      BY <1>6, <2>1
    <3> QED BY <2>1, <2>2, <3>1
  <2>3. ASSUME NEW j \in 1 .. N, NEW k \in 1 .. N, order[j] = order[k] PROVE j = k
    <3>1. j < k \/ k < j \/ j = k
      BY <2>1
    <3> QED BY <2>2, <2>3, <3>1
  <2> QED BY <2>1, <2>3
<1>9. \A m, n \in last : items[m].key = items[n].key => m = n
  <2> SUFFICES ASSUME NEW m \in last, NEW n \in last, items[m].key = items[n].key
               PROVE  m = n
    OBVIOUS
  <2>1. m \in Spelled(n) /\ n \in Spelled(m)
    OBVIOUS
  <2>2. m <= n /\ n <= m /\ m \in Nat /\ n \in Nat
    BY <1>2, <2>1
  <2> QED BY <2>2
<1>10. \A m, n \in kept : id(m) # NoIdentity /\ id(m) = id(n) => m = n
  <2> SUFFICES ASSUME NEW m \in kept, NEW n \in kept, id(m) # NoIdentity, id(m) = id(n)
               PROVE  m = n
    OBVIOUS
  <2>1. m \in last /\ n \in last /\ m \in allowed /\ n \in allowed
    OBVIOUS
  <2>2. first[m] <= first[n] /\ first[n] <= first[m]
    OBVIOUS
  <2>3. first[m] \in Spelled(m) /\ first[n] \in Spelled(n) /\ first[m] \in Nat /\ first[n] \in Nat
    BY <1>3, <2>1
  <2>4. first[m] = first[n]
    <3> HIDE DEF first
    <3> QED BY <2>2, <2>3
  <2>5. items[first[m]].key = items[m].key /\ items[first[n]].key = items[n].key
    <3> HIDE DEF first
    <3> QED BY <2>3
  <2>6. items[m].key = items[n].key
    <3> HIDE DEF first
    <3> QED BY <2>4, <2>5
  <2> HIDE DEF last, kept
  <2> QED BY <1>9, <2>1, <2>6
<1>11. \A n \in last : id(n) # NoIdentity => \E m \in kept : id(m) = id(n)
  <2> SUFFICES ASSUME NEW n \in last, id(n) # NoIdentity
               PROVE  \E m \in kept : id(m) = id(n)
    OBVIOUS
  <2> DEFINE L == {m \in last : id(m) = id(n)}
  <2>1. L \subseteq last /\ n \in L
    OBVIOUS
  <2>2. IsFiniteSet(L) /\ L \subseteq Int /\ L # {} /\ \A m \in L : first[m] \in Int
    <3> HIDE DEF L, last, allowed, first
    <3>1. IsFiniteSet(L)
      BY <1>2, <2>1, FS_Subset
    <3> QED BY <3>1, <1>2, <1>3, <2>1
  <2>3. PICK m \in L : \A l \in L : first[l] <= first[m]
    <3> HIDE DEF L, first
    <3> QED BY <2>2, GreatestBy
  <2>4. m \in kept
    BY <2>3
  <2> QED BY <2>4
<1> HIDE DEF todo, order, N, kept, last, allowed, first
<1>12. DOMAIN todo = 1 .. N /\ \A k \in 1 .. N : todo[k] = items[order[k]] /\ order[k] \in kept
  BY <1>5, <1>8
<1>13. Len(todo) = N
  <2>1. todo = [k \in 1 .. N |-> todo[k]]
    BY <1>5, <1>8
  <2> QED BY <2>1, <1>8, MapIsTable
<1>14. \A k \in DOMAIN todo : \E n \in Counting(items) : todo[k] = items[n]
  BY <1>2, <1>4, <1>12
<1>15. \A j, k \in DOMAIN todo : j # k =>
          /\ todo[j].key # todo[k].key
          /\ Identity[todo[j].url] # NoIdentity =>
                Identity[todo[j].url] # Identity[todo[k].url]
  <2> SUFFICES ASSUME NEW j \in 1 .. N, NEW k \in 1 .. N, j # k
               PROVE  /\ todo[j].key # todo[k].key
                      /\ Identity[todo[j].url] # NoIdentity =>
                            Identity[todo[j].url] # Identity[todo[k].url]
    BY <1>12
  <2>1. order[j] # order[k] /\ order[j] \in kept /\ order[k] \in kept
    BY <1>8, <1>12
  <2>2. todo[j] = items[order[j]] /\ todo[k] = items[order[k]]
    BY <1>12
  <2> QED BY <1>2, <1>9, <1>10, <2>1, <2>2
<1>16. \A n \in Counting(items) : Identity[items[n].url] # NoIdentity =>
          \E k \in DOMAIN todo : Identity[todo[k].url] = Identity[items[n].url]
  <2> SUFFICES ASSUME NEW n \in last, id(n) # NoIdentity
               PROVE  \E k \in 1 .. N : Identity[todo[k].url] = id(n)
    BY <1>4, <1>12
  <2>1. PICK m \in kept : id(m) = id(n)
    BY <1>11
  <2>2. PICK k \in 1 .. N : order[k] = m
    BY <1>8
  <2> QED BY <1>12, <2>1, <2>2
<1> QED BY <1>8, <1>12, <1>13, <1>14, <1>15, <1>16 DEF CollapsedOK, todo

-----------------------------------------------------------------------------
(* An upload *)

PurgedOK(rows, plan, b) ==
    /\ PoolOK(b) /\ Len(b) = Len(rows) /\ DOMAIN b = DOMAIN rows
    /\ \A i \in DOMAIN rows :
          b[i] = IF i \in Alive(rows, plan) /\ Vetoed(rows[i])
                 THEN [rows[i] EXCEPT !.live = FALSE, !.version = @ + 1] ELSE rows[i]
    /\ \A i \in DOMAIN rows :
          /\ b[i].plan = rows[i].plan /\ b[i].key = rows[i].key /\ b[i].url = rows[i].url
          /\ b[i].first = rows[i].first /\ (b[i].live => b[i] = rows[i])

LEMMA PurgedIs ==
  ASSUME NEW rows, PoolOK(rows), NEW plan
  PROVE  PurgedOK(rows, plan, Purged(rows, plan))
<1> DEFINE b == Purged(rows, plan)
           W(i) == IF i \in Alive(rows, plan) /\ Vetoed(rows[i])
                   THEN [rows[i] EXCEPT !.live = FALSE, !.version = @ + 1] ELSE rows[i]
<1>1. b = [i \in DOMAIN rows |-> W(i)]
  BY DEF Purged
<1>2. Len(rows) \in Nat /\ DOMAIN rows = 1 .. Len(rows)
  BY TableIs DEF PoolOK
<1>3. ASSUME NEW i \in DOMAIN rows
      PROVE  /\ CandidateOK(W(i)) /\ W(i).plan = rows[i].plan /\ W(i).key = rows[i].key
             /\ W(i).url = rows[i].url /\ W(i).first = rows[i].first
             /\ (W(i).live => W(i) = rows[i])
  <2>1. CandidateOK(rows[i])
    BY DEF PoolOK
  <2>2. CASE W(i) = rows[i]
    <3> HIDE DEF W
    <3> QED BY <2>1, <2>2
  <2>3. CASE W(i) = [rows[i] EXCEPT !.live = FALSE, !.version = @ + 1]
    <3> HIDE DEF W
    <3> QED BY <2>1, <2>3, RetiredIs
  <2> QED BY <2>2, <2>3
<1> HIDE DEF b
<1>4. \A i \in DOMAIN rows : b[i] = W(i)
  BY <1>1
<1>5. Table(b) /\ Len(b) = Len(rows) /\ DOMAIN b = DOMAIN rows
  <2> HIDE DEF W
  <2>1. b = [i \in 1 .. Len(rows) |-> b[i]]
    BY <1>1, <1>2
  <2> QED BY <1>2, <2>1, MapIsTable
<1>6. \A i \in DOMAIN rows :
          b[i] = IF i \in Alive(rows, plan) /\ Vetoed(rows[i])
                 THEN [rows[i] EXCEPT !.live = FALSE, !.version = @ + 1] ELSE rows[i]
  BY <1>4
<1> HIDE DEF W
<1> QED BY <1>3, <1>4, <1>5, <1>6 DEF PurgedOK, PoolOK, b

MappedOK(seen, plan, items, a) ==
    LET live == Alive(a.pool, plan) IN
    /\ AccOK(a, plan) /\ PurgedOK(seen.pool, plan, a.pool) /\ a.scens = seen.scens
    /\ \A n \in DOMAIN items : items[n].key \in DOMAIN a.byKey
    /\ \A i \in live : a.pool[i].key \in DOMAIN a.byKey
    /\ \A k \in DOMAIN a.byKey :
          IF \E i \in live : a.pool[i].key = k
          THEN a.byKey[k] \in live /\ a.pool[a.byKey[k]].key = k ELSE a.byKey[k] = 0
    /\ \A d \in Ids : a.byId[d] = {i \in live : Identity[a.pool[i].url] = d}

LEMMA MappedIs ==
  ASSUME NEW seen, PoolOK(seen.pool), NEW plan, NEW items
  PROVE  MappedOK(seen, plan, items, Mapped(seen, plan, items))
<1> DEFINE rows == Purged(seen.pool, plan)
           live == Alive(rows, plan)
           keys == {items[n].key : n \in DOMAIN items} \cup {rows[i].key : i \in live}
           a == Mapped(seen, plan, items)
           K == [k \in keys |-> IF \E i \in live : rows[i].key = k
                                THEN CHOOSE i \in live : rows[i].key = k ELSE 0]
           D == [d \in Ids |-> {i \in live : Identity[rows[i].url] = d}]
<1>1. PurgedOK(seen.pool, plan, rows)
  BY PurgedIs
<1>2. a = [pool |-> rows, scens |-> seen.scens, byKey |-> K, byId |-> D]
  BY DEF Mapped, Ids
<1>3. live \subseteq Members(rows, plan)
  BY DEF Alive, Members
<1>4. DOMAIN K = keys /\ DOMAIN D = Ids
  OBVIOUS
<1>5. \A k \in keys : IF \E i \in live : rows[i].key = k
                      THEN K[k] \in live /\ rows[K[k]].key = k ELSE K[k] = 0
  OBVIOUS
<1>6. \A d \in Ids : D[d] = {i \in live : Identity[rows[i].url] = d}
  OBVIOUS
<1>7. /\ \A n \in DOMAIN items : items[n].key \in keys
      /\ \A i \in live : rows[i].key \in keys
  OBVIOUS
<1>8. live = Alive(rows, plan)
  OBVIOUS
<1> HIDE DEF K, D, keys, live, a, rows
<1>9. /\ DOMAIN a = {"pool", "scens", "byKey", "byId"}
      /\ a.pool = rows /\ a.scens = seen.scens /\ a.byKey = K /\ a.byId = D
  BY <1>2
<1>10. AccOK(a, plan)
  <2>1. \A k \in keys : K[k] = 0 \/ K[k] \in Members(rows, plan)
    BY <1>3, <1>5
  <2>2. \A d \in Ids : D[d] \subseteq Members(rows, plan)
    BY <1>3, <1>6
  <2> QED BY <1>1, <1>4, <1>9, <2>1, <2>2 DEF AccOK, PurgedOK
<1> QED BY <1>1, <1>4, <1>5, <1>6, <1>7, <1>8, <1>9, <1>10 DEF MappedOK, a

\* The states an upload passes through, item by item.
Passes(f, seen, plan, items, now) ==
    f = [n \in 0 .. Len(Collapsed(items)) |->
            IF n = 0 THEN Mapped(seen, plan, items)
            ELSE Ingest(plan, now, f[n - 1], Collapsed(items)[n])]

LEMMA PassesExist ==
  ASSUME NEW start, NEW todo, NEW plan, NEW now
  PROVE  \A n \in Nat : \E f : f = [k \in 0 .. n |-> IF k = 0 THEN start
                                                    ELSE Ingest(plan, now, f[k - 1], todo[k])]
<1> DEFINE Run(f, n) == f = [k \in 0 .. n |-> IF k = 0 THEN start
                                             ELSE Ingest(plan, now, f[k - 1], todo[k])]
           T == {n \in Nat : \E f : Run(f, n)}
<1>1. 0 \in T
  <2>1. Run([k \in 0 .. 0 |-> start], 0)
    OBVIOUS
  <2> QED BY <2>1
<1>2. ASSUME NEW n \in Nat, n \in T PROVE n + 1 \in T
  <2>1. PICK f : Run(f, n)
    BY <1>2
  <2> DEFINE last == Ingest(plan, now, f[n], todo[n + 1])
             g == [k \in 0 .. n + 1 |-> IF k = n + 1 THEN last ELSE f[k]]
  <2>2. ASSUME NEW k \in 0 .. n
        PROVE  g[k] = IF k = 0 THEN start ELSE Ingest(plan, now, g[k - 1], todo[k])
    <3>1. f[k] = IF k = 0 THEN start ELSE Ingest(plan, now, f[k - 1], todo[k])
      BY <2>1
    <3>2. g[k] = f[k] /\ (k # 0 => g[k - 1] = f[k - 1])
      OBVIOUS
    <3> QED BY <3>1, <3>2
  <2>3. g[n + 1] = Ingest(plan, now, g[n], todo[n + 1])
    OBVIOUS
  <2>4. Run(g, n + 1)
    <3>1. \A k \in 0 .. n + 1 :
            g[k] = IF k = 0 THEN start ELSE Ingest(plan, now, g[k - 1], todo[k])
      <4> HIDE DEF g
      <4>1. \A k \in 0 .. n + 1 : k \in 0 .. n \/ (k = n + 1 /\ k # 0 /\ k - 1 = n)
        OBVIOUS
      <4> QED BY <2>2, <2>3, <4>1
    <3>2. g = [k \in 0 .. n + 1 |-> g[k]]
      OBVIOUS
    <3> HIDE DEF g
    <3> QED BY <3>1, <3>2
  <2> HIDE DEF Run, g
  <2> QED BY <2>4
<1> HIDE DEF T
<1>3. Nat \subseteq T
  BY <1>1, <1>2, SetInduction
<1> QED BY <1>3 DEF T

\* An upload, as steps that each take in an item.
Uploaded(f, seen, plan, items, now) ==
    LET todo == Collapsed(items) IN
    /\ MappedOK(seen, plan, items, f[0])
    /\ \A n \in DOMAIN todo :
          /\ ItemOK(f[n - 1], todo[n]) /\ AccOK(f[n - 1], plan)
          /\ Ingested(f[n - 1], todo[n], plan, now, f[n])
    /\ AccOK(f[Len(todo)], plan)
    /\ Upload(seen, plan, items, now) =
          [seen EXCEPT !.pool = f[Len(todo)].pool, !.scens = f[Len(todo)].scens]

LEMMA UploadIs ==
  ASSUME NEW seen, PoolOK(seen.pool), NEW plan, NEW items \in Payloads, NEW now \in Nat
  PROVE  \E f : Uploaded(f, seen, plan, items, now)
<1> DEFINE todo == Collapsed(items)
           N == Len(todo)
           start == Mapped(seen, plan, items)
           f == CHOOSE after : after = [n \in 0 .. N |->
                   IF n = 0 THEN start ELSE Ingest(plan, now, after[n - 1], todo[n])]
<1>1. CollapsedOK(items, todo) /\ MappedOK(seen, plan, items, start)
  BY CollapsedIs, MappedIs
<1>2. N \in Nat /\ DOMAIN todo = 1 .. N
  BY <1>1 DEF CollapsedOK
<1>3. f = [n \in 0 .. N |-> IF n = 0 THEN start ELSE Ingest(plan, now, f[n - 1], todo[n])]
  <2> HIDE DEF todo, start, N
  <2> QED BY <1>2, PassesExist
<1>4. Upload(seen, plan, items, now) = [seen EXCEPT !.pool = f[N].pool, !.scens = f[N].scens]
  BY DEF Upload
<1>5. \A n \in DOMAIN todo : todo[n].url \in Urls /\ todo[n].key \in DOMAIN start.byKey
  <2> SUFFICES ASSUME NEW n \in DOMAIN todo
               PROVE  todo[n].url \in Urls /\ todo[n].key \in DOMAIN start.byKey
    OBVIOUS
  <2> HIDE DEF todo, start
  <2>1. PICK m \in Counting(items) : todo[n] = items[m]
    BY <1>1 DEF CollapsedOK
  <2>2. m \in DOMAIN items
    BY DEF Counting
  <2> QED BY <1>1, <2>1, <2>2, SeasonAssumption DEF MappedOK
<1> HIDE DEF f, start, todo, N
<1> DEFINE T == {n \in Nat : n <= N => AccOK(f[n], plan) /\ DOMAIN f[n].byKey = DOMAIN start.byKey}
<1>6. f[0] = start /\ \A n \in 1 .. N : f[n] = Ingest(plan, now, f[n - 1], todo[n])
  BY <1>2, <1>3
<1>7. 0 \in T
  BY <1>1, <1>6 DEF MappedOK
<1>8. ASSUME NEW n \in Nat, n \in T PROVE n + 1 \in T
  <2> SUFFICES ASSUME n + 1 <= N
               PROVE  AccOK(f[n + 1], plan) /\ DOMAIN f[n + 1].byKey = DOMAIN start.byKey
    OBVIOUS
  <2>1. n + 1 \in 1 .. N /\ n + 1 \in DOMAIN todo /\ n <= N /\ n + 1 - 1 = n
    BY <1>2
  <2>2. AccOK(f[n], plan) /\ DOMAIN f[n].byKey = DOMAIN start.byKey
    BY <1>8, <2>1
  <2>3. ItemOK(f[n], todo[n + 1])
    BY <1>5, <2>1, <2>2 DEF ItemOK
  <2>4. Ingested(f[n], todo[n + 1], plan, now, Ingest(plan, now, f[n], todo[n + 1]))
    BY <2>2, <2>3, IngestIs
  <2>5. f[n + 1] = Ingest(plan, now, f[n], todo[n + 1])
    BY <1>6, <2>1
  <2> QED BY <2>2, <2>4, <2>5 DEF Ingested, Created, Updated
<1> HIDE DEF T
<1>9. Nat \subseteq T
  BY <1>7, <1>8, SetInduction
<1>10. \A n \in 0 .. N : AccOK(f[n], plan) /\ DOMAIN f[n].byKey = DOMAIN start.byKey
  BY <1>9 DEF T
<1>11. ASSUME NEW n \in DOMAIN todo
       PROVE  /\ ItemOK(f[n - 1], todo[n]) /\ AccOK(f[n - 1], plan)
              /\ Ingested(f[n - 1], todo[n], plan, now, f[n])
  <2>1. n - 1 \in 0 .. N /\ n \in 1 .. N
    BY <1>2
  <2>2. ItemOK(f[n - 1], todo[n]) /\ AccOK(f[n - 1], plan)
    BY <1>5, <1>10, <2>1 DEF ItemOK
  <2>3. f[n] = Ingest(plan, now, f[n - 1], todo[n])
    BY <1>6, <2>1
  <2> QED BY <2>2, <2>3, IngestIs
<1>12. AccOK(f[N], plan) /\ MappedOK(seen, plan, items, f[0])
  BY <1>1, <1>2, <1>6, <1>10
<1>13. Uploaded(f, seen, plan, items, now)
  BY <1>4, <1>11, <1>12 DEF Uploaded, todo, N
<1> QED BY <1>13

-----------------------------------------------------------------------------
(* What a request makes of the tables it has read *)

PlanFields == {"label", "starts", "active", "ack", "version"}

PlansOK(t) ==
    /\ Table(t)
    /\ \A p \in DOMAIN t :
          DOMAIN t[p] = PlanFields /\ t[p].ack \in Nat /\ t[p].starts \in Nat

TableNames == {"plans", "pool", "scens", "links"}

\* Decisions and deletions: no candidate appears, moves or comes back.
Decides(old, new) ==
    /\ PoolOK(new) /\ Len(new) = Len(old) /\ DOMAIN new = DOMAIN old
    /\ \A i \in DOMAIN old :
          /\ new[i].plan = old[i].plan /\ new[i].first = old[i].first
          /\ new[i].live => old[i].live

\* A row changed at one place.
LEMMA OneRowChanged ==
  ASSUME NEW old, PoolOK(old), NEW row \in DOMAIN old, NEW r, CandidateOK(r),
         r.plan = old[row].plan, r.first = old[row].first, r.live => old[row].live,
         NEW new, new = [old EXCEPT ![row] = r]
  PROVE  Decides(old, new)
<1>1. Len(old) \in Nat /\ DOMAIN old = 1 .. Len(old)
  BY TableIs DEF PoolOK
<1>2. new = [i \in 1 .. Len(old) |-> new[i]]
  BY <1>1
<1>3. Table(new) /\ Len(new) = Len(old) /\ DOMAIN new = 1 .. Len(old)
  BY <1>1, <1>2, MapIsTable
<1>4. \A i \in DOMAIN old : new[i] = IF i = row THEN r ELSE old[i]
  OBVIOUS
<1> QED BY <1>1, <1>3, <1>4 DEF Decides, PoolOK

LEMMA PatchDecides ==
  ASSUME NEW seen, DOMAIN seen = TableNames, PoolOK(seen.pool),
         NEW row \in DOMAIN seen.pool, NEW change \in Changes
  PROVE  Decides(seen.pool, Patch(seen, row, change).pool)
         /\ Patch(seen, row, change).plans = seen.plans
<1> DEFINE old == seen.pool
           r == [c \in DOMAIN old[row] |->
                    IF c \in DOMAIN change THEN change[c]
                    ELSE IF c = "version" THEN old[row][c] + 1 ELSE old[row][c]]
           new == [old EXCEPT ![row] = r]
<1>1. CandidateOK(old[row])
  BY DEF PoolOK
<1>2. DOMAIN change \subseteq {"status", "note"}
  BY SeasonAssumption
<1>3. /\ DOMAIN r = Fields /\ r.plan = old[row].plan /\ r.first = old[row].first
      /\ r.last = old[row].last /\ r.live = old[row].live
      /\ r.version = old[row].version + 1
  BY <1>1, <1>2 DEF CandidateOK, Fields
<1>4. Patch(seen, row, change) = [seen EXCEPT !.pool = new]
  BY DEF Patch, TableNames
<1>5. CandidateOK(r)
  <2>1. r = [f \in Fields |-> IF f \in DOMAIN change THEN change[f]
                ELSE IF f = "version" THEN old[row][f] + 1 ELSE old[row][f]]
    BY <1>1 DEF CandidateOK
  <2>2. IsRow(r)
    BY <2>1, MapIsRow
  <2> HIDE DEF r
  <2> QED BY <1>1, <1>3, <2>2 DEF CandidateOK
<1> HIDE DEF r
<1>6. Decides(old, new)
  BY <1>3, <1>5, OneRowChanged
<1> HIDE DEF new
<1> QED BY <1>4, <1>6 DEF TableNames

LEMMA DeleteDecides ==
  ASSUME NEW seen, DOMAIN seen = TableNames, PoolOK(seen.pool),
         NEW row \in DOMAIN seen.pool
  PROVE  Decides(seen.pool, Delete(seen, row).pool)
         /\ Delete(seen, row).plans = seen.plans
<1> DEFINE old == seen.pool
           r == [old[row] EXCEPT !.live = FALSE, !.version = @ + 1]
           new == [old EXCEPT ![row] = r]
<1>1. CandidateOK(old[row])
  BY DEF PoolOK
<1>2. /\ CandidateOK(r) /\ r.plan = old[row].plan /\ r.first = old[row].first /\ ~r.live
  BY <1>1, RetiredIs
<1>3. Delete(seen, row) = [seen EXCEPT !.pool = new]
  BY <1>1 DEF Delete, TableNames, CandidateOK, Fields
<1> HIDE DEF r
<1>4. Decides(old, new)
  BY <1>2, OneRowChanged
<1> HIDE DEF new
<1> QED BY <1>3, <1>4 DEF TableNames

LEMMA ApplyDecides ==
  ASSUME NEW seen, DOMAIN seen = TableNames, PoolOK(seen.pool),
         NEW scen, NEW replace, NEW now
  PROVE  Decides(seen.pool, Apply(seen, scen, replace, now).pool)
         /\ Apply(seen, scen, replace, now).plans = seen.plans
<1> DEFINE old == seen.pool
           plan == seen.scens[scen].plan
           members == seen.scens[scen].members
           Decided(i) == IF i \in members THEN "selected"
                         ELSE IF replace /\ old[i].status = "selected"
                         THEN "undecided" ELSE old[i].status
           W(i) == IF i \notin Alive(old, plan) \/ Decided(i) = old[i].status
                   THEN old[i]
                   ELSE [old[i] EXCEPT !.status = Decided(i), !.version = @ + 1]
           new == [i \in DOMAIN old |-> W(i)]
<1>1. Apply(seen, scen, replace, now) =
        [seen EXCEPT !.scens[scen].applied = now, !.scens[scen].version = @ + 1,
                     !.pool = new]
  BY DEF Apply
<1>2. ASSUME NEW i \in DOMAIN old
      PROVE  /\ CandidateOK(W(i)) /\ W(i).plan = old[i].plan /\ W(i).first = old[i].first
             /\ W(i).live = old[i].live
  <2>1. CandidateOK(old[i])
    BY DEF PoolOK
  <2> DEFINE d == Decided(i)
  <2> HIDE DEF d
  <2>2. CASE W(i) = old[i]
    <3> HIDE DEF W
    <3> QED BY <2>1, <2>2
  <2>3. CASE W(i) = [old[i] EXCEPT !.status = d, !.version = @ + 1]
    <3> HIDE DEF W
    <3>1. PICK r : r = W(i)
      OBVIOUS
    <3>2. PICK v : v = old[i]
      OBVIOUS
    <3>3. r = [v EXCEPT !.status = d, !.version = @ + 1] /\ CandidateOK(v)
      BY <2>1, <2>3, <3>1, <3>2
    <3>4. CandidateOK(r) /\ r.plan = v.plan /\ r.first = v.first /\ r.live = v.live
      BY <3>3, DecidedIs
    <3> QED BY <3>1, <3>2, <3>4
  <2>4. W(i) = old[i] \/ W(i) = [old[i] EXCEPT !.status = d, !.version = @ + 1]
    BY DEF d
  <2> QED BY <2>2, <2>3, <2>4
<1>3. Len(old) \in Nat /\ DOMAIN old = 1 .. Len(old)
  BY TableIs DEF PoolOK
<1> HIDE DEF W
<1>4. Table(new) /\ Len(new) = Len(old) /\ DOMAIN new = 1 .. Len(old)
  <2>1. new = [i \in 1 .. Len(old) |-> new[i]]
    BY <1>3
  <2> HIDE DEF new
  <2> QED BY <1>3, <2>1, MapIsTable
<1>5. \A i \in DOMAIN old : new[i] = W(i)
  OBVIOUS
<1> HIDE DEF new
<1>6. Decides(old, new)
  BY <1>2, <1>3, <1>4, <1>5 DEF Decides, PoolOK
<1>7. /\ Apply(seen, scen, replace, now).pool = new
      /\ Apply(seen, scen, replace, now).plans = seen.plans
  BY <1>1 DEF TableNames
<1> QED BY <1>6, <1>7

\* An upload moves no row to another plan and revives none; a row has its own
\* first_seen_at, or that of one that the upload has folded away.
Moved(old, p, plan, now, i) ==
    \/ p[i].first = IF i \in DOMAIN old THEN old[i].first ELSE now
    \/ /\ p[i].plan = plan
       /\ \E j \in Alive(old, plan) : ~p[j].live /\ p[i].first = old[j].first

Merges(old, p, plan, now) ==
    /\ PoolOK(p) /\ Len(old) <= Len(p) /\ DOMAIN old \subseteq DOMAIN p
    /\ \A i \in DOMAIN old :
          p[i].plan = old[i].plan /\ (p[i].live => old[i].live)
    /\ \A i \in DOMAIN p \ DOMAIN old : p[i].plan = plan
    /\ \A i \in DOMAIN p : p[i].first \in 1 .. now /\ Moved(old, p, plan, now, i)

LEMMA PurgeMerges ==
  ASSUME NEW old, PoolOK(old), NEW plan, NEW now \in Nat,
         \A i \in DOMAIN old : old[i].first \in 1 .. now,
         NEW p, PurgedOK(old, plan, p)
  PROVE  Merges(old, p, plan, now)
<1>1. Len(old) \in Nat /\ Len(p) = Len(old) /\ DOMAIN p = DOMAIN old /\ PoolOK(p)
  BY TableIs DEF PurgedOK, PoolOK
<1>2. \A i \in DOMAIN old : p[i].plan = old[i].plan /\ p[i].first = old[i].first
                            /\ (p[i].live => old[i].live)
  BY DEF PurgedOK
<1> QED BY <1>1, <1>2 DEF Merges, Moved

LEMMA CreatingMerges ==
  ASSUME NEW old, PoolOK(old), NEW plan, NEW now \in Nat, 1 <= now, NEW a, AccOK(a, plan),
         Merges(old, a.pool, plan, now), NEW item, NEW b, AccOK(b, plan),
         Created(a, item, plan, now, b)
  PROVE  Merges(old, b.pool, plan, now)
<1> DEFINE fresh == Len(a.pool) + 1
           new == Candidate(plan, item, now)
<1>1. /\ DOMAIN b.pool = DOMAIN a.pool \cup {fresh} /\ fresh \notin DOMAIN a.pool
      /\ Len(b.pool) = Len(a.pool) + 1 /\ Len(a.pool) \in Nat
      /\ \A i \in DOMAIN a.pool : b.pool[i] = a.pool[i]
      /\ b.pool[fresh] = new
  <2>1. Table(a.pool) /\ b.pool = Append(a.pool, new)
    BY DEF AccOK, PoolOK, Created
  <2> HIDE DEF new
  <2> QED BY <2>1, AppendJoins, TableIs
<1>2. new.plan = plan /\ new.first = now
  BY DEF Candidate
<1>3. Len(old) \in Nat
  BY TableIs DEF PoolOK
<1> HIDE DEF new, fresh
<1>4. Len(old) <= Len(b.pool) /\ DOMAIN old \subseteq DOMAIN b.pool
  BY <1>1, <1>3 DEF Merges
<1>5. ASSUME NEW i \in DOMAIN b.pool
      PROVE  b.pool[i].first \in 1 .. now /\ Moved(old, b.pool, plan, now, i)
  <2>1. CASE i = fresh
    BY <1>1, <1>2, <2>1 DEF Moved, Merges
  <2>2. CASE i \in DOMAIN a.pool
    <3>1. a.pool[i].first \in 1 .. now /\ Moved(old, a.pool, plan, now, i) /\ b.pool[i] = a.pool[i]
      BY <1>1, <2>2 DEF Merges
    <3>2. \A j \in Alive(old, plan) : j \in DOMAIN a.pool /\ b.pool[j] = a.pool[j]
      BY <1>1 DEF Alive, Merges
    <3> QED BY <3>1, <3>2 DEF Moved
  <2> QED BY <1>1, <2>1, <2>2
<1>6. /\ \A i \in DOMAIN old :
          b.pool[i].plan = old[i].plan /\ (b.pool[i].live => old[i].live)
      /\ \A i \in DOMAIN b.pool \ DOMAIN old : b.pool[i].plan = plan
  BY <1>1, <1>2 DEF Merges
<1> QED BY <1>4, <1>5, <1>6 DEF Merges, AccOK

LEMMA UpdatingMerges ==
  ASSUME NEW old, PoolOK(old), NEW plan, NEW now \in Nat, NEW a, AccOK(a, plan),
         Merges(old, a.pool, plan, now), NEW item, ItemOK(a, item), NEW b, AccOK(b, plan),
         NEW row \in DOMAIN a.pool, Updated(a, item, plan, now, row, b)
  PROVE  Merges(old, b.pool, plan, now)
<1> DEFINE losers == Twins(a, item) \ {row}
           firsts == {a.pool[l].first : l \in losers \cup {row}}
           w == b.pool[row]
<1>1. /\ row \in Members(a.pool, plan) /\ losers \subseteq Members(a.pool, plan)
      /\ Len(b.pool) = Len(a.pool) /\ DOMAIN b.pool = DOMAIN a.pool
      /\ \A i \in DOMAIN a.pool \ (losers \cup {row}) : b.pool[i] = a.pool[i]
      /\ w.plan = a.pool[row].plan /\ w.live = a.pool[row].live
      /\ w.first = Least(firsts)
  BY DEF Updated, Absorbed
<1>2. \A l \in losers : l \in DOMAIN a.pool /\ a.pool[l].live /\ a.pool[l].plan = plan
  BY <1>1, TwinsAre DEF Members
<1>3. \A l \in losers : /\ ~b.pool[l].live /\ b.pool[l].plan = a.pool[l].plan
                        /\ b.pool[l].first = a.pool[l].first
  <2> SUFFICES ASSUME NEW l \in losers
               PROVE  /\ ~b.pool[l].live /\ b.pool[l].plan = a.pool[l].plan
                      /\ b.pool[l].first = a.pool[l].first
    OBVIOUS
  <2>1. CandidateOK(a.pool[l])
    BY <1>2 DEF AccOK, PoolOK
  <2>2. b.pool[l] = [a.pool[l] EXCEPT !.live = FALSE, !.version = @ + 1]
    BY DEF Updated
  <2> QED BY <2>1, <2>2 DEF CandidateOK, Fields
<1>4. Least(firsts) \in firsts /\ \A n \in firsts : Least(firsts) <= n
  <2>1. firsts \in SUBSET Nat /\ firsts # {}
    BY <1>2 DEF AccOK, PoolOK, CandidateOK
  <2> HIDE DEF firsts
  <2> QED BY <2>1, LeastIs
<1>5. a.pool[row].first \in firsts
  OBVIOUS
<1>6. PICK l \in losers \cup {row} : w.first = a.pool[l].first
  BY <1>1, <1>4
<1>7. w.first <= a.pool[row].first
  BY <1>1, <1>4, <1>5
<1> HIDE DEF losers, firsts, w
<1>8. \A i \in DOMAIN a.pool : /\ b.pool[i].plan = a.pool[i].plan
                               /\ b.pool[i].live => a.pool[i].live
                               /\ i # row => b.pool[i].first = a.pool[i].first
  BY <1>1, <1>3 DEF w
<1>9. \A i \in DOMAIN a.pool : a.pool[i].first \in 1 .. now
  BY DEF Merges
<1>10. \A j \in DOMAIN a.pool : ~a.pool[j].live => ~b.pool[j].live
  BY <1>8
<1>11. \A j \in Alive(old, plan) : j \in DOMAIN a.pool
  BY DEF Alive, Merges
<1>12. ASSUME NEW i \in DOMAIN a.pool, Moved(old, a.pool, plan, now, i),
              b.pool[i].first = a.pool[i].first
       PROVE  Moved(old, b.pool, plan, now, i)
  BY <1>8, <1>10, <1>11, <1>12 DEF Moved
<1>13. w.first \in 1 .. now /\ Moved(old, b.pool, plan, now, row)
  <2>0. w.first \in 1 .. now /\ l \in DOMAIN a.pool
    BY <1>2, <1>6, <1>9
  <2>1. CASE w.first = a.pool[row].first
    BY <2>0, <2>1, <1>12 DEF Merges, w
  <2>2. CASE w.first # a.pool[row].first
    <3>1. l \in losers
      BY <1>6, <2>2
    <3>2. /\ a.pool[l].first \in 1 .. now /\ Moved(old, a.pool, plan, now, l)
          /\ a.pool[l].plan = plan /\ ~b.pool[l].live
      BY <1>2, <1>3, <3>1 DEF Merges
    <3>3. b.pool[row].plan = plan
      BY <1>1 DEF Members, w
    <3>4. CASE \E j \in Alive(old, plan) : ~a.pool[j].live /\ a.pool[l].first = old[j].first
      BY <2>0, <3>3, <3>4, <1>6, <1>10, <1>11 DEF Moved, w
    <3>5. CASE l \in DOMAIN old /\ a.pool[l].first = old[l].first
      <4>1. l \in Alive(old, plan)
        BY <1>2, <3>1, <3>5 DEF Alive, Merges
      <4> QED BY <2>0, <3>2, <3>3, <3>5, <4>1, <1>6 DEF Moved, w
    <3>6. CASE l \notin DOMAIN old /\ a.pool[l].first = now
      <4>1. a.pool[row].first \in 1 .. now /\ w.first = now
        BY <1>6, <1>9, <3>6
      <4> QED BY <1>7, <2>2, <4>1
    <3> QED BY <3>2, <3>4, <3>5, <3>6 DEF Moved
  <2> QED BY <2>1, <2>2
<1>14. \A i \in DOMAIN b.pool : b.pool[i].first \in 1 .. now /\ Moved(old, b.pool, plan, now, i)
  BY <1>1, <1>8, <1>12, <1>13 DEF Merges, w
<1> QED BY <1>1, <1>8, <1>14 DEF Merges, AccOK

LEMMA UploadMerges ==
  ASSUME NEW seen, DOMAIN seen = TableNames, PoolOK(seen.pool), NEW plan,
         NEW items \in Payloads, NEW now \in Nat, 1 <= now,
         \A i \in DOMAIN seen.pool : seen.pool[i].first \in 1 .. now
  PROVE  /\ Merges(seen.pool, Upload(seen, plan, items, now).pool, plan, now)
         /\ Upload(seen, plan, items, now).plans = seen.plans
<1> DEFINE todo == Collapsed(items)
           N == Len(todo)
           old == seen.pool
<1>1. PICK f : Uploaded(f, seen, plan, items, now)
  BY UploadIs
<1>2. N \in Nat /\ DOMAIN todo = 1 .. N
  BY CollapsedIs DEF CollapsedOK
<1>3. /\ PurgedOK(old, plan, f[0].pool) /\ AccOK(f[N], plan)
      /\ \A n \in DOMAIN todo : /\ ItemOK(f[n - 1], todo[n]) /\ AccOK(f[n - 1], plan)
                                /\ Ingested(f[n - 1], todo[n], plan, now, f[n])
      /\ Upload(seen, plan, items, now) = [seen EXCEPT !.pool = f[N].pool, !.scens = f[N].scens]
  BY <1>1 DEF Uploaded, MappedOK
<1> HIDE DEF todo, N, old
<1> DEFINE T == {n \in Nat : n <= N => Merges(old, f[n].pool, plan, now)}
<1>4. 0 \in T
  BY <1>3, PurgeMerges DEF old
<1>5. ASSUME NEW n \in Nat, n \in T PROVE n + 1 \in T
  <2> SUFFICES ASSUME n + 1 <= N PROVE Merges(old, f[n + 1].pool, plan, now)
    OBVIOUS
  <2>1. n + 1 \in DOMAIN todo /\ n + 1 - 1 = n /\ n <= N
    BY <1>2
  <2> DEFINE a == f[n]
             b == f[n + 1]
             item == todo[n + 1]
  <2>2. /\ ItemOK(a, item) /\ AccOK(a, plan) /\ Ingested(a, item, plan, now, b)
    BY <1>3, <2>1
  <2>3. Merges(old, a.pool, plan, now)
    BY <1>5, <2>1
  <2> HIDE DEF a, b, item
  <2>4. AccOK(b, plan)
    BY <2>2 DEF Ingested
  <2>5. CASE Created(a, item, plan, now, b)
    BY <2>2, <2>3, <2>4, <2>5, CreatingMerges DEF old, b
  <2>6. CASE \E row \in DOMAIN a.pool : Updated(a, item, plan, now, row, b)
    <3>1. PICK row \in DOMAIN a.pool : Updated(a, item, plan, now, row, b)
      BY <2>6
    <3> QED BY <2>2, <2>3, <2>4, <3>1, UpdatingMerges DEF old, b
  <2>7. Merges(old, b.pool, plan, now)
    BY <2>2, <2>5, <2>6 DEF Ingested, b
  <2> QED BY <2>7 DEF b
<1> HIDE DEF T
<1>6. Nat \subseteq T
  BY <1>4, <1>5, SetInduction
<1>7. Merges(old, f[N].pool, plan, now)
  BY <1>2, <1>6 DEF T
<1>8. /\ Upload(seen, plan, items, now).pool = f[N].pool
      /\ Upload(seen, plan, items, now).plans = seen.plans
  BY <1>3 DEF TableNames
<1> QED BY <1>7, <1>8 DEF old

\* The plans after a request: an acknowledgement moves the cursor of its plan,
\* and nothing else moves one.
Steers(old, new, r) ==
    /\ PlansOK(new) /\ Len(old) <= Len(new) /\ DOMAIN old \subseteq DOMAIN new
    /\ \A p \in DOMAIN new :
          \/ new[p].ack = IF p \in DOMAIN old THEN old[p].ack ELSE 0
          \/ r.kind = "ack" /\ p = r.plan /\ new[p].ack = r.through

LEMMA SameSteers ==
  ASSUME NEW old, PlansOK(old), NEW r
  PROVE  Steers(old, old, r)
<1>1. Len(old) \in Nat
  BY TableIs DEF PlansOK
<1> QED BY <1>1 DEF Steers

LEMMA CreateSteers ==
  ASSUME NEW seen, DOMAIN seen = TableNames, PlansOK(seen.plans), NEW label,
         NEW starts \in Nat, NEW r
  PROVE  /\ CreatePlan(seen, label, starts).pool = seen.pool
         /\ Steers(seen.plans, CreatePlan(seen, label, starts).plans, r)
<1> DEFINE old == seen.plans
           R(p) == IF p.active THEN [p EXCEPT !.active = FALSE, !.version = @ + 1] ELSE p
           retired == [p \in DOMAIN old |-> R(old[p])]
           new == Append(retired, Plan(label, starts))
<1>1. CreatePlan(seen, label, starts) = [seen EXCEPT !.plans = new]
  BY DEF CreatePlan
<1>2. Len(old) \in Nat /\ DOMAIN old = 1 .. Len(old)
  BY TableIs DEF PlansOK
<1>3. ASSUME NEW p \in DOMAIN old
      PROVE  /\ DOMAIN R(old[p]) = PlanFields
             /\ R(old[p]).ack = old[p].ack /\ R(old[p]).starts = old[p].starts
  BY DEF PlansOK, PlanFields
<1> HIDE DEF R
<1>4. \A p \in DOMAIN old : retired[p] = R(old[p])
  OBVIOUS
<1>5. Table(retired) /\ Len(retired) = Len(old) /\ DOMAIN retired = DOMAIN old
  <2>1. retired = [p \in 1 .. Len(old) |-> retired[p]]
    BY <1>2
  <2> HIDE DEF retired
  <2> QED BY <1>2, <2>1, MapIsTable
<1>6. /\ DOMAIN Plan(label, starts) = PlanFields
      /\ Plan(label, starts).ack = 0 /\ Plan(label, starts).starts = starts
  BY DEF Plan, PlanFields
<1> DEFINE fresh == Plan(label, starts)
<1> HIDE DEF fresh, retired
<1>7. new = Append(retired, fresh)
  BY DEF fresh
<1> HIDE DEF new
<1>8. /\ Table(new) /\ Len(new) = Len(old) + 1
      /\ DOMAIN new = DOMAIN old \cup {Len(old) + 1} /\ Len(old) + 1 \notin DOMAIN old
      /\ \A p \in DOMAIN old : new[p] = retired[p]
      /\ new[Len(old) + 1] = fresh
  BY <1>5, <1>7, AppendJoins
<1>9. DOMAIN fresh = PlanFields /\ fresh.ack = 0 /\ fresh.starts = starts
  BY <1>6 DEF fresh
<1>10. PlansOK(new)
  BY <1>3, <1>4, <1>8, <1>9 DEF PlansOK
<1>11. Steers(old, new, r)
  BY <1>2, <1>3, <1>4, <1>8, <1>9, <1>10 DEF Steers
<1> QED BY <1>1, <1>11 DEF TableNames

LEMMA AckSteers ==
  ASSUME NEW seen, DOMAIN seen = TableNames, PlansOK(seen.plans),
         NEW r, r.kind = "ack", r.plan \in DOMAIN seen.plans, r.through \in Nat
  PROVE  /\ Ack(seen, r.plan, r.through).pool = seen.pool
         /\ Steers(seen.plans, Ack(seen, r.plan, r.through).plans, r)
<1> DEFINE old == seen.plans
           row == old[r.plan]
           new == [old EXCEPT ![r.plan] = [row EXCEPT !.ack = r.through, !.version = @ + 1]]
<1>1. CASE Ack(seen, r.plan, r.through) = seen
  BY <1>1, SameSteers
<1>2. CASE Ack(seen, r.plan, r.through) # seen
  <2>1. Ack(seen, r.plan, r.through) = [seen EXCEPT !.plans = new]
    BY <1>2 DEF Ack, TableNames, PlansOK
  <2>2. Len(old) \in Nat /\ DOMAIN old = 1 .. Len(old)
    BY TableIs DEF PlansOK
  <2>3. \A p \in DOMAIN old :
           new[p] = IF p = r.plan THEN [row EXCEPT !.ack = r.through, !.version = @ + 1] ELSE old[p]
    OBVIOUS
  <2>4. Table(new) /\ Len(new) = Len(old) /\ DOMAIN new = 1 .. Len(old)
    <3>1. new = [p \in 1 .. Len(old) |-> new[p]]
      BY <2>2
    <3> HIDE DEF new
    <3> QED BY <2>2, <3>1, MapIsTable
  <2> HIDE DEF new
  <2>5. \A p \in DOMAIN old : /\ DOMAIN new[p] = PlanFields /\ new[p].starts \in Nat
                              /\ new[p].ack = IF p = r.plan THEN r.through ELSE old[p].ack
    <3> SUFFICES ASSUME NEW p \in DOMAIN old
                 PROVE  /\ DOMAIN new[p] = PlanFields /\ new[p].starts \in Nat
                        /\ new[p].ack = IF p = r.plan THEN r.through ELSE old[p].ack
      OBVIOUS
    <3>1. DOMAIN old[p] = PlanFields /\ old[p].starts \in Nat
      BY DEF PlansOK
    <3>2. CASE p = r.plan
      BY <2>3, <3>1, <3>2 DEF PlanFields
    <3>3. CASE p # r.plan
      BY <2>3, <3>1, <3>3
    <3> QED BY <3>2, <3>3
  <2>6. PlansOK(new)
    BY <2>2, <2>4, <2>5 DEF PlansOK
  <2>7. Steers(old, new, r)
    BY <2>2, <2>4, <2>5, <2>6 DEF Steers
  <2> QED BY <2>1, <2>7 DEF TableNames
<1> QED BY <1>1, <1>2

\* The request, given what it has read.
RequestOK(r, seen) ==
    /\ r.kind \in Kinds
    /\ r.kind = "upload" => r.items \in Payloads /\ r.plan \in DOMAIN seen.plans
    /\ r.kind = "patch" => r.row \in DOMAIN seen.pool /\ r.change \in Changes
    /\ r.kind = "delete" => r.row \in DOMAIN seen.pool
    /\ r.kind = "create" => r.starts \in Nat
    /\ r.kind = "list" => r.plan \in DOMAIN seen.plans /\ r.since \in Nat
    /\ r.kind = "ack" => r.plan \in DOMAIN seen.plans /\ r.through \in Nat

SeenOK(seen) ==
    DOMAIN seen = TableNames /\ PoolOK(seen.pool) /\ PlansOK(seen.plans)

EffectOK(t, e) ==
    /\ Steers(t.seen.plans, e.plans, t.req)
    /\ IF t.req.kind = "upload"
       THEN Merges(t.seen.pool, e.pool, t.req.plan, t.now)
       ELSE Decides(t.seen.pool, e.pool)

LEMMA SameDecides ==
  ASSUME NEW old, PoolOK(old)
  PROVE  Decides(old, old)
BY DEF Decides

LEMMA EffectIs ==
  ASSUME NEW t, SeenOK(t.seen), RequestOK(t.req, t.seen), t.now \in Nat, 1 <= t.now,
         t.req.kind = "upload" =>
            \A i \in DOMAIN t.seen.pool : t.seen.pool[i].first \in 1 .. t.now
  PROVE  EffectOK(t, Effect(t))
<1> DEFINE r == t.req
           seen == t.seen
<1>1. /\ DOMAIN seen = TableNames /\ PoolOK(seen.pool) /\ PlansOK(seen.plans)
      /\ Steers(seen.plans, seen.plans, r) /\ Decides(seen.pool, seen.pool)
  BY SameSteers, SameDecides DEF SeenOK
<1>2. CASE r.kind = "create"
  <2>1. Effect(t) = CreatePlan(seen, r.label, r.starts)
    BY <1>2 DEF Effect
  <2>2. /\ CreatePlan(seen, r.label, r.starts).pool = seen.pool
        /\ Steers(seen.plans, CreatePlan(seen, r.label, r.starts).plans, r)
    BY <1>1, <1>2, CreateSteers DEF RequestOK
  <2> QED BY <1>1, <1>2, <2>1, <2>2 DEF EffectOK
<1>3. CASE r.kind = "upload"
  <2>1. Effect(t) = Upload(seen, r.plan, r.items, t.now)
    BY <1>3 DEF Effect
  <2>2. r.items \in Payloads
    BY <1>3 DEF RequestOK
  <2>3. /\ Merges(seen.pool, Upload(seen, r.plan, r.items, t.now).pool, r.plan, t.now)
        /\ Upload(seen, r.plan, r.items, t.now).plans = seen.plans
    BY <1>1, <1>3, <2>2, UploadMerges
  <2> QED BY <1>1, <1>3, <2>1, <2>3 DEF EffectOK
<1>4. CASE r.kind = "scenarios"
  <2>1. Effect(t) = PutScenarios(seen, r.plan, r.wanted, r.replace)
    BY <1>4 DEF Effect
  <2>2. \E s : PutScenarios(seen, r.plan, r.wanted, r.replace) = [seen EXCEPT !.scens = s]
    BY DEF PutScenarios
  <2>3. Effect(t).pool = seen.pool /\ Effect(t).plans = seen.plans
    BY <1>1, <2>1, <2>2 DEF TableNames
  <2> QED BY <1>1, <1>4, <2>3 DEF EffectOK
<1>5. CASE r.kind = "patch"
  <2>1. Effect(t) = Patch(seen, r.row, r.change)
    BY <1>5 DEF Effect
  <2>2. r.row \in DOMAIN seen.pool /\ r.change \in Changes
    BY <1>5 DEF RequestOK
  <2>3. /\ Decides(seen.pool, Patch(seen, r.row, r.change).pool)
        /\ Patch(seen, r.row, r.change).plans = seen.plans
    BY <1>1, <2>2, PatchDecides
  <2> QED BY <1>1, <1>5, <2>1, <2>3 DEF EffectOK
<1>6. CASE r.kind = "delete"
  <2>1. Effect(t) = Delete(seen, r.row)
    BY <1>6 DEF Effect
  <2>2. r.row \in DOMAIN seen.pool
    BY <1>6 DEF RequestOK
  <2>3. /\ Decides(seen.pool, Delete(seen, r.row).pool)
        /\ Delete(seen, r.row).plans = seen.plans
    BY <1>1, <2>2, DeleteDecides
  <2> QED BY <1>1, <1>6, <2>1, <2>3 DEF EffectOK
<1>7. CASE r.kind = "apply"
  <2>1. Effect(t) = Apply(seen, r.scen, r.replace, t.now)
    BY <1>7 DEF Effect
  <2>2. /\ Decides(seen.pool, Apply(seen, r.scen, r.replace, t.now).pool)
        /\ Apply(seen, r.scen, r.replace, t.now).plans = seen.plans
    BY <1>1, ApplyDecides
  <2> QED BY <1>1, <1>7, <2>1, <2>2 DEF EffectOK
<1>8. CASE r.kind = "ack"
  <2>1. Effect(t) = Ack(seen, r.plan, r.through)
    BY <1>8 DEF Effect
  <2>2. r.plan \in DOMAIN seen.plans /\ r.through \in Nat
    BY <1>8 DEF RequestOK
  <2>3. /\ Ack(seen, r.plan, r.through).pool = seen.pool
        /\ Steers(seen.plans, Ack(seen, r.plan, r.through).plans, r)
    BY <1>1, <1>8, <2>2, AckSteers
  <2> QED BY <1>1, <1>8, <2>1, <2>3 DEF EffectOK
<1>9. CASE r.kind \in {"link", "unlink"}
  <2>1. \E l : Effect(t) = [seen EXCEPT !.links = l]
    <3>1. CASE r.kind = "link"
      <4>1. Effect(t) = PutLink(seen, r.piece, r.found, r.row)
        BY <3>1 DEF Effect
      <4>2. \E l : PutLink(seen, r.piece, r.found, r.row) = [seen EXCEPT !.links = l]
        <5> DEFINE l == [seen.links EXCEPT ![r.piece] =
                            PutLink(seen, r.piece, r.found, r.row).links[r.piece]]
        <5>1. PutLink(seen, r.piece, r.found, r.row) = [seen EXCEPT !.links = [seen.links EXCEPT ![r.piece] =
                IF seen.links[r.piece] = NoLink THEN [row |-> r.row, link |-> r.found]
                ELSE [row |-> seen.links[r.piece].row, link |-> [s \in Services |->
                      IF r.found[s] = Null THEN seen.links[r.piece].link[s] ELSE r.found[s]]]]]
          BY <1>1 DEF PutLink, TableNames
        <5> QED BY <5>1
      <4> QED BY <4>1, <4>2
    <3>2. CASE r.kind = "unlink"
      <4>1. Effect(t) = Unlink(seen, r.piece)
        BY <3>2 DEF Effect
      <4>2. Unlink(seen, r.piece) =
              [seen EXCEPT !.links = [seen.links EXCEPT ![r.piece] = NoLink]]
        BY <1>1 DEF Unlink, TableNames
      <4> QED BY <4>1, <4>2
    <3> QED BY <1>9, <3>1, <3>2
  <2>2. Effect(t).pool = seen.pool /\ Effect(t).plans = seen.plans
    BY <1>1, <2>1 DEF TableNames
  <2> QED BY <1>1, <1>9, <2>2 DEF EffectOK
<1>10. CASE r.kind = "list"
  <2>1. Effect(t) = seen
    BY <1>10 DEF Effect
  <2> QED BY <1>1, <1>10, <2>1 DEF EffectOK
<1>11. r.kind \in Kinds
  BY DEF RequestOK
<1> QED BY <1>2, <1>3, <1>4, <1>5, <1>6, <1>7, <1>8, <1>9, <1>10, <1>11 DEF Kinds

-----------------------------------------------------------------------------
(* The invariant: what is stored, and what the requests in flight have read *)

SnapshotOK(t) ==
    /\ SeenOK(t.seen) /\ Len(t.seen.pool) <= Len(pool) /\ Len(t.seen.plans) <= Len(plans)
    /\ \A i \in DOMAIN t.seen.pool :
          /\ t.seen.pool[i].plan = pool[i].plan
          /\ pool[i].live => t.seen.pool[i].live
          /\ t.req.kind = "upload" => t.seen.pool[i].first \in 1 .. t.now

TxOK(t) ==
    /\ DOMAIN t = {"stage", "req", "seen", "now", "quiet"} /\ t.stage \in {"read", "ready"}
    /\ t.now \in 1 .. clock
    /\ SnapshotOK(t) /\ RequestOK(t.req, t.seen)
    /\ t.quiet => t.seen = Tables

TablesOK ==
    /\ PoolOK(pool) /\ PlansOK(plans) /\ clock \in Nat \ {0} /\ agenda.days \subseteq Nat
    /\ \A i \in DOMAIN pool : pool[i].first \in 1 .. clock /\ pool[i].plan \in DOMAIN plans
    /\ \A l \in listings : l.plan \in DOMAIN plans /\ l.through \in 1 .. clock

SeasonTyped ==
    /\ TablesOK
    /\ tx = [c \in Clients |-> tx[c]]
    /\ \A c \in Clients : tx[c] = NoTx \/ TxOK(tx[c])

LEMMA RequestsAre ==
  ASSUME TablesOK, NEW r \in Requests
  PROVE  RequestOK(r, Tables)
<1> DEFINE Live(p) == Alive(pool, p)
           L == UNION {Live(p) : p \in DOMAIN plans}
           W == UNION {[kind : {"scenarios"}, plan : {p}, replace : BOOLEAN,
                        wanted : UNION {[N -> SUBSET {pool[i].key : i \in Live(p)}] :
                                    N \in SUBSET Names}] : p \in DOMAIN plans}
           A == UNION {Alive(scens, p) : p \in DOMAIN plans}
           F == {[s \in Services |-> IF s = service THEN "found" ELSE Null] :
                      service \in Services}
           U == {p \in Pieces : links[p] # NoLink}
           H == Moments \cup {l.through : l \in listings}
<1>0. H \subseteq Nat /\ {0} \cup Moments \subseteq Nat
  <2>1. Moments \subseteq Nat /\ 0 \in Nat
    BY SeasonAssumption
  <2>2. \A l \in listings : l.through \in Nat
    BY DEF TablesOK
  <2> QED BY <2>1, <2>2
<1>1. \A i \in L : i \in DOMAIN pool
  BY DEF Alive
<1>2. \A q \in W : q.kind = "scenarios"
  OBVIOUS
<1>3. Requests =
        [kind : {"create"}, label : Names, starts : agenda.days]
        \cup [kind : {"upload"}, plan : DOMAIN plans, items : Payloads]
        \cup W
        \cup [kind : {"patch"}, row : L, change : Changes]
        \cup [kind : {"delete"}, row : L]
        \cup [kind : {"apply"}, replace : BOOLEAN, scen : A]
        \cup [kind : {"list"}, plan : DOMAIN plans, since : {0} \cup Moments]
        \cup [kind : {"ack"}, plan : DOMAIN plans, through : H]
        \cup [kind : {"link"}, piece : Pieces, row : {requests + 1}, found : F]
        \cup [kind : {"unlink"}, piece : U]
  BY DEF Requests
<1>4. Tables.pool = pool /\ Tables.plans = plans
  BY DEF Tables
<1> HIDE DEF L, W, A, F, U, H
<1>5. \/ r \in [kind : {"create"}, label : Names, starts : agenda.days] \/ r \in W
      \/ r \in [kind : {"apply"}, replace : BOOLEAN, scen : A]
      \/ r \in [kind : {"link"}, piece : Pieces, row : {requests + 1}, found : F]
      \/ r \in [kind : {"unlink"}, piece : U]
      \/ r \in [kind : {"upload"}, plan : DOMAIN plans, items : Payloads]
      \/ r \in [kind : {"patch"}, row : L, change : Changes]
      \/ r \in [kind : {"delete"}, row : L]
      \/ r \in [kind : {"list"}, plan : DOMAIN plans, since : {0} \cup Moments]
      \/ r \in [kind : {"ack"}, plan : DOMAIN plans, through : H]
  BY <1>3
<1>6. CASE r \in W
           \/ r \in [kind : {"apply"}, replace : BOOLEAN, scen : A]
           \/ r \in [kind : {"link"}, piece : Pieces, row : {requests + 1}, found : F]
           \/ r \in [kind : {"unlink"}, piece : U]
  <2>1. r.kind \in {"scenarios", "apply", "link", "unlink"}
    BY <1>2, <1>6
  <2> QED BY <2>1 DEF RequestOK, Kinds
<1>12. CASE r \in [kind : {"create"}, label : Names, starts : agenda.days]
  BY <1>12 DEF RequestOK, Kinds, TablesOK
<1>7. CASE r \in [kind : {"upload"}, plan : DOMAIN plans, items : Payloads]
  BY <1>4, <1>7 DEF RequestOK, Kinds
<1>8. CASE r \in [kind : {"patch"}, row : L, change : Changes]
  BY <1>1, <1>4, <1>8 DEF RequestOK, Kinds
<1>9. CASE r \in [kind : {"delete"}, row : L]
  BY <1>1, <1>4, <1>9 DEF RequestOK, Kinds
<1>10. CASE r \in [kind : {"list"}, plan : DOMAIN plans, since : {0} \cup Moments]
  BY <1>0, <1>4, <1>10 DEF RequestOK, Kinds
<1>11. CASE r \in [kind : {"ack"}, plan : DOMAIN plans, through : H]
  BY <1>0, <1>4, <1>11 DEF RequestOK, Kinds
<1> QED BY <1>5, <1>6, <1>7, <1>8, <1>9, <1>10, <1>11, <1>12

\* A row after a write.
LEMMA ColumnsAre ==
  ASSUME NEW row, CandidateOK(row), NEW old, CandidateOK(old), NEW new, CandidateOK(new)
  PROVE  /\ CandidateOK(Columns(row, old, new))
         /\ \A c \in Fields : Columns(row, old, new)[c] =
                                IF new[c] = old[c] THEN row[c] ELSE new[c]
<1> DEFINE r == Columns(row, old, new)
<1>1. r = [c \in Fields |-> IF new[c] = old[c] THEN row[c] ELSE new[c]]
  BY DEF Columns, CandidateOK
<1> HIDE DEF r
<1>2. DOMAIN r = Fields /\ \A c \in Fields : r[c] = IF new[c] = old[c] THEN row[c] ELSE new[c]
  BY <1>1
<1>3. {"first", "last", "version", "live"} \subseteq Fields
  BY DEF Fields
<1>4. r.first \in Nat /\ r.last \in Nat /\ r.version \in Nat /\ r.live \in BOOLEAN
  BY <1>2, <1>3 DEF CandidateOK
<1>5. IsRow(r)
  <2>1. \E v : r = [f \in Fields |-> v[f]]
    BY <1>1
  <2> QED BY <2>1, MapIsRow
<1> QED BY <1>2, <1>4, <1>5 DEF CandidateOK, r

\* The candidates after a commit.
WrittenPool(t, p) ==
    /\ PoolOK(p) /\ Len(pool) <= Len(p) /\ DOMAIN pool \subseteq DOMAIN p
    /\ \A i \in DOMAIN p : p[i].first \in 1 .. clock
    /\ \A i \in DOMAIN pool : p[i].plan = pool[i].plan /\ (p[i].live => pool[i].live)
    /\ \A i \in DOMAIN p \ DOMAIN pool : t.req.kind = "upload" /\ p[i].plan = t.req.plan
    /\ \A i \in DOMAIN pool : p[i].first # pool[i].first =>
          /\ t.req.kind = "upload" /\ i \in DOMAIN t.seen.pool
          /\ pool[i].plan = t.req.plan
          /\ \E j \in Alive(t.seen.pool, t.req.plan) :
                ~p[j].live /\ p[i].first = t.seen.pool[j].first

LEMMA PoolWritten ==
  ASSUME TablesOK, NEW t, SnapshotOK(t), t.now \in 1 .. clock, NEW e, EffectOK(t, e),
         NEW p, p = Rows(pool, t.seen.pool, e.pool)
  PROVE  WrittenPool(t, p)
<1> DEFINE old == t.seen.pool
           new == e.pool
<1>1. /\ PoolOK(old) /\ PoolOK(new) /\ Len(old) <= Len(new) /\ DOMAIN old \subseteq DOMAIN new
      /\ Len(old) <= Len(pool)
      /\ \A i \in DOMAIN old : /\ new[i].plan = old[i].plan /\ (new[i].live => old[i].live)
                               /\ old[i].plan = pool[i].plan
  <2>1. PoolOK(old) /\ Len(old) <= Len(pool) /\ Len(old) \in Nat
    BY TableIs DEF SnapshotOK, SeenOK, PoolOK
  <2>2. \A i \in DOMAIN old : old[i].plan = pool[i].plan
    BY DEF SnapshotOK
  <2>3. CASE t.req.kind = "upload"
    BY <2>1, <2>2, <2>3 DEF EffectOK, Merges
  <2>4. CASE t.req.kind # "upload"
    BY <2>1, <2>2, <2>4 DEF EffectOK, Decides
  <2> QED BY <2>3, <2>4
<1>2. Overlaid(p, pool, old, new)
  BY <1>1, RowsAre DEF TablesOK, PoolOK
<1>3. /\ Len(pool) \in Nat /\ Len(old) \in Nat /\ Len(new) \in Nat /\ Len(p) \in Nat
      /\ DOMAIN pool = 1 .. Len(pool) /\ DOMAIN p = 1 .. Len(p) /\ DOMAIN old = 1 .. Len(old)
      /\ DOMAIN new = 1 .. Len(new)
      /\ Table(p) /\ Len(p) = Len(pool) + (Len(new) - Len(old))
  BY <1>1, <1>2, TableIs DEF Overlaid, PoolOK, TablesOK
<1>4. Len(pool) <= Len(p) /\ DOMAIN pool \subseteq DOMAIN p /\ DOMAIN old \subseteq DOMAIN pool
  <2>1. Len(old) <= Len(new) /\ Len(old) <= Len(pool)
    BY <1>1
  <2>2. Len(pool) <= Len(p)
    BY <1>3, <2>1
  <2>3. DOMAIN pool \subseteq DOMAIN p
    BY <1>3, <2>2, IntervalIn
  <2>4. DOMAIN old \subseteq DOMAIN pool
    BY <1>3, <2>1, IntervalIn
  <2> QED BY <2>2, <2>3, <2>4
<1> HIDE DEF old, new
<1>5. ASSUME NEW i \in DOMAIN old
      PROVE  /\ CandidateOK(p[i])
             /\ \A c \in Fields : p[i][c] = IF new[i][c] = old[i][c] THEN pool[i][c] ELSE new[i][c]
  <2>1. p[i] = Columns(pool[i], old[i], new[i])
    BY <1>2, <1>4 DEF Overlaid
  <2>2. CandidateOK(pool[i]) /\ CandidateOK(old[i]) /\ CandidateOK(new[i])
    BY <1>1, <1>4 DEF PoolOK, TablesOK
  <2> QED BY <2>1, <2>2, ColumnsAre
<1>6. {"plan", "first", "live"} \subseteq Fields
  BY DEF Fields
<1>7. \A i \in DOMAIN old :
        /\ p[i].plan = IF new[i].plan = old[i].plan THEN pool[i].plan ELSE new[i].plan
        /\ p[i].first = IF new[i].first = old[i].first THEN pool[i].first ELSE new[i].first
        /\ p[i].live = IF new[i].live = old[i].live THEN pool[i].live ELSE new[i].live
  BY <1>5, <1>6
<1>8. \A i \in DOMAIN pool \ DOMAIN old : p[i] = pool[i]
  BY <1>2, <1>4 DEF Overlaid
<1>9. \A i \in DOMAIN p \ DOMAIN pool :
        \E j \in DOMAIN new \ DOMAIN old : p[i] = new[j]
  BY <1>2 DEF Overlaid
<1>10. PoolOK(p)
  <2> SUFFICES ASSUME NEW i \in DOMAIN p PROVE CandidateOK(p[i])
    BY <1>3 DEF PoolOK
  <2> QED BY <1>1, <1>5, <1>8, <1>9 DEF PoolOK, TablesOK
<1>11. \A i \in DOMAIN pool : p[i].plan = pool[i].plan /\ (p[i].live => pool[i].live)
  <2> SUFFICES ASSUME NEW i \in DOMAIN pool
               PROVE  p[i].plan = pool[i].plan /\ (p[i].live => pool[i].live)
    OBVIOUS
  <2>1. CASE i \in DOMAIN old
    <3>1. new[i].live \in BOOLEAN /\ old[i].live \in BOOLEAN /\ pool[i].live \in BOOLEAN
      BY <1>1, <1>4, <2>1 DEF PoolOK, CandidateOK, TablesOK
    <3>2. new[i].live => old[i].live
      BY <1>1, <2>1
    <3>3. new[i].live # old[i].live => ~new[i].live
      BY <3>1, <3>2
    <3>4. p[i].live => pool[i].live
      BY <1>7, <2>1, <3>3
    <3> QED BY <1>1, <1>7, <2>1, <3>4
  <2>2. CASE i \notin DOMAIN old
    BY <1>8, <2>2
  <2> QED BY <2>1, <2>2
<1>12. \A i \in DOMAIN p \ DOMAIN pool : t.req.kind = "upload" /\ p[i].plan = t.req.plan
  <2> SUFFICES ASSUME NEW i \in DOMAIN p \ DOMAIN pool
               PROVE  t.req.kind = "upload" /\ p[i].plan = t.req.plan
    OBVIOUS
  <2>1. PICK j \in DOMAIN new \ DOMAIN old : p[i] = new[j]
    BY <1>9
  <2>2. t.req.kind = "upload"
    BY <2>1 DEF EffectOK, Decides, old, new
  <2> QED BY <2>1, <2>2 DEF EffectOK, Merges, old, new
<1>13. ASSUME NEW i \in DOMAIN pool, p[i].first # pool[i].first
       PROVE  /\ t.req.kind = "upload" /\ i \in DOMAIN old /\ pool[i].plan = t.req.plan
              /\ p[i].first = new[i].first
              /\ \E j \in Alive(old, t.req.plan) : ~p[j].live /\ p[i].first = old[j].first
  <2>1. i \in DOMAIN old /\ new[i].first # old[i].first /\ p[i].first = new[i].first
    BY <1>7, <1>8, <1>13
  <2>2. t.req.kind = "upload"
    BY <2>1 DEF EffectOK, Decides, old, new
  <2>3. Moved(old, new, t.req.plan, t.now, i)
    BY <1>1, <2>1, <2>2 DEF EffectOK, Merges, old, new
  <2>4. new[i].plan = t.req.plan
    BY <2>1, <2>3 DEF Moved
  <2>5. PICK j \in Alive(old, t.req.plan) : ~new[j].live /\ new[i].first = old[j].first
    BY <2>1, <2>3 DEF Moved
  <2>6. ~p[j].live
    <3>1. j \in DOMAIN old /\ old[j].live
      BY DEF Alive
    <3> QED BY <1>7, <2>5, <3>1
  <2> QED BY <1>1, <2>1, <2>2, <2>4, <2>5, <2>6
<1>14. \A i \in DOMAIN p : p[i].first \in 1 .. clock
  <2> SUFFICES ASSUME NEW i \in DOMAIN p PROVE p[i].first \in 1 .. clock
    OBVIOUS
  <2>0. clock \in Nat /\ t.now \in 1 .. clock
    BY DEF TablesOK
  <2>1. CASE i \in DOMAIN pool /\ p[i].first = pool[i].first
    BY <2>1 DEF TablesOK
  <2>2. CASE i \in DOMAIN pool /\ p[i].first # pool[i].first
    <3>1. p[i].first = new[i].first /\ t.req.kind = "upload" /\ i \in DOMAIN new
      BY <1>1, <1>13, <2>2
    <3>2. new[i].first \in 1 .. t.now
      BY <3>1 DEF EffectOK, Merges, new
    <3> QED BY <2>0, <3>1, <3>2
  <2>3. CASE i \notin DOMAIN pool
    <3>1. PICK j \in DOMAIN new \ DOMAIN old : p[i] = new[j]
      BY <1>9, <2>3
    <3>2. t.req.kind = "upload"
      BY <1>12, <2>3
    <3>3. new[j].first \in 1 .. t.now
      BY <3>1, <3>2 DEF EffectOK, Merges, new
    <3> QED BY <2>0, <3>1, <3>3
  <2> QED BY <2>1, <2>2, <2>3
<1> QED BY <1>4, <1>10, <1>11, <1>12, <1>13, <1>14 DEF WrittenPool, old

LEMMA InitTyped ==
  ASSUME Init
  PROVE  SeasonTyped
<1>0. agenda.days \subseteq Nat
  BY SeasonAssumption DEF Init
<1>1. PICK s \in Starts : pool = s.pool
  BY DEF Init
<1>2. PoolOK(pool) /\ \A i \in DOMAIN pool : pool[i].first \in 1 .. 3 /\ pool[i].plan = 1
  <2>1. Table(pool)
    <3>1. pool \in Seq(Range(pool))
      BY <1>1, StartsAssumption
    <3> QED BY <3>1, SeqIsTable
  <2>2. \A i \in DOMAIN pool : CandidateOK(pool[i]) /\ pool[i].first \in 1 .. 3 /\ pool[i].plan = 1
    <3> SUFFICES ASSUME NEW i \in DOMAIN pool
                 PROVE  CandidateOK(pool[i]) /\ pool[i].first \in 1 .. 3 /\ pool[i].plan = 1
      OBVIOUS
    <3> DEFINE row == pool[i]
    <3>0. /\ i \in DOMAIN s.pool /\ row = s.pool[i]
          /\ s.pool[i] = [f \in Fields |-> s.pool[i][f]]
          /\ s.pool[i].plan = 1 /\ s.pool[i].live = TRUE
          /\ s.pool[i].first \in 1 .. Opening /\ s.pool[i].last \in Nat
          /\ s.pool[i].version \in Nat
      <4>1. i \in DOMAIN s.pool
        BY <1>1
      <4>2. \A m \in DOMAIN s.pool :
              /\ s.pool[m] = [f \in Fields |-> s.pool[m][f]]
              /\ s.pool[m].plan = 1 /\ s.pool[m].live = TRUE
              /\ s.pool[m].first \in 1 .. Opening /\ s.pool[m].last \in Nat
              /\ s.pool[m].version \in Nat
        BY Zenon, StartsAssumption
      <4>3. row = s.pool[i]
        BY <1>1
      <4> HIDE DEF row
      <4> QED BY Zenon, <4>1, <4>2, <4>3
    <3> HIDE DEF row
    <3>1. /\ row = [f \in Fields |-> row[f]] /\ row.plan = 1 /\ row.live = TRUE
          /\ row.first \in 1 .. Opening /\ row.last \in Nat /\ row.version \in Nat
      BY Zenon, <3>0
    <3>2. row.first \in 1 .. 3
      BY <3>1 DEF Opening
    <3>3. CandidateOK(row)
      <4>1. row.first \in Nat
        BY <3>2
      <4>2. row.live \in BOOLEAN
        BY <3>1, Zenon
      <4>3. IsRow(row) /\ DOMAIN row = Fields
        BY <3>1, MapIsRow
      <4> QED BY <3>1, <4>1, <4>2, <4>3 DEF CandidateOK
    <3> QED BY <3>1, <3>2, <3>3 DEF row
  <2> QED BY <2>1, <2>2 DEF PoolOK
<1>3. PlansOK(plans) /\ DOMAIN plans = {1}
  <2>1. PICK day \in agenda.days : plans = <<Plan("first", day)>>
    BY DEF Init
  <2>2. /\ Plan("first", day).ack = 0 /\ Plan("first", day).starts = day
        /\ DOMAIN Plan("first", day) = PlanFields /\ day \in Nat
    BY <1>0 DEF Plan, PlanFields
  <2> DEFINE q == Plan("first", day)
  <2> HIDE DEF q
  <2>3. plans = <<q>>
    BY <2>1 DEF q
  <2>4. plans \in Seq({q}) /\ DOMAIN plans = {1} /\ plans[1] = q
    BY <2>3
  <2>5. Table(plans)
    BY <2>4, SeqIsTable
  <2> QED BY <2>2, <2>4, <2>5 DEF PlansOK, q
<1>4. clock = 3 /\ listings = {} /\ tx = [c \in Clients |-> NoTx]
  BY DEF Init, Opening
<1> QED BY <1>0, <1>2, <1>3, <1>4 DEF SeasonTyped, TablesOK

\* A request that another has overtaken.
LEMMA TxStays ==
  ASSUME NEW t, TxOK(t), TablesOK,
         PoolOK(pool'), PlansOK(plans'), Len(pool) <= Len(pool'), Len(plans) <= Len(plans'),
         \A i \in DOMAIN pool : /\ pool'[i].plan = pool[i].plan
                                /\ pool'[i].live => pool[i].live,
         clock' \in Nat, clock <= clock', ~t.quiet \/ Tables' = Tables
  PROVE  TxOK(t)'
<1>1. /\ Len(t.seen.pool) \in Nat /\ Len(pool) \in Nat /\ Len(pool') \in Nat
      /\ Len(t.seen.plans) \in Nat /\ Len(plans) \in Nat /\ Len(plans') \in Nat
      /\ DOMAIN pool = 1 .. Len(pool) /\ DOMAIN t.seen.pool = 1 .. Len(t.seen.pool)
  BY TableIs DEF TxOK, SnapshotOK, SeenOK, TablesOK, PoolOK, PlansOK
<1>2. Len(t.seen.pool) <= Len(pool) /\ Len(t.seen.plans) <= Len(plans)
  BY DEF TxOK, SnapshotOK
<1>3. Len(t.seen.pool) <= Len(pool') /\ Len(t.seen.plans) <= Len(plans')
  BY <1>1, <1>2
<1>4. \A i \in DOMAIN t.seen.pool : i \in DOMAIN pool
  BY <1>1, <1>2
<1>5. SnapshotOK(t)'
  BY <1>3, <1>4 DEF TxOK, SnapshotOK, SeenOK, PoolOK, PlansOK
<1>6. t.now \in 1 .. clock'
  BY DEF TxOK, TablesOK
<1>7. RequestOK(t.req, t.seen)'
  BY DEF TxOK, RequestOK
<1>8. t.quiet => (t.seen = Tables)'
  BY DEF TxOK
<1> QED BY <1>5, <1>6, <1>7, <1>8 DEF TxOK

LEMMA BeginTyped ==
  ASSUME SeasonTyped, NEW c \in Clients, Begin(c)
  PROVE  SeasonTyped'
<1>1. PICK r \in Requests :
        tx' = [tx EXCEPT ![c] = [stage |-> IF r.kind \in TwoReads THEN "read" ELSE "ready",
                                 req |-> r, seen |-> Tables, now |-> clock, quiet |-> TRUE]]
  BY DEF Begin
<1>2. UNCHANGED <<plans, pool, scens, links, clock, agenda, listings>> /\ TablesOK
  BY DEF Begin, db, history, SeasonTyped
<1>3. TablesOK' /\ Tables' = Tables /\ UNCHANGED <<plans, pool, clock>>
  BY <1>2 DEF TablesOK, Tables, PoolOK, PlansOK
<1>4. RequestOK(r, Tables)
  BY <1>2, RequestsAre
<1>5. PICK t : t = [stage |-> IF r.kind \in TwoReads THEN "read" ELSE "ready",
                    req |-> r, seen |-> Tables, now |-> clock, quiet |-> TRUE]
  OBVIOUS
<1>6. TxOK(t)
  <2>1. t.seen = Tables /\ t.req = r /\ t.now = clock
    BY <1>5
  <2>2. /\ DOMAIN Tables = TableNames /\ Tables.pool = pool /\ Tables.plans = plans
    BY DEF Tables, TableNames
  <2>3. Len(pool) \in Nat /\ Len(plans) \in Nat
    BY <1>2, TableIs DEF TablesOK, PoolOK, PlansOK
  <2>4. SnapshotOK(t)
    BY <1>2, <2>1, <2>2, <2>3 DEF SnapshotOK, SeenOK, TablesOK
  <2>5. DOMAIN t = {"stage", "req", "seen", "now", "quiet"} /\ t.stage \in {"read", "ready"}
    BY <1>5
  <2>6. clock \in 1 .. clock
    BY <1>2 DEF TablesOK
  <2> QED BY <1>4, <2>1, <2>4, <2>5, <2>6 DEF TxOK
<1>7. TxOK(t)'
  BY <1>2, <1>3, <1>6 DEF TxOK, SnapshotOK, SeenOK, RequestOK, PoolOK, PlansOK
<1>8. ASSUME NEW d \in Clients PROVE tx'[d] = NoTx \/ TxOK(tx'[d])
  <2>1. CASE d = c
    <3>1. tx'[d] = t
      BY <1>1, <1>5, <2>1 DEF SeasonTyped
    <3> QED BY <1>6, <3>1
  <2>2. CASE d # c
    <3>1. tx'[d] = tx[d]
      BY <1>1, <2>2 DEF SeasonTyped
    <3> QED BY <3>1 DEF SeasonTyped
  <2> QED BY <2>1, <2>2
<1>9. \A d \in Clients : (tx[d] = NoTx \/ TxOK(tx[d]))'
  BY <1>3, <1>8 DEF TxOK, SnapshotOK, SeenOK, RequestOK, PoolOK, PlansOK
<1>10. tx' = [d \in Clients |-> tx'[d]]
  BY <1>1 DEF SeasonTyped
<1> QED BY <1>3, <1>9, <1>10 DEF SeasonTyped

LEMMA ReadAgainTyped ==
  ASSUME SeasonTyped, NEW c \in Clients, ReadAgain(c)
  PROVE  SeasonTyped'
<1>1. UNCHANGED <<plans, pool, scens, links, clock, agenda, listings>> /\ TablesOK
  BY DEF ReadAgain, db, bounds, history, SeasonTyped
<1>2. TablesOK' /\ Tables' = Tables
  BY <1>1 DEF TablesOK, Tables, PoolOK, PlansOK
<1>3. tx[c].stage = "read" /\ TxOK(tx[c])
  BY DEF ReadAgain, SeasonTyped, NoTx
<1>4. PICK t : t = tx[c]
  OBVIOUS
<1>5. PICK u : u = [t EXCEPT !.stage = "ready",
                             !.seen = IF t.req.kind = "apply"
                                      THEN [t.seen EXCEPT !.pool = pool]
                                      ELSE [t.seen EXCEPT !.scens = scens]]
  OBVIOUS
<1>6. tx' = [tx EXCEPT ![c] = u]
  BY <1>4, <1>5 DEF ReadAgain, SeasonTyped
<1>7. TxOK(t)
  BY <1>3, <1>4
<1>8. TxOK(u)
  <2>1. /\ DOMAIN u = DOMAIN t /\ u.stage = "ready" /\ u.req = t.req /\ u.now = t.now
        /\ u.quiet = t.quiet
        /\ u.seen = IF t.req.kind = "apply" THEN [t.seen EXCEPT !.pool = pool]
                    ELSE [t.seen EXCEPT !.scens = scens]
    BY <1>5, <1>7 DEF TxOK
  <2>2. DOMAIN t.seen = TableNames
    BY <1>7 DEF TxOK, SnapshotOK, SeenOK
  <2>3. t.quiet => u.seen = Tables
    <3>1. [Tables EXCEPT !.pool = pool] = Tables /\ [Tables EXCEPT !.scens = scens] = Tables
      BY DEF Tables
    <3> QED BY <1>7, <2>1, <3>1 DEF TxOK
  <2>4. /\ DOMAIN u.seen = TableNames /\ u.seen.plans = t.seen.plans
        /\ u.seen.pool = IF t.req.kind = "apply" THEN pool ELSE t.seen.pool
    BY <2>1, <2>2 DEF TableNames
  <2>5. Len(pool) \in Nat
    BY <1>1, TableIs DEF TablesOK, PoolOK
  <2>6. SnapshotOK(u)
    BY <1>1, <1>7, <2>1, <2>4, <2>5 DEF TxOK, SnapshotOK, SeenOK, TablesOK
  <2>7. RequestOK(u.req, u.seen)
    BY <1>7, <2>1, <2>4 DEF TxOK, RequestOK
  <2> QED BY <1>7, <2>1, <2>3, <2>6, <2>7 DEF TxOK
<1>9. ASSUME NEW d \in Clients PROVE tx'[d] = NoTx \/ TxOK(tx'[d])
  <2>1. CASE d = c
    <3>1. tx'[d] = u
      BY <1>6, <2>1 DEF SeasonTyped
    <3> QED BY <1>8, <3>1
  <2>2. CASE d # c
    <3>1. tx'[d] = tx[d]
      BY <1>6, <2>2 DEF SeasonTyped
    <3> QED BY <3>1 DEF SeasonTyped
  <2> QED BY <2>1, <2>2
<1>10. \A d \in Clients : (tx[d] = NoTx \/ TxOK(tx[d]))'
  BY <1>1, <1>2, <1>9 DEF TxOK, SnapshotOK, SeenOK, RequestOK, PoolOK, PlansOK
<1>11. tx' = [d \in Clients |-> tx'[d]]
  BY <1>6 DEF SeasonTyped
<1> QED BY <1>2, <1>10, <1>11 DEF SeasonTyped

\* The plans after a commit.
WrittenPlans(t, q) ==
    /\ PlansOK(q) /\ Len(plans) <= Len(q) /\ DOMAIN plans \subseteq DOMAIN q
    /\ \A p \in DOMAIN q :
          \/ q[p].ack = IF p \in DOMAIN plans THEN plans[p].ack ELSE 0
          \/ t.req.kind = "ack" /\ p = t.req.plan /\ q[p].ack = t.req.through

LEMMA PlansWritten ==
  ASSUME TablesOK, NEW t, SnapshotOK(t), RequestOK(t.req, t.seen), NEW e, EffectOK(t, e),
         NEW q, q = Rows(plans, t.seen.plans, e.plans)
  PROVE  WrittenPlans(t, q)
<1> DEFINE old == t.seen.plans
           new == e.plans
<1>1. /\ PlansOK(old) /\ PlansOK(new) /\ Len(old) <= Len(new) /\ DOMAIN old \subseteq DOMAIN new
      /\ Len(old) <= Len(plans) /\ PlansOK(plans)
  BY DEF SnapshotOK, SeenOK, EffectOK, Steers, TablesOK
<1>2. Overlaid(q, plans, old, new)
  BY <1>1, RowsAre DEF PlansOK
<1>3. /\ Len(plans) \in Nat /\ Len(old) \in Nat /\ Len(new) \in Nat /\ Len(q) \in Nat
      /\ DOMAIN plans = 1 .. Len(plans) /\ DOMAIN q = 1 .. Len(q) /\ DOMAIN old = 1 .. Len(old)
      /\ Table(q) /\ Len(q) = Len(plans) + (Len(new) - Len(old))
  BY <1>1, <1>2, TableIs DEF Overlaid, PlansOK
<1>4. Len(plans) <= Len(q) /\ DOMAIN plans \subseteq DOMAIN q /\ DOMAIN old \subseteq DOMAIN plans
  <2>1. Len(old) <= Len(new) /\ Len(old) <= Len(plans)
    BY <1>1
  <2>2. Len(plans) <= Len(q)
    BY <1>3, <2>1
  <2> QED BY <1>3, <2>1, <2>2, IntervalIn
<1>5. \A p \in DOMAIN new :
          \/ new[p].ack = IF p \in DOMAIN old THEN old[p].ack ELSE 0
          \/ t.req.kind = "ack" /\ p = t.req.plan /\ new[p].ack = t.req.through
  BY DEF EffectOK, Steers
<1>6. t.req.kind = "ack" => t.req.plan \in DOMAIN old
  BY DEF RequestOK
<1> HIDE DEF old, new
<1> DEFINE F == PlanFields
<1>7. ASSUME NEW p \in DOMAIN old
      PROVE  /\ DOMAIN q[p] = F
             /\ q[p].ack = IF new[p].ack = old[p].ack THEN plans[p].ack ELSE new[p].ack
             /\ q[p].ack \in Nat /\ q[p].starts \in Nat
  <2>1. q[p] = Columns(plans[p], old[p], new[p])
    BY <1>2, <1>4 DEF Overlaid
  <2>2. /\ DOMAIN plans[p] = F /\ plans[p].ack \in Nat /\ plans[p].starts \in Nat
        /\ new[p].ack \in Nat /\ new[p].starts \in Nat
    BY <1>1, <1>4 DEF PlansOK
  <2>3. q[p] = [f \in F |-> IF new[p][f] = old[p][f] THEN plans[p][f] ELSE new[p][f]]
    BY <2>1, <2>2 DEF Columns
  <2> QED BY <2>2, <2>3 DEF PlanFields
<1>8. \A p \in DOMAIN plans \ DOMAIN old : q[p] = plans[p]
  BY <1>2, <1>4 DEF Overlaid
<1>9. \A p \in DOMAIN q \ DOMAIN plans : \E k \in DOMAIN new \ DOMAIN old : q[p] = new[k]
  BY <1>2 DEF Overlaid
<1>10. PlansOK(q)
  BY <1>1, <1>3, <1>7, <1>8, <1>9 DEF PlansOK
<1>11. ASSUME NEW p \in DOMAIN q
       PROVE  \/ q[p].ack = IF p \in DOMAIN plans THEN plans[p].ack ELSE 0
              \/ t.req.kind = "ack" /\ p = t.req.plan /\ q[p].ack = t.req.through
  <2>1. CASE p \in DOMAIN old
    <3>1. p \in DOMAIN plans /\ p \in DOMAIN new
      BY <1>1, <1>4, <2>1
    <3> QED BY <1>5, <1>7, <2>1, <3>1
  <2>2. CASE p \in DOMAIN plans \ DOMAIN old
    BY <1>8, <2>2
  <2>3. CASE p \notin DOMAIN plans
    <3>1. PICK k \in DOMAIN new \ DOMAIN old : q[p] = new[k]
      BY <1>9, <2>3
    <3>2. new[k].ack = 0
      BY <1>5, <1>6, <3>1
    <3> QED BY <2>3, <3>1, <3>2
  <2> QED BY <1>4, <2>1, <2>2, <2>3
<1> QED BY <1>4, <1>10, <1>11 DEF WrittenPlans

\* What a commit does.
Committed(t) ==
    /\ WrittenPool(t, pool') /\ WrittenPlans(t, plans')
    /\ pool' = Rows(pool, t.seen.pool, Effect(t).pool)
    /\ UNCHANGED <<veto, clock, agenda, listings>>

LEMMA CommitIs ==
  ASSUME SeasonTyped, NEW c \in Clients, Commit(c)
  PROVE  TxOK(tx[c]) /\ Committed(tx[c]) /\ EffectOK(tx[c], Effect(tx[c]))
<1>1. TxOK(tx[c]) /\ TablesOK
  BY DEF Commit, SeasonTyped, NoTx
<1>2. PICK t : t = tx[c]
  OBVIOUS
<1>3. PICK e : e = Effect(t)
  OBVIOUS
<1>4. /\ TxOK(t) /\ SnapshotOK(t) /\ RequestOK(t.req, t.seen) /\ SeenOK(t.seen)
      /\ t.now \in 1 .. clock /\ clock \in Nat
  BY <1>1, <1>2 DEF TxOK, SnapshotOK, TablesOK
<1>5. EffectOK(t, e)
  <2>1. t.now \in Nat /\ 1 <= t.now
    BY <1>4
  <2>2. t.req.kind = "upload" => \A i \in DOMAIN t.seen.pool : t.seen.pool[i].first \in 1 .. t.now
    BY <1>4 DEF SnapshotOK
  <2> QED BY <1>3, <1>4, <2>1, <2>2, EffectIs
<1>6. /\ plans' = Rows(plans, t.seen.plans, e.plans)
      /\ pool' = Rows(pool, t.seen.pool, e.pool)
      /\ UNCHANGED <<veto, clock, agenda, listings>>
  BY <1>2, <1>3 DEF Commit, Written, bounds
<1>7. PICK p : p = Rows(pool, t.seen.pool, e.pool)
  OBVIOUS
<1>8. PICK q : q = Rows(plans, t.seen.plans, e.plans)
  OBVIOUS
<1>9. WrittenPool(t, p) /\ WrittenPlans(t, q)
  BY <1>1, <1>4, <1>5, <1>7, <1>8, PoolWritten, PlansWritten
<1> QED BY <1>2, <1>3, <1>4, <1>5, <1>6, <1>7, <1>8, <1>9 DEF Committed

LEMMA CommitTyped ==
  ASSUME SeasonTyped, NEW c \in Clients, Commit(c)
  PROVE  SeasonTyped'
<1>1. PICK t : t = tx[c]
  OBVIOUS
<1>2. TxOK(t) /\ Committed(t) /\ TablesOK
  BY <1>1, CommitIs DEF SeasonTyped
<1>3. WrittenPool(t, pool') /\ WrittenPlans(t, plans') /\ UNCHANGED <<clock, agenda, listings>>
  BY <1>2 DEF Committed
<1>4. DOMAIN plans \subseteq DOMAIN plans'
  BY <1>3 DEF WrittenPlans
<1>5. TablesOK'
  <2>1. \A i \in DOMAIN pool' : pool'[i].plan \in DOMAIN plans'
    <3> SUFFICES ASSUME NEW i \in DOMAIN pool' PROVE pool'[i].plan \in DOMAIN plans'
      OBVIOUS
    <3>1. CASE i \in DOMAIN pool
      BY <1>2, <1>3, <1>4, <3>1 DEF WrittenPool, TablesOK
    <3>2. CASE i \notin DOMAIN pool
      <4>1. t.req.kind = "upload" /\ pool'[i].plan = t.req.plan
        BY <1>3, <3>2 DEF WrittenPool
      <4>2. t.req.plan \in DOMAIN t.seen.plans
        BY <1>2, <4>1 DEF TxOK, RequestOK
      <4>3. DOMAIN t.seen.plans \subseteq DOMAIN plans
        <5>1. /\ Len(t.seen.plans) <= Len(plans)
              /\ Len(t.seen.plans) \in Nat /\ DOMAIN t.seen.plans = 1 .. Len(t.seen.plans)
              /\ Len(plans) \in Nat /\ DOMAIN plans = 1 .. Len(plans)
          BY <1>2, TableIs DEF TxOK, SnapshotOK, SeenOK, PlansOK, TablesOK
        <5> QED BY <5>1, IntervalIn
      <4> QED BY <1>4, <4>1, <4>2, <4>3
    <3> QED BY <3>1, <3>2
  <2>2. (PoolOK(pool) /\ PlansOK(plans))'
    BY <1>3 DEF WrittenPool, WrittenPlans, PoolOK, PlansOK
  <2> QED BY <1>2, <1>3, <1>4, <2>1, <2>2 DEF TablesOK, WrittenPool
<1>6. ASSUME NEW d \in Clients, tx'[d] # NoTx
      PROVE  \E u : tx'[d] = u /\ TxOK(u)'
  <2>1. d # c /\ tx[d] # NoTx /\ TxOK(tx[d])
        /\ tx'[d] = IF Tables' # Tables THEN [tx[d] EXCEPT !.quiet = FALSE] ELSE tx[d]
    BY <1>6 DEF Commit, Finished, SeasonTyped
  <2>2. PICK v : v = tx[d]
    OBVIOUS
  <2>3. PICK u : u = IF Tables' # Tables THEN [v EXCEPT !.quiet = FALSE] ELSE v
    OBVIOUS
  <2>4. TxOK(v)
    BY <2>1, <2>2
  <2>5. TxOK(u) /\ (~u.quiet \/ Tables' = Tables)
    <3>1. CASE Tables' = Tables
      BY <2>3, <2>4, <3>1
    <3>2. CASE Tables' # Tables
      <4>1. u = [v EXCEPT !.quiet = FALSE]
        BY <2>3, <3>2
      <4>2. /\ DOMAIN u = DOMAIN v /\ u.stage = v.stage /\ u.req = v.req /\ u.seen = v.seen
            /\ u.now = v.now /\ u.quiet = FALSE
        BY <2>4, <4>1 DEF TxOK
      <4> QED BY <2>4, <4>2 DEF TxOK, SnapshotOK
    <3> QED BY <3>1, <3>2
  <2>6. TxOK(u)'
    <3>1. /\ PoolOK(pool') /\ PlansOK(plans') /\ Len(pool) <= Len(pool') /\ Len(plans) <= Len(plans')
          /\ \A i \in DOMAIN pool : /\ pool'[i].plan = pool[i].plan
                                    /\ pool'[i].live => pool[i].live
      BY <1>3 DEF WrittenPool, WrittenPlans
    <3>2. clock' \in Nat /\ clock <= clock'
      BY <1>2, <1>3 DEF TablesOK
    <3> QED BY <1>2, <2>5, <3>1, <3>2, TxStays
  <2> QED BY <2>1, <2>2, <2>3, <2>6
<1>7. \A d \in Clients : (tx[d] = NoTx \/ TxOK(tx[d]))'
  BY <1>6
<1>8. tx' = [d \in Clients |-> tx'[d]]
  BY DEF Commit, Finished
<1> QED BY <1>5, <1>7, <1>8 DEF SeasonTyped

LEMMA OtherTyped ==
  ASSUME SeasonTyped,
         \/ \E c \in Clients : Fail(c) \/ Listed(c)
         \/ TurnVeto \/ Tick \/ UNCHANGED vars
  PROVE  SeasonTyped'
<1>1. TablesOK /\ UNCHANGED <<plans, pool, scens, links, agenda>>
  BY DEF SeasonTyped, Fail, Listed, TurnVeto, Tick, vars, db, bounds, history
<1>2. clock' \in Nat /\ clock <= clock'
  BY <1>1 DEF TablesOK, Fail, Listed, TurnVeto, Tick, vars, db, bounds, history
<1>3. TablesOK'
  <2>1. \A l \in listings' : l.plan \in DOMAIN plans /\ l.through \in 1 .. clock'
    <3>1. CASE UNCHANGED listings
      BY <1>1, <1>2, <3>1 DEF TablesOK
    <3>2. CASE \E c \in Clients : Listed(c)
      <4>1. PICK c \in Clients : Listed(c)
        BY <3>2
      <4>2. /\ listings' \subseteq listings \cup {[plan |-> tx[c].req.plan, through |-> clock]}
            /\ clock' = clock /\ tx[c].req.kind = "list" /\ TxOK(tx[c])
        <5>1. /\ tx[c].req.kind = "list" /\ clock' = clock
              /\ listings' = listings \cup
                    {l \in {[plan |-> tx[c].req.plan, through |-> clock]} :
                        Since(tx[c]) <= Cursor(tx[c].seen.plans[tx[c].req.plan])}
          BY <4>1 DEF Listed, bounds
        <5>2. TxOK(tx[c])
          BY <4>1 DEF Listed, SeasonTyped, NoTx
        <5> QED BY <5>1, <5>2
      <4>3. DOMAIN tx[c].seen.plans \subseteq DOMAIN plans
        <5>1. /\ Len(tx[c].seen.plans) <= Len(plans)
              /\ Len(tx[c].seen.plans) \in Nat /\ DOMAIN tx[c].seen.plans = 1 .. Len(tx[c].seen.plans)
              /\ Len(plans) \in Nat /\ DOMAIN plans = 1 .. Len(plans)
          BY <1>1, <4>2, TableIs DEF TxOK, SnapshotOK, SeenOK, PlansOK, TablesOK
        <5> QED BY <5>1, IntervalIn
      <4>4. tx[c].req.plan \in DOMAIN plans
        BY <4>2, <4>3 DEF TxOK, RequestOK
      <4> QED BY <1>1, <4>2, <4>4 DEF TablesOK
    <3> QED BY <3>1, <3>2 DEF Fail, TurnVeto, Tick, vars, history
  <2>2. clock' \in Nat \ {0} /\ \A i \in DOMAIN pool : pool[i].first \in 1 .. clock'
    BY <1>1, <1>2 DEF TablesOK
  <2> QED BY <1>1, <2>1, <2>2 DEF TablesOK, PoolOK, PlansOK
<1>4. Tables' = Tables
  BY <1>1 DEF Tables
<1>5. ASSUME NEW d \in Clients, tx'[d] # NoTx
      PROVE  \E u : tx'[d] = u /\ TxOK(u)'
  <2>1. tx'[d] = tx[d]
    BY <1>5 DEF Fail, Listed, TurnVeto, Tick, vars, SeasonTyped
  <2>2. PICK u : u = tx[d]
    OBVIOUS
  <2>3. TxOK(u)
    BY <1>5, <2>1, <2>2 DEF SeasonTyped
  <2>4. Len(pool) \in Nat /\ Len(plans) \in Nat
    BY <1>1, TableIs DEF TablesOK, PoolOK, PlansOK
  <2>5. /\ PoolOK(pool') /\ PlansOK(plans') /\ Len(pool) <= Len(pool') /\ Len(plans) <= Len(plans')
    BY <1>1, <2>4 DEF TablesOK
  <2>6. TxOK(u)'
    BY <1>1, <1>2, <1>4, <2>3, <2>5, TxStays
  <2> QED BY <2>1, <2>2, <2>6
<1>6. \A d \in Clients : (tx[d] = NoTx \/ TxOK(tx[d]))'
  BY <1>5
<1>7. tx' = [d \in Clients |-> tx'[d]]
  BY DEF Fail, Listed, TurnVeto, Tick, vars, SeasonTyped
<1> QED BY <1>3, <1>6, <1>7 DEF SeasonTyped

LEMMA StepTyped ==
  ASSUME SeasonTyped, [Next]_vars
  PROVE  SeasonTyped'
BY BeginTyped, ReadAgainTyped, CommitTyped, OtherTyped DEF Next

-----------------------------------------------------------------------------
(* The cursor of the novelties *)

\* What is not later than a time is known.
Covered(plan, time) == \A i \in Alive(pool, plan) : pool[i].first <= time => i \in Known

\* A listing in flight: what is behind the cursor it has read is known, and so
\* is what has been stored since.
TxAcked(t) ==
    t.req.kind = "list" =>
        /\ \A i \in Alive(t.seen.pool, t.req.plan) :
              t.seen.pool[i].first <= t.seen.plans[t.req.plan].ack => i \in Known
        /\ \A i \in DOMAIN pool \ DOMAIN t.seen.pool :
              pool[i].plan = t.req.plan => i \in Known

AckInv ==
    /\ \A l \in listings : Covered(l.plan, l.through)
    /\ \A p \in DOMAIN plans : Covered(p, plans[p].ack)
    /\ \A c \in Clients : tx[c] = NoTx \/ TxAcked(tx[c])

LEMMA AckInvSuffices ==
  ASSUME SeasonTyped, AckInv
  PROVE  AckedWasSeen
<1> SUFFICES ASSUME NEW i \in DOMAIN pool, pool[i].live,
                    pool[i].first <= plans[pool[i].plan].ack
             PROVE  i \in Known
  BY DEF AckedWasSeen
<1>1. pool[i].plan \in DOMAIN plans
  BY DEF SeasonTyped, TablesOK
<1>2. i \in Alive(pool, pool[i].plan)
  BY DEF Alive
<1> QED BY <1>1, <1>2 DEF AckInv, Covered

LEMMA SnapshotIn ==
  ASSUME TablesOK, NEW t, SnapshotOK(t)
  PROVE  /\ DOMAIN t.seen.pool \subseteq DOMAIN pool
         /\ DOMAIN t.seen.plans \subseteq DOMAIN plans
<1>1. /\ Len(t.seen.pool) <= Len(pool)
      /\ Len(t.seen.pool) \in Nat /\ DOMAIN t.seen.pool = 1 .. Len(t.seen.pool)
      /\ Len(pool) \in Nat /\ DOMAIN pool = 1 .. Len(pool)
  BY TableIs DEF SnapshotOK, SeenOK, PoolOK, TablesOK
<1>2. /\ Len(t.seen.plans) <= Len(plans)
      /\ Len(t.seen.plans) \in Nat /\ DOMAIN t.seen.plans = 1 .. Len(t.seen.plans)
      /\ Len(plans) \in Nat /\ DOMAIN plans = 1 .. Len(plans)
  BY TableIs DEF SnapshotOK, SeenOK, PlansOK, TablesOK
<1> QED BY <1>1, <1>2, IntervalIn

LEMMA InitAck ==
  ASSUME Init
  PROVE  AckInv
<1>1. PICK day \in agenda.days : plans = <<Plan("first", day)>>
  BY DEF Init
<1>2. listings = {} /\ tx = [c \in Clients |-> NoTx] /\ SeasonTyped
  BY InitTyped DEF Init
<1> DEFINE q == Plan("first", day)
<1>3. q.ack = 0
  BY DEF Plan
<1> HIDE DEF q
<1>4. plans = <<q>>
  BY <1>1 DEF q
<1>5. DOMAIN plans = {1} /\ plans[1] = q
  BY <1>4
<1>6. \A i \in DOMAIN pool : pool[i].first \in 1 .. clock /\ clock \in Nat
  BY <1>2 DEF SeasonTyped, TablesOK
<1>7. Covered(1, 0)
  BY <1>6 DEF Covered, Alive
<1> QED BY <1>2, <1>3, <1>5, <1>7 DEF AckInv

\* A step that changes none of the tables, lists nothing and forgets nothing.
LEMMA StillAcked ==
  ASSUME AckInv,
         UNCHANGED <<plans, pool, listings, announced, dismissed, overlooked, heirs>>,
         \A d \in Clients : \/ tx'[d] = NoTx
                            \/ \E u : tx'[d] = u /\ TxAcked(u)
  PROVE  AckInv'
<1>1. Known' = Known
  BY DEF Known
<1>2. ASSUME NEW d \in Clients, tx'[d] # NoTx PROVE TxAcked(tx[d])'
  BY <1>1, <1>2 DEF TxAcked
<1> QED BY <1>1, <1>2 DEF AckInv, Covered

LEMMA BeginAck ==
  ASSUME SeasonTyped, AckInv, NEW c \in Clients, Begin(c)
  PROVE  AckInv'
<1>1. PICK r \in Requests :
        tx' = [tx EXCEPT ![c] = [stage |-> IF r.kind \in TwoReads THEN "read" ELSE "ready",
                                 req |-> r, seen |-> Tables, now |-> clock, quiet |-> TRUE]]
  BY DEF Begin
<1>2. UNCHANGED <<plans, pool, listings, announced, dismissed, overlooked, heirs>>
  BY DEF Begin, db, history
<1>3. PICK t : t = [stage |-> IF r.kind \in TwoReads THEN "read" ELSE "ready",
                    req |-> r, seen |-> Tables, now |-> clock, quiet |-> TRUE]
  OBVIOUS
<1>4. t.req = r /\ t.seen.pool = pool /\ t.seen.plans = plans
  BY <1>3 DEF Tables
<1>5. TxAcked(t)
  <2>1. ASSUME r.kind = "list", NEW i \in Alive(pool, r.plan), pool[i].first <= plans[r.plan].ack
        PROVE  i \in Known
    BY <2>1, AckInvSuffices DEF AckedWasSeen, Alive
  <2> QED BY <1>4, <2>1 DEF TxAcked
<1>6. ASSUME NEW d \in Clients
      PROVE  tx'[d] = NoTx \/ \E u : tx'[d] = u /\ TxAcked(u)
  <2>1. CASE d = c
    <3>1. tx'[d] = t
      BY <1>1, <1>3, <2>1 DEF SeasonTyped
    <3> QED BY <1>5, <3>1
  <2>2. CASE d # c
    <3>1. tx'[d] = tx[d]
      BY <1>1, <2>2 DEF SeasonTyped
    <3> QED BY <3>1 DEF AckInv
  <2> QED BY <2>1, <2>2
<1> QED BY <1>2, <1>6, StillAcked

LEMMA ReadAgainAck ==
  ASSUME SeasonTyped, AckInv, NEW c \in Clients, ReadAgain(c)
  PROVE  AckInv'
<1>1. UNCHANGED <<plans, pool, listings, announced, dismissed, overlooked, heirs>>
  BY DEF ReadAgain, db, history
<1>2. tx[c] # NoTx /\ TxOK(tx[c])
  BY DEF ReadAgain, SeasonTyped, NoTx
<1>3. PICK t : t = tx[c]
  OBVIOUS
<1>4. TxOK(t) /\ TxAcked(t)
  BY <1>2, <1>3 DEF AckInv
<1>5. PICK u : u = [t EXCEPT !.stage = "ready",
                             !.seen = IF t.req.kind = "apply"
                                      THEN [t.seen EXCEPT !.pool = pool]
                                      ELSE [t.seen EXCEPT !.scens = scens]]
  OBVIOUS
<1>6. tx' = [tx EXCEPT ![c] = u]
  BY <1>3, <1>5 DEF ReadAgain, SeasonTyped
<1>7. TxAcked(u)
  <2>1. /\ u.req = t.req
        /\ u.seen = IF t.req.kind = "apply" THEN [t.seen EXCEPT !.pool = pool]
                    ELSE [t.seen EXCEPT !.scens = scens]
    BY <1>4, <1>5 DEF TxOK
  <2>2. DOMAIN t.seen = TableNames
    BY <1>4 DEF TxOK, SnapshotOK, SeenOK
  <2>3. t.req.kind # "apply" => u.seen.pool = t.seen.pool /\ u.seen.plans = t.seen.plans
    BY <2>1, <2>2 DEF TableNames
  <2> QED BY <1>4, <2>1, <2>3 DEF TxAcked
<1>8. ASSUME NEW d \in Clients
      PROVE  tx'[d] = NoTx \/ \E v : tx'[d] = v /\ TxAcked(v)
  <2>1. CASE d = c
    <3>1. tx'[d] = u
      BY <1>6, <2>1 DEF SeasonTyped
    <3> QED BY <1>7, <3>1
  <2>2. CASE d # c
    <3>1. tx'[d] = tx[d]
      BY <1>6, <2>2 DEF SeasonTyped
    <3> QED BY <3>1 DEF AckInv
  <2> QED BY <2>1, <2>2
<1> QED BY <1>1, <1>8, StillAcked

\* A listing that starts at its cursor leaves nothing unknown behind.
LEMMA ListingCovers ==
  ASSUME SeasonTyped, NEW t, TxOK(t), TxAcked(t), t.req.kind = "list",
         Since(t) <= Cursor(t.seen.plans[t.req.plan]), NEW i \in Alive(pool, t.req.plan)
  PROVE  i \in Known \cup Novelties(t) \cup Elder(t)
<1> DEFINE plan == t.seen.plans[t.req.plan]
           row == t.seen.pool[i]
<1>1. CASE i \notin DOMAIN t.seen.pool
  BY <1>1 DEF TxAcked, Alive
<1>2. CASE i \in DOMAIN t.seen.pool
  <2>1. i \in Alive(t.seen.pool, t.req.plan)
    BY <1>2 DEF Alive, TxOK, SnapshotOK
  <2>2. /\ row.first \in Nat /\ plan.ack \in Nat /\ plan.starts \in Nat /\ t.req.since \in Nat
    BY <1>2 DEF TxOK, SnapshotOK, SeenOK, PoolOK, CandidateOK, PlansOK, RequestOK
  <2>3. /\ row.first > Since(t) => i \in Novelties(t)
        /\ plan.ack = 0 /\ row.first <= plan.starts => i \in Elder(t)
        /\ row.first <= plan.ack => i \in Known
    BY <2>1 DEF Novelties, Elder, TxAcked
  <2>4. /\ Since(t) = IF t.req.since = 0 THEN Cursor(plan) ELSE t.req.since
        /\ Cursor(plan) = IF plan.ack = 0 THEN plan.starts ELSE plan.ack
        /\ Since(t) <= Cursor(plan)
    BY DEF Since, Cursor
  <2> HIDE DEF plan, row
  <2>5. row.first > Since(t) \/ row.first <= Cursor(plan)
    BY <2>2, <2>4
  <2> QED BY <2>3, <2>4, <2>5
<1> QED BY <1>1, <1>2

LEMMA ListedAck ==
  ASSUME SeasonTyped, AckInv, NEW c \in Clients, Listed(c)
  PROVE  AckInv'
<1>1. PICK t : t = tx[c]
  OBVIOUS
<1>2. /\ TxOK(t) /\ TxAcked(t) /\ t.req.kind = "list"
      /\ announced' = announced \cup Novelties(t) /\ dismissed' = dismissed \cup Elder(t)
      /\ listings' = listings \cup {l \in {[plan |-> t.req.plan, through |-> clock]} :
                                       Since(t) <= Cursor(t.seen.plans[t.req.plan])}
      /\ UNCHANGED <<plans, pool, overlooked, heirs>>
  BY <1>1 DEF Listed, db, NoTx, SeasonTyped, AckInv
<1>3. Known \cup Novelties(t) \cup Elder(t) \subseteq Known'
  BY <1>2 DEF Known
<1>4. ASSUME NEW l \in listings', NEW i \in Alive(pool, l.plan), pool[i].first <= l.through
      PROVE  i \in Known'
  <2>1. CASE l \in listings
    BY <1>3, <1>4, <2>1 DEF AckInv, Covered
  <2>2. CASE l \notin listings
    <3>1. /\ l = [plan |-> t.req.plan, through |-> clock]
          /\ Since(t) <= Cursor(t.seen.plans[t.req.plan])
      BY <1>2, <2>2
    <3>2. i \in Alive(pool, t.req.plan)
      BY <3>1
    <3> QED BY <1>2, <1>3, <3>1, <3>2, ListingCovers
  <2> QED BY <2>1, <2>2
<1>5. ASSUME NEW d \in Clients, tx'[d] # NoTx
      PROVE  TxAcked(tx[d])'
  <2>1. tx'[d] = tx[d]
    BY <1>5 DEF Listed, SeasonTyped
  <2>2. PICK u : u = tx[d]
    OBVIOUS
  <2>3. TxAcked(u)
    BY <1>5, <2>1, <2>2 DEF AckInv
  <2>4. TxAcked(u)'
    BY <1>2, <1>3, <2>3 DEF TxAcked
  <2> QED BY <2>1, <2>2, <2>4 DEF TxAcked
<1>6. (\A l \in listings : Covered(l.plan, l.through))'
  BY <1>2, <1>4 DEF Covered, Alive
<1>7. (\A p \in DOMAIN plans : Covered(p, plans[p].ack))'
  BY <1>2, <1>3 DEF AckInv, Covered, Alive
<1> QED BY <1>5, <1>6, <1>7 DEF AckInv

\* A commit keeps a time covered that was: new rows that it has passed are
\* overlooked, and a row that takes an earlier first_seen_at is an heir.
LEMMA CommitCovers ==
  ASSUME SeasonTyped, AckInv, NEW t, TxOK(t), WrittenPool(t, pool'),
         overlooked' = overlooked \cup Overlooked, heirs' = heirs \cup Heirs(t),
         Known \subseteq Known',
         NEW plan, NEW time, Covered(plan, time),
         \/ \E l \in listings : l.plan = plan /\ l.through = time
         \/ plan \in DOMAIN plans /\ time = plans[plan].ack,
         NEW i \in Alive(pool', plan), pool'[i].first <= time
  PROVE  i \in Known'
<1>1. i \in DOMAIN pool' /\ pool'[i].plan = plan /\ pool'[i].live
  BY DEF Alive
<1>2. overlooked' \subseteq Known' /\ heirs' \subseteq Known'
  BY DEF Known
<1>3. /\ DOMAIN pool \subseteq DOMAIN pool'
      /\ \A k \in DOMAIN pool : pool'[k].plan = pool[k].plan /\ (pool'[k].live => pool[k].live)
  BY DEF WrittenPool
<1>4. CASE i \notin DOMAIN pool
  <2>1. i \in Overlooked
    BY <1>1, <1>4 DEF Overlooked
  <2> QED BY <1>2, <2>1
<1>5. CASE i \in DOMAIN pool /\ pool'[i].first = pool[i].first
  <2>1. i \in Alive(pool, plan)
    BY <1>1, <1>3, <1>5 DEF Alive
  <2> QED BY <1>5, <2>1 DEF Covered
<1>6. CASE i \in DOMAIN pool /\ pool'[i].first # pool[i].first
  <2>1. /\ pool[i].plan = t.req.plan
        /\ \E j \in Alive(t.seen.pool, t.req.plan) :
              ~pool'[j].live /\ pool'[i].first = t.seen.pool[j].first
    BY <1>6 DEF WrittenPool
  <2>2. PICK j \in Alive(t.seen.pool, t.req.plan) :
              ~pool'[j].live /\ pool'[i].first = t.seen.pool[j].first
    BY <2>1
  <2>3. plan = t.req.plan /\ pool[i].plan = plan
    BY <1>1, <1>3, <1>6, <2>1
  <2>4. j \in Known \/ ~pool[j].live \/ pool[j].first # t.seen.pool[j].first
    <3> SUFFICES ASSUME pool[j].live, pool[j].first = t.seen.pool[j].first
                 PROVE  j \in Known
      OBVIOUS
    <3>1. DOMAIN t.seen.pool \subseteq DOMAIN pool
      BY SnapshotIn DEF TxOK, SeasonTyped
    <3>2. j \in DOMAIN t.seen.pool /\ t.seen.pool[j].plan = t.req.plan
      BY DEF Alive
    <3>3. j \in Alive(pool, plan)
      BY <2>3, <3>1, <3>2 DEF Alive, TxOK, SnapshotOK
    <3> QED BY <2>2, <3>3 DEF Covered
  <2>5. i \in Known \/ i \in Heirs(t)
    BY <1>6, <2>2, <2>3, <2>4 DEF Heirs
  <2> QED BY <1>2, <2>5
<1> QED BY <1>4, <1>5, <1>6

LEMMA CommitAck ==
  ASSUME SeasonTyped, AckInv, NEW c \in Clients, Commit(c)
  PROVE  AckInv'
<1>1. PICK t : t = tx[c]
  OBVIOUS
<1>2. /\ TxOK(t) /\ SnapshotOK(t) /\ Committed(t) /\ EffectOK(t, Effect(t)) /\ TablesOK
  BY <1>1, CommitIs DEF SeasonTyped, TxOK
<1>3. /\ WrittenPool(t, pool') /\ WrittenPlans(t, plans') /\ listings' = listings
  BY <1>2 DEF Committed
<1>4. /\ announced' = announced /\ dismissed' = dismissed \cup Dismissed(t)
      /\ overlooked' = overlooked \cup Overlooked /\ heirs' = heirs \cup Heirs(t)
  BY <1>1 DEF Commit
<1>5. Known \subseteq Known' /\ overlooked' \subseteq Known' /\ dismissed' \subseteq Known'
  BY <1>4 DEF Known
<1>6. ASSUME NEW plan, NEW time, Covered(plan, time),
             \/ \E l \in listings : l.plan = plan /\ l.through = time
             \/ plan \in DOMAIN plans /\ time = plans[plan].ack
      PROVE  \A i \in Alive(pool', plan) : pool'[i].first <= time => i \in Known'
  BY <1>2, <1>3, <1>4, <1>5, <1>6, CommitCovers
<1>7. \A l \in listings : \A i \in Alive(pool', l.plan) : pool'[i].first <= l.through => i \in Known'
  BY <1>6 DEF AckInv
<1>8. ASSUME NEW p \in DOMAIN plans', NEW i \in Alive(pool', p), pool'[i].first <= plans'[p].ack
      PROVE  i \in Known'
  <2>1. CASE p \in DOMAIN plans /\ plans'[p].ack = plans[p].ack
    BY <1>6, <1>8, <2>1 DEF AckInv
  <2>2. CASE p \notin DOMAIN plans /\ plans'[p].ack = 0
    <3>1. pool'[i].first \in 1 .. clock
      BY <1>3 DEF WrittenPool, Alive
    <3> QED BY <1>8, <2>2, <3>1
  <2>3. CASE t.req.kind = "ack" /\ p = t.req.plan
    <3>1. i \in Alive(pool, t.req.plan) /\ pool'[i].first = pool[i].first
      BY <1>3, <1>8, <2>3 DEF WrittenPool, Alive
    <3>2. CASE \A l \in listings : l.plan = t.req.plan => pool[i].first > l.through
      <4>1. i \in Dismissed(t)
        BY <1>8, <2>3, <3>1, <3>2 DEF Dismissed
      <4> QED BY <1>4, <1>5, <4>1
    <3>3. CASE \E l \in listings : l.plan = t.req.plan /\ pool[i].first <= l.through
      BY <1>7, <1>8, <2>3, <3>1, <3>3
    <3>4. \A l \in listings : l.through \in Nat /\ pool[i].first \in Nat
      BY <1>2, <3>1 DEF TablesOK, Alive
    <3> QED BY <3>2, <3>3, <3>4
  <2> QED BY <1>3, <2>1, <2>2, <2>3 DEF WrittenPlans
<1>9. ASSUME NEW d \in Clients, tx'[d] # NoTx
      PROVE  TxAcked(tx[d])'
  <2>1. d # c /\ tx[d] # NoTx
        /\ tx'[d] = IF Tables' # Tables THEN [tx[d] EXCEPT !.quiet = FALSE] ELSE tx[d]
    BY <1>9 DEF Commit, Finished
  <2>2. PICK v : v = tx[d]
    OBVIOUS
  <2>3. PICK u : u = IF Tables' # Tables THEN [v EXCEPT !.quiet = FALSE] ELSE v
    OBVIOUS
  <2>4. TxOK(v) /\ TxAcked(v)
    BY <2>1, <2>2 DEF SeasonTyped, AckInv
  <2>5. u.req = v.req /\ u.seen = v.seen
    <3>1. CASE Tables' = Tables
      BY <2>3, <3>1
    <3>2. CASE Tables' # Tables
      BY <2>3, <2>4, <3>2 DEF TxOK
    <3> QED BY <3>1, <3>2
  <2>6. ASSUME u.req.kind = "list"
        PROVE  /\ \A i \in Alive(u.seen.pool, u.req.plan) :
                    u.seen.pool[i].first <= u.seen.plans[u.req.plan].ack => i \in Known'
               /\ \A i \in DOMAIN pool' \ DOMAIN u.seen.pool :
                    pool'[i].plan = u.req.plan => i \in Known'
    <3>1. \A i \in DOMAIN pool \ DOMAIN u.seen.pool : pool[i].plan = u.req.plan => i \in Known
      BY <2>4, <2>5, <2>6 DEF TxAcked
    <3>2. \A i \in DOMAIN pool' \ DOMAIN pool : pool'[i].plan = u.req.plan => i \in Overlooked
      BY <2>1, <2>2, <2>5, <2>6 DEF Overlooked
    <3>3. \A i \in DOMAIN pool : pool'[i].plan = pool[i].plan
      BY <1>3 DEF WrittenPool
    <3> QED BY <1>4, <1>5, <2>4, <2>5, <2>6, <3>1, <3>2, <3>3 DEF TxAcked
  <2>7. TxAcked(u)'
    BY <2>6 DEF TxAcked, Alive
  <2>8. tx'[d] = u
    BY <2>1, <2>2, <2>3
  <2> QED BY <2>7, <2>8 DEF TxAcked
<1>10. (\A l \in listings : Covered(l.plan, l.through))'
  BY <1>3, <1>7 DEF Covered
<1>11. (\A p \in DOMAIN plans : Covered(p, plans[p].ack))'
  BY <1>8 DEF Covered
<1> QED BY <1>9, <1>10, <1>11 DEF AckInv

LEMMA OtherAck ==
  ASSUME SeasonTyped, AckInv,
         \/ \E c \in Clients : Fail(c)
         \/ TurnVeto \/ Tick \/ UNCHANGED vars
  PROVE  AckInv'
<1>1. UNCHANGED <<plans, pool, listings, announced, dismissed, overlooked, heirs>>
  BY DEF Fail, TurnVeto, Tick, vars, db, history
<1>2. ASSUME NEW d \in Clients
      PROVE  tx'[d] = NoTx \/ \E u : tx'[d] = u /\ TxAcked(u)
  <2>1. tx'[d] = NoTx \/ tx'[d] = tx[d]
    BY DEF Fail, TurnVeto, Tick, vars, SeasonTyped
  <2> QED BY <2>1 DEF AckInv
<1> QED BY <1>1, <1>2, StillAcked

LEMMA StepAck ==
  ASSUME SeasonTyped, AckInv, [Next]_vars
  PROVE  AckInv'
BY BeginAck, ReadAgainAck, CommitAck, ListedAck, OtherAck DEF Next

\* A cursor hides no candidate that its reader could have had: what lies behind
\* it has been listed, or lies where the reader did not ask although it
\* acknowledged it, or is older than the season at its first listing, or came
\* too late for a listing or a cursor that bears a later time, or took its time
\* from such a one.
THEOREM TheCursorPassesNothing == Spec => []AckedWasSeen
<1>1. Init => SeasonTyped /\ AckInv
  BY InitTyped, InitAck
<1>2. SeasonTyped /\ AckInv /\ [Next]_vars => (SeasonTyped /\ AckInv)'
  BY StepTyped, StepAck
<1>3. SeasonTyped /\ AckInv => AckedWasSeen
  BY AckInvSuffices
<1> QED BY <1>1, <1>2, <1>3, PTL DEF Spec

-----------------------------------------------------------------------------
(* An upload that nothing has overtaken *)

LEMMA TablesEqual ==
  ASSUME NEW s, Table(s), NEW t, Table(t), Len(s) = Len(t), \A i \in DOMAIN s : s[i] = t[i]
  PROVE  s = t
<1>1. DOMAIN s = 1 .. Len(s) /\ s = [i \in 1 .. Len(s) |-> s[i]]
  BY TableIs
<1>2. t = [i \in 1 .. Len(s) |-> t[i]]
  BY TableIs
<1> QED BY <1>1, <1>2

\* It writes the rows as it has made them.
LEMMA WritesAll ==
  ASSUME NEW old, PoolOK(old), NEW new, PoolOK(new), Len(old) <= Len(new)
  PROVE  Rows(old, old, new) = new
<1> DEFINE p == Rows(old, old, new)
<1>1. /\ Table(old) /\ Table(new) /\ Len(old) \in Nat /\ Len(new) \in Nat
      /\ DOMAIN old = 1 .. Len(old) /\ DOMAIN new = 1 .. Len(new)
  BY TableIs DEF PoolOK
<1>2. Overlaid(p, old, old, new)
  BY <1>1, RowsAre
<1> HIDE DEF p
<1>3. Table(p) /\ Len(p) = Len(new) /\ DOMAIN p = DOMAIN new
  <2>1. Table(p) /\ Len(p) = Len(old) + (Len(new) - Len(old))
    BY <1>2 DEF Overlaid
  <2>2. Len(p) = Len(new)
    BY <1>1, <2>1
  <2> QED BY <1>1, <2>1, <2>2, TableIs
<1>4. DOMAIN old \subseteq DOMAIN new
  BY <1>1, IntervalIn
<1>5. ASSUME NEW i \in DOMAIN p PROVE p[i] = new[i]
  <2>1. CASE i \in DOMAIN old
    <3>1. p[i] = Columns(old[i], old[i], new[i])
      BY <1>2, <1>5, <2>1 DEF Overlaid
    <3>2. CandidateOK(old[i]) /\ CandidateOK(new[i])
      BY <1>4, <2>1 DEF PoolOK
    <3>3. /\ CandidateOK(p[i])
          /\ \A f \in Fields : p[i][f] = IF new[i][f] = old[i][f] THEN old[i][f] ELSE new[i][f]
      BY <3>1, <3>2, ColumnsAre
    <3>4. \A f \in Fields : p[i][f] = new[i][f]
      BY <3>3
    <3>5. p[i] = [f \in Fields |-> p[i][f]] /\ new[i] = [f \in Fields |-> new[i][f]]
      BY <3>2, <3>3 DEF CandidateOK, IsRow
    <3> QED BY <3>4, <3>5
  <2>2. CASE i \notin DOMAIN old
    <3>1. PICK j \in DOMAIN new : j = Len(old) + (i - Len(old)) /\ p[i] = new[j]
      BY <1>2, <2>2 DEF Overlaid
    <3>2. i \in 1 .. Len(new)
      BY <1>1, <1>3
    <3>3. j = i
      BY <1>1, <3>1, <3>2
    <3> QED BY <3>1, <3>3
  <2> QED BY <2>1, <2>2
<1>6. p = new
  BY <1>1, <1>3, <1>5, TablesEqual
<1> QED BY <1>6 DEF p

\* Only the commit of an upload ends one, and it leaves what the upload makes.
QuietCommit(c) ==
    /\ Commit(c) /\ TxOK(tx[c]) /\ tx[c].req.kind = "upload" /\ tx[c].seen = Tables
    /\ tx[c].req.items \in Payloads /\ tx[c].now \in 1 .. clock
    /\ pool' = Upload(Tables, tx[c].req.plan, tx[c].req.items, tx[c].now).pool
    /\ Merges(pool, pool', tx[c].req.plan, tx[c].now)

LEMMA QuietCommitIs ==
  ASSUME SeasonTyped, NEW c \in Clients, Commit(c), tx[c].req.kind = "upload", tx[c].quiet
  PROVE  QuietCommit(c)
<1>1. TablesOK
  BY DEF SeasonTyped
<1>2. PICK t : t = tx[c]
  OBVIOUS
<1>3. TxOK(t) /\ Committed(t) /\ EffectOK(t, Effect(t)) /\ t.quiet /\ t.req.kind = "upload"
  BY <1>2, CommitIs
<1>4. /\ t.seen = Tables /\ t.seen.pool = pool /\ t.now \in 1 .. clock /\ t.req.items \in Payloads
  BY <1>3 DEF TxOK, Tables, RequestOK
<1>5. Effect(t) = Upload(Tables, t.req.plan, t.req.items, t.now)
  BY <1>3, <1>4 DEF Effect
<1>6. Merges(pool, Effect(t).pool, t.req.plan, t.now)
  BY <1>3, <1>4 DEF EffectOK
<1>7. pool' = Effect(t).pool
  <2>1. pool' = Rows(pool, pool, Effect(t).pool)
    BY <1>3, <1>4 DEF Committed
  <2>2. PoolOK(Effect(t).pool) /\ Len(pool) <= Len(Effect(t).pool) /\ PoolOK(pool)
    BY <1>1, <1>6 DEF Merges, TablesOK
  <2> QED BY <2>1, <2>2, WritesAll
<1> QED BY <1>2, <1>3, <1>4, <1>5, <1>6, <1>7 DEF QuietCommit

LEMMA QuietCommits ==
  ASSUME SeasonTyped, [Next]_vars, NEW c \in Clients, QuietUpload(c)
  PROVE  QuietCommit(c)
<1>1. tx[c] # NoTx /\ TxOK(tx[c])
  BY DEF QuietUpload, SeasonTyped, NoTx
<1>2. Commit(c)
  <2>1. \E d \in Clients : Commit(d)
    <3>1. Tables' # Tables
      BY DEF QuietUpload
    <3>2. ~UNCHANGED <<plans, pool, scens, links>>
      BY <3>1 DEF Tables
    <3> QED BY <3>2 DEF Next, Begin, ReadAgain, Fail, Listed, TurnVeto, Tick, vars, db
  <2>2. PICK d \in Clients : Commit(d)
    BY <2>1
  <2>3. ASSUME d # c PROVE FALSE
    <3>1. tx'[c] = IF Tables' # Tables THEN [tx[c] EXCEPT !.quiet = FALSE] ELSE tx[c]
      BY <1>1, <2>2, <2>3 DEF Commit, Finished
    <3>2. tx'[c].stage = "ready"
      BY <1>1, <3>1 DEF QuietUpload, TxOK
    <3> QED BY <3>2 DEF QuietUpload, NoTx
  <2> QED BY <2>2, <2>3
<1> QED BY <1>2, QuietCommitIs DEF QuietUpload

\* After an item its event has one row, and of the events to come all live rows
\* are in the map.
Unified(a, plan, todo, n) ==
    /\ \A d \in Ids : (\A k \in 1 .. n : Identity[todo[k].url] # d) =>
          \A i \in Alive(a.pool, plan) : Identity[a.pool[i].url] = d => i \in a.byId[d]
    /\ \A k \in 1 .. n : Identity[todo[k].url] # NoIdentity =>
          \A i, j \in Alive(a.pool, plan) :
             Identity[a.pool[i].url] = Identity[todo[k].url]
             /\ Identity[a.pool[j].url] = Identity[todo[k].url] => i = j

LEMMA CreatingUnifies ==
  ASSUME NEW plan, NEW now, NEW todo, NEW n \in Nat, NEW a, AccOK(a, plan), Unified(a, plan, todo, n),
         NEW item, item = todo[n + 1], ItemOK(a, item),
         \A k \in 1 .. n : Identity[item.url] # NoIdentity =>
                              Identity[todo[k].url] # Identity[item.url],
         NEW b, Created(a, item, plan, now, b)
  PROVE  Unified(b, plan, todo, n + 1)
<1> DEFINE fresh == Len(a.pool) + 1
           new == Candidate(plan, item, now)
           id == Identity[item.url]
<1>1. /\ DOMAIN b.pool = DOMAIN a.pool \cup {fresh} /\ fresh \notin DOMAIN a.pool
      /\ \A i \in DOMAIN a.pool : b.pool[i] = a.pool[i]
      /\ b.pool[fresh] = new
  <2>1. Table(a.pool) /\ b.pool = Append(a.pool, new)
    BY DEF AccOK, PoolOK, Created
  <2> HIDE DEF new
  <2> QED BY <2>1, AppendJoins
<1>2. new.url = item.url /\ new.plan = plan /\ new.live
  BY DEF Candidate
<1>3. \A i \in Alive(b.pool, plan) : \/ i = fresh /\ Identity[b.pool[i].url] = id
                                     \/ i \in Alive(a.pool, plan) /\ b.pool[i] = a.pool[i]
  BY <1>1, <1>2 DEF Alive
<1>4. id # NoIdentity => id \in Ids
  BY DEF Ids, ItemOK
<1>5. id # NoIdentity => \A i \in Alive(a.pool, plan) : Identity[a.pool[i].url] # id
  <2> SUFFICES ASSUME id # NoIdentity, NEW i \in Alive(a.pool, plan), Identity[a.pool[i].url] = id
               PROVE  FALSE
    OBVIOUS
  <2>1. i \in a.byId[id]
    BY <1>4 DEF Unified
  <2>2. i \in Twins(a, item)
    BY <2>1 DEF Twins, Alive
  <2> QED BY <2>2 DEF Created
<1>6. ASSUME NEW d \in Ids, \A k \in 1 .. n + 1 : Identity[todo[k].url] # d,
             NEW i \in Alive(b.pool, plan), Identity[b.pool[i].url] = d
      PROVE  i \in b.byId[d]
  <2>1. id # d /\ \A k \in 1 .. n : Identity[todo[k].url] # d
    BY <1>6
  <2>2. i \in Alive(a.pool, plan) /\ b.pool[i] = a.pool[i]
    BY <1>3, <1>6, <2>1
  <2>3. i \in a.byId[d]
    BY <1>6, <2>1, <2>2 DEF Unified
  <2> QED BY <2>1, <2>3 DEF Created
<1>7. ASSUME NEW k \in 1 .. n + 1, Identity[todo[k].url] # NoIdentity,
             NEW i \in Alive(b.pool, plan), NEW j \in Alive(b.pool, plan),
             Identity[b.pool[i].url] = Identity[todo[k].url],
             Identity[b.pool[j].url] = Identity[todo[k].url]
      PROVE  i = j
  <2>1. CASE k = n + 1
    BY <1>3, <1>5, <1>7, <2>1
  <2>2. CASE k \in 1 .. n
    <3>1. id # Identity[todo[k].url]
      BY <1>7, <2>2
    <3>2. /\ i \in Alive(a.pool, plan) /\ b.pool[i] = a.pool[i]
          /\ j \in Alive(a.pool, plan) /\ b.pool[j] = a.pool[j]
      BY <1>3, <1>7, <3>1
    <3> QED BY <1>7, <2>2, <3>2 DEF Unified
  <2> QED BY <2>1, <2>2
<1> QED BY <1>6, <1>7 DEF Unified

LEMMA UpdatingUnifies ==
  ASSUME NEW plan, NEW now, NEW todo, NEW n \in Nat, NEW a, AccOK(a, plan), Unified(a, plan, todo, n),
         NEW item, item = todo[n + 1], ItemOK(a, item),
         \A k \in 1 .. n : Identity[item.url] # NoIdentity =>
                              Identity[todo[k].url] # Identity[item.url],
         NEW b, NEW row \in DOMAIN a.pool, Updated(a, item, plan, now, row, b)
  PROVE  Unified(b, plan, todo, n + 1)
<1> DEFINE id == Identity[item.url]
           losers == Twins(a, item) \ {row}
<1>1. /\ DOMAIN b.pool = DOMAIN a.pool /\ b.byId = a.byId
      /\ \A i \in DOMAIN a.pool \ (losers \cup {row}) : b.pool[i] = a.pool[i]
      /\ b.pool[row].live = a.pool[row].live /\ b.pool[row].plan = a.pool[row].plan
      /\ b.pool[row].url = item.url
  BY DEF Updated, Absorbed
<1>2. \A l \in losers : ~b.pool[l].live
  <2> SUFFICES ASSUME NEW l \in losers PROVE ~b.pool[l].live
    OBVIOUS
  <2>1. l \in DOMAIN a.pool /\ b.pool[l] = [a.pool[l] EXCEPT !.live = FALSE, !.version = @ + 1]
    BY TwinsAre DEF Updated
  <2>2. CandidateOK(a.pool[l])
    BY <2>1 DEF AccOK, PoolOK
  <2>3. PICK r : r = b.pool[l]
    OBVIOUS
  <2>4. PICK v : v = a.pool[l]
    OBVIOUS
  <2>5. CandidateOK(v) /\ r = [v EXCEPT !.live = FALSE, !.version = @ + 1]
    BY <2>1, <2>2, <2>3, <2>4
  <2>6. r.live = FALSE
    BY <2>5, RetiredIs
  <2> QED BY <2>3, <2>6
<1>3. \A i \in Alive(b.pool, plan) :
         /\ i \in Alive(a.pool, plan) /\ i \notin losers
         /\ IF i = row THEN Identity[b.pool[i].url] = id ELSE b.pool[i] = a.pool[i]
  BY <1>1, <1>2 DEF Alive
<1>4. id # NoIdentity => id \in Ids
  BY DEF Ids, ItemOK
<1>5. id # NoIdentity => \A i \in Alive(b.pool, plan) : Identity[b.pool[i].url] = id => i = row
  <2> SUFFICES ASSUME id # NoIdentity, NEW i \in Alive(b.pool, plan), Identity[b.pool[i].url] = id,
                      i # row
               PROVE  FALSE
    OBVIOUS
  <2>1. i \in Alive(a.pool, plan) /\ i \notin losers /\ Identity[a.pool[i].url] = id
    BY <1>3
  <2>2. i \in a.byId[id]
    BY <1>4, <2>1 DEF Unified
  <2>3. i \in Twins(a, item)
    BY <2>1, <2>2 DEF Twins, Alive
  <2> QED BY <2>1, <2>3
<1> HIDE DEF losers
<1>6. ASSUME NEW d \in Ids, \A k \in 1 .. n + 1 : Identity[todo[k].url] # d,
             NEW i \in Alive(b.pool, plan), Identity[b.pool[i].url] = d
      PROVE  i \in b.byId[d]
  <2>1. id # d /\ \A k \in 1 .. n : Identity[todo[k].url] # d
    BY <1>6
  <2>2. i \in Alive(a.pool, plan) /\ b.pool[i] = a.pool[i]
    BY <1>3, <1>6, <2>1
  <2>3. i \in a.byId[d]
    BY <1>6, <2>1, <2>2 DEF Unified
  <2> QED BY <1>1, <2>3
<1>7. ASSUME NEW k \in 1 .. n + 1, Identity[todo[k].url] # NoIdentity,
             NEW i \in Alive(b.pool, plan), NEW j \in Alive(b.pool, plan),
             Identity[b.pool[i].url] = Identity[todo[k].url],
             Identity[b.pool[j].url] = Identity[todo[k].url]
      PROVE  i = j
  <2>1. CASE k = n + 1
    BY <1>5, <1>7, <2>1
  <2>2. CASE k \in 1 .. n
    <3>1. id # Identity[todo[k].url]
      BY <1>7, <2>2
    <3>2. /\ i \in Alive(a.pool, plan) /\ b.pool[i] = a.pool[i]
          /\ j \in Alive(a.pool, plan) /\ b.pool[j] = a.pool[j]
      BY <1>3, <1>7, <3>1
    <3> QED BY <1>7, <2>2, <3>2 DEF Unified
  <2> QED BY <2>1, <2>2
<1> QED BY <1>6, <1>7 DEF Unified

OneRowEach(p, plan, items) ==
    \A n \in Counting(items) : \A i, j \in Alive(p, plan) :
        Identity[items[n].url] # NoIdentity
        /\ Identity[p[i].url] = Identity[items[n].url]
        /\ Identity[p[j].url] = Identity[items[n].url] => i = j

LEMMA UploadUnifies ==
  ASSUME NEW seen, DOMAIN seen = TableNames, PoolOK(seen.pool), NEW plan,
         NEW items \in Payloads, NEW now \in Nat,
         NEW p, p = Upload(seen, plan, items, now).pool
  PROVE  OneRowEach(p, plan, items)
<1> DEFINE todo == Collapsed(items)
           N == Len(todo)
<1>1. PICK f : Uploaded(f, seen, plan, items, now)
  BY UploadIs
<1>2. N \in Nat /\ DOMAIN todo = 1 .. N /\ CollapsedOK(items, todo)
  BY CollapsedIs DEF CollapsedOK
<1>3. /\ MappedOK(seen, plan, items, f[0])
      /\ \A n \in DOMAIN todo : /\ ItemOK(f[n - 1], todo[n]) /\ AccOK(f[n - 1], plan)
                                /\ Ingested(f[n - 1], todo[n], plan, now, f[n])
      /\ Upload(seen, plan, items, now) = [seen EXCEPT !.pool = f[N].pool, !.scens = f[N].scens]
  BY <1>1 DEF Uploaded
<1>4. p = f[N].pool
  BY <1>3 DEF TableNames
<1> HIDE DEF todo, N
<1> DEFINE T == {n \in Nat : n <= N => Unified(f[n], plan, todo, n)}
<1>5. 0 \in T
  BY <1>3 DEF MappedOK, Unified
<1>6. ASSUME NEW n \in Nat, n \in T PROVE n + 1 \in T
  <2> SUFFICES ASSUME n + 1 <= N PROVE Unified(f[n + 1], plan, todo, n + 1)
    OBVIOUS
  <2>1. n + 1 \in DOMAIN todo /\ n + 1 - 1 = n /\ n <= N
    BY <1>2
  <2> DEFINE a == f[n]
             b == f[n + 1]
             item == todo[n + 1]
  <2>2. /\ ItemOK(a, item) /\ AccOK(a, plan) /\ Ingested(a, item, plan, now, b)
    BY <1>3, <2>1
  <2>3. Unified(a, plan, todo, n)
    BY <1>6, <2>1
  <2>4. \A k \in 1 .. n : Identity[item.url] # NoIdentity =>
                             Identity[todo[k].url] # Identity[item.url]
    <3>1. \A k \in 1 .. n : k \in DOMAIN todo /\ k # n + 1
      BY <1>2, <2>1
    <3> QED BY <1>2, <2>1, <3>1 DEF CollapsedOK
  <2>5. item = todo[n + 1]
    OBVIOUS
  <2> HIDE DEF a, b, item
  <2>6. CASE Created(a, item, plan, now, b)
    <3>1. Unified(b, plan, todo, n + 1)
      BY <2>2, <2>3, <2>4, <2>5, <2>6, CreatingUnifies
    <3> QED BY <3>1 DEF b
  <2>7. CASE \E row \in DOMAIN a.pool : Updated(a, item, plan, now, row, b)
    <3>1. PICK row \in DOMAIN a.pool : Updated(a, item, plan, now, row, b)
      BY <2>7
    <3>2. Unified(b, plan, todo, n + 1)
      BY <2>2, <2>3, <2>4, <2>5, <3>1, UpdatingUnifies
    <3> QED BY <3>2 DEF b
  <2> QED BY <2>2, <2>6, <2>7 DEF Ingested
<1> HIDE DEF T
<1>7. Nat \subseteq T
  BY <1>5, <1>6, SetInduction
<1>8. Unified(f[N], plan, todo, N)
  BY <1>2, <1>7 DEF T
<1>9. SUFFICES ASSUME NEW m \in Counting(items), Identity[items[m].url] # NoIdentity,
                      NEW i \in Alive(p, plan), NEW j \in Alive(p, plan),
                      Identity[p[i].url] = Identity[items[m].url],
                      Identity[p[j].url] = Identity[items[m].url]
               PROVE  i = j
  BY DEF OneRowEach
<1>10. PICK k \in 1 .. N : Identity[todo[k].url] = Identity[items[m].url]
  BY <1>2, <1>9 DEF CollapsedOK
<1> QED BY <1>4, <1>8, <1>9, <1>10 DEF Unified

\* An upload that nothing overtook leaves one row of each event it carries.
THEOREM EventsAreUnified == Spec => OneRowPerEvent
<1>1. Init => SeasonTyped
  BY InitTyped
<1>2. SeasonTyped /\ [Next]_vars => SeasonTyped'
  BY StepTyped
<1>3. SeasonTyped /\ [Next]_vars =>
        [\A c \in Clients : QuietUpload(c) =>
            \A n \in Counting(tx[c].req.items) :
                \A i, j \in Alive(pool', tx[c].req.plan) :
                    LET id == Identity[tx[c].req.items[n].url]
                    IN  id # NoIdentity /\ Identity[pool'[i].url] = id
                            /\ Identity[pool'[j].url] = id => i = j]_vars
  <2> SUFFICES ASSUME SeasonTyped, [Next]_vars, NEW c \in Clients, QuietUpload(c),
                      NEW n \in Counting(tx[c].req.items),
                      NEW i \in Alive(pool', tx[c].req.plan),
                      NEW j \in Alive(pool', tx[c].req.plan),
                      Identity[tx[c].req.items[n].url] # NoIdentity,
                      Identity[pool'[i].url] = Identity[tx[c].req.items[n].url],
                      Identity[pool'[j].url] = Identity[tx[c].req.items[n].url]
               PROVE  i = j
    OBVIOUS
  <2>1. QuietCommit(c) /\ TablesOK
    BY QuietCommits DEF SeasonTyped
  <2>2. PICK t : t = tx[c]
    OBVIOUS
  <2>3. PICK p : p = Upload(Tables, t.req.plan, t.req.items, t.now).pool
    OBVIOUS
  <2>4. /\ pool' = p /\ t.req.items \in Payloads /\ t.now \in Nat
    <3>1. pool' = p
      BY Zenon, <2>1, <2>2, <2>3 DEF QuietCommit
    <3>2. t.req.items \in Payloads /\ t.now \in 1 .. clock
      BY Zenon, <2>1, <2>2 DEF QuietCommit
    <3>3. clock \in Nat
      BY DEF SeasonTyped, TablesOK
    <3> QED BY <3>1, <3>2, <3>3
  <2>5. PICK s : s = Tables
    OBVIOUS
  <2>6. DOMAIN s = TableNames /\ PoolOK(s.pool)
    BY <2>1, <2>5 DEF Tables, TableNames, TablesOK
  <2>7. p = Upload(s, t.req.plan, t.req.items, t.now).pool
    BY <2>3, <2>5
  <2>8. PICK plan, items, now : plan = t.req.plan /\ items = t.req.items /\ now = t.now
    OBVIOUS
  <2>9. /\ n \in Counting(items) /\ i \in Alive(p, plan) /\ j \in Alive(p, plan)
        /\ Identity[items[n].url] # NoIdentity
        /\ Identity[p[i].url] = Identity[items[n].url]
        /\ Identity[p[j].url] = Identity[items[n].url]
        /\ items \in Payloads /\ now \in Nat /\ p = Upload(s, plan, items, now).pool
    BY <2>2, <2>4, <2>7, <2>8
  <2>10. OneRowEach(p, plan, items)
    BY <2>6, <2>9, UploadUnifies
  <2> QED BY <2>9, <2>10 DEF OneRowEach
<1> QED BY <1>1, <1>2, <1>3, PTL DEF Spec, OneRowPerEvent

-----------------------------------------------------------------------------
(* The scenarios *)

IsScen(r) == r = [f \in ScenFields |-> r[f]]
ScensOK(t) == Table(t) /\ \A s \in DOMAIN t : IsScen(t[s])

LEMMA ScenFieldsOf ==
  ASSUME NEW r, IsScen(r)
  PROVE  DOMAIN r = ScenFields
BY DEF IsScen

\* A table made of another row by row.
LEMMA ScensMapped ==
  ASSUME NEW old, ScensOK(old), NEW new, new = [s \in DOMAIN old |-> new[s]],
         \A s \in DOMAIN old : IsScen(new[s])
  PROVE  ScensOK(new) /\ Len(new) = Len(old) /\ DOMAIN new = DOMAIN old
<1>1. Len(old) \in Nat /\ DOMAIN old = 1 .. Len(old)
  BY TableIs DEF ScensOK
<1>2. new = [s \in 1 .. Len(old) |-> new[s]]
  BY <1>1
<1>3. Table(new) /\ Len(new) = Len(old) /\ DOMAIN new = 1 .. Len(old)
  BY <1>1, <1>2, MapIsTable
<1> QED BY <1>1, <1>3 DEF ScensOK

\* A merge changes the members of scenarios, and nothing else but the version.
Rewritten(old, plan, winner, losers, new) ==
    /\ ScensOK(new) /\ Len(new) = Len(old) /\ DOMAIN new = DOMAIN old
    /\ \A s \in DOMAIN old :
          /\ new[s].live = old[s].live /\ new[s].plan = old[s].plan
          /\ new[s].members =
                IF s \in Alive(old, plan) /\ old[s].members \cap losers # {}
                THEN (old[s].members \ losers) \cup {winner} ELSE old[s].members
          /\ losers = {} => new[s] = old[s]

LEMMA RewriteIs ==
  ASSUME NEW old, ScensOK(old), NEW plan, NEW winner, NEW losers,
         NEW new, new = Rewrite(old, plan, winner, losers)
  PROVE  Rewritten(old, plan, winner, losers, new)
<1> DEFINE Hit(s) == old[s].members \cap losers
           W(s) == IF s \in Alive(old, plan) /\ Hit(s) # {}
                   THEN [old[s] EXCEPT !.members = (@ \ losers) \cup {winner},
                                       !.version = @ + Cardinality(Hit(s))]
                   ELSE old[s]
<1>1. new = [s \in DOMAIN old |-> W(s)]
  BY DEF Rewrite
<1>2. ASSUME NEW s \in DOMAIN old
      PROVE  /\ IsScen(W(s)) /\ W(s).live = old[s].live /\ W(s).plan = old[s].plan
             /\ W(s).members = IF s \in Alive(old, plan) /\ Hit(s) # {}
                               THEN (old[s].members \ losers) \cup {winner}
                               ELSE old[s].members
             /\ losers = {} => W(s) = old[s]
  <2>1. IsScen(old[s]) /\ DOMAIN old[s] = ScenFields
    BY ScenFieldsOf DEF ScensOK
  <2>2. CASE s \in Alive(old, plan) /\ Hit(s) # {}
    <3> DEFINE m == (old[s].members \ losers) \cup {winner}
               v == old[s].version + Cardinality(Hit(s))
    <3>1. W(s) = [old[s] EXCEPT !.members = m, !.version = v]
      BY <2>2
    <3>2. losers # {}
      BY <2>2
    <3> HIDE DEF W, m, v
    <3>3. W(s) = [f \in ScenFields |-> IF f = "version" THEN v ELSE IF f = "members" THEN m
                                       ELSE old[s][f]]
      BY <2>1, <3>1
    <3>4. IsScen(W(s))
      BY <3>3 DEF IsScen
    <3>5. W(s).live = old[s].live /\ W(s).plan = old[s].plan /\ W(s).members = m
      BY <3>3 DEF ScenFields
    <3> QED BY <2>2, <3>2, <3>4, <3>5 DEF m
  <2>3. CASE ~(s \in Alive(old, plan) /\ Hit(s) # {})
    <3>1. W(s) = old[s]
      BY <2>3
    <3> HIDE DEF W
    <3> QED BY <2>1, <2>3, <3>1
  <2> QED BY <2>2, <2>3
<1>3. \A s \in DOMAIN old : Hit(s) = old[s].members \cap losers
  OBVIOUS
<1> HIDE DEF W, Hit
<1>4. new = [s \in DOMAIN old |-> new[s]] /\ \A s \in DOMAIN old : new[s] = W(s)
  BY <1>1
<1>5. ScensOK(new) /\ Len(new) = Len(old) /\ DOMAIN new = DOMAIN old
  <2>1. \A s \in DOMAIN old : IsScen(new[s])
    BY <1>2, <1>4
  <2>2. new = [s \in DOMAIN old |-> new[s]]
    BY <1>4
  <2> QED BY <2>1, <2>2, ScensMapped
<1> QED BY <1>2, <1>3, <1>4, <1>5 DEF Rewritten

Grown(old, new) == ScensOK(new) /\ Len(old) <= Len(new)

LEMMA SameGrown ==
  ASSUME NEW old, ScensOK(old)
  PROVE  Grown(old, old)
<1>1. Len(old) \in Nat
  BY TableIs DEF ScensOK
<1> QED BY <1>1 DEF Grown

UploadGrown(f, seen, plan, items, now) ==
    /\ \A n \in 0 .. Len(Collapsed(items)) :
          ScensOK(f[n].scens) /\ Len(f[n].scens) = Len(seen.scens)
    /\ Upload(seen, plan, items, now).scens = f[Len(Collapsed(items))].scens

LEMMA UploadGrows ==
  ASSUME NEW seen, DOMAIN seen = TableNames, PoolOK(seen.pool), ScensOK(seen.scens), NEW plan,
         NEW items \in Payloads, NEW now \in Nat,
         NEW f, Uploaded(f, seen, plan, items, now)
  PROVE  UploadGrown(f, seen, plan, items, now)
<1> DEFINE todo == Collapsed(items)
           N == Len(todo)
<1>1. N \in Nat /\ DOMAIN todo = 1 .. N
  BY CollapsedIs DEF CollapsedOK
<1>2. /\ f[0].scens = seen.scens
      /\ \A n \in DOMAIN todo : Ingested(f[n - 1], todo[n], plan, now, f[n])
      /\ Upload(seen, plan, items, now) = [seen EXCEPT !.pool = f[N].pool, !.scens = f[N].scens]
  BY DEF Uploaded, MappedOK
<1>3. Upload(seen, plan, items, now).scens = f[N].scens
  BY <1>2 DEF TableNames
<1> HIDE DEF todo, N
<1> DEFINE T == {n \in Nat : n <= N => ScensOK(f[n].scens) /\ Len(f[n].scens) = Len(seen.scens)}
<1>4. 0 \in T
  BY <1>2
<1>5. ASSUME NEW n \in Nat, n \in T PROVE n + 1 \in T
  <2> SUFFICES ASSUME n + 1 <= N
               PROVE  ScensOK(f[n + 1].scens) /\ Len(f[n + 1].scens) = Len(seen.scens)
    OBVIOUS
  <2>1. n + 1 \in DOMAIN todo /\ n + 1 - 1 = n /\ n <= N
    BY <1>1
  <2>2. Ingested(f[n], todo[n + 1], plan, now, f[n + 1])
    BY <1>2, <2>1
  <2>3. ScensOK(f[n].scens) /\ Len(f[n].scens) = Len(seen.scens)
    BY <1>5, <2>1
  <2> DEFINE a == f[n]
             b == f[n + 1]
             item == todo[n + 1]
  <2> HIDE DEF a, b, item
  <2>4. CASE Created(a, item, plan, now, b)
    <3>1. b.scens = a.scens
      BY <2>4 DEF Created
    <3> QED BY <2>3, <3>1 DEF a, b
  <2>5. CASE \E row \in DOMAIN a.pool : Updated(a, item, plan, now, row, b)
    <3>1. PICK row \in DOMAIN a.pool : Updated(a, item, plan, now, row, b)
      BY <2>5
    <3>2. b.scens = Rewrite(a.scens, plan, row, Twins(a, item) \ {row})
      BY <3>1 DEF Updated
    <3>3. Rewritten(a.scens, plan, row, Twins(a, item) \ {row}, b.scens)
      BY <2>3, <3>2, RewriteIs DEF a
    <3> QED BY <2>3, <3>3 DEF Rewritten, a, b
  <2> QED BY <2>2, <2>4, <2>5 DEF Ingested, a, b, item
<1> HIDE DEF T
<1>6. Nat \subseteq T
  BY <1>4, <1>5, SetInduction
<1>7. \A n \in 0 .. N : ScensOK(f[n].scens) /\ Len(f[n].scens) = Len(seen.scens)
  BY <1>1, <1>6 DEF T
<1> QED BY <1>3, <1>7 DEF UploadGrown, todo, N

LEMMA SetToSeqIs ==
  ASSUME NEW S, IsFiniteSet(S)
  PROVE  SetToSeq(S) \in Seq(S)
<1>1. Cardinality(S) \in Nat /\ ExistsBijection(1 .. Cardinality(S), S)
  BY FS_CardinalityType
<1>2. PICK f \in [1 .. Cardinality(S) -> S] : IsInjective(f)
  BY <1>1 DEF ExistsBijection, Bijection, Injection
<1>3. SetToSeq(S) \in [1 .. Cardinality(S) -> S]
  BY <1>2 DEF SetToSeq
<1> QED BY <1>1, <1>3

LEMMA PutScenariosGrows ==
  ASSUME NEW seen, DOMAIN seen = TableNames, ScensOK(seen.scens),
         NEW plan, NEW wanted, DOMAIN wanted \subseteq Names, NEW replace
  PROVE  Grown(seen.scens, PutScenarios(seen, plan, wanted, replace).scens)
<1> DEFINE Id(k) == CHOOSE i \in Alive(seen.pool, plan) : seen.pool[i].key = k
           M(n) == {Id(k) : k \in wanted[n]}
           old == Alive(seen.scens, plan)
           KnownName(n) == \E s \in old : seen.scens[s].name = n
           S == {n \in DOMAIN wanted : ~KnownName(n)}
           new == SetToSeq(S)
           W(s) == LET row == seen.scens[s] IN
            IF s \in old /\ row.name \in DOMAIN wanted
            THEN [row EXCEPT !.members = M(row.name), !.version = @ + 1]
            ELSE IF s \in old /\ replace
            THEN [row EXCEPT !.live = FALSE, !.version = @ + 1]
            ELSE row
           kept == [s \in DOMAIN seen.scens |-> W(s)]
           added == [n \in DOMAIN new |-> Scenario(plan, new[n], M(new[n]))]
<1>1. PutScenarios(seen, plan, wanted, replace) = [seen EXCEPT !.scens = kept \o added]
  BY DEF PutScenarios
<1>2. IsFiniteSet(S)
  <2>1. S \subseteq Names
    OBVIOUS
  <2> HIDE DEF S
  <2> QED BY <2>1, FS_Subset, SeasonAssumption
<1>3. Len(new) \in Nat /\ DOMAIN new = 1 .. Len(new)
  <2>1. new \in Seq(S)
    BY <1>2, SetToSeqIs
  <2> HIDE DEF new, S
  <2> QED BY <2>1
<1>4. \A s \in DOMAIN seen.scens : IsScen(W(s))
  <2> SUFFICES ASSUME NEW s \in DOMAIN seen.scens PROVE IsScen(W(s))
    OBVIOUS
  <2>1. PICK r : r = seen.scens[s]
    OBVIOUS
  <2>2. IsScen(r) /\ DOMAIN r = ScenFields
    BY <2>1, ScenFieldsOf DEF ScensOK
  <2> DEFINE m == M(r.name)
  <2>3. \/ W(s) = r
        \/ W(s) = [r EXCEPT !.members = m, !.version = @ + 1]
        \/ W(s) = [r EXCEPT !.live = FALSE, !.version = @ + 1]
    BY <2>1
  <2> HIDE DEF W, m
  <2>4. CASE W(s) = [r EXCEPT !.members = m, !.version = @ + 1]
    BY <2>2, <2>4 DEF IsScen
  <2>5. CASE W(s) = [r EXCEPT !.live = FALSE, !.version = @ + 1]
    BY <2>2, <2>5 DEF IsScen
  <2> QED BY <2>2, <2>3, <2>4, <2>5
<1>5. \A n \in DOMAIN new : IsScen(Scenario(plan, new[n], M(new[n])))
  BY DEF IsScen, Scenario, ScenFields
<1> DEFINE E(n) == Scenario(plan, new[n], M(new[n]))
<1>6. added = [n \in DOMAIN new |-> E(n)]
  OBVIOUS
<1>7. \A n \in DOMAIN new : IsScen(E(n))
  BY <1>5
<1> HIDE DEF W, E, new
<1>8. \A s \in DOMAIN seen.scens : kept[s] = W(s)
  OBVIOUS
<1>9. \A n \in DOMAIN new : added[n] = E(n)
  BY <1>6
<1>10. ScensOK(kept) /\ Len(kept) = Len(seen.scens)
  <2>1. kept = [s \in DOMAIN seen.scens |-> kept[s]]
    OBVIOUS
  <2> HIDE DEF kept
  <2> QED BY <1>4, <1>8, <2>1, ScensMapped
<1>11. Table(added) /\ DOMAIN added = DOMAIN new
  <2>1. added = [n \in 1 .. Len(new) |-> added[n]]
    BY <1>3, <1>6
  <2> HIDE DEF added
  <2> QED BY <1>3, <2>1, MapIsTable
<1> HIDE DEF kept, added
<1>12. Joined(kept \o added, kept, added)
  BY <1>10, <1>11, JoinedIs DEF ScensOK
<1> DEFINE t == kept \o added
<1> HIDE DEF t
<1>13. Table(t) /\ \A i \in DOMAIN t : IsScen(t[i])
  BY <1>7, <1>9, <1>10, <1>11, <1>12 DEF Joined, ScensOK, t
<1>14. Len(seen.scens) <= Len(t)
  <2>1. Len(kept) \in Nat /\ Len(added) \in Nat
    BY <1>10, <1>11, TableIs DEF ScensOK
  <2> QED BY <1>10, <1>12, <2>1 DEF Joined, t
<1>15. PutScenarios(seen, plan, wanted, replace).scens = t
  BY <1>1 DEF TableNames, t
<1> QED BY <1>13, <1>14, <1>15 DEF Grown, ScensOK

\* What a request asks of the scenarios, and makes of them.
ScenTx(t) ==
    /\ ScensOK(t.seen.scens) /\ Len(t.seen.scens) <= Len(scens)
    /\ t.req.kind = "scenarios" => DOMAIN t.req.wanted \subseteq Names
    /\ t.req.kind = "apply" => t.req.scen \in DOMAIN t.seen.scens

LEMMA EffectGrows ==
  ASSUME NEW t, TxOK(t), ScenTx(t)
  PROVE  Grown(t.seen.scens, Effect(t).scens)
<1> DEFINE r == t.req
           seen == t.seen
<1>1. /\ DOMAIN seen = TableNames /\ PoolOK(seen.pool) /\ ScensOK(seen.scens)
      /\ Grown(seen.scens, seen.scens) /\ RequestOK(r, seen) /\ t.now \in Nat
  BY SameGrown DEF TxOK, SnapshotOK, SeenOK, ScenTx
<1>2. CASE r.kind = "create"
  <2>1. Effect(t) = CreatePlan(seen, r.label, r.starts)
    BY <1>2 DEF Effect
  <2>2. \E q : CreatePlan(seen, r.label, r.starts) = [seen EXCEPT !.plans = q]
    BY DEF CreatePlan
  <2>3. Effect(t).scens = seen.scens
    BY <1>1, <2>1, <2>2 DEF TableNames
  <2> QED BY <1>1, <2>3
<1>3. CASE r.kind = "upload"
  <2>1. Effect(t) = Upload(seen, r.plan, r.items, t.now) /\ r.items \in Payloads
    BY <1>1, <1>3 DEF Effect, RequestOK
  <2>2. PICK items : items = r.items
    OBVIOUS
  <2>3. PICK p : p = r.plan
    OBVIOUS
  <2>4. PICK f : Uploaded(f, seen, p, items, t.now)
    BY <1>1, <2>1, <2>2, UploadIs
  <2>5. /\ ScensOK(f[Len(Collapsed(items))].scens)
        /\ Len(f[Len(Collapsed(items))].scens) = Len(seen.scens)
        /\ Upload(seen, p, items, t.now).scens = f[Len(Collapsed(items))].scens
    <3>1. Len(Collapsed(items)) \in 0 .. Len(Collapsed(items))
      BY <2>1, <2>2, CollapsedIs DEF CollapsedOK
    <3>2. UploadGrown(f, seen, p, items, t.now)
      BY <1>1, <2>1, <2>2, <2>4, UploadGrows
    <3> QED BY <3>1, <3>2 DEF UploadGrown
  <2>6. Len(seen.scens) \in Nat
    BY <1>1, TableIs DEF ScensOK
  <2> QED BY <2>1, <2>2, <2>3, <2>5, <2>6 DEF Grown
<1>4. CASE r.kind = "scenarios"
  <2>1. Effect(t) = PutScenarios(seen, r.plan, r.wanted, r.replace)
    BY <1>4 DEF Effect
  <2>2. DOMAIN r.wanted \subseteq Names
    BY <1>4 DEF ScenTx
  <2> QED BY <1>1, <2>1, <2>2, PutScenariosGrows
<1>5. CASE r.kind \in {"patch", "delete"}
  <2>1. \E q : Effect(t) = [seen EXCEPT !.pool = q]
    <3>1. CASE r.kind = "patch"
      BY <1>1, <3>1 DEF Effect, Patch, TableNames
    <3>2. CASE r.kind = "delete"
      <4>1. Effect(t) = Delete(seen, r.row)
        BY <3>2 DEF Effect
      <4>2. Delete(seen, r.row) = [[seen EXCEPT !.pool = [seen.pool EXCEPT ![r.row] =
                 [seen.pool[r.row] EXCEPT !.live = FALSE]]] EXCEPT
                   !.pool = [[seen.pool EXCEPT ![r.row] = [seen.pool[r.row] EXCEPT !.live = FALSE]]
                      EXCEPT ![r.row] = [[seen.pool EXCEPT ![r.row] =
                         [seen.pool[r.row] EXCEPT !.live = FALSE]][r.row] EXCEPT !.version = @ + 1]]]
        BY <1>1 DEF Delete, TableNames
      <4> QED BY <1>1, <4>1, <4>2 DEF TableNames
    <3> QED BY <1>5, <3>1, <3>2
  <2>2. Effect(t).scens = seen.scens
    BY <1>1, <2>1 DEF TableNames
  <2> QED BY <1>1, <2>2
<1>6. CASE r.kind = "apply"
  <2>1. Effect(t) = Apply(seen, r.scen, r.replace, t.now) /\ r.scen \in DOMAIN seen.scens
    BY <1>6 DEF Effect, ScenTx
  <2>2. PICK new : new = Effect(t).scens
    OBVIOUS
  <2>3. PICK s, now : s = r.scen /\ now = t.now
    OBVIOUS
  <2>4. PICK v : v = [seen.scens[s] EXCEPT !.applied = now, !.version = @ + 1]
    OBVIOUS
  <2>5. new = [seen.scens EXCEPT ![s] = v]
    <3>1. \E q : Apply(seen, s, r.replace, now) =
            [seen EXCEPT !.scens[s].applied = now, !.scens[s].version = @ + 1, !.pool = q]
      BY DEF Apply
    <3>2. PICK q : Apply(seen, s, r.replace, now) =
            [seen EXCEPT !.scens[s].applied = now, !.scens[s].version = @ + 1, !.pool = q]
      BY <3>1
    <3>3. PICK S : S = seen.scens
      OBVIOUS
    <3>4. PICK A : A = seen
      OBVIOUS
    <3>5. DOMAIN A = TableNames /\ A.scens = S
      BY <1>1, <3>3, <3>4
    <3>6. [A EXCEPT !.scens[s].applied = now, !.scens[s].version = @ + 1, !.pool = q].scens
            = [[S EXCEPT ![s].applied = now] EXCEPT ![s].version = @ + 1]
      BY <3>5 DEF TableNames
    <3>7. new = [[S EXCEPT ![s].applied = now] EXCEPT ![s].version = @ + 1]
      BY <2>1, <2>2, <2>3, <3>2, <3>4, <3>6
    <3>8. s \in DOMAIN S
      BY <2>1, <2>3, <3>3
    <3>9. [[S EXCEPT ![s].applied = now] EXCEPT ![s].version = @ + 1]
            = [S EXCEPT ![s] = [S[s] EXCEPT !.applied = now, !.version = @ + 1]]
      BY <3>8
    <3> QED BY <2>4, <3>3, <3>7, <3>9
  <2>6. IsScen(v)
    <3>1. IsScen(seen.scens[s]) /\ DOMAIN seen.scens[s] = ScenFields
      BY <1>1, <2>1, <2>3, ScenFieldsOf DEF ScensOK
    <3> QED BY <2>4, <3>1 DEF IsScen
  <2>7. new = [i \in DOMAIN seen.scens |-> new[i]] /\ \A i \in DOMAIN seen.scens : IsScen(new[i])
    BY <1>1, <2>5, <2>6 DEF ScensOK
  <2>8. ScensOK(new) /\ Len(new) = Len(seen.scens)
    <3> HIDE DEF seen
    <3> QED BY <1>1, <2>7, ScensMapped
  <2>9. Len(seen.scens) \in Nat
    BY <1>1, TableIs DEF ScensOK
  <2> QED BY <2>2, <2>8, <2>9 DEF Grown
<1>7. CASE r.kind = "ack"
  <2>1. Effect(t) = Ack(seen, r.plan, r.through)
    BY <1>7 DEF Effect
  <2>2. Effect(t).scens = seen.scens
    BY <1>1, <2>1 DEF Ack, TableNames
  <2> QED BY <1>1, <2>2
<1>8. CASE r.kind \in {"link", "unlink"}
  <2>1. CASE r.kind = "link"
    <3>1. Effect(t) = PutLink(seen, r.piece, r.found, r.row)
      BY <2>1 DEF Effect
    <3>2. Effect(t).scens = seen.scens
      BY <1>1, <3>1 DEF PutLink, TableNames
    <3> QED BY <1>1, <3>2
  <2>2. CASE r.kind = "unlink"
    <3>1. Effect(t) = Unlink(seen, r.piece)
      BY <2>2 DEF Effect
    <3>2. Effect(t).scens = seen.scens
      BY <1>1, <3>1 DEF Unlink, TableNames
    <3> QED BY <1>1, <3>2
  <2> QED BY <1>8, <2>1, <2>2
<1>9. CASE r.kind = "list"
  <2>1. Effect(t) = seen
    BY <1>9 DEF Effect
  <2> QED BY <1>1, <2>1
<1>10. r.kind \in Kinds
  BY <1>1 DEF RequestOK
<1> QED BY <1>2, <1>3, <1>4, <1>5, <1>6, <1>7, <1>8, <1>9, <1>10 DEF Kinds

LEMMA ScensWritten ==
  ASSUME NEW rows, ScensOK(rows), NEW old, ScensOK(old), Len(old) <= Len(rows),
         NEW new, Grown(old, new), NEW p, p = Rows(rows, old, new)
  PROVE  ScensOK(p) /\ Len(rows) <= Len(p)
<1>1. /\ Table(rows) /\ Table(old) /\ Table(new) /\ Len(old) <= Len(new)
      /\ Len(rows) \in Nat /\ Len(old) \in Nat /\ Len(new) \in Nat
      /\ DOMAIN rows = 1 .. Len(rows) /\ DOMAIN old = 1 .. Len(old) /\ DOMAIN new = 1 .. Len(new)
  BY TableIs DEF ScensOK, Grown
<1>2. Overlaid(p, rows, old, new)
  BY <1>1, RowsAre
<1>3. DOMAIN old \subseteq DOMAIN new
  BY <1>1, IntervalIn
<1>4. ASSUME NEW i \in DOMAIN p PROVE IsScen(p[i])
  <2>1. CASE i \in DOMAIN old
    <3>1. PICK row, o, n : row = rows[i] /\ o = old[i] /\ n = new[i]
      OBVIOUS
    <3>2. p[i] = Columns(row, o, n) /\ IsScen(row)
      BY <1>2, <1>4, <2>1, <3>1 DEF Overlaid, ScensOK
    <3>3. p[i] = [c \in ScenFields |-> IF n[c] = o[c] THEN row[c] ELSE n[c]]
      BY <3>2, ScenFieldsOf DEF Columns
    <3> QED BY <3>3 DEF IsScen
  <2>2. CASE i \in DOMAIN rows \ DOMAIN old
    BY <1>2, <1>4, <2>2 DEF Overlaid, ScensOK
  <2>3. CASE i \notin DOMAIN rows
    BY <1>2, <1>4, <2>3 DEF Overlaid, ScensOK, Grown
  <2> QED BY <2>1, <2>2, <2>3
<1>5. Len(rows) <= Len(p)
  BY <1>1, <1>2 DEF Overlaid
<1> QED BY <1>2, <1>4, <1>5 DEF Overlaid, ScensOK

\* Nothing but what the request makes, when nothing has come in between.
LEMMA WritesAllScens ==
  ASSUME NEW old, ScensOK(old), NEW new, Grown(old, new)
  PROVE  Rows(old, old, new) = new
<1> DEFINE p == Rows(old, old, new)
<1>1. /\ Table(old) /\ Table(new) /\ Len(old) <= Len(new) /\ Len(old) \in Nat /\ Len(new) \in Nat
      /\ DOMAIN old = 1 .. Len(old) /\ DOMAIN new = 1 .. Len(new)
  BY TableIs DEF ScensOK, Grown
<1>2. Overlaid(p, old, old, new)
  BY <1>1, RowsAre
<1>3. ScensOK(p)
  BY <1>1, ScensWritten
<1> HIDE DEF p
<1>4. Table(p) /\ Len(p) = Len(new) /\ DOMAIN p = DOMAIN new
  <2>1. Table(p) /\ Len(p) = Len(old) + (Len(new) - Len(old))
    BY <1>2 DEF Overlaid
  <2>2. Len(p) = Len(new)
    BY <1>1, <2>1
  <2> QED BY <1>1, <2>1, <2>2, TableIs
<1>5. DOMAIN old \subseteq DOMAIN new
  BY <1>1, IntervalIn
<1>6. ASSUME NEW i \in DOMAIN p PROVE p[i] = new[i]
  <2>1. CASE i \in DOMAIN old
    <3>1. PICK r, o, n : r = p[i] /\ o = old[i] /\ n = new[i]
      OBVIOUS
    <3>2. r = Columns(o, o, n) /\ IsScen(o) /\ IsScen(n)
      BY <1>2, <1>5, <1>6, <2>1, <3>1 DEF Overlaid, ScensOK, Grown
    <3>3. r = [c \in ScenFields |-> IF n[c] = o[c] THEN o[c] ELSE n[c]]
      BY <3>2, ScenFieldsOf DEF Columns
    <3>4. r = [c \in ScenFields |-> n[c]]
      BY <3>3
    <3> QED BY <3>1, <3>2, <3>4 DEF IsScen
  <2>2. CASE i \notin DOMAIN old
    <3>1. PICK j \in DOMAIN new : j = Len(old) + (i - Len(old)) /\ p[i] = new[j]
      BY <1>2, <1>6, <2>2 DEF Overlaid
    <3>2. i \in 1 .. Len(new)
      BY <1>1, <1>4, <1>6
    <3>3. j = i
      BY <1>1, <3>1, <3>2
    <3> QED BY <3>1, <3>3
  <2> QED BY <2>1, <2>2
<1>7. p = new
  BY <1>1, <1>4, <1>6, TablesEqual
<1> QED BY <1>7 DEF p

\* The scenarios are rows, the ones stored and the ones read.
ScenInv ==
    /\ ScensOK(scens)
    /\ \A c \in Clients : tx[c] = NoTx \/ ScenTx(tx[c])

LEMMA InitScens ==
  ASSUME Init
  PROVE  ScenInv
<1>1. PICK s \in Starts : scens = s.scens
  BY DEF Init
<1>2. scens \in Seq(Range(scens)) /\ \A i \in DOMAIN scens : IsScen(scens[i])
  BY <1>1, StartsAssumption DEF IsScen
<1>3. ScensOK(scens)
  BY <1>2, SeqIsTable DEF ScensOK
<1> QED BY <1>3 DEF ScenInv, Init

LEMMA ScenRequests ==
  ASSUME NEW r \in Requests
  PROVE  /\ r.kind = "scenarios" => DOMAIN r.wanted \subseteq Names
         /\ r.kind = "apply" => r.scen \in DOMAIN scens
<1> DEFINE Live(p) == Alive(pool, p)
           L == UNION {Live(p) : p \in DOMAIN plans}
           K(p) == SUBSET {pool[i].key : i \in Live(p)}
           M(p) == UNION {[N -> K(p)] : N \in SUBSET Names}
           W == UNION {[kind : {"scenarios"}, plan : {p}, replace : BOOLEAN, wanted : M(p)] :
                         p \in DOMAIN plans}
           A == UNION {Alive(scens, p) : p \in DOMAIN plans}
           F == {[s \in Services |-> IF s = service THEN "found" ELSE Null] :
                      service \in Services}
           U == {p \in Pieces : links[p] # NoLink}
           H == Moments \cup {l.through : l \in listings}
<1>1. A \subseteq DOMAIN scens
  BY DEF Alive
<1>2. ASSUME NEW q \in W PROVE q.kind = "scenarios" /\ DOMAIN q.wanted \subseteq Names
  <2>1. PICK p \in DOMAIN plans :
          q \in [kind : {"scenarios"}, plan : {p}, replace : BOOLEAN, wanted : M(p)]
    BY <1>2
  <2>2. q.wanted \in M(p) /\ q.kind = "scenarios"
    <3> HIDE DEF M
    <3> QED BY <2>1
  <2>3. PICK N \in SUBSET Names : q.wanted \in [N -> K(p)]
    BY <2>2
  <2>4. DOMAIN q.wanted = N
    <3> HIDE DEF K
    <3> QED BY <2>3
  <2> QED BY <2>2, <2>4
<1>4. Requests =
        [kind : {"create"}, label : Names, starts : agenda.days]
        \cup [kind : {"upload"}, plan : DOMAIN plans, items : Payloads]
        \cup W
        \cup [kind : {"patch"}, row : L, change : Changes]
        \cup [kind : {"delete"}, row : L]
        \cup [kind : {"apply"}, replace : BOOLEAN, scen : A]
        \cup [kind : {"list"}, plan : DOMAIN plans, since : {0} \cup Moments]
        \cup [kind : {"ack"}, plan : DOMAIN plans, through : H]
        \cup [kind : {"link"}, piece : Pieces, row : {requests + 1}, found : F]
        \cup [kind : {"unlink"}, piece : U]
  BY DEF Requests
<1> HIDE DEF L, W, A, F, U, H
<1>5. \/ r \in W \/ r \in [kind : {"apply"}, replace : BOOLEAN, scen : A]
      \/ r.kind \notin {"scenarios", "apply"}
  BY <1>4
<1>6. CASE r \in W
  BY <1>2, <1>6
<1>7. CASE r \in [kind : {"apply"}, replace : BOOLEAN, scen : A]
  BY <1>1, <1>7
<1> QED BY <1>5, <1>6, <1>7

LEMMA ScenTxStays ==
  ASSUME NEW t, ScenTx(t), ScensOK(scens), ScensOK(scens'), Len(scens) <= Len(scens')
  PROVE  ScenTx(t)'
<1>1. /\ Len(t.seen.scens) \in Nat /\ Len(scens) \in Nat /\ Len(scens') \in Nat
      /\ Len(t.seen.scens) <= Len(scens)
  BY TableIs DEF ScenTx, ScensOK
<1>2. Len(t.seen.scens) <= Len(scens')
  BY <1>1
<1> QED BY <1>2 DEF ScenTx, ScensOK, IsScen

LEMMA CommitScens ==
  ASSUME SeasonTyped, ScenInv, NEW c \in Clients, Commit(c)
  PROVE  /\ ScensOK(scens') /\ Len(scens) <= Len(scens')
         /\ scens' = Rows(scens, tx[c].seen.scens, Effect(tx[c]).scens)
         /\ Grown(tx[c].seen.scens, Effect(tx[c]).scens)
<1>1. PICK t : t = tx[c]
  OBVIOUS
<1>2. TxOK(t) /\ ScenTx(t)
  BY <1>1 DEF Commit, SeasonTyped, ScenInv, NoTx
<1>3. PICK e : e = Effect(t)
  OBVIOUS
<1>4. scens' = Rows(scens, t.seen.scens, e.scens)
  BY <1>1, <1>3 DEF Commit, Written
<1>5. Grown(t.seen.scens, e.scens)
  BY <1>2, <1>3, EffectGrows
<1>6. PICK p : p = Rows(scens, t.seen.scens, e.scens)
  OBVIOUS
<1>7. ScensOK(p) /\ Len(scens) <= Len(p)
  BY <1>2, <1>5, <1>6, ScensWritten DEF ScenTx, ScenInv
<1> QED BY <1>1, <1>3, <1>4, <1>5, <1>6, <1>7

LEMMA StepScens ==
  ASSUME SeasonTyped, ScenInv, [Next]_vars
  PROVE  ScenInv'
<1>1. CASE \E c \in Clients : Begin(c)
  <2>1. PICK c \in Clients : Begin(c)
    BY <1>1
  <2>2. PICK r \in Requests :
        tx' = [tx EXCEPT ![c] = [stage |-> IF r.kind \in TwoReads THEN "read" ELSE "ready",
                                 req |-> r, seen |-> Tables, now |-> clock, quiet |-> TRUE]]
    BY <2>1 DEF Begin
  <2>3. UNCHANGED scens /\ ScensOK(scens)
    BY <2>1 DEF Begin, db, ScenInv
  <2>4. PICK t : t = [stage |-> IF r.kind \in TwoReads THEN "read" ELSE "ready",
                      req |-> r, seen |-> Tables, now |-> clock, quiet |-> TRUE]
    OBVIOUS
  <2>5. ScenTx(t)
    <3>1. t.req = r /\ t.seen.scens = scens
      BY <2>4 DEF Tables
    <3>2. Len(scens) \in Nat
      BY <2>3, TableIs DEF ScensOK
    <3> QED BY <2>3, <3>1, <3>2, ScenRequests DEF ScenTx
  <2>6. ASSUME NEW d \in Clients PROVE tx'[d] = NoTx \/ ScenTx(tx'[d])
    <3>1. tx'[d] = IF d = c THEN t ELSE tx[d]
      BY <2>2, <2>4 DEF SeasonTyped
    <3> QED BY <2>5, <3>1 DEF ScenInv
  <2> QED BY <2>3, <2>6 DEF ScenInv, ScenTx, ScensOK, IsScen
<1>2. CASE \E c \in Clients : ReadAgain(c)
  <2>1. PICK c \in Clients : ReadAgain(c)
    BY <1>2
  <2>2. UNCHANGED scens /\ ScensOK(scens)
    BY <2>1 DEF ReadAgain, db, ScenInv
  <2>3. PICK t : t = tx[c]
    OBVIOUS
  <2>4. TxOK(t) /\ ScenTx(t)
    BY <2>1, <2>3 DEF ReadAgain, SeasonTyped, ScenInv, NoTx
  <2>5. PICK u : u = [t EXCEPT !.stage = "ready",
                               !.seen = IF t.req.kind = "apply"
                                        THEN [t.seen EXCEPT !.pool = pool]
                                        ELSE [t.seen EXCEPT !.scens = scens]]
    OBVIOUS
  <2>6. tx' = [tx EXCEPT ![c] = u]
    BY <2>1, <2>3, <2>5 DEF ReadAgain, SeasonTyped
  <2>7. ScenTx(u)
    <3>1. DOMAIN t.seen = TableNames /\ DOMAIN t = {"stage", "req", "seen", "now", "quiet"}
      BY <2>4 DEF TxOK, SnapshotOK, SeenOK
    <3>2. /\ u.req = t.req
          /\ u.seen.scens = IF t.req.kind = "apply" THEN t.seen.scens ELSE scens
      BY <2>5, <3>1 DEF TableNames
    <3>3. Len(scens) \in Nat
      BY <2>2, TableIs DEF ScensOK
    <3> QED BY <2>2, <2>4, <3>2, <3>3 DEF ScenTx
  <2>8. ASSUME NEW d \in Clients PROVE tx'[d] = NoTx \/ ScenTx(tx'[d])
    <3>1. tx'[d] = IF d = c THEN u ELSE tx[d]
      BY <2>6 DEF SeasonTyped
    <3> QED BY <2>7, <3>1 DEF ScenInv
  <2> QED BY <2>2, <2>8 DEF ScenInv, ScenTx, ScensOK, IsScen
<1>3. CASE \E c \in Clients : Commit(c)
  <2>1. PICK c \in Clients : Commit(c)
    BY <1>3
  <2>2. ScensOK(scens') /\ Len(scens) <= Len(scens') /\ ScensOK(scens)
    BY <2>1, CommitScens DEF ScenInv
  <2>3. ASSUME NEW d \in Clients, tx'[d] # NoTx PROVE \E u : tx'[d] = u /\ ScenTx(u)'
    <3>1. /\ tx[d] # NoTx
          /\ tx'[d] = tx[d] \/ tx'[d] = [tx[d] EXCEPT !.quiet = FALSE]
      BY <2>1, <2>3 DEF Commit, Finished
    <3>2. PICK v : v = tx[d]
      OBVIOUS
    <3>3. PICK u : u = tx'[d]
      OBVIOUS
    <3>4. TxOK(v) /\ ScenTx(v)
      BY <3>1, <3>2 DEF SeasonTyped, ScenInv
    <3>5. u.req = v.req /\ u.seen = v.seen
      BY <3>1, <3>2, <3>3, <3>4 DEF TxOK
    <3>6. ScenTx(u)
      BY <3>4, <3>5 DEF ScenTx
    <3> QED BY <2>2, <3>3, <3>6, ScenTxStays
  <2>4. \A d \in Clients : (tx[d] = NoTx \/ ScenTx(tx[d]))'
    BY <2>3
  <2>5. ScensOK(scens)'
    BY <2>2 DEF ScensOK, IsScen
  <2> QED BY <2>4, <2>5 DEF ScenInv
<1>4. CASE \/ \E c \in Clients : Fail(c) \/ Listed(c)
           \/ TurnVeto \/ Tick \/ UNCHANGED vars
  <2>1. UNCHANGED scens
    BY <1>4 DEF Fail, Listed, TurnVeto, Tick, vars, db
  <2>2. \A d \in Clients : tx'[d] = NoTx \/ tx'[d] = tx[d]
    BY <1>4 DEF Fail, Listed, TurnVeto, Tick, vars, SeasonTyped
  <2>3. ASSUME NEW d \in Clients, tx'[d] # NoTx PROVE \E u : tx'[d] = u /\ ScenTx(u)'
    <3>1. PICK u : u = tx'[d]
      OBVIOUS
    <3>2. ScenTx(u)
      BY <2>2, <2>3, <3>1 DEF ScenInv
    <3>3. ScenTx(u)'
      BY <2>1, <3>2 DEF ScenTx, ScensOK, IsScen
    <3> QED BY <3>1, <3>3
  <2>4. \A d \in Clients : (tx[d] = NoTx \/ ScenTx(tx[d]))'
    BY <2>3
  <2>5. ScensOK(scens)'
    BY <2>1 DEF ScenInv, ScensOK, IsScen
  <2> QED BY <2>4, <2>5 DEF ScenInv
<1> QED BY <1>1, <1>2, <1>3, <1>4 DEF Next

QuietScens(c) ==
    scens' = Upload(Tables, tx[c].req.plan, tx[c].req.items, tx[c].now).scens

LEMMA QuietScensAre ==
  ASSUME SeasonTyped, ScenInv, NEW c \in Clients, Commit(c),
         tx[c].req.kind = "upload", tx[c].quiet
  PROVE  QuietScens(c)
<1>1. PICK t : t = tx[c]
  OBVIOUS
<1>2. TxOK(t) /\ t.seen = Tables /\ t.seen.scens = scens
  BY <1>1 DEF Commit, SeasonTyped, NoTx, TxOK, Tables
<1>3. Effect(t) = Upload(Tables, t.req.plan, t.req.items, t.now)
  BY <1>1, <1>2 DEF Effect
<1>4. PICK e : e = Effect(t)
  OBVIOUS
<1>5. /\ scens' = Rows(scens, scens, e.scens) /\ Grown(scens, e.scens)
  BY <1>1, <1>2, <1>4, CommitScens
<1>6. scens' = e.scens
  BY <1>5, WritesAllScens DEF ScenInv
<1> QED BY <1>1, <1>3, <1>4, <1>6 DEF QuietScens

-----------------------------------------------------------------------------
(* An upload that names no row twice: each item meets the rows it names as *)
(* they were at the start                                                  *)

\* What item "item" does to the rows Z.
Touches(s, a, plan, item, b, Z) ==
    /\ Z \subseteq Alive(s.pool, plan)
    /\ \A z \in Z : Claims(item, s.pool[z]) /\ a.pool[z] = s.pool[z]
    /\ DOMAIN a.pool \subseteq DOMAIN b.pool
    /\ \A i \in DOMAIN a.pool \ Z : b.pool[i] = a.pool[i]
    /\ \A i \in DOMAIN b.pool \ DOMAIN a.pool : b.pool[i].body = item.body
    /\ \A i \in Z : b.pool[i].live => b.pool[i].body = item.body

\* The row w has taken the place of the row i.
Stands(s, a, plan, i, w) ==
    /\ w \in Alive(a.pool, plan)
    /\ w = i \/ (~a.pool[i].live /\ Identity[s.pool[i].url] # NoIdentity
                 /\ Identity[a.pool[w].url] = Identity[s.pool[i].url])
    /\ s.pool[i].status # "undecided" => a.pool[w].status # "undecided"
    /\ s.pool[i].note # Null => a.pool[w].note # Null
    /\ a.pool[w].first <= s.pool[i].first
    /\ \A r \in Alive(s.scens, plan) : i \in s.scens[r].members => w \in a.scens[r].members

\* The scenarios but for the members Z of those of the plan.
Casts(a, plan, b, Z) ==
    /\ ScensOK(b.scens) /\ DOMAIN b.scens = DOMAIN a.scens
    /\ \A r \in DOMAIN a.scens :
          /\ b.scens[r].live = a.scens[r].live /\ b.scens[r].plan = a.scens[r].plan
          /\ r \notin Alive(a.scens, plan) => b.scens[r].members = a.scens[r].members
          /\ \A i \in a.scens[r].members \ Z : i \in b.scens[r].members

\* The maps but for what the item names.
Guides(a, plan, item, b, Z) ==
    /\ DOMAIN b.byKey = DOMAIN a.byKey
    /\ \A k \in DOMAIN a.byKey :
          k # item.key /\ (\A z \in Z : a.pool[z].key # k) => b.byKey[k] = a.byKey[k]
    /\ \A d \in Ids : d # Identity[item.url] => b.byId[d] = a.byId[d]

Holding(row, item) ==
    /\ row.key = item.key /\ row.url = item.url /\ row.body = item.body
    /\ item.enr = Null \/ row.enr = item.enr

\* An item taken in.
Taken(s, a, plan, item, b, Z) ==
    /\ Touches(s, a, plan, item, b, Z) /\ Casts(a, plan, b, Z) /\ Guides(a, plan, item, b, Z)
    /\ \A i \in Z : \E w \in Z : Stands(a, b, plan, i, w)
    /\ \E r \in Alive(b.pool, plan) :
          Holding(b.pool[r], item) /\ (r \in Z \/ r \notin DOMAIN a.pool)

LEMMA CreatingTakes ==
  ASSUME NEW s, NEW plan, NEW now, NEW a, AccOK(a, plan), ScensOK(a.scens), NEW item,
         NEW b, Created(a, item, plan, now, b)
  PROVE  Taken(s, a, plan, item, b, {})
<1> DEFINE fresh == Len(a.pool) + 1
           new == Candidate(plan, item, now)
<1>1. /\ DOMAIN b.pool = DOMAIN a.pool \cup {fresh} /\ fresh \notin DOMAIN a.pool
      /\ \A i \in DOMAIN a.pool : b.pool[i] = a.pool[i]
      /\ b.pool[fresh] = new
  <2>1. Table(a.pool) /\ b.pool = Append(a.pool, new)
    BY DEF AccOK, PoolOK, Created
  <2> HIDE DEF new
  <2> QED BY <2>1, AppendJoins
<1>2. /\ new.plan = plan /\ new.live /\ new.key = item.key /\ new.url = item.url
      /\ new.body = item.body /\ new.enr = item.enr
  BY DEF Candidate
<1>3. b.scens = a.scens
  BY DEF Created
<1> HIDE DEF new, fresh
<1>4. Touches(s, a, plan, item, b, {})
  BY <1>1, <1>2 DEF Touches
<1>5. Casts(a, plan, b, {})
  BY <1>3 DEF Casts
<1>6. Guides(a, plan, item, b, {})
  BY DEF Guides, Created
<1>7. fresh \in Alive(b.pool, plan) /\ Holding(b.pool[fresh], item) /\ fresh \notin DOMAIN a.pool
  BY <1>1, <1>2 DEF Alive, Holding
<1> QED BY <1>4, <1>5, <1>6, <1>7 DEF Taken

LEMMA UpdatingTakes ==
  ASSUME NEW s, NEW plan, NEW now, NEW a, AccOK(a, plan), ScensOK(a.scens),
         NEW item, ItemOK(a, item), NEW b, AccOK(b, plan),
         NEW row \in DOMAIN a.pool, Updated(a, item, plan, now, row, b),
         NEW Z, Z = Twins(a, item) \cup {row}, Z \subseteq Alive(s.pool, plan),
         \A z \in Z : Claims(item, s.pool[z]) /\ a.pool[z] = s.pool[z],
         \A z \in Twins(a, item) : Identity[a.pool[z].url] = Identity[item.url],
         a.byKey[item.key] # 0 => a.pool[row].key = item.key
  PROVE  Taken(s, a, plan, item, b, Z)
<1> DEFINE losers == Twins(a, item) \ {row}
           firsts == {a.pool[l].first : l \in losers \cup {row}}
           decided == {l \in losers : a.pool[l].status # "undecided"}
           noted == {l \in losers : a.pool[l].note # Null}
           w == b.pool[row]
           old == a.pool[row]
<1>1. /\ DOMAIN b.pool = DOMAIN a.pool
      /\ \A i \in DOMAIN a.pool \ (losers \cup {row}) : b.pool[i] = a.pool[i]
      /\ b.scens = Rewrite(a.scens, plan, row, losers) /\ Absorbed(a, item, row, now, w)
      /\ losers \subseteq Members(a.pool, plan) /\ row \in Members(a.pool, plan)
      /\ b.byId = a.byId /\ DOMAIN b.byKey = DOMAIN a.byKey
      /\ \A k \in DOMAIN a.byKey :
            b.byKey[k] = IF k \in {a.pool[l].key : l \in losers} THEN 0
                         ELSE IF k = item.key THEN row ELSE a.byKey[k]
  BY DEF Updated
<1>2. Z = losers \cup {row}
  OBVIOUS
<1>3. ASSUME NEW l \in losers
      PROVE  /\ ~b.pool[l].live /\ l \in DOMAIN a.pool /\ a.pool[l].live
             /\ Identity[item.url] # NoIdentity
  <2>1. l \in DOMAIN a.pool /\ b.pool[l] = [a.pool[l] EXCEPT !.live = FALSE, !.version = @ + 1]
    BY TwinsAre DEF Updated
  <2>2. CandidateOK(a.pool[l])
    BY <2>1 DEF AccOK, PoolOK
  <2>3. PICK r, v : r = b.pool[l] /\ v = a.pool[l]
    OBVIOUS
  <2>4. CandidateOK(v) /\ r = [v EXCEPT !.live = FALSE, !.version = @ + 1]
    BY <2>1, <2>2, <2>3
  <2>5. r.live = FALSE
    BY <2>4, RetiredIs
  <2>6. a.pool[l].live /\ Identity[item.url] # NoIdentity
    BY DEF Twins
  <2> QED BY <2>1, <2>3, <2>5, <2>6
<1>4. w.plan = plan /\ w.live
  <2>1. row \in Alive(s.pool, plan) /\ a.pool[row] = s.pool[row]
    BY <1>2
  <2> QED BY <1>1, <2>1 DEF Absorbed, Alive
<1>5. Least(firsts) \in firsts /\ \A n \in firsts : Least(firsts) <= n
  <2>1. firsts \in SUBSET Nat /\ firsts # {}
    BY <1>3 DEF AccOK, PoolOK, CandidateOK
  <2> HIDE DEF firsts
  <2> QED BY <2>1, LeastIs
<1>6. \A i \in Z : w.first <= a.pool[i].first
  <2>1. w.first = Least(firsts)
    BY <1>1 DEF Absorbed
  <2>2. \A i \in Z : a.pool[i].first \in firsts
    BY <1>2
  <2> QED BY <1>5, <2>1, <2>2
<1>7. Rewritten(a.scens, plan, row, losers, b.scens)
  BY <1>1, RewriteIs
<1>8. \A i \in Z : a.pool[i].status # "undecided" => w.status # "undecided"
  <2>1. w.status = IF old.status = "undecided" /\ decided # {}
                   THEN a.pool[Least(decided)].status ELSE old.status
    BY <1>1 DEF Absorbed
  <2>2. decided # {} => a.pool[Least(decided)].status # "undecided"
    <3>1. decided \subseteq DOMAIN a.pool /\ DOMAIN a.pool \subseteq Nat
      BY <1>3, TwinsAre
    <3>2. decided # {} => Least(decided) \in decided
      <4> HIDE DEF decided
      <4> QED BY <3>1, LeastIs
    <3> QED BY <3>2
  <2>3. \A i \in losers : a.pool[i].status # "undecided" => decided # {}
    OBVIOUS
  <2> HIDE DEF decided, w, losers
  <2> QED BY <1>2, <2>1, <2>2, <2>3
<1>9. \A i \in Z : a.pool[i].note # Null => w.note # Null
  <2>1. w.note = IF old.note = Null /\ noted # {}
                 THEN a.pool[Least(noted)].note ELSE old.note
    BY <1>1 DEF Absorbed
  <2>2. noted # {} => a.pool[Least(noted)].note # Null
    <3>1. noted \subseteq DOMAIN a.pool /\ DOMAIN a.pool \subseteq Nat
      BY <1>3, TwinsAre
    <3>2. noted # {} => Least(noted) \in noted
      <4> HIDE DEF noted
      <4> QED BY <3>1, LeastIs
    <3> QED BY <3>2
  <2>3. \A i \in losers : a.pool[i].note # Null => noted # {}
    OBVIOUS
  <2> HIDE DEF noted, w, losers
  <2> QED BY <1>2, <2>1, <2>2, <2>3
<1>10. /\ w.url = item.url /\ w.body = item.body /\ (item.enr = Null \/ w.enr = item.enr)
       /\ w.key = item.key
  BY <1>1 DEF Absorbed
<1>11. \A l \in losers : Identity[a.pool[l].url] = Identity[item.url]
  OBVIOUS
<1>12. losers = {} \/ losers # {}
  OBVIOUS
<1> HIDE DEF losers, firsts, decided, noted, w, old
<1>13. Touches(s, a, plan, item, b, Z)
  BY <1>1, <1>2, <1>3, <1>10 DEF Touches, w
<1>14. ASSUME NEW r \in DOMAIN a.scens
       PROVE  /\ b.scens[r].live = a.scens[r].live /\ b.scens[r].plan = a.scens[r].plan
              /\ r \notin Alive(a.scens, plan) => b.scens[r].members = a.scens[r].members
              /\ \A i \in a.scens[r].members \ losers : i \in b.scens[r].members
              /\ r \in Alive(a.scens, plan) => \A i \in a.scens[r].members \cap losers :
                    row \in b.scens[r].members
  BY <1>7 DEF Rewritten
<1>15. Casts(a, plan, b, Z)
  BY <1>2, <1>7, <1>14 DEF Casts, Rewritten
<1>16. Guides(a, plan, item, b, Z)
  BY <1>1, <1>2 DEF Guides
<1>17. row \in Alive(b.pool, plan)
  BY <1>1, <1>4 DEF Alive, w
<1>18. ASSUME NEW i \in Z PROVE Stands(a, b, plan, i, row)
  <2>1. row = i \/ (~b.pool[i].live /\ Identity[a.pool[i].url] # NoIdentity
                     /\ Identity[b.pool[row].url] = Identity[a.pool[i].url])
    BY <1>2, <1>3, <1>10, <1>11 DEF w
  <2>2. \A r \in Alive(a.scens, plan) : i \in a.scens[r].members => row \in b.scens[r].members
    <3>1. \A r \in Alive(a.scens, plan) : r \in DOMAIN a.scens
      BY DEF Alive
    <3>2. row \notin losers
      BY DEF losers
    <3> QED BY <1>2, <1>14, <3>1, <3>2
  <2> QED BY <1>6, <1>8, <1>9, <1>17, <2>1, <2>2 DEF Stands, w
<1>19. Holding(b.pool[row], item)
  BY <1>10 DEF Holding, w
<1> QED BY <1>2, <1>13, <1>15, <1>16, <1>17, <1>18, <1>19 DEF Taken

\* Has the item m named the row i?
Single(s, plan, todo) ==
    \A i \in Alive(s.pool, plan) : \A m, n \in DOMAIN todo :
        Claims(todo[m], s.pool[i]) /\ Claims(todo[n], s.pool[i]) => m = n

Named(s, todo, n, i) == \E m \in 1 .. n : Claims(todo[m], s.pool[i])

KeepsMaps(s, a, plan, todo, n) ==
    /\ DOMAIN a.byKey = DOMAIN s.byKey
    /\ \A d \in Ids : (\A m \in 1 .. n : Identity[todo[m].url] # d) => a.byId[d] = s.byId[d]
    /\ \A k \in DOMAIN s.byKey :
          /\ \A m \in 1 .. n : todo[m].key # k
          /\ \A i \in Alive(s.pool, plan) : s.pool[i].key = k => ~Named(s, todo, n, i)
          => a.byKey[k] = s.byKey[k]

\* What no item has named is as it was.
KeepsRows(s, a, plan, todo, n) ==
    /\ DOMAIN s.pool \subseteq DOMAIN a.pool
    /\ \A i \in DOMAIN s.pool :
          (i \in Alive(s.pool, plan) => ~Named(s, todo, n, i)) => a.pool[i] = s.pool[i]
    /\ \A i \in Alive(a.pool, plan) : ~Vetoed(a.pool[i])

KeepsScens(s, a, plan, todo, n) ==
    /\ ScensOK(a.scens) /\ DOMAIN a.scens = DOMAIN s.scens
    /\ \A r \in DOMAIN s.scens :
          /\ a.scens[r].live = s.scens[r].live /\ a.scens[r].plan = s.scens[r].plan
          /\ r \notin Alive(s.scens, plan) => a.scens[r].members = s.scens[r].members
          /\ \A i \in Alive(s.pool, plan) :
                i \in s.scens[r].members /\ ~Named(s, todo, n, i) => i \in a.scens[r].members

\* What one has named has a row that stands for it.
KeepsPlaces(s, a, plan, todo, n) ==
    \A i \in Alive(s.pool, plan) : Named(s, todo, n, i) =>
        \E w \in Alive(s.pool, plan) : Named(s, todo, n, w) /\ Stands(s, a, plan, i, w)

\* Each item has its row.
KeepsItems(s, a, plan, todo, n) ==
    \A m \in 1 .. n : \E r \in Alive(a.pool, plan) :
        /\ Holding(a.pool[r], todo[m])
        /\ r \in DOMAIN s.pool => r \in Alive(s.pool, plan) /\ Claims(todo[m], s.pool[r])

Keeps(s, a, plan, todo, n) ==
    /\ KeepsMaps(s, a, plan, todo, n) /\ KeepsRows(s, a, plan, todo, n)
    /\ KeepsScens(s, a, plan, todo, n) /\ KeepsPlaces(s, a, plan, todo, n)
    /\ KeepsItems(s, a, plan, todo, n)

\* Naming: the next item names what none before it has.
LEMMA NamedNext ==
  ASSUME NEW s, NEW plan, NEW todo, Single(s, plan, todo), NEW n \in Nat,
         n + 1 \in DOMAIN todo, 1 .. n \subseteq DOMAIN todo, NEW i \in Alive(s.pool, plan)
  PROVE  /\ Claims(todo[n + 1], s.pool[i]) => ~Named(s, todo, n, i)
         /\ Named(s, todo, n + 1, i) <=>
               Named(s, todo, n, i) \/ Claims(todo[n + 1], s.pool[i])
<1>1. ASSUME Claims(todo[n + 1], s.pool[i]), NEW m \in 1 .. n, Claims(todo[m], s.pool[i])
      PROVE  FALSE
  <2>1. m \in DOMAIN todo /\ m # n + 1
    OBVIOUS
  <2> QED BY <1>1, <2>1 DEF Single
<1>2. \A m : m \in 1 .. n + 1 <=> m \in 1 .. n \/ m = n + 1
  OBVIOUS
<1> QED BY <1>1, <1>2 DEF Named

LEMMA TakenKeeps ==
  ASSUME NEW s, PoolOK(s.pool), NEW plan, NEW todo, Single(s, plan, todo), NEW n \in Nat,
         n + 1 \in DOMAIN todo, 1 .. n \subseteq DOMAIN todo,
         NEW a, Keeps(s, a, plan, todo, n), NEW item, item = todo[n + 1], ~Vetoed(item),
         NEW b, NEW Z, Taken(s, a, plan, item, b, Z)
  PROVE  Keeps(s, b, plan, todo, n + 1)
<1> DEFINE stock == Alive(s.pool, plan)
<1>1. \A i \in stock : /\ Claims(item, s.pool[i]) => ~Named(s, todo, n, i)
                       /\ Named(s, todo, n + 1, i) <=>
                             Named(s, todo, n, i) \/ Claims(item, s.pool[i])
  BY NamedNext
<1>2. /\ Z \subseteq stock
      /\ \A z \in Z : /\ Claims(item, s.pool[z]) /\ a.pool[z] = s.pool[z]
                      /\ ~Named(s, todo, n, z) /\ Named(s, todo, n + 1, z)
  BY <1>1 DEF Taken, Touches
<1>3. 1 .. n \subseteq 1 .. n + 1 /\ n + 1 \in 1 .. n + 1
      /\ \A m \in 1 .. n + 1 : m \in 1 .. n \/ m = n + 1
  OBVIOUS
<1>4. /\ \A d \in Ids : d # Identity[item.url] => b.byId[d] = a.byId[d]
      /\ DOMAIN b.byKey = DOMAIN a.byKey
      /\ \A k \in DOMAIN a.byKey :
          k # item.key /\ (\A z \in Z : a.pool[z].key # k) => b.byKey[k] = a.byKey[k]
  BY DEF Taken, Guides
<1>5. /\ DOMAIN a.pool \subseteq DOMAIN b.pool
      /\ \A i \in DOMAIN a.pool \ Z : b.pool[i] = a.pool[i]
      /\ \A i \in DOMAIN b.pool \ DOMAIN a.pool : b.pool[i].body = item.body
      /\ \A i \in Z : b.pool[i].live => b.pool[i].body = item.body
  BY DEF Taken, Touches
<1>6. /\ ScensOK(b.scens) /\ DOMAIN b.scens = DOMAIN a.scens
      /\ \A r \in DOMAIN a.scens :
          /\ b.scens[r].live = a.scens[r].live /\ b.scens[r].plan = a.scens[r].plan
          /\ r \notin Alive(a.scens, plan) => b.scens[r].members = a.scens[r].members
          /\ \A i \in a.scens[r].members \ Z : i \in b.scens[r].members
  BY DEF Taken, Casts
<1>7. DOMAIN s.pool \subseteq DOMAIN a.pool /\ stock \subseteq DOMAIN s.pool
  BY DEF Keeps, KeepsRows, Alive
<1>8. Alive(a.scens, plan) = Alive(s.scens, plan)
  BY DEF Alive, Keeps, KeepsScens
<1>9. KeepsMaps(s, b, plan, todo, n + 1)
  <2>1. ASSUME NEW d \in Ids, \A m \in 1 .. n + 1 : Identity[todo[m].url] # d
        PROVE  b.byId[d] = s.byId[d]
    <3>1. a.byId[d] = s.byId[d]
      BY <1>3, <2>1 DEF Keeps, KeepsMaps
    <3>2. d # Identity[item.url]
      BY <1>3, <2>1
    <3> QED BY <1>4, <3>1, <3>2
  <2>2. ASSUME NEW k \in DOMAIN s.byKey, \A m \in 1 .. n + 1 : todo[m].key # k,
               \A i \in stock : s.pool[i].key = k => ~Named(s, todo, n + 1, i)
        PROVE  b.byKey[k] = s.byKey[k]
    <3>1. \A i \in stock : s.pool[i].key = k => ~Named(s, todo, n, i)
      BY <1>1, <2>2
    <3>2. a.byKey[k] = s.byKey[k] /\ k \in DOMAIN a.byKey
      BY <1>3, <2>2, <3>1 DEF Keeps, KeepsMaps
    <3>3. k # item.key /\ \A z \in Z : a.pool[z].key # k
      BY <1>2, <1>3, <2>2
    <3> QED BY <1>4, <3>2, <3>3
  <2> QED BY <1>4, <2>1, <2>2 DEF Keeps, KeepsMaps
<1>10. KeepsRows(s, b, plan, todo, n + 1)
  <2>1. ASSUME NEW i \in DOMAIN s.pool, i \in stock => ~Named(s, todo, n + 1, i)
        PROVE  b.pool[i] = s.pool[i]
    <3>1. i \notin Z /\ (i \in stock => ~Named(s, todo, n, i))
      BY <1>1, <1>2, <2>1
    <3>2. a.pool[i] = s.pool[i]
      BY <3>1 DEF Keeps, KeepsRows
    <3> QED BY <1>5, <1>7, <3>1, <3>2
  <2>2. ASSUME NEW i \in Alive(b.pool, plan) PROVE ~Vetoed(b.pool[i])
    <3>1. CASE i \in DOMAIN a.pool \ Z
      <4>1. i \in Alive(a.pool, plan) /\ b.pool[i] = a.pool[i]
        BY <1>5, <3>1 DEF Alive
      <4> QED BY <4>1 DEF Keeps, KeepsRows
    <3>2. CASE i \in Z \/ i \notin DOMAIN a.pool
      <4>1. b.pool[i].body = item.body
        BY <1>5, <3>2 DEF Alive
      <4> QED BY <4>1 DEF Vetoed
    <3> QED BY <3>1, <3>2
  <2> QED BY <1>5, <1>7, <2>1, <2>2 DEF KeepsRows
<1>11. KeepsScens(s, b, plan, todo, n + 1)
  <2> SUFFICES ASSUME NEW r \in DOMAIN s.scens
               PROVE  /\ b.scens[r].live = s.scens[r].live /\ b.scens[r].plan = s.scens[r].plan
                      /\ r \notin Alive(s.scens, plan) => b.scens[r].members = s.scens[r].members
                      /\ \A i \in stock : i \in s.scens[r].members /\ ~Named(s, todo, n + 1, i)
                                          => i \in b.scens[r].members
    BY <1>6 DEF Keeps, KeepsScens
  <2>1. /\ r \in DOMAIN a.scens
        /\ a.scens[r].live = s.scens[r].live /\ a.scens[r].plan = s.scens[r].plan
        /\ r \notin Alive(s.scens, plan) => a.scens[r].members = s.scens[r].members
        /\ \A i \in stock : i \in s.scens[r].members /\ ~Named(s, todo, n, i)
                            => i \in a.scens[r].members
    BY DEF Keeps, KeepsScens
  <2>2. ASSUME NEW i \in stock, i \in s.scens[r].members, ~Named(s, todo, n + 1, i)
        PROVE  i \in b.scens[r].members
    <3>1. i \notin Z /\ i \in a.scens[r].members
      BY <1>1, <1>2, <2>1, <2>2
    <3> QED BY <1>6, <2>1, <3>1
  <2> QED BY <1>6, <1>8, <2>1, <2>2
<1>12. KeepsPlaces(s, b, plan, todo, n + 1)
  <2> SUFFICES ASSUME NEW i \in stock, Named(s, todo, n + 1, i)
               PROVE  \E w \in stock : Named(s, todo, n + 1, w) /\ Stands(s, b, plan, i, w)
    BY DEF KeepsPlaces
  <2>1. CASE Named(s, todo, n, i)
    <3>1. PICK w \in stock : Named(s, todo, n, w) /\ Stands(s, a, plan, i, w)
      BY <2>1 DEF Keeps, KeepsPlaces
    <3>2. i \notin Z /\ w \notin Z /\ b.pool[i] = a.pool[i] /\ b.pool[w] = a.pool[w]
      BY <1>2, <1>5, <1>7, <2>1, <3>1
    <3>3. w \in Alive(b.pool, plan)
      BY <1>5, <1>7, <3>1, <3>2 DEF Stands, Alive
    <3>4. \A r \in Alive(s.scens, plan) : i \in s.scens[r].members => w \in b.scens[r].members
      BY <1>6, <1>8, <3>1, <3>2 DEF Stands, Alive
    <3>5. Stands(s, b, plan, i, w)
      BY <3>1, <3>2, <3>3, <3>4 DEF Stands
    <3> QED BY <1>1, <3>1, <3>5
  <2>2. CASE ~Named(s, todo, n, i) /\ i \in Z
    <3>1. PICK w \in Z : Stands(a, b, plan, i, w)
      BY <2>2 DEF Taken
    <3>2. a.pool[i] = s.pool[i] /\ w \in stock /\ Named(s, todo, n + 1, w)
      BY <1>2, <2>2
    <3>3. \A r \in Alive(s.scens, plan) : i \in s.scens[r].members => i \in a.scens[r].members
      BY <2>2 DEF Keeps, KeepsScens, Alive
    <3>4. Stands(s, b, plan, i, w)
      BY <1>8, <3>1, <3>2, <3>3 DEF Stands
    <3> QED BY <3>2, <3>4
  <2>3. CASE ~Named(s, todo, n, i) /\ i \notin Z
    <3>1. b.pool[i] = s.pool[i] /\ i \in DOMAIN b.pool
      BY <1>5, <1>7, <2>3 DEF Keeps, KeepsRows
    <3>2. i \in Alive(b.pool, plan)
      BY <3>1 DEF Alive
    <3>3. \A r \in Alive(s.scens, plan) : i \in s.scens[r].members => i \in a.scens[r].members
      BY <2>3 DEF Keeps, KeepsScens, Alive
    <3>4. \A r \in Alive(s.scens, plan) : i \in s.scens[r].members => i \in b.scens[r].members
      BY <1>6, <1>8, <2>3, <3>3 DEF Alive
    <3>5. b.pool[i].first <= s.pool[i].first
      <4>1. s.pool[i].first \in Nat
        BY <1>7 DEF PoolOK, CandidateOK
      <4> QED BY <3>1, <4>1
    <3>6. Stands(s, b, plan, i, i)
      BY <3>1, <3>2, <3>4, <3>5 DEF Stands
    <3> QED BY <3>6
  <2> QED BY <2>1, <2>2, <2>3
<1>13. KeepsItems(s, b, plan, todo, n + 1)
  <2> SUFFICES ASSUME NEW m \in 1 .. n + 1
               PROVE  \E r \in Alive(b.pool, plan) :
                        /\ Holding(b.pool[r], todo[m])
                        /\ r \in DOMAIN s.pool => r \in stock /\ Claims(todo[m], s.pool[r])
    BY DEF KeepsItems
  <2>1. CASE m = n + 1
    <3>1. PICK r \in Alive(b.pool, plan) :
            Holding(b.pool[r], item) /\ (r \in Z \/ r \notin DOMAIN a.pool)
      BY DEF Taken
    <3> QED BY <1>2, <1>7, <2>1, <3>1
  <2>2. CASE m \in 1 .. n
    <3>1. PICK r \in Alive(a.pool, plan) :
            /\ Holding(a.pool[r], todo[m])
            /\ r \in DOMAIN s.pool => r \in stock /\ Claims(todo[m], s.pool[r])
      BY <2>2 DEF Keeps, KeepsItems
    <3>2. r \notin Z
      BY <1>2, <1>7, <2>2, <3>1 DEF Named
    <3>3. r \in Alive(b.pool, plan) /\ b.pool[r] = a.pool[r]
      BY <1>5, <3>1, <3>2 DEF Alive
    <3> QED BY <3>1, <3>3
  <2> QED BY <1>3, <2>1, <2>2
<1> QED BY <1>9, <1>10, <1>11, <1>12, <1>13 DEF Keeps

\* The next item meets the rows it names as the maps of the start say.
LEMMA IngestTakes ==
  ASSUME NEW seen, NEW plan, NEW items, NEW s, MappedOK(seen, plan, items, s),
         NEW todo, CollapsedOK(items, todo), Single(s, plan, todo), NEW n \in Nat,
         n + 1 \in DOMAIN todo, 1 .. n \subseteq DOMAIN todo,
         NEW a, AccOK(a, plan), Keeps(s, a, plan, todo, n),
         NEW item, item = todo[n + 1], ItemOK(a, item),
         NEW now, NEW b, Ingested(a, item, plan, now, b)
  PROVE  \E Z : Taken(s, a, plan, item, b, Z)
<1> DEFINE stock == Alive(s.pool, plan)
           id == Identity[item.url]
<1>1. ScensOK(a.scens) /\ AccOK(b, plan)
  BY DEF Keeps, KeepsScens, Ingested
<1>2. \A i \in stock : Claims(item, s.pool[i]) => ~Named(s, todo, n, i) /\ a.pool[i] = s.pool[i]
  <2> SUFFICES ASSUME NEW i \in stock, Claims(item, s.pool[i])
               PROVE  ~Named(s, todo, n, i) /\ a.pool[i] = s.pool[i]
    OBVIOUS
  <2>1. ~Named(s, todo, n, i)
    BY NamedNext
  <2>2. i \in DOMAIN s.pool
    BY DEF Alive
  <2> QED BY <2>1, <2>2 DEF Keeps, KeepsRows
<1>3. \A m \in 1 .. n : todo[m].key # item.key /\ (id # NoIdentity => Identity[todo[m].url] # id)
  <2>1. \A m \in 1 .. n : m \in DOMAIN todo /\ m # n + 1
    OBVIOUS
  <2> QED BY <2>1 DEF CollapsedOK
<1>4. \A t \in Twins(a, item) : /\ t \in stock /\ Identity[s.pool[t].url] = id
                                /\ Claims(item, s.pool[t]) /\ a.pool[t] = s.pool[t]
  <2> SUFFICES ASSUME NEW t \in Twins(a, item)
               PROVE  t \in stock /\ Identity[s.pool[t].url] = id /\ Claims(item, s.pool[t])
    BY <1>2
  <2>1. id # NoIdentity /\ t \in a.byId[id] /\ id \in Ids
    BY DEF Twins, Ids, ItemOK
  <2>2. a.byId[id] = s.byId[id]
    BY <1>3, <2>1 DEF Keeps, KeepsMaps
  <2>3. t \in stock /\ Identity[s.pool[t].url] = id
    BY <2>1, <2>2 DEF MappedOK
  <2> QED BY <2>1, <2>3 DEF Claims
<1>5. ASSUME a.byKey[item.key] # 0
      PROVE  /\ a.byKey[item.key] \in stock /\ s.pool[a.byKey[item.key]].key = item.key
             /\ a.pool[a.byKey[item.key]] = s.pool[a.byKey[item.key]]
             /\ Claims(item, s.pool[a.byKey[item.key]])
  <2>1. item.key \in DOMAIN s.byKey
    BY DEF ItemOK, Keeps, KeepsMaps
  <2>2. \A i \in stock : s.pool[i].key = item.key => ~Named(s, todo, n, i)
    BY <1>2 DEF Claims
  <2>3. a.byKey[item.key] = s.byKey[item.key]
    BY <1>3, <2>1, <2>2 DEF Keeps, KeepsMaps
  <2>4. s.byKey[item.key] \in stock /\ s.pool[s.byKey[item.key]].key = item.key
    BY <1>5, <2>1, <2>3 DEF MappedOK
  <2> QED BY <1>2, <2>3, <2>4 DEF Claims
<1>6. CASE Created(a, item, plan, now, b)
  <2>1. Taken(s, a, plan, item, b, {})
    BY <1>1, <1>6, CreatingTakes
  <2> QED BY <2>1
<1>7. CASE \E row \in DOMAIN a.pool : Updated(a, item, plan, now, row, b)
  <2>1. PICK row \in DOMAIN a.pool : Updated(a, item, plan, now, row, b)
    BY <1>7
  <2>2. IF a.byKey[item.key] = 0 THEN row \in Twins(a, item) ELSE row = a.byKey[item.key]
    BY <2>1 DEF Updated
  <2>3. PICK Z : Z = Twins(a, item) \cup {row}
    OBVIOUS
  <2>4. \A z \in Z : z \in stock /\ Claims(item, s.pool[z]) /\ a.pool[z] = s.pool[z]
    BY <1>4, <1>5, <2>2, <2>3
  <2>5. a.byKey[item.key] # 0 => a.pool[row].key = item.key
    BY <1>5, <2>2
  <2>6. \A z \in Twins(a, item) : Identity[a.pool[z].url] = Identity[item.url]
    BY <1>4
  <2>7. Z \subseteq stock
    BY <2>4
  <2>8. Taken(s, a, plan, item, b, Z)
    BY <1>1, <2>1, <2>3, <2>4, <2>5, <2>6, <2>7, UpdatingTakes
  <2> QED BY <2>8
<1> QED BY <1>6, <1>7 DEF Ingested

\* An upload keeps what it finds: its states, the first and the last of them.
Kept(seen, plan, items, now, s, a) ==
    /\ MappedOK(seen, plan, items, s) /\ AccOK(a, plan)
    /\ Keeps(s, a, plan, Collapsed(items), Len(Collapsed(items)))
    /\ Upload(seen, plan, items, now) = [seen EXCEPT !.pool = a.pool, !.scens = a.scens]

LEMMA ApartIsSingle ==
  ASSUME NEW seen, PoolOK(seen.pool), NEW plan, NEW items, Apart(seen.pool, plan, items),
         NEW s, MappedOK(seen, plan, items, s)
  PROVE  Single(s, plan, Collapsed(items))
<1> SUFFICES ASSUME NEW i \in Alive(s.pool, plan), NEW m \in DOMAIN Collapsed(items),
                    NEW n \in DOMAIN Collapsed(items),
                    Claims(Collapsed(items)[m], s.pool[i]), Claims(Collapsed(items)[n], s.pool[i])
             PROVE  m = n
  BY DEF Single
<1>1. PurgedOK(seen.pool, plan, s.pool)
  BY DEF MappedOK
<1>2. i \in DOMAIN seen.pool /\ s.pool[i].live /\ s.pool[i].plan = plan
      /\ s.pool[i] = seen.pool[i]
  BY <1>1 DEF PurgedOK, Alive
<1>3. i \in Alive(seen.pool, plan)
  BY <1>2 DEF Alive
<1>4. ~Vetoed(seen.pool[i])
  <2> SUFFICES ASSUME Vetoed(seen.pool[i]) PROVE FALSE
    OBVIOUS
  <2>1. PICK r, v : r = s.pool[i] /\ v = seen.pool[i]
    OBVIOUS
  <2>2. CandidateOK(v)
    BY <1>2, <2>1 DEF PoolOK
  <2>3. r = [v EXCEPT !.live = FALSE, !.version = @ + 1]
    BY <1>1, <1>2, <1>3, <2>1 DEF PurgedOK
  <2>4. r.live = FALSE
    BY <2>2, <2>3, RetiredIs
  <2> QED BY <1>2, <2>1, <2>4
<1> QED BY <1>2, <1>3, <1>4 DEF Apart

LEMMA StartKeeps ==
  ASSUME NEW seen, PoolOK(seen.pool), ScensOK(seen.scens), NEW plan, NEW items,
         NEW s, MappedOK(seen, plan, items, s), NEW todo
  PROVE  Keeps(s, s, plan, todo, 0)
<1>1. PurgedOK(seen.pool, plan, s.pool) /\ s.scens = seen.scens
  BY DEF MappedOK
<1>2. \A i : ~Named(s, todo, 0, i)
  BY DEF Named
<1>3. ASSUME NEW i \in Alive(s.pool, plan), Vetoed(s.pool[i]) PROVE FALSE
  <2>1. i \in DOMAIN seen.pool /\ s.pool[i].live /\ s.pool[i].plan = plan
        /\ s.pool[i] = seen.pool[i]
    BY <1>1 DEF PurgedOK, Alive
  <2>2. PICK r, v : r = s.pool[i] /\ v = seen.pool[i]
    OBVIOUS
  <2>3. CandidateOK(v)
    BY <2>1, <2>2 DEF PoolOK
  <2>4. i \in Alive(seen.pool, plan)
    BY <2>1 DEF Alive
  <2>5. r = [v EXCEPT !.live = FALSE, !.version = @ + 1]
    BY <1>1, <1>3, <2>1, <2>2, <2>4 DEF PurgedOK
  <2>6. r.live = FALSE
    BY <2>3, <2>5, RetiredIs
  <2> QED BY <2>1, <2>2, <2>6
<1>4. KeepsRows(s, s, plan, todo, 0)
  BY <1>3 DEF KeepsRows
<1>5. KeepsMaps(s, s, plan, todo, 0) /\ KeepsItems(s, s, plan, todo, 0)
      /\ KeepsPlaces(s, s, plan, todo, 0)
  BY <1>2 DEF KeepsMaps, KeepsItems, KeepsPlaces
<1>6. KeepsScens(s, s, plan, todo, 0)
  BY <1>1 DEF KeepsScens
<1> QED BY <1>4, <1>5, <1>6 DEF Keeps

LEMMA UploadKeeps ==
  ASSUME NEW seen, DOMAIN seen = TableNames, PoolOK(seen.pool), ScensOK(seen.scens), NEW plan,
         NEW items \in Payloads, Apart(seen.pool, plan, items), NEW now \in Nat
  PROVE  \E s, a : Kept(seen, plan, items, now, s, a)
<1> DEFINE todo == Collapsed(items)
           N == Len(todo)
<1>1. PICK f : Uploaded(f, seen, plan, items, now)
  BY UploadIs
<1>2. N \in Nat /\ DOMAIN todo = 1 .. N /\ CollapsedOK(items, todo)
  BY CollapsedIs DEF CollapsedOK
<1>3. /\ MappedOK(seen, plan, items, f[0]) /\ AccOK(f[N], plan)
      /\ \A n \in DOMAIN todo : /\ ItemOK(f[n - 1], todo[n]) /\ AccOK(f[n - 1], plan)
                                /\ Ingested(f[n - 1], todo[n], plan, now, f[n])
      /\ Upload(seen, plan, items, now) = [seen EXCEPT !.pool = f[N].pool, !.scens = f[N].scens]
  BY <1>1 DEF Uploaded
<1>4. PICK s : s = f[0]
  OBVIOUS
<1>5. Single(s, plan, todo)
  BY <1>3, <1>4, ApartIsSingle
<1>6. \A n \in DOMAIN todo : ~Vetoed(todo[n])
  <2> SUFFICES ASSUME NEW n \in DOMAIN todo PROVE ~Vetoed(todo[n])
    OBVIOUS
  <2> HIDE DEF todo
  <2>1. PICK m \in Counting(items) : todo[n] = items[m]
    BY <1>2 DEF CollapsedOK
  <2> QED BY <2>1 DEF Counting
<1>7. PoolOK(s.pool)
  BY <1>3, <1>4 DEF MappedOK, AccOK
<1> HIDE DEF todo, N
<1> DEFINE T == {n \in Nat : n <= N => Keeps(s, f[n], plan, todo, n)}
<1>8. 0 \in T
  BY <1>3, <1>4, StartKeeps
<1>9. ASSUME NEW n \in Nat, n \in T PROVE n + 1 \in T
  <2> SUFFICES ASSUME n + 1 <= N PROVE Keeps(s, f[n + 1], plan, todo, n + 1)
    OBVIOUS
  <2>1. n + 1 \in DOMAIN todo /\ n + 1 - 1 = n /\ n <= N /\ 1 .. n \subseteq DOMAIN todo
    BY <1>2
  <2>2. PICK a, b, item : a = f[n] /\ b = f[n + 1] /\ item = todo[n + 1]
    OBVIOUS
  <2>3. ItemOK(a, item) /\ AccOK(a, plan) /\ Ingested(a, item, plan, now, b)
    BY <1>3, <2>1, <2>2
  <2>4. Keeps(s, a, plan, todo, n) /\ ~Vetoed(item)
    BY <1>6, <1>9, <2>1, <2>2
  <2>5. MappedOK(seen, plan, items, s)
    BY <1>3, <1>4
  <2>6. PICK Z : Taken(s, a, plan, item, b, Z)
    BY <1>2, <1>5, <2>1, <2>2, <2>3, <2>4, <2>5, IngestTakes
  <2>7. Keeps(s, b, plan, todo, n + 1)
    BY <1>5, <1>7, <2>1, <2>2, <2>4, <2>6, TakenKeeps
  <2> QED BY <2>2, <2>7
<1> HIDE DEF T
<1>10. Nat \subseteq T
  BY <1>8, <1>9, SetInduction
<1>11. Keeps(s, f[N], plan, todo, N)
  BY <1>2, <1>10 DEF T
<1>12. Kept(seen, plan, items, now, s, f[N])
  BY <1>3, <1>4, <1>11 DEF Kept, todo, N
<1> QED BY <1>12

\* The row w has what the user put on the row i of the plan "of".
KeptAt(i, w, of) ==
    /\ w \in Standing(i)
    /\ pool[i].status # "undecided" => pool'[w].status # "undecided"
    /\ pool[i].note # Null => pool'[w].note # Null
    /\ pool'[w].first <= pool[i].first
    /\ \A r \in Alive(scens, of) : i \in scens[r].members => w \in scens'[r].members

LEMMA KeptRows ==
  ASSUME SeasonTyped, ScenInv, NEW plan, NEW items, NEW now, NEW s, NEW a,
         Kept(Tables, plan, items, now, s, a), pool' = a.pool, scens' = a.scens,
         NEW i \in DOMAIN pool, pool[i].live, ~(Vetoed(pool[i]) /\ pool[i].plan = plan)
  PROVE  \E w : KeptAt(i, w, pool[i].plan)
<1> DEFINE todo == Collapsed(items)
           n == Len(todo)
<1>1. Tables.pool = pool /\ Tables.scens = scens
  BY DEF Tables
<1>2. PurgedOK(pool, plan, s.pool) /\ s.scens = scens /\ Keeps(s, a, plan, todo, n)
  BY <1>1 DEF Kept, MappedOK
<1>3. i \in DOMAIN s.pool /\ s.pool[i] = pool[i]
  BY <1>2 DEF PurgedOK, Alive
<1>4. pool[i].first \in Nat
  BY DEF SeasonTyped, TablesOK, PoolOK, CandidateOK
<1> HIDE DEF todo, n
<1>5. CASE i \in Alive(s.pool, plan) /\ Named(s, todo, n, i)
  <2>1. PICK w : Stands(s, a, plan, i, w)
    BY <1>2, <1>5 DEF Keeps, KeepsPlaces
  <2>2. pool[i].plan = plan
    BY <1>3, <1>5 DEF Alive
  <2>3. w \in Standing(i)
    BY <1>3, <2>1, <2>2 DEF Stands, Standing
  <2> QED BY <1>2, <1>3, <2>1, <2>2, <2>3 DEF Stands, KeptAt
<1>6. CASE i \in Alive(s.pool, plan) => ~Named(s, todo, n, i)
  <2>1. pool'[i] = pool[i] /\ i \in DOMAIN pool'
    BY <1>2, <1>3, <1>6 DEF Keeps, KeepsRows
  <2>2. i \in Alive(pool', pool[i].plan)
    BY <2>1 DEF Alive
  <2>3. i \in Standing(i)
    BY <2>2 DEF Standing
  <2>4. ASSUME NEW r \in Alive(scens, pool[i].plan), i \in scens[r].members
        PROVE  i \in scens'[r].members
    <3>1. r \in DOMAIN s.scens /\ scens[r].live /\ scens[r].plan = pool[i].plan
      BY <1>2, <2>4 DEF Alive
    <3>2. CASE pool[i].plan # plan
      <4>1. r \notin Alive(s.scens, plan)
        BY <1>2, <3>1, <3>2 DEF Alive
      <4> QED BY <1>2, <2>4, <3>1, <4>1 DEF Keeps, KeepsScens
    <3>3. CASE pool[i].plan = plan
      <4>1. i \in Alive(s.pool, plan)
        BY <1>3, <3>3 DEF Alive
      <4> QED BY <1>2, <1>6, <2>4, <3>1, <4>1 DEF Keeps, KeepsScens
    <3> QED BY <3>2, <3>3
  <2>5. pool'[i].first <= pool[i].first
    BY <1>4, <2>1
  <2> QED BY <2>1, <2>3, <2>4, <2>5 DEF KeptAt
<1> QED BY <1>5, <1>6

\* An upload that nothing overtook, and that names no row twice, loses nothing
\* of the user's.
THEOREM DecisionsAreKept == Spec => UploadKeepsDecisions
<1>1. Init => SeasonTyped /\ ScenInv
  BY InitTyped, InitScens
<1>2. SeasonTyped /\ ScenInv /\ [Next]_vars => (SeasonTyped /\ ScenInv)'
  BY StepTyped, StepScens
<1>3. SeasonTyped /\ ScenInv /\ [Next]_vars =>
        [\A c \in Clients : \A i \in DOMAIN pool :
            /\ QuietUpload(c) /\ Apart(pool, tx[c].req.plan, tx[c].req.items)
            /\ pool[i].live /\ ~(Vetoed(pool[i]) /\ pool[i].plan = tx[c].req.plan)
            => \E w \in Standing(i) :
                  /\ pool[i].status # "undecided" => pool'[w].status # "undecided"
                  /\ pool[i].note # Null => pool'[w].note # Null
                  /\ pool'[w].first <= pool[i].first
                  /\ \A s \in Alive(scens, pool[i].plan) :
                        i \in scens[s].members => w \in scens'[s].members]_vars
  <2> SUFFICES ASSUME SeasonTyped, ScenInv, [Next]_vars, NEW c \in Clients, QuietUpload(c),
                      NEW i \in DOMAIN pool, Apart(pool, tx[c].req.plan, tx[c].req.items),
                      pool[i].live, ~(Vetoed(pool[i]) /\ pool[i].plan = tx[c].req.plan)
               PROVE  \E w \in Standing(i) :
                        /\ pool[i].status # "undecided" => pool'[w].status # "undecided"
                        /\ pool[i].note # Null => pool'[w].note # Null
                        /\ pool'[w].first <= pool[i].first
                        /\ \A s \in Alive(scens, pool[i].plan) :
                              i \in scens[s].members => w \in scens'[s].members
    OBVIOUS
  <2>1. QuietCommit(c) /\ TablesOK
    BY QuietCommits DEF SeasonTyped
  <2>2. QuietScens(c)
    BY <2>1, QuietScensAre DEF QuietCommit, QuietUpload
  <2>3. PICK t, plan, items, now : t = Tables /\ plan = tx[c].req.plan
                                   /\ items = tx[c].req.items /\ now = tx[c].now
    OBVIOUS
  <2>4. /\ pool' = Upload(t, plan, items, now).pool /\ scens' = Upload(t, plan, items, now).scens
        /\ items \in Payloads /\ now \in Nat
    BY <2>1, <2>2, <2>3 DEF QuietCommit, QuietScens
  <2>5. /\ DOMAIN t = TableNames /\ PoolOK(t.pool) /\ ScensOK(t.scens)
        /\ Apart(t.pool, plan, items)
    BY <2>1, <2>3 DEF Tables, TableNames, TablesOK, ScenInv
  <2>6. PICK s, a : Kept(t, plan, items, now, s, a)
    BY <2>4, <2>5, UploadKeeps
  <2>7. pool' = a.pool /\ scens' = a.scens
    BY <2>4, <2>5, <2>6 DEF Kept, TableNames
  <2>8. PICK w : KeptAt(i, w, pool[i].plan)
    BY <2>3, <2>6, <2>7, KeptRows
  <2> QED BY <2>8 DEF KeptAt
<1> QED BY <1>1, <1>2, <1>3, PTL DEF Spec, UploadKeepsDecisions

-----------------------------------------------------------------------------
(* The same upload again *)

\* No live row is vetoed, and each item has a row that holds it, the only live
\* one it names.
Rests(p, plan, todo) ==
    /\ \A i \in Alive(p, plan) : ~Vetoed(p[i])
    /\ \A m \in DOMAIN todo : \E r \in Alive(p, plan) :
          /\ Holding(p[r], todo[m])
          /\ \A j \in Alive(p, plan) : Claims(todo[m], p[j]) => j = r

\* The rows but for the time they were last seen.
Resting(p, q) ==
    /\ Table(q) /\ DOMAIN q = DOMAIN p
    /\ \A i \in DOMAIN p : q[i] = [p[i] EXCEPT !.last = q[i].last]

LEMMA LastChanged ==
  ASSUME NEW old, CandidateOK(old), NEW r, CandidateOK(r),
         \A f \in Fields \ {"last"} : r[f] = old[f]
  PROVE  r = [old EXCEPT !.last = r.last]
<1>1. r = [f \in Fields |-> r[f]] /\ old = [f \in Fields |-> old[f]]
  BY DEF CandidateOK, IsRow
<1>2. [old EXCEPT !.last = r.last] = [f \in Fields |-> IF f = "last" THEN r.last ELSE old[f]]
  BY <1>1
<1>3. \A f \in Fields : (IF f = "last" THEN r.last ELSE old[f]) = r[f]
  OBVIOUS
<1> QED BY <1>1, <1>2, <1>3

\* An item that has its row changes only when it was last seen.
LEMMA ItemRests ==
  ASSUME NEW p, PoolOK(p), NEW plan, NEW now, NEW a, AccOK(a, plan), ScensOK(a.scens),
         Resting(p, a.pool), NEW item, ItemOK(a, item), NEW b, AccOK(b, plan),
         NEW r \in DOMAIN p, Holding(p[r], item), a.byKey[item.key] = r,
         Twins(a, item) \subseteq {r}, p[r].live,
         NEW row, Updated(a, item, plan, now, row, b)
  PROVE  Resting(p, b.pool) /\ b.scens = a.scens /\ b.byId = a.byId
         /\ DOMAIN b.byKey = DOMAIN a.byKey /\ \A k \in DOMAIN a.byKey : b.byKey[k] = a.byKey[k]
<1> DEFINE losers == Twins(a, item) \ {row}
<1>1. r # 0
  BY TableIs DEF PoolOK
<1>2. row = r /\ losers = {}
  BY <1>1 DEF Updated
<1>3. /\ Table(b.pool) /\ DOMAIN b.pool = DOMAIN a.pool
      /\ \A i \in DOMAIN a.pool \ {r} : b.pool[i] = a.pool[i]
      /\ Absorbed(a, item, r, now, b.pool[r])
      /\ b.scens = Rewrite(a.scens, plan, r, {})
      /\ b.byId = a.byId /\ DOMAIN b.byKey = DOMAIN a.byKey
      /\ \A k \in DOMAIN a.byKey : b.byKey[k] = IF k = item.key THEN r ELSE a.byKey[k]
  <2>1. /\ Table(b.pool) /\ DOMAIN b.pool = DOMAIN a.pool
        /\ \A i \in DOMAIN a.pool \ (losers \cup {row}) : b.pool[i] = a.pool[i]
        /\ Absorbed(a, item, row, now, b.pool[row])
        /\ b.scens = Rewrite(a.scens, plan, row, losers)
        /\ b.byId = a.byId /\ DOMAIN b.byKey = DOMAIN a.byKey
        /\ \A k \in DOMAIN a.byKey :
              b.byKey[k] = IF k \in {a.pool[l].key : l \in losers} THEN 0
                           ELSE IF k = item.key THEN row ELSE a.byKey[k]
    BY Zenon DEF Updated
  <2>2. losers = {} /\ row = r
    BY <1>2
  <2> HIDE DEF losers
  <2>3. losers \cup {row} = {r}
    BY <2>2
  <2>4. {a.pool[l].key : l \in losers} = {}
    BY <2>2
  <2>5. \A i \in DOMAIN a.pool \ {r} : b.pool[i] = a.pool[i]
    BY <2>1, <2>3
  <2>6. \A k \in DOMAIN a.byKey : b.byKey[k] = IF k = item.key THEN r ELSE a.byKey[k]
    BY <2>1, <2>2, <2>4
  <2>7. Absorbed(a, item, r, now, b.pool[r]) /\ b.scens = Rewrite(a.scens, plan, r, {})
    BY Zenon, <2>1, <2>2
  <2> QED BY Zenon, <2>1, <2>5, <2>6, <2>7
<1> HIDE DEF losers
<1>4. b.scens = a.scens
  <2>1. Rewritten(a.scens, plan, r, {}, b.scens)
    BY <1>3, RewriteIs
  <2> QED BY <2>1, TablesEqual DEF Rewritten, ScensOK
<1>5. PICK w, v, o : w = b.pool[r] /\ v = a.pool[r] /\ o = p[r]
  OBVIOUS
<1>6. CandidateOK(w) /\ CandidateOK(v) /\ CandidateOK(o) /\ v = [o EXCEPT !.last = v.last]
  BY <1>3, <1>5 DEF AccOK, PoolOK, Resting
<1>7. \A f \in Fields \ {"last"} : v[f] = o[f]
  BY <1>6 DEF CandidateOK
<1>8. \A f \in Fields \ {"last"} : w[f] = o[f]
  <2>1. Fields \ {"last"} = {"plan", "key", "url", "body", "enr", "status", "note", "first",
                             "version", "live"}
    BY DEF Fields
  <2>2. /\ v.plan = o.plan /\ v.key = o.key /\ v.url = o.url /\ v.body = o.body
        /\ v.enr = o.enr /\ v.status = o.status /\ v.note = o.note /\ v.first = o.first
        /\ v.version = o.version /\ v.live = o.live
    BY <1>7, <2>1
  <2>3. Twins(a, item) \ {r} = {}
    OBVIOUS
  <2>4. /\ w.plan = v.plan /\ w.live = v.live /\ w.key = v.key
        /\ w.url = item.url /\ w.body = item.body
        /\ w.enr = IF item.enr = Null THEN v.enr ELSE item.enr
        /\ w.status = v.status /\ w.note = v.note
        /\ w.first = Least({v.first})
        /\ v.url = item.url /\ v.body = item.body
           /\ (item.enr = Null \/ v.enr = item.enr) => w.version = v.version
    <3>1. PICK L : L = Twins(a, item) \ {r}
      OBVIOUS
    <3>2. /\ {l \in L : a.pool[l].status # "undecided"} = {}
          /\ {l \in L : a.pool[l].note # Null} = {}
          /\ {a.pool[l].first : l \in L \cup {r}} = {v.first} /\ L = {}
      BY <1>5, <2>3, <3>1
    <3>3. a.byKey[item.key] # 0
      BY <1>1
    <3>4. Absorbed(a, item, r, now, w)
      BY <1>3, <1>5
    <3>5. /\ w.plan = v.plan /\ w.live = v.live /\ w.key = v.key
          /\ w.url = item.url /\ w.body = item.body
          /\ w.enr = IF item.enr = Null THEN v.enr ELSE item.enr
      BY Zenon, <1>5, <3>3, <3>4 DEF Absorbed
    <3>6. w.status = v.status
      BY <1>5, <3>1, <3>2, <3>4 DEF Absorbed
    <3>7. w.note = v.note
      BY <1>5, <3>1, <3>2, <3>4 DEF Absorbed
    <3>8. w.first = Least({v.first})
      <4>1. w.first = Least({a.pool[l].first : l \in L \cup {r}})
        BY Zenon, <3>1, <3>4 DEF Absorbed
      <4> QED BY <3>2, <4>1
    <3>9. v.url = item.url /\ v.body = item.body /\ (item.enr = Null \/ v.enr = item.enr)
          => w.version = v.version
      BY Zenon, <1>5, <2>3, <3>4 DEF Absorbed
    <3> QED BY <3>5, <3>6, <3>7, <3>8, <3>9
  <2>5. Least({v.first}) = v.first
    <3>1. {v.first} \in SUBSET Nat /\ {v.first} # {}
      BY <1>6 DEF CandidateOK
    <3> QED BY <3>1, LeastIs
  <2>6. o.key = item.key /\ o.url = item.url /\ o.body = item.body
        /\ (item.enr = Null \/ o.enr = item.enr)
    BY <1>5 DEF Holding
  <2> QED BY <2>1, <2>2, <2>4, <2>5, <2>6
<1>9. w = [o EXCEPT !.last = w.last]
  BY <1>6, <1>8, LastChanged
<1>10. Resting(p, b.pool)
  <2> SUFFICES ASSUME NEW i \in DOMAIN p PROVE b.pool[i] = [p[i] EXCEPT !.last = b.pool[i].last]
    BY <1>3 DEF Resting
  <2>1. CASE i = r
    BY <1>5, <1>9, <2>1
  <2>2. CASE i # r
    <3>1. b.pool[i] = a.pool[i] /\ a.pool[i] = [p[i] EXCEPT !.last = a.pool[i].last]
      BY <1>3, <2>2 DEF Resting
    <3> QED BY <3>1
  <2> QED BY <2>1, <2>2
<1> QED BY <1>3, <1>4, <1>10

\* What an upload that finds all of its items changes.
OnlyLast(seen, e) == e.scens = seen.scens /\ Resting(seen.pool, e.pool)

LEMMA UploadRests ==
  ASSUME NEW seen, DOMAIN seen = TableNames, PoolOK(seen.pool), ScensOK(seen.scens), NEW plan,
         NEW items \in Payloads, NEW now \in Nat, Rests(seen.pool, plan, Collapsed(items))
  PROVE  OnlyLast(seen, Upload(seen, plan, items, now))
<1> DEFINE todo == Collapsed(items)
           N == Len(todo)
           p == seen.pool
<1>1. PICK f : Uploaded(f, seen, plan, items, now)
  BY UploadIs
<1>2. N \in Nat /\ DOMAIN todo = 1 .. N
  BY CollapsedIs DEF CollapsedOK
<1>3. /\ MappedOK(seen, plan, items, f[0])
      /\ \A n \in DOMAIN todo : /\ ItemOK(f[n - 1], todo[n]) /\ AccOK(f[n - 1], plan)
                                /\ Ingested(f[n - 1], todo[n], plan, now, f[n])
      /\ Upload(seen, plan, items, now) = [seen EXCEPT !.pool = f[N].pool, !.scens = f[N].scens]
  BY <1>1 DEF Uploaded
<1>4. PICK s : s = f[0]
  OBVIOUS
<1>5. MappedOK(seen, plan, items, s)
  BY <1>3, <1>4
<1>6. Rests(p, plan, todo)
  OBVIOUS
<1> HIDE DEF todo, N, p
<1>7. s.pool = p
  <2>1. PurgedOK(p, plan, s.pool) /\ PoolOK(p)
    BY <1>5 DEF MappedOK, p
  <2>2. \A i \in DOMAIN p : s.pool[i] = p[i]
    BY <1>6, <2>1 DEF PurgedOK, Rests
  <2> QED BY <2>1, <2>2, TablesEqual DEF PurgedOK, PoolOK
<1> DEFINE Same(a) == /\ Resting(p, a.pool) /\ a.scens = seen.scens /\ a.byId = s.byId
                      /\ DOMAIN a.byKey = DOMAIN s.byKey
                      /\ \A k \in DOMAIN s.byKey : a.byKey[k] = s.byKey[k]
           T == {n \in Nat : n <= N => Same(f[n])}
<1>8. 0 \in T
  <2>1. Resting(p, p)
    <3>1. \A i \in DOMAIN p : p[i] = [p[i] EXCEPT !.last = p[i].last]
      BY LastChanged DEF PoolOK, p
    <3> QED BY <3>1 DEF Resting, PoolOK, p
  <2>2. Same(s)
    BY <1>5, <1>7, <2>1 DEF MappedOK
  <2> HIDE DEF Same
  <2> QED BY <1>4, <2>2
<1>9. ASSUME NEW n \in Nat, n \in T PROVE n + 1 \in T
  <2> SUFFICES ASSUME n + 1 <= N PROVE Same(f[n + 1])
    OBVIOUS
  <2>1. n + 1 \in DOMAIN todo /\ n + 1 - 1 = n /\ n <= N
    BY <1>2
  <2>2. PICK a, b, item : a = f[n] /\ b = f[n + 1] /\ item = todo[n + 1]
    OBVIOUS
  <2>3. ItemOK(a, item) /\ AccOK(a, plan) /\ Ingested(a, item, plan, now, b) /\ AccOK(b, plan)
    BY <1>3, <2>1, <2>2 DEF Ingested
  <2>4. Same(a)
    BY <1>9, <2>1, <2>2
  <2>5. PICK r \in Alive(p, plan) :
          /\ Holding(p[r], item)
          /\ \A j \in Alive(p, plan) : Claims(item, p[j]) => j = r
    BY <1>6, <2>1, <2>2 DEF Rests
  <2>6. a.byKey[item.key] = r
    <3>1. item.key \in DOMAIN s.byKey
      BY <2>3, <2>4 DEF ItemOK
    <3>2. r \in Alive(s.pool, plan) /\ s.pool[r].key = item.key
      BY <1>7, <2>5 DEF Holding
    <3>3. s.byKey[item.key] \in Alive(p, plan) /\ p[s.byKey[item.key]].key = item.key
      BY <1>5, <1>7, <3>1, <3>2 DEF MappedOK
    <3>4. s.byKey[item.key] = r
      BY <2>5, <3>3 DEF Claims
    <3> QED BY <2>4, <3>1, <3>4
  <2>7. Twins(a, item) \subseteq {r}
    <3> SUFFICES ASSUME NEW t \in Twins(a, item) PROVE t = r
      OBVIOUS
    <3>1. Identity[item.url] # NoIdentity /\ t \in a.byId[Identity[item.url]]
          /\ Identity[item.url] \in Ids
      BY <2>3 DEF Twins, Ids, ItemOK
    <3>2. t \in s.byId[Identity[item.url]]
      BY <2>4, <3>1
    <3>3. t \in Alive(p, plan) /\ Identity[p[t].url] = Identity[item.url]
      BY <1>5, <1>7, <3>1, <3>2 DEF MappedOK
    <3> QED BY <2>5, <3>1, <3>3 DEF Claims
  <2>8. r \in DOMAIN p /\ p[r].live /\ r # 0
    <3>1. DOMAIN p = 1 .. Len(p)
      BY TableIs DEF PoolOK, p
    <3> QED BY <3>1 DEF Alive
  <2>9. PICK row : Updated(a, item, plan, now, row, b)
    BY <2>3, <2>6, <2>8 DEF Ingested, Created
  <2>10. ScensOK(a.scens) /\ Resting(p, a.pool) /\ PoolOK(p)
    BY <2>4 DEF p
  <2>11. Resting(p, b.pool) /\ b.scens = a.scens /\ b.byId = a.byId
         /\ DOMAIN b.byKey = DOMAIN a.byKey /\ \A k \in DOMAIN a.byKey : b.byKey[k] = a.byKey[k]
    BY <2>3, <2>5, <2>6, <2>7, <2>8, <2>9, <2>10, ItemRests
  <2>12. Same(b)
    BY <2>4, <2>11
  <2> HIDE DEF Same
  <2> QED BY <2>2, <2>12
<1> HIDE DEF T
<1>10. Nat \subseteq T
  BY <1>8, <1>9, SetInduction
<1>11. Same(f[N])
  BY <1>2, <1>10 DEF T
<1>12. Upload(seen, plan, items, now).pool = f[N].pool
       /\ Upload(seen, plan, items, now).scens = f[N].scens
  BY <1>3 DEF TableNames
<1> QED BY <1>11, <1>12 DEF OnlyLast, p

SettledInv ==
    \A u \in settled :
        /\ u.items \in Payloads
        /\ u.apart => Rests(pool, u.plan, Collapsed(u.items))

LEMMA SettledSuffices ==
  ASSUME SeasonTyped, ScenInv, SettledInv
  PROVE  RepushIsQuiet
<1> SUFFICES ASSUME NEW u \in settled, u.apart PROVE ChangesNothing(u)
  BY DEF RepushIsQuiet
<1>1. PICK t, plan, items : t = Tables /\ plan = u.plan /\ items = u.items
  OBVIOUS
<1>2. /\ DOMAIN t = TableNames /\ t.pool = pool /\ t.scens = scens
      /\ PoolOK(t.pool) /\ ScensOK(t.scens) /\ clock \in Nat
      /\ items \in Payloads /\ Rests(t.pool, plan, Collapsed(items))
  BY <1>1 DEF Tables, TableNames, SeasonTyped, TablesOK, ScenInv, SettledInv
<1>3. PICK e : e = Upload(t, plan, items, clock)
  OBVIOUS
<1>4. OnlyLast(t, e)
  BY <1>2, <1>3, UploadRests
<1>5. /\ e.scens = scens /\ Table(e.pool) /\ DOMAIN e.pool = DOMAIN pool
      /\ \A i \in DOMAIN pool : e.pool[i] = [pool[i] EXCEPT !.last = e.pool[i].last]
  BY <1>2, <1>4 DEF OnlyLast, Resting
<1>6. Len(e.pool) = Len(pool)
  <2>1. Table(pool)
    BY <1>2 DEF PoolOK
  <2>2. /\ DOMAIN pool = 1 .. Len(pool) /\ Len(pool) \in Nat
        /\ DOMAIN e.pool = 1 .. Len(e.pool) /\ Len(e.pool) \in Nat
    BY <1>5, <2>1, TableIs
  <2> QED BY <1>5, <2>2
<1> QED BY <1>1, <1>3, <1>5, <1>6 DEF ChangesNothing

\* The commit of an upload that nothing overtook leaves it at rest.
LEMMA CommitRests ==
  ASSUME SeasonTyped, ScenInv, NEW c \in Clients, Commit(c),
         tx[c].req.kind = "upload", tx[c].quiet,
         Apart(pool, tx[c].req.plan, tx[c].req.items)
  PROVE  Rests(pool', tx[c].req.plan, Collapsed(tx[c].req.items))
<1>1. QuietCommit(c) /\ QuietScens(c) /\ TablesOK
  BY QuietCommitIs, QuietScensAre DEF SeasonTyped
<1>2. PICK t, plan, items, now : t = Tables /\ plan = tx[c].req.plan
                                 /\ items = tx[c].req.items /\ now = tx[c].now
  OBVIOUS
<1>3. PICK p : p = pool'
  OBVIOUS
<1>4. /\ p = Upload(t, plan, items, now).pool /\ items \in Payloads /\ now \in Nat
      /\ DOMAIN t = TableNames /\ PoolOK(t.pool) /\ ScensOK(t.scens) /\ t.pool = pool
      /\ Apart(t.pool, plan, items)
  BY <1>1, <1>2, <1>3 DEF QuietCommit, Tables, TableNames, TablesOK, ScenInv
<1>5. PICK s, a : Kept(t, plan, items, now, s, a)
  BY <1>4, UploadKeeps
<1>6. p = a.pool
  BY <1>4, <1>5 DEF Kept, TableNames
<1>7. PICK todo : todo = Collapsed(items)
  OBVIOUS
<1>8. Keeps(s, a, plan, todo, Len(todo)) /\ CollapsedOK(items, todo)
  BY <1>4, <1>5, <1>7, CollapsedIs DEF Kept
<1>9. OneRowEach(p, plan, items)
  BY <1>4, UploadUnifies
<1>10. \A i, j \in Alive(p, plan) : p[i].key = p[j].key => i = j
  <2>1. \E w \in {Written(c)} : Unique(w) /\ pool' = w.pool
    BY DEF Commit, Accepted
  <2>2. PICK w : Unique(w) /\ p = w.pool
    BY <1>3, <2>1
  <2> QED BY <2>2 DEF Unique, Alive
<1>11. ASSUME NEW m \in DOMAIN todo
       PROVE  \E r \in Alive(p, plan) :
                 /\ Holding(p[r], todo[m])
                 /\ \A j \in Alive(p, plan) : Claims(todo[m], p[j]) => j = r
  <2>1. m \in 1 .. Len(todo)
    BY <1>8 DEF CollapsedOK
  <2>2. PICK r \in Alive(p, plan) : Holding(p[r], todo[m])
    BY <1>6, <1>8, <2>1 DEF Keeps, KeepsItems
  <2>3. PICK n \in Counting(items) : todo[m] = items[n]
    BY <1>8 DEF CollapsedOK
  <2>4. ASSUME NEW j \in Alive(p, plan), Claims(todo[m], p[j]) PROVE j = r
    <3>1. CASE todo[m].key = p[j].key
      BY <1>10, <2>2, <3>1 DEF Holding
    <3>2. CASE Identity[todo[m].url] # NoIdentity /\ Identity[todo[m].url] = Identity[p[j].url]
      <4>1. Identity[p[r].url] = Identity[todo[m].url]
        BY <2>2 DEF Holding
      <4> QED BY <1>9, <2>3, <3>2, <4>1 DEF OneRowEach
    <3> QED BY <2>4, <3>1, <3>2 DEF Claims
  <2> QED BY <2>2, <2>4
<1>12. \A i \in Alive(p, plan) : ~Vetoed(p[i])
  BY <1>6, <1>8 DEF Keeps, KeepsRows
<1>13. Rests(p, plan, todo)
  BY <1>11, <1>12 DEF Rests
<1> QED BY <1>2, <1>3, <1>7, <1>13

LEMMA StepSettled ==
  ASSUME SeasonTyped, ScenInv, SettledInv, [Next]_vars
  PROVE  SettledInv'
<1>1. CASE UNCHANGED <<pool, veto, settled>>
  <2> SUFFICES ASSUME NEW u \in settled
               PROVE  u.items \in Payloads /\ (u.apart => Rests(pool, u.plan, Collapsed(u.items)))'
    BY <1>1 DEF SettledInv
  <2>1. PICK todo : todo = Collapsed(u.items)
    OBVIOUS
  <2>2. Collapsed(u.items)' = todo
    BY <1>1, <2>1 DEF Collapsed, Vetoed
  <2>3. u.apart => Rests(pool, u.plan, todo)
    BY <2>1 DEF SettledInv
  <2>4. u.apart => Rests(pool, u.plan, todo)'
    BY <1>1, <2>3 DEF Rests, Vetoed
  <2> QED BY <2>2, <2>4 DEF SettledInv
<1>2. CASE settled' = {}
  BY <1>2 DEF SettledInv
<1>3. CASE \E c \in Clients : Commit(c)
  <2>1. PICK c \in Clients : Commit(c)
    BY <1>3
  <2>2. veto' = veto
    BY <2>1 DEF Commit, bounds
  <2>3. CASE tx[c].req.kind = "upload" /\ tx[c].quiet
    <3>1. PICK t : t = tx[c]
      OBVIOUS
    <3>2. PICK u : u = [plan |-> t.req.plan, items |-> t.req.items,
                        apart |-> Apart(pool, t.req.plan, t.req.items)]
      OBVIOUS
    <3>3. settled' = {u}
      BY <2>1, <2>3, <3>1, <3>2 DEF Commit
    <3>4. u.items \in Payloads
      BY <2>1, <2>3, <3>1, <3>2, QuietCommitIs DEF QuietCommit
    <3>5. u.apart => Rests(pool', u.plan, Collapsed(u.items))
      BY <2>1, <2>3, <3>1, <3>2, CommitRests
    <3>6. PICK todo : todo = Collapsed(u.items)
      OBVIOUS
    <3>7. Collapsed(u.items)' = todo
      BY <2>2, <3>6 DEF Collapsed, Vetoed
    <3>8. u.apart => Rests(pool, u.plan, todo)'
      BY <2>2, <3>5, <3>6 DEF Rests, Vetoed
    <3> QED BY <3>3, <3>4, <3>7, <3>8 DEF SettledInv
  <2>4. CASE ~(tx[c].req.kind = "upload" /\ tx[c].quiet)
    BY <1>2, <2>1, <2>4 DEF Commit
  <2> QED BY <2>3, <2>4
<1> QED BY <1>1, <1>2, <1>3 DEF Next, Begin, ReadAgain, Fail, Listed, TurnVeto, Tick,
                                vars, db, bounds, history

\* After an upload that nothing overtook, and that names no row twice, the same
\* again changes nothing but when the rows were last seen.
THEOREM RepushesAreQuiet == Spec => []RepushIsQuiet
<1>1. Init => SeasonTyped /\ ScenInv /\ SettledInv
  BY InitTyped, InitScens DEF Init, SettledInv
<1>2. SeasonTyped /\ ScenInv /\ SettledInv /\ [Next]_vars
        => (SeasonTyped /\ ScenInv /\ SettledInv)'
  BY StepTyped, StepScens, StepSettled
<1>3. SeasonTyped /\ ScenInv /\ SettledInv => RepushIsQuiet
  BY SettledSuffices
<1> QED BY <1>1, <1>2, <1>3, PTL DEF Spec
=============================================================================
