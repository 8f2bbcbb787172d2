--------------------------- MODULE PhoneSyncProofs ---------------------------
(***************************************************************************)
(* Theorems about PhoneSync, for any number of events, notifications and   *)
(* pulls.  That no notification is shown early holds however many isolates *)
(* pull; that the cache keeps up with the cursor, and that what was shown  *)
(* is final, when the pulls belong to one isolate, which isSyncing keeps   *)
(* from reading two pages at a time.                                       *)
(***************************************************************************)
EXTENDS PhoneSync, Integers, FiniteSetTheorems, WellFoundedInduction, FunctionTheorems, TLAPS

-----------------------------------------------------------------------------
(* Greatest and least values *)

\* An integer function on a finite set that is not empty has a greatest value:
\* of the sets on which it is at least some value of it, one contains no other.
LEMMA GreatestValue ==
  ASSUME NEW D, IsFiniteSet(D), D # {}, NEW f \in [D -> Int]
  PROVE  \E m \in D : \A n \in D : f[n] <= f[m]
<1> DEFINE AtLeast(x) == {y \in D : f[x] <= f[y]}
           All        == {AtLeast(x) : x \in D}
<1>1. All \subseteq FiniteSubsetsOf(D) /\ All # {}
  <2>1. FiniteSubsetsOf(D) = SUBSET D
    BY FS_FiniteSubsetsOfFinite
  <2>2. All \subseteq SUBSET D
    OBVIOUS
  <2>3. PICK x \in D : TRUE
    OBVIOUS
  <2>4. AtLeast(x) \in All
    OBVIOUS
  <2> QED BY <2>1, <2>2, <2>4
<1>2. PICK U \in All : \A V \in All : ~(<<V, U>> \in StrictSubsetOrdering(D))
  BY <1>1, FS_StrictSubsetOrderingWellFounded, WFMin
<1>3. PICK m \in D : U = AtLeast(m)
  OBVIOUS
<1>4. ASSUME NEW n \in D, f[m] < f[n] PROVE FALSE
  <2>1. AtLeast(n) \subseteq AtLeast(m)
    <3>1. ASSUME NEW y \in D, f[n] <= f[y] PROVE f[m] <= f[y]
      <4>1. f[y] \in Int /\ f[m] \in Int /\ f[n] \in Int
        OBVIOUS
      <4> QED BY <4>1, <3>1, <1>4
    <3> QED BY <3>1
  <2>2. m \in AtLeast(m) /\ m \notin AtLeast(n)
    BY <1>4
  <2>3. <<AtLeast(n), AtLeast(m)>> \in StrictSubsetOrdering(D)
    <3> HIDE DEF AtLeast
    <3>1. AtLeast(n) \in SUBSET D /\ AtLeast(m) \in SUBSET D
      BY DEF AtLeast
    <3> QED BY <2>1, <2>2, <3>1 DEF StrictSubsetOrdering
  <2> QED BY <1>2, <1>3, <2>3
<1>5. \A n \in D : f[n] <= f[m]
  BY <1>4
<1> QED BY <1>5

\* And a least value.
LEMMA LeastValue ==
  ASSUME NEW D, IsFiniteSet(D), D # {}, NEW f \in [D -> Int]
  PROVE  \E m \in D : \A n \in D : f[m] <= f[n]
<1> DEFINE g == [x \in D |-> -f[x]]
<1>1. g \in [D -> Int]
  OBVIOUS
<1> HIDE DEF g
<1>2. PICK m \in D : \A n \in D : g[n] <= g[m]
  BY <1>1, GreatestValue
<1>3. \A n \in D : g[n] = -f[n]
  BY DEF g
<1>4. \A n \in D : f[m] <= f[n]
  BY <1>2, <1>3
<1> QED BY <1>4

-----------------------------------------------------------------------------
(* The server *)

Everything == log \union UNION {open[e].changes : e \in Event}

ServerTyped ==
  /\ log \in SUBSET Change /\ IsFiniteSet(log)
  /\ open \in [Event -> [changes : SUBSET Change, since : Nat]]
  /\ \A e \in Event : IsFiniteSet(open[e].changes)
  /\ nextSeq \in Nat \ {0} /\ clock \in 0 .. MaxTime

\* A change belongs to one event, and open ones to the transaction on it.
Owned ==
  /\ \A c \in Everything : c.key \in Event => c.event = c.key
  /\ \A e \in Event : \A c \in open[e].changes : c.event = e

\* The changes of an entity have one event and one due time, and their versions
\* grow with their numbers.
Versioned ==
  /\ \A c \in Everything : c.seq < nextSeq /\ c.version <= c.seq
  /\ \A c, d \in Everything : c.key = d.key =>
        /\ c.event = d.event /\ c.due = d.due
        /\ c.seq < d.seq => c.version < d.version
        /\ c.seq = d.seq => c = d

\* A transaction ends in time, and a merge it holds is into a notification that
\* is not due before then.
InTime ==
  \A e \in Event : open[e].changes # {} =>
    /\ open[e].since <= clock /\ clock <= open[e].since + Margin
    /\ \A c \in open[e].changes :
         c.key \in Notif /\ ~c.deleted => c.version = 1 \/ c.due > open[e].since + Margin

ServerInv == ServerTyped /\ Owned /\ Versioned /\ InTime

-----------------------------------------------------------------------------
(* The phone *)

Delivering == {"deliver", "show", "shown"}

PullRecord ==
  [pc : Steps, cursor : Nat, first : BOOLEAN, now : Nat, page : SUBSET Change,
   next : Nat, more : BOOLEAN, due : SUBSET Change, row : Change \union {NoRow}]

PhoneTyped ==
  /\ cache \in [Key -> Change \union {NoRow}]
  /\ cursor \in Nat /\ served \in Nat
  /\ tray \in [Notif -> Nat]
  /\ pull \in [Pull -> PullRecord]

\* What a pull holds was committed; the time it judges by has come; what it is
\* about to show is due then.
GenuinePull(s) ==
  /\ s.page \subseteq log
  /\ s.pc \notin {"idle", "request"} => s.now <= clock
  /\ s.pc \in Delivering => \A r \in s.due :
       r \in log /\ r.key \in Notif /\ ~r.deleted /\ r.due <= s.now
  /\ s.pc \in {"show", "shown"} => s.row \in s.due

GenuineRow(c, k) == c # NoRow => c \in log /\ c.key = k

Genuine ==
  /\ \A k \in Key : GenuineRow(cache[k], k)
  /\ \A p \in Pull : GenuinePull(pull[p])

TrayIsDue == \A n \in Notif : tray[n] # 0 => \E c \in log : c.key = n /\ c.due <= clock

PhoneInv == ServerInv /\ PhoneTyped /\ Genuine /\ TrayIsDue

-----------------------------------------------------------------------------
(* One isolate *)

Covered(c) == cache[c.key] # NoRow /\ cache[c.key].seq >= c.seq

\* One pull at a time reads pages, from where the cursor is.
OnePull ==
  /\ \A p, q \in Pull : pull[p].pc \in Syncing /\ pull[q].pc \in Syncing => p = q
  /\ cursor <= served
  /\ \A p \in Pull :
       /\ pull[p].pc \in Syncing => pull[p].cursor = cursor
       /\ pull[p].pc = "apply" => cursor <= pull[p].next /\ pull[p].next <= served

\* Of the changes that a page brings, those that it no longer holds are in the
\* cache, and older than those it holds.
PageInv ==
  \A p \in Pull : pull[p].pc = "apply" =>
    /\ \A d \in pull[p].page : cursor < d.seq
    /\ \A c \in log \ late : cursor < c.seq /\ c.seq <= pull[p].next =>
         c \in pull[p].page \/ (Covered(c) /\ \A d \in pull[p].page : c.seq <= d.seq)

\* A change of a notification that is due at time t is its first, or one that
\* a reader of the log up to b has.
KnownBy(t, b) ==
  \A c \in Everything : c.key \in Notif /\ ~c.deleted /\ c.due <= t =>
    c.version = 1 \/ (c \in log /\ c.seq <= b)

\* No change of the notification is newer, but its withdrawal.
Last(r) ==
  \A c \in Everything : c.key = r.key /\ ~c.deleted => c.version <= r.version

FinalInv ==
  /\ \A p \in Pull :
       /\ pull[p].pc = "apply" /\ ~pull[p].more => KnownBy(pull[p].now, pull[p].next)
       /\ pull[p].pc = "list" => KnownBy(pull[p].now, cursor)
       /\ late = {} /\ pull[p].pc \in Delivering => \A r \in pull[p].due : Last(r)
  /\ late = {} => \A n \in Notif : tray[n] # 0 =>
       \E r \in log : r.key = n /\ r.due <= clock /\ r.version = tray[n] /\ Last(r)

-----------------------------------------------------------------------------
(* Changes and rows *)

LEMMA EverythingIs ==
  ASSUME NEW c
  PROVE  c \in Everything <=> c \in log \/ \E e \in Event : c \in open[e].changes
<1> DEFINE O == {open[e].changes : e \in Event}
<1>1. c \in UNION O <=> \E e \in Event : c \in open[e].changes
  <2>1. ASSUME c \in UNION O PROVE \E e \in Event : c \in open[e].changes
    BY Zenon, <2>1
  <2>2. ASSUME NEW e \in Event, c \in open[e].changes PROVE c \in UNION O
    BY Zenon, <2>2
  <2> QED BY <2>1, <2>2
<1>2. Everything = log \union UNION O
  BY DEF Everything
<1> HIDE DEF O
<1> QED BY <1>1, <1>2

LEMMA EverythingPrime ==
  ASSUME NEW c
  PROVE  c \in Everything' <=> c \in log' \/ \E e \in Event : c \in open'[e].changes
<1> DEFINE O == {open'[e].changes : e \in Event}
<1>1. c \in UNION O <=> \E e \in Event : c \in open'[e].changes
  <2>1. ASSUME c \in UNION O PROVE \E e \in Event : c \in open'[e].changes
    BY Zenon, <2>1
  <2>2. ASSUME NEW e \in Event, c \in open'[e].changes PROVE c \in UNION O
    BY Zenon, <2>2
  <2> QED BY <2>1, <2>2
<1>2. Everything' = log' \union UNION O
  BY DEF Everything
<1> HIDE DEF O
<1> QED BY <1>1, <1>2

LEMMA NewestIs ==
  ASSUME NEW S \in SUBSET Change, IsFiniteSet(S), S # {}
  PROVE  Newest(S) \in S /\ \A d \in S : d.seq <= Newest(S).seq
<1> DEFINE f == [c \in S |-> c.seq]
<1>1. f \in [S -> Int]
  BY DEF Change
<1>2. PICK m \in S : \A n \in S : f[n] <= f[m]
  BY <1>1, GreatestValue
<1>3. \E x \in S : \A n \in S : n.seq <= x.seq
  BY <1>2
<1> QED BY <1>3 DEF Newest

LEMMA OldestIs ==
  ASSUME NEW S \in SUBSET Change, IsFiniteSet(S), S # {}
  PROVE  Oldest(S) \in S /\ \A d \in S : Oldest(S).seq <= d.seq
<1> DEFINE f == [c \in S |-> c.seq]
<1>1. f \in [S -> Int]
  BY DEF Change
<1>2. PICK m \in S : \A n \in S : f[m] <= f[n]
  BY <1>1, LeastValue
<1>3. \E x \in S : \A n \in S : x.seq <= n.seq
  BY <1>2
<1> QED BY <1>3 DEF Oldest

LEMMA ChangeTyped ==
  ASSUME ServerTyped, NEW c \in Everything
  PROVE  /\ c \in Change /\ c.seq \in Nat /\ c.version \in Nat /\ c.due \in Nat
         /\ c.version >= 1 /\ c.deleted \in BOOLEAN /\ c.key \in Key /\ c.event \in Event
<1>1. c \in Change
  BY EverythingIs DEF ServerTyped
<1> QED BY <1>1, TimingAssumption, SyncAssumption DEF Change

\* The row of an entity that has one is the last of its committed changes.
LEMMA RowIs ==
  ASSUME ServerTyped, NEW k, Exists(k)
  PROVE  /\ Row(k) \in log /\ Row(k) \in Everything /\ Row(k).key = k
         /\ \A d \in log : d.key = k => d.seq <= Row(k).seq
<1>1. Published(k) \in SUBSET Change /\ IsFiniteSet(Published(k)) /\ Published(k) # {}
  BY FS_Subset DEF Published, Exists, ServerTyped
<1>2. Newest(Published(k)) \in Published(k)
      /\ \A d \in Published(k) : d.seq <= Newest(Published(k)).seq
  BY <1>1, NewestIs
<1> QED BY <1>2, EverythingIs DEF Row, Published

-----------------------------------------------------------------------------
(* What a request writes *)

\* A change that a request on event e may write.
Writable(e, c) ==
  /\ nextSeq <= c.seq /\ c.event = e /\ (c.key \in Event => c.key = e)
  /\ \/ c.version = 1 /\ \A d \in Everything : d.key # c.key
     \/ /\ Exists(c.key) /\ Row(c.key).event = e
        /\ c.due = Row(c.key).due /\ c.version = Row(c.key).version + 1
  /\ c.key \in Notif /\ ~c.deleted => c.version = 1 \/ c.due > clock + Margin
  /\ c.key \in Key /\ c.deleted \in BOOLEAN /\ c.seq \in Nat
  /\ c.due \in 0 .. MaxTime + Window
  /\ c = [seq |-> c.seq, key |-> c.key, event |-> c.event, version |-> c.version,
          deleted |-> c.deleted, due |-> c.due]

LEMMA RevisedWritable ==
  ASSUME ServerInv, NEW e \in Event, NEW k, Exists(k), Row(k).event = e,
         NEW seq \in Nat, nextSeq <= seq, NEW gone \in BOOLEAN,
         k \in Notif /\ ~gone => Row(k).due > clock + Margin
  PROVE  /\ Writable(e, Revised(seq, k, gone))
         /\ Revised(seq, k, gone).key = k /\ Revised(seq, k, gone).seq = seq
<1> DEFINE c == Revised(seq, k, gone)
<1>1. /\ Row(k) \in Everything /\ Row(k) \in Change /\ Row(k).key = k /\ k \in Key
      /\ Row(k).version \in Nat /\ Row(k).version >= 1
  BY RowIs, ChangeTyped DEF ServerInv
<1>2. /\ c.seq = seq /\ c.key = k /\ c.event = e /\ c.version = Row(k).version + 1
      /\ c.deleted = gone /\ c.due = Row(k).due
      /\ c = [seq |-> c.seq, key |-> c.key, event |-> c.event, version |-> c.version,
              deleted |-> c.deleted, due |-> c.due]
      /\ c.due \in 0 .. MaxTime + Window
  <2> DEFINE R == Row(k)
  <2>1. c = [R EXCEPT !.seq = seq, !.version = @ + 1, !.deleted = gone]
    BY DEF Revised
  <2> HIDE DEF c, R
  <2>2. R = [seq |-> R.seq, key |-> R.key, event |-> R.event, version |-> R.version,
             deleted |-> R.deleted, due |-> R.due]
        /\ R.due \in 0 .. MaxTime + Window
    BY <1>1 DEF Change, R
  <2>3. c = [seq |-> seq, key |-> R.key, event |-> R.event, version |-> R.version + 1,
             deleted |-> gone, due |-> R.due]
    BY <2>1, <2>2
  <2> QED BY <1>1, <2>2, <2>3 DEF R
<1>3. k \in Event => k = e
  BY <1>1 DEF ServerInv, Owned
<1> HIDE DEF c
<1>4. c.key \in Notif /\ ~c.deleted => c.version = 1 \/ c.due > clock + Margin
  BY <1>2
<1>5. Writable(e, c)
  BY <1>1, <1>2, <1>3, <1>4 DEF Writable
<1> QED BY <1>2, <1>5 DEF c

LEMMA AnnouncementWritable ==
  ASSUME ServerInv, NEW e \in Event, NEW seq \in Nat, nextSeq <= seq,
         NEW manual \in BOOLEAN, NEW c \in Announcements(seq, e, manual)
  PROVE  Writable(e, c) /\ c.key \in Notif /\ c.seq = seq
<1> DEFINE open_ == {n \in Notif : MergeableNow(e, n)}
<1>1. CASE open_ # {}
  <2>1. PICK n \in open_ : c = Revised(seq, n, FALSE)
    BY <1>1 DEF Announcements
  <2>2. /\ n \in Notif /\ Exists(n) /\ Row(n).event = e /\ Row(n).due > clock + Margin
    BY <2>1 DEF MergeableNow, Live
  <2>3. n \in Notif /\ FALSE \in BOOLEAN
    BY <2>2
  <2> HIDE DEF open_
  <2>4. /\ Writable(e, Revised(seq, n, FALSE))
        /\ Revised(seq, n, FALSE).key = n /\ Revised(seq, n, FALSE).seq = seq
    <3>1. \A gone \in BOOLEAN :
            /\ Writable(e, Revised(seq, n, gone))
            /\ Revised(seq, n, gone).key = n /\ Revised(seq, n, gone).seq = seq
      BY <2>2, RevisedWritable
    <3> QED BY Zenon, <3>1, <2>3
  <2> QED BY <2>1, <2>3, <2>4
<1>2. CASE open_ = {}
  <2>1. PICK n \in Notif :
          /\ Fresh(n)
          /\ c = [seq |-> seq, key |-> n, event |-> e, version |-> 1, deleted |-> FALSE,
                  due |-> IF manual THEN clock ELSE clock + Window]
    BY <1>2 DEF Announcements
  <2>2. \A d \in Everything : d.key # n
    BY <2>1, EverythingIs DEF Fresh, Exists, Published
  <2>3. n \notin Event /\ n \in Key
    BY SyncAssumption DEF Key
  <2>4. c.due \in 0 .. MaxTime + Window
    BY <2>1, TimingAssumption, SyncAssumption DEF ServerInv, ServerTyped
  <2> QED BY <2>1, <2>2, <2>3, <2>4 DEF Writable
<1> QED BY <1>1, <1>2

\* A change that a request writes is above all others of its entity.
LEMMA WritableIsNew ==
  ASSUME ServerInv, NEW e \in Event, open[e].changes = {}, NEW c, Writable(e, c)
  PROVE  /\ c.version \in Nat /\ c.version >= 1 /\ c.version <= c.seq
         /\ \A d \in Everything : d.key = c.key =>
              /\ d.event = e /\ d.due = c.due /\ d.seq < c.seq /\ d.version < c.version
              /\ d \in log
<1>1. nextSeq \in Nat \ {0} /\ c.seq \in Nat /\ nextSeq <= c.seq
  BY DEF ServerInv, ServerTyped, Writable
<1>2. CASE c.version = 1 /\ \A d \in Everything : d.key # c.key
  BY <1>1, <1>2
<1>3. CASE /\ Exists(c.key) /\ Row(c.key).event = e
           /\ c.due = Row(c.key).due /\ c.version = Row(c.key).version + 1
  <2> DEFINE R == Row(c.key)
  <2>1. /\ R \in log /\ R \in Everything /\ R.key = c.key
        /\ \A d \in log : d.key = c.key => d.seq <= R.seq
    BY <1>3, RowIs DEF ServerInv
  <2>2. R.version \in Nat /\ R.version >= 1 /\ R.seq \in Nat /\ R.version <= R.seq
        /\ R.seq < nextSeq
    BY <2>1, ChangeTyped DEF ServerInv, Versioned
  <2>3. /\ c.version = R.version + 1 /\ R.event = e /\ c.due = R.due
    BY <1>3
  <2> HIDE DEF R
  <2>4. ASSUME NEW d \in Everything, d.key = c.key
        PROVE  /\ d.event = e /\ d.due = c.due /\ d.seq < c.seq /\ d.version < c.version
               /\ d \in log
    <3>1. d.event = e /\ d.due = c.due /\ d.seq < nextSeq
      BY <2>1, <2>3, <2>4 DEF ServerInv, Versioned
    <3>2. d \in log
      <4>1. ASSUME NEW x \in Event, d \in open[x].changes PROVE FALSE
        <5>1. d.event = x
          BY <4>1 DEF ServerInv, Owned
        <5> QED BY <3>1, <4>1, <5>1
      <4> QED BY <2>4, <4>1, EverythingIs
    <3>3. d.seq \in Nat /\ d.version \in Nat
      BY <2>4, ChangeTyped DEF ServerInv
    <3>4. d.seq <= R.seq
      BY <2>1, <2>4, <3>2
    <3>5. d.version <= R.version
      <4>1. CASE d.seq < R.seq
        BY <2>1, <2>2, <2>4, <3>3, <4>1 DEF ServerInv, Versioned
      <4>2. CASE d.seq = R.seq
        BY <2>1, <2>2, <2>4, <4>2 DEF ServerInv, Versioned
      <4> QED BY <2>2, <3>3, <3>4, <4>1, <4>2
    <3> QED BY <1>1, <2>2, <2>3, <3>1, <3>2, <3>3, <3>5
  <2> QED BY <1>1, <2>2, <2>3, <2>4
<1> QED BY <1>2, <1>3 DEF Writable

LEMMA WritesKeep ==
  ASSUME ServerInv, NEW e \in Event, open[e].changes = {}, NEW N, IsFiniteSet(N),
         Writes(e, N), \A c, d \in N : c.key = d.key => c = d,
         \A c \in N : Writable(e, c) /\ c.seq < nextSeq + Cardinality(N)
  PROVE  /\ ServerInv'
         /\ \A c : c \in Everything' <=> c \in Everything \/ c \in N
<1>1. /\ nextSeq + Cardinality(N) - 1 <= MaxSeq
      /\ open' = [open EXCEPT ![e] = [changes |-> N, since |-> clock]]
      /\ nextSeq' = nextSeq + Cardinality(N)
      /\ UNCHANGED <<log, clock>>
  BY DEF Writes
<1>2. /\ log \in SUBSET Change /\ IsFiniteSet(log)
      /\ open \in [Event -> [changes : SUBSET Change, since : Nat]]
      /\ nextSeq \in Nat \ {0} /\ clock \in 0 .. MaxTime /\ clock \in Nat
      /\ MaxSeq \in Nat /\ Cardinality(N) \in Nat
      /\ \A x \in Event : IsFiniteSet(open[x].changes)
  BY FS_CardinalityType, SyncAssumption DEF ServerInv, ServerTyped
<1>3. \A c \in N : /\ c.version \in Nat /\ c.version >= 1 /\ c.version <= c.seq
                   /\ \A d \in Everything : d.key = c.key =>
                        /\ d.event = e /\ d.due = c.due /\ d.seq < c.seq
                        /\ d.version < c.version /\ d \in log
  BY WritableIsNew
<1>4. ASSUME NEW c \in N PROVE c \in Change
  <2>1. /\ c.seq \in 1 .. MaxSeq /\ c.version \in 1 .. MaxSeq
    BY <1>1, <1>2, <1>3 DEF Writable
  <2>2. /\ c.key \in Key /\ c.event \in Event /\ c.deleted \in BOOLEAN
        /\ c.due \in 0 .. MaxTime + Window
        /\ c = [seq |-> c.seq, key |-> c.key, event |-> c.event, version |-> c.version,
                deleted |-> c.deleted, due |-> c.due]
    BY DEF Writable
  <2> QED BY <2>1, <2>2 DEF Change
<1>5. /\ open'[e].changes = N /\ open'[e].since = clock
      /\ \A x \in Event : x # e => open'[x] = open[x]
      /\ open' \in [Event -> [changes : SUBSET Change, since : Nat]]
  <2>1. [changes |-> N, since |-> clock] \in [changes : SUBSET Change, since : Nat]
    BY <1>2, <1>4
  <2> QED BY <1>1, <1>2, <2>1
<1>6. ASSUME NEW c PROVE c \in Everything' <=> c \in Everything \/ c \in N
  <2>1. c \in Everything' <=> c \in log' \/ \E x \in Event : c \in open'[x].changes
    BY <1>1, <1>5, EverythingPrime
  <2>2. c \in Everything <=> c \in log \/ \E x \in Event : c \in open[x].changes
    BY EverythingIs
  <2> QED BY <1>1, <1>5, <2>1, <2>2
<1>7. ServerTyped'
  BY <1>1, <1>2, <1>5 DEF ServerTyped
<1>8. Owned'
  <2>1. ASSUME NEW c \in Everything', c.key \in Event PROVE c.event = c.key
    BY <1>6, <2>1 DEF ServerInv, Owned, Writable
  <2>2. ASSUME NEW x \in Event, NEW c \in open'[x].changes PROVE c.event = x
    BY <1>5, <2>2 DEF ServerInv, Owned, Writable
  <2> QED BY <2>1, <2>2 DEF Owned
<1>9. Versioned'
  <2>1. ASSUME NEW c \in Everything' PROVE c.seq < nextSeq' /\ c.version <= c.seq
    <3>1. CASE c \in Everything
      <4>1. c.seq < nextSeq /\ c.version <= c.seq /\ c.seq \in Nat
        BY <3>1, ChangeTyped DEF ServerInv, Versioned
      <4> QED BY <1>1, <1>2, <4>1
    <3>2. CASE c \in N
      BY <1>1, <1>3, <3>2
    <3> QED BY <1>6, <2>1, <3>1, <3>2
  <2>2. ASSUME NEW c \in Everything', NEW d \in Everything', c.key = d.key
        PROVE  /\ c.event = d.event /\ c.due = d.due
               /\ c.seq < d.seq => c.version < d.version
               /\ c.seq = d.seq => c = d
    <3>1. CASE c \in Everything /\ d \in Everything
      BY <2>2, <3>1 DEF ServerInv, Versioned
    <3>2. CASE c \in N /\ d \in N
      <4>1. c = d
        BY <2>2, <3>2
      <4>2. c.seq \in Nat
        BY <3>2 DEF Writable
      <4> QED BY <4>1, <4>2
    <3>3. CASE c \in N /\ d \in Everything
      <4>1. d.event = e /\ d.due = c.due /\ d.seq < c.seq /\ d.seq \in Nat /\ c.seq \in Nat
            /\ c.event = e
        BY <1>3, <2>2, <3>3, ChangeTyped DEF ServerInv, Writable
      <4> QED BY <4>1
    <3>4. CASE d \in N /\ c \in Everything
      <4>1. /\ c.event = e /\ d.due = c.due /\ c.seq < d.seq /\ d.seq \in Nat /\ c.seq \in Nat
            /\ d.event = e /\ c.version < d.version
        BY <1>3, <2>2, <3>4, ChangeTyped DEF ServerInv, Writable
      <4> QED BY <4>1
    <3> QED BY <1>6, <2>2, <3>1, <3>2, <3>3, <3>4
  <2> QED BY <2>1, <2>2 DEF Versioned
<1>10. InTime'
  <2>1. ASSUME NEW x \in Event, open'[x].changes # {}
        PROVE  /\ open'[x].since <= clock /\ clock <= open'[x].since + Margin
               /\ \A c \in open'[x].changes : c.key \in Notif /\ ~c.deleted =>
                    c.version = 1 \/ c.due > open'[x].since + Margin
    <3>1. CASE x = e
      <4>1. clock <= clock + Margin
        BY <1>2, TimingAssumption
      <4> QED BY <1>2, <1>5, <3>1, <4>1 DEF Writable
    <3>2. CASE x # e
      BY <1>5, <2>1, <3>2 DEF ServerInv, InTime
    <3> QED BY <3>1, <3>2
  <2> QED BY <1>1, <2>1 DEF InTime
<1> QED BY <1>6, <1>7, <1>8, <1>9, <1>10 DEF ServerInv

LEMMA AnnouncementLater ==
  ASSUME ServerInv, NEW e \in Event, NEW c \in Announcements(nextSeq + 1, e, FALSE)
  PROVE  Writable(e, c) /\ c.key \in Notif /\ c.seq = nextSeq + 1
<1>1. nextSeq + 1 \in Nat /\ nextSeq <= nextSeq + 1
  BY DEF ServerInv, ServerTyped
<1>2. \A manual \in BOOLEAN : \A d \in Announcements(nextSeq + 1, e, manual) :
         Writable(e, d) /\ d.key \in Notif /\ d.seq = nextSeq + 1
  BY <1>1, AnnouncementWritable
<1>3. FALSE \in BOOLEAN
  OBVIOUS
<1> QED BY Zenon, <1>2, <1>3

LEMMA AnnouncementNow ==
  ASSUME ServerInv, NEW e \in Event, NEW c \in Announcements(nextSeq, e, TRUE)
  PROVE  Writable(e, c) /\ c.key \in Notif /\ c.seq = nextSeq
<1>1. nextSeq \in Nat /\ nextSeq <= nextSeq
  BY DEF ServerInv, ServerTyped
<1>2. \A manual \in BOOLEAN : \A d \in Announcements(nextSeq, e, manual) :
         Writable(e, d) /\ d.key \in Notif /\ d.seq = nextSeq
  BY <1>1, AnnouncementWritable
<1>3. TRUE \in BOOLEAN
  OBVIOUS
<1> QED BY Zenon, <1>2, <1>3

\* The changes of a request on event e: what WritesKeep asks of them.
Batch(e, N) ==
  /\ IsFiniteSet(N)
  /\ \A c, d \in N : c.key = d.key => c = d
  /\ \A c \in N : Writable(e, c) /\ c.seq < nextSeq + Cardinality(N)

LEMMA OneBatch ==
  ASSUME ServerInv, NEW e \in Event, NEW c, Writable(e, c), c.seq = nextSeq
  PROVE  Batch(e, {c})
<1>1. IsFiniteSet({c}) /\ Cardinality({c}) = 1
  BY FS_Singleton
<1>2. nextSeq \in Nat
  BY DEF ServerInv, ServerTyped
<1>3. c.seq < nextSeq + Cardinality({c})
  BY <1>1, <1>2
<1> HIDE DEF Writable
<1> QED BY <1>1, <1>3 DEF Batch

LEMMA TwoBatch ==
  ASSUME ServerInv, NEW e \in Event, NEW c, Writable(e, c), c.seq = nextSeq,
         NEW d, Writable(e, d), d.seq = nextSeq + 1, c.key # d.key
  PROVE  Batch(e, {c, d})
<1>1. IsFiniteSet({c}) /\ Cardinality({c}) = 1 /\ d \notin {c}
  BY FS_Singleton
<1>2. IsFiniteSet({c} \cup {d}) /\ Cardinality({c} \cup {d}) = 1 + 1
  BY <1>1, FS_AddElement
<1>3. {c} \cup {d} = {c, d}
  OBVIOUS
<1>4. nextSeq \in Nat
  BY DEF ServerInv, ServerTyped
<1>5. \A x \in {c, d} : x.seq < nextSeq + Cardinality({c, d})
  BY <1>2, <1>3, <1>4
<1> QED BY <1>2, <1>3, <1>5 DEF Batch

\* The rows of a deletion: the event's, and those of the notifications it
\* withdraws, which have distinct numbers.
LEMMA DeleteBatch ==
  ASSUME ServerInv, NEW e \in Event, NEW c, Writable(e, c), c.seq = nextSeq, c.key = e,
         NEW due \in SUBSET Notif,
         NEW g, NEW R, R = {g[n] : n \in due}, DOMAIN g = due,
         \A n \in due : Writable(e, g[n]) /\ g[n].key = n
                        /\ g[n].seq \in nextSeq + 1 .. nextSeq + Cardinality(due)
  PROVE  Batch(e, {c} \union R)
<1> DEFINE f == [n \in due |-> g[n]]
<1>1. IsFiniteSet(due)
  BY FS_Subset, SyncAssumption
<1>2. f \in Bijection(due, R)
  <2>1. f \in [due -> R]
    OBVIOUS
  <2>2. \A m, n \in due : f[m] = f[n] => m = n
    OBVIOUS
  <2>3. \A r \in R : \E n \in due : f[n] = r
    OBVIOUS
  <2> QED BY <2>1, <2>2, <2>3, Fun_IsBij
<1>3. IsFiniteSet(R) /\ Cardinality(R) = Cardinality(due)
  BY <1>1, <1>2, FS_Bijection DEF ExistsBijection
<1>4. c \notin R
  BY SyncAssumption
<1>5. {c} \union R = R \union {c}
  OBVIOUS
<1>6. IsFiniteSet({c} \union R) /\ Cardinality({c} \union R) = Cardinality(due) + 1
  <2>1. IsFiniteSet(R \union {c}) /\ Cardinality(R \union {c}) = Cardinality(R) + 1
    BY <1>3, <1>4, FS_AddElement
  <2> QED BY <1>3, <1>5, <2>1
<1>7. nextSeq \in Nat /\ Cardinality(due) \in Nat
  BY <1>1, FS_CardinalityType DEF ServerInv, ServerTyped
<1>8. ASSUME NEW x \in {c} \union R
      PROVE  Writable(e, x) /\ x.seq < nextSeq + Cardinality({c} \union R)
  BY <1>6, <1>7
<1>9. ASSUME NEW x \in {c} \union R, NEW y \in {c} \union R, x.key = y.key
      PROVE  x = y
  BY <1>9, SyncAssumption
<1> QED BY <1>6, <1>8, <1>9 DEF Batch

LEMMA RequestWrites ==
  ASSUME ServerInv, NEW e \in Event, Request(e)
  PROVE  open[e].changes = {} /\ \E N : Batch(e, N) /\ Writes(e, N)
<1> USE FALSE \in BOOLEAN, TRUE \in BOOLEAN
<1>1. open[e].changes = {} /\ nextSeq \in Nat /\ nextSeq + 1 \in Nat
  BY DEF Request, ServerInv, ServerTyped
<1>2. e \notin Notif /\ e \in Key
  BY SyncAssumption DEF Key
<1>3. Live(e) => Exists(e) /\ Row(e).event = e
  <2>1. Exists(e) => Row(e) \in Everything /\ Row(e).key = e
    BY RowIs DEF ServerInv
  <2> QED BY <2>1 DEF Live, ServerInv, Owned
<1>4. ASSUME Live(e), NEW gone \in BOOLEAN
      PROVE  /\ Writable(e, Revised(nextSeq, e, gone)) /\ Revised(nextSeq, e, gone).key = e
             /\ Revised(nextSeq, e, gone).seq = nextSeq
  BY <1>1, <1>2, <1>3, <1>4, RevisedWritable
<1>5. ASSUME ~Exists(e),
             NEW n \in Announcements(nextSeq + 1, e, FALSE),
             Writes(e, {EventChange(nextSeq, e, 1, FALSE), n})
      PROVE  \E N : Batch(e, N) /\ Writes(e, N)
  <2> DEFINE c == EventChange(nextSeq, e, 1, FALSE)
  <2>1. \A d \in Everything : d.key # e
    <3>1. ASSUME NEW d \in Everything, d.key = e PROVE FALSE
      <4>1. d \notin log
        BY <1>5, <3>1 DEF Exists, Published
      <4>2. d.event = e
        BY <3>1 DEF ServerInv, Owned
      <4>3. ASSUME NEW x \in Event, d \in open[x].changes PROVE FALSE
        BY <1>1, <4>2, <4>3 DEF ServerInv, Owned
      <4> QED BY <4>1, <4>3, EverythingIs
    <3> QED BY <3>1
  <2>2. /\ c = [seq |-> nextSeq, key |-> e, event |-> e, version |-> 1,
                deleted |-> FALSE, due |-> 0]
    BY DEF EventChange
  <2>3. 0 \in 0 .. MaxTime + Window
    BY TimingAssumption, SyncAssumption
  <2>4. Writable(e, c) /\ c.key = e /\ c.seq = nextSeq
    <3> HIDE DEF c
    <3>1. /\ c.seq = nextSeq /\ c.key = e /\ c.event = e /\ c.version = 1
          /\ c.deleted = FALSE /\ c.due = 0
          /\ c = [seq |-> c.seq, key |-> c.key, event |-> c.event, version |-> c.version,
                  deleted |-> c.deleted, due |-> c.due]
      BY <2>2
    <3>2. c.deleted \in BOOLEAN /\ c.seq \in Nat /\ c.key \in Key /\ c.due \in 0 .. MaxTime + Window
      BY <1>1, <1>2, <2>3, <3>1
    <3>3. c.version = 1 /\ \A d \in Everything : d.key # c.key
      BY <2>1, <3>1
    <3>4. nextSeq <= c.seq /\ c.event = e /\ (c.key \in Event => c.key = e)
      BY <1>1, <3>1
    <3> QED BY <3>1, <3>2, <3>3, <3>4 DEF Writable
  <2>5. Writable(e, n) /\ n.key \in Notif /\ n.seq = nextSeq + 1
    BY Zenon, <1>1, AnnouncementLater
  <2>6. Batch(e, {c, n})
    BY <1>2, <2>4, <2>5, TwoBatch
  <2> QED BY <1>5, <2>6
<1>6. ASSUME Live(e), Writes(e, {Revised(nextSeq, e, FALSE)})
      PROVE  \E N : Batch(e, N) /\ Writes(e, N)
  <2>1. \A gone \in BOOLEAN : Batch(e, {Revised(nextSeq, e, gone)})
    BY <1>4, <1>6, OneBatch
  <2> QED BY Zenon, <1>6, <2>1
<1>7. ASSUME Live(e), NEW n \in Announcements(nextSeq + 1, e, FALSE),
             Writes(e, {Revised(nextSeq, e, FALSE), n})
      PROVE  \E N : Batch(e, N) /\ Writes(e, N)
  <2>1. Writable(e, n) /\ n.key \in Notif /\ n.seq = nextSeq + 1
    BY Zenon, <1>1, AnnouncementLater
  <2>2. \A gone \in BOOLEAN : Batch(e, {Revised(nextSeq, e, gone), n})
    BY <1>2, <1>4, <1>7, <2>1, TwoBatch
  <2> QED BY Zenon, <1>7, <2>2
<1>8. ASSUME NEW n \in Announcements(nextSeq, e, TRUE), Writes(e, {n})
      PROVE  \E N : Batch(e, N) /\ Writes(e, N)
  <2>1. Writable(e, n) /\ n.seq = nextSeq
    BY Zenon, <1>1, AnnouncementNow
  <2>2. Batch(e, {n})
    BY <2>1, OneBatch
  <2> QED BY <1>8, <2>2
<1> DEFINE due == {n \in Notif : Live(n) /\ Row(n).event = e /\ Row(n).due > clock}
<1> HIDE DEF due
<1>9. ASSUME Live(e),
             NEW seqOf \in [due -> nextSeq + 1 .. nextSeq + Cardinality(due)],
             Writes(e, {Revised(nextSeq, e, TRUE)}
                       \union {Revised(seqOf[n], n, TRUE) : n \in due})
      PROVE  \E N : Batch(e, N) /\ Writes(e, N)
  <2> DEFINE c(gone) == Revised(nextSeq, e, gone)
             g(gone) == [n \in due |-> Revised(seqOf[n], n, gone)]
             R(gone) == {g(gone)[n] : n \in due}
             M(gone) == {Revised(seqOf[n], n, gone) : n \in due}
  <2>1. due \in SUBSET Notif
    BY DEF due
  <2>2. ASSUME NEW gone \in BOOLEAN, gone
        PROVE  Batch(e, {c(gone)} \union M(gone))
    <3>1. ASSUME NEW n \in due
          PROVE  /\ Writable(e, g(gone)[n]) /\ g(gone)[n].key = n
                 /\ g(gone)[n].seq \in nextSeq + 1 .. nextSeq + Cardinality(due)
      <4>1. seqOf[n] \in nextSeq + 1 .. nextSeq + Cardinality(due)
        OBVIOUS
      <4>2. IsFiniteSet(due)
        BY <2>1, FS_Subset, SyncAssumption
      <4>3. seqOf[n] \in Nat /\ nextSeq <= seqOf[n]
        BY <1>1, <4>1, <4>2, FS_CardinalityType
      <4>4. Exists(n) /\ Row(n).event = e
        BY DEF Live, due
      <4>5. /\ Writable(e, Revised(seqOf[n], n, gone)) /\ Revised(seqOf[n], n, gone).key = n
            /\ Revised(seqOf[n], n, gone).seq = seqOf[n]
        <5>1. n \in Notif /\ ~gone => Row(n).due > clock + Margin
          BY <2>2
        <5> HIDE <2>2
        <5> QED BY <4>3, <4>4, <5>1, RevisedWritable
      <4> QED BY <4>1, <4>5
    <3>2. Writable(e, c(gone)) /\ c(gone).key = e /\ c(gone).seq = nextSeq
      BY <1>4, <1>9
    <3>3. DOMAIN g(gone) = due /\ M(gone) = R(gone)
      OBVIOUS
    <3> HIDE DEF c, g
    <3>4. Batch(e, {c(gone)} \union R(gone))
      BY <2>1, <3>1, <3>2, <3>3, DeleteBatch
    <3> QED BY <3>3, <3>4
  <2>3. \A gone \in BOOLEAN : gone =>
          Batch(e, {Revised(nextSeq, e, gone)}
                   \union {Revised(seqOf[n], n, gone) : n \in due})
    BY <2>2
  <2> QED BY Zenon, <1>9, <2>3
<1>10. \E N : Batch(e, N) /\ Writes(e, N)
  <2>1. CASE ~Exists(e) /\ \E n \in Announcements(nextSeq + 1, e, FALSE) :
               Writes(e, {EventChange(nextSeq, e, 1, FALSE), n})
    BY Zenon, <1>5, <2>1
  <2>2. CASE Live(e) /\ Writes(e, {Revised(nextSeq, e, FALSE)})
    BY Zenon, <1>6, <2>2
  <2>3. CASE Live(e) /\ \E n \in Announcements(nextSeq + 1, e, FALSE) :
               Writes(e, {Revised(nextSeq, e, FALSE), n})
    BY Zenon, <1>7, <2>3
  <2>4. CASE Live(e) /\ \E n \in Announcements(nextSeq, e, TRUE) : Writes(e, {n})
    BY Zenon, <1>8, <2>4
  <2>5. CASE Live(e) /\ \E seqOf \in [due -> nextSeq + 1 .. nextSeq + Cardinality(due)] :
               /\ \A m, n \in due : seqOf[m] = seqOf[n] => m = n
               /\ Writes(e, {Revised(nextSeq, e, TRUE)}
                            \union {Revised(seqOf[n], n, TRUE) : n \in due})
    <3>1. PICK seqOf \in [due -> nextSeq + 1 .. nextSeq + Cardinality(due)] :
            Writes(e, {Revised(nextSeq, e, TRUE)} \union {Revised(seqOf[n], n, TRUE) : n \in due})
      BY Zenon, <2>5
    <3> QED BY Zenon, <1>9, <2>5, <3>1
  <2> QED BY Zenon, <2>1, <2>2, <2>3, <2>4, <2>5 DEF Request, due
<1> QED BY <1>1, <1>10

-----------------------------------------------------------------------------
(* The steps of the server *)

LEMMA RequestKeeps ==
  ASSUME ServerInv, NEW e \in Event, Request(e)
  PROVE  /\ ServerInv' /\ UNCHANGED <<log, clock, phone, pull, history>>
         /\ \A c \in Everything' : c \in Everything \/ (Writable(e, c) /\ open[e].changes = {})
         /\ \A c \in Everything : c \in Everything'
<1>1. PICK N : Batch(e, N) /\ Writes(e, N) /\ open[e].changes = {}
  BY RequestWrites
<1>2. /\ IsFiniteSet(N) /\ \A c, d \in N : c.key = d.key => c = d
      /\ \A c \in N : Writable(e, c) /\ c.seq < nextSeq + Cardinality(N)
  BY <1>1 DEF Batch
<1>3. ServerInv' /\ \A c : c \in Everything' <=> c \in Everything \/ c \in N
  BY <1>1, <1>2, WritesKeep
<1>4. UNCHANGED <<log, clock, phone, pull, history>>
  BY <1>1 DEF Writes
<1> QED BY <1>1, <1>2, <1>3, <1>4

\* A transaction ends: whether its changes are committed or not, what remains
\* was there.
LEMMA EndKeeps ==
  ASSUME ServerInv, NEW e \in Event, UNCHANGED <<nextSeq, clock>>,
         open' = [open EXCEPT ![e] = Free],
         log' = log \/ log' = log \union open[e].changes
  PROVE  ServerInv' /\ log \subseteq log' /\ \A c \in Everything' : c \in Everything
<1>1. /\ log \in SUBSET Change /\ IsFiniteSet(log)
      /\ open \in [Event -> [changes : SUBSET Change, since : Nat]]
      /\ \A x \in Event : IsFiniteSet(open[x].changes)
  BY DEF ServerInv, ServerTyped
<1>2. /\ open'[e].changes = {} /\ \A x \in Event : x # e => open'[x] = open[x]
      /\ open' \in [Event -> [changes : SUBSET Change, since : Nat]]
  BY <1>1 DEF Free
<1>3. log' \in SUBSET Change /\ IsFiniteSet(log') /\ log \subseteq log'
      /\ log' \subseteq log \union open[e].changes
  BY <1>1, FS_Union
<1>4. \A x \in Event : IsFiniteSet(open'[x].changes) /\ open'[x].changes \subseteq open[x].changes
  BY <1>1, <1>2, FS_EmptySet
<1>5. ASSUME NEW c \in Everything' PROVE c \in Everything
  BY <1>3, <1>4, EverythingIs, EverythingPrime
<1>6. ServerTyped'
  BY <1>2, <1>3, <1>4 DEF ServerInv, ServerTyped
<1>7. Owned'
  BY <1>4, <1>5 DEF ServerInv, Owned
<1>8. Versioned'
  BY <1>5 DEF ServerInv, Versioned
<1>9. InTime'
  BY <1>2 DEF ServerInv, InTime
<1> QED BY <1>3, <1>5, <1>6, <1>7, <1>8, <1>9 DEF ServerInv

LEMMA TickKeeps ==
  ASSUME ServerInv, Tick
  PROVE  /\ ServerInv' /\ UNCHANGED <<log, phone, pull, history>> /\ clock <= clock'
         /\ clock \in Nat /\ clock' \in Nat
         /\ \A c : c \in Everything' <=> c \in Everything
<1>1. /\ clock < MaxTime /\ clock' = clock + 1
      /\ \A e \in Event : open[e].changes # {} => clock < open[e].since + Margin
      /\ UNCHANGED <<log, open, nextSeq, phone, pull, history>>
  BY DEF Tick
<1>2. clock \in 0 .. MaxTime /\ clock \in Nat /\ MaxTime \in Nat /\ Margin \in Nat
      /\ \A e \in Event : open[e].since \in Nat
  BY TimingAssumption, SyncAssumption DEF ServerInv, ServerTyped
<1>3. clock' \in 0 .. MaxTime /\ clock <= clock' /\ clock' \in Nat
  BY <1>1, <1>2
<1>4. \A c : c \in Everything' <=> c \in Everything
  BY <1>1 DEF Everything
<1>5. ServerTyped'
  BY <1>1, <1>3 DEF ServerInv, ServerTyped
<1>6. Owned' /\ Versioned'
  BY <1>1, <1>4 DEF ServerInv, Owned, Versioned
<1>7. InTime'
  <2>1. ASSUME NEW e \in Event, open[e].changes # {}
        PROVE  open[e].since <= clock' /\ clock' <= open[e].since + Margin
    <3>1. clock < open[e].since + Margin /\ open[e].since <= clock
      BY <1>1, <2>1 DEF ServerInv, InTime
    <3> QED BY <1>1, <1>2, <3>1
  <2> QED BY <1>1, <2>1 DEF ServerInv, InTime
<1> QED BY <1>1, <1>2, <1>3, <1>4, <1>5, <1>6, <1>7 DEF ServerInv

\* A step that leaves the server alone.
LEMMA ServerStill ==
  ASSUME ServerInv, UNCHANGED server
  PROVE  ServerInv' /\ UNCHANGED <<log, clock>> /\ \A c : c \in Everything' <=> c \in Everything
BY DEF server, ServerInv, ServerTyped, Owned, Versioned, InTime, Everything

-----------------------------------------------------------------------------
(* What the phone has is genuine, however many isolates pull *)

LEMMA IdleGenuine == Idle \in PullRecord /\ GenuinePull(Idle) /\ Idle.pc = "idle"
BY DEF Idle, PullRecord, GenuinePull, Steps, Delivering

\* A step of the server leaves what the phone has genuine.
LEMMA PhoneWaits ==
  ASSUME PhoneInv, ServerInv', log \subseteq log', clock <= clock',
         UNCHANGED <<cache, cursor, tray, pull, served>>
  PROVE  PhoneInv'
<1>1. clock \in Nat /\ clock' \in Nat
  BY DEF PhoneInv, ServerInv, ServerTyped
<1>2. PhoneTyped'
  BY DEF PhoneInv, PhoneTyped
<1>3. ASSUME NEW p \in Pull PROVE GenuinePull(pull[p])'
  <2>1. GenuinePull(pull[p]) /\ pull[p].now \in Nat
    BY DEF PhoneInv, Genuine, PhoneTyped, PullRecord
  <2>2. pull[p].pc \notin {"idle", "request"} => pull[p].now <= clock'
    BY <1>1, <2>1 DEF GenuinePull
  <2> QED BY <2>1, <2>2 DEF GenuinePull
<1>4. ASSUME NEW k \in Key PROVE GenuineRow(cache[k], k)'
  BY DEF PhoneInv, Genuine, GenuineRow
<1>5. ASSUME NEW n \in Notif, tray[n] # 0
      PROVE  \E c \in log' : c.key = n /\ c.due <= clock'
  <2>1. PICK c \in log : c.key = n /\ c.due <= clock
    BY <1>5 DEF PhoneInv, TrayIsDue
  <2>2. c.due \in Nat
    BY <2>1, EverythingIs, ChangeTyped DEF PhoneInv, ServerInv
  <2>3. c.due <= clock'
    BY <1>1, <2>1, <2>2
  <2> QED BY <2>1, <2>3
<1>6. TrayIsDue'
  BY <1>5 DEF TrayIsDue
<1> QED BY <1>2, <1>3, <1>4, <1>6 DEF PhoneInv, Genuine

\* A step of one pull.
LEMMA PullMoves ==
  ASSUME PhoneInv, UNCHANGED server, NEW p \in Pull, NEW s \in PullRecord, GenuinePull(s),
         pull' = [pull EXCEPT ![p] = s],
         cache' \in [Key -> Change \union {NoRow}], \A k \in Key : GenuineRow(cache'[k], k),
         cursor' \in Nat, served' \in Nat, tray' \in [Notif -> Nat],
         \A n \in Notif : tray'[n] = tray[n] \/ \E c \in log : c.key = n /\ c.due <= clock
  PROVE  PhoneInv'
<1>1. ServerInv' /\ UNCHANGED <<log, clock>>
  BY ServerStill DEF PhoneInv
<1>2. \A q \in Pull : pull'[q] = IF q = p THEN s ELSE pull[q]
  BY DEF PhoneInv, PhoneTyped
<1>3. PhoneTyped'
  BY DEF PhoneInv, PhoneTyped
<1>4. ASSUME NEW q \in Pull PROVE GenuinePull(pull[q])'
  <2>1. GenuinePull(pull'[q])
    BY <1>2 DEF PhoneInv, Genuine
  <2> QED BY <1>1, <2>1 DEF GenuinePull
<1>5. ASSUME NEW k \in Key PROVE GenuineRow(cache[k], k)'
  BY <1>1 DEF GenuineRow
<1>6. TrayIsDue'
  BY <1>1 DEF PhoneInv, TrayIsDue
<1> QED BY <1>1, <1>3, <1>4, <1>5, <1>6 DEF PhoneInv, Genuine

\* What such a step may assume.
LEMMA PullFacts ==
  ASSUME PhoneInv, NEW p \in Pull
  PROVE  /\ pull[p] \in PullRecord /\ GenuinePull(pull[p])
         /\ pull \in [Pull -> PullRecord]
         /\ cache \in [Key -> Change \union {NoRow}] /\ \A k \in Key : GenuineRow(cache[k], k)
         /\ cursor \in Nat /\ served \in Nat /\ tray \in [Notif -> Nat]
         /\ clock \in Nat /\ log \in SUBSET Change /\ IsFiniteSet(log)
BY DEF PhoneInv, PhoneTyped, Genuine, ServerInv, ServerTyped

LEMMA StartGenuine ==
  ASSUME PhoneInv, NEW p \in Pull, Start(p)
  PROVE  PhoneInv'
<1> DEFINE s == [Idle EXCEPT !.pc = "request", !.cursor = cursor, !.first = (cursor = 0),
                             !.now = clock + Skew]
<1>1. pull' = [pull EXCEPT ![p] = s] /\ UNCHANGED <<server, phone, history>>
  BY DEF Start
<1>2. clock + Skew \in Nat /\ cursor \in Nat
  BY SyncAssumption, PullFacts
<1>3. s \in PullRecord /\ s.page = {} /\ s.pc = "request"
  BY <1>2, IdleGenuine DEF PullRecord, Idle, Steps
<1>4. GenuinePull(s)
  BY <1>3 DEF GenuinePull, Delivering
<1> HIDE DEF s
<1> QED BY <1>1, <1>3, <1>4, PullFacts, PullMoves DEF phone, history

LEMMA ServerTimeGenuine ==
  ASSUME PhoneInv, NEW p \in Pull, ServerTime(p)
  PROVE  PhoneInv'
<1> DEFINE s == [pull[p] EXCEPT !.pc = "read", !.now = clock]
<1>1. pull' = [pull EXCEPT ![p] = s] /\ UNCHANGED <<server, phone, history>>
  BY DEF ServerTime
<1>2. s \in PullRecord /\ s.pc = "read" /\ s.now = clock /\ s.page = pull[p].page
  BY PullFacts DEF PullRecord, Steps
<1>3. GenuinePull(s)
  BY <1>2, PullFacts DEF GenuinePull, Delivering
<1> HIDE DEF s
<1> QED BY <1>1, <1>2, <1>3, PullFacts, PullMoves DEF phone, history

LEMMA EndGenuine ==
  ASSUME PhoneInv, NEW p \in Pull, pull' = [pull EXCEPT ![p] = Idle],
         UNCHANGED <<server, cache, cursor, tray, served>>
  PROVE  PhoneInv'
BY IdleGenuine, PullFacts, PullMoves

\* A page holds every change above the cursor up to the number it ends with.
LEMMA PageFacts ==
  ASSUME NEW b \in Nat, log \in SUBSET Change, IsFiniteSet(log),
         NEW page, page = Page(Above(b)),
         NEW next, next = IF page = {} THEN b ELSE Newest(page).seq
  PROVE  /\ page \in SUBSET Change /\ page \subseteq log /\ IsFiniteSet(page)
         /\ next \in Nat /\ b <= next
         /\ \A d \in page : b < d.seq
         /\ \A c \in log : b < c.seq /\ c.seq <= next => c \in page
         /\ page = Above(b) => \A c \in log : c.seq <= next
<1> DEFINE rows == Above(b)
<1>1. /\ rows \subseteq log /\ IsFiniteSet(rows) /\ \A c \in rows : b < c.seq
      /\ \A c \in log : c.seq \in Nat
  BY FS_Subset DEF Above, Change
<1>2. page \subseteq rows /\ page \in SUBSET Change /\ IsFiniteSet(page)
  <2>1. page \subseteq rows
    BY DEF Page
  <2> QED BY <1>1, <2>1, FS_Subset
<1>3. CASE page = {}
  <2>1. \A c \in log : ~(b < c.seq /\ c.seq <= b)
    BY <1>1
  <2>2. ASSUME page = Above(b), NEW c \in log PROVE c.seq <= b
    <3>1. ~(c.seq > b)
      BY <1>3, <2>2 DEF Above
    <3> QED BY <1>1, <3>1
  <2> QED BY <1>1, <1>2, <1>3, <2>1, <2>2
<1>4. CASE page # {}
  <2> DEFINE m == Newest(page)
  <2>1. m \in page /\ \A d \in page : d.seq <= m.seq
    BY <1>2, <1>4, NewestIs
  <2>2. next = m.seq /\ m \in log /\ m.seq \in Nat /\ b < m.seq
    BY <1>1, <1>2, <1>4, <2>1
  <2> HIDE DEF m, rows
  <2>3. ASSUME NEW c \in log, b < c.seq, c.seq <= next
        PROVE  c \in page
    <3> DEFINE C == {d \in rows : d.seq < c.seq}
               M == {d \in rows : d.seq < m.seq}
    <3>1. c \in rows
      BY <1>1, <2>3 DEF Above, rows
    <3>2. C \subseteq M
      <4>1. ASSUME NEW d \in rows, d.seq < c.seq PROVE d.seq < m.seq
        <5>1. d.seq \in Nat /\ c.seq \in Nat /\ c.seq <= m.seq
          BY <1>1, <2>2, <2>3
        <5> QED BY <2>2, <4>1, <5>1
      <4> QED BY <4>1
    <3>3. IsFiniteSet(M) /\ IsFiniteSet(C)
      BY <1>1, FS_Subset
    <3>4. Cardinality(C) <= Cardinality(M) /\ Cardinality(C) \in Nat /\ Cardinality(M) \in Nat
      BY <3>2, <3>3, FS_Subset, FS_CardinalityType
    <3>5. Cardinality(M) < Limit
      BY <2>1 DEF Page, rows
    <3>6. Cardinality(C) < Limit
      BY <3>4, <3>5, SyncAssumption
    <3> QED BY <3>1, <3>6 DEF Page, rows
  <2>4. ASSUME page = Above(b), NEW c \in log PROVE c.seq <= next
    <3>1. CASE c.seq > b
      BY <2>1, <2>2, <2>4, <3>1 DEF Above
    <3>2. CASE ~(c.seq > b)
      BY <1>1, <2>2, <3>2
    <3> QED BY <3>1, <3>2
  <2> QED BY <1>1, <1>2, <2>2, <2>3, <2>4
<1> QED BY <1>3, <1>4

LEMMA ReadPageGenuine ==
  ASSUME PhoneInv, NEW p \in Pull, ReadPage(p)
  PROVE  PhoneInv'
<1> DEFINE page == Page(Above(pull[p].cursor))
           next == IF page = {} THEN pull[p].cursor ELSE Newest(page).seq
           more == (page # Above(pull[p].cursor))
           s == [pull[p] EXCEPT !.pc = "apply", !.page = page, !.next = next, !.more = more]
<1>1. /\ pull[p].pc = "read" /\ pull' = [pull EXCEPT ![p] = s]
      /\ served' = IF next > served THEN next ELSE served
      /\ UNCHANGED <<server, phone>>
  BY DEF ReadPage, Step
<1>2. pull[p].cursor \in Nat /\ pull[p] \in PullRecord
  BY PullFacts DEF PullRecord
<1>3. page \in SUBSET Change /\ page \subseteq log /\ next \in Nat
  <2> DEFINE b == pull[p].cursor
  <2>1. log \in SUBSET Change /\ IsFiniteSet(log)
    BY PullFacts
  <2>2. page = Page(Above(b)) /\ next = IF page = {} THEN b ELSE Newest(page).seq
    OBVIOUS
  <2>3. b \in Nat
    BY <1>2
  <2> HIDE DEF page, next, b
  <2> QED BY <2>1, <2>2, <2>3, PageFacts
<1> HIDE DEF page, next
<1>4. more \in BOOLEAN
  OBVIOUS
<1> HIDE DEF more
<1>5. s \in PullRecord /\ s.pc = "apply" /\ s.now = pull[p].now /\ s.page = page
  BY <1>2, <1>3, <1>4 DEF PullRecord, Steps
<1>6. GenuinePull(s)
  <2>1. pull[p].now <= clock
    BY <1>1, PullFacts DEF GenuinePull
  <2> QED BY <1>3, <1>5, <2>1 DEF GenuinePull, Delivering
<1>7. served' \in Nat
  BY <1>1, <1>3, PullFacts
<1> HIDE DEF s
<1> QED BY <1>1, <1>5, <1>6, <1>7, PullFacts, PullMoves DEF phone

LEMMA ApplyFacts ==
  ASSUME PhoneInv, NEW p \in Pull, Apply(p)
  PROVE  LET c == Oldest(pull[p].page) IN
         /\ c \in pull[p].page /\ c \in log /\ c \in Change /\ c.key \in Key /\ c # NoRow
         /\ \A d \in pull[p].page : c.seq <= d.seq
<1>1. pull[p].page # {} /\ pull[p].page \subseteq log
  BY PullFacts DEF Apply, GenuinePull
<1>2. pull[p].page \in SUBSET Change /\ IsFiniteSet(pull[p].page)
  BY <1>1, PullFacts, FS_Subset
<1>3. Oldest(pull[p].page) \in pull[p].page
      /\ \A d \in pull[p].page : Oldest(pull[p].page).seq <= d.seq
  BY <1>1, <1>2, OldestIs
<1> QED BY <1>1, <1>2, <1>3, NoRowAssumption DEF Change

LEMMA ApplyGenuine ==
  ASSUME PhoneInv, NEW p \in Pull, Apply(p)
  PROVE  PhoneInv'
<1> DEFINE c == Oldest(pull[p].page)
           s == [pull[p] EXCEPT !.page = @ \ {c}]
<1>1. /\ pull[p].pc = "apply" /\ pull' = [pull EXCEPT ![p] = s]
      /\ cache' = [cache EXCEPT ![c.key] = c]
      /\ UNCHANGED <<server, cursor, shown, tray, failures, history>>
  BY DEF Apply, Step
<1>2. c \in pull[p].page /\ c \in log /\ c \in Change /\ c.key \in Key
  BY ApplyFacts
<1> HIDE DEF c
<1>3. s \in PullRecord /\ s.pc = "apply" /\ s.now = pull[p].now /\ s.page = pull[p].page \ {c}
  BY <1>1, PullFacts DEF PullRecord
<1>4. GenuinePull(s)
  BY <1>1, <1>3, PullFacts DEF GenuinePull, Delivering
<1>5. cache' \in [Key -> Change \union {NoRow}] /\ \A k \in Key : GenuineRow(cache'[k], k)
  BY <1>1, <1>2, PullFacts DEF GenuineRow
<1> HIDE DEF s
<1> QED BY <1>1, <1>3, <1>4, <1>5, PullFacts, PullMoves DEF history

LEMMA StoreCursorGenuine ==
  ASSUME PhoneInv, NEW p \in Pull, StoreCursor(p)
  PROVE  PhoneInv'
<1> DEFINE s == AfterPage(p, pull[p].now)
<1>1. /\ pull[p].pc = "apply" /\ pull[p].page = {} /\ pull' = [pull EXCEPT ![p] = s]
      /\ cursor' = pull[p].next
      /\ UNCHANGED <<server, cache, shown, tray, failures, history>>
  BY DEF StoreCursor, Step
<1>2. pull[p].now <= clock /\ pull[p].now \in Nat /\ pull[p].next \in Nat
      /\ pull[p] \in PullRecord
  BY <1>1, PullFacts DEF GenuinePull, PullRecord
<1>3. s \in PullRecord /\ GenuinePull(s)
  <2>1. CASE pull[p].more
    <3>1. s = [pull[p] EXCEPT !.pc = "request", !.cursor = pull[p].next, !.next = 0,
                              !.more = FALSE, !.now = pull[p].now]
      BY <2>1 DEF AfterPage
    <3> HIDE DEF s
    <3>2. s \in PullRecord /\ s.pc = "request" /\ s.page = {}
      BY <1>1, <1>2, <3>1 DEF PullRecord, Steps
    <3> QED BY <3>2 DEF GenuinePull, Delivering
  <2>2. CASE ~pull[p].more
    <3> DEFINE pc == IF pull[p].first THEN "mark" ELSE "list"
    <3>1. s = [Idle EXCEPT !.pc = pc, !.now = pull[p].now]
      BY <2>2 DEF AfterPage
    <3>2. pc \in {"mark", "list"}
      OBVIOUS
    <3> HIDE DEF s, pc
    <3>3. s \in PullRecord /\ s.pc = pc /\ s.page = {} /\ s.now = pull[p].now
      BY <1>2, <3>1, <3>2, IdleGenuine DEF PullRecord, Steps, Idle
    <3> QED BY <1>2, <3>2, <3>3 DEF GenuinePull, Delivering
  <2> QED BY <2>1, <2>2
<1> HIDE DEF s
<1> QED BY <1>1, <1>2, <1>3, PullFacts, PullMoves DEF history

LEMMA MarkHistoryGenuine ==
  ASSUME PhoneInv, NEW p \in Pull, MarkHistory(p)
  PROVE  PhoneInv'
BY EndGenuine DEF MarkHistory

\* The rows that dueNotifications returns.
DueRows(p) ==
  {cache[n] : n \in {m \in Notif : /\ cache[m] # NoRow /\ ~cache[m].deleted
                                   /\ cache[m].due <= pull[p].now
                                   /\ shown[m] < cache[m].version}}

LEMMA ListDueFacts ==
  ASSUME PhoneInv, NEW p \in Pull, ListDue(p)
  PROVE  /\ pull[p].pc = "list" /\ UNCHANGED <<server, phone, failures, history>>
         /\ \/ pull' = [pull EXCEPT ![p] = Idle]
            \/ pull' = [pull EXCEPT ![p] = [pull[p] EXCEPT !.pc = "deliver", !.due = DueRows(p)]]
         /\ \A r \in DueRows(p) :
              /\ r \in log /\ r.key \in Notif /\ ~r.deleted /\ r.due <= pull[p].now
              /\ r = cache[r.key]
<1>1. ASSUME NEW r \in DueRows(p)
      PROVE  /\ r \in log /\ r.key \in Notif /\ ~r.deleted /\ r.due <= pull[p].now
             /\ r = cache[r.key]
  <2>1. PICK n \in Notif : /\ cache[n] # NoRow /\ ~cache[n].deleted
                           /\ cache[n].due <= pull[p].now /\ r = cache[n]
    BY DEF DueRows
  <2>2. n \in Key
    BY DEF Key
  <2> QED BY <2>1, <2>2, PullFacts DEF GenuineRow
<1> DEFINE due == {m \in Notif : /\ cache[m] # NoRow /\ ~cache[m].deleted
                                 /\ cache[m].due <= pull[p].now
                                 /\ shown[m] < cache[m].version}
<1>2. /\ pull[p].pc = "list" /\ UNCHANGED <<server, phone, failures, history>>
      /\ pull' = [pull EXCEPT ![p] = IF due = {} THEN Idle
                     ELSE [@ EXCEPT !.pc = "deliver", !.due = {cache[n] : n \in due}]]
  BY DEF ListDue, Step
<1>3. DueRows(p) = {cache[n] : n \in due}
  BY DEF DueRows
<1> HIDE DEF due
<1> QED BY <1>1, <1>2, <1>3

LEMMA ListDueGenuine ==
  ASSUME PhoneInv, NEW p \in Pull, ListDue(p)
  PROVE  PhoneInv'
<1> DEFINE s == [pull[p] EXCEPT !.pc = "deliver", !.due = DueRows(p)]
<1>1. CASE pull' = [pull EXCEPT ![p] = Idle]
  BY <1>1, ListDueFacts, EndGenuine DEF phone, history
<1>2. CASE pull' = [pull EXCEPT ![p] = s]
  <2>1. /\ pull[p].pc = "list" /\ pull[p].now <= clock
        /\ \A r \in DueRows(p) :
             r \in log /\ r.key \in Notif /\ ~r.deleted /\ r.due <= pull[p].now
    BY ListDueFacts, PullFacts DEF GenuinePull
  <2>2. DueRows(p) \in SUBSET Change
    BY <2>1, PullFacts
  <2>3. s \in PullRecord /\ s.pc = "deliver" /\ s.due = DueRows(p) /\ s.now = pull[p].now
        /\ s.page = pull[p].page
    BY <2>2, PullFacts DEF PullRecord, Steps
  <2>4. GenuinePull(s)
    BY <2>1, <2>3, PullFacts DEF GenuinePull, Delivering
  <2> HIDE DEF s
  <2> QED BY <1>2, <2>3, <2>4, ListDueFacts, PullFacts, PullMoves DEF phone, history
<1> QED BY <1>1, <1>2, ListDueFacts

\* What is left of a delivery when row r is done.
LEMMA DoneFacts ==
  ASSUME PhoneInv, NEW p \in Pull, NEW r, Done(p, r), pull[p].pc \in Delivering
  PROVE  \E s \in PullRecord :
           /\ GenuinePull(s) /\ pull' = [pull EXCEPT ![p] = s]
           /\ s.pc \in {"idle", "deliver"} /\ s.due \subseteq pull[p].due
<1> DEFINE s == [pull[p] EXCEPT !.pc = "deliver", !.due = @ \ {r}, !.row = NoRow]
<1>1. \/ pull' = [pull EXCEPT ![p] = Idle]
      \/ pull' = [pull EXCEPT ![p] = s]
  <2>1. pull' = [pull EXCEPT ![p] = IF pull[p].due \ {r} = {} THEN Idle ELSE s]
    BY DEF Done
  <2> HIDE DEF s
  <2> QED BY <2>1
<1>2. CASE pull' = [pull EXCEPT ![p] = Idle]
  <2>1. Idle.due \subseteq pull[p].due
    BY DEF Idle
  <2> QED BY <1>2, <2>1, IdleGenuine
<1>3. CASE pull' = [pull EXCEPT ![p] = s]
  <2>1. /\ s \in PullRecord /\ s.pc = "deliver" /\ s.due = pull[p].due \ {r}
        /\ s.now = pull[p].now /\ s.page = pull[p].page
    BY PullFacts DEF PullRecord, Steps
  <2>2. pull[p].pc \notin {"idle", "request"}
    BY DEF Delivering
  <2> HIDE DEF s
  <2>3. GenuinePull(s)
    BY <2>1, <2>2, PullFacts DEF GenuinePull, Delivering
  <2> QED BY <1>3, <2>1, <2>3
<1> QED BY <1>1, <1>2, <1>3

LEMMA DoneGenuine ==
  ASSUME PhoneInv, NEW p \in Pull, NEW r, Done(p, r), pull[p].pc \in Delivering,
         UNCHANGED <<server, cache, cursor, tray, served>>
  PROVE  PhoneInv'
<1>1. PICK s \in PullRecord : GenuinePull(s) /\ pull' = [pull EXCEPT ![p] = s]
  BY DoneFacts
<1> QED BY <1>1, PullFacts, PullMoves

LEMMA DeliverFacts ==
  ASSUME PhoneInv, NEW p \in Pull, Deliver(p)
  PROVE  /\ pull[p].pc = "deliver" /\ UNCHANGED <<server, cache, cursor, tray, failures, served, late>>
         /\ \E r \in pull[p].due :
              \/ Done(p, r)
              \/ pull' = [pull EXCEPT ![p] = [pull[p] EXCEPT !.pc = "show", !.row = r]]
BY DEF Deliver, Step

LEMMA DeliverGenuine ==
  ASSUME PhoneInv, NEW p \in Pull, Deliver(p)
  PROVE  PhoneInv'
<1>1. PICK r \in pull[p].due :
         \/ Done(p, r)
         \/ pull' = [pull EXCEPT ![p] = [pull[p] EXCEPT !.pc = "show", !.row = r]]
  BY DeliverFacts
<1>2. CASE Done(p, r)
  BY <1>2, DeliverFacts, DoneGenuine DEF Delivering
<1>3. CASE pull' = [pull EXCEPT ![p] = [pull[p] EXCEPT !.pc = "show", !.row = r]]
  <2> DEFINE s == [pull[p] EXCEPT !.pc = "show", !.row = r]
  <2>1. pull[p].pc = "deliver" /\ r \in Change
    BY DeliverFacts, PullFacts DEF PullRecord
  <2>2. /\ s \in PullRecord /\ s.pc = "show" /\ s.row = r /\ s.due = pull[p].due
        /\ s.now = pull[p].now /\ s.page = pull[p].page
    BY <2>1, PullFacts DEF PullRecord, Steps
  <2>3. GenuinePull(s)
    BY <2>1, <2>2, PullFacts DEF GenuinePull, Delivering
  <2>4. pull' = [pull EXCEPT ![p] = s] /\ UNCHANGED <<server, cache, cursor, tray, served>>
    BY <1>3, DeliverFacts
  <2> HIDE DEF s
  <2> QED BY <2>2, <2>3, <2>4, PullFacts, PullMoves
<1> QED BY <1>1, <1>2, <1>3

LEMMA ShowFacts ==
  ASSUME PhoneInv, NEW p \in Pull, Show(p)
  PROVE  LET r == pull[p].row IN
         /\ pull[p].pc = "show" /\ pull' = [pull EXCEPT ![p] = [pull[p] EXCEPT !.pc = "shown"]]
         /\ UNCHANGED <<server, cache, cursor, shown, failures, history>>
         /\ r \in pull[p].due /\ r \in log /\ r.key \in Notif /\ ~r.deleted
         /\ r.due <= clock /\ r.version \in Nat
         /\ tray' = [tray EXCEPT ![r.key] = r.version]
<1> DEFINE r == pull[p].row
<1>1. /\ pull[p].pc = "show" /\ pull' = [pull EXCEPT ![p] = [pull[p] EXCEPT !.pc = "shown"]]
      /\ UNCHANGED <<server, cache, cursor, shown, failures, history>>
      /\ tray' = [tray EXCEPT ![r.key] = r.version]
  BY DEF Show, Step
<1>2. /\ r \in pull[p].due /\ r \in log /\ r.key \in Notif /\ ~r.deleted
      /\ r.due <= pull[p].now /\ pull[p].now <= clock
  BY <1>1, PullFacts DEF GenuinePull, Delivering
<1>3. r.due \in Nat /\ r.version \in Nat
  BY <1>2, EverythingIs, ChangeTyped DEF PhoneInv, ServerInv
<1>4. r.due <= clock
  <2>1. clock \in Nat /\ pull[p].now \in Nat
    BY PullFacts DEF PullRecord
  <2> HIDE DEF r
  <2> QED BY <1>2, <1>3, <2>1
<1> QED BY <1>1, <1>2, <1>3, <1>4

LEMMA ShowGenuine ==
  ASSUME PhoneInv, NEW p \in Pull, Show(p)
  PROVE  PhoneInv'
<1> DEFINE r == pull[p].row
           s == [pull[p] EXCEPT !.pc = "shown"]
<1>1. /\ pull[p].pc = "show" /\ pull' = [pull EXCEPT ![p] = s]
      /\ UNCHANGED <<server, cache, cursor, shown, failures, history>>
      /\ r \in pull[p].due /\ r \in log /\ r.key \in Notif
      /\ r.due <= clock /\ r.version \in Nat
      /\ tray' = [tray EXCEPT ![r.key] = r.version]
  BY ShowFacts
<1>2. /\ s \in PullRecord /\ s.pc = "shown" /\ s.row = r /\ s.due = pull[p].due
      /\ s.now = pull[p].now /\ s.page = pull[p].page
  BY PullFacts DEF PullRecord, Steps
<1>3. GenuinePull(s)
  BY <1>1, <1>2, PullFacts DEF GenuinePull, Delivering
<1> HIDE DEF r, s
<1>4. tray' \in [Notif -> Nat]
      /\ \A n \in Notif : tray'[n] = tray[n] \/ \E c \in log : c.key = n /\ c.due <= clock
  BY <1>1, PullFacts
<1> QED BY <1>1, <1>2, <1>3, <1>4, PullFacts, PullMoves DEF history

LEMMA KillGenuine ==
  ASSUME PhoneInv, NEW i \in Isolate, Kill(i)
  PROVE  PhoneInv'
<1>1. /\ pull' = [p \in Pull |-> IF IsolateOf[p] = i THEN Idle ELSE pull[p]]
      /\ UNCHANGED <<server, phone, history>>
  BY DEF Kill
<1>2. ServerInv' /\ UNCHANGED <<log, clock>>
  BY <1>1, ServerStill DEF PhoneInv
<1>3. pull' \in [Pull -> PullRecord]
  BY <1>1, PullFacts, IdleGenuine
<1>4. PhoneTyped'
  BY <1>1, <1>3 DEF PhoneInv, PhoneTyped, phone, history
<1>5. ASSUME NEW q \in Pull PROVE GenuinePull(pull[q])'
  <2>1. GenuinePull(pull'[q])
    BY <1>1, IdleGenuine, PullFacts
  <2> QED BY <1>2, <2>1 DEF GenuinePull
<1>6. Genuine'
  BY <1>1, <1>2, <1>5 DEF PhoneInv, Genuine, GenuineRow, phone
<1>7. TrayIsDue'
  BY <1>1, <1>2 DEF PhoneInv, TrayIsDue, phone
<1> QED BY <1>2, <1>4, <1>6, <1>7 DEF PhoneInv

\* What every request leaves alone.
LEMMA RequestGenuine ==
  ASSUME PhoneInv, NEW e \in Event, Request(e)
  PROVE  PhoneInv'
<1>1. ServerInv' /\ UNCHANGED <<log, clock, phone, pull, history>>
  BY RequestKeeps DEF PhoneInv
<1>2. clock' = clock /\ log' = log /\ UNCHANGED <<cache, cursor, tray, pull, served>>
  BY <1>1 DEF phone, history
<1>3. clock \in Nat
  BY DEF PhoneInv, ServerInv, ServerTyped
<1>4. log \subseteq log' /\ clock <= clock'
  BY <1>2, <1>3
<1> QED BY <1>1, <1>2, <1>4, PhoneWaits

LEMMA PhoneStep ==
  ASSUME PhoneInv, [Next]_vars
  PROVE  PhoneInv'
<1>1. ASSUME NEW e \in Event, Commit(e) \/ Abort(e) PROVE PhoneInv'
  <2>1. /\ UNCHANGED <<nextSeq, clock, phone, pull, served>>
        /\ open' = [open EXCEPT ![e] = Free]
        /\ log' = log \/ log' = log \union open[e].changes
    BY <1>1 DEF Commit, Abort, history
  <2>2. ServerInv' /\ log \subseteq log'
    BY <2>1, EndKeeps DEF PhoneInv
  <2>3. clock \in Nat
    BY DEF PhoneInv, ServerInv, ServerTyped
  <2>4. clock <= clock' /\ UNCHANGED <<cache, cursor, tray, pull, served>>
    BY <2>1, <2>3 DEF phone
  <2> QED BY <2>2, <2>4, PhoneWaits
<1>2. CASE Tick
  <2>1. /\ ServerInv' /\ UNCHANGED <<log, phone, pull, history>> /\ clock <= clock'
    BY <1>2, TickKeeps DEF PhoneInv
  <2> QED BY <2>1, PhoneWaits DEF phone, history
<1>3. ASSUME NEW p \in Pull, MarkShown(p) PROVE PhoneInv'
  BY <1>3, DoneGenuine DEF MarkShown, Step, Delivering, history
<1>4. ASSUME NEW p \in Pull, ShowFails(p) PROVE PhoneInv'
  BY <1>4, DoneGenuine DEF ShowFails, Step, Delivering, history, phone
<1>5. ASSUME NEW p \in Pull, RequestFails(p) PROVE PhoneInv'
  BY <1>5, EndGenuine DEF RequestFails, history, phone
<1>6. ASSUME NEW p \in Pull, PullStep(p) PROVE PhoneInv'
  BY <1>3, <1>6, StartGenuine, ServerTimeGenuine, ReadPageGenuine, ApplyGenuine,
     StoreCursorGenuine, MarkHistoryGenuine, ListDueGenuine, DeliverGenuine, ShowGenuine
     DEF PullStep
<1>7. CASE UNCHANGED vars
  <2>1. UNCHANGED <<server, phone, pull, history>>
    BY <1>7 DEF vars
  <2>2. ServerInv' /\ UNCHANGED <<log, clock>>
    BY <2>1, ServerStill DEF PhoneInv
  <2>3. clock \in Nat
    BY DEF PhoneInv, ServerInv, ServerTyped
  <2>4. log \subseteq log' /\ clock <= clock'
        /\ UNCHANGED <<cache, cursor, tray, pull, served>>
    BY <2>1, <2>2, <2>3 DEF phone, history
  <2> QED BY <2>2, <2>4, PhoneWaits
<1> QED BY <1>1, <1>2, <1>4, <1>5, <1>6, <1>7, KillGenuine, RequestGenuine DEF Next

LEMMA PhoneInit == Init => PhoneInv
<1> SUFFICES ASSUME Init PROVE PhoneInv
  OBVIOUS
<1>1. \A c : c \notin Everything
  <2>1. \A e \in Event : open[e].changes = {}
    BY DEF Init, Free
  <2>2. log = {}
    BY DEF Init
  <2> QED BY <2>1, <2>2, EverythingIs
<1>2. ServerTyped
  <2>1. Free \in [changes : SUBSET Change, since : Nat] /\ IsFiniteSet(Free.changes)
    BY FS_EmptySet DEF Free
  <2> QED BY <2>1, FS_EmptySet, SyncAssumption DEF Init, ServerTyped
<1>3. Owned /\ InTime
  BY <1>1 DEF Init, Owned, InTime, Free
<1>4. Versioned
  BY <1>1 DEF Versioned
<1>5. PhoneTyped /\ Genuine /\ TrayIsDue
  BY IdleGenuine DEF Init, PhoneTyped, Genuine, GenuineRow, TrayIsDue
<1> QED BY <1>2, <1>3, <1>4, <1>5 DEF PhoneInv, ServerInv

\* No notification is shown before its time, however many isolates pull and
\* whatever the phone's clock says.
THEOREM NothingEarly == Spec => []NeverEarly
<1>1. PhoneInv => NeverEarly
  <2> SUFFICES ASSUME PhoneInv, NEW n \in Notif, tray[n] # 0
               PROVE  Row(n).due <= clock
    BY DEF NeverEarly
  <2>1. PICK c \in log : c.key = n /\ c.due <= clock
    BY DEF PhoneInv, TrayIsDue
  <2>2. Exists(n)
    BY <2>1 DEF Exists, Published
  <2>3. Row(n) \in Everything /\ Row(n).key = n /\ c \in Everything
    BY <2>1, <2>2, RowIs, EverythingIs DEF PhoneInv, ServerInv
  <2>4. Row(n).due = c.due
    BY <2>1, <2>3 DEF PhoneInv, ServerInv, Versioned
  <2> QED BY <2>1, <2>4
<1>2. PhoneInv /\ [Next]_vars => PhoneInv'
  BY PhoneStep
<1> QED BY <1>1, <1>2, PhoneInit, PTL DEF Spec

-----------------------------------------------------------------------------
(* What the cursor claims, when the pulls belong to one isolate *)

SameIsolate == \A p, q \in Pull : IsolateOf[p] = IsolateOf[q]

Follows == OnePull /\ PageInv /\ CacheKeepsUp

LEMMA SeqTyped ==
  ASSUME PhoneInv
  PROVE  /\ \A c \in log : c \in Change /\ c.seq \in Nat
         /\ \A k \in Key : cache[k] # NoRow => cache[k] \in log /\ cache[k].seq \in Nat
BY PullFacts, EverythingIs, ChangeTyped DEF PhoneInv, ServerInv, Genuine, GenuineRow

\* A step of a pull that reads or leaves no page.
LEMMA QuietMove ==
  ASSUME PhoneInv, Follows, NEW p \in Pull, NEW s, pull' = [pull EXCEPT ![p] = s],
         UNCHANGED <<log, cache, cursor, served, late>>,
         \/ s.pc \notin Syncing
         \/ /\ s.pc \in {"request", "read"} /\ s.cursor = cursor
            /\ \A q \in Pull : q # p => pull[q].pc \notin Syncing
  PROVE  Follows'
<1>1. \A q \in Pull : pull'[q] = IF q = p THEN s ELSE pull[q]
  BY PullFacts
<1>2. s.pc # "apply"
  BY DEF Syncing
<1>3. OnePull'
  <2>1. ASSUME NEW q \in Pull, NEW r \in Pull, pull'[q].pc \in Syncing, pull'[r].pc \in Syncing
        PROVE  q = r
    BY <1>1, <2>1 DEF Follows, OnePull
  <2>2. ASSUME NEW q \in Pull
        PROVE  /\ pull'[q].pc \in Syncing => pull'[q].cursor = cursor
               /\ pull'[q].pc = "apply" => cursor <= pull'[q].next /\ pull'[q].next <= served
    BY <1>1, <1>2 DEF Follows, OnePull
  <2>3. cursor <= served
    BY DEF Follows, OnePull
  <2> QED BY <2>1, <2>2, <2>3 DEF OnePull
<1>4. PageInv'
  <2>1. ASSUME NEW q \in Pull, pull'[q].pc = "apply"
        PROVE  pull'[q] = pull[q] /\ pull[q].pc = "apply"
    BY <1>1, <1>2, <2>1
  <2> QED BY <2>1 DEF Follows, PageInv, Covered
<1>5. CacheKeepsUp'
  BY DEF Follows, CacheKeepsUp
<1> QED BY <1>3, <1>4, <1>5 DEF Follows

\* A step of the server: a change that it commits is above what the phone was
\* given, or late.
LEMMA ServerFollows ==
  ASSUME PhoneInv, Follows, UNCHANGED <<cache, cursor, served, pull>>, late \subseteq late',
         PhoneInv', \A c \in log' \ late' : c \in log \ late \/ ~(c.seq <= served)
  PROVE  Follows'
<1>1. OnePull'
  BY DEF Follows, OnePull
<1>2. ASSUME NEW c \in log' \ late', c.seq <= cursor \/ \E p \in Pull :
               pull[p].pc = "apply" /\ c.seq <= pull[p].next
      PROVE  c \in log \ late
  <2>1. c.seq \in Nat
    BY DEF PhoneInv, ServerInv, ServerTyped, Change
  <2>2. cursor \in Nat /\ served \in Nat /\ \A p \in Pull : pull[p].next \in Nat
    BY DEF PhoneInv, PhoneTyped, PullRecord
  <2>3. c.seq <= served
    BY <1>2, <2>1, <2>2 DEF Follows, OnePull
  <2> QED BY <2>3
<1>3. PageInv'
  <2> SUFFICES ASSUME NEW p \in Pull, pull[p].pc = "apply"
               PROVE  /\ \A d \in pull[p].page : cursor < d.seq
                      /\ \A c \in log' \ late' : cursor < c.seq /\ c.seq <= pull[p].next =>
                           c \in pull[p].page
                             \/ (Covered(c) /\ \A d \in pull[p].page : c.seq <= d.seq)
    BY DEF PageInv, Covered
  <2> QED BY <1>2 DEF Follows, PageInv
<1>4. CacheKeepsUp'
  <2> SUFFICES ASSUME NEW c \in log' \ late', c.seq <= cursor PROVE Covered(c)
    BY DEF CacheKeepsUp, Covered
  <2> QED BY <1>2 DEF Follows, CacheKeepsUp, Covered
<1> QED BY <1>1, <1>3, <1>4 DEF Follows

LEMMA ReadPageFollows ==
  ASSUME PhoneInv, Follows, NEW p \in Pull, ReadPage(p)
  PROVE  Follows'
<1> DEFINE page == Page(Above(pull[p].cursor))
           next == IF page = {} THEN pull[p].cursor ELSE Newest(page).seq
           more == (page # Above(pull[p].cursor))
           s == [pull[p] EXCEPT !.pc = "apply", !.page = page, !.next = next, !.more = more]
<1>1. /\ pull[p].pc = "read" /\ pull' = [pull EXCEPT ![p] = s]
      /\ served' = IF next > served THEN next ELSE served
      /\ UNCHANGED <<server, phone, late>>
  BY DEF ReadPage, Step
<1>2. pull[p].cursor = cursor /\ cursor \in Nat /\ served \in Nat /\ cursor <= served
  BY <1>1, PullFacts DEF Follows, OnePull, Syncing
<1>3. /\ next \in Nat /\ cursor <= next /\ \A d \in page : cursor < d.seq
      /\ \A c \in log : cursor < c.seq /\ c.seq <= next => c \in page
  <2>1. log \in SUBSET Change /\ IsFiniteSet(log)
    BY PullFacts
  <2>2. page = Page(Above(cursor)) /\ next = IF page = {} THEN cursor ELSE Newest(page).seq
    BY <1>2
  <2> HIDE DEF page, next
  <2> QED BY <1>2, <2>1, <2>2, PageFacts
<1>4. /\ s.pc = "apply" /\ s.page = page /\ s.next = next /\ s.cursor = cursor
  BY <1>2, PullFacts DEF PullRecord
<1>5. \A q \in Pull : pull'[q] = IF q = p THEN s ELSE pull[q]
  BY <1>1, PullFacts
<1> HIDE DEF page, next, more, s
<1>6. next <= served' /\ served <= served' /\ served' \in Nat
  BY <1>1, <1>2, <1>3
<1>7. \A q \in Pull : q # p => pull[q].pc \notin Syncing
  BY <1>1 DEF Follows, OnePull, Syncing
<1>8. UNCHANGED <<log, cache, cursor, late>>
  BY <1>1 DEF server, phone
<1>9. OnePull'
  <2>1. cursor <= served'
    BY <1>2, <1>6
  <2> QED BY <1>3, <1>4, <1>5, <1>6, <1>7, <1>8, <2>1 DEF OnePull, Syncing
<1>10. PageInv'
  <2> SUFFICES ASSUME NEW q \in Pull, pull'[q].pc = "apply"
               PROVE  /\ \A d \in pull'[q].page : cursor < d.seq
                      /\ \A c \in log \ late : cursor < c.seq /\ c.seq <= pull'[q].next =>
                           c \in pull'[q].page
    BY <1>8 DEF PageInv
  <2>1. q = p
    BY <1>5, <1>7 DEF Syncing
  <2> QED BY <1>3, <1>4, <1>5, <2>1
<1>11. CacheKeepsUp'
  BY <1>8 DEF Follows, CacheKeepsUp
<1> QED BY <1>9, <1>10, <1>11 DEF Follows

LEMMA ApplyFollows ==
  ASSUME PhoneInv, Follows, NEW p \in Pull, Apply(p)
  PROVE  Follows'
<1> PICK c : c = Oldest(pull[p].page)
  OBVIOUS
<1> DEFINE s == [pull[p] EXCEPT !.page = @ \ {c}]
<1>1. /\ pull[p].pc = "apply" /\ pull' = [pull EXCEPT ![p] = s]
      /\ cache' = [cache EXCEPT ![c.key] = c]
      /\ UNCHANGED <<server, cursor, history>>
  BY DEF Apply, Step
<1>2. /\ c \in pull[p].page /\ c \in log /\ c \in Change /\ c.key \in Key /\ c # NoRow
      /\ \A d \in pull[p].page : c.seq <= d.seq
  BY ApplyFacts
<1>3. s.pc = "apply" /\ s.page = pull[p].page \ {c} /\ s.next = pull[p].next
      /\ s.cursor = pull[p].cursor
  BY <1>1, PullFacts DEF PullRecord
<1>4. \A q \in Pull : pull'[q] = IF q = p THEN s ELSE pull[q]
  BY <1>1, PullFacts
<1> HIDE DEF s
<1>5. \A k \in Key : cache'[k] = IF k = c.key THEN c ELSE cache[k]
  BY <1>1, PullFacts
<1>6. \A q \in Pull : q # p => pull[q].pc \notin Syncing
  BY <1>1 DEF Follows, OnePull, Syncing
<1>7. UNCHANGED <<log, cursor, served, late>>
  BY <1>1 DEF server, history
<1>8. c.seq \in Nat /\ cursor \in Nat /\ cursor < c.seq /\ \A d \in log : d.seq \in Nat /\ d.key \in Key
  BY <1>1, <1>2, SeqTyped, PullFacts DEF Follows, PageInv, Change
<1>9. ASSUME NEW d \in log, Covered(d), d.seq <= c.seq PROVE Covered(d)'
  <2>1. d.key \in Key
    BY <1>8
  <2> QED BY <1>2, <1>5, <1>8, <1>9, <2>1 DEF Covered
<1>10. Covered(c)'
  <2>1. c.seq >= c.seq
    BY <1>8
  <2>2. cache'[c.key] = c
    BY <1>2, <1>5
  <2>3. cache'[c.key] # NoRow /\ cache'[c.key].seq >= c.seq
    BY <1>2, <2>1, <2>2
  <2> QED BY <2>3 DEF Covered
<1>11. OnePull'
  BY <1>1, <1>3, <1>4, <1>6, <1>7 DEF Follows, OnePull, Syncing
<1>12. PageInv'
  <2> SUFFICES ASSUME NEW q \in Pull, pull'[q].pc = "apply"
               PROVE  /\ \A d \in pull'[q].page : cursor < d.seq
                      /\ \A x \in log \ late : cursor < x.seq /\ x.seq <= pull'[q].next =>
                           x \in pull'[q].page
                             \/ (Covered(x)' /\ \A d \in pull'[q].page : x.seq <= d.seq)
    BY <1>7 DEF PageInv, Covered
  <2>1. q = p
    BY <1>4, <1>6 DEF Syncing
  <2>2. pull'[q].page = pull[p].page \ {c} /\ pull'[q].next = pull[p].next
    BY <1>3, <1>4, <2>1
  <2>3. ASSUME NEW x \in log \ late, cursor < x.seq, x.seq <= pull[p].next
        PROVE  x \in pull'[q].page
                 \/ (Covered(x)' /\ \A d \in pull'[q].page : x.seq <= d.seq)
    <3>1. CASE x \in pull[p].page
      <4>1. x = c \/ x \in pull'[q].page
        BY <2>2, <3>1
      <4> QED BY <1>2, <1>10, <2>2, <4>1
    <3>2. CASE x \notin pull[p].page
      <4>1. Covered(x) /\ \A d \in pull[p].page : x.seq <= d.seq
        BY <1>1, <2>3, <3>2 DEF Follows, PageInv
      <4>2. Covered(x)'
        BY <1>2, <1>9, <4>1
      <4> QED BY <2>2, <4>1, <4>2
    <3> QED BY <3>1, <3>2
  <2>4. \A d \in pull'[q].page : cursor < d.seq
    BY <1>1, <2>2 DEF Follows, PageInv
  <2> QED BY <2>2, <2>3, <2>4
<1>13. CacheKeepsUp'
  <2> SUFFICES ASSUME NEW d \in log \ late, d.seq <= cursor PROVE Covered(d)'
    BY <1>7 DEF CacheKeepsUp, Covered
  <2>1. Covered(d)
    BY DEF Follows, CacheKeepsUp, Covered
  <2>2. d.seq <= c.seq
    BY <1>8
  <2> QED BY <1>9, <2>1, <2>2
<1> QED BY <1>11, <1>12, <1>13 DEF Follows

LEMMA StoreCursorFollows ==
  ASSUME PhoneInv, Follows, NEW p \in Pull, StoreCursor(p)
  PROVE  Follows'
<1> DEFINE s == AfterPage(p, pull[p].now)
<1>1. /\ pull[p].pc = "apply" /\ pull[p].page = {} /\ pull' = [pull EXCEPT ![p] = s]
      /\ cursor' = pull[p].next
      /\ UNCHANGED <<server, cache, history>>
  BY DEF StoreCursor, Step
<1>2. s.pc \notin Syncing \/ (s.pc = "request" /\ s.cursor = pull[p].next)
  <2>1. CASE pull[p].more
    <3>1. s = [pull[p] EXCEPT !.pc = "request", !.cursor = pull[p].next, !.next = 0,
                              !.more = FALSE, !.now = pull[p].now]
      BY <2>1 DEF AfterPage
    <3> HIDE DEF s
    <3> QED BY <3>1, PullFacts DEF PullRecord
  <2>2. CASE ~pull[p].more
    <3> DEFINE pc == IF pull[p].first THEN "mark" ELSE "list"
    <3>1. s = [Idle EXCEPT !.pc = pc, !.now = pull[p].now]
      BY <2>2 DEF AfterPage
    <3>2. pc \notin Syncing
      BY DEF Syncing
    <3> HIDE DEF s, pc
    <3> QED BY <3>1, <3>2 DEF Idle
  <2> QED BY <2>1, <2>2
<1>3. \A q \in Pull : pull'[q] = IF q = p THEN s ELSE pull[q]
  BY <1>1, PullFacts
<1> HIDE DEF s
<1>4. \A q \in Pull : q # p => pull[q].pc \notin Syncing
  BY <1>1 DEF Follows, OnePull, Syncing
<1>5. UNCHANGED <<log, cache, served, late>>
  BY <1>1 DEF server, history
<1>6. cursor' <= served
  BY <1>1 DEF Follows, OnePull
<1>7. \A q \in Pull : pull'[q].pc # "apply"
  BY <1>2, <1>3, <1>4 DEF Syncing
<1>8. OnePull'
  BY <1>1, <1>2, <1>3, <1>4, <1>5, <1>6, <1>7 DEF OnePull
<1>9. PageInv'
  BY <1>7 DEF PageInv
<1>10. CacheKeepsUp'
  <2> SUFFICES ASSUME NEW d \in log \ late, d.seq <= pull[p].next PROVE Covered(d)
    BY <1>1, <1>5 DEF CacheKeepsUp, Covered
  <2>1. d.seq \in Nat /\ cursor \in Nat
    BY SeqTyped, PullFacts
  <2>2. CASE d.seq <= cursor
    BY <2>2 DEF Follows, CacheKeepsUp, Covered
  <2>3. CASE cursor < d.seq
    BY <1>1, <2>3 DEF Follows, PageInv
  <2> QED BY <2>1, <2>2, <2>3
<1> QED BY <1>8, <1>9, <1>10 DEF Follows

\* After the last page, no step of the pull touches the cache.
LEMMA DeliveryFollows ==
  ASSUME PhoneInv, Follows, NEW p \in Pull,
         \/ MarkHistory(p) \/ ListDue(p) \/ Deliver(p) \/ Show(p) \/ MarkShown(p)
         \/ ShowFails(p) \/ RequestFails(p)
  PROVE  Follows'
<1>1. Idle.pc \notin Syncing /\ {"deliver", "show", "shown", "idle"} \cap Syncing = {}
  BY DEF Idle, Syncing
<1>2. UNCHANGED <<log, cache, cursor, served, late>>
  BY DEF MarkHistory, ListDue, Deliver, Show, MarkShown, ShowFails, RequestFails, server, phone,
         history
<1>3. \E s : pull' = [pull EXCEPT ![p] = s] /\ s.pc \notin Syncing
  <2>1. CASE MarkHistory(p) \/ RequestFails(p)
    BY <1>1, <2>1 DEF MarkHistory, RequestFails
  <2>2. CASE ListDue(p)
    <3> DEFINE s == [pull[p] EXCEPT !.pc = "deliver", !.due = DueRows(p)]
    <3>1. s.pc = "deliver"
      BY PullFacts DEF PullRecord
    <3> QED BY <1>1, <2>2, <3>1, ListDueFacts
  <2>3. CASE Show(p)
    <3> DEFINE s == [pull[p] EXCEPT !.pc = "shown"]
    <3>1. s.pc = "shown"
      BY PullFacts DEF PullRecord
    <3> QED BY <1>1, <2>3, <3>1, ShowFacts
  <2>4. ASSUME NEW r, Done(p, r), pull[p].pc \in Delivering
        PROVE  \E s : pull' = [pull EXCEPT ![p] = s] /\ s.pc \notin Syncing
    BY <1>1, <2>4, DoneFacts
  <2>5. CASE Deliver(p)
    <3>1. PICK r \in pull[p].due :
            \/ Done(p, r)
            \/ pull' = [pull EXCEPT ![p] = [pull[p] EXCEPT !.pc = "show", !.row = r]]
      BY <2>5, DeliverFacts
    <3>2. [pull[p] EXCEPT !.pc = "show", !.row = r].pc = "show"
      BY PullFacts DEF PullRecord
    <3>3. pull[p].pc \in Delivering
      BY <2>5, DeliverFacts DEF Delivering
    <3> QED BY <1>1, <2>4, <3>1, <3>2, <3>3
  <2>6. CASE MarkShown(p) \/ ShowFails(p)
    BY <2>4, <2>6 DEF MarkShown, ShowFails, Step, Delivering
  <2> QED BY <2>1, <2>2, <2>3, <2>5, <2>6
<1> QED BY <1>2, <1>3, QuietMove

LEMMA RequestingFollows ==
  ASSUME SameIsolate, PhoneInv, Follows, NEW p \in Pull, Start(p) \/ ServerTime(p)
  PROVE  Follows'
<1>1. UNCHANGED <<log, cache, cursor, served, late>>
  BY DEF Start, ServerTime, server, phone, history
<1>2. CASE Start(p)
  <2> DEFINE s == [Idle EXCEPT !.pc = "request", !.cursor = cursor, !.first = (cursor = 0),
                               !.now = clock + Skew]
  <2>1. pull' = [pull EXCEPT ![p] = s] /\ \A q \in Pull : pull[q].pc \notin Syncing
    BY <1>2 DEF Start, SameIsolate
  <2>2. s.pc = "request" /\ s.cursor = cursor
    BY DEF Idle
  <2> HIDE DEF s
  <2> QED BY <1>1, <2>1, <2>2, QuietMove
<1>3. CASE ServerTime(p)
  <2> DEFINE s == [pull[p] EXCEPT !.pc = "read", !.now = clock]
  <2>1. pull' = [pull EXCEPT ![p] = s] /\ pull[p].pc = "request"
    BY <1>3 DEF ServerTime, Step
  <2>2. pull[p].cursor = cursor /\ \A q \in Pull : q # p => pull[q].pc \notin Syncing
    BY <2>1 DEF Follows, OnePull, Syncing
  <2>3. s.pc = "read" /\ s.cursor = cursor
    BY <2>2, PullFacts DEF PullRecord
  <2> HIDE DEF s
  <2> QED BY <1>1, <2>1, <2>2, <2>3, QuietMove
<1> QED BY <1>2, <1>3

LEMMA KillFollows ==
  ASSUME PhoneInv, Follows, NEW i \in Isolate, Kill(i)
  PROVE  Follows'
<1>1. /\ pull' = [p \in Pull |-> IF IsolateOf[p] = i THEN Idle ELSE pull[p]]
      /\ UNCHANGED <<log, cache, cursor, served, late>>
  BY DEF Kill, server, phone, history
<1>2. ASSUME NEW q \in Pull, pull'[q].pc \in Syncing PROVE pull'[q] = pull[q]
  BY <1>1, <1>2 DEF Idle, Syncing
<1>3. OnePull'
  BY <1>1, <1>2 DEF Follows, OnePull, Syncing
<1>4. PageInv'
  BY <1>1, <1>2 DEF Follows, PageInv, Covered, Syncing
<1>5. CacheKeepsUp'
  BY <1>1 DEF Follows, CacheKeepsUp
<1> QED BY <1>3, <1>4, <1>5 DEF Follows

LEMMA CommitFollows ==
  ASSUME PhoneInv, PhoneInv', Follows, NEW e \in Event, Commit(e)
  PROVE  Follows'
<1>1. /\ log' = log \union open[e].changes
      /\ late' = late \union {c \in open[e].changes : c.seq <= served}
      /\ UNCHANGED <<cache, cursor, served, pull>>
  BY DEF Commit, phone
<1>2. ASSUME NEW c \in log' \ late' PROVE c \in log \ late \/ ~(c.seq <= served)
  BY <1>1
<1> QED BY <1>1, <1>2, ServerFollows

LEMMA FollowsStep ==
  ASSUME SameIsolate, PhoneInv, PhoneInv', Follows, [Next]_vars
  PROVE  Follows'
<1>1. ASSUME UNCHANGED <<log, cache, cursor, served, pull, late>> PROVE Follows'
  BY <1>1, ServerFollows
<1>2. CASE Tick \/ UNCHANGED vars \/ \E e \in Event : Abort(e)
  BY <1>1, <1>2 DEF Tick, Abort, vars, server, phone, history
<1>3. ASSUME NEW e \in Event, Request(e) PROVE Follows'
  <2>1. UNCHANGED <<log, phone, pull, history>>
    BY <1>3, RequestKeeps DEF PhoneInv
  <2> QED BY <1>1, <2>1 DEF phone, history
<1>4. ASSUME NEW p \in Pull, PullStep(p) PROVE Follows'
  BY <1>4, RequestingFollows, ReadPageFollows, ApplyFollows, StoreCursorFollows,
     DeliveryFollows DEF PullStep
<1> QED BY <1>2, <1>3, <1>4, CommitFollows, DeliveryFollows, KillFollows DEF Next

LEMMA FollowsInit == Init => Follows
BY DEF Init, Follows, OnePull, PageInv, CacheKeepsUp, Idle, Syncing

\* While the app pulls in one isolate, the cursor never passes a change that
\* is neither in the cache, nor replaced there by a newer one, nor committed
\* late: whatever is lost, killed or shown between the steps.
THEOREM CacheFollows == ASSUME SameIsolate PROVE Spec => []CacheKeepsUp
<1>1. Init => PhoneInv /\ Follows
  BY PhoneInit, FollowsInit
<1>2. PhoneInv /\ Follows /\ [Next]_vars => (PhoneInv /\ Follows)'
  BY PhoneStep, FollowsStep
<1>3. PhoneInv /\ Follows => CacheKeepsUp
  BY DEF Follows
<1> QED BY <1>1, <1>2, <1>3, PTL DEF Spec

-----------------------------------------------------------------------------
(* What was shown is final *)

\* A new change of a notification that is due is its withdrawal.
LEMMA DueIsClosed ==
  ASSUME PhoneInv, NEW e \in Event, open[e].changes = {}, NEW c, Writable(e, c),
         c.key \in Notif, ~c.deleted
  PROVE  /\ c.version # 1 => ~(c.due <= clock)
         /\ \A d \in Everything : d.key = c.key => c.version # 1 /\ c.due = d.due
<1>1. clock \in Nat /\ Margin \in Nat /\ c.due \in Nat
  BY TimingAssumption, SyncAssumption DEF PhoneInv, ServerInv, ServerTyped, Writable
<1>2. c.version # 1 => c.due > clock + Margin
  BY DEF Writable
<1>3. ASSUME NEW d \in Everything, d.key = c.key PROVE c.version # 1 /\ c.due = d.due
  <2>1. d.due = c.due /\ d.version < c.version
    BY <1>3, WritableIsNew DEF PhoneInv
  <2>2. d.version \in Nat /\ d.version >= 1
    BY ChangeTyped DEF PhoneInv, ServerInv
  <2> QED BY <2>1, <2>2
<1> QED BY <1>1, <1>2, <1>3

LEMMA ServerFinal ==
  ASSUME PhoneInv, FinalInv, log \subseteq log', late \subseteq late', clock <= clock',
         clock' \in Nat, UNCHANGED <<cursor, tray, pull>>,
         \A c \in Everything' : c \in Everything
            \/ \E e \in Event : open[e].changes = {} /\ Writable(e, c)
  PROVE  FinalInv'
<1>1. clock \in Nat /\ \A c \in log : c.due \in Nat /\ c \in Everything
  BY EverythingIs, ChangeTyped DEF PhoneInv, ServerInv, ServerTyped
<1>2. ASSUME NEW q \in Pull, NEW c \in Everything', c.key \in Notif, ~c.deleted,
             c.due <= pull[q].now, pull[q].pc \in {"apply", "list"}, c \notin Everything
      PROVE  c.version = 1
  <2>1. PICK e \in Event : open[e].changes = {} /\ Writable(e, c)
    BY <1>2
  <2>2. pull[q].now <= clock /\ pull[q].now \in Nat
    BY <1>2, PullFacts DEF GenuinePull, PullRecord
  <2>3. c.due \in Nat
    BY <2>1, SyncAssumption, TimingAssumption DEF Writable
  <2>4. c.due <= clock
    BY <1>1, <1>2, <2>2, <2>3
  <2> QED BY <1>2, <2>1, <2>4, DueIsClosed
<1>3. ASSUME NEW r \in log, r.key \in Notif, r.due <= clock, Last(r)
      PROVE  \A c \in Everything' : c.key = r.key /\ ~c.deleted => c.version <= r.version
  <2> SUFFICES ASSUME NEW c \in Everything', c.key = r.key, ~c.deleted, c \notin Everything
               PROVE  FALSE
    BY <1>3 DEF Last
  <2>1. PICK e \in Event : open[e].changes = {} /\ Writable(e, c)
    OBVIOUS
  <2>2. c.version # 1 /\ c.due = r.due
    BY <1>1, <1>3, <2>1, DueIsClosed
  <2> QED BY <1>3, <2>1, <2>2, DueIsClosed
<1>4. ASSUME NEW q \in Pull, pull[q].pc = "apply", ~pull[q].more,
             NEW c \in Everything', c.key \in Notif, ~c.deleted, c.due <= pull[q].now
      PROVE  c.version = 1 \/ (c \in log' /\ c.seq <= pull[q].next)
  <2>1. c \in Everything => c.version = 1 \/ (c \in log /\ c.seq <= pull[q].next)
    BY <1>4 DEF FinalInv, KnownBy
  <2> QED BY <1>2, <1>4, <2>1
<1>5. ASSUME NEW q \in Pull, pull[q].pc = "list",
             NEW c \in Everything', c.key \in Notif, ~c.deleted, c.due <= pull[q].now
      PROVE  c.version = 1 \/ (c \in log' /\ c.seq <= cursor)
  <2>1. c \in Everything => c.version = 1 \/ (c \in log /\ c.seq <= cursor)
    BY <1>5 DEF FinalInv, KnownBy
  <2> QED BY <1>2, <1>5, <2>1
<1>6. ASSUME late' = {}, NEW q \in Pull, pull[q].pc \in Delivering, NEW r \in pull[q].due
      PROVE  \A c \in Everything' : c.key = r.key /\ ~c.deleted => c.version <= r.version
  <2>1. /\ r \in log /\ r.key \in Notif /\ r.due <= pull[q].now /\ pull[q].now <= clock
        /\ pull[q].now \in Nat
    BY <1>6, PullFacts DEF GenuinePull, PullRecord, Delivering
  <2>2. r.due <= clock
    BY <1>1, <2>1
  <2>3. Last(r)
    BY <1>6 DEF FinalInv
  <2> QED BY <1>3, <2>1, <2>2, <2>3
<1>7. ASSUME late' = {}, NEW n \in Notif, tray[n] # 0
      PROVE  \E r \in log' : /\ r.key = n /\ r.due <= clock' /\ r.version = tray[n]
               /\ \A c \in Everything' : c.key = r.key /\ ~c.deleted => c.version <= r.version
  <2>1. PICK r \in log : r.key = n /\ r.due <= clock /\ r.version = tray[n] /\ Last(r)
    BY <1>7 DEF FinalInv
  <2>2. r.due <= clock'
    BY <1>1, <2>1
  <2> QED BY <1>3, <2>1, <2>2
<1>8. ASSUME NEW q \in Pull
      PROVE  /\ pull'[q].pc = "apply" /\ ~pull'[q].more =>
                  \A c \in Everything' : c.key \in Notif /\ ~c.deleted /\ c.due <= pull'[q].now =>
                     c.version = 1 \/ (c \in log' /\ c.seq <= pull'[q].next)
             /\ pull'[q].pc = "list" =>
                  \A c \in Everything' : c.key \in Notif /\ ~c.deleted /\ c.due <= pull'[q].now =>
                     c.version = 1 \/ (c \in log' /\ c.seq <= cursor')
             /\ late' = {} /\ pull'[q].pc \in Delivering => \A r \in pull'[q].due :
                  \A c \in Everything' : c.key = r.key /\ ~c.deleted => c.version <= r.version
  BY <1>4, <1>5, <1>6
<1>9. late' = {} => \A n \in Notif : tray'[n] # 0 =>
        \E r \in log' : /\ r.key = n /\ r.due <= clock' /\ r.version = tray'[n]
          /\ \A c \in Everything' : c.key = r.key /\ ~c.deleted => c.version <= r.version
  BY <1>7
<1> QED BY Zenon, <1>8, <1>9 DEF FinalInv, KnownBy, Last

\* A step of one pull.
LEMMA PullFinal ==
  ASSUME PhoneInv, FinalInv, UNCHANGED <<server, late>>, NEW p \in Pull, NEW s,
         pull' = [pull EXCEPT ![p] = s], cursor <= cursor', cursor' \in Nat,
         s.pc = "apply" /\ ~s.more => KnownBy(s.now, s.next),
         s.pc = "list" => KnownBy(s.now, cursor'),
         late = {} /\ s.pc \in Delivering => \A r \in s.due : Last(r),
         late = {} => \A n \in Notif : tray'[n] = tray[n] \/
            \E r \in log : r.key = n /\ r.due <= clock /\ r.version = tray'[n] /\ Last(r)
  PROVE  FinalInv'
<1>1. UNCHANGED <<log, clock>> /\ \A c : c \in Everything' <=> c \in Everything
  BY ServerStill DEF PhoneInv
<1>2. \A q \in Pull : pull'[q] = IF q = p THEN s ELSE pull[q]
  BY PullFacts
<1>3. ASSUME NEW q \in Pull, pull'[q].pc = "apply", ~pull'[q].more, NEW c \in Everything',
             c.key \in Notif, ~c.deleted, c.due <= pull'[q].now
      PROVE  c.version = 1 \/ (c \in log' /\ c.seq <= pull'[q].next)
  BY <1>1, <1>2, <1>3 DEF FinalInv, KnownBy
<1>4. ASSUME NEW q \in Pull, pull'[q].pc = "list", NEW c \in Everything',
             c.key \in Notif, ~c.deleted, c.due <= pull'[q].now
      PROVE  c.version = 1 \/ (c \in log' /\ c.seq <= cursor')
  <2>1. c \in Everything /\ c.seq \in Nat /\ cursor \in Nat
    BY <1>1, <1>4, ChangeTyped, PullFacts DEF PhoneInv, ServerInv
  <2>2. CASE q = p
    BY <1>1, <1>2, <1>4, <2>1, <2>2 DEF KnownBy
  <2>3. CASE q # p
    <3>1. c.version = 1 \/ (c \in log /\ c.seq <= cursor)
      BY <1>2, <1>4, <2>1, <2>3 DEF FinalInv, KnownBy
    <3> QED BY <1>1, <2>1, <3>1
  <2> QED BY <2>2, <2>3
<1>5. ASSUME late = {}, NEW q \in Pull, pull'[q].pc \in Delivering, NEW r \in pull'[q].due
      PROVE  \A c \in Everything' : c.key = r.key /\ ~c.deleted => c.version <= r.version
  <2>1. Last(r)
    BY <1>2, <1>5 DEF FinalInv
  <2> QED BY <1>1, <2>1 DEF Last
<1>6. ASSUME late = {}, NEW n \in Notif, tray'[n] # 0
      PROVE  \E r \in log' : /\ r.key = n /\ r.due <= clock' /\ r.version = tray'[n]
               /\ \A c \in Everything' : c.key = r.key /\ ~c.deleted => c.version <= r.version
  <2>1. \E r \in log : r.key = n /\ r.due <= clock /\ r.version = tray'[n] /\ Last(r)
    BY <1>6 DEF FinalInv
  <2> QED BY <1>1, <2>1 DEF Last
<1>7. ASSUME NEW q \in Pull
      PROVE  /\ pull'[q].pc = "apply" /\ ~pull'[q].more =>
                  \A c \in Everything' : c.key \in Notif /\ ~c.deleted /\ c.due <= pull'[q].now =>
                     c.version = 1 \/ (c \in log' /\ c.seq <= pull'[q].next)
             /\ pull'[q].pc = "list" =>
                  \A c \in Everything' : c.key \in Notif /\ ~c.deleted /\ c.due <= pull'[q].now =>
                     c.version = 1 \/ (c \in log' /\ c.seq <= cursor')
             /\ late' = {} /\ pull'[q].pc \in Delivering => \A r \in pull'[q].due :
                  \A c \in Everything' : c.key = r.key /\ ~c.deleted => c.version <= r.version
  BY <1>3, <1>4, <1>5
<1>8. late' = {} => \A n \in Notif : tray'[n] # 0 =>
        \E r \in log' : /\ r.key = n /\ r.due <= clock' /\ r.version = tray'[n]
          /\ \A c \in Everything' : c.key = r.key /\ ~c.deleted => c.version <= r.version
  BY <1>6
<1> QED BY Zenon, <1>7, <1>8 DEF FinalInv, KnownBy, Last

\* A last page that was read after the clock holds what was due then.
LEMMA ReadPageFinal ==
  ASSUME PhoneInv, FinalInv, NEW p \in Pull, ReadPage(p)
  PROVE  FinalInv'
<1> DEFINE page == Page(Above(pull[p].cursor))
           next == IF page = {} THEN pull[p].cursor ELSE Newest(page).seq
           more == (page # Above(pull[p].cursor))
           s == [pull[p] EXCEPT !.pc = "apply", !.page = page, !.next = next, !.more = more]
<1>1. /\ pull[p].pc = "read" /\ pull' = [pull EXCEPT ![p] = s]
      /\ UNCHANGED <<server, phone, late>>
  BY DEF ReadPage, Step
<1>2. pull[p].cursor \in Nat /\ pull[p].now \in Nat /\ pull[p].now <= clock
  BY <1>1, PullFacts DEF PullRecord, GenuinePull
<1>3. next \in Nat /\ (~more => \A c \in log : c.seq <= next)
  <2> DEFINE b == pull[p].cursor
  <2>1. log \in SUBSET Change /\ IsFiniteSet(log)
    BY PullFacts
  <2>2. /\ page = Page(Above(b)) /\ b \in Nat
        /\ next = IF page = {} THEN b ELSE Newest(page).seq
        /\ ~more => page = Above(b)
    BY <1>2
  <2> HIDE DEF page, next, more, b
  <2> QED BY <2>1, <2>2, PageFacts
<1>4. /\ s.pc = "apply" /\ s.next = next /\ s.more = more /\ s.now = pull[p].now
  BY PullFacts DEF PullRecord
<1> HIDE DEF page, next, more, s
<1>5. ASSUME ~more, NEW c \in Everything, c.key \in Notif, ~c.deleted, c.due <= pull[p].now
      PROVE  c.version = 1 \/ (c \in log /\ c.seq <= next)
  <2>1. CASE c \in log
    BY <1>3, <1>5, <2>1
  <2>2. ASSUME NEW e \in Event, c \in open[e].changes PROVE c.version = 1
    <3>1. clock <= open[e].since + Margin
          /\ (c.version = 1 \/ c.due > open[e].since + Margin)
      BY <1>5, <2>2 DEF PhoneInv, ServerInv, InTime
    <3>2. clock \in Nat /\ c.due \in Nat /\ open[e].since + Margin \in Nat
      BY TimingAssumption, ChangeTyped DEF PhoneInv, ServerInv, ServerTyped
    <3> QED BY <1>2, <1>5, <3>1, <3>2
  <2> QED BY <2>1, <2>2, EverythingIs
<1>6. s.pc = "apply" /\ ~s.more => KnownBy(s.now, s.next)
  BY <1>4, <1>5 DEF KnownBy
<1>7. cursor <= cursor' /\ cursor' \in Nat /\ tray' = tray
  BY <1>1, PullFacts DEF phone
<1>8. s.pc # "list" /\ s.pc \notin Delivering
  BY <1>4 DEF Delivering
<1> QED BY <1>1, <1>6, <1>7, <1>8, PullFinal

LEMMA StoreCursorFinal ==
  ASSUME PhoneInv, Follows, FinalInv, NEW p \in Pull, StoreCursor(p)
  PROVE  FinalInv'
<1> DEFINE s == AfterPage(p, pull[p].now)
<1>1. /\ pull[p].pc = "apply" /\ pull' = [pull EXCEPT ![p] = s]
      /\ cursor' = pull[p].next
      /\ UNCHANGED <<server, cache, shown, tray, history>>
  BY DEF StoreCursor, Step
<1>2. /\ s.pc \notin Delivering /\ s.pc # "apply"
      /\ s.pc = "list" => ~pull[p].more /\ s.now = pull[p].now
  <2>1. CASE pull[p].more
    <3>1. s = [pull[p] EXCEPT !.pc = "request", !.cursor = pull[p].next, !.next = 0,
                              !.more = FALSE, !.now = pull[p].now]
      BY <2>1 DEF AfterPage
    <3> HIDE DEF s
    <3>2. s.pc = "request"
      BY <3>1, PullFacts DEF PullRecord
    <3> QED BY <3>2 DEF Delivering
  <2>2. CASE ~pull[p].more
    <3> DEFINE pc == IF pull[p].first THEN "mark" ELSE "list"
    <3>1. s = [Idle EXCEPT !.pc = pc, !.now = pull[p].now]
      BY <2>2 DEF AfterPage
    <3>2. pc \in {"mark", "list"}
      OBVIOUS
    <3> HIDE DEF s, pc
    <3>3. s.pc = pc /\ s.now = pull[p].now
      BY <3>1 DEF Idle
    <3> QED BY <2>2, <3>2, <3>3 DEF Delivering
  <2> QED BY <2>1, <2>2
<1> HIDE DEF s
<1>3. cursor <= cursor' /\ cursor' \in Nat
  BY <1>1, PullFacts DEF Follows, OnePull, PullRecord
<1>4. s.pc = "list" => KnownBy(s.now, cursor')
  <2>1. ASSUME s.pc = "list" PROVE KnownBy(pull[p].now, pull[p].next)
    BY <1>1, <1>2, <2>1 DEF FinalInv
  <2> QED BY <1>1, <1>2, <2>1
<1> QED BY <1>1, <1>2, <1>3, <1>4, PullFinal DEF history

\* A row that the cache has of a notification that is due, once the log was
\* read that far, is the last one.
LEMMA DueIsLast ==
  ASSUME PhoneInv, Follows, late = {}, NEW t \in Nat, KnownBy(t, cursor),
         NEW r \in log, r.key \in Notif, ~r.deleted, r.due <= t, r = cache[r.key]
  PROVE  Last(r)
<1> SUFFICES ASSUME NEW c \in Everything, c.key = r.key, ~c.deleted
             PROVE  c.version <= r.version
  BY DEF Last
<1>1. /\ r \in Everything /\ r.version \in Nat /\ r.version >= 1 /\ r.seq \in Nat
      /\ c.version \in Nat /\ c.seq \in Nat
  BY EverythingIs, ChangeTyped DEF PhoneInv, ServerInv
<1>2. /\ c.due = r.due /\ (c.seq < r.seq => c.version < r.version) /\ (c.seq = r.seq => c = r)
  BY <1>1 DEF PhoneInv, ServerInv, Versioned
<1>3. c.version = 1 \/ (c \in log /\ c.seq <= cursor)
  BY <1>2 DEF KnownBy
<1>4. CASE c \in log /\ c.seq <= cursor
  <2>1. r.seq >= c.seq
    BY <1>4 DEF Follows, CacheKeepsUp
  <2> QED BY <1>1, <1>2, <2>1
<1> QED BY <1>1, <1>3, <1>4

LEMMA ListDueFinal ==
  ASSUME PhoneInv, Follows, FinalInv, NEW p \in Pull, ListDue(p)
  PROVE  FinalInv'
<1> DEFINE s == [pull[p] EXCEPT !.pc = "deliver", !.due = DueRows(p)]
<1>1. /\ pull[p].pc = "list" /\ pull[p].now \in Nat /\ cursor \in Nat
      /\ UNCHANGED <<server, cursor, tray, late>>
  BY ListDueFacts, PullFacts DEF phone, history, PullRecord
<1>2. KnownBy(pull[p].now, cursor)
  BY <1>1 DEF FinalInv
<1>3. ASSUME late = {}, NEW r \in DueRows(p) PROVE Last(r)
  <2>1. /\ r \in log /\ r.key \in Notif /\ ~r.deleted /\ r.due <= pull[p].now
        /\ r = cache[r.key]
    BY ListDueFacts
  <2> QED BY <1>1, <1>2, <1>3, <2>1, DueIsLast
<1>4. s.pc = "deliver" /\ s.due = DueRows(p)
  BY PullFacts DEF PullRecord
<1>5. Idle.pc \notin Delivering \cup {"apply", "list"}
  BY DEF Idle, Delivering
<1>6. cursor <= cursor' /\ cursor' \in Nat
  BY <1>1
<1>7. pull' = [pull EXCEPT ![p] = Idle] \/ pull' = [pull EXCEPT ![p] = s]
  BY ListDueFacts
<1> HIDE DEF s
<1> QED BY <1>1, <1>3, <1>4, <1>5, <1>6, <1>7, PullFinal

\* The steps of a pull that read nothing and list nothing.
LEMMA QuietFinal ==
  ASSUME PhoneInv, FinalInv, NEW p \in Pull, NEW s, pull' = [pull EXCEPT ![p] = s],
         UNCHANGED <<server, cursor, tray, late>>,
         \/ s.pc \in {"idle", "request", "read"}
         \/ s.pc \in {"mark"}
         \/ s.pc \in Delivering /\ pull[p].pc \in Delivering /\ s.due \subseteq pull[p].due
  PROVE  FinalInv'
<1>1. s.pc \notin {"apply", "list"}
  BY DEF Delivering
<1>2. late = {} /\ s.pc \in Delivering => \A r \in s.due : Last(r)
  BY DEF FinalInv, Delivering
<1>3. cursor <= cursor' /\ cursor' \in Nat
  BY PullFacts
<1> QED BY <1>1, <1>2, <1>3, PullFinal

LEMMA ApplyFinal ==
  ASSUME PhoneInv, FinalInv, NEW p \in Pull, Apply(p)
  PROVE  FinalInv'
<1> DEFINE c == Oldest(pull[p].page)
           s == [pull[p] EXCEPT !.page = @ \ {c}]
<1>1. /\ pull[p].pc = "apply" /\ pull' = [pull EXCEPT ![p] = s]
      /\ UNCHANGED <<server, cursor, tray, history>>
  BY DEF Apply, Step
<1>2. s.pc = "apply" /\ s.next = pull[p].next /\ s.more = pull[p].more /\ s.now = pull[p].now
  BY <1>1, PullFacts DEF PullRecord
<1> HIDE DEF s
<1>3. s.pc = "apply" /\ ~s.more => KnownBy(s.now, s.next)
  BY <1>1, <1>2 DEF FinalInv
<1>4. s.pc # "list" /\ s.pc \notin Delivering
  BY <1>2 DEF Delivering
<1>5. cursor <= cursor' /\ cursor' \in Nat
  BY <1>1, PullFacts
<1> QED BY <1>1, <1>3, <1>4, <1>5, PullFinal DEF history

LEMMA ShowFinal ==
  ASSUME PhoneInv, FinalInv, NEW p \in Pull, Show(p)
  PROVE  FinalInv'
<1> DEFINE s == [pull[p] EXCEPT !.pc = "shown"]
<1> PICK r : r = pull[p].row
  OBVIOUS
<1>1. /\ pull[p].pc = "show" /\ pull' = [pull EXCEPT ![p] = s]
      /\ UNCHANGED <<server, cache, cursor, shown, failures, history>>
      /\ r \in pull[p].due /\ r \in log /\ r.key \in Notif
      /\ r.due <= clock /\ r.version \in Nat
      /\ tray' = [tray EXCEPT ![r.key] = r.version]
  BY ShowFacts
<1>2. s.pc = "shown" /\ s.due = pull[p].due
  BY PullFacts DEF PullRecord
<1>3. late = {} => \A x \in pull[p].due : Last(x)
  BY <1>1 DEF FinalInv, Delivering
<1>4. late = {} => \A n \in Notif : tray'[n] = tray[n] \/
         \E x \in log : x.key = n /\ x.due <= clock /\ x.version = tray'[n] /\ Last(x)
  <2> SUFFICES ASSUME late = {}, NEW n \in Notif, tray'[n] # tray[n]
               PROVE  \E x \in log : x.key = n /\ x.due <= clock /\ x.version = tray'[n] /\ Last(x)
    OBVIOUS
  <2>1. n = r.key /\ tray'[n] = r.version
    BY <1>1, PullFacts
  <2> QED BY <1>1, <1>3, <2>1
<1>5. cursor <= cursor' /\ cursor' \in Nat
  BY <1>1, PullFacts
<1> HIDE DEF s
<1> QED BY <1>1, <1>2, <1>3, <1>4, <1>5, PullFinal DEF history

\* The steps before and after those: a pull begins, asks for the clock, goes on
\* with the next row, or ends.
LEMMA OtherFinal ==
  ASSUME PhoneInv, FinalInv, NEW p \in Pull,
         \/ Start(p) \/ ServerTime(p) \/ MarkHistory(p) \/ Deliver(p) \/ MarkShown(p)
         \/ ShowFails(p) \/ RequestFails(p)
  PROVE  FinalInv'
<1>1. UNCHANGED <<server, cursor, tray, late>>
  BY DEF Start, ServerTime, MarkHistory, Deliver, MarkShown, ShowFails, RequestFails, phone, history
<1>2. \E s : /\ pull' = [pull EXCEPT ![p] = s]
             /\ \/ s.pc \in {"idle", "request", "read"}
                \/ /\ s.pc \in Delivering /\ pull[p].pc \in Delivering
                   /\ s.due \subseteq pull[p].due
  <2>1. CASE MarkHistory(p) \/ RequestFails(p)
    BY <2>1 DEF MarkHistory, RequestFails, Idle
  <2>2. CASE Start(p)
    <3> DEFINE s == [Idle EXCEPT !.pc = "request", !.cursor = cursor, !.first = (cursor = 0),
                                 !.now = clock + Skew]
    <3>1. s.pc = "request"
      BY DEF Idle
    <3> QED BY <2>2, <3>1 DEF Start
  <2>3. CASE ServerTime(p)
    <3> DEFINE s == [pull[p] EXCEPT !.pc = "read", !.now = clock]
    <3>1. s.pc = "read" /\ pull' = [pull EXCEPT ![p] = s]
      BY <2>3, PullFacts DEF ServerTime, PullRecord
    <3> HIDE DEF s
    <3> QED BY <3>1
  <2>4. ASSUME NEW r, Done(p, r), pull[p].pc \in Delivering
        PROVE  \E s : /\ pull' = [pull EXCEPT ![p] = s]
                      /\ \/ s.pc \in {"idle", "request", "read"}
                         \/ /\ s.pc \in Delivering /\ pull[p].pc \in Delivering
                            /\ s.due \subseteq pull[p].due
    BY <2>4, DoneFacts DEF Delivering
  <2>5. CASE Deliver(p)
    <3>1. PICK r \in pull[p].due :
            \/ Done(p, r)
            \/ pull' = [pull EXCEPT ![p] = [pull[p] EXCEPT !.pc = "show", !.row = r]]
      BY <2>5, DeliverFacts
    <3>2. pull[p].pc \in Delivering
      BY <2>5, DeliverFacts DEF Delivering
    <3> DEFINE s == [pull[p] EXCEPT !.pc = "show", !.row = r]
    <3>3. s.pc \in Delivering /\ s.due = pull[p].due
      BY PullFacts DEF PullRecord, Delivering
    <3>4. Done(p, r) \/ pull' = [pull EXCEPT ![p] = s]
      BY <3>1
    <3> HIDE DEF s
    <3> QED BY <2>4, <3>2, <3>3, <3>4
  <2>6. CASE MarkShown(p) \/ ShowFails(p)
    BY <2>4, <2>6 DEF MarkShown, ShowFails, Step, Delivering
  <2> QED BY <2>1, <2>2, <2>3, <2>5, <2>6
<1> QED BY <1>1, <1>2, QuietFinal

LEMMA KillFinal ==
  ASSUME PhoneInv, FinalInv, NEW i \in Isolate, Kill(i)
  PROVE  FinalInv'
<1>1. /\ pull' = [p \in Pull |-> IF IsolateOf[p] = i THEN Idle ELSE pull[p]]
      /\ UNCHANGED <<server, cursor, tray, late>>
  BY DEF Kill, phone, history
<1>2. UNCHANGED <<log, clock>> /\ Everything' = Everything
  BY <1>1 DEF server, Everything
<1>3. ASSUME NEW q \in Pull, pull'[q].pc # "idle" PROVE pull'[q] = pull[q]
  BY <1>1, <1>3 DEF Idle
<1> QED BY <1>1, <1>2, <1>3 DEF FinalInv, KnownBy, Last, Delivering

LEMMA FinalStep ==
  ASSUME PhoneInv, PhoneInv', Follows, FinalInv, [Next]_vars
  PROVE  FinalInv'
<1>1. clock \in Nat /\ clock' \in Nat
  BY DEF PhoneInv, ServerInv, ServerTyped
<1>2. ASSUME NEW e \in Event, Request(e) PROVE FinalInv'
  <2>1. /\ UNCHANGED <<log, clock, phone, pull, history>>
        /\ \A c \in Everything' : c \in Everything \/ (Writable(e, c) /\ open[e].changes = {})
    BY <1>2, RequestKeeps DEF PhoneInv
  <2>2. log \subseteq log' /\ late \subseteq late' /\ clock <= clock' /\ UNCHANGED <<cursor, tray, pull>>
    BY <1>1, <2>1 DEF phone, history
  <2> QED BY <1>1, <2>1, <2>2, ServerFinal
<1>3. ASSUME NEW e \in Event, Commit(e) \/ Abort(e) PROVE FinalInv'
  <2>1. /\ UNCHANGED <<nextSeq, clock, phone, pull>> /\ late \subseteq late'
        /\ open' = [open EXCEPT ![e] = Free]
        /\ log' = log \/ log' = log \union open[e].changes
    BY <1>3 DEF Commit, Abort, history
  <2>2. log \subseteq log' /\ \A c \in Everything' : c \in Everything
    BY <2>1, EndKeeps DEF PhoneInv
  <2>3. clock <= clock' /\ UNCHANGED <<cursor, tray, pull>>
    BY <1>1, <2>1 DEF phone
  <2> QED BY <1>1, <2>1, <2>2, <2>3, ServerFinal
<1>4. CASE Tick
  <2>1. /\ UNCHANGED <<log, phone, pull, history>> /\ clock <= clock'
        /\ \A c : c \in Everything' <=> c \in Everything
    BY <1>4, TickKeeps DEF PhoneInv
  <2>2. log \subseteq log' /\ late \subseteq late' /\ UNCHANGED <<cursor, tray, pull>>
    BY <2>1 DEF phone, history
  <2> QED BY <1>1, <2>1, <2>2, ServerFinal
<1>5. CASE UNCHANGED vars
  <2>1. UNCHANGED <<server, phone, pull, history>>
    BY <1>5 DEF vars
  <2>2. /\ log \subseteq log' /\ late \subseteq late' /\ clock <= clock'
        /\ UNCHANGED <<cursor, tray, pull>>
        /\ \A c \in Everything' : c \in Everything
    BY <1>1, <2>1, ServerStill DEF PhoneInv, phone, history
  <2> QED BY <1>1, <2>2, ServerFinal
<1>6. ASSUME NEW p \in Pull, PullStep(p) PROVE FinalInv'
  BY <1>6, OtherFinal, ReadPageFinal, ApplyFinal, StoreCursorFinal, ListDueFinal, ShowFinal
     DEF PullStep
<1> QED BY <1>2, <1>3, <1>4, <1>5, <1>6, OtherFinal, KillFinal DEF Next

LEMMA FinalInit == Init => FinalInv
BY DEF Init, FinalInv, Idle, Delivering

\* While the app pulls in one isolate, no change is merged into a notification
\* after the user was shown it: MERGE_MARGIN keeps merges away from what is
\* nearly due, and the server's clock is read before its log.
THEOREM NothingAfterwards == ASSUME SameIsolate PROVE Spec => []ShownIsFinal
<1>1. Init => PhoneInv /\ Follows /\ FinalInv
  BY PhoneInit, FollowsInit, FinalInit
<1>2. PhoneInv /\ Follows /\ FinalInv /\ [Next]_vars => (PhoneInv /\ Follows /\ FinalInv)'
  BY PhoneStep, FollowsStep, FinalStep
<1>3. FinalInv => ShownIsFinal
  <2> SUFFICES ASSUME FinalInv, NEW n \in Notif, tray[n] # 0, late = {},
                      NEW c \in Everything, c.key = n, ~c.deleted
               PROVE  c.version <= tray[n]
    BY DEF ShownIsFinal, Everything
  <2>1. PICK r \in log : r.key = n /\ r.version = tray[n] /\ Last(r)
    BY DEF FinalInv
  <2> QED BY <2>1 DEF Last
<1> QED BY <1>1, <1>2, <1>3, PTL DEF Spec
=============================================================================
