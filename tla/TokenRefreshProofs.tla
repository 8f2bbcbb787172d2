-------------------------- MODULE TokenRefreshProofs --------------------------
(***************************************************************************)
(* Theorems about TokenRefresh, for any number of isolates and tokens and  *)
(* whatever the times to live: a family of refresh tokens does not fork;   *)
(* the phone keeps the pair that the server accepts next; and refreshing   *)
(* does not sign the user out.                                             *)
(***************************************************************************)
EXTENDS TokenRefresh, FiniteSetTheorems, TLAPS

Known(k) == k \in Token /\ rows[k] # None

Typed ==
  /\ clock \in Time
  /\ rows \in [Token -> Row \union {None}]

\* Tokens are issued in order, so that the next number is fresh.
InOrder == \E c \in 0 .. MaxTokens : \A k \in Token : Known(k) <=> k <= c

\* A family is named by its first token.
FamilyOlder == \A k \in Token : Known(k) => rows[k].family <= k

\* At most one token of a family has not been rotated.
OneUnrotated ==
  \A k, m \in Token :
    Known(k) /\ Known(m) /\ rows[k].family = rows[m].family
      /\ rows[k].rotated = None /\ rows[m].rotated = None => k = m

RowsInv == Typed /\ InOrder /\ FamilyOlder /\ OneUnrotated

\* The phone asks for a rotation only of tokens that the server has issued.
StoreOK == \A k \in {"access", "refresh"} : store[k] # None => Known(store[k])

ActorOK(a) ==
  /\ actor[a].pc = "post" => Known(actor[a].token)
  /\ actor[a].pc = "write" => Known(actor[a].new)

PhoneInv ==
  /\ DOMAIN store = {"access", "refresh", "expiry"} /\ StoreOK
  /\ actor \in [Actor -> Local]
  /\ \A a \in Actor : ActorOK(a)

\* The inductive invariant.
TokenInv == RowsInv /\ PhoneInv

USE TokenAssumption

-----------------------------------------------------------------------------
(* The server's rows *)

LEMMA NextIsFresh ==
  ASSUME RowsInv, Issued + 1 \in Token
  PROVE  /\ ~Known(Issued + 1)
         /\ \A k \in Token : Known(k) <=> k < Issued + 1
<1>1. PICK c \in 0 .. MaxTokens : \A k \in Token : Known(k) <=> k <= c
  BY DEF RowsInv, InOrder
<1>2. {k \in Token : rows[k] # None} = 1 .. c
  BY <1>1 DEF Known, Token
<1>3. Issued = c
  <2>1. Cardinality(1 .. c) = c
    BY FS_Interval
  <2> QED BY <1>2, <2>1 DEF Issued
<1> QED BY <1>1, <1>3 DEF Token

LEMMA NewRowTyped ==
  ASSUME Typed, NEW f \in Token
  PROVE  /\ NewRow(f) \in Row /\ NewRow(f) # None
         /\ NewRow(f).family = f /\ NewRow(f).rotated = None
<1>1. NewRow(f) \in Row
  BY DEF Typed, NewRow, Row
<1>2. NewRow(f).family = f /\ NewRow(f).rotated = None
  BY DEF NewRow
<1>3. NewRow(f) # None
  BY <1>1, NoneAssumption
<1> QED BY <1>1, <1>2, <1>3

\* A login: the new family is not yet that of any token.
LEMMA LoginRows ==
  ASSUME RowsInv, UNCHANGED clock, NEW n, n = Issued + 1, n \in Token, rows' = LoggedIn(n)
  PROVE  RowsInv' /\ Known(n)' /\ \A k : Known(k) => Known(k)'
<1>1. ~Known(n) /\ \A k \in Token : Known(k) <=> k < n
  BY NextIsFresh
<1>2. NewRow(n) \in Row /\ NewRow(n) # None /\ NewRow(n).family = n
  BY NewRowTyped DEF RowsInv
<1>3. rows' = [rows EXCEPT ![n] = NewRow(n)]
  BY DEF LoggedIn
<1>4. \A k \in Token : rows'[k] = IF k = n THEN NewRow(n) ELSE rows[k]
  BY <1>3 DEF RowsInv, Typed
<1>5. Typed'
  BY <1>2, <1>3 DEF RowsInv, Typed
<1>6. \A k \in Token : Known(k)' <=> k < n \/ k = n
  BY <1>1, <1>2, <1>4 DEF Known
<1>7. InOrder'
  <2>1. \A k \in Token : Known(k)' <=> k <= n
    BY <1>6 DEF Token
  <2> QED BY <2>1 DEF InOrder, Token
<1>8. FamilyOlder'
  BY <1>1, <1>2, <1>4, <1>6 DEF RowsInv, FamilyOlder, Token
<1>9. OneUnrotated'
  <2> SUFFICES ASSUME NEW k \in Token, NEW m \in Token, Known(k)', Known(m)',
                      (rows[k].family = rows[m].family)',
                      (rows[k].rotated = None /\ rows[m].rotated = None)'
               PROVE  k = m
    BY DEF OneUnrotated
  <2>1. CASE k # n /\ m # n
    BY <1>1, <1>4, <1>6, <2>1 DEF RowsInv, OneUnrotated
  <2>2. \A j \in Token : Known(j)' /\ j # n => rows'[j].family < n
    BY <1>1, <1>4, <1>6 DEF RowsInv, Typed, FamilyOlder, Known, Row, Token
  <2>3. rows'[n].family = n
    BY <1>2, <1>4
  <2> QED BY <2>1, <2>2, <2>3 DEF Token
<1>10. \A k : Known(k) => Known(k)'
  BY <1>1, <1>6 DEF Known
<1> QED BY <1>5, <1>6, <1>7, <1>8, <1>9, <1>10 DEF RowsInv

\* A rotation: k was the unrotated token of its family, and n is now.
LEMMA RotatedRows ==
  ASSUME RowsInv, UNCHANGED clock, NEW k, Known(k), ~Refused(k),
         NEW n, n = Issued + 1, n \in Token, rows' = Rotated(k, n)
  PROVE  RowsInv' /\ Known(n)' /\ \A m : Known(m) => Known(m)'
<1> DEFINE f == rows[k].family
           r == [rows[k] EXCEPT !.rotated = clock]
<1>1. ~Known(n) /\ \A m \in Token : Known(m) <=> m < n
  BY NextIsFresh
<1>2. k \in Token /\ k < n /\ rows[k] \in Row /\ f \in Token /\ f <= k
  BY <1>1 DEF Known, RowsInv, Typed, FamilyOlder, Row
<1>3. NewRow(f) \in Row /\ NewRow(f) # None /\ NewRow(f).family = f
  BY <1>2, NewRowTyped DEF RowsInv
<1>4. r \in Row /\ r # None /\ r.family = f /\ r.rotated = clock /\ clock # None
  BY <1>2, NoneAssumption DEF RowsInv, Typed, Row, Time
<1>5. rows' = [[rows EXCEPT ![k] = r] EXCEPT ![n] = NewRow(f)]
  BY <1>2 DEF Rotated, RowsInv, Typed
<1> HIDE DEF r
<1>6. \A m \in Token : rows'[m] = IF m = n THEN NewRow(f) ELSE IF m = k THEN r ELSE rows[m]
  BY <1>2, <1>5 DEF RowsInv, Typed
<1>7. Typed'
  <2>1. rows' \in [Token -> Row \union {None}]
    BY <1>3, <1>4, <1>5 DEF RowsInv, Typed
  <2> QED BY <2>1 DEF RowsInv, Typed
<1>8. \A m \in Token : Known(m)' <=> m < n \/ m = n
  BY <1>1, <1>2, <1>3, <1>4, <1>6 DEF Known
<1>9. InOrder'
  <2>1. \A m \in Token : Known(m)' <=> m <= n
    BY <1>8 DEF Token
  <2> QED BY <2>1 DEF InOrder, Token
<1>10. \A m \in Token : Known(m)' =>
          \/ m = n /\ rows'[m].family = f
          \/ m # n /\ Known(m) /\ rows'[m].family = rows[m].family
  BY <1>1, <1>2, <1>3, <1>4, <1>6, <1>8 DEF Token
<1>11. FamilyOlder'
  BY <1>2, <1>10 DEF RowsInv, FamilyOlder, Token
<1>12. rows[k].rotated = None
  BY DEF Refused
<1>13. \A m \in Token : Known(m)' /\ m # n /\ rows'[m].rotated = None =>
          m # k /\ rows[m].rotated = None
  BY <1>4, <1>6
<1>14. OneUnrotated'
  <2>1. \A m \in Token : Known(m)' /\ m # n /\ rows'[m].rotated = None => rows'[m].family # f
    BY <1>2, <1>10, <1>12, <1>13 DEF RowsInv, OneUnrotated
  <2>2. ASSUME NEW l \in Token, Known(l)', l # n, rows'[l].rotated = None,
               NEW m \in Token, Known(m)', m # n, rows'[m].rotated = None,
               rows'[l].family = rows'[m].family
        PROVE  l = m
    <3>1. Known(l) /\ rows'[l].family = rows[l].family /\ rows[l].rotated = None
      BY <1>10, <1>13, <2>2
    <3>2. Known(m) /\ rows'[m].family = rows[m].family /\ rows[m].rotated = None
      BY <1>10, <1>13, <2>2
    <3> QED BY <2>2, <3>1, <3>2 DEF RowsInv, OneUnrotated
  <2>3. \A m \in Token : Known(m)' /\ m = n => rows'[m].family = f
    BY <1>10
  <2> QED BY <2>1, <2>2, <2>3 DEF OneUnrotated
<1>15. \A m : Known(m) => Known(m)'
  BY <1>1, <1>8 DEF Known
<1> QED BY <1>7, <1>8, <1>9, <1>11, <1>14, <1>15 DEF RowsInv

\* Burning a family changes neither its tokens nor what was rotated.
LEMMA BurnedRows ==
  ASSUME RowsInv, UNCHANGED clock, NEW k, rows' = Burned(k)
  PROVE  RowsInv' /\ \A m : Known(m) => Known(m)'
<1>1. \A m \in Token : rows'[m] = rows[m] \/ (Known(m) /\ rows'[m] = [rows[m] EXCEPT !.revoked = TRUE])
  BY DEF Burned, Known
<1>2. \A m \in Token : Known(m) =>
         /\ rows'[m] \in Row /\ rows'[m] # None
         /\ rows'[m].family = rows[m].family /\ rows'[m].rotated = rows[m].rotated
  <2> TAKE m \in Token
  <2> HAVE Known(m)
  <2>1. rows[m] \in Row
    BY DEF RowsInv, Typed, Known
  <2>2. /\ rows'[m] \in Row
        /\ rows'[m].family = rows[m].family /\ rows'[m].rotated = rows[m].rotated
    BY <1>1, <2>1 DEF Row
  <2>3. rows'[m] # None
    BY <2>2, NoneAssumption
  <2> QED BY <2>2, <2>3
<1>3. \A m \in Token : ~Known(m) => rows'[m] = None
  BY <1>1 DEF Known
<1>4. \A m : Known(m)' <=> Known(m)
  BY <1>2, <1>3 DEF Known
<1>5. Typed'
  <2>1. DOMAIN rows' = Token /\ rows' = [m \in Token |-> rows'[m]]
    BY DEF Burned
  <2>2. rows' \in [Token -> Row \union {None}]
    BY <1>2, <1>3, <2>1
  <2> QED BY <2>2 DEF RowsInv, Typed
<1>6. InOrder' /\ FamilyOlder' /\ OneUnrotated'
  BY <1>2, <1>4 DEF RowsInv, InOrder, FamilyOlder, OneUnrotated
<1> QED BY <1>4, <1>5, <1>6 DEF RowsInv
LEMMA SameRows ==
  ASSUME RowsInv, UNCHANGED <<clock, rows>>
  PROVE  RowsInv' /\ \A m : Known(m) => Known(m)'
  BY DEF RowsInv, Typed, InOrder, FamilyOlder, OneUnrotated, Known

-----------------------------------------------------------------------------
(* The phone *)

LEMMA IdleOK == Idle \in Local /\ Idle.pc = "idle"
  BY DEF Idle, Local, Steps, Keys, Time

\* A step of one actor, and perhaps of the store.
LEMMA SetPhone ==
  ASSUME PhoneInv, \A k : Known(k) => Known(k)', DOMAIN store' = DOMAIN store, StoreOK',
         NEW a \in Actor, NEW r \in Local, actor' = [actor EXCEPT ![a] = r],
         r.pc = "post" => Known(r.token)', r.pc = "write" => Known(r.new)'
  PROVE  PhoneInv'
<1>1. \A b \in Actor : actor'[b] = IF b = a THEN r ELSE actor[b]
  BY DEF PhoneInv
<1>2. \A b \in Actor : ActorOK(b)'
  BY <1>1 DEF PhoneInv, ActorOK
<1>3. actor' \in [Actor -> Local]
  BY DEF PhoneInv
<1> QED BY <1>2, <1>3 DEF PhoneInv

LEMMA SetActor ==
  ASSUME PhoneInv, \A k : Known(k) => Known(k)', UNCHANGED store,
         NEW a \in Actor, NEW r \in Local, actor' = [actor EXCEPT ![a] = r],
         r.pc = "post" => Known(r.token)', r.pc = "write" => Known(r.new)'
  PROVE  PhoneInv'
<1>1. DOMAIN store' = DOMAIN store /\ StoreOK'
  BY DEF PhoneInv, StoreOK
<1> QED BY <1>1, SetPhone

\* What is read from the store, if it is not None.
LEMMA StoredKnown ==
  ASSUME PhoneInv, Stored(store) # None
  PROVE  Known(Stored(store).access) /\ Known(Stored(store).refresh)
  BY DEF PhoneInv, StoreOK, Stored

LEMMA UnauthorisedInv ==
  ASSUME TokenInv, NEW i \in Isolate, Unauthorised(i) PROVE TokenInv'
<1> DEFINE pair == Stored(store)
           r == [Idle EXCEPT !.pc = "lock", !.stale = IF pair = None THEN None ELSE pair.access]
<1>1. r \in Local /\ r.pc = "lock"
  <2>1. (IF pair = None THEN None ELSE pair.access) \in Token \union {None}
    BY StoredKnown DEF TokenInv, Known
  <2> HIDE DEF pair
  <2> QED BY <2>1, IdleOK DEF Local, Steps
<1>2. actor' = [actor EXCEPT ![i] = r] /\ UNCHANGED <<clock, rows, store>>
  BY DEF Unauthorised
<1>3. i \in Actor
  BY DEF Actor
<1> HIDE DEF r
<1> QED BY <1>1, <1>2, <1>3, SameRows, SetActor DEF TokenInv

LEMMA LockInv ==
  ASSUME TokenInv, NEW i \in Isolate, Lock(i) PROVE TokenInv'
<1> DEFINE r == [actor[i] EXCEPT !.pc = "read"]
<1>1. i \in Actor /\ actor[i] \in Local
  BY DEF Actor, TokenInv, PhoneInv
<1>2. r \in Local /\ r.pc = "read"
  BY <1>1 DEF Local, Steps
<1>3. actor' = [actor EXCEPT ![i] = r] /\ UNCHANGED <<clock, rows, store>>
  BY DEF Lock
<1> HIDE DEF r
<1> QED BY <1>1, <1>2, <1>3, SameRows, SetActor DEF TokenInv

LEMMA ReadPairInv ==
  ASSUME TokenInv, NEW i \in Isolate, ReadPair(i) PROVE TokenInv'
<1> DEFINE pair == Stored(store)
           r == [actor[i] EXCEPT !.pc = "post", !.token = pair.refresh, !.since = clock]
<1>1. i \in Actor /\ actor[i] \in Local /\ clock \in Time
  BY DEF Actor, TokenInv, PhoneInv, RowsInv, Typed
<1>2. UNCHANGED <<clock, rows, store>>
  BY DEF ReadPair
<1>3. CASE actor' = [actor EXCEPT ![i] = Idle]
  BY <1>1, <1>2, <1>3, IdleOK, SameRows, SetActor DEF TokenInv
<1>4. CASE pair # None /\ actor' = [actor EXCEPT ![i] = r]
  <2>1. Known(pair.refresh)
    BY <1>4, StoredKnown DEF TokenInv
  <2> HIDE DEF pair
  <2>2. r \in Local /\ r.pc = "post" /\ r.token = pair.refresh
    BY <1>1, <2>1 DEF Local, Steps, Known
  <2> HIDE DEF r
  <2> QED BY <1>1, <1>2, <1>4, <2>1, <2>2, SameRows, SetActor DEF TokenInv
<1> QED BY <1>3, <1>4 DEF ReadPair

LEMMA RotateInv ==
  ASSUME TokenInv, NEW i \in Isolate, Rotate(i) PROVE TokenInv'
<1> DEFINE k == actor[i].token
           r(n) == [actor[i] EXCEPT !.pc = "write", !.new = n]
           q == [actor[i] EXCEPT !.pc = "rejected"]
<1>1. i \in Actor /\ actor[i] \in Local /\ Known(k)
  BY DEF Rotate, At, Actor, TokenInv, PhoneInv, ActorOK
<1>2. UNCHANGED <<clock, store>>
  BY DEF Rotate
<1>3. ASSUME NEW n, n = Issued + 1, n \in Token, ~Refused(k),
             rows' = Rotated(k, n), actor' = [actor EXCEPT ![i] = r(n)]
      PROVE  TokenInv'
  <2>1. r(n) \in Local /\ r(n).pc = "write" /\ r(n).new = n
    BY <1>1, <1>3 DEF Local, Steps
  <2>2. RowsInv' /\ Known(n)' /\ \A m : Known(m) => Known(m)'
    BY <1>1, <1>2, <1>3, RotatedRows DEF TokenInv
  <2> HIDE DEF r
  <2> QED BY <1>1, <1>2, <1>3, <2>1, <2>2, SetActor DEF TokenInv
<1>4. CASE actor' = [actor EXCEPT ![i] = Idle] /\ UNCHANGED rows
  BY <1>1, <1>2, <1>4, IdleOK, SameRows, SetActor DEF TokenInv
<1>5. CASE rows' = Burned(k) /\ actor' = [actor EXCEPT ![i] = q]
  <2>1. q \in Local /\ q.pc = "rejected"
    BY <1>1 DEF Local, Steps
  <2>2. RowsInv' /\ \A m : Known(m) => Known(m)'
    BY <1>2, <1>5, BurnedRows DEF TokenInv
  <2> HIDE DEF q
  <2> QED BY <1>1, <1>2, <1>5, <2>1, <2>2, SetActor DEF TokenInv
<1> QED BY <1>3, <1>4, <1>5 DEF Rotate

LEMMA RereadInv ==
  ASSUME TokenInv, NEW i \in Isolate, Reread(i) PROVE TokenInv'
<1> DEFINE r == [actor[i] EXCEPT !.pc = "clear"]
<1>1. i \in Actor /\ actor[i] \in Local
  BY DEF Actor, TokenInv, PhoneInv
<1>2. r \in Local /\ r.pc = "clear"
  BY <1>1 DEF Local, Steps
<1>3. UNCHANGED <<clock, rows, store>>
  BY DEF Reread
<1>4. actor' = [actor EXCEPT ![i] = Idle] \/ actor' = [actor EXCEPT ![i] = r]
  BY DEF Reread
<1> HIDE DEF r
<1> QED BY <1>1, <1>2, <1>3, <1>4, IdleOK, SameRows, SetActor DEF TokenInv

-----------------------------------------------------------------------------
(* The store and the user *)

\* A key is written with a token of the server's, or cleared.
LEMMA TouchKeyInv ==
  ASSUME TokenInv, NEW a \in Actor, NEW pc, NEW v, TouchKey(a, pc, v), v # None => Known(v)
  PROVE  TokenInv'
<1> DEFINE r == [actor[a] EXCEPT !.key = actor[a].key + 1]
<1>1. actor[a] \in Local /\ ActorOK(a)
  BY DEF TokenInv, PhoneInv
<1>2. UNCHANGED <<clock, rows>>
  BY DEF TouchKey
<1>3. RowsInv' /\ \A m : Known(m) => Known(m)'
  BY <1>2, SameRows DEF TokenInv
<1>4. DOMAIN store' = DOMAIN store /\ StoreOK'
  <2>1. store' = [store EXCEPT ![Keys[actor[a].key]] = v]
    BY DEF TouchKey
  <2>2. \A k \in DOMAIN store : store'[k] = store[k] \/ store'[k] = v
    BY <2>1
  <2> QED BY <1>2, <1>3, <2>1, <2>2 DEF StoreOK, TokenInv, PhoneInv
<1>5. CASE actor' = [actor EXCEPT ![a] = Idle]
  BY <1>3, <1>4, <1>5, IdleOK, SetPhone DEF TokenInv
<1>6. CASE actor[a].key # Len(Keys) /\ actor' = [actor EXCEPT ![a] = r]
  <2>1. r \in Local /\ r.pc = actor[a].pc /\ r.token = actor[a].token /\ r.new = actor[a].new
    BY <1>1, <1>6 DEF Local, Keys
  <2>2. (r.pc = "post" => Known(r.token)) /\ (r.pc = "write" => Known(r.new))
    BY <1>1, <2>1 DEF ActorOK
  <2>3. PICK q \in Local : q = r
    BY <2>1
  <2>4. (q.pc = "post" => Known(q.token)) /\ (q.pc = "write" => Known(q.new))
    BY <2>2, <2>3
  <2> HIDE DEF r
  <2> QED BY <1>3, <1>4, <1>6, <2>3, <2>4, SetPhone DEF TokenInv
<1> QED BY <1>5, <1>6 DEF TouchKey

LEMMA StoringInv ==
  ASSUME TokenInv, NEW a \in Actor, Storing(a) PROVE TokenInv'
<1>1. CASE WriteKey(a)
  <2>1. Known(actor[a].new)
    BY <1>1 DEF WriteKey, TouchKey, At, TokenInv, PhoneInv, ActorOK
  <2> QED BY <1>1, <2>1, TouchKeyInv DEF WriteKey
<1>2. CASE ClearKey(a)
  BY <1>2, TouchKeyInv DEF ClearKey
<1> QED BY <1>1, <1>2 DEF Storing

LEMMA SignInInv ==
  ASSUME TokenInv, SignIn PROVE TokenInv'
<1>1. PICK n : /\ n = Issued + 1 /\ n \in Token /\ rows' = LoggedIn(n)
               /\ actor' = [actor EXCEPT ![User] = [Idle EXCEPT !.pc = "write", !.new = n]]
  BY DEF SignIn
<1> DEFINE r == [Idle EXCEPT !.pc = "write", !.new = n]
<1>2. UNCHANGED <<clock, store>>
  BY DEF SignIn
<1>3. RowsInv' /\ Known(n)' /\ \A m : Known(m) => Known(m)'
  BY <1>1, <1>2, LoginRows DEF TokenInv
<1>4. r \in Local /\ r.pc = "write" /\ r.new = n
  BY <1>1, IdleOK DEF Local, Steps, Idle
<1>5. User \in Actor /\ actor' = [actor EXCEPT ![User] = r]
  BY <1>1 DEF Actor
<1> HIDE DEF r
<1> QED BY <1>2, <1>3, <1>4, <1>5, SetActor DEF TokenInv

LEMMA SignOutInv ==
  ASSUME TokenInv, SignOut PROVE TokenInv'
<1> DEFINE r == [actor[User] EXCEPT !.pc = "clear"]
<1>1. User \in Actor /\ actor[User] \in Local
  BY DEF Actor, TokenInv, PhoneInv
<1>2. r \in Local /\ r.pc = "clear"
  BY <1>1 DEF Local, Steps
<1>3. actor' = [actor EXCEPT ![User] = r] /\ UNCHANGED <<clock, rows, store>>
  BY DEF SignOut
<1> HIDE DEF r
<1> QED BY <1>1, <1>2, <1>3, SameRows, SetActor DEF TokenInv

-----------------------------------------------------------------------------
(* Failures and time *)

LEMMA GiveUpInv ==
  ASSUME TokenInv, NEW i \in Isolate, GiveUp(i) PROVE TokenInv'
<1>1. i \in Actor
  BY DEF Actor
<1>2. actor' = [actor EXCEPT ![i] = Idle] /\ UNCHANGED <<clock, rows, store>>
  BY DEF GiveUp
<1> QED BY <1>1, <1>2, IdleOK, SameRows, SetActor DEF TokenInv

LEMMA KillInv ==
  ASSUME TokenInv, NEW process, Kill(process) PROVE TokenInv'
<1>1. /\ actor' = [a \in Actor |-> IF a \in process THEN Idle ELSE actor[a]]
      /\ UNCHANGED <<clock, rows, store>>
  BY DEF Kill
<1>2. RowsInv' /\ \A m : Known(m) => Known(m)'
  BY <1>1, SameRows DEF TokenInv
<1>3. \A a \in Actor : actor'[a] = Idle \/ actor'[a] = actor[a]
  BY <1>1
<1>4. actor' \in [Actor -> Local]
  BY <1>1, IdleOK DEF TokenInv, PhoneInv
<1>5. \A a \in Actor : ActorOK(a)'
  BY <1>2, <1>3, IdleOK DEF TokenInv, PhoneInv, ActorOK
<1>6. StoreOK'
  BY <1>1, <1>2 DEF TokenInv, PhoneInv, StoreOK
<1> QED BY <1>1, <1>2, <1>4, <1>5, <1>6 DEF TokenInv, PhoneInv

LEMMA TickInv ==
  ASSUME TokenInv, Tick PROVE TokenInv'
<1>1. clock' \in Time /\ UNCHANGED <<rows, store, actor>>
  BY DEF Tick, TokenInv, RowsInv, Typed, Time
<1>2. \A m : Known(m)' <=> Known(m)
  BY <1>1 DEF Known
<1>3. RowsInv'
  BY <1>1, <1>2 DEF TokenInv, RowsInv, Typed, InOrder, FamilyOlder, OneUnrotated
<1>4. PhoneInv'
  BY <1>1, <1>2 DEF TokenInv, PhoneInv, StoreOK, ActorOK
<1> QED BY <1>3, <1>4 DEF TokenInv

LEMMA InitInv == Init => TokenInv
<1> SUFFICES ASSUME Init PROVE TokenInv
  OBVIOUS
<1>1. \A k \in Token : ~Known(k)
  BY DEF Init, Known
<1>2. Typed
  BY DEF Init, Typed, Time
<1>3. InOrder
  <2>1. \A k \in Token : Known(k) <=> k <= 0
    BY <1>1 DEF Token
  <2> QED BY <2>1 DEF InOrder
<1>4. FamilyOlder /\ OneUnrotated
  BY <1>1 DEF FamilyOlder, OneUnrotated
<1>5. PhoneInv
  BY IdleOK DEF Init, PhoneInv, StoreOK, ActorOK
<1> QED BY <1>2, <1>3, <1>4, <1>5 DEF TokenInv, RowsInv

LEMMA TokenStep == TokenInv /\ [Next]_vars => TokenInv'
<1> SUFFICES ASSUME TokenInv, [Next]_vars PROVE TokenInv'
  OBVIOUS
<1>1. CASE \E i \in Isolate : Refresh(i) \/ GiveUp(i)
  BY <1>1, UnauthorisedInv, LockInv, ReadPairInv, RotateInv, RereadInv, GiveUpInv DEF Refresh
<1>2. CASE \E a \in Actor : Storing(a)
  BY <1>2, StoringInv
<1>3. CASE SignIn \/ SignOut
  BY <1>3, SignInInv, SignOutInv
<1>4. CASE \E process \in Process : Kill(process)
  BY <1>4, KillInv
<1>5. CASE Tick
  BY <1>5, TickInv
<1>6. CASE UNCHANGED vars
  BY <1>6, SameRows DEF vars, TokenInv, PhoneInv, StoreOK, ActorOK
<1> QED BY <1>1, <1>2, <1>3, <1>4, <1>5, <1>6 DEF Next

\* At most one refresh token of a family can be rotated next (rotate_refresh
\* in the server's adapters/auth.py), in every order of logins, refreshes, losses,
\* kills and reuse, and for every value of the times to live and the grace.
THEOREM FamilyNeverForks == Spec => []OneLiveToken
<1>1. Init => TokenInv
  BY InitInv
<1>2. TokenInv /\ [Next]_vars => TokenInv'
  BY TokenStep
<1>3. TokenInv => OneLiveToken
  BY DEF TokenInv, RowsInv, OneUnrotated, OneLiveToken, Known, Refused
<1> QED BY <1>1, <1>2, <1>3, PTL DEF Spec

-----------------------------------------------------------------------------
(* The phone's pair and the server's rows.  Nothing here is about families: *)
(* the argument is about who holds which token.  As long as there was no    *)
(* mishap an isolate asks with the last token issued, or, in a process that *)
(* runs several, with one that another has just rotated: so recently that   *)
(* the server refuses it without revoking anything.                         *)

\* A lock for each process, and a fresh key for each writer.
OneHolder == ~shared => \A i, j \in Holding : i = j

FirstKey == \A a \in Actor : actor[a].pc \notin {"write", "clear"} => actor[a].key = 1

Tidy == OneHolder /\ FirstKey

\* The three keys are there: Stored(store) # None.
Full == store.access # None /\ store.refresh # None /\ store.expiry # None

Asking(a)  == actor[a].pc \in {"post", "rejected"}
Writing(a) == actor[a].pc = "write"
Halfway(a) == actor[a].pc = "write" /\ actor[a].key < 3
Busy(a)    == actor[a].pc \in {"post", "rejected", "write", "clear"}
LastExpired == Issued # 0 /\ RefreshExpired(Issued)

\* What holds as long as there was no mishap.  The user has the store for himself.
UserAlone == Busy(User) => \A i \in Isolate : ~Busy(i)

InPace ==
  \A i \in Isolate : Busy(i) =>
    /\ actor[i].since <= clock
    /\ shared => 2 * (clock - actor[i].since) <= Grace

\* The token issued last is the one that can be rotated.
LastIsLive ==
  /\ Issued # 0 => rows[Issued].rotated = None
  /\ \A k \in Token : Known(k) => ~rows[k].revoked

\* An isolate asks with the last token; or with one that was rotated so lately
\* that its answer is a plain refusal.
AsksInTime(j) ==
  LET t == actor[j].token IN
  /\ Known(t)
  /\ \/ /\ t = Issued
        /\ \A w \in Isolate : ~Halfway(w)
        /\ actor[j].pc = "rejected" => RefreshExpired(t)
     \/ /\ shared /\ Full
        /\ rows[t].rotated # None /\ 2 * actor[j].since <= Grace + 2 * rows[t].rotated

\* An isolate writes the last pair over the one before.
WritesLast(w) ==
  /\ actor[w].new = Issued
  /\ store.refresh # Issued /\ rows[store.refresh].rotated # None
  /\ actor[w].since <= rows[store.refresh].rotated
  /\ actor[w].key = 2 => store.access = Issued
  /\ \A v \in Isolate : Halfway(v) => v = w

Whole ==
  /\ Full /\ ~Writing(User)
  /\ \A w \in Isolate : ~Halfway(w)
  => store.access = Issued /\ store.refresh = Issued

\* An isolate clears the store when nobody else is at work and the last token
\* has expired.
ClearsLast(i) ==
  /\ LastExpired
  /\ \A j \in Isolate : ~Writing(j) /\ (Asking(j) => actor[j].token = Issued)
  /\ actor[i].key > 1 => store.access = None

EmptyInTime ==
  ~Full /\ ~Busy(User) /\ (signedIn \/ \E i \in Isolate : Busy(i)) => LastExpired

UserOK ==
  /\ actor[User].pc \in {"idle", "write", "clear"}
  /\ Busy(User) => ~signedIn
  /\ Writing(User) =>
       /\ actor[User].new = Issued
       /\ actor[User].key > 1 => store.access = Issued
       /\ (actor[User].key > 2) <=> (store.refresh = Issued)
  /\ actor[User].pc = "clear" /\ actor[User].key > 1 => store.access = None

CalmInv ==
  /\ UserAlone /\ InPace /\ LastIsLive /\ Whole /\ EmptyInTime /\ UserOK
  /\ \A i \in Isolate : /\ Asking(i) => AsksInTime(i)
                        /\ Halfway(i) => WritesLast(i)
                        /\ Writing(i) => Full
                        /\ actor[i].pc = "clear" => ClearsLast(i)

SessionInv == TokenInv /\ Tidy /\ (mishaps = {} => CalmInv)

-----------------------------------------------------------------------------
\* The number of the last token, of these rows and of those after a step.
LEMMA CountIs ==
  ASSUME NEW R, NEW c \in 0 .. MaxTokens, \A k \in Token : R[k] # None <=> k <= c
  PROVE  Cardinality({k \in Token : R[k] # None}) = c
<1>1. {k \in Token : R[k] # None} = 1 .. c
  BY DEF Token
<1>2. Cardinality(1 .. c) = c
  BY FS_Interval
<1> QED BY <1>1, <1>2

LEMMA LastIs ==
  ASSUME RowsInv
  PROVE  Issued \in 0 .. MaxTokens /\ \A k : Known(k) <=> k \in 1 .. Issued
<1>1. PICK c \in 0 .. MaxTokens : \A k \in Token : Known(k) <=> k <= c
  BY DEF RowsInv, InOrder
<1>2. Issued = c
  BY <1>1, CountIs DEF Issued, Known
<1> QED BY <1>1, <1>2 DEF Known, Token

\* A new token is the last one then.
LEMMA LastAfter ==
  ASSUME RowsInv, NEW n, n = Issued + 1, n \in Token,
         \A k \in Token : rows'[k] # None <=> Known(k) \/ k = n
  PROVE  Issued' = n
<1>1. \A k \in Token : rows'[k] # None <=> k <= n
  BY LastIs DEF Token
<1>2. n \in 0 .. MaxTokens
  BY DEF Token
<1>3. Cardinality({k \in Token : rows'[k] # None}) = n
  BY <1>1, <1>2, CountIs
<1> QED BY <1>3 DEF Issued

\* What the types say, without the sets they are stated with.
Facts ==
  /\ clock \in Nat /\ Grace \in Nat /\ RefreshTTL \in Nat /\ None \notin Nat
  /\ Issued \in Nat /\ \A k : Known(k) <=> k \in 1 .. Issued
  /\ User \in Actor /\ \A i \in Isolate : i \in Actor /\ i # User
  /\ \A a \in Actor :
       /\ actor[a].pc \in Steps /\ actor[a].key \in 1 .. 3 /\ actor[a].since \in Nat
       /\ actor[a].pc = "write" => Known(actor[a].new)
       /\ actor[a].pc = "post" => Known(actor[a].token)
  /\ \A k : Known(k) => /\ rows[k].rotated \in Nat \union {None}
                        /\ rows[k].issued \in Nat /\ rows[k].revoked \in BOOLEAN
  /\ store.access # None => Known(store.access)
  /\ store.refresh # None => Known(store.refresh)

LEMMA FactsHold == ASSUME TokenInv PROVE Facts
<1>1. clock \in Nat /\ Grace \in Nat /\ RefreshTTL \in Nat /\ None \notin Nat
  BY DEF TokenInv, RowsInv, Typed, Time
<1>2. Issued \in Nat /\ \A k : Known(k) <=> k \in 1 .. Issued
  BY LastIs DEF TokenInv
<1>3. User \in Actor /\ \A i \in Isolate : i \in Actor /\ i # User
  BY DEF Actor
<1>4. \A a \in Actor :
        /\ actor[a].pc \in Steps /\ actor[a].key \in 1 .. 3 /\ actor[a].since \in Nat
        /\ actor[a].pc = "write" => Known(actor[a].new)
        /\ actor[a].pc = "post" => Known(actor[a].token)
  <2> TAKE a \in Actor
  <2>1. actor[a] \in Local /\ ActorOK(a)
    BY DEF TokenInv, PhoneInv
  <2>2. DOMAIN Keys = 1 .. 3
    BY DEF Keys
  <2> QED BY <2>1, <2>2 DEF Local, ActorOK, Time
<1>5. \A k : Known(k) => /\ rows[k].rotated \in Nat \union {None}
                         /\ rows[k].issued \in Nat /\ rows[k].revoked \in BOOLEAN
  <2> SUFFICES ASSUME NEW k, Known(k)
               PROVE  /\ rows[k].rotated \in Nat \union {None}
                      /\ rows[k].issued \in Nat /\ rows[k].revoked \in BOOLEAN
    OBVIOUS
  <2>1. rows[k] \in Row
    BY DEF TokenInv, RowsInv, Typed, Known
  <2> QED BY <2>1 DEF Row, Time
<1>6. /\ store.access # None => Known(store.access)
      /\ store.refresh # None => Known(store.refresh)
  BY DEF TokenInv, PhoneInv, StoreOK
<1> QED BY <1>1, <1>2, <1>3, <1>4, <1>5, <1>6 DEF Facts

LEMMA StoredIs ==
  ASSUME TokenInv
  PROVE  /\ Stored(store) # None <=> Full
         /\ Full => Stored(store).access = store.access /\ Stored(store).refresh = store.refresh
<1>1. Full => Stored(store) = [access |-> store.access, refresh |-> store.refresh]
  BY DEF TokenInv, PhoneInv, Stored, Full
<1>2. Full => [access |-> store.access, refresh |-> store.refresh] # None
  <2> SUFFICES ASSUME Full PROVE [access |-> store.access, refresh |-> store.refresh] \in Pair
    BY NoneAssumption
  <2>1. store.access \in Token /\ store.refresh \in Token
    BY DEF Full, TokenInv, PhoneInv, StoreOK, Known
  <2> QED BY <2>1 DEF Pair
<1>3. ~Full => Stored(store) = None
  BY DEF TokenInv, PhoneInv, Stored, Full
<1> QED BY <1>1, <1>2, <1>3

-----------------------------------------------------------------------------
(* Steps that leave the server and the store alone *)

\* An actor ends what it does, or has not begun to ask: that makes nothing
\* worse, unless what it was writing is lost.
Retired(a) ==
  /\ actor'[a].pc \in {"idle", "lock", "read"} /\ actor'[a].key = 1
  /\ a = User => actor'[a].pc = "idle"
  /\ mishaps' = {} => ~(Writing(a) /\ store.refresh # actor[a].new)

LEMMA RetiredCalm ==
  ASSUME TokenInv, mishaps = {} => CalmInv, mishaps \subseteq mishaps',
         UNCHANGED <<clock, rows, store, shared, signedIn>>,
         \A a \in Actor : actor'[a] = actor[a] \/ Retired(a)
  PROVE  mishaps' = {} => CalmInv'
<1> SUFFICES ASSUME mishaps' = {} PROVE CalmInv'
  OBVIOUS
<1>1. CalmInv /\ Facts
  BY FactsHold
<1>2. Issued' = Issued /\ (Full' <=> Full) /\ (LastExpired' <=> LastExpired)
      /\ \A k : (Known(k)' <=> Known(k))
  BY DEF Issued, Full, LastExpired, RefreshExpired, Known
<1>3. \A i \in Isolate : (Busy(i)' => Busy(i) /\ actor'[i] = actor[i])
  BY <1>1 DEF Busy, Retired, Facts
<1>4. Busy(User)' => Busy(User) /\ actor'[User] = actor[User]
  BY <1>1 DEF Busy, Retired, Facts
<1>5. \A i \in Isolate : Halfway(i)' <=> Halfway(i)
  BY <1>1 DEF Halfway, Retired, CalmInv, WritesLast, Writing, Facts
<1>6. \A i \in Isolate : /\ Asking(i)' => Asking(i) /\ actor'[i] = actor[i]
                         /\ Writing(i)' => Writing(i) /\ actor'[i] = actor[i]
                         /\ actor'[i].pc = "clear" => actor[i].pc = "clear" /\ actor'[i] = actor[i]
  BY <1>1 DEF Asking, Writing, Retired, Facts
<1>7. UserAlone' /\ InPace' /\ LastIsLive'
  BY <1>1, <1>2, <1>3, <1>4 DEF CalmInv, UserAlone, InPace, LastIsLive
<1>8. Whole'
  <2>1. CASE Writing(User) /\ ~Writing(User)'
    <3>1. Retired(User)
      BY <1>1, <2>1 DEF Facts, Writing
    <3> QED BY <1>1, <1>2, <2>1, <3>1 DEF CalmInv, UserOK, Whole, Facts, Retired, Busy, Writing
  <2>2. CASE ~Writing(User)
    BY <1>1, <1>2, <1>5, <2>2 DEF CalmInv, Whole
  <2> QED BY <2>1, <2>2 DEF Whole
<1>9. EmptyInTime'
  <2>1. CASE Busy(User)
    BY <1>1, <1>2, <1>3, <2>1 DEF CalmInv, UserAlone, UserOK, EmptyInTime
  <2>2. CASE ~Busy(User)
    BY <1>1, <1>2, <1>3, <1>4, <2>2 DEF CalmInv, EmptyInTime
  <2> QED BY <2>1, <2>2
<1>10. UserOK'
  BY <1>1, <1>2, <1>4 DEF CalmInv, UserOK, Facts, Retired, Busy, Writing
<1>11. ASSUME NEW i \in Isolate PROVE Asking(i)' => AsksInTime(i)'
  BY <1>1, <1>2, <1>5, <1>6 DEF CalmInv, AsksInTime, RefreshExpired
<1>12. ASSUME NEW i \in Isolate PROVE Halfway(i)' => WritesLast(i)'
  BY <1>1, <1>2, <1>5, <1>6 DEF CalmInv, WritesLast, Halfway, Writing
<1>13. ASSUME NEW i \in Isolate PROVE Writing(i)' => Full'
  BY <1>1, <1>2, <1>6 DEF CalmInv
<1>14. ASSUME NEW i \in Isolate PROVE actor'[i].pc = "clear" => ClearsLast(i)'
  BY <1>1, <1>2, <1>6 DEF CalmInv, ClearsLast
<1> QED BY <1>7, <1>8, <1>9, <1>10, <1>11, <1>12, <1>13, <1>14 DEF CalmInv


\* No step but Lock's makes an isolate hold the lock.
LEMMA TidyStep ==
  ASSUME TokenInv, Tidy, UNCHANGED shared,
         \A a \in Actor : \/ actor'[a] = actor[a]
                          \/ /\ actor'[a].pc \notin {"write", "clear"} => actor'[a].key = 1
                             /\ a \in Isolate /\ actor'[a].pc \notin {"idle", "lock"} =>
                                  actor[a].pc \notin {"idle", "lock"}
  PROVE  Tidy'
<1>1. Facts
  BY FactsHold
<1>2. FirstKey'
  BY DEF Tidy, FirstKey
<1>3. \A i \in Holding' : i \in Holding
  BY <1>1 DEF Holding, Facts
<1> QED BY <1>2, <1>3 DEF Tidy, OneHolder

\* The step of one actor, seen from all.
LEMMA OneActor ==
  ASSUME SessionInv, NEW a \in Actor, NEW r, actor' = [actor EXCEPT ![a] = r]
  PROVE  \A b \in Actor : actor'[b] = IF b = a THEN r ELSE actor[b]
<1>1. actor \in [Actor -> Local]
  BY DEF SessionInv, TokenInv, PhoneInv
<1> QED BY <1>1

LEMMA RetiredOne ==
  ASSUME SessionInv, UNCHANGED <<clock, rows, store, shared, signedIn>>, mishaps \subseteq mishaps',
         NEW a \in Actor, NEW r, actor' = [actor EXCEPT ![a] = r], r.pc \in {"idle", "lock"},
         r.key = 1, a = User => r.pc = "idle",
         mishaps' = {} => ~(Writing(a) /\ store.refresh # actor[a].new)
  PROVE  Tidy' /\ (mishaps' = {} => CalmInv')
<1>1. \A b \in Actor : actor'[b] = IF b = a THEN r ELSE actor[b]
  <2>1. actor \in [Actor -> Local]
    BY DEF SessionInv, TokenInv, PhoneInv
  <2> QED BY <2>1
<1>2. Tidy'
  BY <1>1, TidyStep DEF SessionInv
<1>3. \A b \in Actor : actor'[b] = actor[b] \/ Retired(b)
  BY <1>1 DEF Retired
<1> QED BY <1>2, <1>3, RetiredCalm DEF SessionInv

LEMMA IdleIs == Idle.pc = "idle" /\ Idle.key = 1
  BY DEF Idle

LEMMA UnauthorisedCalm ==
  ASSUME SessionInv, NEW i \in Isolate, Unauthorised(i)
  PROVE  Tidy' /\ (mishaps' = {} => CalmInv')
<1> DEFINE r == [Idle EXCEPT !.pc = "lock",
                   !.stale = IF Stored(store) = None THEN None ELSE Stored(store).access]
<1>1. r.pc = "lock" /\ r.key = 1
  BY DEF Idle
<1>2. actor' = [actor EXCEPT ![i] = r] /\ UNCHANGED <<clock, rows, store, shared, signedIn, mishaps>>
  BY DEF Unauthorised
<1>3. actor[i].pc = "idle" /\ i \in Actor /\ i # User
  BY DEF Unauthorised, At, Actor
<1> HIDE DEF r
<1> QED BY <1>1, <1>2, <1>3, RetiredOne DEF Writing

LEMMA LockCalm ==
  ASSUME SessionInv, NEW i \in Isolate, Lock(i)
  PROVE  Tidy' /\ (mishaps' = {} => CalmInv')
<1>1. UNCHANGED <<clock, rows, store, shared, signedIn, mishaps>>
  BY DEF Lock
<1>2. \A b \in Actor : actor'[b] = IF b = i THEN [actor[i] EXCEPT !.pc = "read"] ELSE actor[b]
  <2>1. i \in Actor /\ actor' = [actor EXCEPT ![i] = [actor[i] EXCEPT !.pc = "read"]]
    BY DEF Lock, Actor
  <2> QED BY <2>1, OneActor
<1>3. actor[i].pc = "lock" /\ i \in Actor /\ i # User /\ (shared \/ Holding = {})
  BY DEF Lock, At, Actor
<1>4. actor'[i].pc = "read" /\ actor'[i].key = 1
  <2>1. actor[i] \in Local /\ actor[i].key = 1
    BY <1>3 DEF SessionInv, TokenInv, PhoneInv, Tidy, FirstKey
  <2> QED BY <1>2, <1>3, <2>1 DEF Local
<1>5. FirstKey'
  BY <1>2, <1>4 DEF SessionInv, Tidy, FirstKey
<1>6. OneHolder'
  <2>1. \A j \in Holding' : j = i \/ j \in Holding
    BY <1>2 DEF Holding, Actor
  <2> QED BY <1>1, <1>3, <2>1 DEF SessionInv, Tidy, OneHolder
<1>7. \A b \in Actor : actor'[b] = actor[b] \/ Retired(b)
  BY <1>2, <1>3, <1>4 DEF Retired, Writing
<1> QED BY <1>1, <1>5, <1>6, <1>7, RetiredCalm DEF SessionInv, Tidy

LEMMA GiveUpCalm ==
  ASSUME SessionInv, NEW i \in Isolate, GiveUp(i)
  PROVE  Tidy' /\ (mishaps' = {} => CalmInv')
<1>1. /\ actor' = [actor EXCEPT ![i] = Idle] /\ UNCHANGED <<clock, rows, store, shared, signedIn>>
      /\ mishaps \subseteq mishaps'
  BY DEF GiveUp
<1>2. mishaps' = {} => ~Writing(i)
  BY DEF GiveUp, At, Writing
<1>3. i \in Actor
  BY DEF Actor
<1> QED BY <1>1, <1>2, <1>3, IdleIs, RetiredOne

LEMMA KillCalm ==
  ASSUME SessionInv, NEW process, Kill(process)
  PROVE  Tidy' /\ (mishaps' = {} => CalmInv')
<1>1. /\ UNCHANGED <<clock, rows, store, shared, signedIn>> /\ mishaps \subseteq mishaps'
      /\ \A a \in Actor : actor'[a] = IF a \in process THEN Idle ELSE actor[a]
  BY DEF Kill
<1>2. mishaps' = {} => \A a \in process : ~(Writing(a) /\ store.refresh # actor[a].new)
  BY DEF Kill, At, Writing
<1>3. \A a \in Actor : actor'[a] = actor[a] \/ Retired(a)
  BY <1>1, <1>2, IdleIs DEF Retired
<1>4. Tidy'
  BY <1>1, IdleIs, TidyStep DEF SessionInv
<1> QED BY <1>1, <1>3, <1>4, RetiredCalm DEF SessionInv

-----------------------------------------------------------------------------
(* A refresh *)

\* The whole store holds the last pair, or an isolate is half way through
\* writing it and what i reads was rotated after that isolate had read it.
LEMMA ReadPairCalm ==
  ASSUME SessionInv, NEW i \in Isolate, ReadPair(i)
  PROVE  Tidy' /\ (mishaps' = {} => CalmInv')
<1> DEFINE pair == Stored(store)
<1>1. /\ UNCHANGED <<clock, rows, store, shared, signedIn>> /\ mishaps \subseteq mishaps'
      /\ actor[i].pc = "read" /\ i \in Actor /\ i # User
  BY DEF ReadPair, At, Actor
<1>2. CASE actor' = [actor EXCEPT ![i] = Idle]
  BY <1>1, <1>2, IdleIs, RetiredOne DEF Writing
<1>3. CASE /\ pair # None /\ (mishaps' = {} => User \notin Working)
           /\ actor' = [actor EXCEPT ![i] = [@ EXCEPT !.pc = "post", !.token = pair.refresh, !.since = clock]]
  <2>1. Full /\ pair.refresh = store.refresh /\ Facts
    BY <1>3, StoredIs, FactsHold DEF SessionInv
  <2>2. PICK r : r = [actor[i] EXCEPT !.pc = "post", !.token = store.refresh, !.since = clock]
    OBVIOUS
  <2>3. r.pc = "post" /\ r.token = store.refresh /\ r.since = clock /\ r.key = 1
    <3>1. actor[i] \in Local /\ actor[i].key = 1
      BY <1>1 DEF SessionInv, TokenInv, PhoneInv, Tidy, FirstKey
    <3> QED BY <2>2, <3>1 DEF Local
  <2>4. \A b \in Actor : actor'[b] = IF b = i THEN r ELSE actor[b]
    <3>1. actor' = [actor EXCEPT ![i] = r]
      BY <1>3, <2>1, <2>2
    <3> QED BY <1>1, <3>1, OneActor
  <2>5. Tidy'
    BY <1>1, <2>3, <2>4, TidyStep DEF SessionInv
  <2>6. ASSUME mishaps' = {} PROVE CalmInv'
    <3>1. CalmInv /\ ~Busy(User)
      BY <1>1, <1>3, <2>1, <2>6 DEF SessionInv, Working, Busy, Facts
    <3>2. Issued' = Issued /\ (Full' <=> Full) /\ (LastExpired' <=> LastExpired)
          /\ \A k : (Known(k)' <=> Known(k))
      BY <1>1 DEF Issued, Full, LastExpired, RefreshExpired, Known
    <3>3. \A j \in Isolate : /\ Halfway(j)' <=> Halfway(j)
                             /\ Writing(j)' <=> Writing(j)
                             /\ j # i => actor'[j] = actor[j]
      BY <1>1, <2>1, <2>3, <2>4 DEF Halfway, Writing, Facts
    <3>4. ~Busy(User)' /\ actor'[User] = actor[User]
      BY <1>1, <2>1, <2>4, <3>1 DEF Busy, Facts
    <3>5. UserAlone' /\ InPace' /\ LastIsLive'
      BY <1>1, <2>1, <2>3, <2>4, <3>1, <3>2, <3>4
         DEF CalmInv, UserAlone, InPace, LastIsLive, Busy, Facts
    <3>6. Whole' /\ EmptyInTime' /\ UserOK'
      BY <1>1, <2>1, <3>1, <3>2, <3>3, <3>4 DEF CalmInv, Whole, EmptyInTime, UserOK, Busy, Writing
    <3>7. AsksInTime(i)'
      <4>1. CASE \E w \in Isolate : Halfway(w)
        <5>1. PICK w \in Isolate : Halfway(w)
          BY <4>1
        <5>2. shared
          BY <1>1, <5>1 DEF SessionInv, Tidy, OneHolder, Holding, Halfway
        <5>3. WritesLast(w) /\ 2 * (clock - actor[w].since) <= Grace /\ w \in Actor
          BY <2>1, <3>1, <5>1, <5>2 DEF CalmInv, InPace, Busy, Halfway, Facts
        <5>4. Known(store.refresh) /\ rows[store.refresh].rotated \in Nat
          BY <2>1, <5>3 DEF Full, Facts, WritesLast
        <5>5. 2 * clock <= Grace + 2 * rows[store.refresh].rotated
          BY <2>1, <5>3, <5>4 DEF WritesLast, Facts
        <5> QED BY <1>1, <2>1, <2>3, <2>4, <3>2, <5>2, <5>3, <5>4, <5>5 DEF AsksInTime, WritesLast
      <4>2. CASE \A w \in Isolate : ~Halfway(w)
        <5>1. store.refresh = Issued /\ Known(store.refresh)
          BY <2>1, <3>1, <4>2 DEF CalmInv, Whole, Writing, Busy, Full, Facts
        <5> QED BY <1>1, <2>1, <2>3, <2>4, <3>2, <3>3, <4>2, <5>1 DEF AsksInTime
      <4> QED BY <4>1, <4>2
    <3>8. ASSUME NEW j \in Isolate, j # i PROVE Asking(j)' => AsksInTime(j)'
      BY <1>1, <3>1, <3>2, <3>3, <3>8 DEF CalmInv, AsksInTime, Asking, RefreshExpired
    <3>9. ASSUME NEW j \in Isolate PROVE Halfway(j)' => WritesLast(j)'
      BY <1>1, <1>3, <3>1, <3>2, <3>3, <2>3, <2>4 DEF CalmInv, WritesLast, Halfway
    <3>10. ASSUME NEW j \in Isolate PROVE Writing(j)' => Full'
      BY <2>1, <3>2
    <3>11. ASSUME NEW j \in Isolate PROVE actor'[j].pc = "clear" => ClearsLast(j)'
      <4> SUFFICES ASSUME actor'[j].pc = "clear" PROVE ClearsLast(j)'
        OBVIOUS
      <4>1. j # i /\ ClearsLast(j)
        BY <1>1, <2>3, <2>4, <3>1, <3>3 DEF CalmInv
      <4>2. store.refresh = Issued
        BY <2>1, <3>1, <4>1 DEF CalmInv, Whole, ClearsLast, Halfway, Writing, Busy
      <4> QED BY <1>1, <2>3, <2>4, <3>2, <3>3, <4>1, <4>2 DEF ClearsLast, Asking
    <3> QED BY <3>5, <3>6, <3>7, <3>8, <3>9, <3>10, <3>11 DEF CalmInv
  <2> QED BY <2>5, <2>6
<1> QED BY <1>2, <1>3 DEF ReadPair


\* What an isolate that asks knows, and the server has for it.
LEMMA AskedRow ==
  ASSUME SessionInv, CalmInv, NEW i \in Isolate, Asking(i)
  PROVE  /\ Known(actor[i].token) /\ ~Busy(User) /\ Issued # 0
         /\ rows[actor[i].token].rotated = None <=> actor[i].token = Issued
         /\ ~Reused(actor[i].token)
         /\ actor[i].token = Issued => \A w \in Isolate : ~Halfway(w)
<1> DEFINE t == actor[i].token
<1>1. Facts /\ AsksInTime(i) /\ Busy(i) /\ Known(t) /\ i \in Actor
  BY FactsHold DEF SessionInv, CalmInv, Asking, Busy, AsksInTime, Facts
<1>2. ~Busy(User) /\ Issued # 0
  BY <1>1 DEF CalmInv, UserAlone, Facts
<1>3. rows[Issued].rotated = None
  BY <1>2 DEF CalmInv, LastIsLive
<1>4. CASE t = Issued
  BY <1>1, <1>2, <1>3, <1>4 DEF AsksInTime, Reused
<1>5. CASE t # Issued
  <2>1. /\ shared /\ rows[t].rotated \in Nat /\ 2 * actor[i].since <= Grace + 2 * rows[t].rotated
        /\ actor[i].since \in Nat /\ 2 * (clock - actor[i].since) <= Grace
    BY <1>1, <1>5 DEF AsksInTime, Facts, CalmInv, InPace
  <2>2. clock - rows[t].rotated <= Grace
    BY <1>1, <2>1 DEF Facts
  <2>3. ~Reused(t)
    BY <1>1, <2>1, <2>2 DEF Reused, Facts
  <2> QED BY <1>1, <1>2, <1>5, <2>1, <2>3 DEF Facts
<1> QED BY <1>4, <1>5

\* The last token is rotated: its successor is the last one then, and to be
\* written over it.
LEMMA RotatedCalm ==
  ASSUME SessionInv, CalmInv, NEW i \in Isolate, actor[i].pc = "post", ~Refused(actor[i].token),
         UNCHANGED <<clock, store, shared, signedIn>>,
         NEW n, n = Issued + 1, n \in Token, rows' = Rotated(actor[i].token, n),
         actor' = [actor EXCEPT ![i].pc = "write", ![i].new = n]
  PROVE  CalmInv'
<1> DEFINE t == actor[i].token
<1>1. Facts /\ Asking(i) /\ i \in Actor /\ i # User
  BY FactsHold DEF SessionInv, Asking, Facts
<1>2. t = Issued /\ Known(t) /\ ~Busy(User) /\ ~RefreshExpired(t) /\ \A w \in Isolate : ~Halfway(w)
  BY <1>1, AskedRow DEF Refused
<1>3. Full
  BY <1>1, <1>2 DEF CalmInv, EmptyInTime, LastExpired, Busy
<1>4. store.refresh = t /\ store.access = t
  BY <1>2, <1>3 DEF CalmInv, Whole, Busy, Writing
<1>5. PICK r : r = [actor[i] EXCEPT !.pc = "write", !.new = n]
  OBVIOUS
<1>6. r.pc = "write" /\ r.new = n /\ r.since = actor[i].since /\ r.key = 1
  <2>1. actor[i] \in Local /\ actor[i].key = 1
    BY <1>1 DEF SessionInv, TokenInv, PhoneInv, Tidy, FirstKey
  <2> QED BY <1>5, <2>1 DEF Local
<1>7. \A b \in Actor : actor'[b] = IF b = i THEN r ELSE actor[b]
  <2>1. actor' = [actor EXCEPT ![i] = r]
    BY <1>5
  <2> QED BY <1>1, <2>1, OneActor
<1>8. /\ rows'[n] = NewRow(rows[t].family) /\ rows'[n].rotated = None /\ ~rows'[n].revoked
      /\ rows'[t].rotated = clock /\ rows'[t].revoked = rows[t].revoked
      /\ rows'[n] # None /\ rows'[t] # None
      /\ \A k \in Token : k # n /\ k # t => rows'[k] = rows[k]
  <2>1. rows[t] \in Row /\ t \in Token /\ t # n
    BY <1>1, <1>2 DEF SessionInv, TokenInv, RowsInv, Typed, Known, Facts
  <2>2. PICK q : q = [rows[t] EXCEPT !.rotated = clock]
    OBVIOUS
  <2>3. q.rotated = clock /\ q.revoked = rows[t].revoked /\ q \in Row
    BY <2>1, <2>2 DEF Row, SessionInv, TokenInv, RowsInv, Typed
  <2>4. rows' = [[rows EXCEPT ![t] = q] EXCEPT ![n] = NewRow(rows[t].family)]
    BY <2>1, <2>2 DEF Rotated, SessionInv, TokenInv, RowsInv, Typed
  <2>5. \A k \in Token : rows'[k] = IF k = n THEN NewRow(rows[t].family) ELSE IF k = t THEN q ELSE rows[k]
    BY <2>1, <2>4 DEF SessionInv, TokenInv, RowsInv, Typed
  <2>6. NewRow(rows[t].family).rotated = None /\ ~NewRow(rows[t].family).revoked
    BY DEF NewRow
  <2>7. NewRow(rows[t].family) # None
    BY <2>1, NewRowTyped DEF SessionInv, TokenInv, RowsInv, Row
  <2>8. q # None
    BY <2>3, NoneAssumption
  <2> QED BY <2>1, <2>3, <2>5, <2>6, <2>7, <2>8
<1>9. /\ Issued' = n /\ Full'
      /\ \A k : Known(k)' <=> Known(k) \/ k = n
  <2>1. \A k \in Token : rows'[k] # None <=> Known(k) \/ k = n
    BY <1>2, <1>8 DEF Known
  <2> QED BY <1>3, <2>1, LastAfter DEF Full, Known, SessionInv, TokenInv
<1>10. n \notin 1 .. Issued /\ t \in 1 .. Issued /\ n # 0
  BY <1>1, <1>2 DEF Facts
<1>11. UserAlone' /\ InPace' /\ LastIsLive'
  <2>1. UserAlone' /\ InPace'
    BY <1>1, <1>2, <1>6, <1>7 DEF CalmInv, UserAlone, InPace, Busy, Facts, Asking
  <2>2. rows'[Issued'].rotated = None
    BY <1>8, <1>9
  <2>3. \A k \in Token : Known(k)' => ~rows'[k].revoked
    BY <1>2, <1>8, <1>9 DEF CalmInv, LastIsLive
  <2> QED BY <2>1, <2>2, <2>3 DEF LastIsLive
<1>12. Halfway(i)' /\ \A w \in Isolate : Halfway(w)' => w = i
  <2>1. Halfway(i)'
    <3>1. actor'[i] = r
      BY <1>1, <1>7
    <3>2. actor'[i].pc = "write" /\ actor'[i].key = 1
      BY <1>6, <3>1
    <3> QED BY <3>2 DEF Halfway
  <2>2. ASSUME NEW w \in Isolate, w # i PROVE ~Halfway(w)'
    BY <1>1, <1>2, <1>7, <2>2 DEF Halfway, Facts
  <2> QED BY <2>1, <2>2
<1>13. Whole' /\ EmptyInTime' /\ UserOK'
  <2>1. Whole' /\ EmptyInTime'
    BY <1>9, <1>12 DEF Whole, EmptyInTime
  <2>2. actor'[User] = actor[User]
    BY <1>1, <1>7 DEF Facts
  <2> QED BY <1>2, <2>1, <2>2 DEF UserOK, CalmInv, Busy, Writing
<1>14. ASSUME NEW j \in Isolate, Asking(j)' PROVE AsksInTime(j)'
  <2>1. j # i /\ j \in Actor /\ actor'[j] = actor[j] /\ Asking(j) /\ Busy(j) /\ AsksInTime(j)
    BY <1>1, <1>6, <1>7, <1>14 DEF Asking, Busy, Facts, CalmInv
  <2>2. shared
    BY <1>1, <2>1 DEF SessionInv, Tidy, OneHolder, Holding, Asking
  <2>3. CASE actor[j].token = t
    <3>1. actor[j].since <= clock /\ actor[j].since \in Nat
      BY <1>1, <2>1 DEF CalmInv, InPace, Facts
    <3>2. 2 * actor[j].since <= Grace + 2 * clock
      BY <1>1, <3>1 DEF Facts
    <3>3. rows'[t].rotated = clock /\ clock # None
      BY <1>1, <1>8 DEF Facts
    <3> QED BY <1>2, <1>9, <2>1, <2>2, <2>3, <3>2, <3>3 DEF AsksInTime
  <2>4. CASE actor[j].token # t
    <3>1. actor[j].token # n /\ actor[j].token \in Token
      BY <1>10, <1>1, <2>1 DEF AsksInTime, Facts, Known
    <3>2. rows'[actor[j].token] = rows[actor[j].token]
      BY <1>8, <2>4, <3>1
    <3> QED BY <1>2, <1>9, <2>1, <2>2, <2>4, <3>2 DEF AsksInTime
  <2> QED BY <2>3, <2>4
<1>15. WritesLast(i)'
  <2>1. actor[i].since <= clock
    BY <1>1 DEF CalmInv, InPace, Busy, Asking
  <2>2. rows'[t].rotated = clock /\ clock # None
    BY <1>1, <1>8 DEF Facts
  <2>3. actor'[i].new = n /\ actor'[i].since = actor[i].since /\ actor'[i].key = 1
    BY <1>1, <1>6, <1>7
  <2>4. store'.refresh = t /\ t # n
    BY <1>4, <1>10
  <2> QED BY <1>9, <1>12, <2>1, <2>2, <2>3, <2>4 DEF WritesLast
<1>16. ASSUME NEW j \in Isolate PROVE actor'[j].pc # "clear"
  <2>1. actor[j].pc # "clear"
    BY <1>2 DEF CalmInv, ClearsLast, LastExpired
  <2> QED BY <1>1, <1>6, <1>7, <2>1 DEF Facts
<1> QED BY <1>9, <1>11, <1>12, <1>13, <1>14, <1>15, <1>16 DEF CalmInv

LEMMA RotateCalm ==
  ASSUME SessionInv, NEW i \in Isolate, Rotate(i)
  PROVE  Tidy' /\ (mishaps' = {} => CalmInv')
<1> DEFINE t == actor[i].token
<1>1. /\ UNCHANGED <<clock, store, shared, signedIn, mishaps>>
      /\ actor[i].pc = "post" /\ i \in Actor /\ i # User
  BY DEF Rotate, At, Actor
<1>2. CASE actor' = [actor EXCEPT ![i] = Idle] /\ UNCHANGED rows
  BY <1>1, <1>2, IdleIs, RetiredOne DEF Writing
<1>3. ASSUME NEW n, n = Issued + 1, n \in Token, ~Refused(t), rows' = Rotated(t, n),
             actor' = [actor EXCEPT ![i].pc = "write", ![i].new = n]
      PROVE  Tidy' /\ (mishaps' = {} => CalmInv')
  <2>1. Tidy'
    <3>1. PICK r : r = [actor[i] EXCEPT !.pc = "write", !.new = n]
      OBVIOUS
    <3>2. r.pc = "write"
      BY <1>1, <3>1 DEF SessionInv, TokenInv, PhoneInv, Local
    <3>3. \A b \in Actor : actor'[b] = IF b = i THEN r ELSE actor[b]
      <4>1. actor' = [actor EXCEPT ![i] = r]
        BY <1>3, <3>1
      <4> QED BY <1>1, <4>1, OneActor
    <3> QED BY <1>1, <3>2, <3>3, TidyStep DEF SessionInv
  <2>2. mishaps' = {} => CalmInv
    BY <1>1 DEF SessionInv
  <2>3. mishaps' = {} => CalmInv'
    BY <1>1, <1>3, <2>2, RotatedCalm
  <2> QED BY <2>1, <2>3
<1>4. CASE Refused(t) /\ rows' = Burned(t) /\ actor' = [actor EXCEPT ![i].pc = "rejected"]
  <2>1. PICK r : r = [actor[i] EXCEPT !.pc = "rejected"]
    OBVIOUS
  <2>2. r.pc = "rejected" /\ r.token = t /\ r.since = actor[i].since /\ r.key = 1
    <3>1. actor[i] \in Local /\ actor[i].key = 1
      BY <1>1 DEF SessionInv, TokenInv, PhoneInv, Tidy, FirstKey
    <3> QED BY <2>1, <3>1 DEF Local
  <2>3. \A b \in Actor : actor'[b] = IF b = i THEN r ELSE actor[b]
    <3>1. actor' = [actor EXCEPT ![i] = r]
      BY <1>4, <2>1
    <3> QED BY <1>1, <3>1, OneActor
  <2>4. Tidy'
    BY <1>1, <2>2, <2>3, TidyStep DEF SessionInv
  <2>5. ASSUME mishaps' = {} PROVE CalmInv'
    <3>1. CalmInv /\ Facts /\ Asking(i)
      BY <1>1, <2>5, FactsHold DEF SessionInv, Asking
    <3>2. /\ Known(t) /\ Issued # 0 /\ ~Reused(t) /\ (rows[t].rotated = None <=> t = Issued)
          /\ (t = Issued => \A w \in Isolate : ~Halfway(w))
      BY <3>1, AskedRow
    <3>3. rows' = rows
      BY <1>4, <3>2 DEF Burned, SessionInv, TokenInv, RowsInv, Typed
    <3>4. t = Issued => RefreshExpired(t)
      BY <1>4, <3>1, <3>2 DEF Refused, CalmInv, LastIsLive, Known
    <3>5. Issued' = Issued /\ (Full' <=> Full) /\ (LastExpired' <=> LastExpired)
          /\ \A k : (Known(k)' <=> Known(k))
      BY <1>1, <3>3 DEF Issued, Full, LastExpired, RefreshExpired, Known
    <3>6. \A a \in Actor : /\ Halfway(a)' <=> Halfway(a)
                           /\ Writing(a)' <=> Writing(a)
                           /\ Busy(a)' <=> Busy(a)
                           /\ Asking(a)' <=> Asking(a)
                           /\ actor'[a].pc = "clear" <=> actor[a].pc = "clear"
                           /\ actor'[a].token = actor[a].token
                           /\ actor'[a].since = actor[a].since
                           /\ a # i => actor'[a] = actor[a]
      BY <1>1, <2>2, <2>3, <3>1 DEF Halfway, Writing, Busy, Asking, Facts
    <3>7. UserAlone' /\ InPace' /\ LastIsLive' /\ Whole' /\ EmptyInTime' /\ UserOK'
      BY <1>1, <3>1, <3>3, <3>5, <3>6
         DEF CalmInv, UserAlone, InPace, LastIsLive, Whole, EmptyInTime, UserOK, Facts
    <3>8. ASSUME NEW j \in Isolate, Asking(j)' PROVE AsksInTime(j)'
      <4>1. j \in Actor /\ AsksInTime(j) /\ (actor'[j].pc = actor[j].pc \/ j = i)
        BY <3>1, <3>6, <3>8 DEF CalmInv, Facts
      <4>2. \A w \in Isolate : Halfway(w)' <=> Halfway(w)
        BY <3>1, <3>6 DEF Facts
      <4>3. CASE j = i /\ t = Issued
        BY <1>1, <3>2, <3>3, <3>4, <3>5, <3>6, <4>1, <4>2, <4>3 DEF AsksInTime, RefreshExpired
      <4>4. CASE j # i \/ t # Issued
        BY <1>1, <3>3, <3>5, <3>6, <4>1, <4>2, <4>4 DEF AsksInTime, RefreshExpired
      <4> QED BY <4>3, <4>4
    <3>9. ASSUME NEW j \in Isolate, Halfway(j)' PROVE WritesLast(j)'
      BY <1>1, <3>1, <3>3, <3>5, <3>6, <3>9, <2>2, <2>3 DEF CalmInv, WritesLast, Facts, Halfway
    <3>10. ASSUME NEW j \in Isolate, Writing(j)' PROVE Full'
      BY <3>1, <3>5, <3>6, <3>10 DEF CalmInv, Facts
    <3>11. ASSUME NEW j \in Isolate, actor'[j].pc = "clear" PROVE ClearsLast(j)'
      <4>1. j # i /\ ClearsLast(j) /\ j \in Actor /\ \A k \in Isolate : k \in Actor
        BY <1>1, <2>2, <2>3, <3>1, <3>6, <3>11 DEF CalmInv, Facts
      <4> QED BY <1>1, <3>5, <3>6, <4>1 DEF ClearsLast
    <3> QED BY <3>7, <3>8, <3>9, <3>10, <3>11 DEF CalmInv
  <2> QED BY <2>4, <2>5
<1> QED BY <1>2, <1>3, <1>4 DEF Rotate


LEMMA RereadCalm ==
  ASSUME SessionInv, NEW i \in Isolate, Reread(i)
  PROVE  Tidy' /\ (mishaps' = {} => CalmInv')
<1> DEFINE t == actor[i].token
           changed == Stored(store) # None /\ Stored(store).refresh # t
<1>1. /\ UNCHANGED <<clock, rows, store, shared, signedIn>> /\ mishaps \subseteq mishaps'
      /\ actor[i].pc = "rejected" /\ i \in Actor /\ i # User
  BY DEF Reread, At, Actor
<1>2. CASE actor' = [actor EXCEPT ![i] = Idle]
  BY <1>1, <1>2, IdleIs, RetiredOne DEF Writing
<1>3. CASE ~changed /\ actor' = [actor EXCEPT ![i] = [@ EXCEPT !.pc = "clear"]]
  <2>1. PICK r : r = [actor[i] EXCEPT !.pc = "clear"]
    OBVIOUS
  <2>2. r.pc = "clear" /\ r.since = actor[i].since /\ r.key = 1
    <3>1. actor[i] \in Local /\ actor[i].key = 1
      BY <1>1 DEF SessionInv, TokenInv, PhoneInv, Tidy, FirstKey
    <3> QED BY <2>1, <3>1 DEF Local
  <2>3. \A b \in Actor : actor'[b] = IF b = i THEN r ELSE actor[b]
    <3>1. actor' = [actor EXCEPT ![i] = r]
      BY <1>3, <2>1
    <3> QED BY <1>1, <3>1, OneActor
  <2>4. Tidy'
    BY <1>1, <2>2, <2>3, TidyStep DEF SessionInv
  <2>5. ASSUME mishaps' = {} PROVE CalmInv'
    <3>1. CalmInv /\ Facts /\ Asking(i) /\ AsksInTime(i)
      BY <1>1, <2>5, FactsHold DEF SessionInv, Asking, CalmInv
    <3>2. /\ Known(t) /\ Issued # 0 /\ (rows[t].rotated = None <=> t = Issued) /\ ~Busy(User)
      BY <3>1, AskedRow
    <3>3. ~(Full /\ store.refresh # t)
      BY <1>3, StoredIs DEF SessionInv
    <3>4. ~shared \/ Working = {i}
      BY <1>3, <2>5 DEF Reread
    <3>5. \A j \in Isolate : j # i => ~Busy(j)
      BY <1>1, <3>4 DEF SessionInv, Tidy, OneHolder, Holding, Busy, Working, Actor
    <3>6. \A j \in Isolate : ~Writing(j) /\ ~Halfway(j) /\ (Asking(j) => j = i)
      BY <1>1, <3>5 DEF Writing, Halfway, Busy, Asking
    <3>7. t = Issued
      <4>1. Full => store.refresh = Issued
        BY <3>1, <3>2, <3>6 DEF CalmInv, Whole, Writing, Busy
      <4>2. t # Issued => Full
        BY <3>1 DEF AsksInTime
      <4> QED BY <3>3, <4>1, <4>2
    <3>8. LastExpired
      BY <1>1, <3>1, <3>2, <3>7 DEF AsksInTime, LastExpired
    <3>9. Issued' = Issued /\ (Full' <=> Full) /\ LastExpired'
          /\ \A k : (Known(k)' <=> Known(k))
      BY <1>1, <3>8 DEF Issued, Full, LastExpired, RefreshExpired, Known
    <3>10. \A j \in Isolate : /\ ~Writing(j)' /\ ~Halfway(j)' /\ ~Asking(j)'
                              /\ j # i => ~Busy(j)' /\ actor'[j].pc # "clear"
      BY <1>1, <2>2, <2>3, <3>1, <3>5, <3>6 DEF Writing, Halfway, Asking, Busy, Facts
    <3>11. actor'[User] = actor[User] /\ actor'[i] = r
      BY <1>1, <2>3, <3>1 DEF Facts
    <3>12. UserAlone' /\ InPace' /\ LastIsLive' /\ Whole' /\ EmptyInTime' /\ UserOK'
      <4>1. UserAlone'
        BY <3>2, <3>11 DEF UserAlone, Busy
      <4>2. InPace'
        BY <1>1, <2>2, <3>1, <3>10, <3>11 DEF CalmInv, InPace, Busy, Asking
      <4>3. LastIsLive'
        BY <1>1, <3>1, <3>9 DEF CalmInv, LastIsLive
      <4>4. Whole'
        BY <1>1, <3>1, <3>6, <3>9, <3>11 DEF CalmInv, Whole, Writing
      <4>5. EmptyInTime'
        BY <3>9 DEF EmptyInTime
      <4>6. UserOK'
        BY <1>1, <3>1, <3>9, <3>11 DEF CalmInv, UserOK, Busy, Writing
      <4> QED BY <4>1, <4>2, <4>3, <4>4, <4>5, <4>6
    <3>13. ClearsLast(i)'
      BY <2>2, <3>9, <3>10, <3>11 DEF ClearsLast
    <3> QED BY <3>10, <3>12, <3>13 DEF CalmInv
  <2> QED BY <2>4, <2>5
<1> QED BY <1>2, <1>3 DEF Reread

-----------------------------------------------------------------------------
(* The store, key by key *)

\* A key is written or deleted by a: its record then, and the store.
LEMMA TouchedKey ==
  ASSUME SessionInv, NEW a \in Actor, NEW pc, NEW v, TouchKey(a, pc, v), pc \in {"write", "clear"}
  PROVE  /\ UNCHANGED <<clock, rows, shared, mishaps>> /\ actor[a].pc = pc
         /\ \A b \in Actor : b # a => actor'[b] = actor[b]
         /\ store'.access = IF actor[a].key = 1 THEN v ELSE store.access
         /\ store'.refresh = IF actor[a].key = 2 THEN v ELSE store.refresh
         /\ store'.expiry = IF actor[a].key = 3 THEN v ELSE store.expiry
         /\ actor[a].key = 3 => actor'[a] = Idle
         /\ actor[a].key # 3 => /\ actor'[a].pc = pc /\ actor'[a].key = actor[a].key + 1
                                /\ actor'[a].since = actor[a].since /\ actor'[a].new = actor[a].new
         /\ ~(actor[a].key = 3 /\ a = User) => UNCHANGED signedIn
         /\ actor[a].key = 3 /\ a = User => signedIn' = (pc = "write")
         /\ Tidy'
<1>1. UNCHANGED <<clock, rows, shared, mishaps>> /\ actor[a].pc = pc
  BY DEF TouchKey, At
<1>2. actor[a].key \in 1 .. 3 /\ Len(Keys) = 3 /\ Keys[1] = "access" /\ Keys[2] = "refresh" /\ Keys[3] = "expiry"
  BY FactsHold DEF SessionInv, Facts, Keys
<1>3. store' = [store EXCEPT ![Keys[actor[a].key]] = v] /\ DOMAIN store = {"access", "refresh", "expiry"}
  BY DEF TouchKey, SessionInv, TokenInv, PhoneInv
<1>4. /\ store'.access = IF actor[a].key = 1 THEN v ELSE store.access
      /\ store'.refresh = IF actor[a].key = 2 THEN v ELSE store.refresh
      /\ store'.expiry = IF actor[a].key = 3 THEN v ELSE store.expiry
  BY <1>2, <1>3
<1>5. PICK r : r = IF actor[a].key = 3 THEN Idle ELSE [actor[a] EXCEPT !.key = actor[a].key + 1]
  OBVIOUS
<1>6. \A b \in Actor : actor'[b] = IF b = a THEN r ELSE actor[b]
  <2>1. actor' = [actor EXCEPT ![a] = r]
    BY <1>2, <1>5 DEF TouchKey
  <2> QED BY <2>1, OneActor
<1>7. /\ actor[a].key = 3 => r = Idle
      /\ actor[a].key # 3 => /\ r.pc = pc /\ r.key = actor[a].key + 1
                             /\ r.since = actor[a].since /\ r.new = actor[a].new
  <2>1. actor[a] \in Local
    BY DEF SessionInv, TokenInv, PhoneInv
  <2> QED BY <1>1, <1>5, <2>1 DEF Local
<1>8. Tidy'
  BY <1>1, <1>6, <1>7, IdleIs, TidyStep DEF SessionInv
<1>9. (~(actor[a].key = 3 /\ a = User) => UNCHANGED signedIn)
  BY <1>2 DEF TouchKey
<1>10. actor[a].key = 3 /\ a = User => signedIn' = (pc = "write")
  BY <1>2, Zenon DEF TouchKey
<1> QED BY <1>1, <1>4, <1>6, <1>7, <1>8, <1>9, <1>10

\* An isolate writes a key of the last pair.
LEMMA WriteKeyCalm ==
  ASSUME SessionInv, NEW a \in Isolate, WriteKey(a)
  PROVE  Tidy' /\ (mishaps' = {} => CalmInv')
<1>1. TouchKey(a, "write", actor[a].new) /\ Facts /\ a \in Actor /\ a # User
  BY FactsHold DEF WriteKey, SessionInv, Facts
<1>2. /\ UNCHANGED <<clock, rows, shared, mishaps, signedIn>> /\ actor[a].pc = "write"
      /\ \A b \in Actor : b # a => actor'[b] = actor[b]
      /\ store'.access = IF actor[a].key = 1 THEN actor[a].new ELSE store.access
      /\ store'.refresh = IF actor[a].key = 2 THEN actor[a].new ELSE store.refresh
      /\ store'.expiry = IF actor[a].key = 3 THEN actor[a].new ELSE store.expiry
      /\ actor[a].key = 3 => actor'[a] = Idle
      /\ actor[a].key # 3 => /\ actor'[a].pc = "write" /\ actor'[a].key = actor[a].key + 1
                             /\ actor'[a].since = actor[a].since /\ actor'[a].new = actor[a].new
      /\ Tidy'
  BY <1>1, TouchedKey
<1>3. ASSUME mishaps' = {} PROVE CalmInv'
  <2>1. CalmInv /\ Writing(a) /\ Full /\ Busy(a)
    BY <1>2, <1>3 DEF SessionInv, CalmInv, Writing, Busy
  <2>2. Known(actor[a].new) /\ actor[a].new # None /\ actor[a].key \in 1 .. 3
    BY <1>1, <1>2 DEF Facts
  <2>3. Issued' = Issued /\ Full' /\ (LastExpired' <=> LastExpired)
        /\ \A k : (Known(k)' <=> Known(k))
    BY <1>2, <2>1, <2>2 DEF Issued, Full, LastExpired, RefreshExpired, Known
  <2>4. ~Busy(User) /\ actor'[User] = actor[User]
    BY <1>1, <1>2, <2>1 DEF CalmInv, UserAlone, Facts
  <2>5. /\ \A j \in Isolate : j # a => actor'[j] = actor[j]
        /\ \A j \in Isolate : actor[j].pc # "clear"
        /\ \A j \in Isolate : Asking(j)' => j # a
        /\ \A j \in Isolate : actor'[j].pc # "clear"
    BY <1>1, <1>2, <2>1, <2>2, IdleIs DEF Facts, CalmInv, ClearsLast, Asking
  <2>6. UserAlone' /\ InPace' /\ LastIsLive' /\ EmptyInTime' /\ UserOK'
    <3>1. UserAlone'
      BY <2>4 DEF UserAlone, Busy
    <3>2. InPace'
      BY <1>2, <2>1, <2>2, <2>5, IdleIs DEF CalmInv, InPace, Busy
    <3>3. LastIsLive'
      BY <1>2, <2>1, <2>3 DEF CalmInv, LastIsLive
    <3>4. EmptyInTime' /\ UserOK'
      BY <2>1, <2>3, <2>4 DEF EmptyInTime, UserOK, CalmInv, Busy, Writing
    <3> QED BY <3>1, <3>2, <3>3, <3>4
  <2>7. \A j \in Isolate : Halfway(j)' => Halfway(j)
    BY <1>2, <2>2, <2>5, IdleIs DEF Halfway
  <2>8. ASSUME NEW j \in Isolate, Asking(j)' PROVE AsksInTime(j)'
    <3>1. j # a /\ actor'[j] = actor[j] /\ Asking(j)
      BY <2>5, <2>8 DEF Asking
    <3> QED BY <1>2, <2>1, <2>3, <2>7, <3>1 DEF CalmInv, AsksInTime, RefreshExpired
  <2>9. ASSUME NEW j \in Isolate, Halfway(j)' PROVE WritesLast(j)'
    <3>1. Halfway(j) /\ WritesLast(j)
      BY <2>1, <2>7, <2>9 DEF CalmInv
    <3>2. CASE j = a
      <4>1. actor[a].key = 1 /\ actor'[a].key = 2 /\ actor'[a].new = actor[a].new /\ actor'[a].since = actor[a].since
        BY <1>2, <2>2, <2>9, <3>1, <3>2, IdleIs DEF Halfway
      <4>2. store'.access = actor[a].new /\ store'.refresh = store.refresh
        BY <1>2, <4>1
      <4>3. \A v \in Isolate : Halfway(v)' => v = j
        BY <2>7, <3>1 DEF WritesLast
      <4> QED BY <1>2, <2>3, <3>1, <3>2, <4>1, <4>2, <4>3 DEF WritesLast
    <3>3. CASE j # a
      <4>1. ~Halfway(a) /\ actor[a].key = 3
        BY <1>2, <2>2, <3>1, <3>3 DEF WritesLast, Halfway
      <4>2. actor'[j] = actor[j] /\ store'.access = store.access /\ store'.refresh = store.refresh
        BY <1>2, <2>5, <3>3, <4>1
      <4>3. \A v \in Isolate : Halfway(v)' => v = j
        BY <2>7, <3>1 DEF WritesLast
      <4> QED BY <1>2, <2>3, <3>1, <4>2, <4>3 DEF WritesLast
    <3> QED BY <3>2, <3>3
  <2>10. Whole'
    <3> SUFFICES ASSUME \A w \in Isolate : ~Halfway(w)'
                 PROVE  store'.access = Issued /\ store'.refresh = Issued
      BY <2>3 DEF Whole
    <3>1. CASE Halfway(a)
      <4>1. WritesLast(a) /\ actor[a].key \in {1, 2}
        BY <2>1, <2>2, <3>1 DEF CalmInv, Halfway
      <4>2. actor[a].key = 2
        BY <1>2, <4>1 DEF Halfway
      <4> QED BY <1>2, <4>1, <4>2 DEF WritesLast
    <3>2. CASE ~Halfway(a)
      <4>1. actor[a].key = 3
        BY <1>2, <2>2, <3>2 DEF Halfway
      <4>2. \A w \in Isolate : ~Halfway(w)
        BY <2>5, <3>2 DEF Halfway
      <4>3. store.access = Issued /\ store.refresh = Issued
        BY <2>1, <2>4, <4>2 DEF CalmInv, Whole, Writing, Busy
      <4> QED BY <1>2, <4>1, <4>3
    <3> QED BY <3>1, <3>2
  <2> QED BY <2>3, <2>5, <2>6, <2>8, <2>9, <2>10 DEF CalmInv
<1> QED BY <1>2, <1>3


\* An isolate deletes a key of a pair that has expired.
LEMMA ClearKeyCalm ==
  ASSUME SessionInv, NEW a \in Isolate, ClearKey(a)
  PROVE  Tidy' /\ (mishaps' = {} => CalmInv')
<1>1. TouchKey(a, "clear", None) /\ Facts /\ a \in Actor /\ a # User
  BY FactsHold DEF ClearKey, SessionInv, Facts
<1>2. /\ UNCHANGED <<clock, rows, shared, mishaps, signedIn>> /\ actor[a].pc = "clear"
      /\ \A b \in Actor : b # a => actor'[b] = actor[b]
      /\ store'.access = IF actor[a].key = 1 THEN None ELSE store.access
      /\ store'.refresh = IF actor[a].key = 2 THEN None ELSE store.refresh
      /\ store'.expiry = IF actor[a].key = 3 THEN None ELSE store.expiry
      /\ actor[a].key = 3 => actor'[a] = Idle
      /\ actor[a].key # 3 => /\ actor'[a].pc = "clear" /\ actor'[a].key = actor[a].key + 1
                             /\ actor'[a].since = actor[a].since /\ actor'[a].new = actor[a].new
      /\ Tidy'
  BY <1>1, TouchedKey
<1>3. ASSUME mishaps' = {} PROVE CalmInv'
  <2>1. CalmInv /\ ClearsLast(a) /\ Busy(a) /\ actor[a].key \in 1 .. 3
    BY <1>1, <1>2, <1>3 DEF SessionInv, CalmInv, Busy, Facts
  <2>2. ~Full'
    BY <1>2, <2>1 DEF Full
  <2>3. Issued' = Issued /\ LastExpired' /\ \A k : (Known(k)' <=> Known(k))
    BY <1>2, <2>1 DEF Issued, LastExpired, RefreshExpired, Known, ClearsLast
  <2>4. ~Busy(User) /\ actor'[User] = actor[User]
    BY <1>1, <1>2, <2>1 DEF CalmInv, UserAlone, Facts
  <2>5. \A j \in Isolate : /\ j # a => actor'[j] = actor[j]
                           /\ ~Writing(j)' /\ ~Halfway(j)' /\ ~Halfway(j)
                           /\ Asking(j)' => j # a
    BY <1>1, <1>2, <2>1, IdleIs DEF Facts, ClearsLast, Asking, Writing, Halfway
  <2>6. UserAlone' /\ InPace' /\ LastIsLive' /\ EmptyInTime' /\ UserOK' /\ Whole'
    <3>1. UserAlone'
      BY <2>4 DEF UserAlone, Busy
    <3>2. InPace'
      BY <1>2, <2>1, <2>5, IdleIs DEF CalmInv, InPace, Busy
    <3>3. LastIsLive'
      BY <1>2, <2>1, <2>3 DEF CalmInv, LastIsLive
    <3>4. EmptyInTime' /\ UserOK' /\ Whole'
      BY <1>2, <2>1, <2>2, <2>3, <2>4 DEF EmptyInTime, UserOK, Whole, CalmInv, Busy, Writing
    <3> QED BY <3>1, <3>2, <3>3, <3>4
  <2>7. ASSUME NEW j \in Isolate, Asking(j)' PROVE AsksInTime(j)'
    <3>1. j # a /\ actor'[j] = actor[j] /\ Asking(j)
      BY <2>5, <2>7 DEF Asking
    <3>2. actor[j].token = Issued /\ Known(actor[j].token)
      BY <2>1, <3>1, AskedRow DEF ClearsLast
    <3> QED BY <1>2, <2>3, <2>5, <3>1, <3>2 DEF AsksInTime, LastExpired
  <2>8. ASSUME NEW j \in Isolate, actor'[j].pc = "clear" PROVE ClearsLast(j)'
    <3>1. \A k \in Isolate : Asking(k)' => actor'[k].token = Issued
      BY <1>2, <2>1, <2>5 DEF ClearsLast, Asking
    <3>2. actor'[j].key > 1 => store'.access = None
      <4>1. CASE j = a
        BY <1>2, <2>1, <2>8, <4>1, IdleIs DEF ClearsLast
      <4>2. CASE j # a
        BY <1>2, <2>1, <2>5, <2>8, <4>2 DEF ClearsLast, CalmInv
      <4> QED BY <4>1, <4>2
    <3> QED BY <2>3, <2>5, <3>1, <3>2 DEF ClearsLast
  <2> QED BY <2>5, <2>6, <2>7, <2>8 DEF CalmInv
<1> QED BY <1>2, <1>3

\* While the user is at the store no isolate is at work.
LEMMA UserCalm ==
  ASSUME Facts, UNCHANGED <<clock, rows, shared>>, CalmInv, Busy(User),
         \A b \in Actor : b # User => actor'[b] = actor[b],
         Whole', EmptyInTime', UserOK'
  PROVE  CalmInv'
<1>1. Issued' = Issued /\ \A k : (Known(k)' <=> Known(k))
  BY DEF Issued, Known
<1>2. \A j \in Isolate : actor'[j] = actor[j] /\ ~Busy(j)
  BY DEF Facts, CalmInv, UserAlone
<1>3. \A j \in Isolate : ~Busy(j)' /\ ~Asking(j)' /\ ~Halfway(j)' /\ ~Writing(j)' /\ actor'[j].pc # "clear"
  BY <1>2 DEF Busy, Asking, Halfway, Writing
<1>4. UserAlone' /\ InPace'
  BY <1>3 DEF UserAlone, InPace
<1>5. LastIsLive'
  BY <1>1 DEF CalmInv, LastIsLive
<1> QED BY <1>3, <1>4, <1>5 DEF CalmInv

LEMMA UserStoringCalm ==
  ASSUME SessionInv, Storing(User)
  PROVE  Tidy' /\ (mishaps' = {} => CalmInv')
<1>1. Facts /\ User \in Actor
  BY FactsHold DEF SessionInv, Facts
<1>2. PICK pc, v : /\ pc \in {"write", "clear"} /\ TouchKey(User, pc, v)
                  /\ v = IF pc = "write" THEN actor[User].new ELSE None
  BY DEF Storing, WriteKey, ClearKey
<1>3. /\ UNCHANGED <<clock, rows, shared, mishaps>> /\ actor[User].pc = pc
      /\ \A b \in Actor : b # User => actor'[b] = actor[b]
      /\ store'.access = IF actor[User].key = 1 THEN v ELSE store.access
      /\ store'.refresh = IF actor[User].key = 2 THEN v ELSE store.refresh
      /\ store'.expiry = IF actor[User].key = 3 THEN v ELSE store.expiry
      /\ actor[User].key = 3 => actor'[User] = Idle
      /\ actor[User].key # 3 => /\ actor'[User].pc = pc /\ actor'[User].key = actor[User].key + 1
                                /\ actor'[User].new = actor[User].new
      /\ actor[User].key # 3 => UNCHANGED signedIn
      /\ actor[User].key = 3 => signedIn' = (pc = "write")
      /\ Tidy'
  BY <1>1, <1>2, TouchedKey
<1>4. ASSUME mishaps' = {} PROVE CalmInv'
  <2>1. CalmInv /\ Busy(User) /\ actor[User].key \in 1 .. 3 /\ Issued' = Issued
    BY <1>1, <1>2, <1>3, <1>4 DEF SessionInv, Busy, Facts, Issued
  <2>2. \A j \in Isolate : ~Busy(j)'
    BY <1>1, <1>3, <2>1 DEF Facts, CalmInv, UserAlone, Busy
  <2>3. CASE pc = "write"
    <3>1. v = Issued /\ Known(v) /\ v # None /\ ~signedIn
      BY <1>1, <1>2, <1>3, <2>1, <2>3 DEF CalmInv, UserOK, Writing, Facts
    <3>2. /\ actor[User].key > 1 => store.access = Issued
          /\ (actor[User].key > 2) <=> (store.refresh = Issued)
      BY <1>3, <2>1, <2>3 DEF CalmInv, UserOK, Writing
    <3>3. CASE actor[User].key = 3
      <4>1. actor'[User] = Idle /\ store'.access = Issued /\ store'.refresh = Issued
        BY <1>3, <3>2, <3>3
      <4>2. Full'
        BY <1>3, <3>1, <3>3, <4>1 DEF Full
      <4>3. Whole' /\ EmptyInTime' /\ UserOK'
        BY <2>1, <4>1, <4>2, IdleIs DEF Whole, EmptyInTime, UserOK, Busy, Writing
      <4> QED BY <1>1, <1>3, <2>1, <4>3, UserCalm
    <3>4. CASE actor[User].key # 3
      <4>1. /\ actor'[User].pc = "write" /\ actor'[User].key = actor[User].key + 1
            /\ actor'[User].new = Issued /\ ~signedIn'
        BY <1>2, <1>3, <2>3, <3>1, <3>4
      <4>2. Whole' /\ EmptyInTime' /\ UserOK'
        BY <1>3, <2>1, <3>1, <3>2, <3>4, <4>1 DEF Whole, EmptyInTime, UserOK, Busy, Writing
      <4> QED BY <1>1, <1>3, <2>1, <4>2, UserCalm
    <3> QED BY <3>3, <3>4
  <2>4. CASE pc = "clear"
    <3>1. v = None /\ ~signedIn /\ (actor[User].key > 1 => store.access = None)
      BY <1>2, <1>3, <2>1, <2>4 DEF CalmInv, UserOK
    <3>2. ~Full' /\ store'.access = None
      BY <1>3, <2>1, <3>1 DEF Full
    <3>3. ~signedIn'
      BY <1>3, <2>4, <3>1
    <3>4. UserOK'
      BY <1>3, <2>1, <2>4, <3>2, <3>3, IdleIs DEF UserOK, Busy, Writing
    <3>5. Whole' /\ EmptyInTime'
      BY <2>2, <3>2, <3>3 DEF Whole, EmptyInTime
    <3> QED BY <1>1, <1>3, <2>1, <3>4, <3>5, UserCalm
  <2> QED BY <1>2, <2>3, <2>4
<1> QED BY <1>3, <1>4

-----------------------------------------------------------------------------
(* The user, and time *)

LEMMA SignInCalm ==
  ASSUME SessionInv, SignIn
  PROVE  Tidy' /\ (mishaps' = {} => CalmInv')
<1>1. PICK n : /\ n = Issued + 1 /\ n \in Token /\ rows' = LoggedIn(n)
               /\ actor' = [actor EXCEPT ![User] = [Idle EXCEPT !.pc = "write", !.new = n]]
  BY DEF SignIn
<1>2. Facts /\ User \in Actor
  BY FactsHold DEF SessionInv, Facts
<1>3. UNCHANGED <<clock, store, shared>> /\ ~signedIn' /\ mishaps \subseteq mishaps'
  BY DEF SignIn, Overlap
<1>4. PICK r : r = [Idle EXCEPT !.pc = "write", !.new = n]
  OBVIOUS
<1>5. r.pc = "write" /\ r.new = n /\ r.key = 1
  BY <1>4 DEF Idle
<1>6. \A b \in Actor : actor'[b] = IF b = User THEN r ELSE actor[b]
  <2>1. actor' = [actor EXCEPT ![User] = r]
    BY <1>1, <1>4
  <2> QED BY <1>2, <2>1, OneActor
<1>7. Tidy'
  BY <1>3, <1>5, <1>6, TidyStep DEF SessionInv
<1>8. ASSUME mishaps' = {} PROVE CalmInv'
  <2>1. CalmInv /\ Working = {}
    BY <1>3, <1>8 DEF SessionInv, SignIn, Overlap
  <2>2. \A j \in Isolate : ~Busy(j)' /\ ~Asking(j)' /\ ~Halfway(j)' /\ ~Writing(j)' /\ actor'[j].pc # "clear"
    BY <1>2, <1>6, <2>1 DEF Facts, Working, Busy, Asking, Halfway, Writing
  <2>3. /\ NewRow(n) # None /\ NewRow(n).rotated = None /\ ~NewRow(n).revoked
        /\ \A k \in Token : rows'[k] = IF k = n THEN NewRow(n) ELSE rows[k]
    <3>1. NewRow(n) # None
      BY <1>1, NewRowTyped DEF SessionInv, TokenInv, RowsInv
    <3> QED BY <1>1, <3>1 DEF NewRow, LoggedIn, SessionInv, TokenInv, RowsInv, Typed
  <2>4. Issued' = n /\ \A k : (Known(k)' <=> Known(k) \/ k = n)
    <3>1. \A k \in Token : rows'[k] # None <=> Known(k) \/ k = n
      BY <2>3 DEF Known
    <3> QED BY <1>1, <3>1, LastAfter DEF Known, SessionInv, TokenInv
  <2>5. actor'[User].pc = "write" /\ actor'[User].new = n /\ actor'[User].key = 1
    BY <1>2, <1>5, <1>6
  <2>6. store'.refresh # n
    BY <1>1, <1>2, <1>3 DEF Facts
  <2>7. UserAlone' /\ InPace' /\ Whole' /\ EmptyInTime' /\ UserOK'
    BY <1>3, <2>2, <2>4, <2>5, <2>6 DEF UserAlone, InPace, Whole, EmptyInTime, UserOK, Busy, Writing
  <2>8. LastIsLive'
    <3>1. rows'[Issued'].rotated = None
      BY <1>1, <2>3, <2>4
    <3>2. \A k \in Token : Known(k)' => ~rows'[k].revoked
      BY <2>1, <2>3, <2>4 DEF CalmInv, LastIsLive
    <3> QED BY <3>1, <3>2 DEF LastIsLive
  <2> QED BY <2>2, <2>7, <2>8 DEF CalmInv
<1> QED BY <1>7, <1>8

LEMMA SignOutCalm ==
  ASSUME SessionInv, SignOut
  PROVE  Tidy' /\ (mishaps' = {} => CalmInv')
<1>1. Facts /\ User \in Actor /\ actor[User].pc = "idle"
  BY FactsHold DEF SessionInv, Facts, SignOut, At
<1>2. UNCHANGED <<clock, rows, store, shared>> /\ ~signedIn' /\ mishaps \subseteq mishaps'
  BY DEF SignOut, Overlap
<1>3. PICK r : r = [actor[User] EXCEPT !.pc = "clear"]
  OBVIOUS
<1>4. r.pc = "clear" /\ r.key = 1
  <2>1. actor[User] \in Local /\ actor[User].key = 1
    BY <1>1 DEF SessionInv, TokenInv, PhoneInv, Tidy, FirstKey
  <2> QED BY <1>3, <2>1 DEF Local
<1>5. \A b \in Actor : actor'[b] = IF b = User THEN r ELSE actor[b]
  <2>1. actor' = [actor EXCEPT ![User] = r]
    BY <1>3 DEF SignOut
  <2> QED BY <1>1, <2>1, OneActor
<1>6. Tidy'
  BY <1>2, <1>4, <1>5, TidyStep DEF SessionInv
<1>7. ASSUME mishaps' = {} PROVE CalmInv'
  <2>1. CalmInv /\ Working = {}
    BY <1>2, <1>7 DEF SessionInv, SignOut, Overlap
  <2>2. \A j \in Isolate : /\ ~Busy(j)' /\ ~Asking(j)' /\ ~Halfway(j)' /\ ~Writing(j)'
                           /\ actor'[j].pc # "clear" /\ ~Halfway(j)
    BY <1>1, <1>5, <2>1 DEF Facts, Working, Busy, Asking, Halfway, Writing
  <2>3. actor'[User].pc = "clear" /\ actor'[User].key = 1
    BY <1>1, <1>4, <1>5
  <2>4. Issued' = Issued /\ (Full' <=> Full) /\ \A k : (Known(k)' <=> Known(k))
    BY <1>2 DEF Issued, Full, Known
  <2>5. UserAlone' /\ InPace' /\ EmptyInTime' /\ UserOK'
    BY <1>2, <2>2, <2>3 DEF UserAlone, InPace, EmptyInTime, UserOK, Busy, Writing
  <2>6. Whole'
    BY <1>1, <1>2, <2>1, <2>2, <2>4 DEF CalmInv, Whole, Writing
  <2>7. LastIsLive'
    BY <1>2, <2>1, <2>4 DEF CalmInv, LastIsLive
  <2> QED BY <2>2, <2>5, <2>6, <2>7 DEF CalmInv
<1> QED BY <1>6, <1>7

LEMMA TickCalm ==
  ASSUME SessionInv, Tick
  PROVE  Tidy' /\ (mishaps' = {} => CalmInv')
<1>1. Facts
  BY FactsHold DEF SessionInv
<1>2. /\ clock' = clock + 1 /\ UNCHANGED <<rows, store, actor, shared, signedIn>>
      /\ mishaps \subseteq mishaps'
  BY DEF Tick
<1>3. Tidy'
  BY <1>2 DEF SessionInv, Tidy, OneHolder, FirstKey, Holding
<1>4. ASSUME mishaps' = {} PROVE CalmInv'
  <2>1. CalmInv
    BY <1>2, <1>4 DEF SessionInv
  <2>2. Issued' = Issued /\ (Full' <=> Full) /\ \A k : (Known(k)' <=> Known(k))
    BY <1>2 DEF Issued, Full, Known
  <2>3. \A k : Known(k) /\ RefreshExpired(k) => RefreshExpired(k)'
    <3> SUFFICES ASSUME NEW k, Known(k), RefreshExpired(k) PROVE RefreshExpired(k)'
      OBVIOUS
    <3>1. rows[k].issued + RefreshTTL \in Nat
      BY <1>1 DEF Facts
    <3> QED BY <1>1, <1>2, <3>1 DEF RefreshExpired, Facts
  <2>4. LastExpired => LastExpired'
    <3> SUFFICES ASSUME LastExpired PROVE LastExpired'
      OBVIOUS
    <3>1. Known(Issued)
      BY <1>1 DEF Facts, LastExpired
    <3> QED BY <1>2, <2>2, <2>3, <3>1 DEF LastExpired, RefreshExpired
  <2>5. \A a : /\ Asking(a)' <=> Asking(a)
               /\ Writing(a)' <=> Writing(a)
               /\ Halfway(a)' <=> Halfway(a)
               /\ Busy(a)' <=> Busy(a)
    BY <1>2 DEF Asking, Writing, Halfway, Busy
  <2>6. InPace'
    <3>1. shared => \A i \in Isolate : ~Slow(i)
      BY <1>4 DEF Tick
    <3>2. \A i \in Isolate : Busy(i) => i \in Working
      BY <1>1 DEF Busy, Working, Facts
    <3>3. \A i \in Isolate : Busy(i) => /\ actor[i].since <= clock + 1
                                        /\ shared => 2 * (clock' - actor[i].since) <= Grace
      BY <1>1, <1>2, <2>1, <3>1, <3>2 DEF CalmInv, InPace, Slow, Facts
    <3> QED BY <1>2, <2>5, <3>3 DEF InPace
  <2>7. UserAlone' /\ LastIsLive' /\ Whole' /\ EmptyInTime' /\ UserOK'
    BY <1>2, <2>1, <2>2, <2>4, <2>5
       DEF CalmInv, UserAlone, LastIsLive, Whole, EmptyInTime, UserOK
  <2>8. ASSUME NEW i \in Isolate
        PROVE  /\ Asking(i)' => AsksInTime(i)'
               /\ Halfway(i)' => WritesLast(i)'
               /\ Writing(i)' => Full'
               /\ actor'[i].pc = "clear" => ClearsLast(i)'
    BY <1>2, <2>1, <2>2, <2>3, <2>4, <2>5 DEF CalmInv, AsksInTime, WritesLast, ClearsLast
  <2> QED BY <2>7, <2>6, <2>8 DEF CalmInv
<1> QED BY <1>3, <1>4

LEMMA StutterCalm ==
  ASSUME SessionInv, UNCHANGED vars
  PROVE  Tidy' /\ (mishaps' = {} => CalmInv')
<1>1. /\ UNCHANGED <<clock, rows, store, shared, signedIn>> /\ mishaps \subseteq mishaps'
      /\ UNCHANGED <<mishaps, actor>>
  BY DEF vars
<1> QED BY <1>1, TidyStep, RetiredCalm DEF SessionInv

LEMMA SessionInit == Init => SessionInv
<1> SUFFICES ASSUME Init PROVE SessionInv
  OBVIOUS
<1>1. TokenInv
  BY InitInv
<1>2. \A a \in Actor : actor[a].pc = "idle" /\ actor[a].key = 1
  BY IdleIs DEF Init
<1>3. Facts
  BY <1>1, FactsHold
<1>4. Tidy
  BY <1>2, <1>3 DEF Tidy, OneHolder, FirstKey, Holding, Facts
<1>5. ~Full /\ ~signedIn /\ \A k : ~Known(k)
  BY DEF Init, Full, Known
<1>6. Issued = 0
  BY <1>3, <1>5 DEF Facts
<1>7. \A a \in Actor : ~Busy(a) /\ ~Asking(a) /\ ~Halfway(a) /\ ~Writing(a)
  BY <1>2 DEF Busy, Asking, Halfway, Writing
<1>8. CalmInv
  BY <1>2, <1>3, <1>5, <1>6, <1>7
     DEF CalmInv, UserAlone, InPace, LastIsLive, Whole, EmptyInTime, UserOK, Facts
<1> QED BY <1>1, <1>4, <1>8 DEF SessionInv

LEMMA SessionStep == SessionInv /\ [Next]_vars => SessionInv'
<1> SUFFICES ASSUME SessionInv, [Next]_vars PROVE Tidy' /\ (mishaps' = {} => CalmInv')
  BY TokenStep DEF SessionInv
<1>1. CASE \E i \in Isolate : Refresh(i) \/ GiveUp(i)
  BY <1>1, UnauthorisedCalm, LockCalm, ReadPairCalm, RotateCalm, RereadCalm, GiveUpCalm DEF Refresh
<1>2. CASE \E a \in Actor : Storing(a)
  BY <1>2, WriteKeyCalm, ClearKeyCalm, UserStoringCalm DEF Actor, Storing
<1>3. CASE SignIn \/ SignOut
  BY <1>3, SignInCalm, SignOutCalm
<1>4. CASE \E process \in Process : Kill(process)
  BY <1>4, KillCalm
<1>5. CASE Tick
  BY <1>5, TickCalm
<1>6. CASE UNCHANGED vars
  BY <1>6, StutterCalm
<1> QED BY <1>1, <1>2, <1>3, <1>4, <1>5, <1>6 DEF Next

\* Between refreshes the phone has the pair that the server accepts next
\* (KpClient._refresh and TokenStore against rotate_refresh), for any number of
\* isolates, tokens and failures, unless a mishap of the model's list happened.
THEOREM PairStaysCurrent == Spec => []PairIsCurrent
<1>1. SessionInv => PairIsCurrent
  <2> SUFFICES ASSUME SessionInv, Resting, Stored(store) # None, mishaps = {}
               PROVE  /\ Stored(store).access = Stored(store).refresh
                      /\ rows[Stored(store).refresh].rotated = None
                      /\ ~rows[Stored(store).refresh].revoked
    BY DEF PairIsCurrent
  <2>1. Facts /\ CalmInv
    BY FactsHold DEF SessionInv
  <2>2. Full /\ Stored(store).access = store.access /\ Stored(store).refresh = store.refresh
    BY StoredIs DEF SessionInv
  <2>3. store.access = Issued /\ store.refresh = Issued
    BY <2>1, <2>2 DEF CalmInv, Whole, Resting, Working, Writing, Halfway, Facts
  <2>4. Known(Issued) /\ Issued \in Token /\ Issued # 0
    BY <2>1, <2>2, <2>3 DEF Full, Facts, Known
  <2> QED BY <2>1, <2>2, <2>3, <2>4 DEF CalmInv, LastIsLive
<1> QED BY <1>1, SessionInit, SessionStep, PTL DEF Spec

\* Refreshing does not sign the user out (KpClient._refresh, which clears the
\* store only when it still has the token that was refused): without a mishap the
\* pair is gone only when the last token issued has expired.
THEOREM SessionIsKept == Spec => []SessionKept
<1>1. SessionInv => SessionKept
  <2> SUFFICES ASSUME SessionInv, Resting, signedIn, Stored(store) = None, mishaps = {}
               PROVE  RefreshExpired(Issued)
    BY DEF SessionKept
  <2>1. Facts /\ CalmInv /\ ~Full
    BY FactsHold, StoredIs DEF SessionInv
  <2> QED BY <2>1 DEF CalmInv, EmptyInTime, LastExpired, Resting, Working, Busy, Facts
<1> QED BY <1>1, SessionInit, SessionStep, PTL DEF Spec
===============================================================================
