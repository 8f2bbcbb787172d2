---------------------------- MODULE TokenRefresh -----------------------------
(***************************************************************************)
(* How a phone stays signed in: KpClient._refresh and TokenStore on the    *)
(* phone, rotate_refresh on the server.                                    *)
(*                                                                         *)
(* The UI isolate and the background isolate share one token pair in the   *)
(* platform's secure storage, which is read at once but written and        *)
(* cleared key by key.  Each refreshes it when a request is answered 401.  *)
(* A file lock keeps the isolates of different processes apart, those of   *)
(* one process it does not, and the user's sign-in and sign-out do not     *)
(* take it.  The server rotates refresh tokens: a token that comes back    *)
(* after it has been rotated is refused, and after a grace period its      *)
(* whole family is revoked.                                                *)
(***************************************************************************)
EXTENDS Naturals, FiniteSets, Sequences

CONSTANTS
  Isolate,      \* isolates that send requests
  Ui,           \* the one of the app's screens; the others sync in the background
  User,         \* the user at the UI, who signs in and out
  AccessTTL,    \* api_jwt_access_ttl_seconds, in ticks of the clock
  RefreshTTL,   \* api_jwt_refresh_ttl_seconds
  Grace,        \* api_refresh_reuse_grace_seconds
  None,         \* no token, a key that is not stored
  MaxTokens,    \* bound: tokens issued
  MaxTime,      \* bound: ticks of the clock
  MaxFailures   \* bound: lost requests and kills

\* Tokens are numbered in the order of their issue; a number names the access
\* and the refresh token that were issued together.
Token == 1 .. MaxTokens

ASSUME TokenAssumption ==
  /\ Ui \in Isolate /\ User \notin Isolate
  /\ None \notin Nat
  /\ {AccessTTL, RefreshTTL, Grace, MaxTokens, MaxTime, MaxFailures} \subseteq Nat

VARIABLES
  clock,
  rows,         \* refresh_tokens
  store,        \* the phone's secure storage: key -> the token it belongs to
  actor,        \* what each isolate and the user are doing
  shared,       \* the isolates run in one process
  session,      \* AuthState.session: the app shows the agenda, not the login
  failures,
  \* history, read by no action:
  signedIn,     \* a sign-in has ended, and no other and no sign-out was begun since
  mishaps       \* what the code does not protect against and has happened

vars == <<clock, rows, store, actor, shared, session, failures, signedIn, mishaps>>

Actor == Isolate \union {User}
Time  == 0 .. MaxTime

\* "lost":  the server issued a token that the phone never stored
\* "raced": two writers at the store, of one process or one of them the user
\* "slow":  a refresh, from the reading of the store to its last key, took more
\*          than half of Grace while another isolate ran in its process: at its
\*          end the other may still have read the old token, and take as long
Mishap == {"lost", "raced", "slow"}

Row == [family : Token, issued : Time, rotated : Time \union {None}, revoked : BOOLEAN]

Pair == [access : Token, refresh : Token]

ASSUME NoneAssumption == None \notin Row /\ None \notin Pair

\* The order in which TokenStore writes and deletes.  The two dates of expiry
\* are one key: they only have to be there.
Keys == <<"access", "refresh", "expiry">>

\* TokenStore.read
Stored(s) ==
  IF \E k \in DOMAIN s : s[k] = None THEN None
  ELSE [access |-> s.access, refresh |-> s.refresh]

-----------------------------------------------------------------------------
(* The server *)

Issued == Cardinality({k \in Token : rows[k] # None})

NewRow(family) == [family |-> family, issued |-> clock, rotated |-> None, revoked |-> FALSE]

\* decode_access: an access token is a JWT, which revocation does not reach.
AccessExpired(k) == clock >= rows[k].issued + AccessTTL

RefreshExpired(k) == clock > rows[k].issued + RefreshTTL

\* Mutant: what has been rotated may be rotated again.
RotatedMayRotate(k) == rows[k].revoked \/ RefreshExpired(k)

\* rotate_refresh: what it refuses.
Refused(k) == rows[k].revoked \/ RefreshExpired(k) \/ rows[k].rotated # None

\* A refused token that burns its family ...
Reused(k) ==
  /\ ~rows[k].revoked /\ ~RefreshExpired(k)
  /\ rows[k].rotated # None /\ clock - rows[k].rotated > Grace

\* ... and what is left of the families then.
Burned(k) ==
  [m \in Token |-> IF Reused(k) /\ rows[m] # None /\ rows[m].family = rows[k].family
                   THEN [rows[m] EXCEPT !.revoked = TRUE] ELSE rows[m]]

\* rotate_refresh, for a token it does not refuse: n is issued for k.
Rotated(k, n) == [rows EXCEPT ![k].rotated = clock, ![n] = NewRow(rows[k].family)]

\* google_login: a login begins a family.
LoggedIn(n) == [rows EXCEPT ![n] = NewRow(n)]

-----------------------------------------------------------------------------
(* The phone: a refresh of an isolate *)

Steps == {"idle", "lock", "read", "post", "rejected", "write", "clear"}

Idle == [pc    |-> "idle",
         stale |-> None,    \* staleAccessToken
         token |-> None,    \* current.refreshToken, as read from the store
         since |-> 0,       \* when it was read
         new   |-> None,    \* the pair to be stored
         key   |-> 1]       \* the key to be written or deleted next

Local == [pc : Steps, stale : Token \union {None}, token : Token \union {None}, since : Time,
          new : Token \union {None}, key : DOMAIN Keys]

At(a, pc) == actor[a].pc = pc

\* Isolates between taking the lock and giving it back.
Holding == {i \in Isolate : actor[i].pc \notin {"idle", "lock"}}

\* Those whose refresh token is on its way or whose answer is being stored.
Working == {a \in Actor : actor[a].pc \in {"post", "rejected", "write", "clear"}}

\* A request is answered 401: its bearer has expired, or it had none.
Unauthorised(i) ==
  LET pair == Stored(store) IN
  /\ At(i, "idle")
  /\ pair # None => AccessExpired(pair.access)
  /\ actor' = [actor EXCEPT ![i] = [Idle EXCEPT !.pc = "lock",
                 !.stale = IF pair = None THEN None ELSE pair.access]]
  /\ UNCHANGED <<clock, rows, store, shared, session, failures, signedIn, mishaps>>

\* Mutant: no lock.
LockFree(i) ==
  /\ At(i, "lock")
  /\ actor' = [actor EXCEPT ![i].pc = "read"]
  /\ UNCHANGED <<clock, rows, store, shared, session, failures, signedIn, mishaps>>

\* _acquireRefreshLock: the lock belongs to the process.
Lock(i) ==
  /\ At(i, "lock")
  /\ Holding = {} \/ shared
  /\ actor' = [actor EXCEPT ![i].pc = "read"]
  /\ UNCHANGED <<clock, rows, store, shared, session, failures, signedIn, mishaps>>

\* The store again, under the lock: another isolate may have refreshed it.
ReadPair(i) ==
  LET pair == Stored(store)
      refreshed == actor[i].stale # None /\ pair.access # actor[i].stale
  IN
  /\ At(i, "read")
  /\ IF pair = None \/ refreshed
     THEN actor' = [actor EXCEPT ![i] = Idle] /\ UNCHANGED mishaps
     ELSE /\ actor' = [actor EXCEPT ![i] = [@ EXCEPT !.pc = "post", !.token = pair.refresh,
                                                     !.since = clock]]
          /\ mishaps' = mishaps \union (IF User \in Working THEN {"raced"} ELSE {})
  /\ UNCHANGED <<clock, rows, store, shared, session, failures, signedIn>>

\* POST /v1/auth/refresh: one transaction, with the row of the token locked.
\* When MaxTokens are issued the server answers with a transient error.
Rotate(i) ==
  LET k == actor[i].token
      n == Issued + 1
  IN
  /\ At(i, "post")
  /\ \/ /\ ~Refused(k) /\ n \in Token
        /\ rows' = Rotated(k, n)
        /\ actor' = [actor EXCEPT ![i].pc = "write", ![i].new = n]
     \/ /\ ~Refused(k) /\ n \notin Token
        /\ actor' = [actor EXCEPT ![i] = Idle]
        /\ UNCHANGED rows
     \/ /\ Refused(k)
        /\ rows' = Burned(k)
        /\ actor' = [actor EXCEPT ![i].pc = "rejected"]
  /\ UNCHANGED <<clock, store, shared, session, failures, signedIn, mishaps>>

\* Mutant: every 401 is taken for a race.
RereadNever(i) ==
  /\ At(i, "rejected")
  /\ actor' = [actor EXCEPT ![i] = Idle]
  /\ UNCHANGED <<clock, rows, store, shared, session, failures, signedIn, mishaps>>

\* Mutant: every 401 is fatal.
RereadClears(i) ==
  /\ At(i, "rejected")
  /\ actor' = [actor EXCEPT ![i].pc = "clear"]
  /\ mishaps' = mishaps \union (IF shared /\ Working # {i} THEN {"raced"} ELSE {})
  /\ UNCHANGED <<clock, rows, store, shared, session, failures, signedIn>>

\* A 401: the store is cleared only if it still has the token just refused.
Reread(i) ==
  LET latest  == Stored(store)
      changed == latest # None /\ latest.refresh # actor[i].token
  IN
  /\ At(i, "rejected")
  /\ actor' = [actor EXCEPT ![i] = IF changed THEN Idle ELSE [@ EXCEPT !.pc = "clear"]]
  /\ mishaps' = mishaps \union
                  (IF ~changed /\ shared /\ Working # {i} THEN {"raced"} ELSE {})
  /\ UNCHANGED <<clock, rows, store, shared, session, failures, signedIn>>

-----------------------------------------------------------------------------
(* TokenStore and AuthController *)

\* One platform call for each key; the user's action ends in a new session.
TouchKey(a, pc, value) ==
  LET key  == actor[a].key
      last == key = Len(Keys)
  IN
  /\ At(a, pc)
  /\ store' = [store EXCEPT ![Keys[key]] = value]
  /\ actor' = [actor EXCEPT ![a] = IF last THEN Idle ELSE [@ EXCEPT !.key = key + 1]]
  /\ IF last /\ a = User
     THEN session' = (pc = "write") /\ signedIn' = (pc = "write")
     ELSE UNCHANGED <<session, signedIn>>
  /\ UNCHANGED <<clock, rows, shared, failures, mishaps>>

\* TokenStore.write
WriteKey(a) == TouchKey(a, "write", actor[a].new)

\* TokenStore.clear
ClearKey(a) == TouchKey(a, "clear", None)

\* What the user does to the store takes no lock.
Overlap == mishaps' = mishaps \union (IF Working # {} THEN {"raced"} ELSE {})

\* signInWithGoogle
SignIn ==
  LET n == Issued + 1 IN
  /\ At(User, "idle") /\ ~session /\ n \in Token
  /\ rows' = LoggedIn(n)
  /\ actor' = [actor EXCEPT ![User] = [Idle EXCEPT !.pc = "write", !.new = n]]
  /\ signedIn' = FALSE
  /\ Overlap
  /\ UNCHANGED <<clock, store, shared, session, failures>>

\* signOut: the server is not told.
SignOut ==
  /\ At(User, "idle") /\ session
  /\ actor' = [actor EXCEPT ![User].pc = "clear"]
  /\ signedIn' = FALSE
  /\ Overlap
  /\ UNCHANGED <<clock, rows, store, shared, session, failures>>

-----------------------------------------------------------------------------
(* Failures *)

Failure == failures < MaxFailures /\ failures' = failures + 1

\* The request or its answer is lost: the tokens stay, the next request tries
\* again.
GiveUp(i) ==
  /\ Failure
  /\ \/ At(i, "post") \/ At(i, "rejected")
     \/ At(i, "write") /\ actor[i].key = 1
  /\ actor' = [actor EXCEPT ![i] = Idle]
  /\ mishaps' = mishaps \union (IF At(i, "write") THEN {"lost"} ELSE {})
  /\ UNCHANGED <<clock, rows, store, shared, session, signedIn>>

\* A process ends, and with it the lock.  The app is started again and reads
\* the store once: _hydrateFromStorage.
Kill(process) ==
  /\ Failure
  /\ \E a \in process : ~At(a, "idle")
  /\ actor' = [a \in Actor |-> IF a \in process THEN Idle ELSE actor[a]]
  /\ mishaps' = mishaps \union
                  (IF \E a \in process : At(a, "write") /\ store.refresh # actor[a].new
                   THEN {"lost"} ELSE {})
  /\ session' = IF Ui \in process THEN Stored(store) # None ELSE session
  /\ UNCHANGED <<clock, rows, store, shared, signedIn>>

Process == IF shared THEN {Actor} ELSE {{Ui, User}} \union {{i} : i \in Isolate \ {Ui}}

Slow(i) == i \in Working /\ 2 * (clock' - actor[i].since) > Grace

Tick ==
  /\ clock < MaxTime
  /\ clock' = clock + 1
  /\ mishaps' = mishaps \union
                  (IF shared /\ \E i \in Isolate : Slow(i) THEN {"slow"} ELSE {})
  /\ UNCHANGED <<rows, store, actor, shared, session, failures, signedIn>>

-----------------------------------------------------------------------------

Init ==
  /\ clock = 0 /\ failures = 0
  /\ rows = [k \in Token |-> None]
  /\ store = [access |-> None, refresh |-> None, expiry |-> None]
  /\ actor = [a \in Actor |-> Idle]
  /\ shared \in BOOLEAN
  /\ session = FALSE /\ signedIn = FALSE /\ mishaps = {}

Refresh(i) == Unauthorised(i) \/ Lock(i) \/ ReadPair(i) \/ Rotate(i) \/ Reread(i)
Storing(a) == WriteKey(a) \/ ClearKey(a)

Next ==
  \/ \E i \in Isolate : Refresh(i) \/ GiveUp(i)
  \/ \E a \in Actor : Storing(a)
  \/ SignIn \/ SignOut
  \/ \E process \in Process : Kill(process)
  \/ Tick

\* Isolates send requests again and again (the periodic sync), and what has
\* begun goes on.
Fairness ==
  /\ \A i \in Isolate : WF_vars(Refresh(i))
  /\ \A a \in Actor : WF_vars(Storing(a))

Spec == Init /\ [][Next]_vars /\ Fairness

-----------------------------------------------------------------------------
(* Properties *)

Resting == Working = {}

\* A family of refresh tokens never forks: at most one of its tokens can still
\* be rotated, however often a token comes back.
OneLiveToken ==
  \A k, m \in Token :
    /\ rows[k] # None /\ rows[m] # None
    /\ ~Refused(k) /\ ~Refused(m)
    /\ rows[k].family = rows[m].family
    => k = m

\* Between refreshes the phone holds the token that the server will accept
\* next, with the access token that came with it, unless an answer was lost or
\* the store had two writers that nothing keeps apart.
PairIsCurrent ==
  LET pair == Stored(store) IN
  Resting /\ pair # None /\ mishaps = {} =>
    /\ pair.access = pair.refresh
    /\ rows[pair.refresh].rotated = None
    /\ ~rows[pair.refresh].revoked

\* Refreshing does not sign the user out: the isolate that loses a race leaves
\* the winner's pair alone.  The tokens are gone only after a mishap or when
\* they have expired.
SessionKept ==
  Resting /\ signedIn /\ Stored(store) = None => mishaps # {} \/ RefreshExpired(Issued)

\* A pair that neither opens a request nor can be refreshed.
DeadPair ==
  LET pair == Stored(store) IN
  pair # None /\ AccessExpired(pair.access) /\ Refused(pair.refresh)

\* The phone does not keep a dead pair and fail for ever: it is cleared, so
\* that the next start of the app asks for a sign-in.
DeadPairIsDropped == DeadPair ~> ~DeadPair
=============================================================================
