----------------------- MODULE SeatAndCacheProofs -----------------------
(***************************************************************************)
(* Theorems about two components that share only this module.              *)
(*                                                                         *)
(* SeatWatch, for any number of tabs, watches, halls, requests and kills:  *)
(* a start of a watch is mailed about at most once, and what was found is  *)
(* mailed about or known not to be.                                        *)
(*                                                                         *)
(* OfflineCache, for any number of refreshes and viewers, events, tickets  *)
(* and images: a file that is listed is whole, unless two downloads met    *)
(* on it or it is downloaded again under the row of one that has gone.     *)
(***************************************************************************)
EXTENDS SeatWatch, OfflineCache, Integers, FiniteSetTheorems,
        WellFoundedInduction, TLAPS

-----------------------------------------------------------------------------
(* Least elements *)

\* A set of naturals that is not empty has a least element: of its initial
\* segments, which are finite, one contains no other.
LEMMA LeastExists ==
  ASSUME NEW T \in SUBSET Nat, T # {}
  PROVE  \E m \in T : \A n \in T : m <= n
<1> DEFINE Below(x) == {y \in T : y <= x}
           All      == {Below(x) : x \in T}
<1>1. All \subseteq FiniteSubsetsOf(T) /\ All # {}
  <2>1. ASSUME NEW x \in T PROVE IsFiniteSet(Below(x))
    BY FS_BoundedSetOfNaturals
  <2> QED BY <2>1 DEF FiniteSubsetsOf
<1>2. PICK U \in All : \A V \in All : ~(<<V, U>> \in StrictSubsetOrdering(T))
  BY <1>1, FS_StrictSubsetOrderingWellFounded, WFMin
<1>3. PICK m \in T : U = Below(m)
  OBVIOUS
<1>4. ASSUME NEW n \in T, n < m PROVE FALSE
  <2>1. Below(n) \subseteq Below(m)
    <3>1. ASSUME NEW y \in T, y <= n PROVE y <= m
      <4>1. y \in Nat /\ m \in Nat /\ n \in Nat
        OBVIOUS
      <4> QED BY <4>1, <3>1, <1>4
    <3> QED BY <3>1
  <2>2. m \in Below(m) /\ m \notin Below(n)
    BY <1>4
  <2>3. <<Below(n), Below(m)>> \in StrictSubsetOrdering(T)
    <3> HIDE DEF Below
    <3>1. Below(n) \in SUBSET T /\ Below(m) \in SUBSET T
      BY DEF Below
    <3> QED BY <2>1, <2>2, <3>1 DEF StrictSubsetOrdering
  <2> QED BY <1>2, <1>3, <2>3
<1>5. \A n \in T : m <= n
  BY <1>4
<1> QED BY <1>5

-----------------------------------------------------------------------------
(* The invariant *)

Fields == {"cand", "url", "starts", "state", "version", "live"}

\* Rows and requests, as loosely as the proof allows: which value is in which
\* field does not matter, but that every row has all of them does.
Value == Candidates \cup {Null} \cup Halls \cup Nat \cup States \cup BOOLEAN
Row   == {r \in [Fields -> Value] : r.version \in Nat}
Item  == [id : Nat, url : Value, life : Nat]

Request(req) ==
    \/ /\ req.kind = "create"
       /\ req.cand \in Value /\ req.url \in Value /\ req.starts \in Value
    \/ req.kind = "patch" /\ req.id \in DOMAIN watches /\ req.change \in Changes
    \/ req.kind = "delete" /\ req.id \in DOMAIN watches

TxTyped(c) ==
    /\ tx[c].stage = "sent" => Request(tx[c].req)
    /\ tx[c].stage = "read" =>
         /\ Request(tx[c].req)
         /\ tx[c].id = 0 => tx[c].req.kind = "create"
         /\ tx[c].id # 0 => tx[c].id \in DOMAIN watches /\ tx[c].seen \in Row

Posted(post) ==
    post # NoPost =>
      post.id \in DOMAIN watches /\ post.seen \in Row /\ post.found \in BOOLEAN

Typed ==
    /\ watches \in Seq(Row) /\ life \in Seq(Nat) /\ Len(life) = Len(watches)
    /\ tx = [c \in Clients |-> tx[c]] /\ \A c \in Clients : TxTyped(c)
    /\ runner \in [pc : {"idle", "visit", "report", "wait", "notify"},
                   todo : SUBSET Item, found : BOOLEAN, spent : Nat]
    /\ Posted(report) /\ Posted(orphan)

\* The start number l of watch i is over: it does not fall due again.
Over(i, l) == life[i] > l \/ watches[i].state # "active"

\* A pass has the watches it still visits, each once and as it was listed, and
\* none that was mailed about since it was started.
PassOK ==
    /\ runner.pc # "idle" => runner.todo # {}
    /\ \A w \in runner.todo :
         /\ w.id \in DOMAIN watches /\ w.life <= life[w.id]
         /\ Key(w) \notin DOMAIN mails
         /\ \A v \in runner.todo : v.id = w.id => v = w
    /\ runner.pc = "notify" => Over(Current(runner).id, Current(runner).life)

\* The report that the server is serving is the runner's, about its watch; if it
\* has read a watch that was not active then, it will not make it so.
ReportOK ==
    report # NoPost =>
      /\ runner.pc = "wait"
      /\ report.id = Current(runner).id /\ report.found = runner.found
      /\ report.seen.state # "active" => Over(Current(runner).id, Current(runner).life)

\* What was mailed about is over.
MailsOK ==
    \A k \in DOMAIN mails :
        /\ mails[k] = 1
        /\ k[1] \in DOMAIN watches /\ k[2] \in Nat /\ k[2] <= life[k[1]]
        /\ Over(k[1], k[2])

\* The inductive invariant.
WatchInv == Typed /\ PassOK /\ ReportOK /\ MailsOK /\ FoundIsAnnounced

USE SeatWatchAssumption

-----------------------------------------------------------------------------
(* Rows *)

LEMMA RowFacts ==
  ASSUME Typed
  PROVE  /\ DOMAIN watches = 1 .. Len(watches) /\ DOMAIN life = DOMAIN watches
         /\ Len(watches) \in Nat
         /\ \A i \in DOMAIN watches : watches[i] \in Row /\ life[i] \in Nat
  BY DEF Typed

\* The columns that a request has changed go over the row as it is by then.
LEMMA ColumnsRow ==
  ASSUME NEW w \in Row, NEW old \in Row, NEW new \in Row
  PROVE  /\ Columns(w, old, new) \in Row
         /\ Columns(w, old, new).state = IF new.state = old.state THEN w.state ELSE new.state
<1>1. DOMAIN w = Fields
  BY DEF Row
<1>2. \A c \in Fields : Columns(w, old, new)[c] = IF new[c] = old[c] THEN w[c] ELSE new[c]
  BY <1>1 DEF Columns
<1>3. Columns(w, old, new) \in [Fields -> Value]
  BY <1>1 DEF Columns, Row
<1>4. Columns(w, old, new).version \in Nat
  BY <1>2 DEF Row, Fields
<1>5. Columns(w, old, new).state = IF new.state = old.state THEN w.state ELSE new.state
  BY <1>2 DEF Fields
<1> QED BY <1>3, <1>4, <1>5 DEF Row

LEMMA BumpedNat == ASSUME NEW v \in Nat PROVE Bumped(v) \in Nat
  BY DEF Bumped

LEMMA NatValue == Nat \subseteq Value
  BY DEF Value

LEMMA CheckedRow ==
  ASSUME NEW w \in Row, NEW found \in BOOLEAN
  PROVE  /\ Checked(w, found) \in Row
         /\ found => Checked(w, found).state = "found"
         /\ ~found => Checked(w, found).state \in {w.state, "expired"}
<1> DEFINE s == IF found THEN "found" ELSE IF w.starts <= now THEN "expired" ELSE w.state
<1>1. w \in [Fields -> Value] /\ w.version \in Nat /\ w.state \in Value
  BY DEF Row, Fields
<1>2. PICK v \in Nat : v = Bumped(w.version)
  BY <1>1, BumpedNat
<1>3. s \in Value
  BY <1>1 DEF Value, States
<1>4. Checked(w, found) = [[w EXCEPT !.version = v] EXCEPT !.state = s]
  BY <1>1, <1>2 DEF Checked, Fields
<1>5. (found => s = "found") /\ (~found => s \in {w.state, "expired"})
  OBVIOUS
<1> HIDE DEF s
<1>6. Checked(w, found) \in [Fields -> Value]
  BY <1>1, <1>2, <1>3, <1>4, NatValue
<1>7. Checked(w, found).version = v /\ Checked(w, found).state = s
  BY <1>1, <1>4 DEF Fields
<1> QED BY <1>2, <1>5, <1>6, <1>7 DEF Row

\* Only a start makes a watch active, and only the user's own word makes it found.
LEMMA OutcomeRow ==
  ASSUME NEW req, Request(req), NEW w \in Row
  PROVE  /\ Outcome(req, w) \in Row
         /\ \/ Outcome(req, w).state = w.state
            \/ Outcome(req, w).state = "active" /\ Starting(req)
            \/ Outcome(req, w).state = "found" /\ Sets(req, "found")
            \/ Outcome(req, w).state \notin {"active", "found"}
<1>1. w \in [Fields -> Value] /\ w.version \in Nat
  BY DEF Row
<1>2. PICK v \in Nat : v = Bumped(w.version)
  BY <1>1, BumpedNat
<1>3. CASE req.kind = "create"
  <2>1. req.url \in Value /\ req.starts \in Value /\ "active" \in Value
    BY <1>3 DEF Request, Value, States
  <2>2. Outcome(req, w) = [[[[w EXCEPT !.url = req.url] EXCEPT !.starts = req.starts]
                               EXCEPT !.state = "active"] EXCEPT !.version = v]
    BY <1>1, <1>2, <1>3 DEF Outcome, Revived, Fields
  <2>3. Outcome(req, w) \in [Fields -> Value]
    BY <1>1, <1>2, <2>1, <2>2, NatValue
  <2>4. Outcome(req, w).version = v /\ Outcome(req, w).state = "active"
    BY <1>1, <2>2 DEF Fields
  <2> QED BY <1>2, <1>3, <2>3, <2>4 DEF Row, Starting
<1>4. CASE req.kind = "patch"
  <2>1. PICK change \in Changes : change = req.change
    BY <1>4 DEF Request
  <2>2. DOMAIN change \subseteq {"state", "url"} /\ \A c \in DOMAIN change : change[c] \in Value
    BY <2>1 DEF Changes, Value, States
  <2>3. Outcome(req, w) = Patched(w, req)
    BY <1>4 DEF Outcome
  <2>4. Outcome(req, w) = [c \in Fields |->
                               IF c \in DOMAIN change THEN change[c]
                               ELSE IF c = "version" THEN Bumped(w[c]) ELSE w[c]]
    BY <1>1, <2>1, <2>3 DEF Patched
  <2>5. Outcome(req, w) \in [Fields -> Value]
    BY <1>1, <1>2, <2>2, <2>4 DEF Value
  <2>6. Outcome(req, w).version = v
    BY <1>2, <2>2, <2>4 DEF Fields
  <2>7. Outcome(req, w).state = IF "state" \in DOMAIN change THEN change.state ELSE w.state
    BY <2>2, <2>4 DEF Fields
  <2>8. \A s \in States : "state" \in DOMAIN change /\ change.state = s => Sets(req, s)
    BY <1>4, <2>1 DEF Sets
  <2> QED BY <1>2, <1>4, <2>1, <2>5, <2>6, <2>7, <2>8 DEF Row, Starting, States
<1>5. CASE req.kind = "delete"
  <2>1. Outcome(req, w) = [[w EXCEPT !.live = FALSE] EXCEPT !.version = v]
    BY <1>1, <1>2, <1>5 DEF Outcome, Fields
  <2>2. FALSE \in Value
    BY DEF Value
  <2>3. Outcome(req, w) \in [Fields -> Value]
    BY <1>1, <1>2, <2>1, <2>2, NatValue
  <2>4. Outcome(req, w).version = v /\ Outcome(req, w).state = w.state
    BY <1>1, <2>1 DEF Fields
  <2> QED BY <1>2, <2>3, <2>4 DEF Row
<1> QED BY <1>3, <1>4, <1>5 DEF Request

LEMMA NewWatch ==
  ASSUME NEW cand \in Value, NEW url \in Value, NEW starts \in Value
  PROVE  Watch(cand, url, starts) \in Row /\ Watch(cand, url, starts).state = "active"
<1>1. "active" \in Value /\ 1 \in Value /\ TRUE \in Value
  BY DEF Value, States
<1> DEFINE w == Watch(cand, url, starts)
<1>2. DOMAIN w = Fields
  BY DEF Watch, Fields
<1>3. w = [c \in DOMAIN w |-> w[c]]
  BY DEF Watch
<1>4. /\ w.cand = cand /\ w.url = url /\ w.starts = starts
      /\ w.state = "active" /\ w.version = 1 /\ w.live = TRUE
  BY DEF Watch
<1> HIDE DEF w
<1>5. w \in [Fields -> Value]
  BY <1>1, <1>2, <1>3, <1>4 DEF Fields
<1> QED BY <1>4, <1>5 DEF w, Row

-----------------------------------------------------------------------------
(* A pass *)

\* The watch a pass is at is one of those it has left.
LEMMA CurrentIs ==
  ASSUME NEW r, r.todo \in SUBSET Item, r.todo # {}
  PROVE  Current(r) \in r.todo
<1> DEFINE ids == {w.id : w \in r.todo}
<1>1. ids \in SUBSET Nat /\ ids # {}
  BY DEF Item
<1>2. PICK m \in ids : \A n \in ids : m <= n
  BY <1>1, LeastExists
<1>3. PICK w \in r.todo : w.id = m
  OBVIOUS
<1>4. \A v \in r.todo : w.id <= v.id
  BY <1>2, <1>3
<1> QED BY <1>4 DEF Current

LEMMA PassFacts ==
  ASSUME Typed, PassOK, runner.pc # "idle"
  PROVE  /\ Current(runner) \in runner.todo /\ Current(runner) \in Item
         /\ Current(runner).id \in DOMAIN watches
         /\ Current(runner).life \in Nat /\ Current(runner).life <= life[Current(runner).id]
         /\ Key(Current(runner)) \notin DOMAIN mails
<1>1. runner.todo \in SUBSET Item /\ runner.todo # {}
  BY DEF Typed, PassOK
<1>2. Current(runner) \in runner.todo
  BY <1>1, CurrentIs
<1> QED BY <1>1, <1>2 DEF PassOK, Item

LEMMA IdlePass ==
  /\ Idle \in [pc : {"idle", "visit", "report", "wait", "notify"},
               todo : SUBSET Item, found : BOOLEAN, spent : Nat]
  /\ Idle.pc = "idle" /\ Idle.todo = {}
  BY DEF Idle

\* The pass goes on with what is left, or ends: the server is not concerned.
LEMMA OnwardOK ==
  ASSUME Typed, PassOK, runner.pc # "idle"
  PROVE  /\ Onward(runner) \in [pc : {"idle", "visit", "report", "wait", "notify"},
                                todo : SUBSET Item, found : BOOLEAN, spent : Nat]
         /\ Onward(runner).pc \in {"idle", "visit"}
         /\ Onward(runner).pc # "idle" => Onward(runner).todo # {}
         /\ Onward(runner).todo \subseteq runner.todo \ {Current(runner)}
<1>1. Current(runner) \in runner.todo
  BY PassFacts
<1>2. CASE runner.todo = {Current(runner)}
  BY <1>2, IdlePass DEF Onward
<1>3. CASE runner.todo # {Current(runner)}
  <2>1. PICK rest \in SUBSET Item : rest = runner.todo \ {Current(runner)}
    BY DEF Typed
  <2>2. rest # {}
    BY <1>1, <1>3, <2>1
  <2>3. Onward(runner) = [[[runner EXCEPT !.pc = "visit"] EXCEPT !.todo = rest]
                           EXCEPT !.found = FALSE]
    BY <1>3, <2>1 DEF Onward, Typed
  <2>4. PICK q : q = Onward(runner)
    OBVIOUS
  <2>5. /\ q \in [pc : {"idle", "visit", "report", "wait", "notify"},
                  todo : SUBSET Item, found : BOOLEAN, spent : Nat]
        /\ q.pc = "visit" /\ q.todo = rest
    BY <2>1, <2>3, <2>4 DEF Typed
  <2> QED BY <2>1, <2>2, <2>4, <2>5
<1> QED BY <1>2, <1>3

-----------------------------------------------------------------------------
(* Steps that leave the watches alone *)

LEMMA SameWatches ==
  ASSUME WatchInv, UNCHANGED <<serverVars, runnerVars, life>>,
         tx' = [c \in Clients |-> tx'[c]], \A c \in Clients : TxTyped(c)'
  PROVE  WatchInv'
<1>1. Typed'
  BY DEF WatchInv, Typed, serverVars, runnerVars, Posted
<1>2. PassOK' /\ ReportOK' /\ MailsOK'
  BY DEF WatchInv, PassOK, ReportOK, MailsOK, serverVars, runnerVars, Over
<1>3. FoundIsAnnounced'
  BY DEF WatchInv, FoundIsAnnounced, serverVars, runnerVars
<1> QED BY <1>1, <1>2, <1>3 DEF WatchInv

\* The other clients' requests, when only one client's changes.
LEMMA SetTx ==
  ASSUME WatchInv, UNCHANGED <<serverVars, runnerVars, life>>, NEW c \in Clients,
         NEW t, tx' = [tx EXCEPT ![c] = t], TxTyped(c)'
  PROVE  WatchInv'
<1>1. tx' = [d \in Clients |-> IF d = c THEN t ELSE tx[d]]
  BY DEF WatchInv, Typed
<1>2. UNCHANGED watches
  BY DEF serverVars
<1>3. ASSUME NEW d \in Clients, d # c PROVE TxTyped(d)'
  BY <1>1, <1>2, <1>3 DEF WatchInv, Typed, TxTyped, Request
<1>4. tx' = [d \in Clients |-> tx'[d]] /\ \A d \in Clients : TxTyped(d)'
  BY <1>1, <1>3
<1> QED BY <1>4, SameWatches

LEMMA SendInv ==
  ASSUME WatchInv, NEW c \in Clients, Send(c) PROVE WatchInv'
<1>1. PICK r \in Requests : tx' = [tx EXCEPT ![c] = [stage |-> "sent", req |-> r]]
  BY DEF Send
<1>2. Request(r)
  <2> DEFINE known == {i \in DOMAIN watches : watches[i].live}
             creates == {[kind |-> "create", cand |-> w.cand, url |-> w.url, starts |-> w.starts] :
                           w \in Creations}
             patches(i) == [kind : {"patch"}, id : {i}, change : Changes, version : {watches[i].version}]
             deletes == [kind : {"delete"}, id : known]
  <2>1. \/ r \in creates
        \/ \E i \in known : r \in patches(i)
        \/ r \in deletes
    BY DEF Requests
  <2>2. CASE r \in creates
    <3>1. PICK w \in Creations :
            r = [kind |-> "create", cand |-> w.cand, url |-> w.url, starts |-> w.starts]
      BY <2>2
    <3>2. w.cand \in Value /\ w.url \in Value /\ w.starts \in Value
      BY DEF Value, Undated
    <3>3. r.kind = "create" /\ r.cand = w.cand /\ r.url = w.url /\ r.starts = w.starts
      BY <3>1
    <3> QED BY <3>2, <3>3 DEF Request
  <2>3. CASE \E i \in known : r \in patches(i)
    BY <2>3 DEF Request
  <2>4. CASE r \in deletes
    BY <2>4 DEF Request
  <2> HIDE DEF creates, patches, deletes, known
  <2> QED BY <2>1, <2>2, <2>3, <2>4
<1>3. UNCHANGED <<serverVars, runnerVars, life>>
  BY DEF Send
<1>4. PICK t : t = [stage |-> "sent", req |-> r]
  OBVIOUS
<1>5. tx' = [tx EXCEPT ![c] = t] /\ t.stage = "sent" /\ t.req = r
  BY <1>1, <1>4
<1>6. tx'[c] = t
  BY <1>5 DEF WatchInv, Typed
<1>7. TxTyped(c)'
  BY <1>2, <1>3, <1>5, <1>6 DEF TxTyped, Request, serverVars
<1> QED BY <1>3, <1>5, <1>7, SetTx

LEMMA ReadInv ==
  ASSUME WatchInv, NEW c \in Clients, Read(c) PROVE WatchInv'
<1> DEFINE req == tx[c].req
           id  == Target(req)
<1>1. UNCHANGED <<serverVars, runnerVars, life>> /\ UNCHANGED watches
  BY DEF Read, serverVars
<1>2. Request(req)
  BY DEF Read, WatchInv, Typed, TxTyped
<1>3. id = 0 \/ id \in DOMAIN watches
  <2>1. Existing(req.cand) \subseteq DOMAIN watches
    BY DEF Existing
  <2> QED BY <1>2, <2>1 DEF Target, Request
<1>4. PICK t : /\ tx' = [tx EXCEPT ![c] = t]
               /\ \/ t = NoTx
                  \/ /\ req.kind = "create" \/ id # 0
                     /\ t = [stage |-> "read", req |-> req, id |-> id,
                             seen |-> IF id = 0 THEN NoTx ELSE watches[id]]
  BY DEF Read
<1>5. tx'[c] = t
  BY <1>4 DEF WatchInv, Typed
<1>6. TxTyped(c)'
  <2>1. CASE t = NoTx
    BY <1>5, <2>1 DEF TxTyped, NoTx
  <2>2. CASE /\ req.kind = "create" \/ id # 0
             /\ t = [stage |-> "read", req |-> req, id |-> id,
                     seen |-> IF id = 0 THEN NoTx ELSE watches[id]]
    <3>1. t.stage = "read" /\ t.req = req /\ t.id = id /\ (id # 0 => t.seen = watches[id])
      BY <2>2
    <3>2. id # 0 => id \in DOMAIN watches /\ watches[id] \in Row
      BY <1>3, RowFacts DEF WatchInv
    <3>3. Request(tx[c].req)'
      BY <1>1, <1>2, <1>5, <3>1 DEF Request
    <3> HIDE DEF id
    <3>4. tx'[c].stage = "read" /\ tx'[c].req.kind = req.kind /\ tx'[c].id = id
          /\ (id # 0 => tx'[c].seen \in Row)
      BY <1>5, <3>1, <3>2
    <3> QED BY <1>1, <2>2, <3>2, <3>3, <3>4 DEF TxTyped
  <2> QED BY <1>4, <2>1, <2>2
<1> QED BY <1>1, <1>4, <1>6, SetTx

-----------------------------------------------------------------------------
(* Steps of the server *)

\* What every write leaves of the watches and their starts: a watch becomes
\* active only when it is started again.
Grows ==
    /\ watches' \in Seq(Row) /\ life' \in Seq(Nat) /\ Len(life') = Len(watches')
    /\ Len(watches) <= Len(watches')
    /\ \A i \in DOMAIN watches :
         /\ life[i] <= life'[i]
         /\ watches'[i].state = "active" => watches[i].state = "active" \/ life[i] < life'[i]

LEMMA GrownWatches ==
  ASSUME Typed, Grows
  PROVE  /\ DOMAIN watches \subseteq DOMAIN watches'
         /\ \A i \in DOMAIN watches : \A l \in Nat :
              l <= life[i] /\ Over(i, l) => l <= life'[i] /\ Over(i, l)'
         /\ \A i \in DOMAIN watches : \A l \in Nat : l <= life[i] => l <= life'[i]
<1>1. DOMAIN watches = 1 .. Len(watches) /\ DOMAIN watches' = 1 .. Len(watches')
  BY RowFacts DEF Grows
<1>2. Len(watches) \in Nat /\ Len(watches') \in Nat
  BY DEF Typed, Grows
<1>3. DOMAIN watches \subseteq DOMAIN watches'
  BY <1>1, <1>2 DEF Grows
<1>4. \A i \in DOMAIN watches : life[i] \in Nat /\ life'[i] \in Nat
  <2>1. DOMAIN life' = DOMAIN watches'
    BY <1>1 DEF Grows
  <2> QED BY <1>3, <2>1, RowFacts DEF Grows
<1>5. \A i \in DOMAIN watches : \A l \in Nat : l <= life[i] => l <= life'[i]
  BY <1>4 DEF Grows
<1>6. ASSUME NEW i \in DOMAIN watches, NEW l \in Nat, l <= life[i], Over(i, l) PROVE Over(i, l)'
  <2>1. CASE life[i] > l
    BY <1>4, <2>1 DEF Grows, Over
  <2>2. CASE watches[i].state # "active"
    BY <1>4, <1>6, <2>2 DEF Grows, Over
  <2> QED BY <1>6, <2>1, <2>2 DEF Over
<1> QED BY <1>3, <1>5, <1>6

\* Nothing of it concerns a pass, a report or a mail.
LEMMA GrownRest ==
  ASSUME WatchInv, Grows, UNCHANGED mails
  PROVE  /\ MailsOK'
         /\ \A c \in Clients : tx'[c] = tx[c] => TxTyped(c)'
         /\ UNCHANGED report => Posted(report)'
         /\ UNCHANGED orphan => Posted(orphan)'
         /\ \A w \in runner.todo : /\ w.id \in DOMAIN watches' /\ w.life <= life'[w.id]
                                   /\ Key(w) \notin DOMAIN mails'
         /\ UNCHANGED runner => PassOK'
         /\ UNCHANGED <<runner, report>> => ReportOK'
<1>1. /\ DOMAIN watches \subseteq DOMAIN watches'
      /\ \A i \in DOMAIN watches : \A l \in Nat :
           l <= life[i] /\ Over(i, l) => l <= life'[i] /\ Over(i, l)'
      /\ \A i \in DOMAIN watches : \A l \in Nat : l <= life[i] => l <= life'[i]
  BY GrownWatches DEF WatchInv
<1>2. MailsOK'
  BY <1>1 DEF WatchInv, MailsOK
<1>3. ASSUME NEW c \in Clients, tx'[c] = tx[c] PROVE TxTyped(c)'
  BY <1>1, <1>3 DEF WatchInv, Typed, TxTyped, Request
<1>4. (UNCHANGED report => Posted(report)') /\ (UNCHANGED orphan => Posted(orphan)')
  BY <1>1 DEF WatchInv, Typed, Posted
<1>5. ASSUME NEW w \in runner.todo
      PROVE  w.id \in DOMAIN watches' /\ w.life <= life'[w.id] /\ Key(w) \notin DOMAIN mails'
  <2>1. w \in Item
    BY DEF WatchInv, Typed
  <2> QED BY <1>1, <2>1 DEF WatchInv, PassOK, Item
<1>6. ASSUME runner.pc # "idle", Over(Current(runner).id, Current(runner).life)
      PROVE  \/ life'[Current(runner).id] > Current(runner).life
             \/ watches'[Current(runner).id].state # "active"
  <2>1. PICK j \in DOMAIN watches, m \in Nat :
          j = Current(runner).id /\ m = Current(runner).life /\ m <= life[j]
    BY <1>6, PassFacts DEF WatchInv
  <2>2. Over(j, m)'
    BY <1>1, <1>6, <2>1
  <2> QED BY <2>1, <2>2 DEF Over
<1>7. UNCHANGED runner => PassOK'
  BY <1>5, <1>6 DEF WatchInv, PassOK, Over
<1>8. UNCHANGED <<runner, report>> => ReportOK'
  BY <1>6 DEF WatchInv, ReportOK, Over
<1> QED BY <1>2, <1>3, <1>4, <1>5, <1>7, <1>8

\* A row is written over with the columns of another.
LEMMA WrittenRow ==
  ASSUME Typed, NEW id \in DOMAIN watches, NEW old \in Row, NEW new \in Row,
         watches' = [watches EXCEPT ![id] = Columns(@, old, new)]
  PROVE  /\ watches' \in Seq(Row) /\ Len(watches') = Len(watches)
         /\ \A i \in DOMAIN watches : i # id => watches'[i] = watches[i]
         /\ watches'[id].state = IF new.state = old.state THEN watches[id].state ELSE new.state
<1>1. PICK r \in Row : /\ r = Columns(watches[id], old, new)
                       /\ r.state = IF new.state = old.state THEN watches[id].state ELSE new.state
  BY RowFacts, ColumnsRow
<1>2. watches' = [watches EXCEPT ![id] = r]
  BY <1>1
<1>3. watches' \in Seq(Row) /\ Len(watches') = Len(watches)
  BY <1>2 DEF Typed
<1>4. \A i \in DOMAIN watches : watches'[i] = IF i = id THEN r ELSE watches[i]
  BY <1>2
<1> QED BY <1>1, <1>3, <1>4

\* FoundIsAnnounced, when nobody has found anything new but what the user says.
LEMMA NothingFound ==
  ASSUME WatchInv, UNCHANGED <<runner, mails>>, silent \subseteq silent',
         \A i \in DOMAIN watches' : watches'[i].state = "found" =>
           (i \in DOMAIN watches /\ watches[i].state = "found") \/ i \in silent'
  PROVE  FoundIsAnnounced'
  BY DEF WatchInv, FoundIsAnnounced

LEMMA CommitInv ==
  ASSUME WatchInv, NEW c \in Clients, Commit(c) PROVE WatchInv'
<1> DEFINE req  == tx[c].req
           id   == tx[c].id
           seen == tx[c].seen
           new  == Outcome(req, seen)
<1>1. /\ UNCHANGED <<report, orphan, runner, mails>> /\ silent \subseteq silent'
      /\ Sets(req, "found") => id \in silent'
  BY DEF Commit
<1>2. /\ Request(req) /\ (id = 0 => req.kind = "create")
      /\ (id # 0 => id \in DOMAIN watches /\ seen \in Row)
  BY DEF Commit, WatchInv, Typed, TxTyped
<1>3. tx' = [d \in Clients |-> IF d = c THEN NoTx ELSE tx[d]]
  BY DEF Commit, WatchInv, Typed
<1>4. Typed
  BY DEF WatchInv
<1>5. Grows /\ \A i \in DOMAIN watches' : watches'[i].state = "found" =>
                   (i \in DOMAIN watches /\ watches[i].state = "found") \/ i \in silent'
  <2>1. CASE id = 0
    <3>1. PICK w \in Row : w = Watch(req.cand, req.url, req.starts) /\ w.state = "active"
      BY <1>2, <2>1, NewWatch DEF Request
    <3>2. watches' = Append(watches, w) /\ life' = Append(life, 1)
      BY <2>1, <3>1 DEF Commit
    <3>3. /\ watches' \in Seq(Row) /\ Len(watches') = Len(watches) + 1
          /\ life' \in Seq(Nat) /\ Len(life') = Len(life) + 1
      BY <1>4, <3>2 DEF Typed
    <3>4. /\ \A i \in DOMAIN watches : watches'[i] = watches[i] /\ life'[i] = life[i]
          /\ watches'[Len(watches) + 1] = w
      BY <1>4, <3>2 DEF Typed
    <3>5. \A i \in DOMAIN watches' : i \in DOMAIN watches \/ i = Len(watches) + 1
      BY <1>4, <3>3, RowFacts
    <3>6. \A i \in DOMAIN watches : life[i] \in Nat
      BY <1>4, RowFacts
    <3> QED BY <1>4, <3>1, <3>3, <3>4, <3>5, <3>6 DEF Grows, Typed
  <2>2. CASE id # 0
    <3>1. /\ watches' = [watches EXCEPT ![id] = Columns(@, seen, new)]
          /\ life' = IF Starting(req) THEN [life EXCEPT ![id] = @ + 1] ELSE life
      BY <2>2 DEF Commit
    <3>2. id \in DOMAIN watches /\ seen \in Row /\ new \in Row
      BY <1>2, <2>2, OutcomeRow
    <3>3. \/ new.state = seen.state
          \/ new.state = "active" /\ Starting(req)
          \/ new.state = "found" /\ Sets(req, "found")
          \/ new.state \notin {"active", "found"}
      BY <1>2, <3>2, OutcomeRow
    <3> HIDE DEF req, id, seen, new
    <3>4. /\ watches' \in Seq(Row) /\ Len(watches') = Len(watches)
          /\ \A i \in DOMAIN watches : i # id => watches'[i] = watches[i]
          /\ watches'[id].state = IF new.state = seen.state THEN watches[id].state ELSE new.state
      BY <1>4, <3>1, <3>2, WrittenRow
    <3>5. /\ life' \in Seq(Nat) /\ Len(life') = Len(life) /\ id \in DOMAIN life
          /\ \A i \in DOMAIN watches : life[i] \in Nat
      BY <1>4, <3>1, <3>2, RowFacts DEF Typed
    <3>6. /\ \A i \in DOMAIN watches : i # id => life'[i] = life[i]
          /\ life'[id] = IF Starting(req) THEN life[id] + 1 ELSE life[id]
      BY <3>1, <3>5
    <3>7. \A i \in DOMAIN watches : life[i] <= life'[i]
      BY <3>2, <3>5, <3>6
    <3>8. \A i \in DOMAIN watches :
            watches'[i].state = "active" => watches[i].state = "active" \/ life[i] < life'[i]
      <4>1. ASSUME NEW i \in DOMAIN watches, i = id, watches'[i].state = "active"
            PROVE  watches[i].state = "active" \/ life[i] < life'[i]
        <5>1. new.state = seen.state => watches[i].state = "active"
          BY <3>4, <4>1
        <5>2. Starting(req) => life[i] < life'[i]
          BY <3>5, <3>6, <4>1
        <5>3. new.state # seen.state => new.state = "active"
          BY <3>4, <4>1
        <5> QED BY <3>3, <5>1, <5>2, <5>3
      <4> QED BY <3>4, <4>1
    <3>9. DOMAIN watches' = DOMAIN watches
      BY <1>4, <3>4 DEF Typed
    <3>10. \A i \in DOMAIN watches' :
             watches'[i].state = "found" => watches[i].state = "found" \/ i \in silent'
      BY <1>1, <3>2, <3>3, <3>4, <3>9
    <3> QED BY <1>4, <3>4, <3>5, <3>7, <3>8, <3>9, <3>10 DEF Grows, Typed
  <2> QED BY <2>1, <2>2
<1>6. /\ MailsOK' /\ PassOK' /\ ReportOK' /\ Posted(report)' /\ Posted(orphan)'
      /\ \A d \in Clients : tx'[d] = tx[d] => TxTyped(d)'
  BY <1>1, <1>5, GrownRest
<1>7. Typed'
  <2>1. TxTyped(c)'
    BY <1>3 DEF TxTyped, NoTx
  <2>2. \A d \in Clients : TxTyped(d)'
    BY <1>3, <1>6, <2>1
  <2> QED BY <1>1, <1>3, <1>5, <1>6, <2>2 DEF WatchInv, Typed, Grows
<1>8. FoundIsAnnounced'
  BY <1>1, <1>5, NothingFound
<1> QED BY <1>6, <1>7, <1>8 DEF WatchInv

\* The server commits a report: a find leaves the watch found, unless the report
\* had read it so; nothing else makes a watch found or active.
LEMMA StoredReport ==
  ASSUME WatchInv, NEW post, Posted(post), post # NoPost, watches' = Stored(post), UNCHANGED life
  PROVE  /\ Grows /\ DOMAIN watches' = DOMAIN watches
         /\ \A i \in DOMAIN watches : watches'[i].state = "found" =>
              watches[i].state = "found" \/ (i = post.id /\ post.found)
         /\ post.found /\ post.seen.state # "found" => watches'[post.id].state = "found"
<1>1. Typed /\ post.id \in DOMAIN watches /\ post.seen \in Row /\ post.found \in BOOLEAN
  BY DEF WatchInv, Posted
<1>2. PICK new : new = Checked(post.seen, post.found)
  OBVIOUS
<1>3. /\ new \in Row
      /\ post.found => new.state = "found"
      /\ ~post.found => new.state \in {post.seen.state, "expired"}
  BY <1>1, <1>2, CheckedRow
<1>4. PICK r \in Row : /\ r = Columns(watches[post.id], post.seen, new)
                       /\ r.state = IF new.state = post.seen.state
                                      THEN watches[post.id].state ELSE new.state
  <2>1. watches[post.id] \in Row
    BY <1>1, RowFacts
  <2> QED BY <1>1, <1>3, <2>1, ColumnsRow
<1>5. /\ watches' \in Seq(Row) /\ Len(watches') = Len(watches)
      /\ \A i \in DOMAIN watches : i # post.id => watches'[i] = watches[i]
      /\ watches'[post.id].state =
           IF new.state = post.seen.state THEN watches[post.id].state ELSE new.state
  <2>1. watches' = [watches EXCEPT ![post.id] = r]
    BY <1>2, <1>4 DEF Stored
  <2>2. watches' \in Seq(Row) /\ Len(watches') = Len(watches)
    BY <1>1, <2>1 DEF Typed
  <2>3. \A i \in DOMAIN watches : watches'[i] = IF i = post.id THEN r ELSE watches[i]
    BY <2>1
  <2> QED BY <1>1, <1>4, <2>2, <2>3
<1>6. \A i \in DOMAIN watches : life[i] \in Nat /\ life'[i] = life[i]
  BY <1>1, RowFacts
<1>7. \A i \in DOMAIN watches : watches'[i].state = "active" => watches[i].state = "active"
  BY <1>1, <1>3, <1>5
<1>8. Grows
  BY <1>1, <1>5, <1>6, <1>7 DEF Grows, Typed
<1>9. DOMAIN watches' = DOMAIN watches
  BY <1>1, <1>5 DEF Typed
<1> QED BY <1>1, <1>3, <1>5, <1>8, <1>9

LEMMA CommitOrphanInv ==
  ASSUME WatchInv, CommitOrphan PROVE WatchInv'
<1>1. /\ orphan # NoPost /\ watches' = Stored(orphan) /\ orphan' = NoPost
      /\ silent' = IF orphan.found THEN silent \cup {orphan.id} ELSE silent
      /\ UNCHANGED <<report, tx, runner, life, mails>>
  BY DEF CommitOrphan
<1>2. Posted(orphan)
  BY DEF WatchInv, Typed
<1>3. /\ Grows /\ DOMAIN watches' = DOMAIN watches
      /\ \A i \in DOMAIN watches : watches'[i].state = "found" =>
           watches[i].state = "found" \/ (i = orphan.id /\ orphan.found)
  BY <1>1, <1>2, StoredReport
<1>4. /\ MailsOK' /\ PassOK' /\ ReportOK' /\ Posted(report)'
      /\ \A d \in Clients : TxTyped(d)'
  BY <1>1, <1>3, GrownRest
<1>5. Typed'
  <2>1. Posted(orphan)'
    BY <1>1 DEF Posted
  <2> QED BY <1>1, <1>3, <1>4, <2>1 DEF WatchInv, Typed, Grows
<1>6. FoundIsAnnounced'
  BY <1>1, <1>3 DEF WatchInv, FoundIsAnnounced
<1> QED BY <1>4, <1>5, <1>6 DEF WatchInv

LEMMA CommitReportInv ==
  ASSUME WatchInv, CommitReport PROVE WatchInv'
<1> DEFINE w == Current(runner)
<1>1. /\ report # NoPost /\ watches' = Stored(report) /\ report' = NoPost
      /\ runner' = Answered(runner)
      /\ UNCHANGED <<orphan, tx, life, mails, silent>>
  BY DEF CommitReport
<1>2. Posted(report) /\ Typed /\ PassOK /\ ReportOK
  BY DEF WatchInv, Typed
<1>3. /\ Grows /\ DOMAIN watches' = DOMAIN watches
      /\ \A i \in DOMAIN watches : watches'[i].state = "found" =>
           watches[i].state = "found" \/ (i = report.id /\ report.found)
      /\ report.found /\ report.seen.state # "found" => watches'[report.id].state = "found"
  BY <1>1, <1>2, StoredReport
<1>4. /\ MailsOK' /\ Posted(orphan)' /\ \A d \in Clients : TxTyped(d)'
      /\ \A v \in runner.todo : /\ v.id \in DOMAIN watches' /\ v.life <= life'[v.id]
                                /\ Key(v) \notin DOMAIN mails'
  BY <1>1, <1>3, GrownRest
<1>5. /\ runner.pc = "wait" /\ report.id = w.id /\ report.found = runner.found
      /\ report.seen.state # "active" => Over(w.id, w.life)
  BY <1>1, <1>2 DEF ReportOK
<1>6. /\ w \in runner.todo /\ w.id \in DOMAIN watches /\ w.life \in Nat /\ w.life <= life[w.id]
  BY <1>2, <1>5, PassFacts
<1>7. Posted(report)' /\ ReportOK'
  BY <1>1 DEF Posted, ReportOK
<1>8. CASE runner.found
  <2>1. /\ runner' = [runner EXCEPT !.pc = "notify"] /\ runner'.pc = "notify"
        /\ runner'.todo = runner.todo
    BY <1>1, <1>2, <1>8 DEF Answered, Typed
  <2>2. Current(runner') = w
    BY <2>1 DEF Current
  <2>3. Typed'
    BY <1>1, <1>2, <1>3, <1>4, <1>7, <2>1 DEF Typed, Grows
  <2>4. life'[w.id] > w.life \/ watches'[w.id].state # "active"
    <3>1. CASE report.seen.state = "found"
      <4>1. PICK j \in DOMAIN watches, m \in Nat : j = w.id /\ m = w.life /\ m <= life[j]
        BY <1>6
      <4>2. Over(j, m)'
        BY <1>2, <1>3, <1>5, <3>1, <4>1, GrownWatches
      <4> QED BY <4>1, <4>2 DEF Over
    <3>2. CASE report.seen.state # "found"
      BY <1>3, <1>5, <1>8, <3>2
    <3> QED BY <3>1, <3>2
  <2>5. PassOK'
    <3>1. \A v \in runner.todo : \A u \in runner.todo : u.id = v.id => u = v
      BY <1>2 DEF PassOK
    <3>2. runner.todo # {}
      BY <1>6
    <3> QED BY <1>4, <2>1, <2>2, <2>4, <3>1, <3>2 DEF PassOK, Over
  <2>6. FoundIsAnnounced'
    BY <1>1, <1>3, <1>5, <2>1, <2>2 DEF WatchInv, FoundIsAnnounced
  <2> QED BY <1>4, <1>7, <2>3, <2>5, <2>6 DEF WatchInv
<1>9. CASE ~runner.found
  <2>1. runner' = Onward(runner)
    BY <1>1, <1>9 DEF Answered
  <2>2. /\ runner' \in [pc : {"idle", "visit", "report", "wait", "notify"},
                        todo : SUBSET Item, found : BOOLEAN, spent : Nat]
        /\ runner'.pc \in {"idle", "visit"} /\ (runner'.pc # "idle" => runner'.todo # {})
        /\ runner'.todo \subseteq runner.todo
    BY <1>2, <1>5, <2>1, OnwardOK
  <2>3. Typed'
    BY <1>1, <1>2, <1>3, <1>4, <1>7, <2>2 DEF Typed, Grows
  <2>4. PassOK'
    <3>1. \A v \in runner.todo : \A u \in runner.todo : u.id = v.id => u = v
      BY <1>2 DEF PassOK
    <3> QED BY <1>4, <2>2, <3>1 DEF PassOK
  <2>5. FoundIsAnnounced'
    BY <1>1, <1>3, <1>5, <1>9 DEF WatchInv, FoundIsAnnounced
  <2> QED BY <1>4, <1>7, <2>3, <2>4, <2>5 DEF WatchInv
<1> QED BY <1>8, <1>9

-----------------------------------------------------------------------------
(* Steps of the runner and of the world *)

\* The pass changes, the server does not.
LEMMA SetPass ==
  ASSUME WatchInv, UNCHANGED <<watches, orphan, tx, life, mails, silent>>,
         runner' \in [pc : {"idle", "visit", "report", "wait", "notify"},
                      todo : SUBSET Item, found : BOOLEAN, spent : Nat],
         PassOK', ReportOK', Posted(report)', FoundIsAnnounced'
  PROVE  WatchInv'
<1>1. Typed'
  BY DEF WatchInv, Typed, TxTyped, Request, Posted
<1>2. MailsOK'
  BY DEF WatchInv, MailsOK, Over
<1> QED BY <1>1, <1>2 DEF WatchInv

\* A pass that is over has nothing of a watch.
LEMMA EndPass ==
  ASSUME WatchInv, UNCHANGED <<watches, tx, life, mails>>,
         runner' = Idle, report' = NoPost, orphan' \in {orphan, report},
         silent \subseteq silent',
         runner.pc = "notify" => Current(runner).id \in silent'
  PROVE  WatchInv'
<1>1. Typed'
  BY IdlePass DEF WatchInv, Typed, TxTyped, Request, Posted, NoPost
<1>2. MailsOK'
  BY DEF WatchInv, MailsOK, Over
<1>3. PassOK' /\ ReportOK'
  BY IdlePass DEF PassOK, ReportOK
<1>4. FoundIsAnnounced'
  BY DEF WatchInv, FoundIsAnnounced
<1> QED BY <1>1, <1>2, <1>3, <1>4 DEF WatchInv

LEMMA StartPassInv ==
  ASSUME WatchInv, StartPass PROVE WatchInv'
<1> DEFINE due == {i \in DOMAIN watches : IsDue(watches[i])}
           items == {[id |-> i, url |-> watches[i].url, life |-> life[i]] : i \in due}
<1>1. /\ runner.pc = "idle" /\ due # {}
      /\ runner' = [Idle EXCEPT !.pc = "visit", !.todo = items]
      /\ UNCHANGED <<watches, orphan, report, tx, life, mails, silent>>
  BY DEF StartPass, serverVars
<1>2. \A i \in due : i \in Nat /\ i \in DOMAIN watches /\ watches[i].url \in Value /\ life[i] \in Nat
                     /\ watches[i].state = "active"
  BY RowFacts DEF WatchInv, Row, Fields, IsDue
<1>3. \A w \in items : /\ w \in Item /\ w.id \in due /\ w.life = life[w.id]
                       /\ \A v \in items : v.id = w.id => v = w
  BY <1>2 DEF Item
<1>4. items # {}
  <2>1. PICK i \in due : TRUE
    BY <1>1
  <2>2. [id |-> i, url |-> watches[i].url, life |-> life[i]] \in items
    BY <2>1
  <2> QED BY <2>2
<1>5. \A w \in items : Key(w) \notin DOMAIN mails
  <2> SUFFICES ASSUME NEW w \in items, Key(w) \in DOMAIN mails PROVE FALSE
    OBVIOUS
  <2>1. w.id \in due /\ w.life = life[w.id] /\ Key(w) = <<w.id, w.life>>
    BY <1>3 DEF Key
  <2>2. Over(w.id, w.life)
    BY <2>1 DEF WatchInv, MailsOK
  <2> QED BY <1>2, <2>1, <2>2 DEF Over
<1> HIDE DEF items
<1>6. /\ runner' \in [pc : {"idle", "visit", "report", "wait", "notify"},
                      todo : SUBSET Item, found : BOOLEAN, spent : Nat]
      /\ runner'.pc = "visit" /\ runner'.todo = items
  <2>1. items \in SUBSET Item
    BY <1>3
  <2> QED BY <1>1, <2>1 DEF Idle
<1>7. PassOK'
  BY <1>1, <1>2, <1>3, <1>4, <1>5, <1>6 DEF PassOK
<1>8. ReportOK' /\ Posted(report)'
  BY <1>1 DEF WatchInv, Typed, ReportOK, Posted
<1>9. FoundIsAnnounced'
  BY <1>1 DEF WatchInv, FoundIsAnnounced
<1> QED BY <1>1, <1>6, <1>7, <1>8, <1>9, SetPass

LEMMA ReadHallInv ==
  ASSUME WatchInv, ReadHall PROVE WatchInv'
<1>1. /\ runner.pc = "visit" /\ UNCHANGED <<watches, orphan, report, tx, life, mails, silent>>
      /\ report = NoPost
  BY DEF ReadHall, serverVars, WatchInv, ReportOK
<1>2. PICK view : runner' = Visited(runner, view)
  BY DEF ReadHall
<1>3. CASE runner' = Idle
  BY <1>1, <1>3, EndPass
<1>4. CASE runner' # Idle
  <2> DEFINE spent == runner.spent + IF view = "hangs" THEN 1 ELSE 0
  <2>1. runner' = [runner EXCEPT !.pc = "report", !.spent = spent, !.found = view = "pair"]
    BY <1>2, <1>4 DEF Visited
  <2>2. spent \in Nat
    BY DEF WatchInv, Typed
  <2> HIDE DEF spent
  <2>3. /\ runner' \in [pc : {"idle", "visit", "report", "wait", "notify"},
                        todo : SUBSET Item, found : BOOLEAN, spent : Nat]
        /\ runner'.pc = "report" /\ runner'.todo = runner.todo
    <3>1. PICK f \in BOOLEAN : f = (view = "pair")
      OBVIOUS
    <3>2. runner' = [runner EXCEPT !.pc = "report", !.spent = spent, !.found = f]
      BY <2>1, <3>1
    <3> QED BY <2>2, <3>2 DEF WatchInv, Typed
  <2>4. PassOK'
    BY <1>1, <2>3 DEF WatchInv, PassOK
  <2>5. ReportOK' /\ Posted(report)'
    BY <1>1 DEF ReportOK, Posted
  <2>6. FoundIsAnnounced'
    BY <1>1, <2>3 DEF WatchInv, FoundIsAnnounced
  <2> QED BY <1>1, <2>3, <2>4, <2>5, <2>6, SetPass
<1> QED BY <1>3, <1>4

LEMMA PostReportInv ==
  ASSUME WatchInv, PostReport PROVE WatchInv'
<1> DEFINE w == Current(runner)
<1>1. runner.pc = "report" /\ UNCHANGED <<watches, orphan, tx, life, mails, silent>> /\ report = NoPost
  BY DEF PostReport, WatchInv, ReportOK
<1>2. /\ w \in runner.todo /\ w.id \in DOMAIN watches /\ watches[w.id] \in Row
      /\ w.life \in Nat /\ w.life <= life[w.id] /\ runner.found \in BOOLEAN
  BY <1>1, PassFacts, RowFacts DEF WatchInv, Typed
<1>3. CASE runner' = Idle /\ UNCHANGED report
  BY <1>1, <1>3, EndPass
<1>4. CASE /\ report' = [id |-> w.id, seen |-> watches[w.id], found |-> runner.found]
           /\ runner' = [runner EXCEPT !.pc = "wait"]
  <2>1. /\ runner' \in [pc : {"idle", "visit", "report", "wait", "notify"},
                        todo : SUBSET Item, found : BOOLEAN, spent : Nat]
        /\ runner'.pc = "wait" /\ runner'.todo = runner.todo /\ runner'.found = runner.found
    BY <1>4 DEF WatchInv, Typed
  <2>2. Current(runner') = w
    BY <2>1 DEF Current
  <2>3. report'.id = w.id /\ report'.seen = watches[w.id] /\ report'.found = runner.found
    BY <1>4
  <2>4. PassOK'
    BY <1>1, <2>1 DEF WatchInv, PassOK
  <2>5. ReportOK'
    BY <1>1, <2>1, <2>2, <2>3 DEF ReportOK, Over
  <2>6. Posted(report)'
    BY <1>1, <1>2, <2>3 DEF Posted
  <2>7. FoundIsAnnounced'
    BY <1>1, <2>1 DEF WatchInv, FoundIsAnnounced
  <2> QED BY <1>1, <2>1, <2>4, <2>5, <2>6, <2>7, SetPass
<1> QED BY <1>3, <1>4 DEF PostReport

LEMMA NotifyInv ==
  ASSUME WatchInv, Notify PROVE WatchInv'
<1> DEFINE w == Current(runner)
           sent == Key(w)
<1>1. /\ runner.pc = "notify" /\ UNCHANGED <<watches, report, orphan, tx, life>>
      /\ report = NoPost
  BY DEF Notify, serverVars, WatchInv, ReportOK
<1>2. /\ w \in runner.todo /\ w.id \in DOMAIN watches /\ w.life \in Nat /\ w.life <= life[w.id]
      /\ sent \notin DOMAIN mails /\ Over(w.id, w.life) /\ sent = <<w.id, w.life>>
  BY <1>1, PassFacts DEF WatchInv, PassOK, Key
<1>3. CASE /\ silent' = silent \cup {w.id} /\ runner' = Idle /\ UNCHANGED mails
  BY <1>1, <1>3, EndPass
<1>5. CASE /\ silent' = silent \cup {w.id} /\ runner' = Onward(runner) /\ UNCHANGED mails
  <2>1. /\ runner' \in [pc : {"idle", "visit", "report", "wait", "notify"},
                        todo : SUBSET Item, found : BOOLEAN, spent : Nat]
        /\ runner'.pc \in {"idle", "visit"} /\ (runner'.pc # "idle" => runner'.todo # {})
        /\ runner'.todo \subseteq runner.todo \ {w}
    BY <1>1, <1>5, OnwardOK DEF WatchInv
  <2>2. PassOK'
    BY <1>1, <1>5, <2>1 DEF WatchInv, PassOK
  <2>3. Typed'
    BY <1>1, <2>1 DEF WatchInv, Typed, TxTyped, Request, Posted
  <2>4. MailsOK' /\ ReportOK'
    BY <1>1, <1>5 DEF WatchInv, MailsOK, ReportOK, Over
  <2>5. FoundIsAnnounced'
    BY <1>1, <1>5 DEF WatchInv, FoundIsAnnounced
  <2> QED BY <2>2, <2>3, <2>4, <2>5 DEF WatchInv
<1>4. CASE /\ mails' = [k \in DOMAIN mails \cup {sent} |->
                          (IF k \in DOMAIN mails THEN mails[k] ELSE 0)
                          + (IF k = sent THEN 1 ELSE 0)]
           /\ runner' = Onward(runner) /\ UNCHANGED silent
  <2>1. /\ runner' \in [pc : {"idle", "visit", "report", "wait", "notify"},
                        todo : SUBSET Item, found : BOOLEAN, spent : Nat]
        /\ runner'.pc \in {"idle", "visit"} /\ (runner'.pc # "idle" => runner'.todo # {})
        /\ runner'.todo \subseteq runner.todo \ {w}
    BY <1>1, <1>4, OnwardOK DEF WatchInv
  <2>2. /\ DOMAIN mails' = DOMAIN mails \cup {sent}
        /\ \A k \in DOMAIN mails' : mails'[k] = 1
    <3>1. \A k \in DOMAIN mails : mails[k] = 1
      BY DEF WatchInv, MailsOK
    <3> HIDE DEF sent
    <3> QED BY <1>2, <1>4, <3>1
  <2>3. MailsOK'
    <3>1. \A k \in DOMAIN mails' : k \in DOMAIN mails \/ (k[1] = w.id /\ k[2] = w.life)
      BY <1>2, <2>2
    <3>2. \A k \in DOMAIN mails' :
            k[1] \in DOMAIN watches /\ k[2] \in Nat /\ k[2] <= life[k[1]] /\ Over(k[1], k[2])
      BY <1>2, <3>1 DEF WatchInv, MailsOK
    <3> QED BY <1>1, <2>2, <3>2 DEF MailsOK, Over
  <2>4. PassOK'
    <3>1. ASSUME NEW v \in runner'.todo PROVE Key(v) \notin DOMAIN mails'
      <4>1. v \in runner.todo /\ v # w
        BY <2>1, <3>1
      <4>2. v.id # w.id /\ Key(v) \notin DOMAIN mails
        BY <1>2, <4>1 DEF WatchInv, PassOK
      <4> QED BY <1>2, <2>2, <4>2 DEF Key
    <3> QED BY <1>1, <2>1, <3>1 DEF WatchInv, PassOK
  <2>5. Typed'
    BY <1>1, <2>1 DEF WatchInv, Typed, TxTyped, Request, Posted
  <2>6. ReportOK'
    BY <1>1 DEF ReportOK
  <2>7. FoundIsAnnounced'
    <3>1. sent \in DOMAIN mails' /\ sent[1] = w.id
      BY <1>2, <2>2
    <3> QED BY <1>1, <1>4, <2>2, <3>1 DEF WatchInv, FoundIsAnnounced
  <2> QED BY <2>3, <2>4, <2>5, <2>6, <2>7 DEF WatchInv
<1> QED BY <1>3, <1>4, <1>5 DEF Notify

LEMMA KillInv ==
  ASSUME WatchInv, Kill PROVE WatchInv'
<1>1. /\ UNCHANGED <<watches, tx, life, mails>> /\ runner' = Idle /\ report' = NoPost
      /\ orphan' \in {orphan, report} /\ silent \subseteq silent'
      /\ runner.pc = "notify" => Current(runner).id \in silent'
  BY DEF Kill
<1> QED BY <1>1, EndPass

LEMMA SameInv ==
  ASSUME WatchInv, UNCHANGED <<serverVars, runnerVars, life, tx>> PROVE WatchInv'
<1>1. tx' = [c \in Clients |-> tx'[c]]
  BY DEF WatchInv, Typed
<1>2. \A c \in Clients : TxTyped(c)'
  BY DEF WatchInv, Typed, TxTyped, Request, serverVars
<1> QED BY <1>1, <1>2, SameWatches

LEMMA InitInv == Init => WatchInv
<1> SUFFICES ASSUME Init PROVE WatchInv
  OBVIOUS
<1>1. /\ watches = <<>> /\ life = <<>> /\ runner = Idle /\ report = NoPost /\ orphan = NoPost
      /\ tx = [c \in Clients |-> NoTx] /\ DOMAIN mails = {}
  BY DEF Init
<1>2. Typed
  BY <1>1, IdlePass DEF Typed, TxTyped, Posted, NoTx
<1>3. PassOK /\ ReportOK /\ MailsOK
  BY <1>1, IdlePass DEF PassOK, ReportOK, MailsOK
<1>4. FoundIsAnnounced
  BY <1>1 DEF FoundIsAnnounced
<1> QED BY <1>2, <1>3, <1>4 DEF WatchInv

LEMMA WatchStep == WatchInv /\ [Next]_vars => WatchInv'
<1> SUFFICES ASSUME WatchInv, [Next]_vars PROVE WatchInv'
  OBVIOUS
<1>1. CASE \E c \in Clients : Send(c) \/ Read(c) \/ Commit(c)
  BY <1>1, SendInv, ReadInv, CommitInv
<1>2. CASE RunnerStep
  BY <1>2, StartPassInv, ReadHallInv, PostReportInv, CommitReportInv, NotifyInv DEF RunnerStep
<1>3. CASE CommitOrphan \/ Kill
  BY <1>3, CommitOrphanInv, KillInv
<1>4. CASE HallChanges \/ ConcertStarts \/ UNCHANGED vars
  <2>1. UNCHANGED <<serverVars, runnerVars, life, tx>>
    BY <1>4 DEF HallChanges, ConcertStarts, vars, serverVars, runnerVars
  <2> QED BY <2>1, SameInv
<1> QED BY <1>1, <1>2, <1>3, <1>4 DEF Next

-----------------------------------------------------------------------------
\* A start of a watch is mailed about at most once (seat-watch.py, run_once:
\* the find is stored before it is mailed; SeatWatchState), however requests,
\* reports, orphaned reports and kills interleave.
THEOREM MailedOnce == Spec => []OneMail
<1>1. WatchInv => OneMail
  BY DEF WatchInv, MailsOK, OneMail
<1> QED BY <1>1, InitInv, WatchStep, PTL DEF Spec

\* What was found is mailed about, is about to be, or is known to have failed
\* (run_once: the report comes before the mail).
THEOREM FindsAreAnnounced == Spec => []FoundIsAnnounced
<1>1. WatchInv => FoundIsAnnounced
  BY DEF WatchInv
<1> QED BY <1>1, InitInv, WatchStep, PTL DEF Spec

-----------------------------------------------------------------------------
(* The files of OfflineCache *)

WorkerRecord ==
  [pc : {"idle", "images", "tickets", "view",
         "findImages", "dropImages", "dropTickets", "dropTicket"},
   events : SUBSET Event, todo : SUBSET Asset, drop : SUBSET Asset,
   step : {"next", "ask", "open", "write", "record"},
   item : Asset \union {None}, hold : {"own", "shared", "lost"}]

CacheTyped ==
  /\ worker \in [Worker -> WorkerRecord]
  /\ \A w \in Worker : worker[w].step # "next" =>
       worker[w].item \in Asset /\ worker[w].pc \in {"images", "tickets", "view"}
  /\ row \in [Asset -> BOOLEAN]
  /\ file \in [Asset -> {"none", "partial", "whole"}]

\* A worker that has no file open holds none.
HoldsOpenOnly == \A w \in Worker : worker[w].step # "write" => worker[w].hold = "own"

Has(w, i) == worker[w].step \in {"write", "record"} /\ worker[w].item = i

\* Of an item that no two downloads met on, at most one has it in hand.
OneHand ==
  \A i \in Asset \ twice : \A v, w \in Worker : Has(v, i) /\ Has(w, i) => v = w

\* The one that has it is the first to list it, or lists it again, and has not
\* left it partial when it comes to that: its own file is whole, and a lost one
\* is deleted.
HandOK(w, i) ==
  /\ row[i] => i \in redone
  /\ worker[w].step = "write" => worker[w].hold # "shared"
  /\ worker[w].step = "write" /\ worker[w].hold = "lost" => file[i] = "none"
  /\ worker[w].step = "record" => file[i] # "partial"

HandsOK == \A i \in Asset \ twice : \A w \in Worker : Has(w, i) => HandOK(w, i)

\* The inductive invariant.
DiskInv == CacheTyped /\ HoldsOpenOnly /\ OneHand /\ HandsOK /\ TornOnlyIfTwice

LEMMA IdleTyped == AtRest \in WorkerRecord
  BY DEF AtRest, WorkerRecord

LEMMA CacheInitInv == CacheInit => DiskInv
<1> SUFFICES ASSUME CacheInit PROVE DiskInv
  OBVIOUS
<1>1. \A w \in Worker : worker[w] = AtRest /\ worker[w].step = "next" /\ worker[w].hold = "own"
  BY DEF CacheInit, AtRest
<1>2. worker \in [Worker -> WorkerRecord]
  BY IdleTyped DEF CacheInit
<1>3. CacheTyped
  BY <1>1, <1>2 DEF CacheInit, CacheTyped
<1>4. \A w \in Worker : \A i : ~Has(w, i)
  BY <1>1 DEF Has
<1> QED BY <1>1, <1>3, <1>4 DEF CacheInit, DiskInv, HoldsOpenOnly, OneHand, HandsOK,
                                TornOnlyIfTwice

-----------------------------------------------------------------------------
\* A worker that takes up a record with nothing in hand, the disk untouched.
LEMMA EmptyHanded ==
  ASSUME DiskInv, NEW w \in Worker, NEW r \in WorkerRecord, Becomes(w, r),
         r.step \in {"next", "ask", "open"}, r.hold = "own",
         r.step # "next" => r.item \in Asset /\ r.pc \in {"images", "tickets", "view"},
         UNCHANGED <<file, row, twice>>, redone \subseteq redone'
  PROVE  DiskInv'
<1>1. worker' = [worker EXCEPT ![w] = r] /\ worker \in [Worker -> WorkerRecord]
  BY DEF Becomes, DiskInv, CacheTyped
<1>2. \A v \in Worker : worker'[v] = IF v = w THEN r ELSE worker[v]
  BY <1>1
<1>3. UNCHANGED <<file, row, twice>> /\ redone \subseteq redone'
  OBVIOUS
<1>4. CacheTyped'
  BY <1>1, <1>2, <1>3 DEF DiskInv, CacheTyped
<1>5. HoldsOpenOnly'
  BY <1>2 DEF DiskInv, HoldsOpenOnly
<1>6. \A v \in Worker, i \in Asset : Has(v, i)' => v # w /\ Has(v, i)
  BY <1>2 DEF Has
<1>7. OneHand'
  BY <1>3, <1>6 DEF DiskInv, OneHand
<1>8. HandsOK'
  BY <1>2, <1>3, <1>6 DEF DiskInv, HandsOK, HandOK
<1>9. TornOnlyIfTwice'
  BY <1>3 DEF DiskInv, TornOnlyIfTwice
<1> QED BY <1>4, <1>5, <1>7, <1>8, <1>9 DEF DiskInv

\* Deleting file i: whoever has it open writes to a lost file.
LEMMA Deleted ==
  ASSUME DiskInv, NEW i \in Asset,
         file' = [file EXCEPT ![i] = "none"], UNCHANGED <<row, twice, redone>>,
         worker' \in [Worker -> WorkerRecord],
         \A w \in Worker : /\ worker'[w].step = worker[w].step
                           /\ worker[w].step # "next" =>
                                /\ worker'[w].pc = worker[w].pc
                                /\ worker'[w].item = worker[w].item
                           /\ worker'[w].hold = Held(i, "lost")[w].hold
  PROVE  DiskInv'
<1>0. worker \in [Worker -> WorkerRecord]
  BY DEF DiskInv, CacheTyped
<1>1. \A w \in Worker : worker'[w].hold =
        IF worker[w].step = "write" /\ worker[w].item = i THEN "lost" ELSE worker[w].hold
  BY <1>0 DEF Held, Writing, AtStep, WorkerRecord
<1>2. CacheTyped'
  BY DEF DiskInv, CacheTyped
<1>3. HoldsOpenOnly'
  BY <1>1 DEF DiskInv, HoldsOpenOnly
<1>4. \A w \in Worker, j \in Asset : Has(w, j)' <=> Has(w, j)
  BY DEF Has
<1>5. OneHand'
  BY <1>4 DEF DiskInv, OneHand
<1>6. \A j \in Asset : file'[j] = IF j = i THEN "none" ELSE file[j]
  BY DEF DiskInv, CacheTyped
<1>7. HandsOK'
  BY <1>1, <1>4, <1>6 DEF DiskInv, HandsOK, HandOK, Has
<1>8. TornOnlyIfTwice'
  BY <1>6 DEF DiskInv, TornOnlyIfTwice
<1> QED BY <1>2, <1>3, <1>5, <1>7, <1>8 DEF DiskInv

\* Unlisting some items, by a worker with nothing in hand.
LEMMA Unlisted ==
  ASSUME DiskInv, NEW w \in Worker, NEW r \in WorkerRecord, Becomes(w, r),
         r.step = "next", r.hold = "own", NEW D,
         row' = [i \in Asset |-> row[i] /\ i \notin D], UNCHANGED <<file, twice, redone>>
  PROVE  DiskInv'
<1>1. worker' = [worker EXCEPT ![w] = r] /\ worker \in [Worker -> WorkerRecord]
  BY DEF Becomes, DiskInv, CacheTyped
<1>2. \A v \in Worker : worker'[v] = IF v = w THEN r ELSE worker[v]
  BY <1>1
<1>3. \A i \in Asset : row'[i] => row[i]
  OBVIOUS
<1>4. CacheTyped'
  <2>1. row' \in [Asset -> BOOLEAN]
    BY DEF DiskInv, CacheTyped
  <2>2. worker' \in [Worker -> WorkerRecord]
    BY <1>1
  <2> QED BY <1>2, <2>1, <2>2 DEF DiskInv, CacheTyped
<1>5. HoldsOpenOnly'
  BY <1>2 DEF DiskInv, HoldsOpenOnly
<1>6. \A v \in Worker, i \in Asset : Has(v, i)' => v # w /\ Has(v, i)
  BY <1>2 DEF Has
<1>7. OneHand'
  BY <1>6 DEF DiskInv, OneHand
<1>8. HandsOK'
  BY <1>2, <1>3, <1>6 DEF DiskInv, HandsOK, HandOK
<1>9. TornOnlyIfTwice'
  BY <1>3 DEF DiskInv, TornOnlyIfTwice
<1> QED BY <1>4, <1>5, <1>7, <1>8, <1>9 DEF DiskInv
-----------------------------------------------------------------------------
(* The actions that take nothing in hand *)

LEMMA PullInv ==
  ASSUME DiskInv, NEW r \in Puller, Pull(r) PROVE DiskInv'
<1>1. \A rows : Begin(rows) \in WorkerRecord /\ Begin(rows).step = "next" /\ Begin(rows).hold = "own"
  BY DEF Begin, AtRest, WorkerRecord, Upcoming, ImagesOf, Asset
<1> QED BY <1>1, EmptyHanded DEF Pull, Worker, disk

LEMMA RefreshAgainInv ==
  ASSUME DiskInv, NEW r \in Second, RefreshAgain(r) PROVE DiskInv'
<1>1. \A rows : Begin(rows) \in WorkerRecord /\ Begin(rows).step = "next" /\ Begin(rows).hold = "own"
  BY DEF Begin, AtRest, WorkerRecord, Upcoming, ImagesOf, Asset
<1> QED BY <1>1, EmptyHanded DEF RefreshAgain, Worker, disk

LEMMA ListTicketsInv ==
  ASSUME DiskInv, NEW w \in Worker, ListTickets(w) PROVE DiskInv'
<1> DEFINE r == [worker[w] EXCEPT !.pc = "tickets", !.todo = TicketsOf(worker[w].events)]
<1>1. worker[w] \in WorkerRecord /\ worker[w].step = "next" /\ worker[w].hold = "own"
  BY DEF ListTickets, At, DiskInv, CacheTyped, HoldsOpenOnly
<1>2. TicketsOf(worker[w].events) \in SUBSET Asset
  BY DEF TicketsOf, Asset
<1>3. r \in WorkerRecord /\ r.step = "next" /\ r.hold = "own"
  BY <1>1, <1>2 DEF WorkerRecord
<1> QED BY <1>3, EmptyHanded DEF ListTickets, disk

LEMMA ViewInv ==
  ASSUME DiskInv, NEW v \in Viewer, View(v) PROVE DiskInv'
<1>1. PICK t \in Ticket : Becomes(v, [AtRest EXCEPT !.pc = "view", !.todo = {t}])
  BY DEF View
<1> DEFINE r == [AtRest EXCEPT !.pc = "view", !.todo = {t}]
<1>2. r \in WorkerRecord /\ r.step = "next" /\ r.hold = "own"
  BY DEF AtRest, WorkerRecord, Asset
<1> QED BY <1>1, <1>2, EmptyHanded DEF View, Worker, disk

LEMMA LookInv ==
  ASSUME DiskInv, NEW w \in Worker, Look(w) PROVE DiskInv'
<1>1. worker[w] \in WorkerRecord /\ worker[w].step = "next" /\ worker[w].hold = "own"
  BY DEF Look, AtStep, DiskInv, CacheTyped, HoldsOpenOnly
<1> DEFINE skip(i) == [worker[w] EXCEPT !.todo = @ \ {i}, !.pc = IF @ = "view" THEN "idle" ELSE @]
           take(i) == [worker[w] EXCEPT !.item = i, !.step = IF i \in Ticket THEN "ask" ELSE "open"]
<1>2. PICK i \in worker[w].todo : Becomes(w, skip(i)) \/ Becomes(w, take(i))
  BY DEF Look
<1>3. i \in Asset
  BY <1>1, <1>2 DEF WorkerRecord
<1>4. skip(i) \in WorkerRecord /\ skip(i).step = "next" /\ skip(i).hold = "own"
  BY <1>1 DEF WorkerRecord
<1>5. /\ take(i) \in WorkerRecord /\ take(i).step \in {"ask", "open"}
      /\ take(i).hold = "own" /\ take(i).item \in Asset
      /\ take(i).pc \in {"images", "tickets", "view"}
  BY <1>1, <1>3 DEF WorkerRecord, Look
<1>6. UNCHANGED <<file, row, twice>> /\ redone \subseteq redone'
  BY DEF Look
<1> HIDE DEF skip, take
<1> QED BY <1>2, <1>4, <1>5, <1>6, EmptyHanded

\* What a download leaves behind when it is over.
LEMMA OverTyped ==
  ASSUME DiskInv, NEW w \in Worker
  PROVE  Ended(w) \in WorkerRecord /\ Ended(w).step = "next" /\ Ended(w).hold = "own"
<1>1. worker[w] \in WorkerRecord
  BY DEF DiskInv, CacheTyped
<1>2. [worker[w] EXCEPT !.todo = @ \ {worker[w].item}, !.item = None,
                        !.step = "next", !.hold = "own"] \in WorkerRecord
  BY <1>1 DEF WorkerRecord
<1> QED BY <1>1, <1>2, IdleTyped DEF Ended, AtRest, WorkerRecord

LEMMA AskInv ==
  ASSUME DiskInv, NEW w \in Worker, Ask(w) PROVE DiskInv'
<1> DEFINE r == [worker[w] EXCEPT !.step = "open"]
<1>1. /\ worker[w] \in WorkerRecord /\ worker[w].step = "ask" /\ worker[w].hold = "own"
      /\ worker[w].item \in Asset /\ worker[w].pc \in {"images", "tickets", "view"}
  BY DEF Ask, AtStep, DiskInv, CacheTyped, HoldsOpenOnly
<1>2. /\ r \in WorkerRecord /\ r.step = "open" /\ r.hold = "own"
      /\ r.item \in Asset /\ r.pc \in {"images", "tickets", "view"}
  BY <1>1 DEF WorkerRecord
<1>3. Becomes(w, r) \/ Becomes(w, Ended(w))
  BY DEF Ask
<1>4. UNCHANGED <<file, row, twice, redone>>
  BY DEF Ask, disk
<1> HIDE DEF r
<1> QED BY <1>2, <1>3, <1>4, OverTyped, EmptyHanded

LEMMA DownloadFailsInv ==
  ASSUME DiskInv, NEW w \in Worker, DownloadFails(w) PROVE DiskInv'
  BY OverTyped, EmptyHanded DEF DownloadFails, disk

LEMMA CleanInv ==
  ASSUME DiskInv, NEW w \in Worker, Clean(w) PROVE DiskInv'
<1> DEFINE unneeded == ImagesOf(Past) \ ImagesOf(worker[w].events)
           r == [worker[w] EXCEPT !.pc = "findImages", !.events = Past, !.drop = unneeded]
<1>1. worker[w] \in WorkerRecord /\ worker[w].step = "next" /\ worker[w].hold = "own"
  BY DEF Clean, At, DiskInv, CacheTyped, HoldsOpenOnly
<1>2. unneeded \in SUBSET Asset /\ Past \in SUBSET Event
  BY DEF ImagesOf, Past, Asset
<1>3. r \in WorkerRecord /\ r.step = "next" /\ r.hold = "own"
  BY <1>1, <1>2 DEF WorkerRecord
<1>4. Becomes(w, AtRest) \/ Becomes(w, r)
  BY DEF Clean
<1>5. UNCHANGED <<file, row, twice, redone>>
  BY DEF Clean, disk
<1>6. AtRest.step = "next" /\ AtRest.hold = "own"
  BY DEF AtRest
<1> HIDE DEF r
<1> QED BY <1>3, <1>4, <1>5, <1>6, IdleTyped, EmptyHanded

LEMMA FindImagesInv ==
  ASSUME DiskInv, NEW w \in Worker, FindImages(w) PROVE DiskInv'
<1> DEFINE r == [worker[w] EXCEPT !.pc = "dropImages", !.todo = {i \in worker[w].drop : row[i]}]
<1>1. worker[w] \in WorkerRecord /\ worker[w].step = "next" /\ worker[w].hold = "own"
  BY DEF FindImages, At, DiskInv, CacheTyped, HoldsOpenOnly
<1>2. r \in WorkerRecord /\ r.step = "next" /\ r.hold = "own"
  BY <1>1 DEF WorkerRecord
<1> QED BY <1>2, EmptyHanded DEF FindImages, disk

LEMMA FindTicketInv ==
  ASSUME DiskInv, NEW w \in Worker, FindTicket(w) PROVE DiskInv'
<1> DEFINE listed(t)   == [worker[w] EXCEPT !.pc = "dropTicket", !.item = t]
           unlisted(t) == [worker[w] EXCEPT !.todo = @ \ {t}]
<1>1. worker[w] \in WorkerRecord /\ worker[w].step = "next" /\ worker[w].hold = "own"
  BY DEF FindTicket, At, DiskInv, CacheTyped, HoldsOpenOnly
<1>2. PICK t \in worker[w].todo : Becomes(w, listed(t)) \/ Becomes(w, unlisted(t))
  BY DEF FindTicket
<1>3. t \in Asset
  BY <1>1, <1>2 DEF WorkerRecord
<1>4. listed(t) \in WorkerRecord /\ listed(t).step = "next" /\ listed(t).hold = "own"
  BY <1>1, <1>3 DEF WorkerRecord
<1>5. unlisted(t) \in WorkerRecord /\ unlisted(t).step = "next" /\ unlisted(t).hold = "own"
  BY <1>1 DEF WorkerRecord
<1>6. UNCHANGED <<file, row, twice, redone>>
  BY DEF FindTicket, disk
<1> HIDE DEF listed, unlisted
<1> QED BY <1>2, <1>4, <1>5, <1>6, EmptyHanded

LEMMA KillWorkersInv ==
  ASSUME DiskInv, KillWorkers PROVE DiskInv'
<1>1. PICK W \in {Worker} \union {{w} : w \in Worker} :
        worker' = [w \in Worker |-> IF w \in W THEN AtRest ELSE worker[w]]
  BY DEF KillWorkers
<1>2. UNCHANGED <<file, row, twice, redone>>
  BY DEF KillWorkers, disk
<1>3. \A w \in Worker : worker'[w] = AtRest \/ worker'[w] = worker[w]
  BY <1>1
<1>4. worker' \in [Worker -> WorkerRecord]
  BY <1>1, IdleTyped DEF DiskInv, CacheTyped
<1>5. \A w \in Worker, i \in Asset : Has(w, i)' => worker'[w] = worker[w] /\ Has(w, i)
  BY <1>3 DEF Has, AtRest
<1>6. CacheTyped'
  BY <1>2, <1>3, <1>4 DEF DiskInv, CacheTyped, AtRest
<1>7. HoldsOpenOnly'
  BY <1>3 DEF DiskInv, HoldsOpenOnly, AtRest
<1>8. OneHand'
  BY <1>2, <1>5 DEF DiskInv, OneHand
<1>9. HandsOK'
  BY <1>2, <1>5 DEF DiskInv, HandsOK, HandOK
<1>10. TornOnlyIfTwice'
  BY <1>2 DEF DiskInv, TornOnlyIfTwice
<1> QED BY <1>6, <1>7, <1>8, <1>9, <1>10 DEF DiskInv

-----------------------------------------------------------------------------
(* The actions that have a file in hand *)

\* Opening: either nobody had the item in hand and it was not listed, or only for
\* a file that has gone, or it is written twice from now on.
LEMMA OpenInv ==
  ASSUME DiskInv, NEW w \in Worker, Open(w) PROVE DiskInv'
<1> DEFINE i == worker[w].item
<1>0. worker \in [Worker -> WorkerRecord] /\ worker[w].step = "open" /\ i \in Asset
  BY DEF Open, AtStep, DiskInv, CacheTyped
<1>1. Held(i, "shared") \in [Worker -> WorkerRecord]
  BY <1>0 DEF Held, WorkerRecord
<1>2. \A v \in Worker : /\ Held(i, "shared")[v].step = worker[v].step
                        /\ Held(i, "shared")[v].pc = worker[v].pc
                        /\ Held(i, "shared")[v].item = worker[v].item
                        /\ worker[v].step # "write" \/ worker[v].item # i =>
                             Held(i, "shared")[v].hold = worker[v].hold
  BY <1>0 DEF Held, Writing, AtStep, WorkerRecord
<1>3. worker' = [Held(i, "shared") EXCEPT ![w].step = "write"]
  BY DEF Open
<1>4. worker' \in [Worker -> WorkerRecord]
  BY <1>1, <1>3 DEF WorkerRecord
<1>5. \A v \in Worker : /\ worker'[v].step = IF v = w THEN "write" ELSE worker[v].step
                        /\ worker'[v].pc = worker[v].pc
                        /\ worker'[v].item = worker[v].item
                        /\ worker[v].step # "write" \/ worker[v].item # i =>
                             worker'[v].hold = worker[v].hold
  BY <1>1, <1>2, <1>3 DEF WorkerRecord
<1>6. \A j \in Asset : file'[j] = IF j = i THEN "partial" ELSE file[j]
  BY DEF Open, DiskInv, CacheTyped
<1>7. /\ row' = row /\ redone' = redone
      /\ twice' = IF Meets(i) THEN twice \union {i} ELSE twice
  BY DEF Open
<1>8. CacheTyped'
  <2>1. file' \in [Asset -> {"none", "partial", "whole"}]
    BY DEF Open, DiskInv, CacheTyped
  <2> QED BY <1>0, <1>4, <1>5, <1>7, <2>1 DEF DiskInv, CacheTyped
<1>9. HoldsOpenOnly'
  BY <1>0, <1>5 DEF DiskInv, HoldsOpenOnly
<1>10. i \notin twice' => (row[i] => i \in redone) /\ \A v \in Worker : ~Has(v, i)
  BY <1>7 DEF Meets, InHand, Has
<1>11. \A v \in Worker, j \in Asset : Has(v, j)' <=> Has(v, j) \/ (v = w /\ j = i)
  BY <1>0, <1>5 DEF Has
<1>12. \A j \in Asset \ twice' : j \in Asset \ twice
  BY <1>7
<1>13. OneHand'
  BY <1>10, <1>11, <1>12 DEF DiskInv, OneHand
<1>14. HandsOK'
  <2> SUFFICES ASSUME NEW j \in Asset \ twice', NEW v \in Worker, Has(v, j)'
               PROVE  HandOK(v, j)'
    BY DEF HandsOK
  <2>1. CASE j = i
    <3>1. v = w
      BY <1>10, <1>11, <2>1
    <3>2. worker'[w].hold = "own" /\ worker'[w].step = "write"
      BY <1>0, <1>5 DEF DiskInv, HoldsOpenOnly
    <3> QED BY <1>7, <1>10, <2>1, <3>1, <3>2 DEF HandOK
  <2>2. CASE j # i
    <3>1. HandOK(v, j) /\ v # w
      BY <1>0, <1>11, <1>12, <2>2 DEF DiskInv, HandsOK, Has
    <3>2. worker[v].item = j
      BY <1>11, <2>2 DEF Has
    <3> QED BY <1>5, <1>6, <1>7, <2>2, <3>1, <3>2 DEF HandOK
  <2> QED BY <2>1, <2>2
<1>15. TornOnlyIfTwice'
  BY <1>6, <1>7, <1>10, <1>12 DEF DiskInv, TornOnlyIfTwice
<1> QED BY <1>8, <1>9, <1>13, <1>14, <1>15 DEF DiskInv

\* A worker's record as a write leaves it.
LEMMA SetStep ==
  ASSUME NEW x \in WorkerRecord
  PROVE  /\ [x EXCEPT !.step = "record", !.hold = "own"] \in WorkerRecord
         /\ [x EXCEPT !.step = "record", !.hold = "own"].step = "record"
         /\ [x EXCEPT !.step = "record", !.hold = "own"].hold = "own"
         /\ [x EXCEPT !.step = "record", !.hold = "own"].pc = x.pc
         /\ [x EXCEPT !.step = "record", !.hold = "own"].item = x.item
<1>1. [x EXCEPT !.step = "record", !.hold = "own"] \in WorkerRecord
  BY DEF WorkerRecord
<1>2. DOMAIN x = {"pc", "events", "todo", "drop", "step", "item", "hold"}
  BY DEF WorkerRecord
<1> QED BY <1>1, <1>2

\* Writing, by the only one that has the item in hand: its file is whole now,
\* or it was lost and is still deleted.
LEMMA WriteInv ==
  ASSUME DiskInv, NEW w \in Worker, Write(w) PROVE DiskInv'
<1> DEFINE i == worker[w].item
<1>0. worker \in [Worker -> WorkerRecord] /\ worker[w].step = "write" /\ i \in Asset
  BY DEF Write, AtStep, DiskInv, CacheTyped
<1>1. /\ worker' \in [Worker -> WorkerRecord]
      /\ \A v \in Worker :
           /\ worker'[v].step = IF v = w THEN "record" ELSE worker[v].step
           /\ worker'[v].pc = worker[v].pc
           /\ worker'[v].item = worker[v].item
           /\ v = w => worker'[v].hold = "own"
           /\ v # w /\ (worker[v].step # "write" \/ worker[v].item # i) =>
                worker'[v].hold = worker[v].hold
  <2>1. CASE worker' = [Held(i, "own") EXCEPT ![w].step = "record", ![w].hold = "own"]
    <3>1. Held(i, "own") \in [Worker -> WorkerRecord]
      BY <1>0 DEF Held, WorkerRecord
    <3>2. \A v \in Worker : /\ Held(i, "own")[v].step = worker[v].step
                            /\ Held(i, "own")[v].pc = worker[v].pc
                            /\ Held(i, "own")[v].item = worker[v].item
                            /\ worker[v].step # "write" \/ worker[v].item # i =>
                                 Held(i, "own")[v].hold = worker[v].hold
      BY <1>0 DEF Held, Writing, AtStep, WorkerRecord
    <3> DEFINE h == Held(i, "own")
               p == [h[w] EXCEPT !.step = "record", !.hold = "own"]
    <3>0. h[w] \in WorkerRecord
      BY <3>1
    <3>3. p \in WorkerRecord /\ p.step = "record" /\ p.hold = "own"
      BY <3>0, SetStep
    <3>4. p.pc = h[w].pc /\ p.item = h[w].item
      BY <3>0, SetStep
    <3> HIDE DEF h
    <3>5. worker' = [h EXCEPT ![w] = p]
      BY <2>1, <3>1 DEF h, WorkerRecord
    <3> HIDE DEF p
    <3>6. worker' \in [Worker -> WorkerRecord] /\ \A v \in Worker : worker'[v] = IF v = w THEN p ELSE h[v]
      BY <3>1, <3>3, <3>5 DEF h
    <3> QED BY <3>2, <3>3, <3>4, <3>6 DEF h
  <2>2. CASE Becomes(w, [worker[w] EXCEPT !.step = "record", !.hold = "own"])
    <3> DEFINE p == [worker[w] EXCEPT !.step = "record", !.hold = "own"]
    <3>0. worker[w] \in WorkerRecord
      BY <1>0
    <3>1. p \in WorkerRecord /\ p.step = "record" /\ p.hold = "own"
      BY <3>0, SetStep
    <3>2. p.pc = worker[w].pc /\ p.item = worker[w].item
      BY <3>0, SetStep
    <3>3. worker' = [worker EXCEPT ![w] = p]
      BY <2>2 DEF Becomes
    <3> HIDE DEF p
    <3>4. worker' \in [Worker -> WorkerRecord]
      BY <1>0, <3>1, <3>3
    <3>5. \A v \in Worker : worker'[v] = IF v = w THEN p ELSE worker[v]
      BY <1>0, <3>3
    <3> QED BY <3>1, <3>2, <3>4, <3>5
  <2> QED BY <2>1, <2>2 DEF Write
<1>2. row' = row /\ twice' = twice /\ redone' = redone
  BY DEF Write
<1>3. /\ file' \in [Asset -> {"none", "partial", "whole"}]
      /\ \A j \in Asset : j # i => file'[j] = file[j]
  BY DEF Write, DiskInv, CacheTyped
<1>4. CacheTyped'
  BY <1>0, <1>1, <1>2, <1>3 DEF DiskInv, CacheTyped
<1>5. HoldsOpenOnly'
  BY <1>0, <1>1 DEF DiskInv, HoldsOpenOnly, Has
<1>6. \A v \in Worker, j \in Asset : Has(v, j)' <=> Has(v, j)
  BY <1>0, <1>1 DEF Has
<1>7. OneHand'
  BY <1>2, <1>6 DEF DiskInv, OneHand
<1>8. Has(w, i)
  BY <1>0 DEF Has
<1>9. i \notin twice => file'[i] # "partial" /\ (row[i] => i \in redone)
  <2> SUFFICES ASSUME i \notin twice PROVE file'[i] # "partial" /\ (row[i] => i \in redone)
    OBVIOUS
  <2>1. HandOK(w, i)
    BY <1>0, <1>8 DEF DiskInv, HandsOK
  <2>2. CASE worker[w].hold = "own"
    BY <1>0, <2>1, <2>2 DEF Write, DiskInv, CacheTyped, HandOK
  <2>3. CASE worker[w].hold = "lost"
    BY <1>0, <2>1, <2>3 DEF Write, HandOK
  <2> QED BY <1>0, <2>1, <2>2, <2>3 DEF HandOK, WorkerRecord
<1>10. HandsOK'
  <2> SUFFICES ASSUME NEW j \in Asset \ twice', NEW v \in Worker, Has(v, j)'
               PROVE  HandOK(v, j)'
    BY DEF HandsOK
  <2>1. Has(v, j) /\ HandOK(v, j)
    BY <1>2, <1>6 DEF DiskInv, HandsOK
  <2>2. CASE j = i
    <3>1. v = w
      BY <1>0, <1>2, <1>8, <2>1, <2>2 DEF DiskInv, OneHand
    <3> QED BY <1>1, <1>2, <1>9, <2>2, <3>1 DEF HandOK
  <2>3. CASE j # i
    <3>1. v # w /\ worker[v].item # i
      BY <2>1, <2>3 DEF Has
    <3> QED BY <1>1, <1>2, <1>3, <2>1, <2>3, <3>1 DEF HandOK
  <2> QED BY <2>2, <2>3
<1>11. TornOnlyIfTwice'
  BY <1>2, <1>3, <1>9 DEF DiskInv, TornOnlyIfTwice
<1> QED BY <1>4, <1>5, <1>7, <1>10, <1>11 DEF DiskInv

\* Listing what it has in hand, which is not partial.
LEMMA RecordInv ==
  ASSUME DiskInv, NEW w \in Worker, Record(w) PROVE DiskInv'
<1> DEFINE i == worker[w].item
<1>0. worker \in [Worker -> WorkerRecord] /\ worker[w].step = "record" /\ i \in Asset
  BY DEF Record, AtStep, DiskInv, CacheTyped
<1>1. Ended(w) \in WorkerRecord /\ Ended(w).step = "next" /\ Ended(w).hold = "own"
  BY OverTyped
<1>2. worker' = [worker EXCEPT ![w] = Ended(w)]
  BY DEF Record, Becomes
<1>3. \A v \in Worker : worker'[v] = IF v = w THEN Ended(w) ELSE worker[v]
  BY <1>0, <1>2
<1>4. file' = file /\ twice' = twice /\ \A j \in Asset : j # i => (j \in redone' <=> j \in redone)
  BY DEF Record
<1>5. /\ row' \in [Asset -> BOOLEAN]
      /\ \A j \in Asset : j # i => row'[j] = row[j]
  BY DEF Record, DiskInv, CacheTyped
<1>6. CacheTyped'
  BY <1>0, <1>1, <1>2, <1>3, <1>4, <1>5 DEF DiskInv, CacheTyped
<1>7. HoldsOpenOnly'
  BY <1>1, <1>3 DEF DiskInv, HoldsOpenOnly
<1>8. \A v \in Worker, j \in Asset : Has(v, j)' => v # w /\ Has(v, j)
  BY <1>1, <1>3 DEF Has
<1>9. OneHand'
  BY <1>4, <1>8 DEF DiskInv, OneHand
<1>10. Has(w, i)
  BY <1>0 DEF Has
<1>11. HandsOK'
  <2> SUFFICES ASSUME NEW j \in Asset \ twice', NEW v \in Worker, Has(v, j)'
               PROVE  HandOK(v, j)'
    BY DEF HandsOK
  <2>1. v # w /\ Has(v, j) /\ HandOK(v, j)
    BY <1>4, <1>8 DEF DiskInv, HandsOK
  <2>2. j # i
    BY <1>0, <1>4, <1>10, <2>1 DEF DiskInv, OneHand
  <2> QED BY <1>3, <1>4, <1>5, <2>1, <2>2 DEF HandOK
<1>12. i \notin twice => file[i] # "partial"
  BY <1>0, <1>10 DEF DiskInv, HandsOK, HandOK
<1>13. TornOnlyIfTwice'
  BY <1>4, <1>5, <1>12 DEF DiskInv, TornOnlyIfTwice
<1> QED BY <1>6, <1>7, <1>9, <1>11, <1>13 DEF DiskInv

-----------------------------------------------------------------------------
(* What deletes *)

LEMMA DropFileInv ==
  ASSUME DiskInv, NEW w \in Worker, DropFile(w) PROVE DiskInv'
<1> DEFINE rest(i) == [worker[w] EXCEPT
                         !.todo = @ \ {i}, !.drop = @ \union {i}, !.item = None,
                         !.pc = IF @ = "dropTicket" THEN "dropTickets" ELSE @]
<1>0. worker \in [Worker -> WorkerRecord]
  BY DEF DiskInv, CacheTyped
<1>1. PICK i \in worker[w].todo :
        /\ At(w, "dropImages") \/ At(w, "dropTicket")
        /\ file' = [file EXCEPT ![i] = "none"]
        /\ worker' = [Held(i, "lost") EXCEPT ![w] = rest(i)]
  BY DEF DropFile
<1>2. i \in Asset
  BY <1>0, <1>1 DEF WorkerRecord
<1>3. UNCHANGED <<row, twice, redone>>
  BY DEF DropFile
<1>4. worker[w].step = "next" /\ worker[w].hold = "own"
  BY <1>1 DEF At, DiskInv, HoldsOpenOnly
<1>7. /\ rest(i) \in WorkerRecord
      /\ rest(i).step = worker[w].step /\ rest(i).hold = worker[w].hold
  <2>1. PICK x : x = worker[w]
    OBVIOUS
  <2>2. x \in WorkerRecord
    BY <1>0, <2>1
  <2>3. PICK t, d, p : /\ t = x.todo \ {i} /\ d = x.drop \union {i}
                       /\ p = IF x.pc = "dropTicket" THEN "dropTickets" ELSE x.pc
    OBVIOUS
  <2>4. /\ t \in SUBSET Asset /\ d \in SUBSET Asset
        /\ [x EXCEPT !.pc = p] \in WorkerRecord
    BY <1>2, <2>2, <2>3 DEF WorkerRecord
  <2>5. DOMAIN x = {"pc", "events", "todo", "drop", "step", "item", "hold"}
    BY <2>2 DEF WorkerRecord
  <2>6. rest(i) = [x EXCEPT !.todo = t, !.drop = d, !.item = None, !.pc = p]
    BY <2>1, <2>3, <2>5
  <2>7. PICK y : y = rest(i)
    OBVIOUS
  <2> HIDE DEF rest
  <2>8. y = [x EXCEPT !.todo = t, !.drop = d, !.item = None, !.pc = p]
    BY <2>6, <2>7
  <2>9. y \in WorkerRecord /\ y.step = x.step /\ y.hold = x.hold
    <3>1. y.step = x.step /\ y.hold = x.hold
      BY <2>5, <2>8
    <3>2. y \in WorkerRecord
      BY <2>2, <2>4, <2>8 DEF WorkerRecord
    <3> QED BY <3>1, <3>2
  <2> QED BY <2>1, <2>7, <2>9
<1>5. Held(i, "lost") \in [Worker -> WorkerRecord]
  BY <1>0 DEF Held, WorkerRecord
<1>6. \A v \in Worker : /\ Held(i, "lost")[v].step = worker[v].step
                        /\ Held(i, "lost")[v].pc = worker[v].pc
                        /\ Held(i, "lost")[v].item = worker[v].item
  BY <1>0 DEF Held, Writing, WorkerRecord
<1>8. Held(i, "lost")[w].hold = worker[w].hold
  BY <1>4 DEF Held, Writing, AtStep
<1> HIDE DEF rest
<1>9. /\ worker' \in [Worker -> WorkerRecord]
      /\ \A v \in Worker : worker'[v] = IF v = w THEN rest(i) ELSE Held(i, "lost")[v]
  BY <1>1, <1>5, <1>7
<1> QED BY <1>1, <1>2, <1>3, <1>4, <1>6, <1>7, <1>8, <1>9, Deleted

LEMMA PurgeInv ==
  ASSUME DiskInv, NEW i \in Asset, Purge(i) PROVE DiskInv'
<1>1. worker \in [Worker -> WorkerRecord]
  BY DEF DiskInv, CacheTyped
<1>2. Held(i, "lost") \in [Worker -> WorkerRecord]
  BY <1>1 DEF Held, WorkerRecord
<1>3. \A v \in Worker : /\ Held(i, "lost")[v].step = worker[v].step
                        /\ Held(i, "lost")[v].pc = worker[v].pc
                        /\ Held(i, "lost")[v].item = worker[v].item
  BY <1>1 DEF Held, Writing, WorkerRecord
<1>4. worker' = Held(i, "lost")
  BY DEF Purge
<1>5. file' = [file EXCEPT ![i] = "none"] /\ UNCHANGED <<row, twice, redone>>
  BY DEF Purge
<1> QED BY <1>2, <1>3, <1>4, <1>5, Deleted

LEMMA DropImageRowsInv ==
  ASSUME DiskInv, NEW w \in Worker, DropImageRows(w) PROVE DiskInv'
<1> DEFINE r == [worker[w] EXCEPT !.pc = "dropTickets",
                                  !.todo = TicketsOf(worker[w].events), !.drop = {}]
<1>1. worker[w] \in WorkerRecord /\ worker[w].step = "next" /\ worker[w].hold = "own"
  BY DEF DropImageRows, At, DiskInv, CacheTyped, HoldsOpenOnly
<1>2. TicketsOf(worker[w].events) \in SUBSET Asset
  BY DEF TicketsOf, Asset
<1>3. r \in WorkerRecord /\ r.step = "next" /\ r.hold = "own"
  BY <1>1, <1>2 DEF WorkerRecord
<1>4. /\ row' = [i \in Asset |-> row[i] /\ i \notin worker[w].drop]
      /\ Becomes(w, r) /\ UNCHANGED <<file, twice, redone>>
  BY DEF DropImageRows
<1> HIDE DEF r
<1> QED BY <1>3, <1>4, Unlisted

LEMMA DropTicketRowsInv ==
  ASSUME DiskInv, NEW w \in Worker, DropTicketRows(w) PROVE DiskInv'
<1>1. AtRest.step = "next" /\ AtRest.hold = "own"
  BY DEF AtRest
<1>2. /\ row' = [i \in Asset |-> row[i] /\ i \notin worker[w].drop]
      /\ Becomes(w, AtRest) /\ UNCHANGED <<file, twice, redone>>
  BY DEF DropTicketRows
<1> QED BY <1>1, <1>2, IdleTyped, Unlisted

-----------------------------------------------------------------------------
LEMMA DownloadStepInv ==
  ASSUME DiskInv, NEW w \in Worker, DownloadStep(w) PROVE DiskInv'
  BY LookInv, AskInv, OpenInv, WriteInv, RecordInv DEF DownloadStep

LEMMA RefreshStepInv ==
  ASSUME DiskInv, NEW w \in Worker, RefreshStep(w) PROVE DiskInv'
  BY ListTicketsInv, DownloadStepInv, CleanInv, FindImagesInv, FindTicketInv,
     DropFileInv, DropImageRowsInv, DropTicketRowsInv DEF RefreshStep

LEMMA UnchangedInv ==
  ASSUME DiskInv, UNCHANGED <<disk, worker>> PROVE DiskInv'
  BY DEF disk, DiskInv, CacheTyped, HoldsOpenOnly, OneHand, Has, HandsOK, HandOK,
         TornOnlyIfTwice

\* A file that a table of the phone lists is whole (offline_cache_service.dart:
\* the row is written after the file), whatever fails, is killed, cleaned or
\* purged -- but for an item of which one download truncated the file under
\* another that it overlapped, or whose listed file had gone and whose new
\* download is under way or was cut short.
THEOREM ListedIsWhole == CacheSpec => []TornOnlyIfTwice
<1>1. CacheInit => DiskInv
  BY CacheInitInv
<1>2. ASSUME DiskInv, [CacheNext]_cacheVars PROVE DiskInv'
  <2>1. CASE ServerNext /\ UNCHANGED <<cachedEvents, cachedTickets, disk, worker, failures>>
    BY <1>2, <2>1, UnchangedInv
  <2>2. CASE \E r \in Puller : Pull(r)
    BY <1>2, <2>2, PullInv
  <2>3. CASE \E r \in Second : RefreshAgain(r)
    BY <1>2, <2>3, RefreshAgainInv
  <2>4. CASE \E r \in Puller \union Second : RefreshStep(r)
    BY <1>2, <2>4, RefreshStepInv DEF Worker
  <2>5. CASE \E v \in Viewer : View(v) \/ DownloadStep(v)
    BY <1>2, <2>5, ViewInv, DownloadStepInv DEF Worker
  <2>6. CASE \E w \in Worker : DownloadFails(w)
    BY <1>2, <2>6, DownloadFailsInv
  <2>7. CASE KillWorkers
    BY <1>2, <2>7, KillWorkersInv
  <2>8. CASE \E i \in Asset : Purge(i)
    BY <1>2, <2>8, PurgeInv
  <2>9. CASE UNCHANGED cacheVars
    BY <1>2, <2>9, UnchangedInv DEF cacheVars
  <2> QED BY <1>2, <2>1, <2>2, <2>3, <2>4, <2>5, <2>6, <2>7, <2>8, <2>9 DEF CacheNext
<1>3. DiskInv => TornOnlyIfTwice
  BY DEF DiskInv
<1> QED BY <1>1, <1>2, <1>3, PTL DEF CacheSpec
=========================================================================
