------------------------------- MODULE Season -------------------------------
(***************************************************************************)
(* The season planner of api/v1/season.py: plans, the candidate pool that  *)
(* the scrapers upload, the scenarios built from it, the user's decisions, *)
(* the novelty cursor and the links of programme pieces.                   *)
(*                                                                         *)
(* Every handler reads, decides and writes in one READ COMMITTED           *)
(* transaction without locks.  A request in flight is what it has read     *)
(* ("seen"), refreshed by a second read where the handler has one; its     *)
(* commit writes only the columns whose value differs from the one read,   *)
(* as SQLAlchemy does.  A request refused with 4xx writes nothing and is   *)
(* left out.                                                               *)
(***************************************************************************)
EXTENDS Sorting, SequencesExt

CONSTANTS Clients,       \* connections, each with at most one request
          Urls,          \* what an item's url can be
          Identity,      \* Identity[u]: candidate_identity of url and evening
          NoIdentity,    \* a url that carries no identity of its own
          Clubs,         \* bodies whose venue matches a veto term
          Null,          \* an absent optional value
          Payloads,      \* pool uploads: sequences of items
          Names,         \* scenario names
          Pieces,        \* program_key of the programme pieces
          Changes,       \* what a user may change on a candidate
          Starts,        \* the pools and scenarios a behaviour may start from
          Agendas,       \* workloads: kinds of request, how many of them, and
                         \* the days on which a season may start
          Moments,       \* the times a reader of novelties may name
          MaxTime

VARIABLES plans,      \* season_plans
          pool,       \* season_candidates
          scens,      \* season_scenarios
          links,      \* program_media_links
          veto,       \* are the clubs vetoed (a setting of the server)?
          clock,
          tx,         \* the request each client has in flight
          agenda, requests,                     \* bounds of the behaviour
          listings, announced, dismissed,       \* history of the novelties:
          overlooked, heirs,                    \* see AckedWasSeen
          settled                               \* the last quiet upload

db == <<plans, pool, scens, links>>
bounds == <<veto, clock, agenda, requests>>
history == <<listings, announced, dismissed, overlooked, heirs, settled>>
vars == <<db, bounds, tx, history>>

Services == {"spotify", "youtube"}
Kinds == {"create", "upload", "scenarios", "patch", "delete", "apply",
          "list", "ack", "link", "unlink"}

ASSUME SeasonAssumption ==
    /\ Urls \subseteq DOMAIN Identity
    /\ MaxTime \in Nat /\ Moments \subseteq Nat \ {0} /\ IsFiniteSet(Names)
    /\ \A a \in Agendas :
          a.kinds \subseteq Kinds \cup {"veto"} /\ a.limit \in Nat /\ a.days \subseteq Nat
    /\ \A items \in Payloads :
          /\ items \in Seq(Range(items))
          /\ \A n \in DOMAIN items : items[n].url \in Urls
    /\ \A change \in Changes : DOMAIN change \subseteq {"status", "note"}

Fields == {"plan", "key", "url", "body", "enr", "status", "note", "first",
           "last", "version", "live"}
ScenFields == {"plan", "name", "members", "applied", "version", "live"}
Opening == 3                 \* the time at which a behaviour starts

ASSUME StartsAssumption ==
    \A s \in Starts :
        /\ s.pool \in Seq(Range(s.pool)) /\ s.scens \in Seq(Range(s.scens))
        /\ \A i \in DOMAIN s.pool :
              LET row == s.pool[i] IN
              /\ row = [f \in Fields |-> row[f]]
              /\ row.plan = 1 /\ row.live = TRUE /\ row.url \in Urls
              /\ row.first \in 1 .. Opening /\ row.last \in Nat
              /\ row.version \in Nat
              /\ \A j \in DOMAIN s.pool : s.pool[j].key = row.key => j = i
        /\ \A i \in DOMAIN s.scens : s.scens[i] = [f \in ScenFields |-> s.scens[i][f]]

-----------------------------------------------------------------------------
(* Rows.  An item is [key, url, body, enr]: body stands for the scraped    *)
(* fields, enr for the enrichment fields (Null: not looked up).            *)

\* "starts" is the midnight of starts_on; no novelty has been acknowledged: 0.
Plan(label, starts) ==
    [label |-> label, starts |-> starts, active |-> TRUE, ack |-> 0, version |-> 1]

Candidate(plan, item, now) ==
    [plan |-> plan, key |-> item.key, url |-> item.url, body |-> item.body,
     enr |-> item.enr, status |-> "undecided", note |-> Null,
     first |-> now, last |-> now, version |-> 1, live |-> TRUE]

Scenario(plan, name, members) ==
    [plan |-> plan, name |-> name, members |-> members, applied |-> 0,
     version |-> 1, live |-> TRUE]

NoLink == [row |-> 0, link |-> [s \in Services |-> Null]]

Alive(table, plan) ==
    {i \in DOMAIN table : table[i].live /\ table[i].plan = plan}

Least(S) == CHOOSE i \in S : \A j \in S : i <= j

-----------------------------------------------------------------------------
(* PUT /plans/{id}/pool *)

Vetoed(row) == veto /\ row.body \in Clubs

\* Of the items of no vetoed venue the last of each key, in the order the keys
\* first came, and of those the last of each identity.
Collapsed(items) ==
    LET allowed == {n \in DOMAIN items : ~Vetoed(items[n])}
        Spelled(n) == {m \in allowed : items[m].key = items[n].key}
        first == [n \in allowed |-> Least(Spelled(n))]
        last == {n \in allowed : \A m \in Spelled(n) : m <= n}
        kept == {n \in last : \A m \in last :
                    \/ Identity[items[n].url] = NoIdentity
                    \/ Identity[items[m].url] # Identity[items[n].url]
                    \/ first[m] <= first[n]}
        order == InOrder(kept, first)
    IN  [k \in DOMAIN order |-> items[order[k]]]

\* Rows of a venue vetoed since they were stored.
Purged(rows, plan) ==
    [i \in DOMAIN rows |->
        IF i \in Alive(rows, plan) /\ Vetoed(rows[i])
        THEN [rows[i] EXCEPT !.live = FALSE, !.version = @ + 1]
        ELSE rows[i]]

\* Mutant: the winner's own decision stands, also when it has none.
InheritNote(rows, winner, losers) ==
    [rows[winner] EXCEPT
        !.note = IF @ = Null /\ (\E l \in losers : rows[l].note # Null)
                 THEN "note" ELSE @,
        !.first = Least({rows[l].first : l \in losers \cup {winner}}),
        !.version = @ + Cardinality(losers)]

\* What the winner takes from the rows folded into it.
Inherit(rows, winner, losers) ==
    LET w == rows[winner]
        decided == {l \in losers : rows[l].status # "undecided"}
        noted == {l \in losers : rows[l].note # Null}
    IN  [w EXCEPT
            !.status = IF @ = "undecided" /\ decided # {}
                       THEN rows[Least(decided)].status ELSE @,
            !.note = IF @ = Null /\ noted # {} THEN rows[Least(noted)].note ELSE @,
            !.first = Least({rows[l].first : l \in losers \cup {winner}}),
            !.version = @ + Cardinality(losers)]

\* Mutant: the losers are left in the pool.
FoldKeeping(rows, winner, losers) ==
    [i \in DOMAIN rows |->
        IF i = winner THEN Inherit(rows, winner, losers) ELSE rows[i]]

Fold(rows, winner, losers) ==
    [i \in DOMAIN rows |->
        IF i = winner THEN Inherit(rows, winner, losers)
        ELSE IF i \in losers
        THEN [rows[i] EXCEPT !.live = FALSE, !.version = @ + 1]
        ELSE rows[i]]

Rewrite(scenarios, plan, winner, losers) ==
    [s \in DOMAIN scenarios |->
        LET hit == scenarios[s].members \cap losers
        IN  IF s \in Alive(scenarios, plan) /\ hit # {}
            THEN [scenarios[s] EXCEPT
                    !.members = (@ \ losers) \cup {winner},
                    !.version = @ + Cardinality(hit)]
            ELSE scenarios[s]]

\* Mutant: every row that is sent counts as changed.
MergedAnew(row, item, now) ==
    [row EXCEPT !.url = item.url, !.body = item.body, !.last = now,
                !.enr = IF item.enr = Null THEN @ ELSE item.enr,
                !.version = @ + 1]

\* The item's fields over the row's; a missing enrichment keeps the old one.
Merged(row, item, now) ==
    LET enr == IF item.enr = Null THEN row.enr ELSE item.enr
        same == <<row.url, row.body, row.enr>> = <<item.url, item.body, enr>>
    IN  [row EXCEPT !.url = item.url, !.body = item.body, !.enr = enr,
                    !.last = now, !.version = IF same THEN @ ELSE @ + 1]

\* One item, against the maps of keys and identities built before the loop.
Ingest(plan, now, acc, item) ==
    LET id == Identity[item.url]
        twins == IF id = NoIdentity THEN {}
                 ELSE {t \in acc.byId[id] : acc.pool[t].live}
        byKey == acc.byKey[item.key]
        adopted == CHOOSE t \in twins :
                       \A u \in twins : acc.pool[u].last <= acc.pool[t].last
        row == IF byKey = 0 /\ twins # {} THEN adopted ELSE byKey
        losers == twins \ {row}
        gone == {acc.pool[l].key : l \in losers}
        fresh == Len(acc.pool) + 1
        rows == Fold(acc.pool, row, losers)
        Keyed(r) == IF byKey = 0 THEN [r EXCEPT !.key = item.key] ELSE r
    IN  IF row = 0
        THEN [acc EXCEPT
                !.pool = Append(@, Candidate(plan, item, now)),
                !.byKey = [@ EXCEPT ![item.key] = fresh],
                !.byId = [d \in DOMAIN @ |->
                             IF d = id THEN @[d] \cup {fresh} ELSE @[d]]]
        ELSE [acc EXCEPT
                !.pool = [i \in DOMAIN rows |->
                    IF i = row THEN Merged(Keyed(rows[i]), item, now) ELSE rows[i]],
                !.scens = Rewrite(@, plan, row, losers),
                !.byKey = [k \in DOMAIN @ |->
                              IF k \in gone THEN 0
                              ELSE IF k = item.key THEN row ELSE @[k]]]

\* The maps of the keys and of the identities of what is live.
Mapped(seen, plan, items) ==
    LET rows == Purged(seen.pool, plan)
        live == Alive(rows, plan)
        keys == {items[n].key : n \in DOMAIN items} \cup {rows[i].key : i \in live}
    IN  [pool |-> rows, scens |-> seen.scens,
         byKey |-> [k \in keys |->
             IF \E i \in live : rows[i].key = k
             THEN CHOOSE i \in live : rows[i].key = k ELSE 0],
         byId |-> [d \in {Identity[u] : u \in Urls} \ {NoIdentity} |->
             {i \in live : Identity[rows[i].url] = d}]]

Upload(seen, plan, items, now) ==
    LET todo == Collapsed(items)
        after[n \in 0 .. Len(todo)] ==
            IF n = 0 THEN Mapped(seen, plan, items)
            ELSE Ingest(plan, now, after[n - 1], todo[n])
        end == after[Len(todo)]
    IN  [seen EXCEPT !.pool = end.pool, !.scens = end.scens]

-----------------------------------------------------------------------------
(* The other handlers: what each makes of the tables it has read.          *)

CreatePlan(seen, label, starts) ==
    LET Retired(p) == IF p.active
                      THEN [p EXCEPT !.active = FALSE, !.version = @ + 1] ELSE p
        retired == [p \in DOMAIN seen.plans |-> Retired(seen.plans[p])]
    IN  [seen EXCEPT !.plans = Append(retired, Plan(label, starts))]

\* "wanted" gives the keys of each pushed scenario; the others go with it.
PutScenarios(seen, plan, wanted, replace) ==
    LET Id(k) == CHOOSE i \in Alive(seen.pool, plan) : seen.pool[i].key = k
        Members(n) == {Id(k) : k \in wanted[n]}
        old == Alive(seen.scens, plan)
        Known(n) == \E s \in old : seen.scens[s].name = n
        new == SetToSeq({n \in DOMAIN wanted : ~Known(n)})
        kept == [s \in DOMAIN seen.scens |->
            LET row == seen.scens[s] IN
            IF s \in old /\ row.name \in DOMAIN wanted
            THEN [row EXCEPT !.members = Members(row.name), !.version = @ + 1]
            ELSE IF s \in old /\ replace
            THEN [row EXCEPT !.live = FALSE, !.version = @ + 1]
            ELSE row]
        added == [n \in DOMAIN new |-> Scenario(plan, new[n], Members(new[n]))]
    IN  [seen EXCEPT !.scens = kept \o added]

Patch(seen, row, change) ==
    [seen EXCEPT !.pool[row] = [c \in DOMAIN @ |->
        IF c \in DOMAIN change THEN change[c]
        ELSE IF c = "version" THEN @[c] + 1 ELSE @[c]]]

Delete(seen, row) ==
    [seen EXCEPT !.pool[row].live = FALSE, !.pool[row].version = @ + 1]

Apply(seen, scen, replace, now) ==
    LET plan == seen.scens[scen].plan
        members == seen.scens[scen].members
        Decided(i) == IF i \in members THEN "selected"
                      ELSE IF replace /\ seen.pool[i].status = "selected"
                      THEN "undecided" ELSE seen.pool[i].status
        decided == [i \in DOMAIN seen.pool |->
            IF i \notin Alive(seen.pool, plan) \/ Decided(i) = seen.pool[i].status
            THEN seen.pool[i]
            ELSE [seen.pool[i] EXCEPT !.status = Decided(i), !.version = @ + 1]]
    IN  [seen EXCEPT !.scens[scen].applied = now, !.scens[scen].version = @ + 1,
                     !.pool = decided]

Ack(seen, plan, through) ==
    IF through <= seen.plans[plan].ack THEN seen
    ELSE [seen EXCEPT !.plans[plan].ack = through, !.plans[plan].version = @ + 1]

\* A new piece gets a row (number "row"); a known one the links that are sent.
PutLink(seen, piece, found, row) ==
    LET old == seen.links[piece]
        merged == [s \in Services |->
                      IF found[s] = Null THEN old.link[s] ELSE found[s]]
    IN  [seen EXCEPT !.links[piece] =
            IF old = NoLink THEN [row |-> row, link |-> found]
            ELSE [row |-> old.row, link |-> merged]]

Unlink(seen, piece) == [seen EXCEPT !.links[piece] = NoLink]

Effect(t) ==
    LET r == t.req IN
    CASE r.kind = "create"    -> CreatePlan(t.seen, r.label, r.starts)
      [] r.kind = "upload"    -> Upload(t.seen, r.plan, r.items, t.now)
      [] r.kind = "scenarios" -> PutScenarios(t.seen, r.plan, r.wanted, r.replace)
      [] r.kind = "patch"     -> Patch(t.seen, r.row, r.change)
      [] r.kind = "delete"    -> Delete(t.seen, r.row)
      [] r.kind = "apply"     -> Apply(t.seen, r.scen, r.replace, t.now)
      [] r.kind = "ack"       -> Ack(t.seen, r.plan, r.through)
      [] r.kind = "link"      -> PutLink(t.seen, r.piece, r.found, r.row)
      [] r.kind = "unlink"    -> Unlink(t.seen, r.piece)
      [] r.kind = "list"      -> t.seen

-----------------------------------------------------------------------------
(* Transactions *)

Tables == [plans |-> plans, pool |-> pool, scens |-> scens, links |-> links]
NoTx == [stage |-> "idle"]

\* A row after a write: the columns that changed since they were read.
Columns(row, old, new) ==
    [c \in DOMAIN row |-> IF new[c] = old[c] THEN row[c] ELSE new[c]]

Rows(rows, old, new) ==
    [i \in DOMAIN rows |->
        IF i \in DOMAIN old THEN Columns(rows[i], old[i], new[i]) ELSE rows[i]]
    \o SubSeq(new, Len(old) + 1, Len(new))

\* An INSERT of a piece that has come up since, or an UPDATE of a row that is
\* gone, fails the request.
LinkFails(now, old, new) == new # old /\ new # NoLink /\ now.row # old.row

LinkAfter(now, old, new) ==
    IF new = old THEN now
    ELSE IF new = NoLink THEN IF now.row = old.row THEN NoLink ELSE now
    ELSE [row |-> new.row, link |-> Columns(now.link, old.link, new.link)]

\* The partial unique indexes of the season tables.
Unique(t) ==
    /\ \A p, q \in DOMAIN t.plans : p # q =>
          /\ t.plans[p].label # t.plans[q].label
          /\ ~(t.plans[p].active /\ t.plans[q].active)
    /\ \A i, j \in DOMAIN t.pool : i # j /\ t.pool[i].live /\ t.pool[j].live =>
          <<t.pool[i].plan, t.pool[i].key>> # <<t.pool[j].plan, t.pool[j].key>>
    /\ \A s, r \in DOMAIN t.scens : s # r /\ t.scens[s].live /\ t.scens[r].live =>
          <<t.scens[s].plan, t.scens[s].name>> # <<t.scens[r].plan, t.scens[r].name>>

TwoReads == {"upload", "scenarios", "apply"}

Requests ==
    LET Live(p) == Alive(pool, p) IN
    [kind : {"create"}, label : Names, starts : agenda.days]
    \cup [kind : {"upload"}, plan : DOMAIN plans, items : Payloads]
    \cup (UNION {[kind : {"scenarios"}, plan : {p}, replace : BOOLEAN,
                  wanted : UNION {[N -> SUBSET {pool[i].key : i \in Live(p)}] :
                                     N \in SUBSET Names}] : p \in DOMAIN plans})
    \cup [kind : {"patch"}, row : UNION {Live(p) : p \in DOMAIN plans},
          change : Changes]
    \cup [kind : {"delete"}, row : UNION {Live(p) : p \in DOMAIN plans}]
    \cup [kind : {"apply"}, replace : BOOLEAN,
          scen : UNION {Alive(scens, p) : p \in DOMAIN plans}]
    \cup [kind : {"list"}, plan : DOMAIN plans, since : {0} \cup Moments]
    \cup [kind : {"ack"}, plan : DOMAIN plans,
          through : Moments \cup {l.through : l \in listings}]
    \cup [kind : {"link"}, piece : Pieces, row : {requests + 1},
          found : {[s \in Services |-> IF s = service THEN "found" ELSE Null] :
                      service \in Services}]
    \cup [kind : {"unlink"}, piece : {p \in Pieces : links[p] # NoLink}]

\* A request starts: its first SELECTs, and for an upload the time it stamps.
Begin(c) ==
    /\ tx[c] = NoTx /\ requests < agenda.limit
    /\ \E r \in Requests :
          /\ r.kind \in agenda.kinds
          /\ tx' = [tx EXCEPT ![c] =
                [stage |-> IF r.kind \in TwoReads THEN "read" ELSE "ready",
                 req |-> r, seen |-> Tables, now |-> clock, quiet |-> TRUE]]
    /\ requests' = requests + 1
    /\ UNCHANGED <<db, veto, clock, agenda, history>>

\* The second SELECT: scenarios for an upload that merges and for a push of
\* scenarios, candidates for an application.
ReadAgain(c) ==
    /\ tx[c].stage = "read"
    /\ tx' = [tx EXCEPT ![c].stage = "ready",
                ![c].seen = IF tx[c].req.kind = "apply"
                            THEN [@ EXCEPT !.pool = pool]
                            ELSE [@ EXCEPT !.scens = scens]]
    /\ UNCHANGED <<db, bounds, history>>

Written(c) ==
    LET old == tx[c].seen
        new == Effect(tx[c])
    IN  [plans |-> Rows(plans, old.plans, new.plans),
         pool |-> Rows(pool, old.pool, new.pool),
         scens |-> Rows(scens, old.scens, new.scens),
         links |-> [p \in Pieces |->
                       LinkAfter(links[p], old.links[p], new.links[p])]]

\* Does the commit pass the unique indexes, and do its rows still exist?
Accepted(c, written) ==
    /\ Unique(written)
    /\ \A p \in Pieces : tx[c].req.kind = "link" =>
          ~LinkFails(links[p], tx[c].seen.links[p], Effect(tx[c]).links[p])

\* A request ends, and the others in flight have been overtaken.
Finished(c) ==
    tx' = [d \in Clients |->
              IF d = c THEN NoTx
              ELSE IF tx[d] # NoTx /\ Tables' # Tables
              THEN [tx[d] EXCEPT !.quiet = FALSE] ELSE tx[d]]

\* Candidates that have been in a listing, that were left out on the reader's
\* own word or as older than the season, that came too late, and that have
\* their first_seen_at from such a one folded into them.
Known == announced \cup dismissed \cup overlooked \cup heirs

\* What an acknowledgement passes over that is later than every listing.
Dismissed(t) ==
    IF t.req.kind # "ack" THEN {}
    ELSE {i \in Alive(pool, t.req.plan) :
             /\ pool[i].first <= plans'[t.req.plan].ack
             /\ \A l \in listings : l.plan = t.req.plan => pool[i].first > l.through}

\* The new rows that a cursor or a listing has passed already.
Overlooked ==
    {i \in DOMAIN pool' \ DOMAIN pool :
        \/ pool'[i].first <= plans[pool'[i].plan].ack
        \/ \E l \in listings : l.plan = pool'[i].plan /\ pool'[i].first <= l.through
        \/ \E d \in Clients : /\ tx[d] # NoTx /\ tx[d].req.kind = "list"
                              /\ tx[d].req.plan = pool'[i].plan}

\* The rows that take the first_seen_at of a known row, or of one that another
\* upload has retired or folded into since this one read it.
Heirs(t) ==
    {i \in DOMAIN pool \ Known : pool'[i].first # pool[i].first /\
        \E j \in Alive(t.seen.pool, pool[i].plan) :
            /\ ~pool'[j].live /\ t.seen.pool[j].first = pool'[i].first
            /\ \/ j \in Known \/ ~pool[j].live
               \/ pool[j].first # t.seen.pool[j].first}

\* Does the item name the row, by its key or as the same event?
Claims(item, row) ==
    \/ item.key = row.key
    \/ Identity[item.url] # NoIdentity /\ Identity[item.url] = Identity[row.url]

\* Does the upload name each row at most once?
Apart(rows, plan, items) ==
    LET todo == Collapsed(items) IN
    \A i \in Alive(rows, plan) : \A m, n \in DOMAIN todo :
        ~Vetoed(rows[i]) /\ Claims(todo[m], rows[i]) /\ Claims(todo[n], rows[i])
            => m = n

Commit(c) ==
    /\ tx[c].stage = "ready" /\ tx[c].req.kind # "list"
    /\ \E w \in {Written(c)} :
          /\ Accepted(c, w)
          /\ plans' = w.plans /\ pool' = w.pool
          /\ scens' = w.scens /\ links' = w.links
    /\ Finished(c)
    /\ settled' = IF tx[c].req.kind = "upload" /\ tx[c].quiet
                  THEN {[plan |-> tx[c].req.plan, items |-> tx[c].req.items,
                         apart |-> Apart(pool, tx[c].req.plan, tx[c].req.items)]}
                  ELSE {}
    /\ dismissed' = dismissed \cup Dismissed(tx[c])
    /\ overlooked' = overlooked \cup Overlooked
    /\ heirs' = heirs \cup Heirs(tx[c])
    /\ UNCHANGED <<bounds, listings, announced>>

\* A unique index or a vanished row fails the request, or its connection drops.
Fail(c) ==
    /\ tx[c] # NoTx
    /\ tx' = [tx EXCEPT ![c] = NoTx]
    /\ UNCHANGED <<db, bounds, history>>

\* "A season with no ack yet treats its own start as day zero."
Cursor(plan) == IF plan.ack = 0 THEN plan.starts ELSE plan.ack

\* The reader may say since when, and does so with a time after 0.
Since(t) ==
    IF t.req.since = 0 THEN Cursor(t.seen.plans[t.req.plan]) ELSE t.req.since

\* Mutant: only what is undecided is news.
NoveltiesUndecided(t) ==
    {i \in Alive(t.seen.pool, t.req.plan) :
        t.seen.pool[i].first > Since(t) /\ t.seen.pool[i].status = "undecided"}

\* GET novelties answers what it read, and the time of the answer.
Novelties(t) ==
    {i \in Alive(t.seen.pool, t.req.plan) : t.seen.pool[i].first > Since(t)}

\* What no listing has before the first acknowledgement.
Elder(t) ==
    {i \in Alive(t.seen.pool, t.req.plan) :
        /\ t.seen.plans[t.req.plan].ack = 0
        /\ t.seen.pool[i].first <= t.seen.plans[t.req.plan].starts}

\* Only a listing that starts at the cursor or before it counts as one.
Listed(c) ==
    /\ tx[c].stage = "ready" /\ tx[c].req.kind = "list"
    /\ announced' = announced \cup Novelties(tx[c])
    /\ dismissed' = dismissed \cup Elder(tx[c])
    /\ listings' = listings \cup
          {l \in {[plan |-> tx[c].req.plan, through |-> clock]} :
              Since(tx[c]) <= Cursor(tx[c].seen.plans[tx[c].req.plan])}
    /\ tx' = [tx EXCEPT ![c] = NoTx]
    /\ UNCHANGED <<db, bounds, overlooked, heirs, settled>>

\* The veto terms are settings: they change when the server is deployed.
TurnVeto ==
    /\ "veto" \in agenda.kinds /\ ~veto
    /\ veto' = TRUE /\ settled' = {}
    /\ UNCHANGED <<db, clock, tx, agenda, requests, listings, announced,
                   dismissed, overlooked, heirs>>

\* Time passes in the behaviours that read novelties: only they compare times
\* that are not already apart in the starting pool.
Tick ==
    /\ "list" \in agenda.kinds /\ clock < MaxTime
    /\ clock' = clock + 1
    /\ UNCHANGED <<db, veto, tx, agenda, requests, history>>

Init ==
    /\ agenda \in Agendas
    /\ \E day \in agenda.days : plans = <<Plan("first", day)>>
    /\ \E s \in Starts : pool = s.pool /\ scens = s.scens
    /\ links = [p \in Pieces |-> NoLink]
    /\ veto = FALSE /\ clock = Opening /\ requests = 0
    /\ tx = [c \in Clients |-> NoTx]
    /\ listings = {} /\ announced = {} /\ dismissed = {} /\ overlooked = {}
    /\ heirs = {} /\ settled = {}

Next ==
    \/ \E c \in Clients :
          Begin(c) \/ ReadAgain(c) \/ Commit(c) \/ Fail(c) \/ Listed(c)
    \/ TurnVeto \/ Tick

Spec == Init /\ [][Next]_vars

-----------------------------------------------------------------------------
(* Properties *)

\* An upload commits that nothing has overtaken.
QuietUpload(c) ==
    /\ tx[c].stage = "ready" /\ tx'[c] = NoTx /\ Tables' # Tables
    /\ tx[c].req.kind = "upload" /\ tx[c].quiet

\* The rows that stand for row i after an upload: itself, or what it was
\* folded into.
Standing(i) ==
    {w \in Alive(pool', pool[i].plan) :
        w = i \/ (~pool'[i].live /\ Identity[pool[i].url] # NoIdentity
                  /\ Identity[pool'[w].url] = Identity[pool[i].url])}

\* An upload that nothing overtook, and that names no row twice, loses nothing
\* of the user's: a candidate of no vetoed venue stays or is folded into one
\* that carries a decision, the note and the earlier first_seen_at, and stands
\* in its place in every scenario (season.py, _merge_candidate: "Everything the
\* user put on the losing row moves across").
UploadKeepsDecisions ==
    [][\A c \in Clients : \A i \in DOMAIN pool :
        /\ QuietUpload(c) /\ Apart(pool, tx[c].req.plan, tx[c].req.items)
        /\ pool[i].live /\ ~(Vetoed(pool[i]) /\ pool[i].plan = tx[c].req.plan)
        => \E w \in Standing(i) :
              /\ pool[i].status # "undecided" => pool'[w].status # "undecided"
              /\ pool[i].note # Null => pool'[w].note # Null
              /\ pool'[w].first <= pool[i].first
              /\ \A s \in Alive(scens, pool[i].plan) :
                    i \in scens[s].members => w \in scens'[s].members]_vars

\* The items that count: of no vetoed venue, and the last of their key.
Counting(items) ==
    {n \in DOMAIN items : ~Vetoed(items[n]) /\
        \A m \in DOMAIN items : items[m].key = items[n].key /\ ~Vetoed(items[m])
                                    => m <= n}

\* An upload that nothing overtook leaves one row of each event it carries,
\* however many the pool had and whatever key each has (put_pool: "folded back
\* into it").
OneRowPerEvent ==
    [][\A c \in Clients : QuietUpload(c) =>
        \A n \in Counting(tx[c].req.items) :
            \A i, j \in Alive(pool', tx[c].req.plan) :
                LET id == Identity[tx[c].req.items[n].url]
                IN  id # NoIdentity /\ Identity[pool'[i].url] = id
                        /\ Identity[pool'[j].url] = id => i = j]_vars

\* The upload again changes no version and no scenario, and creates and
\* retires nothing.
ChangesNothing(u) ==
    LET again == Upload(Tables, u.plan, u.items, clock)
    IN  /\ again.scens = scens
        /\ Len(again.pool) = Len(pool)
        /\ \A i \in DOMAIN pool :
              again.pool[i] = [pool[i] EXCEPT !.last = again.pool[i].last]

\* After an upload that nothing overtook, and that names no row twice, the same
\* again changes nothing.
RepushIsQuiet == \A u \in settled : u.apart => ChangesNothing(u)

\* docs/api.md: "identical re-push bumps nothing".
IdenticalRepushBumpsNothing == \A u \in settled : ChangesNothing(u)

\* A candidate behind the cursor, which hides it for good, has been in a
\* listing, unless (list_novelties, ack_novelties)
\*   - the reader acknowledged more than it had asked for: a time beyond every
\*     listing that started at the cursor,
\*   - it is older than the season and nothing had been acknowledged when the
\*     novelties were listed: the season's own start is day zero,
\*   - it was committed when a listing or the cursor had passed its time, or
\*   - it has its first_seen_at from such a one that was folded into it, or
\*     from one that two uploads folded at once.
AckedWasSeen ==
    \A i \in DOMAIN pool :
        pool[i].live /\ pool[i].first <= plans[pool[i].plan].ack => i \in Known
=============================================================================
