------------------------------ MODULE Fetcher ------------------------------
(***************************************************************************)
(* The fetcher skills/lib/kp_fetch.py, for one host: scrapers run side by  *)
(* side, share a cache of pages on disk and, under a file lock, the host's *)
(* budget of requests and its cooldown.                                    *)
(*                                                                         *)
(* Times are kept as ages, which a tick of the clock raises, up to the     *)
(* bound from which on they make no difference.  Time passes between the   *)
(* runs of a scraper and while one waits for the gap between two requests, *)
(* not while it works: a run is short against a tick.                      *)
(***************************************************************************)
EXTENDS Naturals, Sequences, FiniteSets, Functions

CONSTANTS Scrapers,
          NoOne,
          Versions,       \* contents of a page; Gone is the page of a 404
          Gone, None,
          Day,                        \* in ticks
          MaxAge,                     \* the longest age limit of a page
          CooldownBase, CooldownMax,
          RunEvery,                   \* a timer starts a run at least so often
          Agendas         \* hosts: the pages of a run, in order, the age limits
                          \* that the runs give each of them, the policy
                          \* (budget a day, gap between requests) and bounds on
                          \* kills, refusals and changes of the site

Urls == UNION {Range(a.urls) : a \in Agendas}

ASSUME FetcherAssumption ==
    /\ {Day, MaxAge, CooldownBase, CooldownMax, RunEvery} \subseteq Nat
    /\ Gone \notin Versions /\ None \notin Versions \cup {Gone, "fine", "refused"}
    /\ NoOne \notin Scrapers
    /\ \A a \in Agendas :
          a \in [urls : Seq(Range(a.urls)) \ {<<>>},
                 limits : [Urls -> (SUBSET (0..MaxAge)) \ {{}}],
                 budget : Nat, gap : Nat, kills : Nat, refusals : Nat, changes : Nat]

VARIABLES meta,      \* pages/*.json: [tag, age] or NoMeta
          body,      \* pages/*.body
          host,      \* hosts/*.json: [requests, strikes, cooldown]
          lock,      \* who holds hosts/*.lock
          proc,      \* each scraper: its place in its run and in a get
          site,      \* what the site has
          agenda,    \* the host, and what is left of the bounds
          shown,     \* history: age of the last time the site had a content
          sent,      \* history: ages of the requests that the host got, each
                     \* with a number, which is free again after a day
          refused,   \* history: refusals in a row that are on file, and their age
          torn,      \* history: pages whose two files may not belong together
          kills      \* history

vars == <<meta, body, host, lock, proc, site, agenda, shown, sent, refused,
          torn, kills>>
history == <<shown, sent, refused, torn, kills>>

Contents == Versions \cup {Gone}
NoMeta == [tag |-> None, age |-> 0]
NoRequests == [n \in {} |-> 0]
NewHost == [requests |-> NoRequests, strikes |-> 0, cooldown |-> 0]

\* pc: next, body, lock, wait, ask, meta, state
Idle == [pc |-> "next", at |-> 1, idle |-> 0, meta |-> NoMeta, body |-> None,
         mixed |-> FALSE, request |-> 0, answer |-> None, served |-> None]

Lower(a, b) == IF a < b THEN a ELSE b
Upper(a, b) == IF a > b THEN a ELSE b
UrlOf(p) == agenda.urls[proc[p].at]

\* The age limit of a run: none of a kind that the run refreshes
\* (KP_FETCH_REFRESH), a few days of a page that is followed
\* (KP_FETCH_FRESH_URLS) or a feed, else MaxAge, less the page's own jitter.
Fresh(m, limit) == m.tag # None /\ m.age < limit

\* Mutant: the status of the page is not looked at.
ServedAnyway(m, b) == b

\* A cached 404 stays an answer: no such page.
Served(m, b) == IF m.tag \in {None, Gone} THEN None ELSE b

\* The get is over: on to the next page, or to the end of the run.
Over(p, served) ==
    [Idle EXCEPT !.served = served,
                 !.at = IF proc[p].at = Len(agenda.urls) THEN 1 ELSE proc[p].at + 1]

-----------------------------------------------------------------------------
(* A get: the cache is read without a lock *)

LoadMeta(p) ==
    /\ proc[p].pc = "next"
    /\ proc[p].at = 1 => proc[p].idle > 0
    /\ LET m == meta[UrlOf(p)] IN
       proc' = [proc EXCEPT ![p].meta = m, ![p].served = None, ![p].idle = 0,
                   ![p].pc = IF m = NoMeta THEN "lock" ELSE "body"]
    /\ UNCHANGED <<meta, body, host, lock, site, agenda, history>>

\* May the body that is read belong to other metadata than was read?
Mixed(p) == UrlOf(p) \in torn \/ meta[UrlOf(p)] # proc[p].meta

LoadBody(p) ==
    /\ proc[p].pc = "body"
    /\ LET m == proc[p].meta
           b == body[UrlOf(p)]
       IN  \E limit \in agenda.limits[UrlOf(p)] :
              proc' = [proc EXCEPT ![p] =
                  IF Fresh(m, limit) THEN Over(p, Served(m, b))
                  ELSE [@ EXCEPT !.pc = "lock", !.body = b, !.mixed = Mixed(p)]]
    /\ UNCHANGED <<meta, body, host, lock, site, agenda, history>>

\* Mutant: one request too many.
WithinBudgetPlusOne(h) == Cardinality(DOMAIN h.requests) <= agenda.budget

WithinBudget(h) == Cardinality(DOMAIN h.requests) < agenda.budget

GapIsOver == \A n \in DOMAIN host.requests : host.requests[n] >= agenda.gap

\* Under the lock: a host that cools down or whose budget is spent is not asked.
Lock(p) ==
    /\ proc[p].pc = "lock" /\ lock = NoOne
    /\ IF host.cooldown > 0 \/ ~WithinBudget(host)
       THEN /\ proc' = [proc EXCEPT ![p] = Over(p, Served(@.meta, @.body))]
            /\ UNCHANGED lock
       ELSE /\ proc' = [proc EXCEPT ![p].pc =
                   IF GapIsOver THEN "ask" ELSE "wait"]
            /\ lock' = p
    /\ UNCHANGED <<meta, body, host, site, agenda, history>>

\* The sleep between two requests is over.
Awake(p) ==
    /\ proc[p].pc = "wait"
    /\ GapIsOver
    /\ proc' = [proc EXCEPT ![p].pc = "ask"]
    /\ UNCHANGED <<meta, body, host, lock, site, agenda, history>>

\* Is the request conditional, and has the page not changed?
NotModified(p) ==
    /\ proc[p].meta.tag \in Versions /\ proc[p].body # None
    /\ site[UrlOf(p)] = proc[p].meta.tag

\* A request more, just made.
Noted(ages, n) ==
    [k \in DOMAIN ages \cup {n} |-> IF k = n THEN 0 ELSE ages[k]]

FreeNumber == CHOOSE n \in 1..Cardinality(DOMAIN sent) + 1 : n \notin DOMAIN sent

\* Mutant: a 304 leaves the page as old as it was.
TouchedOnly(m) == m

\* checked_at is now.
Touched(m) == [m EXCEPT !.age = 0]

\* The host answers: 304 renews the metadata that was loaded, everything else
\* replaces first the body and, in WriteMeta, the metadata.
Answer(p) ==
    /\ proc[p].pc = "ask"
    /\ LET u == UrlOf(p)
           m == proc[p].meta
       IN  IF NotModified(p)
           THEN /\ meta' = [meta EXCEPT ![u] = Touched(m)]
                /\ torn' = IF body[u] # m.tag THEN torn \cup {u} ELSE torn
                /\ proc' = [proc EXCEPT ![p].pc = "state", ![p].answer = "fine",
                               ![p].request = FreeNumber,
                               ![p].served = Served(m, proc[p].body)]
                /\ UNCHANGED body
           ELSE /\ body' = [body EXCEPT ![u] = site[u]]
                /\ torn' = torn \cup {u}
                /\ proc' = [proc EXCEPT ![p].pc = "meta", ![p].answer = site[u],
                               ![p].request = FreeNumber,
                               ![p].served = IF site[u] = Gone THEN None ELSE site[u]]
                /\ UNCHANGED meta
    /\ sent' = Noted(sent, FreeNumber)
    /\ UNCHANGED <<host, lock, site, agenda, shown, refused, kills>>

WriteMeta(p) ==
    /\ proc[p].pc = "meta"
    /\ meta' = [meta EXCEPT ![UrlOf(p)] = [tag |-> proc[p].answer, age |-> 0]]
    /\ torn' = torn \ {UrlOf(p)}
    /\ proc' = [proc EXCEPT ![p].pc = "state", ![p].answer = "fine"]
    /\ UNCHANGED <<body, host, lock, site, agenda, shown, sent, refused, kills>>

\* The host refuses: 403, 429, 5xx, or no answer at all.
Refuse(p) ==
    /\ proc[p].pc = "ask" /\ agenda.refusals > 0
    /\ agenda' = [agenda EXCEPT !.refusals = @ - 1]
    /\ proc' = [proc EXCEPT ![p].pc = "state", ![p].answer = "refused",
                            ![p].request = FreeNumber,
                            ![p].served = Served(proc[p].meta, proc[p].body)]
    /\ sent' = Noted(sent, FreeNumber)
    /\ UNCHANGED <<meta, body, host, lock, site, shown, refused, torn, kills>>

\* curl fails on this side, or the sandbox's proxy says no: the host is not
\* asked and not charged.
FailLocally(p) ==
    /\ proc[p].pc = "ask" /\ agenda.refusals > 0
    /\ agenda' = [agenda EXCEPT !.refusals = @ - 1]
    /\ proc' = [proc EXCEPT ![p] = Over(p, Served(@.meta, @.body))]
    /\ lock' = NoOne
    /\ UNCHANGED <<meta, body, host, site, history>>

\* min(COOLDOWN_BASE * 2 ** (strikes - 1), COOLDOWN_MAX)
Doubled(strikes) ==
    LET span == CooldownBase * 2^(strikes - 1)
    IN  IF span \in 0..CooldownMax THEN span ELSE CooldownMax

\* Mutant: every refusal costs the same.
CooledDownOnce(h, retryAfter) ==
    [h EXCEPT !.strikes = @ + 1,
              !.cooldown = Upper(CooldownBase, Lower(retryAfter, CooldownMax))]

\* The span doubles with every refusal in a row; Retry-After may be longer.
CooledDown(h, retryAfter) ==
    [h EXCEPT !.strikes = @ + 1,
              !.cooldown = Upper(Doubled(h.strikes + 1),
                                 Lower(retryAfter, CooldownMax))]

\* The state of the host is written back and the lock released.
Release(p) ==
    /\ proc[p].pc = "state"
    /\ \E retryAfter \in {0, CooldownMax} :
          LET charged == [host EXCEPT !.requests = Noted(@, proc[p].request)] IN
          IF proc[p].answer = "refused"
          THEN /\ host' = CooledDown(charged, retryAfter)
               /\ refused' = [row |-> refused.row + 1, age |-> 0]
          ELSE /\ host' = [charged EXCEPT !.strikes = 0]
               /\ refused' = [row |-> 0, age |-> 0]
    /\ lock' = NoOne
    /\ proc' = [proc EXCEPT ![p] = Over(p, @.served)]
    /\ UNCHANGED <<meta, body, site, agenda, shown, sent, torn, kills>>

-----------------------------------------------------------------------------
(* The world *)

\* A run is killed; the lock goes with it, and what it did not write.
Kill(p) ==
    /\ agenda.kills > 0 /\ proc[p].pc # "next"
    /\ agenda' = [agenda EXCEPT !.kills = @ - 1]
    /\ kills' = kills + 1
    /\ proc' = [proc EXCEPT ![p] = Idle]
    /\ lock' = IF lock = p THEN NoOne ELSE lock
    /\ UNCHANGED <<meta, body, host, site, shown, sent, refused, torn>>

SiteChanges ==
    /\ agenda.changes > 0
    /\ agenda' = [agenda EXCEPT !.changes = @ - 1]
    /\ \E u \in Range(agenda.urls), v \in Contents :
          /\ site[u] # v
          /\ site' = [site EXCEPT ![u] = v]
          /\ shown' = [shown EXCEPT ![u][v] = 0]
    /\ UNCHANGED <<meta, body, host, lock, proc, sent, refused, torn, kills>>

Older(age) == Lower(age + 1, MaxAge)

\* What is a day old is neither counted nor kept.
Aged(ages) == [n \in {k \in DOMAIN ages : ages[k] + 1 < Day} |-> ages[n] + 1]

\* A clock tick: between runs, and while a scraper waits for the gap.
Tick ==
    /\ \A p \in Scrapers : \/ proc[p].pc = "next" /\ proc[p].at = 1
                           \/ proc[p].pc = "wait" /\ ~GapIsOver
                           \/ proc[p].pc = "lock" /\ lock # NoOne
    /\ \A p \in Scrapers : proc[p].idle < RunEvery
    /\ meta' = [u \in Urls |-> IF meta[u] = NoMeta THEN NoMeta
                               ELSE [meta[u] EXCEPT !.age = Older(@)]]
    /\ host' = [host EXCEPT !.requests = Aged(@),
                            !.cooldown = IF @ = 0 THEN 0 ELSE @ - 1]
    /\ proc' = [p \in Scrapers |->
          [proc[p] EXCEPT !.idle = IF proc[p].pc = "next" THEN @ + 1 ELSE @,
                          !.meta.age = IF proc[p].meta = NoMeta THEN @ ELSE Older(@),
                          !.served = None]]
    /\ shown' = [u \in Urls |-> [v \in Contents |->
          IF v = site[u] THEN 0 ELSE Lower(shown[u][v] + 1, MaxAge + 1)]]
    /\ sent' = Aged(sent)
    /\ refused' = [refused EXCEPT !.age = IF refused.row = 0 THEN 0 ELSE Lower(@ + 1, CooldownMax)]
    /\ UNCHANGED <<body, lock, site, agenda, torn, kills>>

Init ==
    /\ meta = [u \in Urls |-> NoMeta] /\ body = [u \in Urls |-> None]
    /\ host = NewHost /\ lock = NoOne
    /\ proc = [p \in Scrapers |-> [Idle EXCEPT !.idle = 1]]
    /\ agenda \in Agendas
    /\ \E v \in Versions : site = [u \in Urls |-> v]
    /\ shown = [u \in Urls |-> [v \in Contents |->
                    IF v = site[u] THEN 0 ELSE MaxAge + 1]]
    /\ sent = NoRequests /\ refused = [row |-> 0, age |-> 0] /\ torn = {} /\ kills = 0

Work(p) ==
    \/ LoadMeta(p) \/ LoadBody(p) \/ Lock(p) \/ Awake(p) \/ Answer(p)
    \/ WriteMeta(p) \/ Release(p)

Next ==
    \/ \E p \in Scrapers : Work(p) \/ Refuse(p) \/ FailLocally(p) \/ Kill(p)
    \/ SiteChanges \/ Tick

\* Runs come again and again, a scraper that runs goes on, and time passes.
Fairness == WF_vars(Tick) /\ \A p \in Scrapers : WF_vars(Work(p))

Spec == Init /\ [][Next]_vars /\ Fairness

-----------------------------------------------------------------------------
(* Properties *)

\* The host gets no more requests in a day than its budget, whoever asks,
\* except for what a killed run did not put on file ("at most N requests in
\* any 24 hours, across every process and run").
BudgetKept == Cardinality(DOMAIN sent) <= agenda.budget + kills

\* Between a refusal that is on file and the next request lies a cooldown that
\* doubles with every refusal in a row, up to the longest ("Nothing is sent to
\* it meanwhile; the cache answers").
CooldownKept ==
    [][~(DOMAIN sent' \subseteq DOMAIN sent) /\ refused.row > 0 =>
        refused.age >= Doubled(refused.row)]_vars

\* A get is answered with a page, never with what came with a 404, and a page
\* that counts as fresh was on the site less than one of its age limits ago,
\* however many scrapers store and revalidate it at a time, unless a run was
\* killed, or has read, between the writes of body and metadata, or revalidated
\* metadata that another run had replaced.
Confirmed(p) ==
    LET u == UrlOf(p)
        v == proc'[p].served
    IN  /\ v # Gone
        /\ v # None /\ proc[p].pc = "body"
              => \E limit \in agenda.limits[u] : shown[u][v] < limit
        /\ v # None /\ proc[p].pc = "ask" /\ proc'[p].answer = "fine"
              => shown[u][v] = 0

ServedIsConfirmed ==
    [][\A p \in Scrapers :
        proc[p].pc \in {"body", "lock", "ask", "meta"} /\ ~proc[p].mixed
        /\ ~(proc[p].pc = "body" /\ Mixed(p))
        => Confirmed(p)]_vars

\* The pages that may be due again before the budget has been round the others,
\* and a page within one of its limits, or just checked.
Hurried == {u \in Range(agenda.urls) : agenda.limits[u] # {MaxAge}}
Checked(u) ==
    \E limit \in agenda.limits[u] : meta[u].tag # None /\ meta[u].age < Upper(limit, 1)

\* Each of them is asked for by every scraper in every run at most, and a scraper
\* begins at most one run in a tick.
LeaveRoom ==
    Hurried = {} \/ Cardinality(Hurried) * Cardinality(Scrapers) * Day < agenda.budget

\* Every page of a run is checked again and again, even if the budget is smaller
\* than the run, as long as the host goes back to answering and the pages that
\* are due more often leave room in the budget.
EveryPageChecked ==
    \A u \in Urls : []<>(LeaveRoom /\ u \in Range(agenda.urls) => Checked(u))
=============================================================================
