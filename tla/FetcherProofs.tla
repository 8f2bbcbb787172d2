--------------------------- MODULE FetcherProofs ---------------------------
(***************************************************************************)
(* What holds of the fetcher for any number of scrapers, pages, requests   *)
(* and kills, and for every budget, gap and cooldown.                      *)
(***************************************************************************)
EXTENDS Fetcher, FiniteSetTheorems, TLAPS

Meta == [tag : Contents \cup {None}, age : Nat]

Holding == {"wait", "ask", "meta", "state"}

Proc == [pc : {"next", "body", "lock"} \cup Holding, at : Nat, idle : Nat,
         meta : Meta, body : Contents \cup {None}, mixed : BOOLEAN,
         request : Nat, answer : Contents \cup {None, "fine", "refused"},
         served : Contents \cup {None}]

\* The ages of some requests, by their numbers.
Ages == UNION {[D -> Nat] : D \in SUBSET Nat}

Agenda == [urls : Seq(Urls) \ {<<>>}, limits : [Urls -> SUBSET (0..MaxAge)],
           budget : Nat, gap : Nat, kills : Nat, refusals : Nat, changes : Nat]

\* The types, and who has the lock.
Typed ==
    /\ meta \in [Urls -> Meta] /\ body \in [Urls -> Contents \cup {None}]
    /\ site \in [Urls -> Contents] /\ shown \in [Urls -> [Contents -> Nat]]
    /\ agenda \in Agenda
    /\ proc \in [Scrapers -> Proc]
    /\ host \in [requests : Ages, strikes : Nat, cooldown : Nat]
    /\ sent \in Ages /\ IsFiniteSet(DOMAIN sent)
    /\ refused \in [row : Nat, age : Nat] /\ kills \in Nat
    /\ \A p \in Scrapers : /\ proc[p].at \in DOMAIN agenda.urls
                           /\ proc[p].pc \in Holding <=> lock = p

\* Requests that are made and not on file yet, and those that never will be.
Flying == {proc[p].request : p \in {q \in Scrapers : proc[q].pc \in {"meta", "state"}}}
Lost == DOMAIN sent \ (DOMAIN host.requests \cup Flying)

\* What is on file was sent; who has the lock may ask; a kill loses one request.
Counted ==
    /\ \A n \in DOMAIN host.requests : n \in DOMAIN sent /\ host.requests[n] = sent[n]
    /\ \A n \in Flying : n \in DOMAIN sent \ DOMAIN host.requests /\ sent[n] = 0
    /\ Cardinality(Lost) <= kills
    /\ Cardinality(DOMAIN host.requests) <= agenda.budget
    /\ \A p \in Scrapers : lock = p => Cardinality(DOMAIN host.requests) < agenda.budget

\* What is left of a cooldown and what has passed of it are all of it.
Cooling ==
    /\ host.strikes = refused.row
    /\ refused.row > 0 => \/ refused.age >= Doubled(refused.row)
                          \/ refused.age + host.cooldown >= Doubled(refused.row)
    /\ \A p \in Scrapers : lock = p => host.cooldown = 0

\* A page with this metadata is what the site had not longer ago than it says.
Recent(u, m) == m.tag # None /\ m.age < MaxAge => shown[u][m.tag] <= m.age

Cached ==
    \A u \in Urls : /\ shown[u][site[u]] = 0 /\ Recent(u, meta[u])
                    /\ u \notin torn => body[u] = meta[u].tag

\* A scraper on its way through a get.
Reading(p) ==
    LET r == proc[p]
        u == UrlOf(p)
    IN  /\ r.pc \in {"next", "body"} => r.body = None /\ ~r.mixed
        /\ r.pc \in {"body", "lock", "wait", "ask"} => r.served = None /\ Recent(u, r.meta)
        /\ r.pc \in {"lock", "wait", "ask"} /\ ~r.mixed => r.body = r.meta.tag
        /\ r.pc = "meta" => /\ r.answer \in Contents /\ shown[u][r.answer] = 0
                            /\ body[u] = r.answer
                            /\ r.served = IF r.answer = Gone THEN None ELSE r.answer

FetchInv == Typed /\ Counted /\ Cooling /\ Cached /\ \A p \in Scrapers : Reading(p)

-----------------------------------------------------------------------------
(* The operators of the model *)

LEMMA NatFacts ==
  /\ Day \in Nat /\ MaxAge \in Nat /\ CooldownBase \in Nat /\ CooldownMax \in Nat
  /\ RunEvery \in Nat /\ NoOne \notin Scrapers
  /\ None \notin Contents /\ Gone \in Contents /\ Gone # None /\ None # "fine"
  BY FetcherAssumption DEF Contents

\* The page that a scraper is at is a page.
LEMMA PageIs == ASSUME Typed, NEW p \in Scrapers PROVE UrlOf(p) \in Urls
<1>1. agenda.urls \in Seq(Urls) /\ proc[p].at \in DOMAIN agenda.urls
  BY DEF Typed, Agenda
<1> QED BY <1>1 DEF UrlOf

LEMMA AgesAre ==
  ASSUME NEW ages \in Ages
  PROVE  DOMAIN ages \in SUBSET Nat /\ \A n \in DOMAIN ages : ages[n] \in Nat
  BY DEF Ages

\* A request more.
LEMMA NotedIs ==
  ASSUME NEW ages \in Ages, NEW n \in Nat
  PROVE  /\ Noted(ages, n) \in Ages
         /\ DOMAIN Noted(ages, n) = DOMAIN ages \cup {n}
         /\ Noted(ages, n)[n] = 0
         /\ \A k \in DOMAIN ages : k # n => Noted(ages, n)[k] = ages[k]
<1> DEFINE D == DOMAIN ages \cup {n}
<1>1. D \in SUBSET Nat /\ \A k \in DOMAIN ages : ages[k] \in Nat
  BY AgesAre
<1>2. Noted(ages, n) = [k \in D |-> IF k = n THEN 0 ELSE ages[k]]
  BY DEF Noted
<1>3. Noted(ages, n) \in [D -> Nat]
  BY <1>1, <1>2
<1>4. Noted(ages, n) \in Ages
  BY <1>1, <1>3 DEF Ages
<1> QED BY <1>2, <1>4

\* A tick forgets the requests that are a day old, and no others.
LEMMA AgedIs ==
  ASSUME NEW ages \in Ages
  PROVE  /\ Aged(ages) \in Ages
         /\ DOMAIN Aged(ages) = {k \in DOMAIN ages : ages[k] + 1 < Day}
         /\ \A k \in DOMAIN Aged(ages) : Aged(ages)[k] = ages[k] + 1
<1> DEFINE D == {k \in DOMAIN ages : ages[k] + 1 < Day}
<1>1. D \in SUBSET Nat /\ \A k \in DOMAIN ages : ages[k] \in Nat
  BY AgesAre
<1>2. Aged(ages) = [k \in D |-> ages[k] + 1]
  BY DEF Aged
<1>3. Aged(ages) \in [D -> Nat]
  BY <1>1, <1>2
<1>4. Aged(ages) \in Ages
  BY <1>1, <1>3 DEF Ages
<1> QED BY <1>2, <1>4

\* There is a number for the next request.
LEMMA FreeNumberIs ==
  ASSUME sent \in Ages, IsFiniteSet(DOMAIN sent)
  PROVE  FreeNumber \in Nat /\ FreeNumber \notin DOMAIN sent
<1> DEFINE k == Cardinality(DOMAIN sent)
<1>1. k \in Nat
  BY FS_CardinalityType
<1>2. \E n \in 1..k + 1 : n \notin DOMAIN sent
  <2>1. SUFFICES ASSUME 1..k + 1 \subseteq DOMAIN sent PROVE FALSE
    OBVIOUS
  <2>2. Cardinality(1..k + 1) <= k
    BY <2>1, FS_Subset
  <2>3. Cardinality(1..k + 1) = k + 1
    BY <1>1, FS_Interval
  <2> QED BY <1>1, <2>2, <2>3
<1>3. FreeNumber \in 1..k + 1 /\ FreeNumber \notin DOMAIN sent
  BY <1>2 DEF FreeNumber
<1> QED BY <1>1, <1>3

\* The span of a cooldown is at most the longest.
LEMMA SpanIs ==
  ASSUME NEW n \in Nat
  PROVE  Doubled(n) \in Nat /\ Doubled(n) <= CooldownMax
<1>1. Doubled(n) \in 0..CooldownMax
  <2> DEFINE span == CooldownBase * 2^(n - 1)
  <2>1. Doubled(n) = IF span \in 0..CooldownMax THEN span ELSE CooldownMax
    BY DEF Doubled
  <2> HIDE DEF span
  <2> QED BY <2>1, NatFacts
<1> QED BY <1>1, NatFacts

LEMMA OlderIs ==
  ASSUME NEW a \in Nat
  PROVE  /\ Older(a) \in Nat
         /\ Older(a) < MaxAge => Older(a) = a + 1
  BY NatFacts DEF Older, Lower

LEMMA ServedIs ==
  ASSUME NEW m \in Meta, NEW b \in Contents \cup {None}
  PROVE  /\ Served(m, b) \in Contents \cup {None}
         /\ b = m.tag => Served(m, b) # Gone
         /\ Served(m, b) # None => Served(m, b) = b
  BY NatFacts DEF Served

\* The end of a get.
LEMMA OverIs ==
  ASSUME Typed, NEW p \in Scrapers, NEW v \in Contents \cup {None}
  PROVE  /\ Over(p, v) \in Proc /\ Over(p, v).at \in DOMAIN agenda.urls
         /\ Over(p, v).pc = "next" /\ Over(p, v).served = v
         /\ Over(p, v).body = None /\ Over(p, v).mixed = FALSE
<1>1. /\ proc[p].at \in DOMAIN agenda.urls /\ agenda.urls \in Seq(Urls)
      /\ Len(agenda.urls) \in Nat /\ Len(agenda.urls) # 0
  BY DEF Typed, Agenda
<1>2. PICK n \in Nat : /\ n \in DOMAIN agenda.urls
                       /\ n = IF proc[p].at = Len(agenda.urls) THEN 1 ELSE proc[p].at + 1
  BY <1>1
<1>3. Over(p, v) = [Idle EXCEPT !.served = v, !.at = n]
  BY <1>2 DEF Over
<1>4. Idle \in Proc /\ Idle.pc = "next" /\ Idle.body = None /\ Idle.mixed = FALSE
  BY DEF Idle, NoMeta, Proc, Meta
<1>5. Over(p, v) \in Proc
  BY <1>2, <1>3, <1>4 DEF Proc
<1>6. /\ Over(p, v).at = n /\ Over(p, v).served = v
      /\ Over(p, v).pc = Idle.pc /\ Over(p, v).body = Idle.body
      /\ Over(p, v).mixed = Idle.mixed
  BY <1>3, <1>4 DEF Proc
<1> QED BY <1>2, <1>4, <1>5, <1>6

-----------------------------------------------------------------------------
(* The types *)

\* A step of one scraper.
LEMMA SetProc ==
  ASSUME Typed, NEW p \in Scrapers, NEW r \in Proc, r.at \in DOMAIN agenda.urls,
         proc' = [proc EXCEPT ![p] = r], agenda'.urls = agenda.urls,
         r.pc \in Holding <=> lock' = p,
         \A q \in Scrapers \ {p} : lock' = q <=> lock = q
  PROVE  /\ proc' \in [Scrapers -> Proc] /\ proc'[p] = r
         /\ \A q \in Scrapers \ {p} : proc'[q] = proc[q] /\ UrlOf(q)' = UrlOf(q)
         /\ \A q \in Scrapers : /\ proc'[q].at \in DOMAIN agenda'.urls
                                /\ proc'[q].pc \in Holding <=> lock' = q
<1>1. proc' \in [Scrapers -> Proc]
  BY DEF Typed
<1>2. proc'[p] = r /\ \A q \in Scrapers \ {p} : proc'[q] = proc[q]
  BY DEF Typed
<1>3. \A q \in Scrapers : /\ proc[q].at \in DOMAIN agenda.urls
                          /\ proc[q].pc \in Holding <=> lock = q
  BY DEF Typed
<1> QED BY <1>1, <1>2, <1>3 DEF UrlOf

\* The other scrapers, when one makes a step.
Others(p) ==
    \A q \in Scrapers \ {p} : proc'[q] = proc[q] /\ UrlOf(q)' = UrlOf(q)

LEMMA LoadMetaIs ==
  ASSUME Typed, NEW p \in Scrapers, LoadMeta(p)
  PROVE  /\ Typed' /\ Others(p)
         /\ proc'[p] = [proc[p] EXCEPT !.meta = meta[UrlOf(p)], !.served = None, !.idle = 0,
                           !.pc = IF meta[UrlOf(p)] = NoMeta THEN "lock" ELSE "body"]
<1>1. PICK m \in Meta : m = meta[UrlOf(p)]
  BY PageIs DEF Typed
<1>2. PICK r \in Proc :
        /\ r = [proc[p] EXCEPT !.meta = m, !.served = None, !.idle = 0,
                               !.pc = IF m = NoMeta THEN "lock" ELSE "body"]
        /\ r.pc \in {"lock", "body"} /\ r.at = proc[p].at
  <2> DEFINE r == [proc[p] EXCEPT !.meta = m, !.served = None, !.idle = 0,
                               !.pc = IF m = NoMeta THEN "lock" ELSE "body"]
  <2>1. proc[p] \in Proc
    BY DEF Typed
  <2>2. r \in Proc /\ r.pc \in {"lock", "body"} /\ r.at = proc[p].at
    BY <2>1 DEF Proc
  <2> QED BY <2>2
<1>3. /\ proc[p].pc = "next" /\ proc' = [proc EXCEPT ![p] = r]
      /\ UNCHANGED <<meta, body, host, lock, site, agenda, history>>
  BY <1>1, <1>2 DEF LoadMeta
<1>4. r.at \in DOMAIN agenda.urls /\ (r.pc \in Holding <=> lock' = p)
  BY <1>2, <1>3 DEF Typed, Holding
<1> QED BY <1>1, <1>2, <1>3, <1>4, SetProc DEF Typed, Others, history

\* A page is looked at under an age limit.
Looked(p, limit) ==
    IF Fresh(proc[p].meta, limit) THEN Over(p, Served(proc[p].meta, body[UrlOf(p)]))
    ELSE [proc[p] EXCEPT !.pc = "lock", !.body = body[UrlOf(p)], !.mixed = Mixed(p)]

LEMMA LoadBodyIs ==
  ASSUME Typed, NEW p \in Scrapers, LoadBody(p)
  PROVE  /\ Typed' /\ Others(p)
         /\ proc[p].pc = "body"
         /\ \E limit \in agenda.limits[UrlOf(p)] :
               limit \in 0..MaxAge /\ proc'[p] = Looked(p, limit)
<1>0. PICK limit \in agenda.limits[UrlOf(p)] : proc' = [proc EXCEPT ![p] = Looked(p, limit)]
  BY DEF LoadBody, Looked
<1> DEFINE m == proc[p].meta
           b == body[UrlOf(p)]
           r == IF Fresh(m, limit) THEN Over(p, Served(m, b))
                ELSE [proc[p] EXCEPT !.pc = "lock", !.body = b, !.mixed = Mixed(p)]
<1>1. proc[p] \in Proc /\ m \in Meta /\ b \in Contents \cup {None}
  BY PageIs DEF Typed, Proc
<1>2. r \in Proc /\ r.at \in DOMAIN agenda.urls /\ r.pc \in {"next", "lock"}
  <2>1. CASE Fresh(m, limit)
    BY <1>1, <2>1, ServedIs, OverIs
  <2>2. CASE ~Fresh(m, limit)
    <3>1. Mixed(p) \in BOOLEAN
      BY DEF Mixed
    <3>2. proc[p].at \in DOMAIN agenda.urls
      BY DEF Typed
    <3> HIDE DEF b, m
    <3> QED BY <1>1, <2>2, <3>1, <3>2 DEF Proc
  <2> QED BY <2>1, <2>2
<1>3. /\ proc[p].pc = "body" /\ proc' = [proc EXCEPT ![p] = r]
      /\ UNCHANGED <<meta, body, host, lock, site, agenda, history>>
  <2>1. r = Looked(p, limit)
    BY DEF Looked
  <2> QED BY <1>0, <2>1 DEF LoadBody
<1> HIDE DEF r
<1>4. r.pc \in Holding <=> lock' = p
  BY <1>2, <1>3 DEF Typed, Holding
<1>5. /\ proc' \in [Scrapers -> Proc] /\ proc'[p] = r /\ Others(p)
      /\ \A q \in Scrapers : /\ proc'[q].at \in DOMAIN agenda'.urls
                             /\ proc'[q].pc \in Holding <=> lock' = q
  BY <1>2, <1>3, <1>4, SetProc DEF Others
<1>6. Typed'
  BY <1>3, <1>5 DEF Typed, history
<1>7. r = Looked(p, limit)
  BY DEF r, Looked
<1>8. limit \in 0..MaxAge
  BY PageIs DEF Typed, Agenda
<1> QED BY <1>3, <1>5, <1>6, <1>7, <1>8

LEMMA LockIs ==
  ASSUME Typed, NEW p \in Scrapers, Lock(p)
  PROVE  /\ Typed' /\ Others(p) /\ proc[p].pc = "lock" /\ lock = NoOne
         /\ proc'[p].pc \in {"next", "ask", "wait"}
         /\ UNCHANGED <<meta, body, host, site, agenda, history>>
         /\ \/ /\ proc'[p] = Over(p, Served(proc[p].meta, proc[p].body))
               /\ lock' = NoOne
            \/ /\ lock' = p /\ host.cooldown = 0 /\ WithinBudget(host)
               /\ \E pc \in {"ask", "wait"} : proc'[p] = [proc[p] EXCEPT !.pc = pc]
<1> DEFINE busy == host.cooldown > 0 \/ ~WithinBudget(host)
<1>1. /\ proc[p] \in Proc /\ proc[p].meta \in Meta /\ proc[p].body \in Contents \cup {None}
      /\ proc[p].at \in DOMAIN agenda.urls
  BY DEF Typed, Proc
<1>2. /\ proc[p].pc = "lock" /\ lock = NoOne
      /\ UNCHANGED <<meta, body, host, site, agenda, history>>
  BY DEF Lock
<1>3. PICK r \in Proc :
        /\ proc' = [proc EXCEPT ![p] = r] /\ r.at \in DOMAIN agenda.urls
        /\ \/ /\ r = Over(p, Served(proc[p].meta, proc[p].body)) /\ lock' = NoOne
              /\ r.pc = "next"
           \/ /\ lock' = p /\ ~busy /\ r.pc \in {"ask", "wait"}
              /\ \E pc \in {"ask", "wait"} : r = [proc[p] EXCEPT !.pc = pc]
  <2>1. CASE busy
    <3> DEFINE r == Over(p, Served(proc[p].meta, proc[p].body))
    <3>1. /\ proc' = [proc EXCEPT ![p] = Over(p, Served(@.meta, @.body))]
          /\ lock' = NoOne
      BY <1>2, <2>1 DEF Lock
    <3>2. proc' = [proc EXCEPT ![p] = r]
      BY <3>1
    <3>3. r \in Proc /\ r.at \in DOMAIN agenda.urls /\ r.pc = "next"
      BY <1>1, ServedIs, OverIs
    <3> HIDE DEF r
    <3>4. r = Over(p, Served(proc[p].meta, proc[p].body))
      BY DEF r
    <3> QED BY <3>1, <3>2, <3>3, <3>4
  <2>2. CASE ~busy
    <3>1. PICK pc \in {"ask", "wait"} : proc' = [proc EXCEPT ![p].pc = pc] /\ lock' = p
      BY <2>2 DEF Lock
    <3> DEFINE r == [proc[p] EXCEPT !.pc = pc]
    <3>2. r \in Proc /\ r.pc = pc /\ r.at = proc[p].at
      BY <1>1 DEF Proc, Holding
    <3>3. proc' = [proc EXCEPT ![p] = r]
      BY <3>1
    <3>4. \E x \in {"ask", "wait"} : r = [proc[p] EXCEPT !.pc = x]
      OBVIOUS
    <3> HIDE DEF r
    <3> QED BY <1>1, <2>2, <3>1, <3>2, <3>3, <3>4
  <2> QED BY <2>1, <2>2
<1>4. (r.pc \in Holding <=> lock' = p) /\ \A q \in Scrapers \ {p} : lock' = q <=> lock = q
  BY <1>2, <1>3, NatFacts DEF Holding
<1>5. /\ proc' \in [Scrapers -> Proc] /\ proc'[p] = r /\ Others(p)
      /\ \A q \in Scrapers : /\ proc'[q].at \in DOMAIN agenda'.urls
                             /\ proc'[q].pc \in Holding <=> lock' = q
  BY <1>2, <1>3, <1>4, SetProc DEF Others
<1>6. Typed'
  BY <1>2, <1>5 DEF Typed, history
<1>7. ~busy => host.cooldown = 0 /\ WithinBudget(host)
  BY DEF Typed
<1> QED BY <1>2, <1>3, <1>5, <1>6, <1>7

LEMMA AwakeIs ==
  ASSUME Typed, NEW p \in Scrapers, Awake(p)
  PROVE  /\ Typed' /\ Others(p) /\ proc[p].pc = "wait" /\ UNCHANGED lock
         /\ proc'[p].pc = "ask"
         /\ proc'[p] = [proc[p] EXCEPT !.pc = "ask"]
<1> DEFINE r == [proc[p] EXCEPT !.pc = "ask"]
<1>1. /\ proc[p].pc = "wait" /\ proc' = [proc EXCEPT ![p] = r]
      /\ UNCHANGED <<meta, body, host, lock, site, agenda, history>>
  BY DEF Awake
<1>2. r \in Proc /\ r.pc = "ask" /\ r.at = proc[p].at
  <2>1. proc[p] \in Proc
    BY DEF Typed
  <2> QED BY <2>1 DEF Proc, Holding
<1>3. r.at \in DOMAIN agenda.urls /\ (r.pc \in Holding <=> lock' = p)
  BY <1>1, <1>2 DEF Typed, Holding
<1> HIDE DEF r
<1>4. /\ proc' \in [Scrapers -> Proc] /\ proc'[p] = r /\ Others(p)
      /\ \A q \in Scrapers : /\ proc'[q].at \in DOMAIN agenda'.urls
                             /\ proc'[q].pc \in Holding <=> lock' = q
  BY <1>1, <1>2, <1>3, SetProc DEF Others
<1>5. Typed'
  BY <1>1, <1>4 DEF Typed, history
<1> QED BY <1>1, <1>2, <1>4, <1>5 DEF r

\* The metadata or the body of one page is written, and the request is noted.
LEMMA AnswerIs ==
  ASSUME Typed, NEW p \in Scrapers, Answer(p)
  PROVE  LET u == UrlOf(p)
             m == proc[p].meta
         IN  /\ Typed' /\ Others(p) /\ proc[p].pc = "ask" /\ lock = p
             /\ proc'[p].pc \in {"meta", "state"} /\ proc'[p].request = FreeNumber
             /\ \/ /\ NotModified(p)
                   /\ meta' = [meta EXCEPT ![u] = [m EXCEPT !.age = 0]]
                   /\ torn' = IF body[u] # m.tag THEN torn \cup {u} ELSE torn
                   /\ proc'[p] = [proc[p] EXCEPT !.pc = "state", !.answer = "fine",
                                     !.request = FreeNumber,
                                     !.served = Served(m, proc[p].body)]
                   /\ UNCHANGED body
                \/ /\ body' = [body EXCEPT ![u] = site[u]]
                   /\ torn' = torn \cup {u}
                   /\ proc'[p] = [proc[p] EXCEPT !.pc = "meta", !.answer = site[u],
                                     !.request = FreeNumber,
                                     !.served = IF site[u] = Gone THEN None ELSE site[u]]
                   /\ UNCHANGED meta
             /\ sent' = Noted(sent, FreeNumber)
             /\ UNCHANGED <<host, lock, site, agenda, shown, refused, kills>>
<1> DEFINE u == UrlOf(p)
           m == proc[p].meta
<1>1. /\ proc[p].pc = "ask" /\ sent' = Noted(sent, FreeNumber)
      /\ UNCHANGED <<host, lock, site, agenda, shown, refused, kills>>
  BY DEF Answer
<1>2. /\ proc[p] \in Proc /\ m \in Meta /\ proc[p].body \in Contents \cup {None}
      /\ proc[p].at \in DOMAIN agenda.urls /\ u \in Urls /\ site[u] \in Contents /\ lock = p
  BY <1>1, PageIs DEF Typed, Proc, Holding
<1>3. FreeNumber \in Nat
  BY FreeNumberIs DEF Typed
<1>4. sent' \in Ages /\ IsFiniteSet(DOMAIN sent)'
  <2>1. sent' \in Ages /\ DOMAIN sent' = DOMAIN sent \cup {FreeNumber}
    BY <1>1, <1>3, NotedIs DEF Typed
  <2>2. IsFiniteSet(DOMAIN sent \cup {FreeNumber})
    BY FS_AddElement DEF Typed
  <2> QED BY <2>1, <2>2
<1>5. CASE NotModified(p)
  <2> DEFINE r == [proc[p] EXCEPT !.pc = "state", !.answer = "fine",
                       !.request = FreeNumber, !.served = Served(m, proc[p].body)]
  <2>1. /\ meta' = [meta EXCEPT ![u] = [m EXCEPT !.age = 0]]
        /\ torn' = IF body[u] # m.tag THEN torn \cup {u} ELSE torn
        /\ UNCHANGED body
    BY <1>5 DEF Answer, Touched
  <2>2. proc' = [proc EXCEPT ![p].pc = "state", ![p].answer = "fine",
                               ![p].request = FreeNumber,
                               ![p].served = Served(m, proc[p].body)]
    BY <1>5 DEF Answer
  <2>3. PICK s \in Contents \cup {None}, n \in Nat : s = Served(m, proc[p].body) /\ n = FreeNumber
    BY <1>2, <1>3, ServedIs
  <2>4. r = [proc[p] EXCEPT !.pc = "state", !.answer = "fine", !.request = n, !.served = s]
    BY <2>3
  <2>5. r \in Proc /\ r.pc = "state" /\ r.at = proc[p].at /\ r.request = FreeNumber
    <3> HIDE DEF r
    <3> QED BY <1>2, <2>3, <2>4 DEF Proc, Holding
  <2>6. proc' = [proc EXCEPT ![p] = r]
    BY <2>2
  <2>7. meta' \in [Urls -> Meta]
    <3>1. [m EXCEPT !.age = 0] \in Meta
      BY <1>2 DEF Meta
    <3> QED BY <1>2, <2>1, <3>1 DEF Typed
  <2> HIDE DEF r
  <2>8. /\ proc' \in [Scrapers -> Proc] /\ proc'[p] = r /\ Others(p)
        /\ \A q \in Scrapers : /\ proc'[q].at \in DOMAIN agenda'.urls
                               /\ proc'[q].pc \in Holding <=> lock' = q
    BY <1>1, <1>2, <2>5, <2>6, SetProc DEF Others, Holding
  <2>9. Typed'
    BY <1>1, <1>4, <2>1, <2>7, <2>8 DEF Typed
  <2> QED BY <1>1, <1>2, <1>5, <2>1, <2>5, <2>8, <2>9 DEF r
<1>6. CASE ~NotModified(p)
  <2> DEFINE r == [proc[p] EXCEPT !.pc = "meta", !.answer = site[u],
                       !.request = FreeNumber,
                       !.served = IF site[u] = Gone THEN None ELSE site[u]]
  <2>1. /\ body' = [body EXCEPT ![u] = site[u]] /\ torn' = torn \cup {u} /\ UNCHANGED meta
    BY <1>6 DEF Answer
  <2>2. proc' = [proc EXCEPT ![p].pc = "meta", ![p].answer = site[u],
                               ![p].request = FreeNumber,
                               ![p].served = IF site[u] = Gone THEN None ELSE site[u]]
    BY <1>6 DEF Answer
  <2>3. PICK s \in Contents \cup {None}, n \in Nat, c \in Contents :
          s = (IF site[u] = Gone THEN None ELSE site[u]) /\ n = FreeNumber /\ c = site[u]
    BY <1>2, <1>3
  <2>4. r = [proc[p] EXCEPT !.pc = "meta", !.answer = c, !.request = n, !.served = s]
    BY <2>3
  <2>5. r \in Proc /\ r.pc = "meta" /\ r.at = proc[p].at /\ r.request = FreeNumber
    <3> HIDE DEF r
    <3> QED BY <1>2, <2>3, <2>4 DEF Proc, Holding
  <2>6. proc' = [proc EXCEPT ![p] = r]
    BY <2>2
  <2>7. body' \in [Urls -> Contents \cup {None}]
    BY <1>2, <2>1 DEF Typed
  <2> HIDE DEF r
  <2>8. /\ proc' \in [Scrapers -> Proc] /\ proc'[p] = r /\ Others(p)
        /\ \A q \in Scrapers : /\ proc'[q].at \in DOMAIN agenda'.urls
                               /\ proc'[q].pc \in Holding <=> lock' = q
    BY <1>1, <1>2, <2>5, <2>6, SetProc DEF Others, Holding
  <2>9. Typed'
    BY <1>1, <1>4, <2>1, <2>7, <2>8 DEF Typed
  <2> QED BY <1>1, <1>2, <2>1, <2>5, <2>8, <2>9 DEF r
<1> QED BY <1>5, <1>6

LEMMA WriteMetaIs ==
  ASSUME Typed, NEW p \in Scrapers, WriteMeta(p), proc[p].answer \in Contents
  PROVE  /\ Typed' /\ Others(p) /\ proc[p].pc = "meta"
         /\ meta' = [meta EXCEPT ![UrlOf(p)] = [tag |-> proc[p].answer, age |-> 0]]
         /\ torn' = torn \ {UrlOf(p)}
         /\ proc'[p] = [proc[p] EXCEPT !.pc = "state", !.answer = "fine"]
<1> DEFINE r == [proc[p] EXCEPT !.pc = "state", !.answer = "fine"]
<1>1. /\ proc[p].pc = "meta" /\ proc' = [proc EXCEPT ![p] = r]
      /\ meta' = [meta EXCEPT ![UrlOf(p)] = [tag |-> proc[p].answer, age |-> 0]]
      /\ torn' = torn \ {UrlOf(p)}
      /\ UNCHANGED <<body, host, lock, site, agenda, shown, sent, refused, kills>>
  BY DEF WriteMeta
<1>2. r \in Proc /\ r.pc = "state" /\ r.at = proc[p].at
  <2>1. proc[p] \in Proc
    BY DEF Typed
  <2> QED BY <2>1 DEF Proc, Holding
<1>3. r.at \in DOMAIN agenda.urls /\ (r.pc \in Holding <=> lock' = p)
  BY <1>1, <1>2 DEF Typed, Holding
<1> HIDE DEF r
<1>4. /\ proc' \in [Scrapers -> Proc] /\ proc'[p] = r /\ Others(p)
      /\ \A q \in Scrapers : /\ proc'[q].at \in DOMAIN agenda'.urls
                             /\ proc'[q].pc \in Holding <=> lock' = q
  BY <1>1, <1>2, <1>3, SetProc DEF Others
<1>5. meta' \in [Urls -> Meta]
  <2>1. [tag |-> proc[p].answer, age |-> 0] \in Meta
    BY DEF Meta
  <2> QED BY <1>1, <2>1 DEF Typed
<1>6. Typed'
  BY <1>1, <1>4, <1>5 DEF Typed
<1> QED BY <1>1, <1>4, <1>6 DEF r

\* What the bounds of a workload leave alone.
LEMMA AgendaIs ==
  ASSUME Typed,
         \/ agenda.kills > 0 /\ agenda' = [agenda EXCEPT !.kills = @ - 1]
         \/ agenda.refusals > 0 /\ agenda' = [agenda EXCEPT !.refusals = @ - 1]
         \/ agenda.changes > 0 /\ agenda' = [agenda EXCEPT !.changes = @ - 1]
  PROVE  agenda' \in Agenda /\ agenda'.urls = agenda.urls /\ agenda'.budget = agenda.budget
<1> DEFINE U == Seq(Urls) \ {<<>>}
           L == [Urls -> SUBSET (0..MaxAge)]
<1>1. agenda \in [urls : U, limits : L, budget : Nat, gap : Nat,
                  kills : Nat, refusals : Nat, changes : Nat]
  BY DEF Typed, Agenda
<1> HIDE DEF U, L
<1>2. /\ agenda' \in [urls : U, limits : L, budget : Nat, gap : Nat,
                      kills : Nat, refusals : Nat, changes : Nat]
      /\ agenda'.urls = agenda.urls /\ agenda'.budget = agenda.budget
  <2>1. CASE agenda.kills > 0 /\ agenda' = [agenda EXCEPT !.kills = @ - 1]
    BY <1>1, <2>1
  <2>2. CASE agenda.refusals > 0 /\ agenda' = [agenda EXCEPT !.refusals = @ - 1]
    BY <1>1, <2>2
  <2>3. CASE agenda.changes > 0 /\ agenda' = [agenda EXCEPT !.changes = @ - 1]
    BY <1>1, <2>3
  <2> QED BY <2>1, <2>2, <2>3
<1> QED BY <1>2 DEF Agenda, U, L

LEMMA RefuseIs ==
  ASSUME Typed, NEW p \in Scrapers, Refuse(p)
  PROVE  /\ Typed' /\ Others(p) /\ proc[p].pc = "ask" /\ lock = p
         /\ agenda'.urls = agenda.urls /\ agenda'.budget = agenda.budget
         /\ proc'[p] = [proc[p] EXCEPT !.pc = "state", !.answer = "refused",
                           !.request = FreeNumber,
                           !.served = Served(proc[p].meta, proc[p].body)]
<1> DEFINE r == [proc[p] EXCEPT !.pc = "state", !.answer = "refused", !.request = FreeNumber,
                     !.served = Served(proc[p].meta, proc[p].body)]
<1>1. /\ proc[p].pc = "ask" /\ sent' = Noted(sent, FreeNumber) /\ agenda.refusals > 0
      /\ agenda' = [agenda EXCEPT !.refusals = @ - 1]
      /\ UNCHANGED <<meta, body, host, lock, site, shown, refused, torn, kills>>
      /\ proc' = [proc EXCEPT ![p] = r]
  BY DEF Refuse
<1>2. /\ proc[p] \in Proc /\ proc[p].meta \in Meta /\ proc[p].body \in Contents \cup {None}
      /\ proc[p].at \in DOMAIN agenda.urls /\ lock = p
  BY <1>1 DEF Typed, Proc, Holding
<1>3. agenda' \in Agenda /\ agenda'.urls = agenda.urls /\ agenda'.budget = agenda.budget
  BY <1>1, AgendaIs
<1>4. PICK s \in Contents \cup {None}, n \in Nat :
        s = Served(proc[p].meta, proc[p].body) /\ n = FreeNumber
  BY <1>2, FreeNumberIs, ServedIs DEF Typed
<1>5. r = [proc[p] EXCEPT !.pc = "state", !.answer = "refused", !.request = n, !.served = s]
  BY <1>4
<1>6. r \in Proc /\ r.pc = "state" /\ r.at = proc[p].at
  <2> HIDE DEF r
  <2> QED BY <1>2, <1>5 DEF Proc, Holding
<1> HIDE DEF r
<1>7. /\ proc' \in [Scrapers -> Proc] /\ proc'[p] = r /\ Others(p)
      /\ \A q \in Scrapers : /\ proc'[q].at \in DOMAIN agenda'.urls
                             /\ proc'[q].pc \in Holding <=> lock' = q
  BY <1>1, <1>2, <1>3, <1>6, SetProc DEF Others, Holding
<1>8. sent' \in Ages /\ IsFiniteSet(DOMAIN sent)'
  <2>1. sent' \in Ages /\ DOMAIN sent' = DOMAIN sent \cup {FreeNumber}
    BY <1>1, FreeNumberIs, NotedIs DEF Typed
  <2>2. IsFiniteSet(DOMAIN sent \cup {FreeNumber})
    BY FS_AddElement DEF Typed
  <2> QED BY <2>1, <2>2
<1>9. Typed'
  BY <1>1, <1>3, <1>7, <1>8 DEF Typed
<1> QED BY <1>1, <1>2, <1>3, <1>7, <1>9 DEF r

LEMMA FailLocallyIs ==
  ASSUME Typed, NEW p \in Scrapers, FailLocally(p)
  PROVE  /\ Typed' /\ Others(p) /\ proc[p].pc = "ask" /\ lock' = NoOne
         /\ agenda'.urls = agenda.urls /\ agenda'.budget = agenda.budget
         /\ proc'[p] = Over(p, Served(proc[p].meta, proc[p].body))
<1> DEFINE r == Over(p, Served(proc[p].meta, proc[p].body))
<1>1. /\ proc[p].pc = "ask" /\ agenda.refusals > 0 /\ lock' = NoOne
      /\ agenda' = [agenda EXCEPT !.refusals = @ - 1]
      /\ UNCHANGED <<meta, body, host, site, history>>
      /\ proc' = [proc EXCEPT ![p] = Over(p, Served(@.meta, @.body))]
  BY DEF FailLocally
<1>2. proc' = [proc EXCEPT ![p] = r]
  BY <1>1
<1>3. /\ proc[p] \in Proc /\ proc[p].meta \in Meta /\ proc[p].body \in Contents \cup {None}
      /\ lock = p
  BY <1>1 DEF Typed, Proc, Holding
<1>4. agenda' \in Agenda /\ agenda'.urls = agenda.urls /\ agenda'.budget = agenda.budget
  BY <1>1, AgendaIs
<1>5. r \in Proc /\ r.at \in DOMAIN agenda.urls /\ r.pc = "next"
  BY <1>3, ServedIs, OverIs
<1> HIDE DEF r
<1>6. /\ proc' \in [Scrapers -> Proc] /\ proc'[p] = r /\ Others(p)
      /\ \A q \in Scrapers : /\ proc'[q].at \in DOMAIN agenda'.urls
                             /\ proc'[q].pc \in Holding <=> lock' = q
  <2>1. lock' = NoOne /\ NoOne \notin Scrapers /\ lock = p
    BY <1>1, <1>3, NatFacts
  <2>2. r.pc \notin Holding
    BY <1>5 DEF Holding
  <2>3. r.pc \in Holding <=> lock' = p
    BY <2>1, <2>2
  <2>4. \A q \in Scrapers \ {p} : lock' = q <=> lock = q
    BY <2>1
  <2> QED BY <1>2, <1>4, <1>5, <2>3, <2>4, SetProc DEF Others
<1>7. Typed'
  BY <1>1, <1>4, <1>6 DEF Typed, history
<1> QED BY <1>1, <1>4, <1>6, <1>7 DEF r

\* The host is charged, and refusals in a row are counted.
LEMMA ReleaseIs ==
  ASSUME Typed, NEW p \in Scrapers, Release(p)
  PROVE  /\ Typed' /\ Others(p) /\ proc[p].pc = "state" /\ lock = p /\ lock' = NoOne
         /\ proc'[p] = Over(p, proc[p].served)
         /\ host'.requests = Noted(host.requests, proc[p].request)
         /\ \/ /\ refused'.row = refused.row + 1 /\ refused'.age = 0
               /\ host'.strikes = host.strikes + 1
               /\ host'.cooldown >= Doubled(host.strikes + 1)
            \/ refused'.row = 0 /\ host'.strikes = 0
<1> DEFINE r == Over(p, proc[p].served)
<1>1. /\ proc[p].pc = "state" /\ lock' = NoOne
      /\ proc' = [proc EXCEPT ![p] = Over(p, @.served)]
      /\ UNCHANGED <<meta, body, site, agenda, shown, sent, torn, kills>>
  BY DEF Release
<1>2. proc' = [proc EXCEPT ![p] = r]
  BY <1>1
<1>3. /\ proc[p] \in Proc /\ proc[p].served \in Contents \cup {None} /\ proc[p].request \in Nat
      /\ lock = p
  BY <1>1 DEF Typed, Proc, Holding
<1>4. r \in Proc /\ r.at \in DOMAIN agenda.urls /\ r.pc = "next"
  BY <1>3, OverIs
<1> HIDE DEF r
<1>5. /\ proc' \in [Scrapers -> Proc] /\ proc'[p] = r /\ Others(p)
      /\ \A q \in Scrapers : /\ proc'[q].at \in DOMAIN agenda'.urls
                             /\ proc'[q].pc \in Holding <=> lock' = q
  <2>1. lock' # p /\ \A q \in Scrapers \ {p} : lock' = q <=> lock = q
    BY <1>1, <1>3, NatFacts
  <2>2. agenda'.urls = agenda.urls /\ ~(r.pc \in Holding)
    BY <1>1, <1>4 DEF Holding
  <2> QED BY <1>2, <1>4, <2>1, <2>2, SetProc DEF Others
<1>6. PICK charged : charged = [host EXCEPT !.requests = Noted(@, proc[p].request)]
  OBVIOUS
<1>7. /\ charged \in [requests : Ages, strikes : Nat, cooldown : Nat]
      /\ charged.requests = Noted(host.requests, proc[p].request)
      /\ charged.strikes = host.strikes /\ charged.cooldown = host.cooldown
  <2>1. host \in [requests : Ages, strikes : Nat, cooldown : Nat]
    BY DEF Typed
  <2>2. PICK a \in Ages : a = Noted(host.requests, proc[p].request)
    BY <1>3, <2>1, NotedIs
  <2>3. charged = [host EXCEPT !.requests = a]
    BY <1>6, <2>2
  <2> QED BY <2>1, <2>2, <2>3
<1>8. PICK after \in {0, CooldownMax} :
        \/ /\ host' = CooledDown(charged, after)
           /\ refused' = [row |-> refused.row + 1, age |-> 0]
        \/ /\ host' = [charged EXCEPT !.strikes = 0]
           /\ refused' = [row |-> 0, age |-> 0]
  BY <1>6 DEF Release
<1>9. /\ host' \in [requests : Ages, strikes : Nat, cooldown : Nat]
      /\ refused' \in [row : Nat, age : Nat]
      /\ host'.requests = Noted(host.requests, proc[p].request)
      /\ \/ /\ refused'.row = refused.row + 1 /\ refused'.age = 0
            /\ host'.strikes = host.strikes + 1
            /\ host'.cooldown >= Doubled(host.strikes + 1)
         \/ refused'.row = 0 /\ host'.strikes = 0
  <2>1. CASE /\ host' = CooledDown(charged, after)
             /\ refused' = [row |-> refused.row + 1, age |-> 0]
    <3>1. /\ Doubled(charged.strikes + 1) \in Nat /\ after \in Nat /\ CooldownMax \in Nat
      BY <1>7, SpanIs, NatFacts
    <3>2. PICK c \in Nat : /\ c = Upper(Doubled(charged.strikes + 1), Lower(after, CooldownMax))
                           /\ c >= Doubled(charged.strikes + 1)
      BY <3>1 DEF Upper, Lower
    <3>3. host' = [charged EXCEPT !.strikes = @ + 1, !.cooldown = c]
      BY <2>1, <3>2 DEF CooledDown
    <3>4. refused.row \in Nat
      BY DEF Typed
    <3>5. /\ host' \in [requests : Ages, strikes : Nat, cooldown : Nat]
          /\ host'.requests = charged.requests /\ host'.strikes = charged.strikes + 1
          /\ host'.cooldown = c
      <4>1. PICK k \in Nat : k = charged.strikes + 1
        BY <1>7
      <4>2. host' = [charged EXCEPT !.strikes = k, !.cooldown = c]
        BY <3>3, <4>1
      <4>3. charged \in [requests : Ages, strikes : Nat, cooldown : Nat]
        BY <1>7
      <4>4. /\ host' \in [requests : Ages, strikes : Nat, cooldown : Nat]
            /\ host'.requests = charged.requests /\ host'.strikes = k /\ host'.cooldown = c
        BY <4>2, <4>3
      <4> QED BY <4>1, <4>4
    <3>6. refused' \in [row : Nat, age : Nat] /\ refused'.row = refused.row + 1 /\ refused'.age = 0
      BY <2>1, <3>4
    <3> QED BY <1>7, <3>2, <3>5, <3>6
  <2>2. CASE /\ host' = [charged EXCEPT !.strikes = 0]
             /\ refused' = [row |-> 0, age |-> 0]
    BY <1>7, <2>2
  <2> QED BY <1>8, <2>1, <2>2
<1>10. Typed'
  BY <1>1, <1>5, <1>9 DEF Typed
<1> QED BY <1>1, <1>3, <1>5, <1>9, <1>10 DEF r

LEMMA KillIs ==
  ASSUME Typed, NEW p \in Scrapers, Kill(p)
  PROVE  /\ Typed' /\ Others(p) /\ proc'[p] = Idle /\ kills' = kills + 1
         /\ agenda'.urls = agenda.urls /\ agenda'.budget = agenda.budget
         /\ UNCHANGED <<meta, body, host, site, shown, sent, refused, torn>>
         /\ \A q \in Scrapers : lock' = q => lock = q
<1>1. /\ agenda.kills > 0 /\ agenda' = [agenda EXCEPT !.kills = @ - 1]
      /\ kills' = kills + 1 /\ proc' = [proc EXCEPT ![p] = Idle]
      /\ lock' = IF lock = p THEN NoOne ELSE lock
      /\ UNCHANGED <<meta, body, host, site, shown, sent, refused, torn>>
  BY DEF Kill
<1>2. agenda' \in Agenda /\ agenda'.urls = agenda.urls /\ agenda'.budget = agenda.budget
  BY <1>1, AgendaIs
<1>3. Idle \in Proc /\ Idle.pc = "next" /\ Idle.at = 1
  BY DEF Idle, NoMeta, Proc, Meta
<1>4. 1 \in DOMAIN agenda.urls
  <2>1. agenda.urls \in Seq(Urls) /\ agenda.urls # <<>>
    BY DEF Typed, Agenda
  <2> QED BY <2>1
<1>5. /\ proc' \in [Scrapers -> Proc] /\ proc'[p] = Idle /\ Others(p)
      /\ \A q \in Scrapers : /\ proc'[q].at \in DOMAIN agenda'.urls
                             /\ proc'[q].pc \in Holding <=> lock' = q
  BY <1>1, <1>2, <1>3, <1>4, SetProc, NatFacts DEF Others, Holding
<1>6. Typed'
  BY <1>1, <1>2, <1>5 DEF Typed
<1> QED BY <1>1, <1>2, <1>5, <1>6, NatFacts

LEMMA SiteChangesIs ==
  ASSUME Typed, SiteChanges
  PROVE  /\ Typed' /\ agenda'.urls = agenda.urls /\ agenda'.budget = agenda.budget
         /\ UNCHANGED <<meta, body, host, lock, proc, sent, refused, torn, kills>>
         /\ \E u \in Urls, v \in Contents :
               /\ site' = [site EXCEPT ![u] = v]
               /\ shown' = [shown EXCEPT ![u][v] = 0]
<1>1. /\ agenda.changes > 0 /\ agenda' = [agenda EXCEPT !.changes = @ - 1]
      /\ UNCHANGED <<meta, body, host, lock, proc, sent, refused, torn, kills>>
  BY DEF SiteChanges
<1>2. PICK u \in Range(agenda.urls), v \in Contents :
        /\ site' = [site EXCEPT ![u] = v]
        /\ shown' = [shown EXCEPT ![u][v] = 0]
  BY DEF SiteChanges
<1>3. u \in Urls
  <2>1. agenda.urls \in Seq(Urls)
    BY DEF Typed, Agenda
  <2> QED BY <2>1 DEF Range
<1>4. agenda' \in Agenda /\ agenda'.urls = agenda.urls /\ agenda'.budget = agenda.budget
  BY <1>1, AgendaIs
<1>5. site' \in [Urls -> Contents] /\ shown' \in [Urls -> [Contents -> Nat]]
  BY <1>2, <1>3 DEF Typed
<1>6. Typed'
  BY <1>1, <1>4, <1>5 DEF Typed
<1> QED BY <1>1, <1>2, <1>3, <1>4, <1>6

\* A tick makes everything older.
LEMMA TickIs ==
  ASSUME Typed, Tick
  PROVE  /\ Typed'
         /\ \A p \in Scrapers : /\ UrlOf(p)' = UrlOf(p)
                                /\ proc[p].pc \in {"next", "wait", "lock"}
                                /\ proc'[p].pc = proc[p].pc /\ proc'[p].body = proc[p].body
                                /\ proc'[p].mixed = proc[p].mixed /\ proc'[p].served = None
                                /\ proc'[p].request = proc[p].request
                                /\ \/ proc'[p].meta = proc[p].meta /\ proc[p].meta = NoMeta
                                   \/ /\ proc'[p].meta.tag = proc[p].meta.tag
                                      /\ proc'[p].meta.age = Older(proc[p].meta.age)
         /\ \A u \in Urls : \/ meta'[u] = meta[u] /\ meta[u] = NoMeta
                            \/ /\ meta'[u].tag = meta[u].tag
                               /\ meta'[u].age = Older(meta[u].age)
         /\ \A u \in Urls, v \in Contents :
               shown'[u][v] = IF v = site[u] THEN 0 ELSE Lower(shown[u][v] + 1, MaxAge + 1)
         /\ host'.requests = Aged(host.requests) /\ host'.strikes = host.strikes
         /\ host'.cooldown = IF host.cooldown = 0 THEN 0 ELSE host.cooldown - 1
         /\ sent' = Aged(sent) /\ refused'.row = refused.row
         /\ refused'.age = IF refused.row = 0 THEN 0 ELSE Lower(refused.age + 1, CooldownMax)
         /\ UNCHANGED <<body, lock, site, agenda, torn, kills>>
<1>1. /\ \A p \in Scrapers : proc[p].pc \in {"next", "wait", "lock"}
      /\ UNCHANGED <<body, lock, site, agenda, torn, kills>> /\ sent' = Aged(sent)
  BY DEF Tick
<1>2. /\ meta' \in [Urls -> Meta]
      /\ \A u \in Urls : \/ meta'[u] = meta[u] /\ meta[u] = NoMeta
                         \/ /\ meta'[u].tag = meta[u].tag
                            /\ meta'[u].age = Older(meta[u].age)
  <2> DEFINE m(u) == IF meta[u] = NoMeta THEN NoMeta ELSE [meta[u] EXCEPT !.age = Older(@)]
  <2>1. meta' = [u \in Urls |-> m(u)]
    BY DEF Tick
  <2>2. ASSUME NEW u \in Urls
        PROVE  /\ m(u) \in Meta
               /\ \/ m(u) = meta[u] /\ meta[u] = NoMeta
                  \/ m(u).tag = meta[u].tag /\ m(u).age = Older(meta[u].age)
    <3>1. meta[u] \in Meta
      BY DEF Typed
    <3>2. CASE meta[u] # NoMeta
      <4>1. PICK a \in Nat : a = Older(meta[u].age)
        BY <3>1, OlderIs DEF Meta
      <4>2. m(u) = [meta[u] EXCEPT !.age = a]
        BY <3>2, <4>1
      <4> HIDE DEF m
      <4> QED BY <3>1, <4>1, <4>2 DEF Meta
    <3> QED BY <3>1, <3>2
  <2> HIDE DEF m
  <2> QED BY <2>1, <2>2
<1>3. /\ shown' \in [Urls -> [Contents -> Nat]]
      /\ \A u \in Urls, v \in Contents :
            shown'[u][v] = IF v = site[u] THEN 0 ELSE Lower(shown[u][v] + 1, MaxAge + 1)
  <2> DEFINE s(u, v) == IF v = site[u] THEN 0 ELSE Lower(shown[u][v] + 1, MaxAge + 1)
  <2>1. shown' = [u \in Urls |-> [v \in Contents |-> s(u, v)]]
    BY DEF Tick
  <2>2. ASSUME NEW u \in Urls, NEW v \in Contents PROVE s(u, v) \in Nat
    <3>1. shown[u][v] \in Nat
      BY DEF Typed
    <3> QED BY <3>1, NatFacts DEF Lower
  <2> HIDE DEF s
  <2>3. /\ shown' \in [Urls -> [Contents -> Nat]]
        /\ \A u \in Urls, v \in Contents : shown'[u][v] = s(u, v)
    BY <2>1, <2>2
  <2> QED BY <2>3 DEF s
<1>4. /\ host' \in [requests : Ages, strikes : Nat, cooldown : Nat]
      /\ host'.requests = Aged(host.requests) /\ host'.strikes = host.strikes
      /\ host'.cooldown = IF host.cooldown = 0 THEN 0 ELSE host.cooldown - 1
  <2>1. host \in [requests : Ages, strikes : Nat, cooldown : Nat]
    BY DEF Typed
  <2>2. PICK a \in Ages, c \in Nat :
          /\ a = Aged(host.requests)
          /\ c = IF host.cooldown = 0 THEN 0 ELSE host.cooldown - 1
    <3>1. Aged(host.requests) \in Ages
      BY <2>1, AgedIs
    <3>2. PICK c \in Nat : c = IF host.cooldown = 0 THEN 0 ELSE host.cooldown - 1
      BY <2>1
    <3> QED BY <3>1, <3>2
  <2>3. host' = [host EXCEPT !.requests = a, !.cooldown = c]
    BY <2>2 DEF Tick
  <2> QED BY <2>1, <2>2, <2>3
<1>5. /\ refused' \in [row : Nat, age : Nat] /\ refused'.row = refused.row
      /\ refused'.age = IF refused.row = 0 THEN 0 ELSE Lower(refused.age + 1, CooldownMax)
  <2>1. refused \in [row : Nat, age : Nat]
    BY DEF Typed
  <2>2. PICK a \in Nat :
          a = IF refused.row = 0 THEN 0 ELSE Lower(refused.age + 1, CooldownMax)
    BY <2>1, NatFacts DEF Lower
  <2>3. refused' = [refused EXCEPT !.age = a]
    BY <2>2 DEF Tick
  <2> QED BY <2>1, <2>2, <2>3
<1>6. sent' \in Ages /\ IsFiniteSet(DOMAIN sent)'
  <2>1. sent' \in Ages /\ DOMAIN sent' \subseteq DOMAIN sent
    BY <1>1, AgedIs DEF Typed
  <2> QED BY <2>1, FS_Subset DEF Typed
<1>7. /\ proc' \in [Scrapers -> Proc]
      /\ \A p \in Scrapers : /\ proc'[p].pc = proc[p].pc /\ proc'[p].body = proc[p].body
                             /\ proc'[p].mixed = proc[p].mixed /\ proc'[p].served = None
                             /\ proc'[p].request = proc[p].request /\ proc'[p].at = proc[p].at
                             /\ \/ proc'[p].meta = proc[p].meta /\ proc[p].meta = NoMeta
                                \/ /\ proc'[p].meta.tag = proc[p].meta.tag
                                   /\ proc'[p].meta.age = Older(proc[p].meta.age)
  <2> DEFINE r(p) == [proc[p] EXCEPT
                        !.idle = IF proc[p].pc = "next" THEN @ + 1 ELSE @,
                        !.meta.age = IF proc[p].meta = NoMeta THEN @ ELSE Older(@),
                        !.served = None]
  <2>1. proc' = [p \in Scrapers |-> r(p)]
    BY DEF Tick
  <2>2. ASSUME NEW p \in Scrapers
        PROVE  /\ r(p) \in Proc
               /\ r(p).pc = proc[p].pc /\ r(p).body = proc[p].body /\ r(p).at = proc[p].at
               /\ r(p).mixed = proc[p].mixed /\ r(p).served = None
               /\ r(p).request = proc[p].request
               /\ \/ r(p).meta = proc[p].meta /\ proc[p].meta = NoMeta
                  \/ /\ r(p).meta.tag = proc[p].meta.tag
                     /\ r(p).meta.age = Older(proc[p].meta.age)
    <3>1. proc[p] \in Proc
      BY DEF Typed
    <3>2. proc[p].meta \in Meta /\ proc[p].idle \in Nat
      BY <3>1 DEF Proc
    <3>3. PICK i \in Nat : i = IF proc[p].pc = "next" THEN proc[p].idle + 1 ELSE proc[p].idle
      BY <3>2
    <3>4. PICK a \in Nat :
            a = IF proc[p].meta = NoMeta THEN proc[p].meta.age ELSE Older(proc[p].meta.age)
      BY <3>2, OlderIs DEF Meta
    <3>5. PICK m \in Meta : /\ m = [proc[p].meta EXCEPT !.age = a]
                            /\ m.tag = proc[p].meta.tag /\ m.age = a
      <4> DEFINE m == [proc[p].meta EXCEPT !.age = a]
      <4>1. m \in Meta /\ m.tag = proc[p].meta.tag /\ m.age = a
        BY <3>2 DEF Meta
      <4> QED BY <4>1
    <3>6. r(p) = [proc[p] EXCEPT !.idle = i, !.meta = m, !.served = None]
      BY <3>3, <3>4, <3>5
    <3> HIDE DEF r
    <3>7. /\ r(p) \in Proc
          /\ r(p).pc = proc[p].pc /\ r(p).body = proc[p].body /\ r(p).at = proc[p].at
          /\ r(p).mixed = proc[p].mixed /\ r(p).served = None
          /\ r(p).request = proc[p].request /\ r(p).meta = m
      BY <3>1, <3>6 DEF Proc
    <3>8. proc[p].meta = NoMeta => m = proc[p].meta
      BY <3>2, <3>4, <3>5 DEF Meta
    <3> QED BY <3>4, <3>5, <3>7, <3>8
  <2> HIDE DEF r
  <2> QED BY <2>1, <2>2
<1>8. \A p \in Scrapers : UrlOf(p)' = UrlOf(p)
  BY <1>1, <1>7 DEF UrlOf
<1>9. Typed'
  BY <1>1, <1>2, <1>3, <1>4, <1>5, <1>6, <1>7 DEF Typed
<1> QED BY <1>1, <1>2, <1>3, <1>4, <1>5, <1>7, <1>8, <1>9

-----------------------------------------------------------------------------
(* The budget *)

InFlight(p) == proc[p].pc \in {"meta", "state"}

\* Only who has the lock has a request in flight.
LEMMA FlyingIs ==
  ASSUME Typed
  PROVE  /\ \A p \in Scrapers : lock = p =>
              Flying = IF InFlight(p) THEN {proc[p].request} ELSE {}
         /\ lock \notin Scrapers => Flying = {}
<1>1. \A q \in Scrapers : InFlight(q) => lock = q
  BY DEF Typed, InFlight, Holding
<1>2. Flying = {proc[p].request : p \in {q \in Scrapers : InFlight(q)}}
  BY DEF Flying, InFlight
<1> QED BY <1>1, <1>2

\* A step of a scraper that has the same request in flight, or none, as before.
LEMMA SameFlying ==
  ASSUME NEW p \in Scrapers, Others(p), InFlight(p)' <=> InFlight(p),
         InFlight(p) => proc'[p].request = proc[p].request
  PROVE  Flying' = Flying
<1>1. Flying = {proc[q].request : q \in {x \in Scrapers : InFlight(x)}}
  BY DEF Flying, InFlight
<1>2. Flying' = {proc'[q].request : q \in {x \in Scrapers : InFlight(x)'}}
  BY DEF Flying, InFlight
<1>3. \A q \in Scrapers : /\ InFlight(q)' <=> InFlight(q)
                          /\ InFlight(q) => proc'[q].request = proc[q].request
  BY DEF Others, InFlight
<1> QED BY <1>1, <1>2, <1>3

LEMMA Finite ==
  ASSUME Typed, Counted
  PROVE  /\ IsFiniteSet(DOMAIN host.requests) /\ IsFiniteSet(Lost)
         /\ Cardinality(DOMAIN host.requests) \in Nat /\ Cardinality(Lost) \in Nat
<1>1. DOMAIN host.requests \subseteq DOMAIN sent /\ Lost \subseteq DOMAIN sent
  BY DEF Counted, Lost
<1>2. IsFiniteSet(DOMAIN sent)
  BY DEF Typed
<1> QED BY <1>1, <1>2, FS_Subset, FS_CardinalityType

\* Nothing is sent or filed.
LEMMA SameCount ==
  ASSUME Counted, UNCHANGED <<host, sent, kills>>, agenda'.budget = agenda.budget,
         Flying' = Flying, \A q \in Scrapers : lock' = q => lock = q
  PROVE  Counted'
<1>1. Lost' = Lost
  BY DEF Lost
<1> QED BY <1>1 DEF Counted

\* A request is sent.
LEMMA SentCount ==
  ASSUME Typed, Counted, NEW p \in Scrapers, lock = p, proc[p].pc = "ask",
         Others(p), Typed', InFlight(p)', proc'[p].request = FreeNumber,
         sent' = Noted(sent, FreeNumber), UNCHANGED <<host, kills, lock>>,
         agenda'.budget = agenda.budget
  PROVE  Counted'
<1>1. FreeNumber \in Nat /\ FreeNumber \notin DOMAIN sent /\ sent \in Ages
  BY FreeNumberIs DEF Typed
<1>2. /\ DOMAIN sent' = DOMAIN sent \cup {FreeNumber} /\ sent'[FreeNumber] = 0
      /\ \A k \in DOMAIN sent : sent'[k] = sent[k]
  BY <1>1, NotedIs
<1>3. Flying = {}
  BY FlyingIs DEF InFlight
<1>4. Flying' = {FreeNumber}
  <2>1. \A q \in Scrapers : InFlight(q)' <=> q = p
    BY DEF Typed, Others, InFlight, Holding
  <2>2. Flying' = {proc'[q].request : q \in {x \in Scrapers : InFlight(x)'}}
    BY DEF Flying, InFlight
  <2> QED BY <2>1, <2>2
<1>5. Lost' = Lost
  BY <1>1, <1>2, <1>3, <1>4 DEF Lost
<1>6. /\ \A n \in DOMAIN host'.requests : n \in DOMAIN sent' /\ host'.requests[n] = sent'[n]
      /\ \A n \in Flying' : n \in DOMAIN sent' \ DOMAIN host'.requests /\ sent'[n] = 0
  BY <1>1, <1>2, <1>4 DEF Counted
<1> QED BY <1>5, <1>6 DEF Counted

\* The request is put on file.
LEMMA ReleaseCount ==
  ASSUME Typed, Counted, NEW p \in Scrapers, Release(p) PROVE Counted'
<1> DEFINE n == proc[p].request
<1>1. /\ Others(p) /\ proc[p].pc = "state" /\ lock = p /\ lock' = NoOne /\ Typed'
      /\ host'.requests = Noted(host.requests, n)
      /\ proc'[p].pc = "next"
      /\ UNCHANGED <<sent, kills, agenda>>
  <2>1. proc[p].served \in Contents \cup {None}
    BY DEF Typed, Proc
  <2>2. proc'[p] = Over(p, proc[p].served) /\ Over(p, proc[p].served).pc = "next"
    BY <2>1, ReleaseIs, OverIs
  <2>3. UNCHANGED <<sent, kills, agenda>>
    BY DEF Release
  <2> QED BY <2>2, <2>3, ReleaseIs
<1>2. /\ n \in DOMAIN sent \ DOMAIN host.requests /\ sent[n] = 0 /\ Flying = {n}
      /\ n \in Nat /\ host.requests \in Ages
  <2>1. Flying = {n}
    BY <1>1, FlyingIs DEF InFlight
  <2> QED BY <2>1 DEF Counted, Typed, Proc
<1>3. /\ DOMAIN host'.requests = DOMAIN host.requests \cup {n} /\ host'.requests[n] = 0
      /\ \A k \in DOMAIN host.requests : host'.requests[k] = host.requests[k]
  <2> HIDE DEF n
  <2>1. PICK a \in Ages : a = host.requests
    BY <1>2
  <2>2. /\ DOMAIN Noted(a, n) = DOMAIN a \cup {n} /\ Noted(a, n)[n] = 0
        /\ \A k \in DOMAIN a : k # n => Noted(a, n)[k] = a[k]
    BY <1>2, NotedIs
  <2> QED BY <1>1, <1>2, <2>1, <2>2
<1>4. Flying' = {}
  <2>1. \A q \in Scrapers : ~InFlight(q)'
    BY <1>1, NatFacts DEF Typed, Others, InFlight, Holding
  <2>2. Flying' = {proc'[q].request : q \in {x \in Scrapers : InFlight(x)'}}
    BY DEF Flying, InFlight
  <2> QED BY <2>1, <2>2
<1>5. Lost' = Lost
  BY <1>1, <1>2, <1>3, <1>4 DEF Lost
<1>6. Cardinality(DOMAIN host'.requests) <= agenda.budget
  <2>1. /\ IsFiniteSet(DOMAIN host.requests) /\ Cardinality(DOMAIN host.requests) \in Nat
        /\ agenda.budget \in Nat
    BY Finite DEF Typed, Agenda
  <2>2. Cardinality(DOMAIN host.requests \cup {n}) = Cardinality(DOMAIN host.requests) + 1
    BY <1>2, <2>1, FS_AddElement
  <2>3. Cardinality(DOMAIN host.requests) < agenda.budget
    BY <1>1 DEF Counted
  <2> QED BY <1>3, <2>1, <2>2, <2>3
<1>7. \A k \in DOMAIN host'.requests : k \in DOMAIN sent' /\ host'.requests[k] = sent'[k]
  BY <1>1, <1>2, <1>3 DEF Counted
<1>8. \A q \in Scrapers : lock' # q
  BY <1>1, NatFacts
<1> QED BY <1>1, <1>4, <1>5, <1>6, <1>7, <1>8 DEF Counted

\* A killed scraper has lost at most the request it had in flight.
LEMMA KillCount ==
  ASSUME Typed, Counted, NEW p \in Scrapers, Kill(p) PROVE Counted'
<1>1. /\ Others(p) /\ proc'[p] = Idle /\ kills' = kills + 1
      /\ agenda'.budget = agenda.budget /\ UNCHANGED <<host, sent>>
      /\ \A q \in Scrapers : lock' = q => lock = q
  BY KillIs
<1>2. Flying' \subseteq Flying /\ Flying \subseteq Flying' \cup {proc[p].request}
  <2>1. ~InFlight(p)'
    BY <1>1 DEF InFlight, Idle
  <2>2. \A q \in Scrapers \ {p} : proc'[q] = proc[q] /\ (InFlight(q)' <=> InFlight(q))
    BY <1>1 DEF Others, InFlight
  <2>3. Flying = {proc[q].request : q \in {x \in Scrapers : InFlight(x)}}
    BY DEF Flying, InFlight
  <2>4. Flying' = {proc'[q].request : q \in {x \in Scrapers : InFlight(x)'}}
    BY DEF Flying, InFlight
  <2> QED BY <2>1, <2>2, <2>3, <2>4
<1>3. Lost' \subseteq Lost \cup {proc[p].request}
  BY <1>1, <1>2 DEF Lost
<1>4. Cardinality(Lost') <= kills'
  <2>1. IsFiniteSet(Lost) /\ Cardinality(Lost) \in Nat /\ kills \in Nat
    BY Finite DEF Typed
  <2>2. /\ IsFiniteSet(Lost \cup {proc[p].request})
        /\ Cardinality(Lost \cup {proc[p].request}) \in Nat
        /\ Cardinality(Lost \cup {proc[p].request}) <= Cardinality(Lost) + 1
    BY <2>1, FS_AddElement
  <2>3. Cardinality(Lost') \in Nat
        /\ Cardinality(Lost') <= Cardinality(Lost \cup {proc[p].request})
    BY <1>3, <2>2, FS_Subset, FS_CardinalityType
  <2>4. Cardinality(Lost) <= kills
    BY DEF Counted
  <2> QED BY <1>1, <2>1, <2>2, <2>3, <2>4
<1> QED BY <1>1, <1>2, <1>4 DEF Counted

\* What is a day old is forgotten on both sides.
LEMMA TickCount ==
  ASSUME Typed, Counted, Tick PROVE Counted'
<1>1. /\ host'.requests = Aged(host.requests) /\ sent' = Aged(sent)
      /\ UNCHANGED <<lock, agenda, kills>>
      /\ \A p \in Scrapers : ~InFlight(p) /\ ~InFlight(p)'
  BY TickIs DEF InFlight
<1>2. Flying = {} /\ Flying' = {}
  <2>1. Flying = {proc[q].request : q \in {x \in Scrapers : InFlight(x)}}
    BY DEF Flying, InFlight
  <2>2. Flying' = {proc'[q].request : q \in {x \in Scrapers : InFlight(x)'}}
    BY DEF Flying, InFlight
  <2> QED BY <1>1, <2>1, <2>2
<1>3. host.requests \in Ages /\ sent \in Ages
  BY DEF Typed
<1>4. \A n \in DOMAIN host.requests : n \in DOMAIN sent /\ host.requests[n] = sent[n]
  BY DEF Counted
<1>5. /\ DOMAIN host'.requests = {k \in DOMAIN host.requests : host.requests[k] + 1 < Day}
      /\ DOMAIN sent' = {k \in DOMAIN sent : sent[k] + 1 < Day}
      /\ \A k \in DOMAIN host'.requests : host'.requests[k] = host.requests[k] + 1
      /\ \A k \in DOMAIN sent' : sent'[k] = sent[k] + 1
  BY <1>1, <1>3, AgedIs
<1>6. \A n \in DOMAIN host'.requests : n \in DOMAIN sent' /\ host'.requests[n] = sent'[n]
  BY <1>4, <1>5
<1>7. Lost' \subseteq Lost
  BY <1>2, <1>4, <1>5 DEF Lost
<1>8. /\ Cardinality(Lost') <= Cardinality(Lost)
      /\ Cardinality(DOMAIN host'.requests) <= Cardinality(DOMAIN host.requests)
      /\ Cardinality(Lost') \in Nat /\ Cardinality(DOMAIN host'.requests) \in Nat
  BY <1>5, <1>7, Finite, FS_Subset, FS_CardinalityType
<1>9. Cardinality(Lost') <= kills'
  BY <1>1, <1>8, Finite DEF Counted, Typed
<1>10. agenda.budget \in Nat
  BY DEF Typed, Agenda
<1>11. /\ Cardinality(DOMAIN host'.requests) <= agenda'.budget
       /\ \A p \in Scrapers : lock' = p => Cardinality(DOMAIN host'.requests) < agenda'.budget
  BY <1>1, <1>8, <1>10, Finite DEF Counted
<1> QED BY <1>2, <1>6, <1>9, <1>11 DEF Counted

\* The budget is kept by every step.
LEMMA CountStep ==
  ASSUME FetchInv, [Next]_vars PROVE Counted'
<1>1. Typed /\ Counted /\ \A p \in Scrapers : Reading(p)
  BY DEF FetchInv
<1>2. ASSUME NEW p \in Scrapers, LoadMeta(p) PROVE Counted'
  <2>1. /\ Others(p) /\ proc[p].pc = "next" /\ proc'[p].pc \in {"lock", "body"}
        /\ UNCHANGED <<host, sent, kills, agenda, lock>>
    <3>1. proc[p] \in Proc
      BY <1>1 DEF Typed
    <3>2. proc'[p].pc \in {"lock", "body"}
      BY <1>1, <1>2, <3>1, LoadMetaIs DEF Proc
    <3> QED BY <1>1, <1>2, <3>2, LoadMetaIs DEF LoadMeta, history
  <2>2. ~InFlight(p) /\ ~InFlight(p)'
    BY <2>1 DEF InFlight
  <2> QED BY <1>1, <2>1, <2>2, SameFlying, SameCount
<1>3. ASSUME NEW p \in Scrapers, LoadBody(p) PROVE Counted'
  <2>1. /\ Others(p) /\ proc[p].pc = "body" /\ Typed'
        /\ UNCHANGED <<host, sent, kills, agenda, lock>>
    BY <1>1, <1>3, LoadBodyIs DEF LoadBody, history
  <2>2. ~InFlight(p) /\ ~InFlight(p)'
    BY <1>1, <2>1 DEF InFlight, Typed, Holding
  <2> QED BY <1>1, <2>1, <2>2, SameFlying, SameCount
<1>4. ASSUME NEW p \in Scrapers, Lock(p) PROVE Counted'
  <2>1. /\ Others(p) /\ proc[p].pc = "lock" /\ UNCHANGED <<host, sent, kills, agenda>>
        /\ lock' = NoOne \/ (lock' = p /\ WithinBudget(host))
        /\ proc'[p].pc \in {"next", "ask", "wait"}
    BY <1>1, <1>4, LockIs DEF history
  <2>2. ~InFlight(p) /\ ~InFlight(p)'
    BY <2>1 DEF InFlight
  <2>3. Flying' = Flying
    BY <2>1, <2>2, SameFlying
  <2>4. Lost' = Lost
    BY <2>1, <2>3 DEF Lost
  <2>5. \A q \in Scrapers : lock' = q => Cardinality(DOMAIN host'.requests) < agenda'.budget
    BY <2>1, NatFacts DEF WithinBudget
  <2> QED BY <1>1, <2>1, <2>3, <2>4, <2>5 DEF Counted
<1>5. ASSUME NEW p \in Scrapers, Awake(p) PROVE Counted'
  <2>1. /\ Others(p) /\ proc[p].pc = "wait" /\ proc'[p].pc = "ask"
        /\ UNCHANGED <<host, sent, kills, agenda, lock>>
    BY <1>1, <1>5, AwakeIs DEF Awake, history
  <2>2. ~InFlight(p) /\ ~InFlight(p)'
    BY <2>1 DEF InFlight
  <2> QED BY <1>1, <2>1, <2>2, SameFlying, SameCount
<1>6. ASSUME NEW p \in Scrapers, Answer(p) PROVE Counted'
  <2>1. /\ Others(p) /\ proc[p].pc = "ask" /\ lock = p /\ Typed'
        /\ sent' = Noted(sent, FreeNumber)
        /\ UNCHANGED <<host, lock, agenda, kills>>
    BY <1>1, <1>6, AnswerIs
  <2>2. InFlight(p)' /\ proc'[p].request = FreeNumber
    BY <1>1, <1>6, AnswerIs DEF InFlight
  <2> QED BY <1>1, <2>1, <2>2, SentCount
<1>7. ASSUME NEW p \in Scrapers, WriteMeta(p) PROVE Counted'
  <2>1. /\ Others(p) /\ proc[p].pc = "meta"
        /\ proc'[p] = [proc[p] EXCEPT !.pc = "state", !.answer = "fine"]
        /\ UNCHANGED <<host, sent, kills, agenda, lock>>
    BY <1>1, <1>7, WriteMetaIs DEF WriteMeta, Reading
  <2>2. InFlight(p) /\ InFlight(p)' /\ proc'[p].request = proc[p].request
    <3>1. proc[p] \in Proc
      BY <1>1 DEF Typed
    <3> QED BY <2>1, <3>1 DEF InFlight, Proc
  <2> QED BY <1>1, <2>1, <2>2, SameFlying, SameCount
<1>8. ASSUME NEW p \in Scrapers, Refuse(p) PROVE Counted'
  <2>1. /\ Others(p) /\ proc[p].pc = "ask" /\ lock = p /\ Typed'
        /\ agenda'.budget = agenda.budget
        /\ sent' = Noted(sent, FreeNumber) /\ UNCHANGED <<host, lock, kills>>
    BY <1>1, <1>8, RefuseIs DEF Refuse
  <2>2. InFlight(p)' /\ proc'[p].request = FreeNumber
    <3>1. proc[p] \in Proc
      BY <1>1 DEF Typed
    <3>2. proc'[p] = [proc[p] EXCEPT !.pc = "state", !.answer = "refused",
                          !.request = FreeNumber,
                          !.served = Served(proc[p].meta, proc[p].body)]
      BY <1>1, <1>8, RefuseIs
    <3>3. proc'[p].pc = "state" /\ proc'[p].request = FreeNumber
      BY <3>1, <3>2 DEF Proc
    <3> QED BY <3>3 DEF InFlight
  <2> QED BY <1>1, <2>1, <2>2, SentCount
<1>9. ASSUME NEW p \in Scrapers, FailLocally(p) PROVE Counted'
  <2>1. /\ Others(p) /\ proc[p].pc = "ask" /\ lock' = NoOne /\ Typed'
        /\ agenda'.budget = agenda.budget /\ UNCHANGED <<host, sent, kills>>
    BY <1>1, <1>9, FailLocallyIs DEF FailLocally, history
  <2>2. ~InFlight(p) /\ ~InFlight(p)'
    BY <2>1, NatFacts DEF InFlight, Typed, Holding
  <2> QED BY <1>1, <2>1, <2>2, SameFlying, SameCount, NatFacts
<1>10. ASSUME SiteChanges PROVE Counted'
  <2>1. UNCHANGED <<host, lock, proc, sent, kills>> /\ agenda'.budget = agenda.budget
    BY <1>1, <1>10, SiteChangesIs
  <2>2. Flying' = Flying
    BY <2>1 DEF Flying
  <2> QED BY <1>1, <2>1, <2>2, SameCount
<1>11. ASSUME UNCHANGED vars PROVE Counted'
  <2>1. UNCHANGED <<host, lock, proc, sent, kills, agenda>>
    BY <1>11 DEF vars
  <2>2. Flying' = Flying
    BY <2>1 DEF Flying
  <2> QED BY <1>1, <2>1, <2>2, SameCount
<1> QED BY <1>1, <1>2, <1>3, <1>4, <1>5, <1>6, <1>7, <1>8, <1>9, <1>10, <1>11,
           ReleaseCount, KillCount, TickCount DEF Next, Work

-----------------------------------------------------------------------------
(* The cooldown *)

LEMMA CoolStep ==
  ASSUME FetchInv, [Next]_vars PROVE Cooling'
<1>1. Typed /\ Cooling /\ \A p \in Scrapers : Reading(p)
  BY DEF FetchInv
<1>2. host.cooldown \in Nat /\ host.strikes \in Nat /\ refused.row \in Nat /\ refused.age \in Nat
  BY <1>1 DEF Typed
<1>3. ASSUME UNCHANGED <<host, refused>>, \A q \in Scrapers : lock' = q => lock = q
      PROVE  Cooling'
  BY <1>1, <1>3 DEF Cooling
<1>4. ASSUME NEW p \in Scrapers, Lock(p) PROVE Cooling'
  <2>1. UNCHANGED <<host, refused>> /\ (lock' = NoOne \/ host.cooldown = 0)
    BY <1>1, <1>4, LockIs DEF history
  <2> QED BY <1>1, <2>1, NatFacts DEF Cooling
<1>5. ASSUME NEW p \in Scrapers, Release(p) PROVE Cooling'
  <2>1. /\ lock' = NoOne
        /\ \/ /\ refused'.row = refused.row + 1 /\ refused'.age = 0
              /\ host'.strikes = host.strikes + 1
              /\ host'.cooldown >= Doubled(host.strikes + 1)
           \/ refused'.row = 0 /\ host'.strikes = 0
    BY <1>1, <1>5, ReleaseIs
  <2>2. host.strikes = refused.row
    BY <1>1 DEF Cooling
  <2>3. Doubled(host.strikes + 1) \in Nat /\ host'.cooldown \in Nat
    BY <1>1, <1>2, <1>5, SpanIs, ReleaseIs DEF Typed
  <2> QED BY <1>2, <2>1, <2>2, <2>3, NatFacts DEF Cooling
<1>6. ASSUME NEW p \in Scrapers, Kill(p) PROVE Cooling'
  BY <1>1, <1>3, <1>6, KillIs
<1>7. ASSUME Tick PROVE Cooling'
  <2>1. /\ UNCHANGED lock /\ host'.strikes = host.strikes /\ refused'.row = refused.row
        /\ host'.cooldown = IF host.cooldown = 0 THEN 0 ELSE host.cooldown - 1
        /\ refused'.age = IF refused.row = 0 THEN 0 ELSE Lower(refused.age + 1, CooldownMax)
    BY <1>1, <1>7, TickIs
  <2>2. Doubled(refused.row) \in Nat /\ Doubled(refused.row) <= CooldownMax /\ CooldownMax \in Nat
    BY <1>2, SpanIs, NatFacts
  <2>3. refused.row > 0 => \/ refused'.age >= Doubled(refused.row)
                           \/ refused'.age + host'.cooldown >= Doubled(refused.row)
    BY <1>1, <1>2, <2>1, <2>2 DEF Cooling, Lower
  <2> QED BY <1>1, <2>1, <2>3 DEF Cooling
<1>8. ASSUME NEW p \in Scrapers, FailLocally(p) PROVE Cooling'
  BY <1>3, <1>8, NatFacts DEF FailLocally, history
<1>9. ASSUME NEW p \in Scrapers,
             LoadMeta(p) \/ LoadBody(p) \/ Awake(p) \/ Answer(p) \/ WriteMeta(p) \/ Refuse(p)
      PROVE  Cooling'
  <2>1. UNCHANGED <<host, refused, lock>>
    BY <1>9 DEF LoadMeta, LoadBody, Awake, Answer, WriteMeta, Refuse, history
  <2> QED BY <1>3, <2>1
<1>10. ASSUME SiteChanges \/ UNCHANGED vars PROVE Cooling'
  BY <1>3, <1>10 DEF SiteChanges, vars
<1> QED BY <1>4, <1>5, <1>6, <1>7, <1>8, <1>9, <1>10 DEF Next, Work

-----------------------------------------------------------------------------
(* The pages *)

\* The contents that the site has had, and has again, are not older than before.
Fresher == \A u \in Urls, v \in Contents : shown'[u][v] <= shown[u][v]

LEMMA RecentKept ==
  ASSUME Typed, Typed', Fresher, NEW u \in Urls, NEW m \in Meta, Recent(u, m)
  PROVE  Recent(u, m)'
<1>1. CASE m.tag # None /\ m.age < MaxAge
  <2>1. m.tag \in Contents /\ m.age \in Nat
    BY <1>1 DEF Meta
  <2>2. /\ shown[u][m.tag] \in Nat /\ shown'[u][m.tag] \in Nat
        /\ shown'[u][m.tag] <= shown[u][m.tag]
    BY <2>1 DEF Typed, Fresher
  <2> QED BY <1>1, <2>1, <2>2 DEF Recent
<1>2. CASE ~(m.tag # None /\ m.age < MaxAge)
  BY <1>2 DEF Recent
<1> QED BY <1>1, <1>2

\* The other scrapers: nobody changes a page that one of them is storing.
LEMMA OthersRead ==
  ASSUME Typed, Typed', Fresher, NEW q \in Scrapers, Reading(q),
         proc'[q] = proc[q], UrlOf(q)' = UrlOf(q), UNCHANGED body \/ lock # q
  PROVE  Reading(q)'
<1>1. UrlOf(q) \in Urls /\ proc[q].meta \in Meta
  BY PageIs DEF Typed, Proc
<1>2. Recent(UrlOf(q), proc[q].meta) => Recent(UrlOf(q), proc[q].meta)'
  <2>1. PICK u \in Urls, m \in Meta : u = UrlOf(q) /\ m = proc[q].meta
    BY <1>1
  <2>2. Recent(u, m) => Recent(u, m)'
    BY RecentKept
  <2> QED BY <2>1, <2>2 DEF Recent
<1>3. proc[q].pc = "meta" => /\ body'[UrlOf(q)] = body[UrlOf(q)]
                             /\ shown'[UrlOf(q)][proc[q].answer] = 0
  <2> SUFFICES ASSUME proc[q].pc = "meta"
               PROVE  /\ body'[UrlOf(q)] = body[UrlOf(q)]
                      /\ shown'[UrlOf(q)][proc[q].answer] = 0
    OBVIOUS
  <2>1. lock = q
    BY DEF Typed, Holding
  <2>2. proc[q].answer \in Contents /\ shown[UrlOf(q)][proc[q].answer] = 0
    BY DEF Reading
  <2>3. /\ shown'[UrlOf(q)][proc[q].answer] \in Nat
        /\ shown'[UrlOf(q)][proc[q].answer] <= 0
    BY <1>1, <2>2 DEF Typed, Fresher
  <2> QED BY <2>1, <2>3
<1> QED BY <1>2, <1>3 DEF Reading, Recent

\* A scraper between two pages.
LEMMA BetweenPages ==
  ASSUME NEW p \in Scrapers, proc'[p].pc = "next", proc'[p].body = None, proc'[p].mixed = FALSE
  PROVE  Reading(p)'
  BY DEF Reading

\* Nothing happens to the pages, nor to the site.
LEMMA SamePages ==
  ASSUME FetchInv, UNCHANGED <<meta, body, site, shown, torn>>
  PROVE  Cached' /\ Fresher
<1>1. Cached'
  BY DEF FetchInv, Cached, Recent
<1>2. Fresher
  BY DEF FetchInv, Typed, Fresher
<1> QED BY <1>1, <1>2

LEMMA LoadMetaReads ==
  ASSUME FetchInv, NEW p \in Scrapers, LoadMeta(p)
  PROVE  Cached' /\ \A q \in Scrapers : Reading(q)'
<1>1. /\ Typed /\ Typed' /\ Others(p) /\ proc[p].pc = "next"
      /\ UNCHANGED <<meta, body, site, shown, torn, agenda>>
      /\ proc'[p] = [proc[p] EXCEPT !.meta = meta[UrlOf(p)], !.served = None, !.idle = 0,
                        !.pc = IF meta[UrlOf(p)] = NoMeta THEN "lock" ELSE "body"]
  BY LoadMetaIs DEF FetchInv, LoadMeta, history
<1>2. Cached' /\ Fresher
  BY <1>1, SamePages
<1>3. UrlOf(p) \in Urls /\ proc[p] \in Proc
  BY <1>1, PageIs DEF Typed
<1>4. PICK m \in Meta : m = meta[UrlOf(p)]
  BY <1>1, <1>3 DEF Typed
<1>5. /\ proc'[p].meta = m /\ proc'[p].served = None /\ proc'[p].at = proc[p].at
      /\ proc'[p].pc = IF m = NoMeta THEN "lock" ELSE "body"
      /\ proc'[p].body = proc[p].body /\ proc'[p].mixed = proc[p].mixed
  BY <1>1, <1>3, <1>4 DEF Proc
<1>6. UrlOf(p)' = UrlOf(p)
  BY <1>1, <1>5 DEF UrlOf
<1>7. proc[p].body = None /\ ~proc[p].mixed
  BY <1>1 DEF FetchInv, Reading
<1>8. PICK u \in Urls : u = UrlOf(p)
  BY <1>3
<1>9. Recent(u, m) /\ Recent(u, m)'
  BY <1>1, <1>2, <1>4, <1>8, RecentKept DEF FetchInv, Cached
<1>10. Reading(p)'
  BY <1>5, <1>6, <1>7, <1>8, <1>9 DEF Reading, Recent, NoMeta
<1> QED BY <1>1, <1>2, <1>10, OthersRead DEF Others, FetchInv

\* A scraper that goes on with what it has read.
LEMMA SameReading ==
  ASSUME Typed, Typed', Fresher, NEW p \in Scrapers, Reading(p),
         NEW r \in Proc, proc'[p] = r, UNCHANGED agenda, r.at = proc[p].at,
         r.meta = proc[p].meta, r.served = proc[p].served,
         proc[p].pc \in {"body", "lock", "wait"}, r.pc \in {"lock", "wait", "ask"},
         ~r.mixed => r.body = r.meta.tag
  PROVE  Reading(p)'
<1>1. UrlOf(p)' = UrlOf(p)
  BY DEF UrlOf
<1>2. PICK u \in Urls, m \in Meta : u = UrlOf(p) /\ m = proc[p].meta
  BY PageIs DEF Typed, Proc
<1>3. Recent(u, m) /\ Recent(u, m)'
  BY <1>2, RecentKept DEF Reading
<1> QED BY <1>1, <1>2, <1>3 DEF Reading, Recent

\* What a scraper has read belongs together, if nobody was writing.
LEMMA NotMixed ==
  ASSUME FetchInv, NEW p \in Scrapers, ~Mixed(p)
  PROVE  body[UrlOf(p)] = proc[p].meta.tag
<1>1. UrlOf(p) \in Urls /\ UrlOf(p) \notin torn /\ meta[UrlOf(p)] = proc[p].meta
  BY PageIs DEF FetchInv, Mixed
<1> QED BY <1>1 DEF FetchInv, Cached

LEMMA LoadBodyReads ==
  ASSUME FetchInv, NEW p \in Scrapers, LoadBody(p)
  PROVE  Cached' /\ \A q \in Scrapers : Reading(q)'
<1>1. /\ Typed /\ Typed' /\ Others(p) /\ proc[p].pc = "body"
      /\ UNCHANGED <<meta, body, site, shown, torn, agenda>>
  BY LoadBodyIs DEF FetchInv, LoadBody, history
<1>0. PICK limit \in 0..MaxAge : proc'[p] = Looked(p, limit)
  BY LoadBodyIs DEF FetchInv
<1>2. Cached' /\ Fresher
  BY <1>1, SamePages
<1>3. UrlOf(p) \in Urls /\ proc[p] \in Proc /\ proc'[p] \in Proc /\ proc[p].meta \in Meta
  BY <1>1, PageIs DEF Typed, Proc
<1>4. Reading(p)'
  <2>1. CASE Fresh(proc[p].meta, limit)
    <3>1. PICK v \in Contents \cup {None} : v = Served(proc[p].meta, body[UrlOf(p)])
      BY <1>1, <1>3, ServedIs DEF Typed
    <3>2. proc'[p] = Over(p, v)
      BY <1>0, <2>1, <3>1 DEF Looked
    <3>3. /\ Over(p, v).pc = "next" /\ Over(p, v).body = None
          /\ Over(p, v).mixed = FALSE
      BY <1>1, OverIs
    <3> QED BY <3>2, <3>3, BetweenPages
  <2>2. CASE ~Fresh(proc[p].meta, limit)
    <3>1. PICK b \in Contents \cup {None}, x \in BOOLEAN : b = body[UrlOf(p)] /\ x = Mixed(p)
      BY <1>1, <1>3 DEF Typed, Mixed
    <3>2. proc'[p] = [proc[p] EXCEPT !.pc = "lock", !.body = b, !.mixed = x]
      BY <1>0, <2>2, <3>1 DEF Looked
    <3>3. /\ proc'[p].pc = "lock" /\ proc'[p].body = b /\ proc'[p].mixed = x
          /\ proc'[p].meta = proc[p].meta /\ proc'[p].at = proc[p].at
          /\ proc'[p].served = proc[p].served
      BY <1>3, <3>2 DEF Proc
    <3>4. ~x => b = proc[p].meta.tag
      BY <3>1, NotMixed
    <3> QED BY <1>1, <1>2, <1>3, <3>3, <3>4, SameReading DEF FetchInv
  <2> QED BY <2>1, <2>2
<1> QED BY <1>1, <1>2, <1>4, OthersRead DEF Others, FetchInv

LEMMA LockReads ==
  ASSUME FetchInv, NEW p \in Scrapers, Lock(p)
  PROVE  Cached' /\ \A q \in Scrapers : Reading(q)'
<1>1. /\ Typed /\ Typed' /\ Others(p) /\ proc[p].pc = "lock"
      /\ UNCHANGED <<meta, body, site, shown, torn, agenda>>
      /\ \/ proc'[p] = Over(p, Served(proc[p].meta, proc[p].body))
         \/ \E pc \in {"ask", "wait"} : proc'[p] = [proc[p] EXCEPT !.pc = pc]
  BY LockIs DEF FetchInv, history
<1>2. Cached' /\ Fresher
  BY <1>1, SamePages
<1>3. /\ proc[p] \in Proc /\ proc'[p] \in Proc /\ proc[p].meta \in Meta
      /\ proc[p].body \in Contents \cup {None}
  BY <1>1 DEF Typed, Proc
<1>4. Reading(p)'
  <2>1. CASE proc'[p] = Over(p, Served(proc[p].meta, proc[p].body))
    <3>1. PICK v \in Contents \cup {None} : v = Served(proc[p].meta, proc[p].body)
      BY <1>3, ServedIs
    <3>2. proc'[p] = Over(p, v)
      BY <2>1, <3>1
    <3>3. /\ Over(p, v).pc = "next" /\ Over(p, v).body = None
          /\ Over(p, v).mixed = FALSE
      <4>1. Typed
        BY <1>1
      <4> QED BY <4>1, OverIs
    <3> QED BY <3>2, <3>3, BetweenPages
  <2>2. CASE \E pc \in {"ask", "wait"} : proc'[p] = [proc[p] EXCEPT !.pc = pc]
    <3>1. PICK pc \in {"ask", "wait"} : proc'[p] = [proc[p] EXCEPT !.pc = pc]
      BY <2>2
    <3>2. /\ proc'[p].pc = pc /\ proc'[p].body = proc[p].body /\ proc'[p].mixed = proc[p].mixed
          /\ proc'[p].meta = proc[p].meta /\ proc'[p].at = proc[p].at
          /\ proc'[p].served = proc[p].served
      BY <1>3, <3>1 DEF Proc
    <3>3. ~proc[p].mixed => proc[p].body = proc[p].meta.tag
      BY <1>1 DEF FetchInv, Reading
    <3> QED BY <1>1, <1>2, <1>3, <3>2, <3>3, SameReading DEF FetchInv
  <2> QED BY <1>1, <2>1, <2>2
<1> QED BY <1>1, <1>2, <1>4, OthersRead DEF Others, FetchInv

LEMMA AwakeReads ==
  ASSUME FetchInv, NEW p \in Scrapers, Awake(p)
  PROVE  Cached' /\ \A q \in Scrapers : Reading(q)'
<1>1. /\ Typed /\ Typed' /\ Others(p) /\ proc[p].pc = "wait"
      /\ UNCHANGED <<meta, body, site, shown, torn, agenda>>
      /\ proc'[p] = [proc[p] EXCEPT !.pc = "ask"]
  BY AwakeIs DEF FetchInv, Awake, history
<1>2. Cached' /\ Fresher
  BY <1>1, SamePages
<1>3. proc[p] \in Proc /\ proc'[p] \in Proc
  BY <1>1 DEF Typed
<1>4. /\ proc'[p].pc = "ask" /\ proc'[p].body = proc[p].body /\ proc'[p].mixed = proc[p].mixed
      /\ proc'[p].meta = proc[p].meta /\ proc'[p].at = proc[p].at
      /\ proc'[p].served = proc[p].served
  BY <1>1, <1>3 DEF Proc
<1>5. ~proc[p].mixed => proc[p].body = proc[p].meta.tag
  BY <1>1 DEF FetchInv, Reading
<1>6. Reading(p)'
  BY <1>1, <1>2, <1>3, <1>4, <1>5, SameReading DEF FetchInv
<1> QED BY <1>1, <1>2, <1>6, OthersRead DEF Others, FetchInv

\* An answer is written to the page by who has the lock.
LEMMA AnswerReads ==
  ASSUME FetchInv, NEW p \in Scrapers, Answer(p)
  PROVE  Cached' /\ \A q \in Scrapers : Reading(q)'
<1> DEFINE m == proc[p].meta
<1>1. /\ Typed /\ Typed' /\ Others(p) /\ proc[p].pc = "ask" /\ lock = p
      /\ UNCHANGED <<site, shown, agenda>>
  BY AnswerIs DEF FetchInv
<1>2. PICK u \in Urls : u = UrlOf(p)
  BY <1>1, PageIs
<1>3. /\ proc[p] \in Proc /\ m \in Meta /\ proc[p].body \in Contents \cup {None}
      /\ site[u] \in Contents
  BY <1>1, <1>2 DEF Typed, Proc
<1>4. Fresher
  BY <1>1 DEF Typed, Fresher
<1>5. \A q \in Scrapers \ {p} : Reading(q)'
  BY <1>1, <1>4, OthersRead DEF Others, FetchInv
<1>6. \/ /\ m.tag = site[u]
         /\ meta' = [meta EXCEPT ![u] = [m EXCEPT !.age = 0]]
         /\ torn' = IF body[u] # m.tag THEN torn \cup {u} ELSE torn
         /\ proc'[p].pc = "state" /\ UNCHANGED body
      \/ /\ body' = [body EXCEPT ![u] = site[u]]
         /\ torn' = torn \cup {u}
         /\ proc'[p] = [proc[p] EXCEPT !.pc = "meta", !.answer = site[u],
                           !.request = FreeNumber,
                           !.served = IF site[u] = Gone THEN None ELSE site[u]]
         /\ UNCHANGED meta
  <2>1. CASE /\ NotModified(p)
             /\ meta' = [meta EXCEPT ![UrlOf(p)] = [m EXCEPT !.age = 0]]
             /\ torn' = IF body[UrlOf(p)] # m.tag THEN torn \cup {UrlOf(p)} ELSE torn
             /\ proc'[p] = [proc[p] EXCEPT !.pc = "state", !.answer = "fine",
                               !.request = FreeNumber,
                               !.served = Served(m, proc[p].body)]
             /\ UNCHANGED body
    <3>1. proc'[p].pc = "state"
      BY <1>3, <2>1 DEF Proc
    <3> QED BY <1>2, <2>1, <3>1 DEF NotModified
  <2>2. CASE /\ body' = [body EXCEPT ![UrlOf(p)] = site[UrlOf(p)]]
             /\ torn' = torn \cup {UrlOf(p)}
             /\ proc'[p] = [proc[p] EXCEPT !.pc = "meta", !.answer = site[UrlOf(p)],
                               !.request = FreeNumber,
                               !.served = IF site[UrlOf(p)] = Gone THEN None ELSE site[UrlOf(p)]]
             /\ UNCHANGED meta
    BY <1>2, <2>2
  <2> QED BY <2>1, <2>2, AnswerIs DEF FetchInv
<1>7. CASE /\ m.tag = site[u]
           /\ meta' = [meta EXCEPT ![u] = [m EXCEPT !.age = 0]]
           /\ torn' = IF body[u] # m.tag THEN torn \cup {u} ELSE torn
           /\ proc'[p].pc = "state" /\ UNCHANGED body
  <2>1. Reading(p)'
    BY <1>7 DEF Reading
  <2>2. /\ meta'[u].tag = site[u] /\ meta'[u].age = 0
        /\ \A v \in Urls : v # u => meta'[v] = meta[v]
    <3>1. meta \in [Urls -> Meta]
      BY <1>1 DEF Typed
    <3>2. PICK x \in Meta : x = [m EXCEPT !.age = 0] /\ x.tag = m.tag /\ x.age = 0
      <4>1. /\ [m EXCEPT !.age = 0] \in Meta /\ [m EXCEPT !.age = 0].tag = m.tag
            /\ [m EXCEPT !.age = 0].age = 0
        BY <1>3 DEF Meta
      <4> QED BY <4>1
    <3>3. meta' = [meta EXCEPT ![u] = x]
      BY <1>7, <3>2
    <3> QED BY <1>7, <3>1, <3>2, <3>3
  <2>3. Cached'
    <3> SUFFICES ASSUME NEW v \in Urls
                 PROVE  /\ shown[v][site[v]] = 0 /\ Recent(v, meta[v])'
                        /\ v \notin torn' => body[v] = meta'[v].tag
      BY <1>1, <1>7 DEF Cached
    <3>1. shown[v][site[v]] = 0 /\ Recent(v, meta[v]) /\ (v \notin torn => body[v] = meta[v].tag)
      BY DEF FetchInv, Cached
    <3>2. CASE v = u
      BY <1>1, <1>7, <2>2, <3>1, <3>2 DEF Recent
    <3>3. CASE v # u
      BY <1>1, <1>7, <2>2, <3>1, <3>3 DEF Recent
    <3> QED BY <3>2, <3>3
  <2> QED BY <1>5, <2>1, <2>3
<1>8. CASE /\ body' = [body EXCEPT ![u] = site[u]]
           /\ torn' = torn \cup {u}
           /\ proc'[p] = [proc[p] EXCEPT !.pc = "meta", !.answer = site[u],
                             !.request = FreeNumber,
                             !.served = IF site[u] = Gone THEN None ELSE site[u]]
           /\ UNCHANGED meta
  <2>1. /\ proc'[p].pc = "meta" /\ proc'[p].answer = site[u] /\ proc'[p].at = proc[p].at
        /\ proc'[p].served = IF site[u] = Gone THEN None ELSE site[u]
    BY <1>3, <1>8 DEF Proc
  <2>2. UrlOf(p)' = u
    BY <1>1, <1>2, <2>1 DEF UrlOf
  <2>3. body'[u] = site[u] /\ \A v \in Urls : v # u => body'[v] = body[v]
    BY <1>1, <1>8 DEF Typed
  <2>4. shown[u][site[u]] = 0
    BY DEF FetchInv, Cached
  <2>5. Reading(p)'
    BY <1>1, <1>3, <2>1, <2>2, <2>3, <2>4 DEF Reading
  <2>6. Cached'
    BY <1>1, <1>8, <2>3 DEF FetchInv, Cached, Recent
  <2> QED BY <1>5, <2>5, <2>6
<1> QED BY <1>6, <1>7, <1>8

\* Body and metadata of the page belong together again.
LEMMA WriteMetaReads ==
  ASSUME FetchInv, NEW p \in Scrapers, WriteMeta(p)
  PROVE  Cached' /\ \A q \in Scrapers : Reading(q)'
<1>1. /\ Typed /\ Reading(p) /\ proc[p].pc = "meta"
      /\ UNCHANGED <<body, site, shown, agenda, lock>>
  BY DEF FetchInv, WriteMeta
<1>2. PICK u \in Urls, a \in Contents :
        u = UrlOf(p) /\ a = proc[p].answer /\ shown[u][a] = 0 /\ body[u] = a
  BY <1>1, PageIs DEF Reading
<1>3. /\ Typed' /\ Others(p) /\ torn' = torn \ {u}
      /\ meta' = [meta EXCEPT ![u] = [tag |-> a, age |-> 0]]
      /\ proc'[p] = [proc[p] EXCEPT !.pc = "state", !.answer = "fine"]
  BY <1>1, <1>2, WriteMetaIs
<1>4. Fresher
  BY <1>1 DEF Typed, Fresher
<1>5. Reading(p)'
  <2>1. proc[p] \in Proc
    BY <1>1 DEF Typed
  <2>2. proc'[p].pc = "state"
    BY <1>3, <2>1 DEF Proc
  <2> QED BY <2>2 DEF Reading
<1>6. /\ meta'[u].tag = a /\ meta'[u].age = 0
      /\ \A v \in Urls : v # u => meta'[v] = meta[v]
  BY <1>1, <1>3 DEF Typed
<1>7. Cached'
  <2> SUFFICES ASSUME NEW v \in Urls
               PROVE  /\ shown[v][site[v]] = 0 /\ Recent(v, meta[v])'
                      /\ v \notin torn' => body[v] = meta'[v].tag
    BY <1>1 DEF Cached
  <2>1. shown[v][site[v]] = 0 /\ Recent(v, meta[v]) /\ (v \notin torn => body[v] = meta[v].tag)
    BY DEF FetchInv, Cached
  <2>2. CASE v = u
    BY <1>1, <1>2, <1>6, <2>1, <2>2 DEF Recent
  <2>3. CASE v # u
    BY <1>1, <1>3, <1>6, <2>1, <2>3 DEF Recent
  <2> QED BY <2>2, <2>3
<1> QED BY <1>1, <1>3, <1>4, <1>5, <1>7, OthersRead DEF Others, FetchInv

\* The end of a get, refused, charged or cut off, leaves the pages alone.
LEMMA EndReads ==
  ASSUME FetchInv, NEW p \in Scrapers,
         Refuse(p) \/ FailLocally(p) \/ Release(p) \/ Kill(p)
  PROVE  Cached' /\ \A q \in Scrapers : Reading(q)'
<1>1. /\ Typed /\ proc[p] \in Proc /\ proc[p].meta \in Meta
      /\ proc[p].body \in Contents \cup {None} /\ proc[p].served \in Contents \cup {None}
  BY DEF FetchInv, Typed, Proc
<1>2. PICK v \in Contents \cup {None} : v = Served(proc[p].meta, proc[p].body)
  BY <1>1, ServedIs
<1>3. UNCHANGED <<meta, body, site, shown, torn>>
  BY DEF Refuse, FailLocally, Release, Kill, history
<1>4. Typed' /\ Others(p)
  BY <1>1, RefuseIs, FailLocallyIs, ReleaseIs, KillIs
<1>5. Reading(p)'
  <2>1. CASE Refuse(p)
    <3>1. proc'[p] = [proc[p] EXCEPT !.pc = "state", !.answer = "refused",
                           !.request = FreeNumber,
                           !.served = Served(proc[p].meta, proc[p].body)]
      BY <1>1, <2>1, RefuseIs
    <3>2. proc'[p].pc = "state"
      BY <1>1, <3>1 DEF Proc
    <3> QED BY <3>2 DEF Reading
  <2>2. CASE FailLocally(p)
    <3>1. proc'[p] = Over(p, v)
      BY <1>1, <1>2, <2>2, FailLocallyIs
    <3>2. /\ Over(p, v).pc = "next" /\ Over(p, v).body = None
          /\ Over(p, v).mixed = FALSE
      BY <1>1, OverIs
    <3> QED BY <3>1, <3>2, BetweenPages
  <2>3. CASE Release(p)
    <3>1. PICK w \in Contents \cup {None} : w = proc[p].served
      BY <1>1
    <3>2. proc'[p] = Over(p, w)
      BY <1>1, <2>3, <3>1, ReleaseIs
    <3>3. /\ Over(p, w).pc = "next" /\ Over(p, w).body = None
          /\ Over(p, w).mixed = FALSE
      BY <1>1, OverIs
    <3> QED BY <3>2, <3>3, BetweenPages
  <2>4. CASE Kill(p)
    <3>1. proc'[p] = Idle
      BY <1>1, <2>4, KillIs
    <3>2. proc'[p].pc = "next" /\ proc'[p].body = None /\ proc'[p].mixed = FALSE
      BY <3>1 DEF Idle
    <3> QED BY <3>2, BetweenPages
  <2> QED BY <2>1, <2>2, <2>3, <2>4
<1> QED BY <1>1, <1>3, <1>4, <1>5, SamePages, OthersRead DEF Others, FetchInv

\* A content that the site gets is as new as can be.
LEMMA SiteChangesReads ==
  ASSUME FetchInv, SiteChanges
  PROVE  Cached' /\ \A q \in Scrapers : Reading(q)'
<1>1. /\ Typed /\ Typed' /\ agenda'.urls = agenda.urls
      /\ UNCHANGED <<meta, body, proc, torn, lock>>
  BY SiteChangesIs DEF FetchInv
<1>2. PICK u \in Urls, v \in Contents :
        site' = [site EXCEPT ![u] = v] /\ shown' = [shown EXCEPT ![u][v] = 0]
  BY <1>1, SiteChangesIs
<1>3. \A x \in Urls, c \in Contents :
        /\ shown[x][c] \in Nat
        /\ shown'[x][c] = IF x = u /\ c = v THEN 0 ELSE shown[x][c]
  BY <1>1, <1>2 DEF Typed
<1>4. \A x \in Urls : /\ site[x] \in Contents
                      /\ site'[x] = IF x = u THEN v ELSE site[x]
  BY <1>1, <1>2 DEF Typed
<1>5. Fresher
  BY <1>3 DEF Fresher
<1>6. Cached'
  <2> SUFFICES ASSUME NEW x \in Urls
               PROVE  /\ shown'[x][site'[x]] = 0 /\ Recent(x, meta[x])'
                      /\ x \notin torn => body[x] = meta[x].tag
    BY <1>1 DEF Cached
  <2>1. shown[x][site[x]] = 0 /\ Recent(x, meta[x]) /\ (x \notin torn => body[x] = meta[x].tag)
    BY DEF FetchInv, Cached
  <2>2. PICK m \in Meta : m = meta[x]
    BY <1>1 DEF Typed
  <2>3. Recent(x, m)'
    BY <1>1, <1>5, <2>1, <2>2, RecentKept
  <2>4. shown'[x][site'[x]] = 0
    BY <1>3, <1>4, <2>1
  <2> QED BY <1>1, <2>1, <2>2, <2>3, <2>4 DEF Recent
<1>7. \A q \in Scrapers : UrlOf(q)' = UrlOf(q)
  BY <1>1 DEF UrlOf
<1> QED BY <1>1, <1>5, <1>6, <1>7, OthersRead DEF FetchInv

\* Everything grows older alike.
LEMMA TickReads ==
  ASSUME FetchInv, Tick
  PROVE  Cached' /\ \A q \in Scrapers : Reading(q)'
<1>1. /\ Typed /\ Typed' /\ UNCHANGED <<body, site, torn>>
  BY TickIs DEF FetchInv
<1>2. ASSUME NEW u \in Urls, NEW m \in Meta, NEW n \in Meta, Recent(u, m),
             (n = m /\ m.tag = None) \/ (n.tag = m.tag /\ n.age = Older(m.age))
      PROVE  Recent(u, n)'
  <2> SUFFICES ASSUME n.tag # None, n.age < MaxAge PROVE shown'[u][n.tag] <= n.age
    BY DEF Recent
  <2>1. n.tag \in Contents /\ n.tag = m.tag /\ n.age = m.age + 1 /\ m.age < MaxAge /\ m.age \in Nat
    BY <1>2, OlderIs, NatFacts DEF Meta
  <2>2. shown[u][m.tag] \in Nat /\ shown[u][m.tag] <= m.age
    BY <1>1, <1>2, <2>1, NatFacts DEF Recent, Typed
  <2>3. shown'[u][m.tag] = IF m.tag = site[u] THEN 0 ELSE Lower(shown[u][m.tag] + 1, MaxAge + 1)
    BY <2>1, TickIs DEF FetchInv
  <2> QED BY <2>1, <2>2, <2>3, NatFacts DEF Lower
<1>3. Cached'
  <2> SUFFICES ASSUME NEW u \in Urls
               PROVE  /\ shown'[u][site[u]] = 0 /\ Recent(u, meta[u])'
                      /\ u \notin torn => body[u] = meta'[u].tag
    BY <1>1 DEF Cached
  <2>1. shown[u][site[u]] = 0 /\ Recent(u, meta[u]) /\ (u \notin torn => body[u] = meta[u].tag)
    BY DEF FetchInv, Cached
  <2>2. PICK m \in Meta, n \in Meta : m = meta[u] /\ n = meta'[u]
    BY <1>1 DEF Typed
  <2>3. (n = m /\ m.tag = None) \/ (n.tag = m.tag /\ n.age = Older(m.age))
    BY <1>1, <2>2, TickIs DEF NoMeta
  <2>4. Recent(u, n)'
    BY <1>2, <2>1, <2>2, <2>3
  <2>5. shown'[u][site[u]] = 0
    BY <1>1, TickIs DEF Typed
  <2> QED BY <2>1, <2>2, <2>3, <2>4, <2>5 DEF Recent
<1>4. ASSUME NEW q \in Scrapers PROVE Reading(q)'
  <2>1. /\ UrlOf(q)' = UrlOf(q) /\ proc[q].pc \in {"next", "wait", "lock"}
        /\ proc'[q].pc = proc[q].pc /\ proc'[q].body = proc[q].body
        /\ proc'[q].mixed = proc[q].mixed /\ proc'[q].served = None
        /\ \/ proc'[q].meta = proc[q].meta /\ proc[q].meta = NoMeta
           \/ /\ proc'[q].meta.tag = proc[q].meta.tag
              /\ proc'[q].meta.age = Older(proc[q].meta.age)
    BY <1>1, TickIs
  <2>2. Reading(q)
    BY DEF FetchInv
  <2>3. PICK u \in Urls, m \in Meta, n \in Meta :
          u = UrlOf(q) /\ m = proc[q].meta /\ n = proc'[q].meta
    BY <1>1, PageIs DEF Typed, Proc
  <2>4. (n = m /\ m.tag = None) \/ (n.tag = m.tag /\ n.age = Older(m.age))
    BY <2>1, <2>3 DEF NoMeta
  <2>5. Recent(u, m) => Recent(u, n)'
    BY <1>2, <2>4
  <2> QED BY <2>1, <2>2, <2>3, <2>4, <2>5 DEF Reading, Recent
<1> QED BY <1>3, <1>4

-----------------------------------------------------------------------------
(* The invariant *)

LEMMA FetchInit == Init => FetchInv
<1> SUFFICES ASSUME Init PROVE FetchInv
  OBVIOUS
<1>1. /\ meta = [u \in Urls |-> NoMeta] /\ body = [u \in Urls |-> None]
      /\ host = NewHost /\ lock = NoOne /\ agenda \in Agendas
      /\ sent = NoRequests /\ refused = [row |-> 0, age |-> 0] /\ torn = {} /\ kills = 0
      /\ shown = [u \in Urls |-> [v \in Contents |-> IF v = site[u] THEN 0 ELSE MaxAge + 1]]
  BY DEF Init
<1>2. PICK r : r = [Idle EXCEPT !.idle = 1]
  OBVIOUS
<1>3. proc = [p \in Scrapers |-> r]
  BY <1>2 DEF Init
<1>4. /\ r \in Proc /\ r.pc = "next" /\ r.at = 1 /\ r.body = None /\ r.mixed = FALSE
  <2>1. /\ Idle \in Proc /\ Idle.pc = "next" /\ Idle.at = 1 /\ Idle.body = None
        /\ Idle.mixed = FALSE
    BY DEF Idle, NoMeta, Proc, Meta
  <2> QED BY <1>2, <2>1 DEF Proc
<1>5. site \in [Urls -> Contents]
  BY DEF Init, Contents
<1>6. shown \in [Urls -> [Contents -> Nat]] /\ \A u \in Urls : shown[u][site[u]] = 0
  BY <1>1, <1>5, NatFacts
<1>7. /\ NoRequests \in Ages /\ DOMAIN NoRequests = {} /\ IsFiniteSet(DOMAIN NoRequests)
      /\ Cardinality(DOMAIN NoRequests) = 0
  <2>1. NoRequests \in [{} -> Nat] /\ DOMAIN NoRequests = {}
    BY DEF NoRequests
  <2> QED BY <2>1, FS_EmptySet DEF Ages
<1>8. /\ agenda \in Agenda /\ 1 \in DOMAIN agenda.urls /\ agenda.budget \in Nat
  <2>1. agenda \in [urls : Seq(Range(agenda.urls)) \ {<<>>},
                    limits : [Urls -> (SUBSET (0..MaxAge)) \ {{}}],
                    budget : Nat, gap : Nat, kills : Nat, refusals : Nat, changes : Nat]
    BY <1>1, FetcherAssumption
  <2>2. Range(agenda.urls) \subseteq Urls
    BY <1>1 DEF Urls
  <2>3. agenda.urls \in Seq(Urls) \ {<<>>}
    BY <2>1, <2>2
  <2>4. 1 \in DOMAIN agenda.urls
    BY <2>3
  <2>5. agenda.limits \in [Urls -> SUBSET (0..MaxAge)]
    BY <2>1
  <2> QED BY <2>1, <2>3, <2>4, <2>5 DEF Agenda
<1>9. Typed
  <2>1. NoMeta \in Meta
    BY DEF NoMeta, Meta
  <2>2. host \in [requests : Ages, strikes : Nat, cooldown : Nat]
    BY <1>1, <1>7 DEF NewHost
  <2> QED BY <1>1, <1>3, <1>4, <1>5, <1>6, <1>7, <1>8, <2>1, <2>2, NatFacts DEF Typed, Holding
<1>10. Flying = {}
  BY <1>3, <1>4 DEF Flying
<1>11. host.requests = NoRequests /\ host.strikes = 0
  BY <1>1 DEF NewHost
<1>12. Counted
  <2>1. Lost = {}
    BY <1>1, <1>7, <1>11 DEF Lost
  <2>2. Cardinality(Lost) = 0
    BY <2>1, FS_EmptySet
  <2> QED BY <1>1, <1>7, <1>8, <1>10, <1>11, <2>2, NatFacts DEF Counted
<1>13. Cooling
  BY <1>1, <1>11, NatFacts DEF Cooling
<1>14. Cached
  BY <1>1, <1>6 DEF Cached, Recent, NoMeta
<1>15. \A p \in Scrapers : Reading(p)
  BY <1>3, <1>4 DEF Reading
<1> QED BY <1>9, <1>12, <1>13, <1>14, <1>15 DEF FetchInv

LEMMA TypedStep ==
  ASSUME FetchInv, [Next]_vars PROVE Typed'
<1>1. Typed
  BY DEF FetchInv
<1>2. ASSUME NEW p \in Scrapers, WriteMeta(p) PROVE Typed'
  <2>1. proc[p].answer \in Contents
    BY <1>2 DEF FetchInv, Reading, WriteMeta
  <2> QED BY <1>1, <1>2, <2>1, WriteMetaIs
<1>3. ASSUME NEW p \in Scrapers,
             \/ LoadMeta(p) \/ LoadBody(p) \/ Lock(p) \/ Awake(p) \/ Answer(p)
             \/ Release(p) \/ Refuse(p) \/ FailLocally(p) \/ Kill(p)
      PROVE  Typed'
  BY <1>1, <1>3, LoadMetaIs, LoadBodyIs, LockIs, AwakeIs, AnswerIs, ReleaseIs,
     RefuseIs, FailLocallyIs, KillIs
<1>4. ASSUME SiteChanges \/ Tick PROVE Typed'
  BY <1>1, <1>4, SiteChangesIs, TickIs
<1>5. CASE UNCHANGED vars
  BY <1>1, <1>5 DEF vars, Typed
<1> QED BY <1>2, <1>3, <1>4, <1>5 DEF Next, Work

LEMMA PagesStep ==
  ASSUME FetchInv, [Next]_vars PROVE Cached' /\ \A p \in Scrapers : Reading(p)'
<1>1. ASSUME NEW p \in Scrapers, Work(p) \/ Refuse(p) \/ FailLocally(p) \/ Kill(p)
      PROVE  Cached' /\ \A q \in Scrapers : Reading(q)'
  BY <1>1, LoadMetaReads, LoadBodyReads, LockReads, AwakeReads, AnswerReads,
     WriteMetaReads, EndReads DEF Work
<1>2. ASSUME SiteChanges \/ Tick PROVE Cached' /\ \A q \in Scrapers : Reading(q)'
  BY <1>2, SiteChangesReads, TickReads
<1>3. CASE UNCHANGED vars
  BY <1>3 DEF FetchInv, vars, Cached, Reading, Recent, UrlOf
<1> QED BY <1>1, <1>2, <1>3 DEF Next

THEOREM FetchInvariant == Spec => []FetchInv
<1>1. FetchInv /\ [Next]_vars => FetchInv'
  <2>1. FetchInv /\ [Next]_vars => Typed' /\ Counted' /\ Cooling'
    BY TypedStep, CountStep, CoolStep
  <2>2. FetchInv /\ [Next]_vars => Cached' /\ \A p \in Scrapers : Reading(p)'
    BY PagesStep
  <2> QED BY <2>1, <2>2 DEF FetchInv
<1> QED BY FetchInit, <1>1, PTL DEF Spec

\* BudgetKept, for any number of scrapers, any budget and any number of kills:
\* counting under the lock and on file is enough ("at most N requests in any 24
\* hours, across every process and run").
THEOREM BudgetIsKept == Spec => []BudgetKept
<1>1. FetchInv => BudgetKept
  <2> SUFFICES ASSUME FetchInv PROVE BudgetKept
    OBVIOUS
  <2> DEFINE F == DOMAIN host.requests
  <2>1. Typed /\ Counted
    BY DEF FetchInv
  <2>2. /\ IsFiniteSet(F) /\ IsFiniteSet(Lost) /\ Cardinality(F) \in Nat
        /\ Cardinality(Lost) \in Nat /\ agenda.budget \in Nat /\ kills \in Nat
        /\ Cardinality(Lost) <= kills /\ Cardinality(F) <= agenda.budget
    BY <2>1, Finite DEF Typed, Agenda, Counted
  <2>3. /\ IsFiniteSet(F \cup Lost)
        /\ Cardinality(F \cup Lost) <= Cardinality(F) + Cardinality(Lost)
        /\ Cardinality(F \cup Lost) \in Nat
    <3>1. /\ IsFiniteSet(F \cup Lost)
          /\ Cardinality(F \cup Lost) =
                Cardinality(F) + Cardinality(Lost) - Cardinality(F \cap Lost)
      BY <2>2, FS_Union
    <3>2. IsFiniteSet(F \cap Lost)
      BY <2>2, FS_Intersection
    <3>3. Cardinality(F \cap Lost) \in Nat /\ Cardinality(F \cup Lost) \in Nat
      BY <3>1, <3>2, FS_CardinalityType
    <3> QED BY <2>2, <3>1, <3>3
  <2>4. DOMAIN sent \subseteq F \cup Lost \cup Flying
    BY DEF Lost
  <2>5. CASE Flying = {}
    <3>1. Cardinality(DOMAIN sent) <= Cardinality(F \cup Lost)
          /\ Cardinality(DOMAIN sent) \in Nat
      BY <2>3, <2>4, <2>5, FS_Subset, FS_CardinalityType
    <3> QED BY <2>2, <2>3, <3>1 DEF BudgetKept
  <2>6. CASE Flying # {}
    <3>1. PICK p \in Scrapers : lock = p /\ Flying \subseteq {proc[p].request}
      BY <2>1, <2>6, FlyingIs
    <3>2. Cardinality(F) < agenda.budget
      BY <2>1, <3>1 DEF Counted
    <3>3. /\ IsFiniteSet(F \cup Lost \cup {proc[p].request})
          /\ Cardinality(F \cup Lost \cup {proc[p].request}) <= Cardinality(F \cup Lost) + 1
          /\ Cardinality(F \cup Lost \cup {proc[p].request}) \in Nat
      <4>1. PICK S : S = F \cup Lost
        OBVIOUS
      <4>2. /\ IsFiniteSet(S \cup {proc[p].request})
            /\ \/ Cardinality(S \cup {proc[p].request}) = Cardinality(S)
               \/ Cardinality(S \cup {proc[p].request}) = Cardinality(S) + 1
        BY <2>3, <4>1, FS_AddElement
      <4> QED BY <2>3, <4>1, <4>2
    <3>4. Cardinality(DOMAIN sent) <= Cardinality(F \cup Lost \cup {proc[p].request})
          /\ Cardinality(DOMAIN sent) \in Nat
      <4>1. DOMAIN sent \subseteq F \cup Lost \cup {proc[p].request}
        BY <2>4, <3>1
      <4> QED BY <3>3, <4>1, FS_Subset, FS_CardinalityType
    <3> QED BY <2>2, <2>3, <3>2, <3>3, <3>4 DEF BudgetKept
  <2> QED BY <2>5, <2>6
<1> QED BY <1>1, FetchInvariant, PTL

\* CooldownKept, for any span and any row of refusals: whoever asks has seen,
\* under the lock, that the cooldown of the last refusal is over ("Nothing is sent
\* to it meanwhile").
THEOREM CooldownIsKept == Spec => CooldownKept
<1>1. FetchInv /\ [Next]_vars =>
        [~(DOMAIN sent' \subseteq DOMAIN sent) /\ refused.row > 0 =>
            refused.age >= Doubled(refused.row)]_vars
  <2> SUFFICES ASSUME FetchInv, [Next]_vars, ~(DOMAIN sent' \subseteq DOMAIN sent),
                      refused.row > 0
               PROVE  refused.age >= Doubled(refused.row)
    OBVIOUS
  <2>1. Typed /\ Cooling
    BY DEF FetchInv
  <2>2. ~Tick
    <3> SUFFICES ASSUME Tick PROVE FALSE
      OBVIOUS
    <3>1. sent' = Aged(sent) /\ sent \in Ages
      BY <2>1, TickIs DEF Typed
    <3>2. DOMAIN sent' = {k \in DOMAIN sent : sent[k] + 1 < Day}
      BY <3>1, AgedIs
    <3> QED BY <3>2
  <2>3. sent' # sent
    OBVIOUS
  <2>4. PICK p \in Scrapers : Answer(p) \/ Refuse(p)
    BY <2>2, <2>3 DEF Next, Work, LoadMeta, LoadBody, Lock, Awake, WriteMeta, Release,
       FailLocally, Kill, SiteChanges, history, vars
  <2>5. lock = p
    BY <2>1, <2>4, AnswerIs, RefuseIs
  <2>6. host.cooldown = 0
    BY <2>1, <2>5 DEF Cooling
  <2>7. refused.age \in Nat
    BY <2>1 DEF Typed
  <2> QED BY <2>1, <2>6, <2>7 DEF Cooling
<1> QED BY <1>1, FetchInvariant, PTL DEF Spec, CooldownKept

\* What a scraper does not change itself was answered before.
LEMMA AnsweredBefore ==
  ASSUME FetchInv, NEW p \in Scrapers, proc[p].pc \in {"body", "lock", "ask", "meta"},
         proc'[p].served \in {None, proc[p].served}
  PROVE  Confirmed(p)
<1>1. Reading(p) /\ proc[p].served \in Contents \cup {None}
  BY DEF FetchInv, Typed, Proc
<1>2. CASE proc[p].pc = "meta"
  BY <1>1, <1>2, NatFacts DEF Reading, Confirmed
<1>3. CASE proc[p].pc # "meta"
  BY <1>1, <1>3, NatFacts DEF Reading, Confirmed
<1> QED BY <1>2, <1>3

LEMMA FreshIsConfirmed ==
  ASSUME FetchInv, NEW p \in Scrapers, LoadBody(p), ~Mixed(p)
  PROVE  Confirmed(p)
<1>1. Typed /\ proc[p].pc = "body"
  BY LoadBodyIs DEF FetchInv
<1>0. PICK limit \in agenda.limits[UrlOf(p)] :
        limit \in 0..MaxAge /\ proc'[p] = Looked(p, limit)
  BY LoadBodyIs DEF FetchInv
<1>2. PICK u \in Urls, m \in Meta : u = UrlOf(p) /\ m = proc[p].meta
  BY <1>1, PageIs DEF Typed, Proc
<1>3. PICK b \in Contents \cup {None} : b = body[u]
  BY <1>1 DEF Typed
<1>4. b = m.tag /\ Recent(u, m)
  BY <1>1, <1>2, <1>3, NotMixed DEF FetchInv, Reading
<1>5. CASE Fresh(m, limit)
  <2>1. PICK v \in Contents \cup {None} : v = Served(m, b)
    BY ServedIs
  <2>2. v # Gone /\ (v # None => v = m.tag)
    BY <1>4, <2>1, ServedIs
  <2>3. proc'[p].served = v
    <3>1. proc'[p] = Over(p, v)
      BY <1>0, <1>2, <1>3, <1>5, <2>1 DEF Looked
    <3>2. Over(p, v).served = v
      BY <1>1, OverIs
    <3> QED BY <3>1, <3>2
  <2>4. v # None => shown[u][v] < limit
    <3> SUFFICES ASSUME v # None PROVE shown[u][v] < limit
      OBVIOUS
    <3>1. limit \in Nat /\ limit <= MaxAge
      BY <1>0, NatFacts
    <3>2. v = m.tag /\ v \in Contents /\ m.age < limit /\ m.age \in Nat
      BY <1>5, <2>2 DEF Fresh, Meta
    <3>3. m.age < MaxAge
      BY <3>1, <3>2, NatFacts
    <3>4. shown[u][v] <= m.age /\ shown[u][v] \in Nat
      BY <1>1, <1>4, <3>2, <3>3, NatFacts DEF Recent, Typed
    <3> QED BY <3>1, <3>2, <3>4
  <2> QED BY <1>0, <1>1, <1>2, <2>2, <2>3, <2>4 DEF Confirmed
<1>6. CASE ~Fresh(m, limit)
  <2>1. PICK x \in BOOLEAN : x = Mixed(p)
    BY DEF Mixed
  <2>2. proc'[p] = [proc[p] EXCEPT !.pc = "lock", !.body = b, !.mixed = x] /\ proc[p] \in Proc
    BY <1>0, <1>1, <1>2, <1>3, <1>6, <2>1 DEF Typed, Looked
  <2>3. proc'[p].served = proc[p].served
    BY <2>2 DEF Proc
  <2> QED BY <1>1, <2>3, AnsweredBefore
<1> QED BY <1>5, <1>6

LEMMA AnswerIsConfirmed ==
  ASSUME FetchInv, NEW p \in Scrapers, Answer(p), ~proc[p].mixed
  PROVE  Confirmed(p)
<1>1. /\ Typed /\ proc[p].pc = "ask" /\ proc[p] \in Proc /\ Reading(p)
  BY AnswerIs DEF FetchInv, Typed
<1>2. PICK u \in Urls, m \in Meta, b \in Contents \cup {None}, s \in Contents :
        u = UrlOf(p) /\ m = proc[p].meta /\ b = proc[p].body /\ s = site[u]
  BY <1>1, PageIs DEF Typed, Proc
<1>3. shown[u][s] = 0 /\ b = m.tag
  BY <1>1, <1>2 DEF FetchInv, Cached, Reading
<1>4. proc'[p].served \in {None, s} /\ proc'[p].served # Gone
  <2>1. PICK v \in Contents \cup {None} : v = Served(m, b)
    BY ServedIs
  <2>2. CASE /\ NotModified(p)
             /\ proc'[p] = [proc[p] EXCEPT !.pc = "state", !.answer = "fine",
                               !.request = FreeNumber, !.served = v]
    <3>1. proc'[p].served = v
      BY <1>1, <2>2 DEF Proc
    <3>2. v # Gone /\ v \in {None, b} /\ b = s
      BY <1>2, <1>3, <2>1, <2>2, ServedIs DEF NotModified
    <3> QED BY <3>1, <3>2
  <2>3. CASE proc'[p] = [proc[p] EXCEPT !.pc = "meta", !.answer = s, !.request = FreeNumber,
                            !.served = IF s = Gone THEN None ELSE s]
    <3>1. proc'[p].served = IF s = Gone THEN None ELSE s
      BY <1>1, <2>3 DEF Proc
    <3> QED BY <3>1, NatFacts
  <2> QED BY <1>1, <1>2, <2>1, <2>2, <2>3, AnswerIs
<1> QED BY <1>1, <1>2, <1>3, <1>4 DEF Confirmed

\* What is answered from the cache without a look at its age is a page.
LEMMA CacheIsConfirmed ==
  ASSUME FetchInv, NEW p \in Scrapers, Lock(p) \/ Refuse(p) \/ FailLocally(p),
         ~proc[p].mixed
  PROVE  Confirmed(p)
<1>1. /\ Typed /\ proc[p].pc \in {"lock", "ask"} /\ proc[p] \in Proc /\ Reading(p)
  BY DEF FetchInv, Typed, Lock, Refuse, FailLocally
<1>2. PICK m \in Meta, b \in Contents \cup {None} : m = proc[p].meta /\ b = proc[p].body
  BY <1>1 DEF Proc
<1>3. PICK v \in Contents \cup {None} : v = Served(m, b) /\ v # Gone
  BY <1>1, <1>2, ServedIs DEF Reading
<1>4. Over(p, v).served = v /\ Over(p, v).answer = None
  <2>1. Over(p, v).served = v
    BY <1>1, OverIs
  <2>2. Over(p, v).answer = None
    <3>1. PICK n : n = IF proc[p].at = Len(agenda.urls) THEN 1 ELSE proc[p].at + 1
      OBVIOUS
    <3>2. Over(p, v) = [Idle EXCEPT !.served = v, !.at = n]
      BY <3>1 DEF Over
    <3> QED BY <3>2 DEF Idle
  <2> QED BY <2>1, <2>2
<1>5. CASE Lock(p)
  <2>1. \/ proc'[p] = Over(p, v)
        \/ \E pc \in {"ask", "wait"} : proc'[p] = [proc[p] EXCEPT !.pc = pc]
    BY <1>1, <1>2, <1>3, <1>5, LockIs
  <2>2. CASE proc'[p] = Over(p, v)
    BY <1>3, <1>4, <1>5, <2>2 DEF Confirmed, Lock
  <2>3. CASE \E pc \in {"ask", "wait"} : proc'[p] = [proc[p] EXCEPT !.pc = pc]
    <3>1. proc'[p].served = proc[p].served
      BY <1>1, <2>3 DEF Proc
    <3> QED BY <1>1, <3>1, AnsweredBefore
  <2> QED BY <2>1, <2>2, <2>3
<1>6. CASE FailLocally(p)
  <2>1. proc'[p] = Over(p, v) /\ proc[p].pc = "ask"
    BY <1>1, <1>2, <1>3, <1>6, FailLocallyIs
  <2> QED BY <1>3, <1>4, <2>1, NatFacts DEF Confirmed
<1>7. CASE Refuse(p)
  <2>1. /\ proc'[p] = [proc[p] EXCEPT !.pc = "state", !.answer = "refused",
                           !.request = FreeNumber, !.served = v]
        /\ proc[p].pc = "ask"
    BY <1>1, <1>2, <1>3, <1>7, RefuseIs
  <2>2. proc'[p].served = v /\ proc'[p].answer = "refused"
    BY <1>1, <2>1 DEF Proc
  <2> QED BY <1>3, <2>1, <2>2 DEF Confirmed
<1> QED BY <1>5, <1>6, <1>7

\* ServedIsConfirmed, for any number of scrapers: who has read a body that belongs
\* to its metadata is answered with it, or with nothing, and what counts as fresh
\* was on the site within one of its age limits.
THEOREM PagesAreConfirmed == Spec => ServedIsConfirmed
<1>1. FetchInv /\ [Next]_vars =>
        [\A p \in Scrapers :
            proc[p].pc \in {"body", "lock", "ask", "meta"} /\ ~proc[p].mixed
            /\ ~(proc[p].pc = "body" /\ Mixed(p))
            => Confirmed(p)]_vars
  <2> SUFFICES ASSUME FetchInv, [Next]_vars, NEW p \in Scrapers,
                      proc[p].pc \in {"body", "lock", "ask", "meta"}, ~proc[p].mixed,
                      ~(proc[p].pc = "body" /\ Mixed(p))
               PROVE  Confirmed(p)
    OBVIOUS
  <2>1. Typed /\ Reading(p) /\ proc[p] \in Proc
    BY DEF FetchInv, Typed
  <2>2. ASSUME NEW q \in Scrapers, q # p,
               Work(q) \/ Refuse(q) \/ FailLocally(q) \/ Kill(q)
        PROVE  Confirmed(p)
    <3>1. Others(q)
      <4>1. WriteMeta(q) => proc[q].answer \in Contents
        BY DEF FetchInv, Reading, WriteMeta
      <4> QED BY <2>1, <2>2, <4>1, LoadMetaIs, LoadBodyIs, LockIs, AwakeIs, AnswerIs,
              WriteMetaIs, ReleaseIs, RefuseIs, FailLocallyIs, KillIs DEF Work
    <3>2. proc'[p] = proc[p]
      BY <2>2, <3>1 DEF Others
    <3> QED BY <3>2, AnsweredBefore
  <2>3. ASSUME SiteChanges \/ Tick \/ UNCHANGED vars PROVE Confirmed(p)
    <3>1. proc'[p].served \in {None, proc[p].served}
      BY <2>1, <2>3, SiteChangesIs, TickIs DEF vars
    <3> QED BY <3>1, AnsweredBefore
  <2>4. ASSUME LoadMeta(p) \/ Awake(p) \/ Release(p) PROVE Confirmed(p)
    BY <2>4 DEF LoadMeta, Awake, Release
  <2>5. ASSUME LoadBody(p) PROVE Confirmed(p)
    BY <2>5, FreshIsConfirmed DEF LoadBody
  <2>6. ASSUME Answer(p) PROVE Confirmed(p)
    BY <2>6, AnswerIsConfirmed
  <2>7. ASSUME Lock(p) \/ Refuse(p) \/ FailLocally(p) PROVE Confirmed(p)
    BY <2>7, CacheIsConfirmed
  <2>8. ASSUME WriteMeta(p) PROVE Confirmed(p)
    <3>1. proc[p].answer \in Contents
      BY <2>1, <2>8 DEF Reading, WriteMeta
    <3>2. proc'[p] = [proc[p] EXCEPT !.pc = "state", !.answer = "fine"]
      BY <2>1, <2>8, <3>1, WriteMetaIs
    <3>3. proc'[p].served = proc[p].served
      BY <2>1, <3>2 DEF Proc
    <3> QED BY <3>3, AnsweredBefore
  <2>9. ASSUME Kill(p) PROVE Confirmed(p)
    <3>1. proc'[p].served = None
      BY <2>1, <2>9, KillIs DEF Idle
    <3> QED BY <3>1, AnsweredBefore
  <2> QED BY <2>2, <2>3, <2>4, <2>5, <2>6, <2>7, <2>8, <2>9 DEF Next, Work
<1> QED BY <1>1, FetchInvariant, PTL DEF Spec, ServedIsConfirmed
=============================================================================
