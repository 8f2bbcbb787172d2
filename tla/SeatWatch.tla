----------------------------- MODULE SeatWatch -----------------------------
(***************************************************************************)
(* Seat watches: the rows that api/v1/season.py keeps, the users who       *)
(* create, change and delete them, and the runner seat-watch.py, which a   *)
(* timer starts when no pass of it is running: it lists the due watches,   *)
(* reads each hall, reports to the API and mails what it found.            *)
(*                                                                         *)
(* A request reads its row and writes it in a READ COMMITTED transaction   *)
(* without locks: a commit writes the columns whose value it changed.      *)
(* Requests refused with 4xx write nothing and are left out.               *)
(***************************************************************************)
EXTENDS Naturals, Sequences, FiniteSetsExt

CONSTANTS Clients,       \* planner tabs, each with at most one request
          Candidates,    \* candidates of the pool
          Halls,         \* hall links
          Shows,         \* what the halls may show at first
          Creations,     \* watches that may be asked for: [cand, url, starts]
          Null,
          Patience,      \* hanging halls that one pass survives: each takes
                         \* 45 s or more of the 5 minutes, or all of them
          Agendas,       \* workloads: kinds of request, and bounds on the
                         \* requests, the changes of a hall and the kills
          MaxVersion

Views == {"pair", "singles", "expired", "hangs"}

\* A concert begins at time 1; one whose time is not known never does.
Undated == 2

ASSUME SeatWatchAssumption ==
    /\ Null \notin Candidates \cup Halls
    /\ Shows \subseteq [Halls -> Views]
    /\ Creations \subseteq [cand : Candidates \cup {Null}, url : Halls,
                            starts : {1, Undated}]
    /\ Patience \in Nat /\ MaxVersion \in Nat
    /\ Agendas \subseteq [kinds : SUBSET {"create", "patch", "delete"},
                          requests : Nat, changes : Nat, kills : Nat]

VARIABLES watches,   \* seat_watches, in the order of created_at
          now,       \* before (0) or after (1) the concerts
          hall,      \* what the box office shows behind each link
          tx,        \* the request each client has in flight
          runner,    \* the pass that runs, if any
          report,    \* the runner's POST that the server is serving
          orphan,    \* one whose runner is gone
          life,      \* history: how often each watch was started
          mails,     \* history: mails sent about each start of a watch
          silent,    \* history: finds without a mail: there is no mail to
                     \* send with, it failed or was cut off, or the user has
                     \* set the state himself
          agenda     \* what is left of the workload

serverVars == <<watches, report, orphan>>
runnerVars == <<runner, mails, silent>>
vars == <<watches, now, hall, tx, runner, report, orphan, life, mails, silent, agenda>>

Watch(cand, url, starts) ==
    [cand |-> cand, url |-> url, starts |-> starts, state |-> "active",
     version |-> 1, live |-> TRUE]

\* Versions are compared only below the bound (Send).
Bumped(version) == IF version < MaxVersion THEN version + 1 ELSE version

\* A row after a write: the columns that changed since they were read.
Columns(row, old, new) ==
    [c \in DOMAIN row |-> IF new[c] = old[c] THEN row[c] ELSE new[c]]

Idle == [pc |-> "idle", todo |-> {}, found |-> FALSE, spent |-> 0]
NoTx == [stage |-> "idle"]
NoPost == [id |-> 0]

-----------------------------------------------------------------------------
(* What the handlers make of the row they have read *)

Revived(row, req) ==
    [row EXCEPT !.url = req.url, !.starts = req.starts, !.state = "active",
                !.version = Bumped(@)]

Patched(row, req) ==
    [c \in DOMAIN row |->
        IF c \in DOMAIN req.change THEN req.change[c]
        ELSE IF c = "version" THEN Bumped(row[c]) ELSE row[c]]

\* Mutant: a find is stored, the watch goes on.
CheckedOn(row, found) ==
    [row EXCEPT
        !.version = Bumped(@),
        !.state = IF ~found /\ row.starts <= now
                  THEN "expired" ELSE @]

Checked(row, found) ==
    [row EXCEPT
        !.version = Bumped(@),
        !.state = IF found THEN "found"
                  ELSE IF row.starts <= now
                  THEN "expired" ELSE @]

Outcome(req, row) ==
    CASE req.kind = "create" -> Revived(row, req)
      [] req.kind = "patch"  -> Patched(row, req)
      [] req.kind = "delete" -> [row EXCEPT !.live = FALSE, !.version = Bumped(@)]

\* The watches that a creation revives: none for a watch without candidate.
Existing(cand) ==
    {i \in DOMAIN watches : watches[i].live /\ watches[i].cand = cand
                            /\ cand # Null}

IsDue(row) ==
    /\ row.live /\ row.state = "active"
    /\ row.starts > now

-----------------------------------------------------------------------------
(* Users *)

States == {"active", "found", "stopped", "expired"}

\* A change sets the state, the link or both; it names the version its sender
\* has seen.
Changes == [state : States] \cup [url : Halls] \cup [state : States, url : Halls]

Requests ==
    LET known == {i \in DOMAIN watches : watches[i].live} IN
    {[kind |-> "create", cand |-> w.cand, url |-> w.url, starts |-> w.starts] :
        w \in Creations}
    \cup (UNION {[kind : {"patch"}, id : {i}, change : Changes,
                  version : {watches[i].version}] :
                     i \in {j \in known : watches[j].version < MaxVersion}})
    \cup [kind : {"delete"}, id : known]

Send(c) ==
    /\ tx[c] = NoTx /\ agenda.requests > 0
    /\ \E r \in Requests :
          /\ r.kind \in agenda.kinds
          /\ tx' = [tx EXCEPT ![c] = [stage |-> "sent", req |-> r]]
    /\ agenda' = [agenda EXCEPT !.requests = @ - 1]
    /\ UNCHANGED <<serverVars, now, hall, runnerVars, life>>

\* The row that a request is about, 0 when there is none.
Target(req) ==
    IF req.kind = "create"
    THEN IF Existing(req.cand) = {} THEN 0
         ELSE CHOOSE i \in Existing(req.cand) : TRUE
    ELSE IF watches[req.id].live THEN req.id ELSE 0

\* The SELECT: a missing row (404) and another version (409) end the request.
Read(c) ==
    /\ tx[c].stage = "sent"
    /\ LET req == tx[c].req
           id == Target(req)
           refused == \/ req.kind # "create" /\ id = 0
                      \/ req.kind = "patch" /\ watches[req.id].version # req.version
       IN  tx' = [tx EXCEPT ![c] =
                     IF refused THEN NoTx
                     ELSE [stage |-> "read", req |-> req, id |-> id,
                           seen |-> IF id = 0 THEN NoTx ELSE watches[id]]]
    /\ UNCHANGED <<serverVars, now, hall, runnerVars, life, agenda>>

Sets(req, state) ==
    req.kind = "patch" /\ "state" \in DOMAIN req.change /\ req.change.state = state

\* Does the request start the watch (again)?
Starting(req) == req.kind = "create" \/ Sets(req, "active")

Commit(c) ==
    /\ tx[c].stage = "read"
    /\ LET req == tx[c].req
           id == tx[c].id
           seen == tx[c].seen
           new == Outcome(req, seen)
       IN  /\ silent' = IF Sets(req, "found") THEN silent \cup {id} ELSE silent
           /\ IF id = 0
              THEN /\ watches' = Append(watches, Watch(req.cand, req.url, req.starts))
                   /\ life' = Append(life, 1)
              ELSE /\ watches' = [watches EXCEPT ![id] = Columns(@, seen, new)]
                   /\ life' = IF Starting(req) THEN [life EXCEPT ![id] = @ + 1] ELSE life
    /\ tx' = [tx EXCEPT ![c] = NoTx]
    /\ UNCHANGED <<report, orphan, now, hall, runner, mails, agenda>>

-----------------------------------------------------------------------------
(* The runner *)

\* The timer starts a pass: GET ?due=true.
StartPass ==
    /\ runner.pc = "idle"
    /\ LET due == {i \in DOMAIN watches : IsDue(watches[i])}
       IN  /\ due # {}
           /\ runner' = [Idle EXCEPT !.pc = "visit",
                 !.todo = {[id |-> i, url |-> watches[i].url, life |-> life[i]] :
                              i \in due}]
    /\ UNCHANGED <<serverVars, now, hall, tx, life, mails, silent, agenda>>

\* The watch that a pass is at: they are listed, and visited, oldest first.
Current(r) == CHOOSE w \in r.todo : \A v \in r.todo : w.id <= v.id

\* On to the next watch of the pass, or to its end.
Onward(r) ==
    IF r.todo = {Current(r)} THEN Idle
    ELSE [r EXCEPT !.pc = "visit", !.todo = @ \ {Current(r)}, !.found = FALSE]

\* Mutant: a hall that cannot be read ends the pass.
VisitedOrOver(r, view) ==
    IF view \in {"expired", "hangs"} THEN Idle
    ELSE [r EXCEPT !.pc = "report", !.found = view = "pair"]

\* read_hall and find_adjacent: what is reported of the first watch.  Past the
\* service's time limit the pass is killed.
Visited(r, view) ==
    LET spent == r.spent + IF view = "hangs" THEN 1 ELSE 0
    IN  IF spent > Patience THEN Idle
        ELSE [r EXCEPT !.pc = "report", !.spent = spent, !.found = view = "pair"]

ReadHall ==
    /\ runner.pc = "visit"
    /\ runner' = Visited(runner, hall[Current(runner).url])
    /\ UNCHANGED <<serverVars, now, hall, tx, life, mails, silent, agenda>>

\* POST checked, up to the SELECT: a deleted watch is a 404, which ends the pass.
PostReport ==
    /\ runner.pc = "report"
    /\ LET id == Current(runner).id IN
       IF watches[id].live
       THEN /\ report' = [id |-> id, seen |-> watches[id],
                          found |-> runner.found]
            /\ runner' = [runner EXCEPT !.pc = "wait"]
       ELSE /\ runner' = Idle
            /\ UNCHANGED report
    /\ UNCHANGED <<watches, orphan, now, hall, tx, life, mails, silent,
                   agenda>>

Stored(post) ==
    [watches EXCEPT ![post.id] =
        Columns(@, post.seen, Checked(post.seen, post.found))]

\* Mutant: the mail goes out only when nobody has touched the watch meanwhile.
AnsweredQuiet(r) ==
    IF r.found /\ watches[Current(r).id] = report.seen
    THEN [r EXCEPT !.pc = "notify"] ELSE Onward(r)

\* The answer to a report: a find is mailed next.
Answered(r) == IF r.found THEN [r EXCEPT !.pc = "notify"] ELSE Onward(r)

CommitReport ==
    /\ report # NoPost
    /\ watches' = Stored(report)
    /\ runner' = Answered(runner)
    /\ report' = NoPost
    /\ UNCHANGED <<orphan, now, hall, tx, life, mails, silent, agenda>>

CommitOrphan ==
    /\ orphan # NoPost
    /\ watches' = Stored(orphan)
    /\ orphan' = NoPost
    /\ silent' = IF orphan.found THEN silent \cup {orphan.id} ELSE silent
    /\ UNCHANGED <<report, now, hall, tx, runner, life, mails, agenda>>

Key(item) == <<item.id, item.life>>

\* notify: the mail is sent; or there is no mail configured, and the pass goes
\* on without; or an exception of SMTP ends it.
Notify ==
    /\ runner.pc = "notify"
    /\ \/ /\ mails' = LET sent == Key(Current(runner)) IN
                      [k \in DOMAIN mails \cup {sent} |->
                          (IF k \in DOMAIN mails THEN mails[k] ELSE 0)
                          + (IF k = sent THEN 1 ELSE 0)]
          /\ runner' = Onward(runner)
          /\ UNCHANGED silent
       \/ /\ silent' = silent \cup {Current(runner).id}
          /\ runner' \in {Onward(runner), Idle}
          /\ UNCHANGED mails
    /\ UNCHANGED <<serverVars, now, hall, tx, life, agenda>>

\* The pass is killed, or the network fails it; the server may still be serving
\* its report.
Kill ==
    /\ runner.pc # "idle" /\ agenda.kills > 0
    /\ agenda' = [agenda EXCEPT !.kills = @ - 1]
    /\ runner' = Idle
    /\ silent' = IF runner.pc = "notify" THEN silent \cup {Current(runner).id}
                 ELSE silent
    /\ report' = NoPost
    /\ orphan' \in IF report = NoPost THEN {orphan} ELSE {orphan, report}
    /\ UNCHANGED <<watches, now, hall, tx, life, mails>>

-----------------------------------------------------------------------------
(* The world *)

\* Seats come and go, a link expires for good, a server hangs.
HallChanges ==
    /\ agenda.changes > 0
    /\ \E h \in Halls, view \in Views :
          /\ hall[h] \notin {view, "expired"}
          /\ hall' = [hall EXCEPT ![h] = view]
    /\ agenda' = [agenda EXCEPT !.changes = @ - 1]
    /\ UNCHANGED <<serverVars, now, tx, runnerVars, life>>

ConcertStarts ==
    /\ now = 0 /\ now' = 1
    /\ UNCHANGED <<serverVars, hall, tx, runnerVars, life, agenda>>

Init ==
    /\ watches = <<>> /\ life = <<>>
    /\ now = 0 /\ hall \in Shows
    /\ tx = [c \in Clients |-> NoTx]
    /\ runner = Idle /\ report = NoPost /\ orphan = NoPost
    /\ mails = [k \in {} |-> 0] /\ silent = {}
    /\ agenda \in Agendas

RunnerStep == StartPass \/ ReadHall \/ PostReport \/ CommitReport \/ Notify

Next ==
    \/ \E c \in Clients : Send(c) \/ Read(c) \/ Commit(c)
    \/ RunnerStep \/ CommitOrphan \/ Kill
    \/ HallChanges \/ ConcertStarts

\* The timer fires for ever, and every step of a pass comes to its end: the
\* service is killed after five minutes.
Fairness == WF_vars(RunnerStep)

Spec == Init /\ [][Next]_vars /\ Fairness

-----------------------------------------------------------------------------
(* Properties *)

\* A start of a watch is mailed about at most once, whatever is killed, lost
\* or changed meanwhile (SeatWatchState: "an alert he has already read must
\* never fire again at 3am").
OneMail == \A k \in DOMAIN mails : mails[k] <= 1

\* A watch that was found was mailed about, or is about to be, or its mail
\* failed or was cut off, or the user himself has set it found; a change by the
\* user in between loses no mail (run_once: the report comes before the mail).
FoundIsAnnounced ==
    \A i \in DOMAIN watches : watches[i].state = "found" =>
        \/ \E k \in DOMAIN mails : k[1] = i
        \/ runner.pc = "notify" /\ Current(runner).id = i
        \/ i \in silent

\* Due, with a pair to be found.
Waiting(i) ==
    /\ i \in DOMAIN watches
    /\ IsDue(watches[i]) /\ hall[watches[i].url] = "pair"

\* The halls that hang before a pass comes to this one.
Hanging(i) ==
    {j \in 1..(i - 1) : IsDue(watches[j]) /\ hall[watches[j].url] = "hangs"}

\* A watch whose hall keeps a pair free does not stay due for ever while no more
\* than Patience halls hang before it, even if others cannot be read, other
\* watches are deleted under the pass and no mail ever goes out (run_once: an
\* unreadable hall is reported and passed by).
NoWatchStarves ==
    \A i \in 1..Max({a.requests : a \in Agendas}) :
        []<>~(Waiting(i) /\ Cardinality(Hanging(i)) <= Patience)
=============================================================================
