------------------------------- MODULE Outbox --------------------------------
(***************************************************************************)
(* The way of a phone's own edits to the server: OutboxController, its     *)
(* table pending_ops (drift, on disk) and POST /v1/sync/apply.             *)
(*                                                                         *)
(* An edit is a row of pending_ops until a push has brought its answer.    *)
(* One push runs at a time; it posts the oldest rows, Limit at most, and   *)
(* treats the answers one by one.  The user queues edits and decides on    *)
(* conflicts meanwhile, others edit the same entities, pulls bring their   *)
(* versions, requests are lost or arrive after the phone has given up on   *)
(* them, and the app may be killed between any two steps.                  *)
(*                                                                         *)
(* The server takes a batch at once: EventStore has the steps of that, and *)
(* what two copies of an operation do that arrive at the same time.        *)
(***************************************************************************)
EXTENDS Naturals, FiniteSets

CONSTANTS
  Entity,         \* events and watchlist items
  Optimistic,     \* the items: an edit changes the phone's copy at once
  Edits,          \* what a user may do: pairs of an entity and a kind
  Limit,          \* rows in a batch (readPendingBatch)
  None,           \* no operation, no answer
  MaxOps,         \* bound: operations queued
  MaxVersion,     \* bound: version that others' edits reach
  MaxFailures     \* bound: requests given up and kills

\* Operations are numbered in the order of created_at; the number is the op_id.
Id == 1 .. MaxOps

Kinds == {"update", "delete", "notify",
          "bad"}                         \* one the server cannot parse

ASSUME OutboxAssumption ==
  /\ Optimistic \subseteq Entity
  /\ Edits \subseteq Entity \X Kinds
  /\ \A e \in Optimistic : <<e, "notify">> \notin Edits
  /\ Limit \in Nat \ {0}
  /\ MaxOps \in Nat /\ MaxVersion \in Nat /\ MaxFailures \in Nat

VARIABLES
  row,        \* the server's row of each entity
  ledger,     \* applied_ops
  late,       \* requests the phone has given up that may still arrive
  cached,     \* the phone's row of each entity
  pulled,     \* the version of each entity the phone got from the server last
  ops,        \* the operations queued so far
  pending,    \* those with a row in pending_ops
  push,       \* the push in progress
  asked,      \* conflicts that a dialog on the screen asks about
  requeue,    \* "Keep mine" between its two writes
  failures,
  \* history, read by no action:
  writes,     \* what the server has done: by an operation, or by others (0)
  settled     \* operations the user took back or replaced

server  == <<row, ledger, late>>
phone   == <<cached, pulled, ops, pending>>
screen  == <<asked, requeue>>
history == <<writes, settled>>
vars    == <<server, phone, push, screen, failures, history>>

Row    == [version : Nat, deleted : BOOLEAN]
OpRow  == [kind : Kinds, entity : Entity, base : Nat]
Answer == [status : {"applied", "conflict", "not_found"}, version : Nat]
Write  == [n : Nat, by : 0 .. MaxOps, entity : Entity, version : Nat]

ASSUME NoneAssumption == None \notin OpRow \union Answer

Reply(status, version) == [status |-> status, version |-> version]

Oldest(S)    == CHOOSE k \in S : \A m \in S : k <= m
\* Mutant: the rows are taken in no particular order.
LastRows(S)  == {k \in S : Cardinality({m \in S : m >= k}) <= Limit}

\* readPendingBatch
FirstRows(S) == {k \in S : Cardinality({m \in S : m <= k}) <= Limit}

-----------------------------------------------------------------------------
(* The server *)

\* One more write by operation k, or by others.
Written(log, k, e, version) ==
  log \union {[n |-> Cardinality(log) + 1, by |-> k, entity |-> e, version |-> version]}

\* The appliers: s is what the operations before k have left.
Applier(s, k) ==
  LET o == ops[k]
      r == s.row[o.entity]
      Apply(new) == [row    |-> [s.row EXCEPT ![o.entity] = new],
                     ledger |-> [s.ledger EXCEPT ![k] = Reply("applied", new.version)],
                     writes |-> Written(s.writes, k, o.entity, new.version)]
      Answered(status) == [s EXCEPT !.ledger[k] = Reply(status, r.version)]
  IN
  CASE o.kind = "delete" /\ r.deleted  -> Answered("applied")
    [] o.kind = "delete" /\ ~r.deleted -> Apply([version |-> r.version + 1, deleted |-> TRUE])
    [] o.kind # "delete" /\ r.deleted  -> Answered("not_found")
    [] o.kind = "notify" /\ ~r.deleted -> Apply(r)
    [] o.kind = "update" /\ ~r.deleted ->
         IF r.version # o.base THEN Answered("conflict")
         ELSE Apply([r EXCEPT !.version = @ + 1])

\* Mutant: applied_ops is not consulted.
ApplyAgain(s, k) == Applier(s, k)

\* _apply_one: an operation that has an answer is not applied again.
ApplyOne(s, k) == IF s.ledger[k] # None THEN s ELSE Applier(s, k)

\* apply_operations: the operations of a batch in their order.
AfterBatch(batch) ==
  LET after[k \in 0 .. MaxOps] ==
        IF k = 0 THEN [row |-> row, ledger |-> ledger, writes |-> writes]
        ELSE IF k \in batch THEN ApplyOne(after[k - 1], k) ELSE after[k - 1]
  IN after[MaxOps]

Parsed(batch) == \A k \in batch : ops[k].kind # "bad"

\* POST /v1/sync/apply, once it has been parsed.
Serve(batch) ==
  /\ row'    = AfterBatch(batch).row
  /\ ledger' = AfterBatch(batch).ledger
  /\ writes' = AfterBatch(batch).writes

\* A request that the phone has given up on arrives after all.
ServeLate ==
  \E batch \in late :
    /\ late' = late \ {batch}
    /\ IF Parsed(batch) THEN Serve(batch) ELSE UNCHANGED <<row, ledger, writes>>
    /\ UNCHANGED <<phone, screen, push, failures, settled>>

\* Another member, or the web, edits or deletes the entity.
OthersWrite(e) ==
  /\ ~row[e].deleted /\ row[e].version < MaxVersion
  /\ \E deleted \in BOOLEAN :
       row' = [row EXCEPT ![e] = [version |-> @.version + 1, deleted |-> deleted]]
  /\ writes' = Written(writes, 0, e, row[e].version + 1)
  /\ UNCHANGED <<ledger, late, phone, screen, push, failures, settled>>

-----------------------------------------------------------------------------
(* The phone *)

Steps == {"idle", "read", "post", "answers", "reject"}

Idle == [pc    |-> "idle",
         batch |-> {},     \* the rows of the request
         todo  |-> {},     \* those whose answer has not been treated
         split |-> {},     \* rows still to be sent one by one
         full  |-> FALSE]  \* the batch was Limit rows long

\* pushPending does nothing while another push runs.
PushPending == push' = IF push.pc = "idle" THEN [Idle EXCEPT !.pc = "read"] ELSE push

\* A pull (PhoneSync) brings the server's row.
Pull(e) ==
  /\ row[e].version # pulled[e]
  /\ cached' = [cached EXCEPT ![e] = row[e]]
  /\ pulled' = [pulled EXCEPT ![e] = row[e].version]
  /\ UNCHANGED <<server, ops, pending, screen, push, failures, history>>

Last == Cardinality({k \in Id : ops[k] # None})

\* insertPendingOp
Insert(o) ==
  /\ Last < MaxOps
  /\ ops' = [ops EXCEPT ![Last + 1] = o]
  /\ pending' = pending \union {Last + 1}

\* The user edits an entity: queueEventUpdate, queueWatchlistMove and so on.
Queue(e, kind) ==
  /\ ~cached[e].deleted
  /\ Insert([kind |-> kind, entity |-> e, base |-> cached[e].version])
  /\ cached' = IF e \in Optimistic
               THEN [cached EXCEPT ![e] = [version |-> @.version + 1, deleted |-> kind = "delete"]]
               ELSE cached
  /\ PushPending
  /\ UNCHANGED <<server, pulled, screen, failures, history>>

\* Mutant: the loop ends only when nothing is left.
ReadUntilEmpty ==
  /\ push.pc = "read"
  /\ push' = IF pending = {} THEN Idle
             ELSE [Idle EXCEPT !.pc = "post", !.batch = FirstRows(pending), !.full = TRUE]
  /\ UNCHANGED <<server, phone, screen, failures, history>>

\* The head of the loop of pushPending.
ReadBatch ==
  /\ push.pc = "read"
  /\ push' = IF pending = {} THEN Idle
             ELSE [Idle EXCEPT !.pc = "post", !.batch = FirstRows(pending),
                               !.full = Cardinality(pending) >= Limit]
  /\ UNCHANGED <<server, phone, screen, failures, history>>

\* The request arrives and its answer comes back.
Post ==
  /\ push.pc = "post"
  /\ IF Parsed(push.batch)
     THEN Serve(push.batch) /\ push' = [push EXCEPT !.pc = "answers", !.todo = push.batch]
     ELSE UNCHANGED <<row, ledger, writes>> /\ push' = [push EXCEPT !.pc = "reject"]
  /\ UNCHANGED <<late, phone, screen, failures, settled>>

\* _send has returned true: the next row of a split, the next batch, or the end.
Proceed ==
  IF push.split # {}
  THEN [push EXCEPT !.pc = "post", !.batch = {Oldest(push.split)}, !.todo = {},
                    !.split = @ \ {Oldest(push.split)}]
  ELSE IF push.full THEN [Idle EXCEPT !.pc = "read"] ELSE Idle

\* A 400 or 422 for the batch: it is sent one by one.  A single row is dropped.
Reject ==
  /\ push.pc = "reject"
  /\ IF Cardinality(push.batch) > 1
     THEN /\ push' = [push EXCEPT !.pc = "post", !.batch = {Oldest(push.batch)},
                                  !.split = push.batch \ {Oldest(push.batch)}]
          /\ UNCHANGED pending
     ELSE /\ pending' = pending \ push.batch
          /\ push' = Proceed
  /\ UNCHANGED <<server, cached, pulled, ops, screen, failures, history>>

\* Mutant: a conflict is terminal like the other refusals.
ResultDropped ==
  LET k == Oldest(push.todo) IN
  /\ push.pc = "answers" /\ push.todo # {}
  /\ pending' = pending \ {k}
  /\ push' = [push EXCEPT !.todo = @ \ {k}]
  /\ UNCHANGED <<server, cached, pulled, ops, screen, failures, history>>

\* _applyResult: a row in conflict stays, and a dialog asks about it if the
\* screen of its event is open.
Result ==
  LET k == Oldest(push.todo)
      conflict == ledger[k].status = "conflict"
  IN
  /\ push.pc = "answers" /\ push.todo # {}
  /\ pending' = IF conflict THEN pending ELSE pending \ {k}
  /\ \/ UNCHANGED asked
     \/ /\ conflict /\ ops[k].entity \notin Optimistic
        /\ asked' = asked \union {[op |-> k, version |-> ledger[k].version]}
  /\ push' = [push EXCEPT !.todo = @ \ {k}]
  /\ UNCHANGED <<server, cached, pulled, ops, requeue, failures, history>>

\* All answers are treated.
Answered ==
  /\ push.pc = "answers" /\ push.todo = {}
  /\ push' = Proceed
  /\ UNCHANGED <<server, phone, screen, failures, history>>

Failure == failures < MaxFailures /\ failures' = failures + 1

\* The network or the server fails, as far as the phone can tell: the push
\* ends, with all its rows pending.  The request is lost, or still on its way.
GiveUp ==
  /\ push.pc = "post"
  /\ Failure
  /\ late' \in {late, late \union {push.batch}}
  /\ push' = Idle
  /\ UNCHANGED <<row, ledger, phone, screen, history>>

\* The dialog: "use server", or nothing.
Discard(c) ==
  /\ c \in asked
  /\ asked' = asked \ {c}
  /\ \/ pending' = pending \ {c.op} /\ settled' = settled \union {c.op}
     \/ UNCHANGED <<pending, settled>>
  /\ UNCHANGED <<server, cached, pulled, ops, push, requeue, failures, writes>>

\* Mutant: the row is kept, with the new base version.
KeepSameId(c) ==
  /\ c \in asked /\ requeue = None
  /\ asked' = asked \ {c}
  /\ ops' = [ops EXCEPT ![c.op].base = c.version]
  /\ PushPending
  /\ UNCHANGED <<server, cached, pulled, pending, requeue, failures, history>>

\* "keep mine": requeueWithFreshBaseVersion deletes the row, if it is still
\* there ...
KeepMine(c) ==
  /\ c \in asked /\ requeue = None
  /\ asked' = asked \ {c}
  /\ IF c.op \in pending
     THEN /\ pending' = pending \ {c.op}
          /\ settled' = settled \union {c.op}
          /\ requeue' = [ops[c.op] EXCEPT !.base = c.version]
     ELSE UNCHANGED <<pending, settled, requeue>>
  /\ UNCHANGED <<server, cached, pulled, ops, push, failures, writes>>

\* ... and inserts another one, with an op_id of its own.
Requeue ==
  /\ requeue # None
  /\ Insert(requeue)
  /\ requeue' = None
  /\ PushPending
  /\ UNCHANGED <<server, cached, pulled, asked, failures, history>>

\* The app is killed; a request may still arrive.
Kill ==
  /\ push # Idle \/ requeue # None \/ asked # {}
  /\ Failure
  /\ push' = Idle /\ requeue' = None /\ asked' = {}
  /\ late' \in {late} \union (IF push.pc = "post" THEN {late \union {push.batch}} ELSE {})
  /\ UNCHANGED <<row, ledger, phone, history>>

-----------------------------------------------------------------------------
Init ==
  /\ row = [e \in Entity |-> [version |-> 1, deleted |-> FALSE]]
  /\ ledger = [k \in Id |-> None] /\ late = {}
  /\ cached = row /\ pulled = [e \in Entity |-> 1]
  /\ ops = [k \in Id |-> None] /\ pending = {}
  /\ push = Idle /\ asked = {} /\ requeue = None
  /\ failures = 0
  /\ writes = {} /\ settled = {}

PushStep == ReadBatch \/ Post \/ Reject \/ Result \/ Answered

Next ==
  \/ ServeLate
  \/ \E e \in Entity : OthersWrite(e) \/ Pull(e)
  \/ \E edit \in Edits : Queue(edit[1], edit[2])
  \/ PushStep
  \/ GiveUp
  \/ \E c \in asked : Discard(c) \/ KeepMine(c)
  \/ Requeue
  \/ Kill

\* A push that is not killed goes on: requests are answered or given up.
Fairness == WF_vars(PushStep) /\ WF_vars(Requeue)

Spec == Init /\ [][Next]_vars /\ Fairness

-----------------------------------------------------------------------------
(* Properties *)

\* sync.md: the op_id makes retries safe.  However often a row is sent, and
\* however late a request arrives, the server acts on it once.
EffectOnce ==
  \A v, w \in writes : v.by = w.by /\ v.by # 0 => v = w

\* The server acts on a user's edits in the order they were made, also when a
\* batch was split or a request comes late.
EditsInOrder ==
  \A v, w \in writes : 0 < v.by /\ v.by < w.by => v.n < w.n

\* A row leaves the phone only for a reason: the server has answered it for
\* good, or cannot parse it, or the user has taken it back or replaced it.
NothingForgotten ==
  \A k \in Id \ pending :
    ops[k] # None =>
      \/ ledger[k] # None /\ ledger[k].status # "conflict"
      \/ ops[k].kind = "bad"
      \/ k \in settled

\* Nobody is asked about a conflict with the very version the edit was based
\* on: a recorded conflict is only ever answered to the row that caused it.
ConflictIsReal ==
  \A c \in asked : ops[c.op].base # c.version

\* A push comes to an end, or to a batch full of conflicts, which it sends
\* again and again.
Wedged ==
  /\ Cardinality(pending) >= Limit
  /\ \A k \in FirstRows(pending) : ledger[k] # None /\ ledger[k].status = "conflict"
PushEndsOrWedges == []<>(push.pc = "idle" \/ Wedged)
=============================================================================
