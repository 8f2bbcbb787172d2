----------------------------- MODULE EventStore ------------------------------
(***************************************************************************)
(* The server side of events: the REST handlers of api/v1/events.py and    *)
(* the event and notification appliers of POST /v1/sync/apply              *)
(* (sync/service.py), with the tables they share -- events,                *)
(* event_notifications, change_log and applied_ops.                        *)
(*                                                                         *)
(* Every request runs in one database transaction at READ COMMITTED: a     *)
(* SELECT sees the committed rows and the transaction's own, an UPDATE,    *)
(* INSERT or SELECT FOR UPDATE waits until no other transaction holds the  *)
(* row, and everything becomes visible at COMMIT.  A request is therefore  *)
(* a process with one step per statement that another request can come     *)
(* between; an UPDATE and the INSERT into change_log that follows it are   *)
(* one step, because the row is locked from the first to the second and    *)
(* the order of the two only decides which number the sequence gives.      *)
(***************************************************************************)
EXTENDS Notifications, FiniteSets, Functions

CONSTANTS
  Session,      \* requests that can be in progress at the same time
  Event,        \* event ids
  NotifId,      \* notification ids
  Field,        \* the columns of an event a PATCH can set
  Watched,      \* the columns of WATCHED_FIELDS, whose change is announced
  Val,          \* column values, messages
  Op,           \* the mutations that clients may send
  NoRow,        \* an id without a row, a row not written, no cached answer
  Workloads     \* bounds: the operations that may come, how many requests
                \* are received, operations are in one POST /v1/sync/apply,
                \* and ticks the database clock makes

OpRecord ==
  [id    : STRING,
   via   : {"rest", "sync"},
   kind  : {"create", "update", "delete", "notify",
            "other"},                                \* no applier, or a bad payload
   event : Event,
   base  : Nat,                                      \* the version the client saw
   edit  : UNION {[S -> Val] : S \in SUBSET Field},  \* the fields of a PATCH
   text  : Val \union {NoMessage}]                   \* the message of a notify

ASSUME OpAssumption ==
  /\ Op \subseteq OpRecord
  /\ \A o, p \in Op : o.id = p.id => o = p
  /\ \A o \in Op : o.kind = "create" => DOMAIN o.edit = Field
  /\ \A o \in Op : o.kind = "other" => o.via = "sync"

ASSUME StoreAssumption ==
  /\ Watched \subseteq Field
  /\ IsFiniteSet(NotifId)
  /\ Workloads \subseteq [ops : SUBSET Op, requests : Nat, batch : Nat, ticks : Nat]

VARIABLES
  events,       \* committed rows of events
  notifs,       \* committed rows of event_notifications
  log,          \* committed rows of change_log
  applied,      \* committed rows of applied_ops: op -> the answer it got
  nextSeq,      \* the change_log.seq sequence: never rolled back
  tx,           \* the transaction of each session
  now,          \* clock_timestamp() of the database
  requests,     \* requests received so far
  workload      \* bounds of the behaviour

vars == <<events, notifs, log, applied, nextSeq, tx, now, requests, workload>>

-----------------------------------------------------------------------------
(* Rows *)

Row == [version : Nat, deleted : BOOLEAN, data : [Field -> Val]]

NotifRow ==
  [event : Event, kind : Kinds, changes : SUBSET Watched,
   message : Val \union {NoMessage}, deliverAfter : Nat, version : Nat,
   deleted : BOOLEAN]

\* A row of change_log.  owner is the event a change belongs to and by the
\* operation that made it; neither is a column.
Entry ==
  [seq : Nat, type : {"event"}, id : Event, op : {"upsert", "delete"},
   payload : Row, owner : Event, by : STRING]
  \union
  [seq : Nat, type : {"notification"}, id : NotifId, op : {"upsert", "delete"},
   payload : NotifRow, owner : Event, by : STRING]

EventEntry(seq, e, op, row, o) ==
  [seq |-> seq, type |-> "event", id |-> e, op |-> op,
   payload |-> row, owner |-> e, by |-> o.id]

NotifEntry(seq, n, op, row, o) ==
  [seq |-> seq, type |-> "notification", id |-> n, op |-> op,
   payload |-> row, owner |-> row.event, by |-> o.id]

Result ==
  [status : {"applied", "conflict", "not_found", "invalid"},
   version : Nat, seq : Nat]

ASSUME NoRowAssumption == NoRow \notin Row \union NotifRow \union Result

Answer(status, version, seq) ==
  [status |-> status, version |-> version, seq |-> seq]

-----------------------------------------------------------------------------
(* Transactions *)

Steps == {"idle", "lookup", "read", "write", "announce", "withdraw", "record", "next"}

NoTx ==
  [pc      |-> "idle",
   op      |-> NoRow,                       \* the operation being applied
   mem     |-> NoRow,                       \* the ORM's copy of the event
   res     |-> NoRow,                       \* its answer
   done    |-> 0,                           \* operations of this batch so far
   locks   |-> {},                          \* events whose row it has locked
   events  |-> [e \in Event   |-> NoRow],   \* rows written, not yet committed
   notifs  |-> [n \in NotifId |-> NoRow],
   applied |-> [o \in Op      |-> NoRow],
   log     |-> {}]

Transaction ==
  [pc : Steps, op : OpRecord \union {NoRow}, mem : Row \union {NoRow},
   res : Result \union {NoRow}, done : Nat, locks : SUBSET Event,
   events : [Event -> Row \union {NoRow}],
   notifs : [NotifId -> NotifRow \union {NoRow}],
   applied : [Op -> Result \union {NoRow}],
   log : SUBSET Entry]

\* Rows of table t as the transaction's pending writes w leave them.
Over(w, t) == [k \in DOMAIN t |-> IF w[k] # NoRow THEN w[k] ELSE t[k]]

\* Mutant: what the session has not flushed is not seen.
CommittedNotifs(s) == notifs

\* What a SELECT of session s sees.
VisibleEvent(s, e) == Over(tx[s].events, events)[e]
VisibleNotifs(s)   == Over(tx[s].notifs, notifs)
VisibleAnswer(s)   == Over(tx[s].applied, applied)[tx[s].op]

LockedByOther(s, e) == \E t \in Session \ {s} : e \in tx[t].locks

\* Ids are fresh UUIDs: not in the table and in nobody's transaction.
FreshEvent(e) == events[e] = NoRow /\ \A t \in Session : tx[t].events[e] = NoRow
FreshNotif(n) == notifs[n] = NoRow /\ \A t \in Session : tx[t].notifs[n] = NoRow

-----------------------------------------------------------------------------
Init ==
  /\ events   = [e \in Event   |-> NoRow]
  /\ notifs   = [n \in NotifId |-> NoRow]
  /\ log      = {}
  /\ applied  = [o \in Op      |-> NoRow]
  /\ nextSeq  = 1
  /\ tx       = [s \in Session |-> NoTx]
  /\ now      = 0
  /\ requests = 0
  /\ workload \in Workloads

tables == <<events, notifs, log, applied>>

\* Session s has finished with its operation: a sync operation still records
\* its answer in applied_ops.
AfterOp(o) == IF o.via = "sync" THEN "record" ELSE "next"

\* A request arrives.  The server chooses the id of an event created over REST.
Begin(s, o) ==
  /\ tx[s].pc = "idle"
  /\ o \in workload.ops /\ requests < workload.requests
  /\ requests' = requests + 1
  /\ \E e \in Event :
       /\ IF o.via = "rest" /\ o.kind = "create" THEN FreshEvent(e) ELSE e = o.event
       /\ tx' = [tx EXCEPT ![s] =
                   [NoTx EXCEPT !.pc = IF o.via = "sync" THEN "lookup" ELSE "read",
                                !.op = [o EXCEPT !.event = e]]]
  /\ UNCHANGED <<tables, nextSeq, now>>

\* The next operation of a batch.
TakeOp(s, o) ==
  /\ tx[s].pc = "next"
  /\ tx[s].op.via = "sync" /\ o.via = "sync"
  /\ o \in workload.ops /\ tx[s].done < workload.batch
  /\ tx' = [tx EXCEPT ![s].pc = "lookup", ![s].op = o,
                      ![s].mem = NoRow, ![s].res = NoRow]
  /\ UNCHANGED <<tables, nextSeq, now, requests>>

\* _apply_one: an operation with a recorded answer is not applied again.
Lookup(s) ==
  /\ tx[s].pc = "lookup"
  /\ tx' = [tx EXCEPT
              ![s].pc   = IF VisibleAnswer(s) # NoRow THEN "next" ELSE "read",
              ![s].res  = VisibleAnswer(s),
              ![s].done = IF VisibleAnswer(s) # NoRow THEN @ + 1 ELSE @]
  /\ UNCHANGED <<tables, nextSeq, now, requests>>

\* A REST handler that raises HTTPException ends its transaction; the
\* SAVEPOINT of a sync operation is rolled back and its answer recorded.
Refuse(s, answer) ==
  tx' = [tx EXCEPT ![s] = IF @.op.via = "rest"
                          THEN NoTx
                          ELSE [@ EXCEPT !.pc = "record", !.res = answer]]

NewEvent(o) == [version |-> 1, deleted |-> FALSE, data |-> o.edit]

\* The SELECT of the event and the checks before anything is written.
Read(s) ==
  LET o == tx[s].op
      row == VisibleEvent(s, o.event)
      gone == row = NoRow \/ row.deleted
      Proceed(pc, mem) == tx' = [tx EXCEPT ![s].pc = pc, ![s].mem = mem]
  IN
  /\ tx[s].pc = "read"
  /\ \/ /\ o.kind = "create"
        /\ IF row # NoRow
           THEN Refuse(s, Answer("invalid", 0, 0))
           ELSE Proceed("write", NewEvent(o))
     \/ /\ o.kind = "update"
        /\ IF gone THEN Refuse(s, Answer("not_found", 0, 0))
           ELSE IF row.version # o.base
                THEN Refuse(s, Answer("conflict", row.version, 0))
                ELSE Proceed("write", row)
     \/ /\ o.kind = "delete"
        /\ IF ~gone THEN Proceed("write", row)
           ELSE IF row # NoRow /\ o.via = "sync"
                THEN tx' = [tx EXCEPT ![s].pc = "record",
                                      ![s].res = Answer("applied", row.version, 0)]
                ELSE Refuse(s, Answer("not_found", 0, 0))
     \/ /\ o.kind = "notify"
        /\ IF gone THEN Refuse(s, Answer("not_found", 0, 0))
           ELSE Proceed("announce", row)
     \/ /\ o.kind = "other"
        /\ Refuse(s, Answer("invalid", 0, 0))
  /\ UNCHANGED <<tables, nextSeq, now, requests>>

-----------------------------------------------------------------------------
(* Writing *)

\* The object in memory after the handler's assignments.
Edited(o, mem) ==
  CASE o.kind = "create" -> mem
    [] o.kind = "update" ->
         [version |-> mem.version + 1,
          deleted |-> mem.deleted,
          data    |-> [f \in Field |-> IF f \in DOMAIN o.edit THEN o.edit[f] ELSE mem.data[f]]]
    [] o.kind = "delete" ->
         [version |-> mem.version + 1, deleted |-> TRUE, data |-> mem.data]

\* Mutant: the whole object is written back.
StoredWhole(row, old, new) == new

\* The row after the flush: an UPDATE sets the columns whose value in memory
\* has changed and leaves the others as they are in the table.
Stored(row, old, new) ==
  [version |-> new.version,
   deleted |-> IF new.deleted # old.deleted THEN new.deleted ELSE row.deleted,
   data    |-> [f \in Field |-> IF new.data[f] # old.data[f] THEN new.data[f]
                               ELSE row.data[f]]]

\* changes_since
News(old, new) == {f \in Watched : new.data[f] # old.data[f]}

\* The transaction is rolled back and the client gets a 500.
Rollback(s) == tx' = [tx EXCEPT ![s] = NoTx]

\* Mutant: the log is written before the assignments.
SnapshotBefore(o, mem) == mem

\* serialize_event: the payload of the change.
Snapshot(o, mem) == Edited(o, mem)

\* flush() and record_event_change().  The change carries the object in
\* memory, not the row.  The INSERT of an id that has been committed
\* meanwhile breaks the primary key.
Write(s) ==
  LET o   == tx[s].op
      e   == o.event
      mem == tx[s].mem
      new == Edited(o, mem)
      row == IF o.kind = "create" THEN new
             ELSE Stored(VisibleEvent(s, e), mem, new)
      entry == EventEntry(nextSeq, e, IF o.kind = "delete" THEN "delete" ELSE "upsert",
                          Snapshot(o, mem), o)
      pc == CASE o.kind = "create" -> "announce"
              [] o.kind = "update" -> IF News(mem, new) # {} THEN "announce" ELSE AfterOp(o)
              [] o.kind = "delete" -> "withdraw"
  IN
  /\ tx[s].pc = "write"
  /\ ~LockedByOther(s, e)
  /\ IF o.kind = "create" /\ events[e] # NoRow
     THEN Rollback(s) /\ UNCHANGED nextSeq
     ELSE /\ tx' = [tx EXCEPT ![s].pc        = pc,
                             ![s].res       = Answer("applied", new.version, nextSeq),
                             ![s].locks     = @ \union {e},
                             ![s].events[e] = row,
                             ![s].log       = @ \union {entry}]
          /\ nextSeq' = nextSeq + 1
  /\ UNCHANGED <<tables, now, requests>>

\* What the operation has to announce.
NewsKind(o) ==
  CASE o.kind = "create" -> "event_created"
    [] o.kind = "update" -> "event_changed"
    [] o.kind = "notify" -> "manual"
NewsChanges(o, mem) == IF o.kind = "update" THEN News(mem, Edited(o, mem)) ELSE {}
NewsText(o)         == IF o.kind = "notify" THEN o.text ELSE NoMessage

\* announce() writes notification n, which may be new, and logs it.  The
\* answer to a notify is about the notification.
Put(s, n, row) ==
  LET o == tx[s].op IN
  /\ tx' = [tx EXCEPT ![s].pc        = AfterOp(o),
                     ![s].res       = IF o.kind = "notify"
                                      THEN Answer("applied", row.version, 0) ELSE @,
                     ![s].locks     = @ \union {o.event},
                     ![s].notifs[n] = row,
                     ![s].log       = @ \union {NotifEntry(nextSeq, n, "upsert", row, o)}]
  /\ nextSeq' = nextSeq + 1

\* Mutant: a SELECT without FOR UPDATE.
PlainSelect(s, e) == TRUE

\* The SELECT ... FOR UPDATE of announce: it waits for the row.
ForUpdate(s, e) == ~LockedByOther(s, e)

\* announce(): lock the event, look at it again, then merge into the latest
\* notification that is still open or make a new one.  EventGone answers a
\* notify with not_found; nothing catches it in an update.
Announce(s) ==
  LET o    == tx[s].op
      rows == VisibleNotifs(s)
      open == {n \in NotifId : rows[n] # NoRow /\ Mergeable(rows[n], o.event, now)}
  IN
  /\ tx[s].pc = "announce"
  /\ ForUpdate(s, o.event)
  /\ IF VisibleEvent(s, o.event).deleted
     THEN /\ IF o.kind = "notify" THEN Refuse(s, Answer("not_found", 0, 0)) ELSE Rollback(s)
          /\ UNCHANGED nextSeq
     ELSE \/ \E n \in open :
               /\ \A m \in open : rows[m].deliverAfter <= rows[n].deliverAfter
               /\ Put(s, n, Merge(rows[n], NewsKind(o), NewsChanges(o, tx[s].mem), NewsText(o)))
          \/ /\ open = {}
             /\ \E n \in NotifId :
                  /\ FreshNotif(n)
                  /\ Put(s, n, NewNotification(o.event, NewsKind(o),
                                               NewsChanges(o, tx[s].mem), NewsText(o), now))
  /\ UNCHANGED <<tables, now, requests>>

\* withdraw_pending(): in a delete, after the event itself.
Withdraw(s) ==
  LET o    == tx[s].op
      rows == VisibleNotifs(s)
      due  == {n \in NotifId : rows[n] # NoRow /\ Withdrawable(rows[n], o.event, now)}
  IN
  /\ tx[s].pc = "withdraw"
  /\ \E seqOf \in Bijection(due, nextSeq .. nextSeq + Cardinality(due) - 1) :
       tx' = [tx EXCEPT
                ![s].pc     = AfterOp(o),
                ![s].notifs = [n \in NotifId |-> IF n \in due THEN Withdrawn(rows[n]) ELSE @[n]],
                ![s].log    = @ \union {NotifEntry(seqOf[n], n, "delete", Withdrawn(rows[n]), o)
                                         : n \in due}]
  /\ nextSeq' = nextSeq + Cardinality(due)
  /\ UNCHANGED <<tables, now, requests>>

\* Mutant: the answer is committed on its own, before the changes.
RecordAtOnce(s) ==
  /\ tx[s].pc = "record"
  /\ applied' = [applied EXCEPT ![tx[s].op] = tx[s].res]
  /\ tx' = [tx EXCEPT ![s].pc = "next", ![s].done = @ + 1]
  /\ UNCHANGED <<events, notifs, log, nextSeq, now, requests>>

\* Mutant: an upsert that replaces the answer of an earlier copy.
RecordOver(s) ==
  /\ tx[s].pc = "record"
  /\ tx' = [tx EXCEPT ![s].pc = "next", ![s].done = @ + 1,
                     ![s].applied[tx[s].op] = tx[s].res]
  /\ UNCHANGED <<tables, nextSeq, now, requests>>

\* The INSERT into applied_ops waits for a transaction that has the same
\* op_id and, once that has committed, breaks the primary key.
Record(s) ==
  LET o == tx[s].op IN
  /\ tx[s].pc = "record"
  /\ \A t \in Session \ {s} : tx[t].applied[o] = NoRow
  /\ IF applied[o] # NoRow
     THEN Rollback(s)
     ELSE tx' = [tx EXCEPT ![s].pc         = "next",
                           ![s].done       = @ + 1,
                           ![s].applied[o] = tx[s].res]
  /\ UNCHANGED <<tables, nextSeq, now, requests>>

\* session.commit()
Commit(s) ==
  /\ tx[s].pc = "next"
  /\ events'  = Over(tx[s].events, events)
  /\ notifs'  = Over(tx[s].notifs, notifs)
  /\ applied' = Over(tx[s].applied, applied)
  /\ log'     = log \union tx[s].log
  /\ tx'      = [tx EXCEPT ![s] = NoTx]
  /\ UNCHANGED <<nextSeq, now, requests>>

\* A deadlock, a dropped connection, an error in the handler or a restart of
\* the server: nothing of the transaction remains except the numbers it took.
Abort(s) ==
  /\ tx[s].pc # "idle"
  /\ Rollback(s)
  /\ UNCHANGED <<tables, nextSeq, now, requests>>

Tick ==
  /\ now < workload.ticks
  /\ now' = now + 1
  /\ UNCHANGED <<tables, nextSeq, tx, requests>>

Next ==
  /\ \/ \E s \in Session :
          \/ \E o \in Op : Begin(s, o) \/ TakeOp(s, o)
          \/ Lookup(s) \/ Read(s) \/ Write(s) \/ Announce(s) \/ Withdraw(s)
          \/ Record(s) \/ Commit(s) \/ Abort(s)
     \/ Tick
  /\ UNCHANGED workload

Spec == Init /\ [][Next]_vars

-----------------------------------------------------------------------------
(* Properties *)

TypeOK ==
  /\ events \in [Event -> Row \union {NoRow}]
  /\ notifs \in [NotifId -> NotifRow \union {NoRow}]
  /\ log \subseteq Entry
  /\ applied \in [Op -> Result \union {NoRow}]
  /\ nextSeq \in Nat \ {0}
  /\ tx \in [Session -> Transaction]
  /\ now \in Nat
  /\ requests \in Nat

\* The changes that operation o made to its own event or, for a notify, to a
\* notification.
Effects(o) ==
  {l \in log : /\ l.by = o.id
               /\ l.type = IF o.kind = "notify" THEN "notification" ELSE "event"}

\* An operation that a phone sends again and again, also while an earlier copy
\* is still being applied, has its effect at most once (AppliedOp).
AppliedAtMostOnce ==
  \A o \in Op : o.via = "sync" => \A l, m \in Effects(o) : l = m

\* The recorded answer tells the truth: an operation is answered "applied"
\* with a seq exactly when that change is in the log, with the same version,
\* and one that was refused left nothing behind (the SAVEPOINT of _apply_one
\* and the single commit of post_apply).
AnswerMatchesLog ==
  \A o \in Op :
    o.via = "sync" /\ o.kind # "notify" =>
      /\ \A l \in Effects(o) : applied[o] = Answer("applied", l.payload.version, l.seq)
      /\ applied[o] # NoRow /\ applied[o].seq # 0 => Effects(o) # {}

\* The change of event e that a phone applies last.
LastChange(e) ==
  CHOOSE l \in log : /\ l.type = "event" /\ l.id = e
                     /\ \A m \in log : m.type = "event" /\ m.id = e => m.seq <= l.seq

\* Whatever order requests commit in, the last change of an event carries the
\* version the table has, so a phone that has read everything sends a base
\* version that the server accepts.
LastChangeHasVersion ==
  \A e \in Event : events[e] # NoRow => LastChange(e).payload.version = events[e].version

\* withdraw_pending against announce: no notification of a deleted event is
\* still waiting for its delivery time.
NothingPendingOfDeleted ==
  \A n \in NotifId :
    notifs[n] # NoRow /\ events[notifs[n].event].deleted
      => notifs[n].deleted \/ notifs[n].deliverAfter <= now

\* Requests that announce the same event at the same time end in one open
\* notification, not two (the row lock of announce).
OneOpenNotification ==
  \A m, n \in NotifId :
    /\ notifs[m] # NoRow /\ Mergeable(notifs[m], notifs[m].event, now)
    /\ notifs[n] # NoRow /\ Mergeable(notifs[n], notifs[m].event, now)
    => m = n

\* A deleted event stays deleted, also when an update that read it before the
\* deletion writes it afterwards.
DeletionIsFinal ==
  [][\A e \in Event :
       events[e] # NoRow /\ events[e].deleted => events'[e] # NoRow /\ events'[e].deleted]_events

\* Why the feed is in order: the numbers of the changes below nextSeq are all
\* different ...
NumbersAreDistinct ==
  /\ \A l \in log : l.seq \in 1 .. nextSeq - 1
  /\ \A l, m \in log : l.seq = m.seq => l = m
  /\ \A s \in Session : \A l \in tx[s].log :
       /\ l.seq \in 1 .. nextSeq - 1
       /\ \A m \in log : l.seq # m.seq
       /\ \A m \in tx[s].log : l.seq = m.seq => l = m
       /\ \A r \in Session \ {s} : \A m \in tx[r].log : l.seq # m.seq

\* ... a request writes and logs what belongs to the events it has locked ...
WritesUnderLock ==
  \A s \in Session :
    /\ \A r \in Session \ {s} : tx[s].locks \intersect tx[r].locks = {}
    /\ tx[s].pc = "withdraw" => tx[s].op.event \in tx[s].locks
    /\ \A l \in tx[s].log : IF l.type = "event" THEN l.id \in tx[s].locks
                             ELSE tx[s].notifs[l.id] # NoRow
    /\ \A n \in NotifId : tx[s].notifs[n] # NoRow =>
         /\ tx[s].notifs[n].event \in tx[s].locks
         /\ notifs[n] # NoRow => notifs[n].event = tx[s].notifs[n].event
         /\ \A r \in Session \ {s} : tx[r].notifs[n] = NoRow

\* ... and so has, in its transaction, the newest changes of each.
PendingIsNewest ==
  \A s \in Session : \A l \in tx[s].log : \A m \in log :
    l.type = m.type /\ l.id = m.id => m.seq < l.seq

\* The inductive invariant behind ImplementsFeed.
FeedInv == NumbersAreDistinct /\ WritesUnderLock /\ PendingIsNewest

\* What phones may rely on.
Feed == INSTANCE ChangeFeed WITH
  Key    <- ({"event"} \X Event) \union ({"notification"} \X NotifId),
  feed   <- {[seq |-> l.seq, key |-> <<l.type, l.id>>] : l \in log},
  issued <- nextSeq - 1

\* The tables implement the feed: in particular the changes of one entity
\* appear in the order of their numbers, whatever transactions made them.
ImplementsFeed == Feed!FeedSpec
=============================================================================
