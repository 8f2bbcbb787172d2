-------------------------- MODULE EventStoreProofs ---------------------------
(***************************************************************************)
(* Theorems about EventStore, for every set of sessions, events, ids and   *)
(* operations and for every bound, in six parts: the type invariant; the   *)
(* log as a ChangeFeed; the answers to operations that are sent again; the *)
(* versions that a reader of the log has; what a deletion leaves; and the  *)
(* notification that is open to merges.                                    *)
(***************************************************************************)
EXTENDS EventStore, FiniteSetTheorems, TLAPS

-----------------------------------------------------------------------------
(* 1. Types *)

\* What the steps of a request know about its operation and its copy of the
\* event: the part of the type invariant that depends on where a request is.
OpOK(o) ==
  /\ o \in OpRecord
  /\ o.via = "sync" => o \in Op
  /\ o.kind = "create" => o.edit \in [Field -> Val]

StepOK(t) ==
  /\ t.pc # "idle" => OpOK(t.op)
  /\ t.pc = "write" => t.mem \in Row /\ t.op.kind \in {"create", "update", "delete"}
  /\ t.pc = "write" /\ t.op.kind # "create" => Over(t.events, events)[t.op.event] # NoRow
  /\ t.pc = "announce" => /\ t.op.kind \in {"create", "update", "notify"}
                          /\ t.mem \in Row
                          /\ t.op.kind # "notify" => t.res \in Result
  /\ t.pc = "withdraw" => t.res \in Result
  /\ t.pc = "lookup" => t.op.via = "sync"
  /\ t.pc = "record" => t.res \in Result /\ t.op.via = "sync"

Typed == TypeOK /\ \A s \in Session : StepOK(tx[s])

USE DEF NoTx

LEMMA NoTxTyped == NoTx \in Transaction
  BY DEF Transaction, Steps

\* A step that touches no table.
LEMMA SetTx ==
  ASSUME Typed, NEW s \in Session, NEW t \in Transaction, StepOK(t),
         tx' = [tx EXCEPT ![s] = t], UNCHANGED tables,
         nextSeq' \in Nat \ {0}, now' \in Nat, requests' \in Nat
  PROVE  Typed'
  BY DEF Typed, TypeOK, StepOK, OpOK, tables

LEMMA InitTyped == Init => Typed
<1> SUFFICES ASSUME Init PROVE Typed
  OBVIOUS
<1>1. TypeOK
  BY NoTxTyped DEF Init, TypeOK
<1>2. ASSUME NEW s \in Session PROVE StepOK(tx[s])
  BY DEF Init, StepOK
<1> QED BY <1>1, <1>2 DEF Typed

LEMMA OpsOK == \A o \in Op : OpOK(o)
<1> TAKE o \in Op
<1>0. o \in OpRecord
  BY OpAssumption
<1>1. o.kind = "create" => DOMAIN o.edit = Field
  BY OpAssumption
<1>2. o.edit \in UNION {[S -> Val] : S \in SUBSET Field}
  BY <1>0 DEF OpRecord
<1>3. PICK S \in SUBSET Field : o.edit \in [S -> Val]
  BY <1>2
<1>4. o.kind = "create" => o.edit \in [Field -> Val]
  BY <1>1, <1>3
<1> QED BY <1>0, <1>4 DEF OpOK

LEMMA BeginTyped ==
  ASSUME Typed, NEW s \in Session, NEW o \in Op, Begin(s, o) PROVE Typed'
<1>1. PICK e \in Event :
        /\ tx' = [tx EXCEPT ![s] = [NoTx EXCEPT !.pc = IF o.via = "sync" THEN "lookup" ELSE "read",
                                             !.op = [o EXCEPT !.event = e]]]
        /\ o.via = "sync" => e = o.event
  BY DEF Begin
<1> DEFINE p == [o EXCEPT !.event = e]
           t == [NoTx EXCEPT !.pc = IF o.via = "sync" THEN "lookup" ELSE "read", !.op = p]
<1>2. OpOK(p) /\ p.via = o.via
  BY <1>1, OpsOK DEF OpOK, OpRecord
<1>3. t \in Transaction /\ StepOK(t)
  <2> HIDE DEF p
  <2>1. t.op = p /\ t.pc = (IF o.via = "sync" THEN "lookup" ELSE "read")
    OBVIOUS
  <2>2. StepOK(t)
    BY <1>2, <2>1 DEF StepOK
  <2>3. t \in Transaction
    BY <1>2, NoTxTyped DEF Transaction, Steps, OpOK
  <2> QED BY <2>2, <2>3
<1>4. /\ UNCHANGED tables
      /\ nextSeq' \in Nat \ {0} /\ now' \in Nat /\ requests' \in Nat
  BY DEF Begin, Typed, TypeOK
<1> QED BY <1>1, <1>3, <1>4, SetTx

\* The rows a transaction sees have the type of the table.
LEMMA OverType ==
  ASSUME NEW K, NEW R, NEW w \in [K -> R \union {NoRow}], NEW t \in [K -> R \union {NoRow}]
  PROVE  Over(w, t) \in [K -> R \union {NoRow}]
  BY DEF Over

LEMMA VisibleTypes ==
  ASSUME Typed, NEW s \in Session
  PROVE  /\ \A e \in Event : VisibleEvent(s, e) \in Row \union {NoRow}
         /\ VisibleNotifs(s) \in [NotifId -> NotifRow \union {NoRow}]
         /\ tx[s].op \in Op => VisibleAnswer(s) \in Result \union {NoRow}
<1> tx[s] \in Transaction
  BY DEF Typed, TypeOK
<1>1. Over(tx[s].events, events) \in [Event -> Row \union {NoRow}]
  BY OverType DEF Typed, TypeOK, Transaction
<1>2. Over(tx[s].notifs, notifs) \in [NotifId -> NotifRow \union {NoRow}]
  BY OverType DEF Typed, TypeOK, Transaction
<1>3. Over(tx[s].applied, applied) \in [Op -> Result \union {NoRow}]
  BY OverType DEF Typed, TypeOK, Transaction
<1> QED BY <1>1, <1>2, <1>3 DEF VisibleEvent, VisibleNotifs, VisibleAnswer

LEMMA TakeOpTyped ==
  ASSUME Typed, NEW s \in Session, NEW o \in Op, TakeOp(s, o) PROVE Typed'
<1> DEFINE t == [tx[s] EXCEPT !.pc = "lookup", !.op = o, !.mem = NoRow, !.res = NoRow]
<1>1. tx[s] \in Transaction
  BY DEF Typed, TypeOK
<1>2. t \in Transaction
  BY <1>1, OpsOK DEF Transaction, Steps, OpOK
<1>5. StepOK(t)
  <2>1. t.op = o /\ t.pc = "lookup" /\ o.via = "sync"
    BY <1>1 DEF Transaction, TakeOp
  <2> QED BY <2>1, OpsOK DEF StepOK
<1>3. tx' = [tx EXCEPT ![s] = t]
  BY <1>1 DEF TakeOp, Typed, TypeOK
<1>4. /\ UNCHANGED tables
      /\ nextSeq' \in Nat \ {0} /\ now' \in Nat /\ requests' \in Nat
  BY DEF TakeOp, Typed, TypeOK
<1> QED BY <1>2, <1>5, <1>3, <1>4, SetTx

LEMMA LookupTyped ==
  ASSUME Typed, NEW s \in Session, Lookup(s) PROVE Typed'
<1> DEFINE v == VisibleAnswer(s)
           pc == IF v # NoRow THEN "next" ELSE "read"
           done == IF v # NoRow THEN tx[s].done + 1 ELSE tx[s].done
           t == [tx[s] EXCEPT !.pc = pc, !.res = v, !.done = done]
<1>1. tx[s] \in Transaction /\ StepOK(tx[s])
  BY DEF Typed, TypeOK
<1>2. v \in Result \union {NoRow}
  BY <1>1, VisibleTypes DEF Lookup, StepOK, OpOK
<1>3. pc \in {"next", "read"} /\ done \in Nat
  BY <1>1 DEF Transaction
<1>4. tx' = [tx EXCEPT ![s] = t]
  BY <1>1 DEF Lookup, Typed, TypeOK
<1>5. /\ UNCHANGED tables
      /\ nextSeq' \in Nat \ {0} /\ now' \in Nat /\ requests' \in Nat
  BY DEF Lookup, Typed, TypeOK
<1> HIDE DEF v, pc, done
<1>6. t \in Transaction
  BY <1>1, <1>2, <1>3 DEF Transaction, Steps
<1>7. StepOK(t)
  <2>1. t.op = tx[s].op /\ t.pc = pc
    BY <1>1 DEF Transaction
  <2> QED BY <1>1, <1>3, <2>1 DEF StepOK, Lookup
<1> QED BY <1>4, <1>5, <1>6, <1>7, SetTx

LEMMA AnswerType ==
  ASSUME NEW st \in {"applied", "conflict", "not_found", "invalid"}, NEW v \in Nat, NEW q \in Nat
  PROVE  Answer(st, v, q) \in Result
  BY DEF Answer, Result

\* A refusal ends a REST request and records the answer of a sync operation.
LEMMA RefuseTyped ==
  ASSUME Typed, NEW s \in Session, tx[s].pc # "idle", NEW a \in Result, Refuse(s, a),
         UNCHANGED <<tables, nextSeq, now, requests>>
  PROVE  Typed'
<1> DEFINE t == IF tx[s].op.via = "rest" THEN NoTx
                ELSE [tx[s] EXCEPT !.pc = "record", !.res = a]
<1>1. tx[s] \in Transaction /\ StepOK(tx[s])
  BY DEF Typed, TypeOK
<1>2. tx[s].op.via \in {"rest", "sync"}
  BY <1>1 DEF StepOK, OpOK, OpRecord
<1>3. t \in Transaction /\ StepOK(t)
  <2>1. CASE tx[s].op.via = "rest"
    BY <2>1, NoTxTyped DEF StepOK
  <2>2. CASE tx[s].op.via = "sync"
    BY <2>2, <1>1 DEF Transaction, Steps, StepOK
  <2> QED BY <2>1, <2>2, <1>2
<1>4. tx' = [tx EXCEPT ![s] = t]
  BY <1>1 DEF Refuse, Typed, TypeOK
<1> QED BY <1>3, <1>4, SetTx DEF Typed, TypeOK

LEMMA ReadTyped ==
  ASSUME Typed, NEW s \in Session, Read(s) PROVE Typed'
<1> DEFINE o == tx[s].op
           row == VisibleEvent(s, o.event)
<1>1. /\ tx[s] \in Transaction /\ StepOK(tx[s]) /\ tx[s].pc = "read"
      /\ UNCHANGED <<tables, nextSeq, now, requests>>
  BY DEF Read, Typed, TypeOK
<1>2. OpOK(o) /\ o.event \in Event
  BY <1>1 DEF StepOK, OpOK, OpRecord
<1>3. row \in Row \union {NoRow}
  BY <1>2, VisibleTypes
<1>4. row # NoRow => row.version \in Nat
  BY <1>3 DEF Row
<1>5. ASSUME NEW a \in Result, Refuse(s, a) PROVE Typed'
  BY <1>1, <1>5, RefuseTyped
<1>6. ASSUME NEW pc \in {"write", "announce"}, NEW mem \in Row,
             pc = "write" => o.kind \in {"create", "update", "delete"},
             pc = "announce" => o.kind = "notify",
             o.kind # "create" => row # NoRow,
             tx' = [tx EXCEPT ![s].pc = pc, ![s].mem = mem]
      PROVE Typed'
  <2> DEFINE t == [tx[s] EXCEPT !.pc = pc, !.mem = mem]
  <2>0. o.kind # "create" => Over(tx[s].events, events)[o.event] # NoRow
    BY <1>6 DEF VisibleEvent
  <2>1. t \in Transaction /\ StepOK(t)
    BY <1>1, <1>2, <1>6, <2>0 DEF Transaction, Steps, StepOK
  <2>2. tx' = [tx EXCEPT ![s] = t]
    BY <1>1, <1>6 DEF Typed, TypeOK
  <2> QED BY <1>1, <2>1, <2>2, SetTx DEF Typed, TypeOK
<1> HIDE DEF row
<1>7. CASE o.kind = "create"
  <2>1. NewEvent(o) \in Row
    BY <1>2, <1>7 DEF NewEvent, Row, OpOK
  <2> QED BY <1>5, <1>6, <1>7, <2>1, AnswerType DEF Read, row
<1>8. CASE o.kind = "update"
  BY <1>3, <1>4, <1>5, <1>6, <1>8, AnswerType DEF Read, row
<1>9. CASE o.kind = "delete"
  <2>1. CASE row # NoRow /\ row.deleted /\ o.via = "sync"
    <3> DEFINE t == [tx[s] EXCEPT !.pc = "record", !.res = Answer("applied", row.version, 0)]
    <3>1. t \in Transaction /\ StepOK(t)
      BY <1>1, <1>4, <2>1, AnswerType DEF Transaction, Steps, StepOK
    <3>2. tx' = [tx EXCEPT ![s] = t]
      BY <1>1, <1>9, <2>1 DEF Read, Typed, TypeOK, row
    <3> QED BY <1>1, <3>1, <3>2, SetTx DEF Typed, TypeOK
  <2>2. CASE ~(row # NoRow /\ row.deleted /\ o.via = "sync")
    BY <1>3, <1>4, <1>5, <1>6, <1>9, <2>2, AnswerType DEF Read, row
  <2> QED BY <2>1, <2>2 DEF Transaction
<1>10. CASE o.kind = "notify"
  BY <1>3, <1>4, <1>5, <1>6, <1>10, AnswerType DEF Read, row
<1>11. CASE o.kind = "other"
  BY <1>5, <1>11, AnswerType DEF Read
<1>12. o.kind \in {"create", "update", "delete", "notify", "other"}
  BY <1>2 DEF OpOK, OpRecord
<1> QED BY <1>7, <1>8, <1>9, <1>10, <1>11, <1>12

LEMMA RollbackTyped ==
  ASSUME Typed, NEW s \in Session, Rollback(s), UNCHANGED tables,
         nextSeq' = nextSeq, now' = now, requests' = requests
  PROVE  Typed'
<1>1. StepOK(NoTx)
  BY DEF StepOK
<1> QED BY <1>1, NoTxTyped, SetTx DEF Rollback, Typed, TypeOK

\* What a flush leaves in memory and in the table are rows of an event.
LEMMA EditedType ==
  ASSUME NEW o, OpOK(o), o.kind \in {"create", "update", "delete"}, NEW mem \in Row
  PROVE  Edited(o, mem) \in Row
<1>1. CASE o.kind = "create"
  BY <1>1 DEF Edited
<1>2. CASE o.kind = "delete"
  BY <1>2 DEF Edited, Row
<1>3. CASE o.kind = "update"
  <2>1. \A f \in DOMAIN o.edit : o.edit[f] \in Val
    <3>1. o.edit \in UNION {[S -> Val] : S \in SUBSET Field}
      BY DEF OpOK, OpRecord
    <3> QED BY <3>1
  <2>2. [f \in Field |-> IF f \in DOMAIN o.edit THEN o.edit[f] ELSE mem.data[f]] \in [Field -> Val]
    BY <2>1 DEF Row
  <2> QED BY <1>3, <2>2 DEF Edited, Row
<1> QED BY <1>1, <1>2, <1>3

LEMMA StoredType ==
  ASSUME NEW row \in Row, NEW old \in Row, NEW new \in Row
  PROVE  Stored(row, old, new) \in Row
  BY DEF Stored, Row

LEMMA NewsType ==
  ASSUME NEW old, NEW new PROVE News(old, new) \in SUBSET Watched
  BY DEF News

\* The step of Write, Put and Withdraw: s writes rows and changes.
LEMMA EntryType ==
  ASSUME NEW q \in Nat, NEW o, OpOK(o)
  PROVE  /\ \A e \in Event, op \in {"upsert", "delete"}, row \in Row :
              EventEntry(q, e, op, row, o) \in Entry
         /\ \A n \in NotifId, op \in {"upsert", "delete"}, row \in NotifRow :
              NotifEntry(q, n, op, row, o) \in Entry
<1>1. o.id \in STRING
  BY DEF OpOK, OpRecord
<1>2. \A row \in NotifRow : row.event \in Event
  BY DEF NotifRow
<1> QED BY <1>1, <1>2 DEF EventEntry, NotifEntry, Entry

LEMMA WriteTyped ==
  ASSUME Typed, NEW s \in Session, Write(s) PROVE Typed'
<1> DEFINE o == tx[s].op
           e == o.event
           mem == tx[s].mem
           new == Edited(o, mem)
           row == IF o.kind = "create" THEN new
                  ELSE Stored(VisibleEvent(s, e), mem, new)
           entry == EventEntry(nextSeq, e, IF o.kind = "delete" THEN "delete" ELSE "upsert",
                               Snapshot(o, mem), o)
           pc == CASE o.kind = "create" -> "announce"
                   [] o.kind = "update" -> IF News(mem, new) # {} THEN "announce" ELSE AfterOp(o)
                   [] o.kind = "delete" -> "withdraw"
           res == Answer("applied", new.version, nextSeq)
<1>1. /\ tx[s] \in Transaction /\ StepOK(tx[s]) /\ tx[s].pc = "write"
      /\ UNCHANGED tables /\ now' = now /\ requests' = requests
      /\ nextSeq \in Nat \ {0} /\ now \in Nat /\ requests \in Nat
  BY DEF Write, Typed, TypeOK
<1>2. /\ OpOK(o) /\ e \in Event /\ mem \in Row
      /\ o.kind \in {"create", "update", "delete"}
      /\ o.kind # "create" => VisibleEvent(s, e) # NoRow
  BY <1>1 DEF StepOK, OpOK, OpRecord, VisibleEvent
<1>3. new \in Row
  BY <1>2, EditedType
<1>4. row \in Row
  <2>1. CASE o.kind = "create"
    BY <1>3, <2>1
  <2>2. CASE o.kind # "create"
    <3>1. VisibleEvent(s, e) \in Row
      BY <1>2, <2>2, VisibleTypes
    <3> QED BY <1>2, <1>3, <2>2, <3>1, StoredType
  <2> QED BY <2>1, <2>2 DEF Transaction
<1>5. CASE o.kind = "create" /\ events[e] # NoRow
  <2>1. Rollback(s) /\ nextSeq' = nextSeq
    BY <1>5 DEF Write
  <2> QED BY <1>1, <2>1, RollbackTyped
<1>6. CASE ~(o.kind = "create" /\ events[e] # NoRow)
  <2> DEFINE t == [tx[s] EXCEPT !.pc = pc, !.res = res, !.locks = @ \union {e},
                                !.events[e] = row, !.log = @ \union {entry}]
  <2>1. tx' = [tx EXCEPT ![s] = t] /\ nextSeq' = nextSeq + 1
    BY <1>1, <1>6 DEF Write, Typed, TypeOK
  <2>2. entry \in Entry
    BY <1>1, <1>2, <1>3, EntryType DEF Snapshot
  <2>3. pc \in {"announce", "withdraw", "record", "next"}
        /\ (pc = "announce" => o.kind \in {"create", "update"})
        /\ (pc = "record" => o.via = "sync")
    BY <1>2 DEF AfterOp
  <2>4. res \in Result
    BY <1>1, <1>3, AnswerType DEF Row
  <2> HIDE DEF new, row, entry, pc, res
  <2>5. t \in Transaction
    <3>1. [tx[s].events EXCEPT ![e] = row] \in [Event -> Row \union {NoRow}]
      BY <1>1, <1>4 DEF Transaction
    <3> QED BY <1>1, <1>2, <2>2, <2>3, <2>4, <3>1 DEF Transaction, Steps
  <2>6. t.op = o /\ t.pc = pc /\ t.mem = mem /\ t.res = res
    BY <1>1 DEF Transaction
  <2>7. StepOK(t)
    BY <1>2, <2>3, <2>4, <2>6 DEF StepOK
  <2>8. nextSeq' \in Nat \ {0}
    BY <1>1, <2>1
  <2> HIDE DEF t
  <2> QED BY <1>1, <2>1, <2>5, <2>7, <2>8, SetTx
<1> QED BY <1>5, <1>6

\* What announce and withdraw_pending make of a notification.
LEMMA NotificationTypes ==
  /\ \A row \in NotifRow, kind \in Kinds, changes \in SUBSET Watched,
        text \in Val \union {NoMessage} : Merge(row, kind, changes, text) \in NotifRow
  /\ \A e \in Event, kind \in Kinds, changes \in SUBSET Watched,
        text \in Val \union {NoMessage}, t \in Nat :
        NewNotification(e, kind, changes, text, t) \in NotifRow
  /\ \A row \in NotifRow : Withdrawn(row) \in NotifRow
<1>1. ASSUME NEW row \in NotifRow, NEW kind \in Kinds, NEW changes \in SUBSET Watched,
             NEW text \in Val \union {NoMessage}
      PROVE  Merge(row, kind, changes, text) \in NotifRow
  <2> DEFINE k == StrongerKind(row.kind, kind)
             c == row.changes \union changes
             m == IF text # NoMessage THEN text ELSE row.message
             v == row.version + 1
  <2>1. k \in Kinds
    BY DEF StrongerKind, NotifRow
  <2>2. c \in SUBSET Watched /\ m \in Val \union {NoMessage} /\ v \in Nat
    BY DEF NotifRow
  <2>3. Merge(row, kind, changes, text)
          = [row EXCEPT !.kind = k, !.changes = c, !.message = m, !.version = v]
    BY Zenon DEF Merge
  <2> HIDE DEF Kinds, k, c, m, v
  <2> QED BY <2>1, <2>2, <2>3 DEF NotifRow
<1>2. ASSUME NEW e \in Event, NEW kind \in Kinds, NEW changes \in SUBSET Watched,
             NEW text \in Val \union {NoMessage}, NEW t \in Nat
      PROVE  NewNotification(e, kind, changes, text, t) \in NotifRow
  <2>1. (IF kind = "manual" THEN t ELSE t + Window) \in Nat
    BY TimingAssumption
  <2> QED BY <1>2, <2>1 DEF NewNotification, NotifRow
<1>3. ASSUME NEW row \in NotifRow PROVE Withdrawn(row) \in NotifRow
  <2> DEFINE v == row.version + 1
  <2>1. v \in Nat
    BY DEF NotifRow
  <2>2. Withdrawn(row) = [row EXCEPT !.deleted = TRUE, !.version = v]
    BY Zenon DEF Withdrawn
  <2> HIDE DEF Kinds, v
  <2> QED BY <2>1, <2>2 DEF NotifRow
<1> QED BY <1>1, <1>2, <1>3

LEMMA NewsTypes ==
  ASSUME NEW o, OpOK(o), o.kind \in {"create", "update", "notify"}, NEW mem
  PROVE  /\ NewsKind(o) \in Kinds
         /\ NewsChanges(o, mem) \in SUBSET Watched
         /\ NewsText(o) \in Val \union {NoMessage}
<1>1. o.text \in Val \union {NoMessage}
  BY DEF OpOK, OpRecord
<1> QED BY <1>1, NewsType DEF NewsKind, NewsChanges, NewsText, Kinds

LEMMA PutTyped ==
  ASSUME Typed, NEW s \in Session, tx[s].pc = "announce", NEW n \in NotifId,
         NEW row \in NotifRow, Put(s, n, row), UNCHANGED <<tables, now, requests>>
  PROVE  Typed'
<1> DEFINE o == tx[s].op
           entry == NotifEntry(nextSeq, n, "upsert", row, o)
           pc == AfterOp(o)
           res == IF o.kind = "notify" THEN Answer("applied", row.version, 0) ELSE tx[s].res
           t == [tx[s] EXCEPT !.pc = pc, !.res = res, !.locks = @ \union {o.event},
                              !.notifs[n] = row, !.log = @ \union {entry}]
<1>1. /\ tx[s] \in Transaction /\ StepOK(tx[s])
      /\ nextSeq \in Nat \ {0} /\ now \in Nat /\ requests \in Nat
  BY DEF Typed, TypeOK
<1>2. OpOK(o) /\ o.event \in Event /\ o.kind \in {"create", "update", "notify"}
  BY <1>1 DEF StepOK, OpOK, OpRecord
<1>3. tx' = [tx EXCEPT ![s] = t] /\ nextSeq' = nextSeq + 1
  <2>1. /\ nextSeq' = nextSeq + 1
        /\ tx' = [tx EXCEPT ![s].pc = pc, ![s].res = res, ![s].locks = @ \union {o.event},
                            ![s].notifs[n] = row, ![s].log = @ \union {entry}]
    BY DEF Put
  <2>2. tx \in [Session -> Transaction]
    BY DEF Typed, TypeOK
  <2> HIDE DEF pc, res, entry, o
  <2>3. nextSeq' = nextSeq + 1 /\ s \in DOMAIN tx
    BY <2>1, <2>2
  <2>4. [tx EXCEPT ![s].pc = pc, ![s].res = res, ![s].locks = @ \union {o.event},
                   ![s].notifs[n] = row, ![s].log = @ \union {entry}] = [tx EXCEPT ![s] = t]
    <3> DEFINE u == [tx[s] EXCEPT !.pc = pc, !.res = res]
               T == [tx EXCEPT ![s].pc = pc, ![s].res = res]
    <3>1. T = [tx EXCEPT ![s] = u]
      BY <2>3
    <3>2. /\ u.locks = tx[s].locks /\ u.log = tx[s].log /\ u.notifs = tx[s].notifs
          /\ DOMAIN u = DOMAIN tx[s]
      OBVIOUS
    <3>3. t = [u EXCEPT !.locks = @ \union {o.event}, !.notifs[n] = row,
                        !.log = @ \union {entry}]
      BY <3>2
    <3>4. T[s] = u /\ s \in DOMAIN T
      BY <2>3, <3>1
    <3> HIDE DEF u
    <3>5. [tx EXCEPT ![s].pc = pc, ![s].res = res, ![s].locks = @ \union {o.event},
                   ![s].notifs[n] = row, ![s].log = @ \union {entry}]
            = [T EXCEPT ![s].locks = @ \union {o.event}, ![s].notifs[n] = row,
                        ![s].log = @ \union {entry}]
      <4>1. T[s].locks = tx[s].locks /\ T[s].log = tx[s].log
        BY <3>2, <3>4
      <4> QED BY <4>1
    <3>6. [T EXCEPT ![s].locks = @ \union {o.event}, ![s].notifs[n] = row,
                    ![s].log = @ \union {entry}]
            = [T EXCEPT ![s] = [u EXCEPT !.locks = @ \union {o.event}, !.notifs[n] = row,
                                         !.log = @ \union {entry}]]
      <4> HIDE DEF T
      <4> QED BY <3>4
    <3>7. [T EXCEPT ![s] = t] = [tx EXCEPT ![s] = t]
      <4> HIDE DEF t, T
      <4> QED BY <2>3, <3>1
    <3> HIDE DEF t, T
    <3> QED BY <3>3, <3>5, <3>6, <3>7
  <2> QED BY <2>1, <2>3, <2>4
<1>4. entry \in Entry
  BY <1>1, <1>2, EntryType
<1>5. pc \in {"record", "next"} /\ (pc = "record" => o.via = "sync")
  BY DEF AfterOp
<1>6. res \in Result \union {NoRow}
  BY <1>1, AnswerType DEF NotifRow, Transaction
<1>7. pc = "record" => res \in Result
  BY <1>1, <1>2, <1>6, AnswerType DEF NotifRow, StepOK, AfterOp
<1> HIDE DEF entry, pc, res
<1>8. t \in Transaction
  <2>1. [tx[s].notifs EXCEPT ![n] = row] \in [NotifId -> NotifRow \union {NoRow}]
    BY <1>1 DEF Transaction
  <2> QED BY <1>1, <1>2, <1>4, <1>5, <1>6, <2>1 DEF Transaction, Steps
<1>9. t.op = o /\ t.pc = pc /\ t.res = res
  BY <1>1 DEF Transaction
<1>10. StepOK(t)
  BY <1>2, <1>5, <1>7, <1>9 DEF StepOK
<1>11. nextSeq' \in Nat \ {0}
  BY <1>1, <1>3
<1> HIDE DEF t
<1> QED BY <1>1, <1>3, <1>8, <1>10, <1>11, SetTx

LEMMA AnnounceTyped ==
  ASSUME Typed, NEW s \in Session, Announce(s) PROVE Typed'
<1> DEFINE o == tx[s].op
           mem == tx[s].mem
           rows == VisibleNotifs(s)
           kind == NewsKind(o)
           changes == NewsChanges(o, mem)
           text == NewsText(o)
<1>1. /\ tx[s] \in Transaction /\ StepOK(tx[s]) /\ tx[s].pc = "announce"
      /\ UNCHANGED <<tables, now, requests>> /\ now \in Nat
  BY DEF Announce, Typed, TypeOK
<1>2. OpOK(o) /\ o.event \in Event /\ o.kind \in {"create", "update", "notify"}
  BY <1>1 DEF StepOK, OpOK, OpRecord
<1>3. kind \in Kinds /\ changes \in SUBSET Watched /\ text \in Val \union {NoMessage}
  BY <1>2, NewsTypes
<1>4. rows \in [NotifId -> NotifRow \union {NoRow}]
  BY VisibleTypes
<1>5. CASE VisibleEvent(s, o.event).deleted
  <2>1. nextSeq' = nextSeq
    BY <1>5 DEF Announce
  <2>2. CASE o.kind = "notify"
    BY <1>1, <1>5, <2>1, <2>2, RefuseTyped, AnswerType DEF Announce
  <2>3. CASE o.kind # "notify"
    BY <1>1, <1>5, <2>1, <2>3, RollbackTyped DEF Announce
  <2> QED BY <2>2, <2>3
<1>6. CASE ~VisibleEvent(s, o.event).deleted
  <2>1. \/ \E n \in NotifId : rows[n] # NoRow /\ Put(s, n, Merge(rows[n], kind, changes, text))
        \/ \E n \in NotifId : Put(s, n, NewNotification(o.event, kind, changes, text, now))
    BY <1>6 DEF Announce
  <2> HIDE DEF kind, changes, text, rows
  <2>2. ASSUME NEW n \in NotifId, rows[n] # NoRow,
               Put(s, n, Merge(rows[n], kind, changes, text))
        PROVE  Typed'
    BY <1>1, <1>3, <1>4, <2>2, NotificationTypes, PutTyped
  <2>3. ASSUME NEW n \in NotifId, Put(s, n, NewNotification(o.event, kind, changes, text, now))
        PROVE  Typed'
    BY <1>1, <1>2, <1>3, <2>3, NotificationTypes, PutTyped
  <2> QED BY <2>1, <2>2, <2>3
<1> QED BY <1>5, <1>6

LEMMA WithdrawTyped ==
  ASSUME Typed, NEW s \in Session, Withdraw(s) PROVE Typed'
<1> DEFINE o == tx[s].op
           rows == VisibleNotifs(s)
           due == {n \in NotifId : rows[n] # NoRow /\ Withdrawable(rows[n], o.event, now)}
<1>1. /\ tx[s] \in Transaction /\ StepOK(tx[s]) /\ tx[s].pc = "withdraw"
      /\ UNCHANGED <<tables, now, requests>>
      /\ nextSeq \in Nat \ {0} /\ now \in Nat /\ requests \in Nat
  BY DEF Withdraw, Typed, TypeOK
<1>2. OpOK(o)
  BY <1>1 DEF StepOK
<1>3. rows \in [NotifId -> NotifRow \union {NoRow}]
  BY VisibleTypes
<1>4. Cardinality(due) \in Nat
  BY StoreAssumption, FS_Subset, FS_CardinalityType
<1>5. PICK seqOf \in Bijection(due, nextSeq .. nextSeq + Cardinality(due) - 1) :
        tx' = [tx EXCEPT
                 ![s].pc     = AfterOp(o),
                 ![s].notifs = [n \in NotifId |-> IF n \in due THEN Withdrawn(rows[n]) ELSE @[n]],
                 ![s].log    = @ \union {NotifEntry(seqOf[n], n, "delete", Withdrawn(rows[n]), o)
                                          : n \in due}]
  BY DEF Withdraw
<1>6. nextSeq' = nextSeq + Cardinality(due)
  BY DEF Withdraw
<1> DEFINE pc == AfterOp(o)
           kept == [n \in NotifId |-> IF n \in due THEN Withdrawn(rows[n]) ELSE tx[s].notifs[n]]
           new == {NotifEntry(seqOf[n], n, "delete", Withdrawn(rows[n]), o) : n \in due}
           t == [tx[s] EXCEPT !.pc = pc, !.notifs = kept, !.log = @ \union new]
<1>7. \A n \in due : Withdrawn(rows[n]) \in NotifRow
  BY <1>3, NotificationTypes
<1>8. \A n \in due : seqOf[n] \in Nat
  <2>1. seqOf \in [due -> nextSeq .. nextSeq + Cardinality(due) - 1]
    BY <1>5 DEF Bijection, Injection, Surjection
  <2> HIDE DEF due
  <2> QED BY <1>1, <1>4, <2>1
<1>9. kept \in [NotifId -> NotifRow \union {NoRow}]
  <2> HIDE DEF due, rows
  <2> QED BY <1>1, <1>7 DEF Transaction
<1>10. new \subseteq Entry
  <2>1. \A n \in due : n \in NotifId
    OBVIOUS
  <2> HIDE DEF due, rows
  <2> QED BY <1>2, <1>7, <1>8, <2>1, EntryType
<1>11. pc \in {"record", "next"} /\ (pc = "record" => o.via = "sync")
  BY DEF AfterOp
<1>12. tx' = [tx EXCEPT ![s] = t]
  <2>1. tx' = [tx EXCEPT ![s].pc = pc, ![s].notifs = kept, ![s].log = @ \union new]
    BY <1>5
  <2>2. tx \in [Session -> Transaction]
    BY DEF Typed, TypeOK
  <2> HIDE DEF pc, kept, new
  <2> QED BY <2>1, <2>2 DEF Transaction
<1>13. nextSeq' \in Nat \ {0}
  <2> HIDE DEF due
  <2> QED BY <1>1, <1>4, <1>6
<1> HIDE DEF pc, kept, new
<1>14. t \in Transaction
  BY <1>1, <1>9, <1>10, <1>11 DEF Transaction, Steps
<1>15. StepOK(t)
  <2>1. t.op = o /\ t.pc = pc /\ t.res = tx[s].res
    BY <1>1 DEF Transaction
  <2> QED BY <1>1, <1>2, <1>11, <2>1 DEF StepOK
<1> HIDE DEF t
<1> QED BY <1>1, <1>12, <1>13, <1>14, <1>15, SetTx

LEMMA RecordTyped ==
  ASSUME Typed, NEW s \in Session, Record(s) PROVE Typed'
<1> DEFINE o == tx[s].op
           t == [tx[s] EXCEPT !.pc = "next", !.done = @ + 1, !.applied[o] = tx[s].res]
<1>1. /\ tx[s] \in Transaction /\ StepOK(tx[s]) /\ tx[s].pc = "record"
      /\ UNCHANGED <<tables, nextSeq, now, requests>>
  BY DEF Record, Typed, TypeOK
<1>2. OpOK(o) /\ o \in Op /\ tx[s].res \in Result
  BY <1>1 DEF StepOK, OpOK
<1>3. CASE applied[o] # NoRow
  BY <1>1, <1>3, RollbackTyped DEF Record
<1>4. CASE applied[o] = NoRow
  <2>1. tx' = [tx EXCEPT ![s] = t]
    <3>1. tx \in [Session -> Transaction]
      BY DEF Typed, TypeOK
    <3> QED BY <1>4, <3>1 DEF Record, Transaction
  <2>2. t \in Transaction
    <3>1. [tx[s].applied EXCEPT ![o] = tx[s].res] \in [Op -> Result \union {NoRow}]
      BY <1>1, <1>2 DEF Transaction
    <3>2. tx[s].done + 1 \in Nat
      BY <1>1 DEF Transaction
    <3> QED BY <1>1, <3>1, <3>2 DEF Transaction, Steps
  <2>3. StepOK(t)
    BY <1>1, <1>2 DEF StepOK, Transaction
  <2> HIDE DEF t
  <2> QED BY <1>1, <2>1, <2>2, <2>3, SetTx DEF Typed, TypeOK
<1> QED BY <1>3, <1>4

LEMMA CommitTyped ==
  ASSUME Typed, NEW s \in Session, Commit(s) PROVE Typed'
<1>1. tx[s] \in Transaction /\ tx' = [tx EXCEPT ![s] = NoTx]
  BY DEF Commit, Typed, TypeOK
<1>2. /\ events' \in [Event -> Row \union {NoRow}]
      /\ notifs' \in [NotifId -> NotifRow \union {NoRow}]
      /\ applied' \in [Op -> Result \union {NoRow}]
  BY <1>1, OverType DEF Commit, Typed, TypeOK, Transaction
<1>3. log' \subseteq Entry
  BY <1>1 DEF Commit, Typed, TypeOK, Transaction
<1>4. TypeOK'
  BY <1>1, <1>2, <1>3, NoTxTyped DEF Commit, Typed, TypeOK
<1>5. \A e \in Event : events[e] # NoRow => events'[e] # NoRow
  BY DEF Commit, Over, Typed, TypeOK
<1>6. ASSUME NEW r \in Session PROVE StepOK(tx[r])'
  <2>1. CASE r = s
    <3>1. tx'[r].pc = "idle"
      BY <1>1, <2>1 DEF Typed, TypeOK
    <3> QED BY <3>1 DEF StepOK
  <2>2. CASE r # s
    <3>1. tx'[r] = tx[r] /\ tx[r] \in Transaction /\ StepOK(tx[r])
      BY <1>1, <2>2 DEF Typed, TypeOK
    <3>2. tx[r].pc = "write" => tx[r].op.event \in Event
      BY <3>1 DEF StepOK, OpOK, OpRecord
    <3>3. ASSUME NEW e \in Event, Over(tx[r].events, events)[e] # NoRow
          PROVE  Over(tx[r].events, events')[e] # NoRow
      BY <1>2, <1>5, <3>3 DEF Over, Typed, TypeOK
    <3> QED BY <3>1, <3>2, <3>3 DEF StepOK, OpOK
  <2> QED BY <2>1, <2>2
<1> QED BY <1>4, <1>6 DEF Typed

LEMMA NextTyped == Typed /\ [Next]_vars => Typed'
<1> SUFFICES ASSUME Typed, [Next]_vars PROVE Typed'
  OBVIOUS
<1>1. ASSUME NEW s \in Session, NEW o \in Op, Begin(s, o) \/ TakeOp(s, o) PROVE Typed'
  BY <1>1, BeginTyped, TakeOpTyped
<1>2. ASSUME NEW s \in Session,
             Lookup(s) \/ Read(s) \/ Write(s) \/ Announce(s) \/ Withdraw(s) \/ Record(s)
      PROVE  Typed'
  BY <1>2, LookupTyped, ReadTyped, WriteTyped, AnnounceTyped, WithdrawTyped, RecordTyped
<1>3. ASSUME NEW s \in Session, Commit(s) PROVE Typed'
  BY <1>3, CommitTyped
<1>4. ASSUME NEW s \in Session, Abort(s) PROVE Typed'
  BY <1>4, RollbackTyped DEF Abort
<1>5. CASE Tick
  BY <1>5 DEF Tick, Typed, TypeOK, StepOK, OpOK, tables
<1>6. CASE UNCHANGED vars
  BY <1>6 DEF vars, Typed, TypeOK, StepOK, OpOK
<1> QED BY <1>1, <1>2, <1>3, <1>4, <1>5, <1>6 DEF Next

\* Every reachable state of the tables and of every request has its type,
\* whatever the requests, their operations and their interleaving: in
\* particular no handler writes over a row that is not there.
THEOREM TypeCorrect == Spec => []TypeOK
<1>1. Init => Typed
  BY InitTyped
<1>2. Typed /\ [Next]_vars => Typed'
  BY NextTyped
<1>3. Typed => TypeOK
  BY DEF Typed
<1> QED BY <1>1, <1>2, <1>3, PTL DEF Spec

-----------------------------------------------------------------------------
(***************************************************************************)
(* 2. The feed                                                             *)
(*                                                                         *)
(* The change_log implements ChangeFeed for every number of requests in    *)
(* progress, because a request logs changes only of rows it has locked.    *)
(***************************************************************************)

LEMMA NoTxIsEmpty ==
  /\ NoTx.pc = "idle" /\ NoTx.log = {} /\ NoTx.locks = {}
  /\ \A n \in NotifId : NoTx.notifs[n] = NoRow
  /\ \A e \in Event : NoTx.events[e] = NoRow
  BY DEF NoTx

\* A step that writes nothing: request s keeps what it has written and locked,
\* or loses it.
Quiet(s) ==
  /\ \A r \in Session \ {s} : tx'[r] = tx[r]
  /\ UNCHANGED <<tables, nextSeq>>
  /\ tx'[s].pc # "withdraw"
  /\ \/ /\ tx'[s].log = tx[s].log /\ tx'[s].locks = tx[s].locks
        /\ tx'[s].events = tx[s].events /\ tx'[s].notifs = tx[s].notifs
     \/ /\ tx'[s].log = {} /\ tx'[s].locks = {}
        /\ \A e \in Event : tx'[s].events[e] = NoRow
        /\ \A n \in NotifId : tx'[s].notifs[n] = NoRow

LEMMA QuietKeepsFeed ==
  ASSUME Typed, FeedInv, NEW s \in Session, Quiet(s)
  PROVE  FeedInv'
<1>0. /\ \A r \in Session : r # s => tx'[r] = tx[r]
      /\ log' = log /\ notifs' = notifs /\ nextSeq' = nextSeq
  BY DEF Quiet, tables, Typed, TypeOK
<1>1. tx'[s].pc # "withdraw"
  BY DEF Quiet
<1>2. \/ tx'[s].log = tx[s].log /\ tx'[s].locks = tx[s].locks /\ tx'[s].notifs = tx[s].notifs
      \/ tx'[s].log = {} /\ tx'[s].locks = {} /\ \A n \in NotifId : tx'[s].notifs[n] = NoRow
  BY DEF Quiet
<1>3. NumbersAreDistinct'
  BY <1>0, <1>2 DEF FeedInv, NumbersAreDistinct
<1>4. WritesUnderLock'
  BY <1>0, <1>1, <1>2 DEF FeedInv, WritesUnderLock
<1>5. PendingIsNewest'
  BY <1>0, <1>2 DEF FeedInv, PendingIsNewest
<1> QED BY <1>3, <1>4, <1>5 DEF FeedInv

\* A step that writes: request s locks event e and logs the changes new, with
\* the next numbers.
Logs(s, e, new) ==
  /\ \A r \in Session \ {s} : tx'[r] = tx[r]
  /\ UNCHANGED tables
  /\ nextSeq' \in Nat /\ nextSeq' >= nextSeq
  /\ tx'[s].log = tx[s].log \union new
  /\ tx'[s].locks = tx[s].locks \union {e}
  /\ tx'[s].pc = "withdraw" => tx'[s].op.event = e
  /\ \A l \in new : l.seq \in nextSeq .. nextSeq' - 1
  /\ \A l, m \in new : l.seq = m.seq => l = m
  /\ \A l \in new : IF l.type = "event" THEN l.id = e ELSE l.id \in NotifId
  /\ \A n \in NotifId : tx'[s].notifs[n] = tx[s].notifs[n]
                        \/ /\ tx'[s].notifs[n] # NoRow /\ tx'[s].notifs[n].event = e
                           /\ notifs[n] # NoRow => notifs[n].event = e
                           /\ \A r \in Session \ {s} : tx[r].notifs[n] = NoRow
  /\ \A l \in new : l.type # "event" => tx'[s].notifs[l.id] # NoRow

LEMMA LogsKeepsFeed ==
  ASSUME Typed, FeedInv, NEW s \in Session, NEW e \in Event, NEW new,
         ~LockedByOther(s, e), Logs(s, e, new)
  PROVE  FeedInv'
<1>0. /\ \A r \in Session : r # s => tx'[r] = tx[r]
      /\ log' = log /\ notifs' = notifs
      /\ nextSeq \in Nat \ {0} /\ nextSeq' \in Nat /\ nextSeq' >= nextSeq
      /\ tx'[s].log = tx[s].log \union new
      /\ tx'[s].locks = tx[s].locks \union {e}
  BY DEF Logs, tables, Typed, TypeOK
<1>1. \A l \in new : l.seq \in nextSeq .. nextSeq' - 1
  BY DEF Logs
<1>2. \A r \in Session \ {s} : e \notin tx[r].locks
  BY DEF LockedByOther
<1>3. \A r \in Session : /\ \A l \in tx[r].log : l.seq \in 1 .. nextSeq - 1
                         /\ tx[r].log \subseteq Entry
  BY DEF FeedInv, NumbersAreDistinct, Typed, TypeOK, Transaction
<1>4. \A l \in log : l.seq \in 1 .. nextSeq - 1
  BY DEF FeedInv, NumbersAreDistinct
<1>5. \A l \in new : /\ l.seq \in 1 .. nextSeq' - 1
                     /\ \A m \in log : l.seq > m.seq
                     /\ \A r \in Session : \A m \in tx[r].log : l.seq > m.seq
  BY <1>0, <1>1, <1>3, <1>4
<1>6. NumbersAreDistinct'
  <2>1. \A l \in log : l.seq \in 1 .. nextSeq' - 1
    BY <1>0, <1>4
  <2>2. \A r \in Session : \A l \in tx[r].log : l.seq \in 1 .. nextSeq' - 1
    BY <1>0, <1>3
  <2>3. \A l, m \in new : l.seq = m.seq => l = m
    BY DEF Logs
  <2>4. \A l \in new : /\ \A m \in log : l.seq # m.seq
                       /\ \A r \in Session : \A m \in tx[r].log : l.seq # m.seq
    BY <1>0, <1>1, <1>3, <1>4
  <2>5. ASSUME NEW r \in Session, NEW l \in tx'[r].log
        PROVE  /\ l.seq \in 1 .. nextSeq' - 1
               /\ \A m \in log : l.seq # m.seq
               /\ \A m \in tx'[r].log : l.seq = m.seq => l = m
               /\ \A q \in Session \ {r} : \A m \in tx'[q].log : l.seq # m.seq
    BY <1>0, <1>5, <2>2, <2>3, <2>4, <2>5 DEF FeedInv, NumbersAreDistinct
  <2> QED BY <1>0, <2>1, <2>5 DEF FeedInv, NumbersAreDistinct
<1>7. WritesUnderLock'
  <2>1. ASSUME NEW n \in NotifId, tx'[s].notifs[n] # NoRow
        PROVE  /\ tx'[s].notifs[n].event \in tx'[s].locks
               /\ notifs[n] # NoRow => notifs[n].event = tx'[s].notifs[n].event
               /\ \A r \in Session \ {s} : tx[r].notifs[n] = NoRow
    BY <1>0, <2>1 DEF Logs, FeedInv, WritesUnderLock
  <2>2. ASSUME NEW l \in tx'[s].log
        PROVE  IF l.type = "event" THEN l.id \in tx'[s].locks ELSE tx'[s].notifs[l.id] # NoRow
    <3>1. CASE l \in new
      BY <1>0, <3>1 DEF Logs
    <3>2. CASE l \in tx[s].log
      <4>1. l.type # "event" => l.id \in NotifId
        BY <1>3, <3>2 DEF Entry
      <4> QED BY <1>0, <3>2, <4>1 DEF Logs, FeedInv, WritesUnderLock
    <3> QED BY <1>0, <2>2, <3>1, <3>2
  <2>3. \A r \in Session \ {s} : tx'[s].locks \intersect tx[r].locks = {}
    BY <1>0, <1>2 DEF FeedInv, WritesUnderLock
  <2>4. tx'[s].pc = "withdraw" => tx'[s].op.event \in tx'[s].locks
    BY <1>0 DEF Logs
  <2>5. ASSUME NEW r \in Session, r # s, NEW n \in NotifId, tx[r].notifs[n] # NoRow
        PROVE  tx'[s].notifs[n] = NoRow
    BY <2>1, <2>5
  <2> QED BY <1>0, <2>1, <2>2, <2>3, <2>4, <2>5 DEF FeedInv, WritesUnderLock
<1>8. PendingIsNewest'
  BY <1>0, <1>5 DEF FeedInv, PendingIsNewest
<1> QED BY <1>6, <1>7, <1>8 DEF FeedInv

LEMMA RollbackIsQuiet ==
  ASSUME Typed, NEW s \in Session, Rollback(s), UNCHANGED <<tables, nextSeq>>
  PROVE  Quiet(s)
<1>1. tx' = [tx EXCEPT ![s] = NoTx] /\ tx \in [Session -> Transaction]
  BY DEF Rollback, Typed, TypeOK
<1> QED BY <1>1, NoTxIsEmpty DEF Quiet

LEMMA RefuseIsQuiet ==
  ASSUME Typed, NEW s \in Session, NEW a, Refuse(s, a), UNCHANGED <<tables, nextSeq>>
  PROVE  Quiet(s)
<1>1. tx \in [Session -> Transaction]
  BY DEF Typed, TypeOK
<1>2. CASE tx[s].op.via = "rest"
  <2>1. tx' = [tx EXCEPT ![s] = NoTx]
    BY <1>1, <1>2 DEF Refuse
  <2> QED BY <1>1, <2>1, NoTxIsEmpty DEF Quiet
<1>3. CASE tx[s].op.via # "rest"
  <2>1. tx' = [tx EXCEPT ![s] = [tx[s] EXCEPT !.pc = "record", !.res = a]]
    BY <1>1, <1>3 DEF Refuse
  <2> QED BY <1>1, <2>1 DEF Quiet, Transaction
<1> QED BY <1>2, <1>3

LEMMA QuietSteps ==
  ASSUME Typed, NEW s \in Session,
         \/ \E o \in Op : Begin(s, o) \/ TakeOp(s, o)
         \/ Lookup(s) \/ Read(s) \/ Record(s) \/ Abort(s)
  PROVE  Quiet(s)
<1>1. tx \in [Session -> Transaction]
  BY DEF Typed, TypeOK
<1>2. ASSUME NEW o \in Op, Begin(s, o) PROVE Quiet(s)
  <2> DEFINE pc == IF o.via = "sync" THEN "lookup" ELSE "read"
  <2>1. PICK e \in Event :
          tx' = [tx EXCEPT ![s] = [NoTx EXCEPT !.pc = pc, !.op = [o EXCEPT !.event = e]]]
    BY <1>2 DEF Begin
  <2>2. UNCHANGED <<tables, nextSeq>>
    BY <1>2 DEF Begin
  <2>3. pc # "withdraw"
    OBVIOUS
  <2> DEFINE p == [o EXCEPT !.event = e]
  <2>4. tx'[s] = [NoTx EXCEPT !.pc = pc, !.op = p] /\ \A r \in Session \ {s} : tx'[r] = tx[r]
    BY <1>1, <2>1
  <2> HIDE DEF pc, p
  <2>5. /\ tx'[s].pc = pc /\ tx'[s].log = NoTx.log
        /\ tx'[s].locks = NoTx.locks /\ tx'[s].notifs = NoTx.notifs
        /\ tx'[s].events = NoTx.events
    BY <2>4, NoTxTyped DEF Transaction
  <2> QED BY <2>2, <2>3, <2>4, <2>5, NoTxIsEmpty DEF Quiet
<1>3. ASSUME NEW o \in Op, TakeOp(s, o) PROVE Quiet(s)
  <2>1. tx' = [tx EXCEPT ![s] = [tx[s] EXCEPT !.pc = "lookup", !.op = o,
                                              !.mem = NoRow, !.res = NoRow]]
    BY <1>1, <1>3 DEF TakeOp
  <2>2. UNCHANGED <<tables, nextSeq>>
    BY <1>3 DEF TakeOp
  <2> QED BY <1>1, <2>1, <2>2 DEF Quiet, Transaction
<1>4. CASE Lookup(s)
  BY <1>1, <1>4 DEF Lookup, Quiet, Transaction
<1>5. CASE Record(s)
  <2>1. CASE applied[tx[s].op] # NoRow
    BY <1>5, <2>1, RollbackIsQuiet DEF Record
  <2>2. CASE applied[tx[s].op] = NoRow
    BY <1>1, <1>5, <2>2 DEF Record, Quiet, Transaction
  <2> QED BY <2>1, <2>2
<1>6. CASE Abort(s)
  BY <1>6, RollbackIsQuiet DEF Abort
<1>7. CASE Read(s)
  <2>1. UNCHANGED <<tables, nextSeq>>
    BY <1>7 DEF Read
  <2>2. \/ \E a : Refuse(s, a)
        \/ \E pc \in {"write", "announce"} : \E mem :
             tx' = [tx EXCEPT ![s].pc = pc, ![s].mem = mem]
        \/ \E res : tx' = [tx EXCEPT ![s].pc = "record", ![s].res = res]
    BY <1>7, Zenon DEF Read
  <2>3. ASSUME NEW pc \in {"write", "announce"}, NEW mem,
               tx' = [tx EXCEPT ![s].pc = pc, ![s].mem = mem]
        PROVE  Quiet(s)
    BY <1>1, <2>1, <2>3 DEF Quiet, Transaction
  <2>4. ASSUME NEW res, tx' = [tx EXCEPT ![s].pc = "record", ![s].res = res]
        PROVE  Quiet(s)
    BY <1>1, <2>1, <2>4 DEF Quiet, Transaction
  <2> QED BY <2>1, <2>2, <2>3, <2>4, RefuseIsQuiet
<1> QED BY <1>2, <1>3, <1>4, <1>5, <1>6, <1>7

\* Write locks the row of its event and logs one change of it.
LEMMA WriteKeepsFeed ==
  ASSUME Typed, FeedInv, NEW s \in Session, Write(s)
  PROVE  FeedInv'
<1> DEFINE o == tx[s].op
           e == o.event
           new == Edited(o, tx[s].mem)
           entry == EventEntry(nextSeq, e, IF o.kind = "delete" THEN "delete" ELSE "upsert",
                               Snapshot(o, tx[s].mem), o)
           pc == CASE o.kind = "create" -> "announce"
                   [] o.kind = "update" -> IF News(tx[s].mem, new) # {} THEN "announce" ELSE AfterOp(o)
                   [] o.kind = "delete" -> "withdraw"
           res == Answer("applied", new.version, nextSeq)
           row == IF o.kind = "create" THEN new
                  ELSE Stored(VisibleEvent(s, e), tx[s].mem, new)
<1>1. /\ tx \in [Session -> Transaction] /\ StepOK(tx[s]) /\ nextSeq \in Nat \ {0}
      /\ tx[s].pc = "write" /\ UNCHANGED tables /\ ~LockedByOther(s, e)
  BY DEF Write, Typed, TypeOK
<1>2. e \in Event
  BY <1>1 DEF StepOK, OpOK, OpRecord
<1>3. CASE o.kind = "create" /\ events[e] # NoRow
  <2>1. Rollback(s) /\ nextSeq' = nextSeq
    BY <1>3 DEF Write
  <2> QED BY <1>1, <2>1, RollbackIsQuiet, QuietKeepsFeed
<1>4. CASE ~(o.kind = "create" /\ events[e] # NoRow)
  <2>1. /\ nextSeq' = nextSeq + 1
        /\ tx' = [tx EXCEPT ![s].pc = pc, ![s].res = res, ![s].locks = @ \union {e},
                            ![s].events[e] = row, ![s].log = @ \union {entry}]
    BY <1>4 DEF Write
  <2>2. entry.seq = nextSeq /\ entry.type = "event" /\ entry.id = e
    BY DEF EventEntry
  <2> HIDE DEF pc, res, row, entry
  <2>3. /\ \A r \in Session \ {s} : tx'[r] = tx[r]
        /\ tx'[s].log = tx[s].log \union {entry}
        /\ tx'[s].locks = tx[s].locks \union {e}
        /\ tx'[s].op = o
        /\ tx'[s].notifs = tx[s].notifs
    BY <1>1, <2>1 DEF Transaction
  <2>4. nextSeq' \in Nat /\ nextSeq' >= nextSeq /\ nextSeq \in nextSeq .. nextSeq' - 1
    BY <1>1, <2>1
  <2>5. Logs(s, e, {entry})
    BY <1>1, <2>2, <2>3, <2>4 DEF Logs
  <2> QED BY <1>1, <1>2, <2>5, LogsKeepsFeed
<1> QED BY <1>3, <1>4

\* Put locks the row of the event and logs one change of a notification of it:
\* a new one, or one that no other request can be writing.
LEMMA PutKeepsFeed ==
  ASSUME Typed, FeedInv, NEW s \in Session, tx[s].pc = "announce",
         ~LockedByOther(s, tx[s].op.event), NEW n \in NotifId, NEW row \in NotifRow,
         row.event = tx[s].op.event,
         \/ FreshNotif(n)
         \/ VisibleNotifs(s)[n] # NoRow /\ VisibleNotifs(s)[n].event = tx[s].op.event,
         Put(s, n, row), UNCHANGED tables
  PROVE  FeedInv'
<1> DEFINE o == tx[s].op
           e == o.event
           entry == NotifEntry(nextSeq, n, "upsert", row, o)
           pc == AfterOp(o)
           res == IF o.kind = "notify" THEN Answer("applied", row.version, 0) ELSE tx[s].res
<1>1. /\ tx \in [Session -> Transaction] /\ StepOK(tx[s]) /\ nextSeq \in Nat \ {0}
      /\ notifs \in [NotifId -> NotifRow \union {NoRow}]
  BY DEF Typed, TypeOK
<1>2. e \in Event
  BY <1>1 DEF StepOK, OpOK, OpRecord
<1>3. /\ nextSeq' = nextSeq + 1
      /\ tx' = [tx EXCEPT ![s].pc = pc, ![s].res = res, ![s].locks = @ \union {e},
                          ![s].notifs[n] = row, ![s].log = @ \union {entry}]
  BY DEF Put
<1>4. entry.seq = nextSeq /\ entry.type = "notification" /\ entry.id = n
  BY DEF NotifEntry
<1>5. pc # "withdraw"
  BY DEF AfterOp
<1>6. row # NoRow
  BY NoRowAssumption
<1>7. /\ notifs[n] # NoRow => notifs[n].event = e
      /\ \A r \in Session \ {s} : tx[r].notifs[n] = NoRow
  <2>1. CASE FreshNotif(n)
    BY <2>1 DEF FreshNotif
  <2>2. CASE VisibleNotifs(s)[n] # NoRow /\ VisibleNotifs(s)[n].event = e
    <3>1. VisibleNotifs(s)[n] = IF tx[s].notifs[n] # NoRow THEN tx[s].notifs[n] ELSE notifs[n]
      BY <1>1 DEF VisibleNotifs, Over
    <3>2. notifs[n] # NoRow => notifs[n].event = e
      BY <2>2, <3>1 DEF FeedInv, WritesUnderLock
    <3>3. ASSUME NEW r \in Session \ {s}, tx[r].notifs[n] # NoRow PROVE FALSE
      <4>1. tx[s].notifs[n] = NoRow
        BY <3>3 DEF FeedInv, WritesUnderLock
      <4>2. notifs[n] # NoRow /\ tx[r].notifs[n].event = e
        BY <2>2, <3>1, <3>2, <3>3, <4>1 DEF FeedInv, WritesUnderLock
      <4>3. e \in tx[r].locks
        BY <3>3, <4>2 DEF FeedInv, WritesUnderLock
      <4> QED BY <4>3 DEF LockedByOther
    <3> QED BY <3>2, <3>3
  <2> QED BY <2>1, <2>2
<1> HIDE DEF pc, res, entry
<1>8. /\ \A r \in Session \ {s} : tx'[r] = tx[r]
      /\ tx'[s].log = tx[s].log \union {entry}
      /\ tx'[s].locks = tx[s].locks \union {e}
      /\ tx'[s].pc = pc
      /\ \A m \in NotifId : tx'[s].notifs[m] = IF m = n THEN row ELSE tx[s].notifs[m]
  BY <1>1, <1>3 DEF Transaction
<1>9. nextSeq' \in Nat /\ nextSeq' >= nextSeq /\ nextSeq \in nextSeq .. nextSeq' - 1
  BY <1>1, <1>3
<1>10. Logs(s, e, {entry})
  BY <1>4, <1>5, <1>6, <1>7, <1>8, <1>9 DEF Logs
<1> QED BY <1>2, <1>10, LogsKeepsFeed

LEMMA EventOfNotification ==
  /\ \A row \in NotifRow, kind \in Kinds, changes \in SUBSET Watched,
        text \in Val \union {NoMessage} : Merge(row, kind, changes, text).event = row.event
  /\ \A e, kind, changes, text, t : NewNotification(e, kind, changes, text, t).event = e
  /\ \A row \in NotifRow : Withdrawn(row).event = row.event
  BY DEF Merge, NewNotification, Withdrawn, NotifRow

LEMMA AnnounceKeepsFeed ==
  ASSUME Typed, FeedInv, NEW s \in Session, Announce(s)
  PROVE  FeedInv'
<1> DEFINE o == tx[s].op
           rows == VisibleNotifs(s)
           kind == NewsKind(o)
           changes == NewsChanges(o, tx[s].mem)
           text == NewsText(o)
<1>1. /\ tx[s] \in Transaction /\ StepOK(tx[s]) /\ tx[s].pc = "announce" /\ now \in Nat
      /\ ~LockedByOther(s, o.event) /\ UNCHANGED tables
  BY DEF Announce, ForUpdate, Typed, TypeOK
<1>2. OpOK(o) /\ o.event \in Event /\ o.kind \in {"create", "update", "notify"}
  BY <1>1 DEF StepOK, OpOK, OpRecord
<1>3. kind \in Kinds /\ changes \in SUBSET Watched /\ text \in Val \union {NoMessage}
  BY <1>2, NewsTypes
<1>4. rows \in [NotifId -> NotifRow \union {NoRow}]
  BY VisibleTypes
<1>5. CASE VisibleEvent(s, o.event).deleted
  BY <1>1, <1>5, RefuseIsQuiet, RollbackIsQuiet, QuietKeepsFeed DEF Announce
<1>6. CASE ~VisibleEvent(s, o.event).deleted
  <2>1. \/ \E n \in NotifId : /\ rows[n] # NoRow /\ Mergeable(rows[n], o.event, now)
                              /\ Put(s, n, Merge(rows[n], kind, changes, text))
        \/ \E n \in NotifId : /\ FreshNotif(n)
                              /\ Put(s, n, NewNotification(o.event, kind, changes, text, now))
    BY <1>6 DEF Announce
  <2> HIDE DEF kind, changes, text
  <2>2. ASSUME NEW n \in NotifId, rows[n] # NoRow, Mergeable(rows[n], o.event, now),
               Put(s, n, Merge(rows[n], kind, changes, text))
        PROVE  FeedInv'
    <3>1. rows[n] \in NotifRow /\ rows[n].event = o.event
      BY <1>4, <2>2 DEF Mergeable
    <3> DEFINE row == Merge(rows[n], kind, changes, text)
    <3>2. row \in NotifRow /\ row.event = o.event
      BY <1>3, <3>1, NotificationTypes, EventOfNotification
    <3> HIDE DEF row
    <3>3. Put(s, n, row)
      BY <2>2 DEF row
    <3> QED BY <1>1, <2>2, <3>1, <3>2, <3>3, PutKeepsFeed
  <2>3. ASSUME NEW n \in NotifId, FreshNotif(n),
               Put(s, n, NewNotification(o.event, kind, changes, text, now))
        PROVE  FeedInv'
    <3> DEFINE row == NewNotification(o.event, kind, changes, text, now)
    <3>1. row \in NotifRow /\ row.event = o.event
      BY <1>1, <1>2, <1>3, NotificationTypes, EventOfNotification
    <3> HIDE DEF row
    <3>2. Put(s, n, row)
      BY <2>3 DEF row
    <3> QED BY <1>1, <2>3, <3>1, <3>2, PutKeepsFeed
  <2> QED BY <2>1, <2>2, <2>3
<1> QED BY <1>5, <1>6

\* A deletion holds the lock of its event when it withdraws the notifications.
LEMMA WithdrawKeepsFeed ==
  ASSUME Typed, FeedInv, NEW s \in Session, Withdraw(s)
  PROVE  FeedInv'
<1> DEFINE o == tx[s].op
           e == o.event
           rows == VisibleNotifs(s)
           due == {n \in NotifId : rows[n] # NoRow /\ Withdrawable(rows[n], e, now)}
           last == nextSeq + Cardinality(due) - 1
<1>1. /\ tx \in [Session -> Transaction] /\ StepOK(tx[s]) /\ tx[s].pc = "withdraw"
      /\ nextSeq \in Nat \ {0} /\ UNCHANGED tables
      /\ notifs \in [NotifId -> NotifRow \union {NoRow}]
  BY DEF Withdraw, Typed, TypeOK
<1>2. e \in Event /\ e \in tx[s].locks
  BY <1>1 DEF StepOK, OpOK, OpRecord, FeedInv, WritesUnderLock
<1>3. ~LockedByOther(s, e)
  BY <1>2 DEF LockedByOther, FeedInv, WritesUnderLock
<1>4. PICK seqOf \in Bijection(due, nextSeq .. last) :
        tx' = [tx EXCEPT
                 ![s].pc     = AfterOp(o),
                 ![s].notifs = [n \in NotifId |-> IF n \in due THEN Withdrawn(rows[n]) ELSE @[n]],
                 ![s].log    = @ \union {NotifEntry(seqOf[n], n, "delete", Withdrawn(rows[n]), o)
                                          : n \in due}]
  BY DEF Withdraw
<1> DEFINE pc == AfterOp(o)
           kept == [n \in NotifId |-> IF n \in due THEN Withdrawn(rows[n]) ELSE tx[s].notifs[n]]
           new == {NotifEntry(seqOf[n], n, "delete", Withdrawn(rows[n]), o) : n \in due}
<1>5. /\ \A r \in Session \ {s} : tx'[r] = tx[r]
      /\ tx'[s].log = tx[s].log \union new
      /\ tx'[s].locks = tx[s].locks
      /\ tx'[s].pc = pc
      /\ tx'[s].notifs = kept
  <2>1. tx' = [tx EXCEPT ![s].pc = pc, ![s].notifs = kept, ![s].log = @ \union new]
    BY <1>4
  <2> HIDE DEF pc, kept, new
  <2> QED BY <1>1, <2>1 DEF Transaction
<1>6. /\ last \in Int /\ nextSeq' = last + 1 /\ nextSeq' \in Nat /\ nextSeq' >= nextSeq
  <2>1. Cardinality(due) \in Nat
    BY StoreAssumption, FS_Subset, FS_CardinalityType
  <2>2. nextSeq' = nextSeq + Cardinality(due)
    BY DEF Withdraw
  <2> HIDE DEF due
  <2> QED BY <1>1, <2>1, <2>2
<1>7. /\ \A n \in due : seqOf[n] \in nextSeq .. last
      /\ \A m, n \in due : seqOf[m] = seqOf[n] => m = n
  BY <1>4, Zenon DEF Bijection, Injection, Surjection, IsInjective
<1>8. \A n \in due : /\ n \in NotifId /\ rows[n] # NoRow /\ rows[n] \in NotifRow
                     /\ rows[n].event = e
  BY VisibleTypes DEF Withdrawable
<1>9. \A n \in due : Withdrawn(rows[n]) # NoRow /\ Withdrawn(rows[n]).event = e
  <2> HIDE DEF due, rows
  <2> QED BY <1>8, NotificationTypes, EventOfNotification, NoRowAssumption
<1>10. ASSUME NEW n \in due
       PROVE  /\ notifs[n] # NoRow => notifs[n].event = e
              /\ \A r \in Session \ {s} : tx[r].notifs[n] = NoRow
  <2>1. rows[n] = IF tx[s].notifs[n] # NoRow THEN tx[s].notifs[n] ELSE notifs[n]
    BY <1>1, <1>8 DEF VisibleNotifs, Over
  <2> HIDE DEF due, rows
  <2>2. notifs[n] # NoRow => notifs[n].event = e
    BY <1>8, <2>1 DEF FeedInv, WritesUnderLock
  <2>3. ASSUME NEW r \in Session \ {s}, tx[r].notifs[n] # NoRow PROVE FALSE
    <3>1. tx[s].notifs[n] = NoRow
      BY <1>8, <2>3 DEF FeedInv, WritesUnderLock
    <3>2. notifs[n] # NoRow /\ tx[r].notifs[n].event = e
      BY <1>8, <2>1, <2>2, <2>3, <3>1 DEF FeedInv, WritesUnderLock
    <3>3. e \in tx[r].locks
      BY <1>8, <2>3, <3>2 DEF FeedInv, WritesUnderLock
    <3> QED BY <1>3, <3>3 DEF LockedByOther
  <2> QED BY <2>2, <2>3
<1>11. \A l \in new : \E n \in due : /\ l = NotifEntry(seqOf[n], n, "delete", Withdrawn(rows[n]), o)
                                     /\ l.seq = seqOf[n] /\ l.id = n /\ l.type = "notification"
  <2> HIDE DEF due, rows
  <2> QED BY DEF NotifEntry
<1>12. \A n \in NotifId : kept[n] = IF n \in due THEN Withdrawn(rows[n]) ELSE tx[s].notifs[n]
  OBVIOUS
<1>13. pc # "withdraw"
  BY DEF AfterOp
<1>14. Logs(s, e, new)
  <2> HIDE DEF due, rows, kept, new, pc, last
  <2>1. \A l \in new : l.seq \in nextSeq .. nextSeq' - 1
    <3>1. nextSeq' - 1 = last
      BY <1>6
    <3> QED BY <1>7, <1>11, <3>1
  <2>2. \A l, m \in new : l.seq = m.seq => l = m
    BY <1>7, <1>11
  <2>3. \A l \in new : l.type # "event" /\ l.id \in NotifId /\ kept[l.id] # NoRow
    BY <1>8, <1>9, <1>11, <1>12
  <2> QED BY <1>1, <1>2, <1>5, <1>6, <1>9, <1>10, <1>12, <1>13, <2>1, <2>2, <2>3 DEF Logs
<1> QED BY <1>2, <1>3, <1>14, LogsKeepsFeed

\* A commit publishes what the request logged; nobody else has written those
\* entities, so what the others have pending is still newer than the log.
LEMMA CommitKeepsFeed ==
  ASSUME Typed, FeedInv, NEW s \in Session, Commit(s)
  PROVE  FeedInv'
<1>1. /\ tx \in [Session -> Transaction] /\ tx' = [tx EXCEPT ![s] = NoTx]
      /\ log' = log \union tx[s].log /\ nextSeq' = nextSeq
      /\ notifs' = Over(tx[s].notifs, notifs) /\ notifs \in [NotifId -> NotifRow \union {NoRow}]
  BY DEF Commit, Typed, TypeOK
<1>2. /\ \A r \in Session \ {s} : tx'[r] = tx[r]
      /\ tx'[s] = NoTx
  BY <1>1
<1>3. NumbersAreDistinct'
  <2>1. \A l \in log' : l.seq \in 1 .. nextSeq - 1
    BY <1>1 DEF FeedInv, NumbersAreDistinct
  <2>2. \A l, m \in log' : l.seq = m.seq => l = m
    BY <1>1 DEF FeedInv, NumbersAreDistinct
  <2>3. ASSUME NEW r \in Session, NEW l \in tx'[r].log
        PROVE  /\ r # s /\ l \in tx[r].log
               /\ \A q \in Session \ {r} : \A m \in tx'[q].log : m \in tx[q].log
    BY <1>2, <2>3, NoTxIsEmpty
  <2>4. ASSUME NEW r \in Session, NEW l \in tx'[r].log
        PROVE  /\ l.seq \in 1 .. nextSeq - 1
               /\ \A m \in log' : l.seq # m.seq
               /\ \A m \in tx'[r].log : l.seq = m.seq => l = m
               /\ \A q \in Session \ {r} : \A m \in tx'[q].log : l.seq # m.seq
    BY <1>1, <1>2, <2>3, <2>4 DEF FeedInv, NumbersAreDistinct
  <2> QED BY <1>1, <2>1, <2>2, <2>4 DEF NumbersAreDistinct
<1>4. WritesUnderLock'
  <2>1. ASSUME NEW r \in Session, r # s, NEW n \in NotifId, tx[r].notifs[n] # NoRow
        PROVE  notifs'[n] = notifs[n]
    <3>1. tx[s].notifs[n] = NoRow
      BY <2>1 DEF FeedInv, WritesUnderLock
    <3> QED BY <1>1, <3>1 DEF Over
  <2> QED BY <1>2, <2>1, NoTxIsEmpty DEF FeedInv, WritesUnderLock
<1>5. PendingIsNewest'
  <2> SUFFICES ASSUME NEW r \in Session, NEW l \in tx'[r].log, NEW m \in log',
                      l.type = m.type, l.id = m.id
               PROVE  m.seq < l.seq
    BY DEF PendingIsNewest
  <2>1. r # s /\ l \in tx[r].log
    BY <1>2, NoTxIsEmpty
  <2>2. CASE m \in log
    BY <2>1, <2>2 DEF FeedInv, PendingIsNewest
  <2>3. CASE m \in tx[s].log
    <3>1. m.type # "event" => m.id \in NotifId
      BY <1>1, <2>3 DEF Transaction, Entry
    <3>2. CASE m.type = "event"
      BY <2>1, <2>3, <3>2 DEF FeedInv, WritesUnderLock
    <3>3. CASE m.type # "event"
      <4>1. tx[s].notifs[m.id] # NoRow /\ tx[r].notifs[m.id] # NoRow
        BY <2>1, <2>3, <3>3 DEF FeedInv, WritesUnderLock
      <4> QED BY <2>1, <3>1, <3>3, <4>1 DEF FeedInv, WritesUnderLock
    <3> QED BY <3>2, <3>3
  <2> QED BY <1>1, <2>2, <2>3
<1> QED BY <1>3, <1>4, <1>5 DEF FeedInv

LEMMA NextKeepsFeed == Typed /\ FeedInv /\ [Next]_vars => FeedInv'
<1> SUFFICES ASSUME Typed, FeedInv, [Next]_vars PROVE FeedInv'
  OBVIOUS
<1>1. ASSUME NEW s \in Session,
             \/ \E o \in Op : Begin(s, o) \/ TakeOp(s, o)
             \/ Lookup(s) \/ Read(s) \/ Record(s) \/ Abort(s)
      PROVE  FeedInv'
  BY <1>1, QuietSteps, QuietKeepsFeed
<1>2. ASSUME NEW s \in Session, Write(s) \/ Announce(s) \/ Withdraw(s) \/ Commit(s)
      PROVE  FeedInv'
  BY <1>2, WriteKeepsFeed, AnnounceKeepsFeed, WithdrawKeepsFeed, CommitKeepsFeed
<1>3. CASE Tick
  BY <1>3 DEF Tick, tables, FeedInv, NumbersAreDistinct, WritesUnderLock, PendingIsNewest
<1>4. CASE UNCHANGED vars
  BY <1>4 DEF vars, FeedInv, NumbersAreDistinct, WritesUnderLock, PendingIsNewest
<1> QED BY <1>1, <1>2, <1>3, <1>4 DEF Next

LEMMA InitFeed == Init => FeedInv
<1> SUFFICES ASSUME Init PROVE FeedInv
  OBVIOUS
<1>1. log = {} /\ \A s \in Session : tx[s] = NoTx
  BY DEF Init
<1> QED BY <1>1, NoTxIsEmpty DEF FeedInv, NumbersAreDistinct, WritesUnderLock, PendingIsNewest

\* A request writes and logs only what belongs to events whose row it has
\* locked, and the changes it has pending are the newest of their entities.
THEOREM LogsUnderLock == Spec => []FeedInv
<1>1. Typed /\ FeedInv /\ [Next]_vars => (Typed /\ FeedInv)'
  BY NextTyped, NextKeepsFeed
<1> QED BY <1>1, InitTyped, InitFeed, PTL DEF Spec

\* The numbers only grow, and only a commit touches the log.
LEMMA LogGrows ==
  ASSUME Typed, FeedInv, [Next]_vars
  PROVE  \/ log' = log /\ nextSeq' \in Nat /\ nextSeq' >= nextSeq
         \/ \E s \in Session : Commit(s)
<1>0. nextSeq \in Nat \ {0}
  BY DEF Typed, TypeOK
<1>1. ASSUME NEW s \in Session,
             \/ \E o \in Op : Begin(s, o) \/ TakeOp(s, o)
             \/ Lookup(s) \/ Read(s) \/ Record(s) \/ Abort(s)
      PROVE  log' = log /\ nextSeq' = nextSeq
  BY <1>1, QuietSteps DEF Quiet, tables
<1>2. ASSUME NEW s \in Session, Write(s)
      PROVE  log' = log /\ (nextSeq' = nextSeq \/ nextSeq' = nextSeq + 1)
  BY <1>2 DEF Write, tables
<1>3. ASSUME NEW s \in Session, Announce(s)
      PROVE  log' = log /\ (nextSeq' = nextSeq \/ nextSeq' = nextSeq + 1)
  BY <1>3 DEF Announce, Put, tables
<1>4. ASSUME NEW s \in Session, Withdraw(s)
      PROVE  log' = log /\ nextSeq' \in Nat /\ nextSeq' >= nextSeq
  <2> DEFINE due == {n \in NotifId : /\ VisibleNotifs(s)[n] # NoRow
                                     /\ Withdrawable(VisibleNotifs(s)[n], tx[s].op.event, now)}
  <2>1. nextSeq' = nextSeq + Cardinality(due) /\ log' = log
    BY <1>4 DEF Withdraw, tables
  <2>2. Cardinality(due) \in Nat
    BY StoreAssumption, FS_Subset, FS_CardinalityType
  <2> HIDE DEF due
  <2> QED BY <1>0, <2>1, <2>2
<1>5. Tick \/ UNCHANGED vars => log' = log /\ nextSeq' = nextSeq
  BY DEF Tick, vars, tables
<1> QED BY <1>0, <1>1, <1>2, <1>3, <1>4, <1>5 DEF Next

\* The committed tables are a change feed: whatever the interleaving of the
\* requests, a change becomes visible above all visible changes of the same
\* entity, under a number of its own, and never goes away.
THEOREM FeedImplemented == Spec => ImplementsFeed
<1> DEFINE feed(l) == {[seq |-> m.seq, key |-> <<m.type, m.id>>] : m \in l}
<1>1. Init => Feed!FeedInit
  BY DEF Init, Feed!FeedInit
<1>2. ASSUME Typed, FeedInv, [Next]_vars
      PROVE  [Feed!FeedNext]_Feed!feedVars
  <2>0. nextSeq \in Nat \ {0} /\ log \subseteq Entry
    BY <1>2 DEF Typed, TypeOK
  <2>1. CASE log' = log /\ nextSeq' \in Nat /\ nextSeq' >= nextSeq
    <3>1. CASE nextSeq' = nextSeq
      BY <2>1, <3>1 DEF Feed!feedVars
    <3>2. CASE nextSeq' # nextSeq
      <4>1. nextSeq' - 1 \in Nat /\ nextSeq' - 1 > nextSeq - 1
        <5>1. nextSeq \in Nat /\ nextSeq >= 1
          BY <2>0
        <5>2. nextSeq' \in Nat /\ nextSeq' > nextSeq
          BY <2>1, <3>2, <5>1
        <5>3. \A m, n \in Nat : m >= 1 /\ n > m => n - 1 \in Nat /\ n - 1 > m - 1
          OBVIOUS
        <5> QED BY <5>1, <5>2, <5>3
      <4>2. Feed!Issue
        BY <2>1, <4>1 DEF Feed!Issue
      <4> QED BY <4>2 DEF Feed!FeedNext
    <3> QED BY <3>1, <3>2
  <2>2. ASSUME NEW s \in Session, Commit(s) PROVE Feed!Publish
    <3>1. /\ log' = log \union tx[s].log /\ nextSeq' = nextSeq
          /\ tx[s].log \subseteq Entry
      BY <1>2, <2>2 DEF Commit, Typed, TypeOK, Transaction
    <3>2. FeedInv'
      BY <1>2, NextKeepsFeed
    <3>3. feed(log) \subseteq feed(log')
      BY <3>1
    <3>4. ASSUME NEW new \in feed(log') \ feed(log)
          PROVE  /\ new \in Feed!Change
                 /\ new.seq <= nextSeq - 1
                 /\ \A old \in feed(log) : old.key = new.key => old.seq < new.seq
      <4>1. PICK l \in tx[s].log : new = [seq |-> l.seq, key |-> <<l.type, l.id>>]
        BY <3>1, <3>4
      <4>2. l.seq \in 1 .. nextSeq - 1 /\ l \in Entry
        BY <1>2, <3>1 DEF FeedInv, NumbersAreDistinct
      <4>3. <<l.type, l.id>> \in ({"event"} \X Event) \union ({"notification"} \X NotifId)
        BY <4>2 DEF Entry
      <4>4. \A m \in log : l.type = m.type /\ l.id = m.id => m.seq < l.seq
        BY <1>2 DEF FeedInv, PendingIsNewest
      <4>5. new \in Feed!Change
        <5>1. l.seq \in Nat \ {0}
          BY <2>0, <4>2
        <5> QED BY <4>1, <4>3, <5>1 DEF Feed!Change
      <4>6. new.seq <= nextSeq - 1
        BY <2>0, <4>1, <4>2
      <4>7. \A old \in feed(log) : old.key = new.key => old.seq < new.seq
        <5> SUFFICES ASSUME NEW old \in feed(log), old.key = new.key PROVE old.seq < new.seq
          OBVIOUS
        <5>1. PICK m \in log : old = [seq |-> m.seq, key |-> <<m.type, m.id>>]
          OBVIOUS
        <5>2. m.type = l.type /\ m.id = l.id
          BY <4>1, <5>1
        <5> QED BY <4>1, <4>4, <5>1, <5>2
      <4> QED BY <4>5, <4>6, <4>7
    <3>5. \A a, b \in feed(log') : a.seq = b.seq => a = b
      BY <3>2 DEF FeedInv, NumbersAreDistinct
    <3> QED BY <3>1, <3>3, <3>4, <3>5 DEF Feed!Publish
  <2> QED BY <1>2, <2>1, <2>2, LogGrows DEF Feed!FeedNext
<1>3. Typed /\ FeedInv /\ [Next]_vars => (Typed /\ FeedInv)'
  BY NextTyped, NextKeepsFeed
<1> QED BY <1>1, <1>2, <1>3, InitTyped, InitFeed, PTL DEF Spec, ImplementsFeed, Feed!FeedSpec

-----------------------------------------------------------------------------
(***************************************************************************)
(* 3. Answers                                                              *)
(*                                                                         *)
(* Operations that a phone sends again, for any number of copies that are  *)
(* applied at the same time: the effect is there at most once, and the     *)
(* recorded answer is the truth about it.                                  *)
(***************************************************************************)

Mutation == {o \in Op : o.via = "sync"}

\* What session s has logged for operation o and not yet committed.
Pending(s, o) ==
  {l \in tx[s].log : /\ l.by = o.id
                     /\ l.type = IF o.kind = "notify" THEN "notification" ELSE "event"}

\* Answer a is the truth about the effects E of operation o.
Tells(o, a, E) ==
  /\ \A l, m \in E : l = m
  /\ E # {} => a # NoRow
  /\ o.kind # "notify" =>
       /\ \A l \in E : a = Answer("applied", l.payload.version, l.seq)
       /\ a # NoRow /\ a.seq # 0 => E # {}

\* The session has written the change of o, or refused it, and has not yet
\* recorded the answer.
Working(s, o) ==
  /\ tx[s].op = o
  /\ \/ tx[s].pc \in {"withdraw", "record"}
     \/ tx[s].pc = "announce" /\ o.kind # "notify"

AnswerOf(s, o) == IF Working(s, o) THEN tx[s].res ELSE tx[s].applied[o]

AnswersOK(s) ==
  \A o \in Mutation :
    /\ Tells(o, AnswerOf(s, o), Pending(s, o))
    /\ tx[s].applied[o] # NoRow =>
         applied[o] = NoRow /\ \A r \in Session \ {s} : tx[r].applied[o] = NoRow

\* What a session knows of its operation: it has not been applied in this
\* transaction, and its id is that of no request of the other kind.
StepKnows(s) ==
  /\ tx[s].pc \in {"read", "write", "announce", "withdraw", "record"} /\ tx[s].op.via = "sync"
       => tx[s].applied[tx[s].op] = NoRow
  /\ tx[s].pc # "idle" => \A p \in Op : p.id = tx[s].op.id => p.via = tx[s].op.via
  /\ tx[s].pc = "withdraw" => tx[s].op.kind # "notify"

\* The inductive invariant, beside Typed.
AnswerInv ==
  /\ \A o \in Mutation : Tells(o, applied[o], Effects(o))
  /\ \A s \in Session : AnswersOK(s) /\ StepKnows(s)

-----------------------------------------------------------------------------
\* A step of session s that commits nothing.
LEMMA OneSessionAnswers ==
  ASSUME AnswerInv, NEW s \in Session, \A r \in Session \ {s} : tx'[r] = tx[r],
         UNCHANGED <<log, applied>>, AnswersOK(s)', StepKnows(s)'
  PROVE  AnswerInv'
<1>1. \A o \in Mutation : Tells(o, applied[o], Effects(o))'
  BY DEF AnswerInv, Effects
<1>2. ASSUME NEW r \in Session PROVE AnswersOK(r)' /\ StepKnows(r)'
  <2>1. CASE r # s
    <3>1. tx'[r] = tx[r] /\ AnswersOK(r) /\ StepKnows(r)
      BY <2>1 DEF AnswerInv
    <3>2. \A o : AnswerOf(r, o)' = AnswerOf(r, o) /\ Pending(r, o)' = Pending(r, o)
      BY <3>1 DEF AnswerOf, Working, Pending
    <3>3. ASSUME NEW o \in Mutation, tx'[r].applied[o] # NoRow
          PROVE  applied'[o] = NoRow /\ \A q \in Session \ {r} : tx'[q].applied[o] = NoRow
      BY <2>1, <3>1, <3>3 DEF AnswersOK
    <3>4. AnswersOK(r)'
      <4> SUFFICES ASSUME NEW o \in Mutation PROVE Tells(o, AnswerOf(r, o), Pending(r, o))'
        BY <3>3 DEF AnswersOK
      <4>1. Tells(o, AnswerOf(r, o), Pending(r, o))
        BY <3>1 DEF AnswersOK
      <4> QED BY <3>2, <4>1 DEF Tells
    <3> QED BY <3>1, <3>4 DEF StepKnows
  <2> QED BY <2>1
<1> QED BY <1>1, <1>2 DEF AnswerInv

\* A transaction that ends, or that has just begun.
LEMMA EmptyAnswers ==
  ASSUME Typed, AnswerInv, NEW s \in Session, \A r \in Session \ {s} : tx'[r] = tx[r],
         UNCHANGED <<log, applied>>,
         tx'[s].log = {}, \A o \in Op : tx'[s].applied[o] = NoRow,
         \/ tx'[s].pc = "idle"
         \/ /\ \/ tx'[s].pc = "lookup"
               \/ tx'[s].pc = "read" /\ tx'[s].op.via # "sync"
            /\ \A p \in Op : p.id = tx'[s].op.id => p.via = tx'[s].op.via
  PROVE  AnswerInv'
<1>1. \A o \in Mutation : AnswerOf(s, o)' = NoRow /\ Pending(s, o)' = {} /\ tx'[s].applied[o] = NoRow
  BY DEF Mutation, AnswerOf, Working, Pending
<1>2. AnswersOK(s)'
  BY <1>1 DEF AnswersOK, Tells
<1>3. StepKnows(s)'
  BY DEF StepKnows
<1> QED BY <1>2, <1>3, OneSessionAnswers

LEMMA RollbackKeepsAnswers ==
  ASSUME Typed, AnswerInv, NEW s \in Session, Rollback(s), UNCHANGED <<log, applied>>
  PROVE  AnswerInv'
<1>1. tx'[s] = NoTx /\ \A r \in Session \ {s} : tx'[r] = tx[r]
  BY DEF Rollback, Typed, TypeOK
<1>2. NoTx.log = {} /\ NoTx.pc = "idle" /\ \A o \in Op : NoTx.applied[o] = NoRow
  BY DEF NoTx
<1> QED BY <1>1, <1>2, EmptyAnswers

\* A step between two operations, or before anything of one is written.  An
\* operation that is refused is answered without a number.
LEMMA MoveKeepsAnswers ==
  ASSUME Typed, AnswerInv, NEW s \in Session, \A r \in Session \ {s} : tx'[r] = tx[r],
         UNCHANGED <<log, applied>>,
         tx'[s].log = tx[s].log, tx'[s].applied = tx[s].applied,
         \A o : ~Working(s, o), StepKnows(s)',
         \/ tx'[s].pc \in {"next", "lookup", "read", "write"}
         \/ tx'[s].pc = "announce" /\ tx'[s].op.kind = "notify"
         \/ tx'[s].pc = "record" /\ tx'[s].op.via = "sync" /\ tx'[s].res.seq = 0
  PROVE  AnswerInv'
<1>1. ASSUME NEW o \in Mutation PROVE Tells(o, AnswerOf(s, o), Pending(s, o))'
  <2>1. /\ Tells(o, tx[s].applied[o], Pending(s, o))
        /\ Pending(s, o)' = Pending(s, o)
    BY DEF AnswerInv, AnswersOK, AnswerOf, Pending
  <2>2. CASE ~Working(s, o)'
    <3>1. AnswerOf(s, o)' = tx[s].applied[o]
      BY <2>2 DEF AnswerOf
    <3> QED BY <2>1, <3>1 DEF Tells
  <2>3. CASE Working(s, o)'
    <3>1. tx'[s].op = o /\ tx'[s].pc = "record" /\ tx'[s].res.seq = 0 /\ o.via = "sync"
      BY <2>3 DEF Working
    <3>2. tx[s].applied[o] = NoRow
      BY <3>1 DEF StepKnows
    <3>3. Pending(s, o)' = {}
      BY <2>1, <3>2 DEF Tells
    <3>4. AnswerOf(s, o)'.seq = 0
      BY <2>3, <3>1 DEF AnswerOf
    <3> QED BY <3>3, <3>4 DEF Tells
  <2> QED BY <2>2, <2>3
<1>2. AnswersOK(s)'
  BY <1>1 DEF AnswerInv, AnswersOK
<1> QED BY <1>2, OneSessionAnswers
-----------------------------------------------------------------------------
(* The steps that write nothing *)

LEMMA BeginKeepsAnswers ==
  ASSUME Typed, AnswerInv, NEW s \in Session, NEW o \in Op, Begin(s, o)
  PROVE  AnswerInv'
<1> DEFINE pc == IF o.via = "sync" THEN "lookup" ELSE "read"
<1>1. PICK e \in Event :
        tx' = [tx EXCEPT ![s] = [NoTx EXCEPT !.pc = pc, !.op = [o EXCEPT !.event = e]]]
  BY DEF Begin
<1> DEFINE p == [o EXCEPT !.event = e]
<1>2. UNCHANGED <<log, applied>>
  BY DEF Begin, tables
<1>3. pc = "lookup" \/ (pc = "read" /\ o.via # "sync")
  OBVIOUS
<1>4. o \in OpRecord /\ \A q \in Op : q.id = o.id => q = o
  BY OpAssumption
<1>5. p.id = o.id /\ p.via = o.via
  BY <1>4 DEF OpRecord
<1> HIDE DEF pc, p
<1>6. /\ tx'[s] = [NoTx EXCEPT !.pc = pc, !.op = p]
      /\ \A r \in Session \ {s} : tx'[r] = tx[r]
  BY <1>1 DEF Typed, TypeOK, p
<1>7. /\ tx'[s].pc = pc /\ tx'[s].op = p /\ tx'[s].log = NoTx.log
      /\ tx'[s].applied = NoTx.applied
  BY <1>6, NoTxTyped DEF Transaction
<1>8. NoTx.log = {} /\ \A q \in Op : NoTx.applied[q] = NoRow
  BY DEF NoTx
<1>9. tx'[s].log = {} /\ \A q \in Op : tx'[s].applied[q] = NoRow
  BY <1>7, <1>8
<1>10. \A q \in Op : q.id = tx'[s].op.id => q.via = tx'[s].op.via
  BY <1>4, <1>5, <1>7
<1>11. tx'[s].pc = "lookup" \/ (tx'[s].pc = "read" /\ tx'[s].op.via # "sync")
  BY <1>3, <1>5, <1>7
<1>12. \A r \in Session \ {s} : tx'[r] = tx[r]
  BY <1>6
<1> HIDE DEF NoTx
<1> QED BY <1>2, <1>9, <1>10, <1>11, <1>12, EmptyAnswers

LEMMA TakeOpKeepsAnswers ==
  ASSUME Typed, AnswerInv, NEW s \in Session, NEW o \in Op, TakeOp(s, o)
  PROVE  AnswerInv'
<1>1. /\ tx \in [Session -> Transaction] /\ tx[s].pc = "next" /\ UNCHANGED <<log, applied>>
      /\ tx' = [tx EXCEPT ![s] = [tx[s] EXCEPT !.pc = "lookup", !.op = o,
                                               !.mem = NoRow, !.res = NoRow]]
  BY DEF Typed, TypeOK, TakeOp, tables
<1>2. /\ \A r \in Session \ {s} : tx'[r] = tx[r]
      /\ tx'[s].log = tx[s].log /\ tx'[s].applied = tx[s].applied
      /\ tx'[s].pc = "lookup" /\ tx'[s].op = o
  BY <1>1 DEF Transaction
<1>3. \A p : ~Working(s, p)
  BY <1>1 DEF Working
<1>4. StepKnows(s)'
  BY <1>2, OpAssumption DEF StepKnows
<1> QED BY <1>1, <1>2, <1>3, <1>4, MoveKeepsAnswers

LEMMA LookupKeepsAnswers ==
  ASSUME Typed, AnswerInv, NEW s \in Session, Lookup(s)
  PROVE  AnswerInv'
<1> DEFINE pc == IF VisibleAnswer(s) # NoRow THEN "next" ELSE "read"
           done == IF VisibleAnswer(s) # NoRow THEN tx[s].done + 1 ELSE tx[s].done
<1>1. /\ tx \in [Session -> Transaction] /\ tx[s].pc = "lookup" /\ StepOK(tx[s])
      /\ UNCHANGED <<log, applied>> /\ applied \in [Op -> Result \union {NoRow}]
  BY DEF Typed, TypeOK, Lookup, tables
<1>2. tx' = [tx EXCEPT ![s] = [tx[s] EXCEPT !.pc = pc, !.res = VisibleAnswer(s), !.done = done]]
  BY <1>1 DEF Lookup
<1>3. pc \in {"next", "read"} /\ (pc = "read" => VisibleAnswer(s) = NoRow)
  OBVIOUS
<1>4. tx[s].op \in Op
  BY <1>1 DEF StepOK, OpOK
<1>5. VisibleAnswer(s) = NoRow => tx[s].applied[tx[s].op] = NoRow
  BY <1>1, <1>4 DEF VisibleAnswer, Over
<1> HIDE DEF pc, done
<1>6. /\ \A r \in Session \ {s} : tx'[r] = tx[r]
      /\ tx'[s].log = tx[s].log /\ tx'[s].applied = tx[s].applied
      /\ tx'[s].pc = pc /\ tx'[s].op = tx[s].op
  BY <1>1, <1>2 DEF Transaction
<1>7. \A p : ~Working(s, p)
  BY <1>1 DEF Working
<1>8. StepKnows(s)'
  BY <1>1, <1>3, <1>5, <1>6 DEF StepKnows, AnswerInv
<1> QED BY <1>1, <1>3, <1>6, <1>7, <1>8, MoveKeepsAnswers

\* An operation that is refused before or when it announces.
LEMMA RefuseKeepsAnswers ==
  ASSUME Typed, AnswerInv, NEW s \in Session, NEW a \in Result, a.seq = 0, Refuse(s, a),
         tx[s].pc \in {"read", "announce"}, \A o : ~Working(s, o), UNCHANGED <<log, applied>>
  PROVE  AnswerInv'
<1>1. tx \in [Session -> Transaction] /\ StepOK(tx[s])
  BY DEF Typed, TypeOK
<1>2. CASE tx[s].op.via = "rest"
  <2>1. Rollback(s)
    BY <1>1, <1>2 DEF Refuse, Rollback
  <2> QED BY <2>1, RollbackKeepsAnswers
<1>3. CASE tx[s].op.via # "rest"
  <2>1. tx' = [tx EXCEPT ![s] = [tx[s] EXCEPT !.pc = "record", !.res = a]]
    BY <1>1, <1>3 DEF Refuse
  <2>2. /\ \A r \in Session \ {s} : tx'[r] = tx[r]
        /\ tx'[s].log = tx[s].log /\ tx'[s].applied = tx[s].applied
        /\ tx'[s].pc = "record" /\ tx'[s].op = tx[s].op /\ tx'[s].res = a
    BY <1>1, <2>1 DEF Transaction
  <2>3. tx[s].op.via = "sync"
    BY <1>1, <1>3 DEF StepOK, OpOK, OpRecord
  <2>4. StepKnows(s)'
    BY <2>2 DEF StepKnows, AnswerInv
  <2> QED BY <2>2, <2>3, <2>4, MoveKeepsAnswers
<1> QED BY <1>2, <1>3

LEMMA ReadKeepsAnswers ==
  ASSUME Typed, AnswerInv, NEW s \in Session, Read(s)
  PROVE  AnswerInv'
<1> DEFINE o == tx[s].op
           row == VisibleEvent(s, o.event)
<1>1. /\ tx \in [Session -> Transaction] /\ tx[s].pc = "read" /\ StepOK(tx[s])
      /\ UNCHANGED <<log, applied>>
  BY DEF Typed, TypeOK, Read, tables
<1>2. OpOK(o) /\ o.event \in Event
  BY <1>1 DEF StepOK, OpOK, OpRecord
<1>3. row \in Row \union {NoRow}
  BY <1>2, VisibleTypes
<1>4. row # NoRow => row.version \in Nat
  BY <1>3 DEF Row
<1>5. \A p : ~Working(s, p)
  BY <1>1 DEF Working
<1>6. \/ \E a \in Result : a.seq = 0 /\ Refuse(s, a)
      \/ \E mem : tx' = [tx EXCEPT ![s].pc = "write", ![s].mem = mem]
      \/ o.kind = "notify" /\ \E mem : tx' = [tx EXCEPT ![s].pc = "announce", ![s].mem = mem]
      \/ \E a \in Result : /\ a.seq = 0 /\ o.via = "sync"
                           /\ tx' = [tx EXCEPT ![s].pc = "record", ![s].res = a]
  <2> HIDE DEF row
  <2>1. \A st \in {"applied", "conflict", "not_found", "invalid"}, v \in Nat :
          Answer(st, v, 0) \in Result /\ Answer(st, v, 0).seq = 0
    BY DEF Answer, Result
  <2> QED BY <1>4, <2>1 DEF Read, row
<1>7. ASSUME NEW a \in Result, a.seq = 0, Refuse(s, a) PROVE AnswerInv'
  BY <1>1, <1>5, <1>7, RefuseKeepsAnswers
<1>8. ASSUME \A q \in Session \ {s} : tx'[q] = tx[q],
             tx'[s].log = tx[s].log, tx'[s].applied = tx[s].applied, tx'[s].op = o,
             \/ tx'[s].pc = "write"
             \/ tx'[s].pc = "announce" /\ o.kind = "notify"
             \/ tx'[s].pc = "record" /\ o.via = "sync" /\ tx'[s].res.seq = 0
      PROVE  AnswerInv'
  <2>1. StepKnows(s)'
    BY <1>1, <1>8 DEF StepKnows, AnswerInv
  <2> QED BY <1>1, <1>5, <1>8, <2>1, MoveKeepsAnswers
<1>9. ASSUME NEW mem, tx' = [tx EXCEPT ![s].pc = "write", ![s].mem = mem] PROVE AnswerInv'
  BY <1>1, <1>8, <1>9 DEF Transaction
<1>10. ASSUME o.kind = "notify", NEW mem, tx' = [tx EXCEPT ![s].pc = "announce", ![s].mem = mem]
       PROVE  AnswerInv'
  BY <1>1, <1>8, <1>10 DEF Transaction
<1>11. ASSUME NEW a, a.seq = 0, o.via = "sync", tx' = [tx EXCEPT ![s].pc = "record", ![s].res = a]
       PROVE  AnswerInv'
  BY <1>1, <1>8, <1>11 DEF Transaction
<1> HIDE DEF o, row
<1> QED BY <1>6, <1>7, <1>9, <1>10, <1>11

\* The answer is recorded with the changes it is about.
LEMMA RecordKeepsAnswers ==
  ASSUME Typed, AnswerInv, NEW s \in Session, Record(s)
  PROVE  AnswerInv'
<1> DEFINE o == tx[s].op
<1>1. /\ tx \in [Session -> Transaction] /\ tx[s].pc = "record" /\ StepOK(tx[s])
      /\ UNCHANGED <<log, applied>>
  BY DEF Typed, TypeOK, Record, tables
<1>2. o \in Mutation
  BY <1>1 DEF StepOK, OpOK, Mutation
<1>3. CASE applied[o] # NoRow
  BY <1>1, <1>3, RollbackKeepsAnswers DEF Record
<1>4. CASE applied[o] = NoRow
  <2> DEFINE answers == [tx[s].applied EXCEPT ![o] = tx[s].res]
  <2>1. tx' = [tx EXCEPT ![s] = [tx[s] EXCEPT !.pc = "next", !.done = tx[s].done + 1,
                                              !.applied = answers]]
    BY <1>1, <1>4 DEF Record, Transaction
  <2>2. \A p \in Op : answers[p] = IF p = o THEN tx[s].res ELSE tx[s].applied[p]
    BY <1>1 DEF Transaction
  <2> HIDE DEF answers
  <2>3. /\ \A r \in Session \ {s} : tx'[r] = tx[r]
        /\ tx'[s].log = tx[s].log /\ tx'[s].applied = answers
        /\ tx'[s].pc = "next" /\ tx'[s].op = o
    BY <1>1, <2>1 DEF Transaction
  <2>4. \A r \in Session \ {s} : tx[r].applied[o] = NoRow
    BY DEF Record
  <2>5. ASSUME NEW p \in Mutation PROVE Tells(p, AnswerOf(s, p), Pending(s, p))'
    <3>1. Tells(p, AnswerOf(s, p), Pending(s, p)) /\ Pending(s, p)' = Pending(s, p)
      BY <2>3 DEF AnswerInv, AnswersOK, Pending
    <3>2. AnswerOf(s, p)' = AnswerOf(s, p)
      BY <1>1, <2>2, <2>3 DEF AnswerOf, Working, Mutation
    <3> QED BY <3>1, <3>2 DEF Tells
  <2>6. AnswersOK(s)'
    BY <1>1, <1>2, <1>4, <2>2, <2>3, <2>4, <2>5 DEF AnswersOK, AnswerInv, Mutation
  <2>7. StepKnows(s)'
    BY <1>1, <2>3 DEF StepKnows, AnswerInv
  <2> QED BY <1>1, <2>3, <2>6, <2>7, OneSessionAnswers
<1> QED BY <1>3, <1>4
-----------------------------------------------------------------------------
(* The steps that write *)

\* What an operation logs counts for no other operation a phone has sent.
LEMMA LogsItsOwn ==
  ASSUME Typed, AnswerInv, NEW s \in Session, tx[s].pc # "idle", NEW o \in Mutation,
         o.id = tx[s].op.id
  PROVE  tx[s].op = o
<1>1. tx[s].op.via = "sync"
  BY DEF AnswerInv, StepKnows, Mutation
<1>2. tx[s].op \in Op
  BY <1>1 DEF Typed, StepOK, OpOK
<1> QED BY <1>2, OpAssumption DEF Mutation

\* The change is logged, and the answer is about it.
LEMMA WriteKeepsAnswers ==
  ASSUME Typed, Typed', AnswerInv, NEW s \in Session, Write(s)
  PROVE  AnswerInv'
<1> DEFINE o == tx[s].op
           e == o.event
           new == Edited(o, tx[s].mem)
           entry == EventEntry(nextSeq, e, IF o.kind = "delete" THEN "delete" ELSE "upsert",
                               Snapshot(o, tx[s].mem), o)
           pc == CASE o.kind = "create" -> "announce"
                   [] o.kind = "update" -> IF News(tx[s].mem, new) # {} THEN "announce" ELSE AfterOp(o)
                   [] o.kind = "delete" -> "withdraw"
           res == Answer("applied", new.version, nextSeq)
           row == IF o.kind = "create" THEN new
                  ELSE Stored(VisibleEvent(s, e), tx[s].mem, new)
<1>1. /\ tx \in [Session -> Transaction] /\ StepOK(tx[s]) /\ tx[s].pc = "write"
      /\ UNCHANGED <<log, applied>>
  BY DEF Write, Typed, TypeOK, tables
<1>2. o.kind \in {"create", "update", "delete"}
  BY <1>1 DEF StepOK
<1>3. CASE o.kind = "create" /\ events[e] # NoRow
  BY <1>1, <1>3, RollbackKeepsAnswers DEF Write
<1>4. CASE ~(o.kind = "create" /\ events[e] # NoRow)
  <2>1. tx' = [tx EXCEPT ![s].pc = pc, ![s].res = res, ![s].locks = @ \union {e},
                         ![s].events[e] = row, ![s].log = @ \union {entry}]
    BY <1>4 DEF Write
  <2>2. /\ entry.by = o.id /\ entry.type = "event"
        /\ res = Answer("applied", entry.payload.version, entry.seq)
    BY DEF EventEntry, Snapshot
  <2>3. /\ pc = "withdraw" => o.kind = "delete"
        /\ pc \in {"announce", "withdraw"} \/ pc = AfterOp(o)
    BY <1>2 DEF AfterOp
  <2>4. pc \in {"announce", "withdraw", "record"} \/ (pc = "next" /\ o.via # "sync")
    BY <2>3 DEF AfterOp
  <2> HIDE DEF pc, res, row, entry
  <2>5. /\ \A r \in Session \ {s} : tx'[r] = tx[r]
        /\ tx'[s].op = o /\ tx'[s].pc = pc /\ tx'[s].res = res
        /\ tx'[s].applied = tx[s].applied
        /\ tx'[s].log = tx[s].log \union {entry}
    BY <1>1, <2>1 DEF Transaction
  <2>6. ASSUME NEW p \in Mutation PROVE Tells(p, AnswerOf(s, p), Pending(s, p))'
    <3>1. Tells(p, tx[s].applied[p], Pending(s, p))
      BY <1>1 DEF AnswerInv, AnswersOK, AnswerOf, Working
    <3>2. CASE p # o
      <4>1. Pending(s, p)' = Pending(s, p)
        BY <1>1, <2>2, <2>5, <3>2, LogsItsOwn DEF Pending
      <4>2. AnswerOf(s, p)' = tx[s].applied[p]
        BY <2>5, <3>2 DEF AnswerOf, Working
      <4> QED BY <3>1, <4>1, <4>2 DEF Tells
    <3>3. CASE p = o
      <4>1. Pending(s, p) = {}
        BY <1>1, <3>1, <3>3 DEF Tells, AnswerInv, StepKnows, Mutation
      <4>2. Pending(s, p)' = {entry}
        BY <1>2, <2>2, <2>5, <3>3, <4>1 DEF Pending
      <4>3. Working(s, p)'
        BY <1>2, <2>4, <2>5, <3>3 DEF Working, Mutation
      <4>4. AnswerOf(s, p)' = res
        BY <2>5, <4>3 DEF AnswerOf
      <4>5. res # NoRow
        <5>1. StepOK(tx[s])' /\ o.kind # "notify"
          BY <1>2 DEF Typed
        <5>2. tx'[s].res \in Result
          BY <2>5, <4>3, <5>1 DEF StepOK, Working
        <5> QED BY <2>5, <5>2, NoRowAssumption
      <4> QED BY <2>2, <4>2, <4>4, <4>5 DEF Tells
    <3> QED BY <3>2, <3>3
  <2>7. AnswersOK(s)'
    BY <1>1, <2>5, <2>6 DEF AnswersOK, AnswerInv
  <2>8. StepKnows(s)'
    BY <1>1, <2>3, <2>5 DEF StepKnows, AnswerInv
  <2> QED BY <1>1, <2>5, <2>7, <2>8, OneSessionAnswers
<1> QED BY <1>3, <1>4

\* For a notify the notification is the effect; of any other operation it is
\* only a consequence.
LEMMA PutKeepsAnswers ==
  ASSUME Typed, Typed', AnswerInv, NEW s \in Session, tx[s].pc = "announce",
         NEW n \in NotifId, NEW row \in NotifRow,
         Put(s, n, row), UNCHANGED <<log, applied>>
  PROVE  AnswerInv'
<1> DEFINE o == tx[s].op
           e == o.event
           entry == NotifEntry(nextSeq, n, "upsert", row, o)
           pc == AfterOp(o)
           res == IF o.kind = "notify" THEN Answer("applied", row.version, 0) ELSE tx[s].res
<1>1. tx \in [Session -> Transaction] /\ StepOK(tx[s])
  BY DEF Typed, TypeOK
<1>2. tx' = [tx EXCEPT ![s].pc = pc, ![s].res = res, ![s].locks = @ \union {e},
                       ![s].notifs[n] = row, ![s].log = @ \union {entry}]
  BY DEF Put
<1>3. entry.by = o.id /\ entry.type = "notification"
  BY DEF NotifEntry
<1>4. pc = "record" \/ (pc = "next" /\ o.via # "sync")
  BY DEF AfterOp
<1>5. o.kind # "notify" => res = tx[s].res
  OBVIOUS
<1> HIDE DEF pc, res, entry
<1>6. /\ \A r \in Session \ {s} : tx'[r] = tx[r]
      /\ tx'[s].op = o /\ tx'[s].pc = pc /\ tx'[s].res = res
      /\ tx'[s].applied = tx[s].applied
      /\ tx'[s].log = tx[s].log \union {entry}
  BY <1>1, <1>2 DEF Transaction
<1>7. ASSUME NEW p \in Mutation PROVE Tells(p, AnswerOf(s, p), Pending(s, p))'
  <2>1. Tells(p, AnswerOf(s, p), Pending(s, p))
    BY DEF AnswerInv, AnswersOK
  <2>2. CASE p # o
    <3>1. Pending(s, p)' = Pending(s, p)
      BY <1>3, <1>6, <2>2, LogsItsOwn DEF Pending
    <3>2. AnswerOf(s, p)' = AnswerOf(s, p)
      BY <1>6, <2>2 DEF AnswerOf, Working
    <3> QED BY <2>1, <3>1, <3>2 DEF Tells
  <2>3. CASE p = o /\ o.kind # "notify"
    <3>1. Pending(s, p)' = Pending(s, p)
      BY <1>3, <1>6, <2>3 DEF Pending
    <3>2. AnswerOf(s, p)' = AnswerOf(s, p)
      BY <1>4, <1>5, <1>6, <2>3 DEF AnswerOf, Working, Mutation
    <3> QED BY <2>1, <3>1, <3>2 DEF Tells
  <2>4. CASE p = o /\ o.kind = "notify"
    <3>1. AnswerOf(s, p) = NoRow
      BY <2>4 DEF AnswerOf, Working, AnswerInv, StepKnows, Mutation
    <3>2. Pending(s, p) = {}
      BY <2>1, <3>1 DEF Tells
    <3>3. Pending(s, p)' = {entry}
      BY <1>3, <1>6, <2>4, <3>2 DEF Pending
    <3>4. pc = "record" /\ AnswerOf(s, p)' = res
      BY <1>4, <1>6, <2>4 DEF AnswerOf, Working, Mutation
    <3>5. res # NoRow
      <4>1. StepOK(tx[s])'
        BY DEF Typed
      <4>2. tx'[s].res \in Result
        BY <1>6, <3>4, <4>1 DEF StepOK
      <4> QED BY <1>6, <4>2, NoRowAssumption
    <3> QED BY <2>4, <3>3, <3>4, <3>5 DEF Tells
  <2> QED BY <2>2, <2>3, <2>4
<1>8. AnswersOK(s)'
  BY <1>6, <1>7 DEF AnswersOK, AnswerInv
<1>9. StepKnows(s)'
  BY <1>4, <1>6 DEF StepKnows, AnswerInv
<1> QED BY <1>6, <1>8, <1>9, OneSessionAnswers

LEMMA AnnounceKeepsAnswers ==
  ASSUME Typed, Typed', AnswerInv, NEW s \in Session, Announce(s)
  PROVE  AnswerInv'
<1> DEFINE o == tx[s].op
           rows == VisibleNotifs(s)
           kind == NewsKind(o)
           changes == NewsChanges(o, tx[s].mem)
           text == NewsText(o)
<1>1. /\ tx[s] \in Transaction /\ StepOK(tx[s]) /\ tx[s].pc = "announce" /\ now \in Nat
      /\ UNCHANGED <<log, applied>>
  BY DEF Announce, tables, Typed, TypeOK
<1>2. OpOK(o) /\ o.event \in Event /\ o.kind \in {"create", "update", "notify"}
  BY <1>1 DEF StepOK, OpOK, OpRecord
<1>3. kind \in Kinds /\ changes \in SUBSET Watched /\ text \in Val \union {NoMessage}
  BY <1>2, NewsTypes
<1>4. rows \in [NotifId -> NotifRow \union {NoRow}]
  BY VisibleTypes
<1>5. CASE VisibleEvent(s, o.event).deleted /\ o.kind = "notify"
  <2>1. Refuse(s, Answer("not_found", 0, 0))
    BY <1>5 DEF Announce
  <2>2. Answer("not_found", 0, 0) \in Result /\ Answer("not_found", 0, 0).seq = 0
    BY DEF Answer, Result
  <2>3. \A p : ~Working(s, p)
    BY <1>1, <1>5 DEF Working
  <2> QED BY <1>1, <2>1, <2>2, <2>3, RefuseKeepsAnswers
<1>6. CASE VisibleEvent(s, o.event).deleted /\ o.kind # "notify"
  BY <1>1, <1>6, RollbackKeepsAnswers DEF Announce
<1>7. CASE ~VisibleEvent(s, o.event).deleted
  <2>1. \/ \E n \in NotifId : /\ rows[n] # NoRow
                              /\ Put(s, n, Merge(rows[n], kind, changes, text))
        \/ \E n \in NotifId : Put(s, n, NewNotification(o.event, kind, changes, text, now))
    BY <1>7 DEF Announce
  <2> HIDE DEF kind, changes, text
  <2>2. ASSUME NEW n \in NotifId, rows[n] # NoRow, Put(s, n, Merge(rows[n], kind, changes, text))
        PROVE  AnswerInv'
    <3> DEFINE row == Merge(rows[n], kind, changes, text)
    <3>1. row \in NotifRow
      BY <1>3, <1>4, <2>2, NotificationTypes
    <3> HIDE DEF row
    <3>2. Put(s, n, row)
      BY <2>2 DEF row
    <3> QED BY <1>1, <3>1, <3>2, PutKeepsAnswers
  <2>3. ASSUME NEW n \in NotifId, Put(s, n, NewNotification(o.event, kind, changes, text, now))
        PROVE  AnswerInv'
    <3> DEFINE row == NewNotification(o.event, kind, changes, text, now)
    <3>1. row \in NotifRow
      BY <1>1, <1>2, <1>3, NotificationTypes
    <3> HIDE DEF row
    <3>2. Put(s, n, row)
      BY <2>3 DEF row
    <3> QED BY <1>1, <3>1, <3>2, PutKeepsAnswers
  <2> QED BY <2>1, <2>2, <2>3
<1> QED BY <1>5, <1>6, <1>7

LEMMA WithdrawKeepsAnswers ==
  ASSUME Typed, AnswerInv, NEW s \in Session, Withdraw(s)
  PROVE  AnswerInv'
<1> DEFINE o == tx[s].op
           rows == VisibleNotifs(s)
           due == {n \in NotifId : rows[n] # NoRow /\ Withdrawable(rows[n], o.event, now)}
           pc == AfterOp(o)
           kept == [n \in NotifId |-> IF n \in due THEN Withdrawn(rows[n]) ELSE tx[s].notifs[n]]
<1>1. /\ tx \in [Session -> Transaction] /\ tx[s].pc = "withdraw"
      /\ UNCHANGED <<log, applied>>
  BY DEF Withdraw, tables, Typed, TypeOK
<1>2. PICK seqOf \in Bijection(due, nextSeq .. nextSeq + Cardinality(due) - 1) :
        tx' = [tx EXCEPT
                 ![s].pc     = AfterOp(o),
                 ![s].notifs = [n \in NotifId |-> IF n \in due THEN Withdrawn(rows[n]) ELSE @[n]],
                 ![s].log    = @ \union {NotifEntry(seqOf[n], n, "delete", Withdrawn(rows[n]), o)
                                          : n \in due}]
  BY DEF Withdraw
<1> DEFINE new == {NotifEntry(seqOf[n], n, "delete", Withdrawn(rows[n]), o) : n \in due}
<1>3. \A l \in new : l.by = o.id /\ l.type = "notification"
  <2> HIDE DEF due, rows
  <2> QED BY DEF NotifEntry
<1>4. tx' = [tx EXCEPT ![s].pc = pc, ![s].notifs = kept, ![s].log = @ \union new]
  BY <1>2
<1>5. pc = "record" \/ (pc = "next" /\ o.via # "sync")
  BY DEF AfterOp
<1> HIDE DEF pc, kept, new
<1>6. /\ \A r \in Session \ {s} : tx'[r] = tx[r]
      /\ tx'[s].op = o /\ tx'[s].pc = pc /\ tx'[s].res = tx[s].res
      /\ tx'[s].applied = tx[s].applied
      /\ tx'[s].log = tx[s].log \union new
  BY <1>1, <1>4 DEF Transaction
<1>7. ASSUME NEW p \in Mutation PROVE Tells(p, AnswerOf(s, p), Pending(s, p))'
  <2>1. Tells(p, AnswerOf(s, p), Pending(s, p))
    BY DEF AnswerInv, AnswersOK
  <2>2. p.id = o.id => p = o /\ o.kind # "notify"
    BY <1>1, LogsItsOwn DEF AnswerInv, StepKnows
  <2>3. Pending(s, p)' = Pending(s, p)
    BY <1>3, <1>6, <2>2 DEF Pending
  <2>4. AnswerOf(s, p)' = AnswerOf(s, p)
    BY <1>1, <1>5, <1>6 DEF AnswerOf, Working, Mutation
  <2> QED BY <2>1, <2>3, <2>4 DEF Tells
<1>8. AnswersOK(s)'
  BY <1>1, <1>6, <1>7 DEF AnswersOK, AnswerInv
<1>9. StepKnows(s)'
  BY <1>1, <1>5, <1>6 DEF StepKnows, AnswerInv
<1> QED BY <1>1, <1>6, <1>8, <1>9, OneSessionAnswers
-----------------------------------------------------------------------------
(* The commit *)

\* The changes and the answers appear together; an operation that another
\* session has committed meanwhile has no effect pending here.
LEMMA CommitKeepsAnswers ==
  ASSUME Typed, AnswerInv, NEW s \in Session, Commit(s)
  PROVE  AnswerInv'
<1>1. /\ tx \in [Session -> Transaction] /\ tx[s].pc = "next"
      /\ tx' = [tx EXCEPT ![s] = NoTx] /\ log' = log \union tx[s].log
      /\ applied \in [Op -> Result \union {NoRow}]
  BY DEF Commit, Typed, TypeOK
<1>2. /\ tx'[s] = NoTx /\ NoTx.pc = "idle" /\ NoTx.log = {}
      /\ \A o \in Op : NoTx.applied[o] = NoRow
      /\ \A r \in Session \ {s} : tx'[r] = tx[r]
  BY <1>1 DEF NoTx
<1>3. \A o \in Op : applied'[o] = IF tx[s].applied[o] # NoRow THEN tx[s].applied[o] ELSE applied[o]
  BY <1>1 DEF Commit, Over
<1> HIDE DEF NoTx
<1>4. ASSUME NEW o \in Mutation PROVE Tells(o, applied[o], Effects(o))'
  <2>1. /\ Tells(o, applied[o], Effects(o)) /\ Tells(o, tx[s].applied[o], Pending(s, o))
        /\ tx[s].applied[o] # NoRow => applied[o] = NoRow
    BY <1>1 DEF AnswerInv, AnswersOK, AnswerOf, Working
  <2>2. Effects(o)' = Effects(o) \union Pending(s, o)
    BY <1>1 DEF Effects, Pending
  <2>3. CASE tx[s].applied[o] # NoRow
    <3>1. Effects(o) = {} /\ applied'[o] = tx[s].applied[o]
      BY <1>3, <2>1, <2>3 DEF Tells, Mutation
    <3> QED BY <2>1, <2>2, <3>1 DEF Tells
  <2>4. CASE tx[s].applied[o] = NoRow
    <3>1. Pending(s, o) = {} /\ applied'[o] = applied[o]
      BY <1>3, <2>1, <2>4 DEF Tells, Mutation
    <3> QED BY <2>1, <2>2, <3>1 DEF Tells
  <2> QED BY <2>3, <2>4
<1>5. ASSUME NEW r \in Session PROVE AnswersOK(r)' /\ StepKnows(r)'
  <2>1. CASE r = s
    <3>1. \A o \in Mutation : AnswerOf(r, o)' = NoRow /\ Pending(r, o)' = {} /\ tx'[r].applied[o] = NoRow
      BY <1>2, <2>1 DEF Mutation, AnswerOf, Working, Pending
    <3>2. AnswersOK(r)'
      BY <3>1 DEF AnswersOK, Tells
    <3> QED BY <1>2, <2>1, <3>2 DEF StepKnows
  <2>2. CASE r # s
    <3>1. tx'[r] = tx[r] /\ AnswersOK(r) /\ StepKnows(r)
      BY <1>2, <2>2 DEF AnswerInv
    <3>2. ASSUME NEW o \in Mutation, tx'[r].applied[o] # NoRow
          PROVE  applied'[o] = NoRow /\ \A q \in Session \ {r} : tx'[q].applied[o] = NoRow
      <4>1. applied[o] = NoRow /\ \A q \in Session \ {r} : tx[q].applied[o] = NoRow
        BY <3>1, <3>2 DEF AnswersOK
      <4> QED BY <1>2, <1>3, <2>2, <4>1 DEF Mutation
    <3>3. ASSUME NEW o \in Mutation PROVE Tells(o, AnswerOf(r, o), Pending(r, o))'
      <4>1. AnswerOf(r, o)' = AnswerOf(r, o) /\ Pending(r, o)' = Pending(r, o)
        BY <3>1 DEF AnswerOf, Working, Pending
      <4> QED BY <3>1, <4>1 DEF AnswersOK, Tells
    <3> QED BY <3>1, <3>2, <3>3 DEF AnswersOK, StepKnows
  <2> QED BY <2>1, <2>2
<1> QED BY <1>4, <1>5 DEF AnswerInv

LEMMA InitAnswers == Init => AnswerInv
<1> SUFFICES ASSUME Init PROVE AnswerInv
  OBVIOUS
<1>1. /\ log = {} /\ \A o \in Op : applied[o] = NoRow
      /\ \A s \in Session : tx[s] = NoTx
  BY DEF Init
<1>2. NoTx.pc = "idle" /\ NoTx.log = {} /\ \A o \in Op : NoTx.applied[o] = NoRow
  BY DEF NoTx
<1> HIDE DEF NoTx
<1>3. \A s \in Session, o \in Mutation : AnswerOf(s, o) = NoRow /\ Pending(s, o) = {}
  BY <1>1, <1>2 DEF AnswerOf, Working, Pending, Mutation
<1>4. \A o \in Mutation : Effects(o) = {} /\ applied[o] = NoRow
  BY <1>1 DEF Effects, Mutation
<1> QED BY <1>1, <1>2, <1>3, <1>4 DEF AnswerInv, AnswersOK, StepKnows, Tells, Mutation

LEMMA NextKeepsAnswers == Typed /\ Typed' /\ AnswerInv /\ [Next]_vars => AnswerInv'
<1> SUFFICES ASSUME Typed, Typed', AnswerInv, [Next]_vars PROVE AnswerInv'
  OBVIOUS
<1>1. ASSUME NEW s \in Session, NEW o \in Op, Begin(s, o) \/ TakeOp(s, o) PROVE AnswerInv'
  BY <1>1, BeginKeepsAnswers, TakeOpKeepsAnswers
<1>2. ASSUME NEW s \in Session, Lookup(s) \/ Read(s) \/ Record(s) PROVE AnswerInv'
  BY <1>2, LookupKeepsAnswers, ReadKeepsAnswers, RecordKeepsAnswers
<1>3. ASSUME NEW s \in Session, Write(s) \/ Announce(s) \/ Withdraw(s) \/ Commit(s)
      PROVE  AnswerInv'
  BY <1>3, WriteKeepsAnswers, AnnounceKeepsAnswers, WithdrawKeepsAnswers, CommitKeepsAnswers
<1>4. ASSUME NEW s \in Session, Abort(s) PROVE AnswerInv'
  BY <1>4, RollbackKeepsAnswers DEF Abort, tables
<1>5. CASE Tick \/ UNCHANGED vars
  <2>1. UNCHANGED <<log, applied, tx>>
    BY <1>5 DEF Tick, tables, vars
  <2>2. /\ \A o : Effects(o)' = Effects(o)
        /\ \A s, o : AnswerOf(s, o)' = AnswerOf(s, o) /\ Pending(s, o)' = Pending(s, o)
    BY <2>1 DEF Effects, AnswerOf, Working, Pending
  <2> QED BY <2>1, <2>2 DEF AnswerInv, AnswersOK, StepKnows, Tells
<1> QED BY <1>1, <1>2, <1>3, <1>4, <1>5 DEF Next

LEMMA AnswersHold == Spec => []AnswerInv
<1>1. Typed /\ AnswerInv /\ [Next]_vars => (Typed /\ AnswerInv)'
  BY NextTyped, NextKeepsAnswers
<1> QED BY <1>1, InitTyped, InitAnswers, PTL DEF Spec

\* An operation a phone has sent several times, because an answer was lost or
\* another push was still going on, has its effect at most once (applied_ops).
THEOREM RetriesAreHarmless == Spec => []AppliedAtMostOnce
<1>1. AnswerInv => AppliedAtMostOnce
  BY DEF AnswerInv, AppliedAtMostOnce, Mutation, Tells
<1> QED BY <1>1, AnswersHold, PTL

\* What a phone is told of an operation is what happened: "applied" with a
\* number exactly if that change, with that version, is in the log.
THEOREM AnswersAreTrue == Spec => []AnswerMatchesLog
<1>1. AnswerInv => AnswerMatchesLog
  BY DEF AnswerInv, AnswerMatchesLog, Mutation, Tells
<1> QED BY <1>1, AnswersHold, PTL

-----------------------------------------------------------------------------
(***************************************************************************)
(* 4. Versions                                                             *)
(*                                                                         *)
(* A phone that has read the whole log has the version of each event that  *)
(* the table has, in whatever order the requests have committed.           *)
(***************************************************************************)

ChangeOf(l, e) == l.type = "event" /\ l.id = e

\* Change l is the last of event e in L.
Newest(l, e, L) ==
  l \in L /\ ChangeOf(l, e) /\ \A m \in L : ChangeOf(m, e) => m.seq <= l.seq

\* A session has logged the version it has written, and logged no event that
\* it has not written.
SessionVersions(s) ==
  \A e \in Event :
    /\ tx[s].events[e] # NoRow =>
         \E l \in tx[s].log : /\ Newest(l, e, tx[s].log)
                              /\ l.payload.version = tx[s].events[e].version
    /\ tx[s].events[e] = NoRow => \A l \in tx[s].log : ~ChangeOf(l, e)

\* The inductive invariant, beside Typed and FeedInv.
VersionInv ==
  /\ \A e \in Event : events[e] # NoRow =>
       \E l \in log : Newest(l, e, log) /\ l.payload.version = events[e].version
  /\ \A s \in Session : SessionVersions(s)

-----------------------------------------------------------------------------
\* A step of session s that commits nothing.
LEMMA OneSessionVersions ==
  ASSUME VersionInv, NEW s \in Session, \A r \in Session \ {s} : tx'[r] = tx[r],
         UNCHANGED tables, SessionVersions(s)'
  PROVE  VersionInv'
<1>1. \A r \in Session : SessionVersions(r)'
  BY DEF VersionInv, SessionVersions
<1> QED BY <1>1 DEF VersionInv, tables

LEMMA QuietKeepsVersions ==
  ASSUME VersionInv, NEW s \in Session, Quiet(s)
  PROVE  VersionInv'
<1>1. SessionVersions(s)'
  BY DEF Quiet, VersionInv, SessionVersions
<1> QED BY <1>1, OneSessionVersions DEF Quiet

\* A step that logs changes of notifications only.
LEMMA NotificationsKeepVersions ==
  ASSUME VersionInv, NEW s \in Session, \A r \in Session \ {s} : tx'[r] = tx[r],
         UNCHANGED tables, NEW new, \A l \in new : l.type = "notification",
         tx'[s].events = tx[s].events, tx'[s].log = tx[s].log \union new
  PROVE  VersionInv'
<1>1. \A l \in tx'[s].log : \A e : ChangeOf(l, e) => l \in tx[s].log
  BY DEF ChangeOf
<1>2. ASSUME NEW e, NEW l, Newest(l, e, tx[s].log) PROVE Newest(l, e, tx'[s].log)
  BY <1>1, <1>2 DEF Newest
<1>3. SessionVersions(s)'
  <2> SUFFICES ASSUME NEW e \in Event
               PROVE  /\ tx'[s].events[e] # NoRow =>
                           \E l \in tx'[s].log : /\ Newest(l, e, tx'[s].log)
                                                 /\ l.payload.version = tx'[s].events[e].version
                      /\ tx'[s].events[e] = NoRow => \A l \in tx'[s].log : ~ChangeOf(l, e)
    BY DEF SessionVersions
  <2>1. CASE tx[s].events[e] # NoRow
    <3>1. PICK l \in tx[s].log : /\ Newest(l, e, tx[s].log)
                                 /\ l.payload.version = tx[s].events[e].version
      BY <2>1 DEF VersionInv, SessionVersions
    <3>2. l \in tx'[s].log /\ Newest(l, e, tx'[s].log)
      BY <1>2, <3>1
    <3> QED BY <2>1, <3>1, <3>2
  <2>2. CASE tx[s].events[e] = NoRow
    BY <1>1, <2>2 DEF VersionInv, SessionVersions
  <2> QED BY <2>1, <2>2
<1> QED BY <1>3, OneSessionVersions
-----------------------------------------------------------------------------
(* The steps that write *)

\* The row and its change get the version of the object in memory.
LEMMA WriteKeepsVersions ==
  ASSUME Typed, FeedInv, VersionInv, NEW s \in Session, Write(s)
  PROVE  VersionInv'
<1> DEFINE o == tx[s].op
           e == o.event
           new == Edited(o, tx[s].mem)
           entry == EventEntry(nextSeq, e, IF o.kind = "delete" THEN "delete" ELSE "upsert",
                               Snapshot(o, tx[s].mem), o)
           pc == CASE o.kind = "create" -> "announce"
                   [] o.kind = "update" -> IF News(tx[s].mem, new) # {} THEN "announce" ELSE AfterOp(o)
                   [] o.kind = "delete" -> "withdraw"
           res == Answer("applied", new.version, nextSeq)
           row == IF o.kind = "create" THEN new
                  ELSE Stored(VisibleEvent(s, e), tx[s].mem, new)
<1>1. /\ tx \in [Session -> Transaction] /\ StepOK(tx[s]) /\ tx[s].pc = "write"
      /\ UNCHANGED tables /\ nextSeq \in Nat
  BY DEF Write, Typed, TypeOK
<1>2. e \in Event /\ tx[s].mem \in Row /\ OpOK(o) /\ o.kind \in {"create", "update", "delete"}
  BY <1>1 DEF StepOK, OpOK, OpRecord
<1>3. CASE o.kind = "create" /\ events[e] # NoRow
  <2>1. Rollback(s) /\ nextSeq' = nextSeq
    BY <1>3 DEF Write
  <2> QED BY <1>1, <2>1, RollbackIsQuiet, QuietKeepsVersions
<1>4. CASE ~(o.kind = "create" /\ events[e] # NoRow)
  <2>1. tx' = [tx EXCEPT ![s].pc = pc, ![s].res = res, ![s].locks = @ \union {e},
                         ![s].events[e] = row, ![s].log = @ \union {entry}]
    BY <1>4 DEF Write
  <2>2. row # NoRow
    <3>1. o.kind # "create" => VisibleEvent(s, e) # NoRow
      BY <1>1, <1>2 DEF StepOK, VisibleEvent
    <3>2. new \in Row
      BY <1>2, EditedType
    <3>3. o.kind # "create" => VisibleEvent(s, e) \in Row
      BY <1>2, <3>1, VisibleTypes
    <3>4. row \in Row
      BY <1>2, <3>2, <3>3, StoredType
    <3> QED BY <3>4, NoRowAssumption
  <2>3. /\ entry.seq = nextSeq /\ ChangeOf(entry, e) /\ \A d : ChangeOf(entry, d) => d = e
        /\ entry.payload.version = row.version
    BY DEF EventEntry, ChangeOf, Snapshot, Stored
  <2> HIDE DEF pc, res, row, entry
  <2>4. /\ \A r \in Session \ {s} : tx'[r] = tx[r]
        /\ tx'[s].log = tx[s].log \union {entry}
        /\ \A d \in Event : tx'[s].events[d] = IF d = e THEN row ELSE tx[s].events[d]
    BY <1>1, <2>1 DEF Transaction
  <2>5. \A l \in tx[s].log : l.seq <= entry.seq
    BY <1>1, <2>3 DEF FeedInv, NumbersAreDistinct
  <2>6. entry.seq <= entry.seq
    BY <1>1, <2>3
  <2>7. SessionVersions(s)'
    <3> SUFFICES ASSUME NEW d \in Event
                 PROVE  /\ tx'[s].events[d] # NoRow =>
                             \E l \in tx'[s].log : /\ Newest(l, d, tx'[s].log)
                                                   /\ l.payload.version = tx'[s].events[d].version
                        /\ tx'[s].events[d] = NoRow => \A l \in tx'[s].log : ~ChangeOf(l, d)
      BY DEF SessionVersions
    <3>1. CASE d = e
      <4>1. Newest(entry, e, tx'[s].log) /\ entry \in tx'[s].log
        BY <2>3, <2>4, <2>5, <2>6 DEF Newest
      <4> QED BY <1>2, <2>2, <2>3, <2>4, <3>1, <4>1
    <3>2. CASE d # e /\ tx[s].events[d] # NoRow
      <4>1. PICK l \in tx[s].log : /\ Newest(l, d, tx[s].log)
                                   /\ l.payload.version = tx[s].events[d].version
        BY <3>2 DEF VersionInv, SessionVersions
      <4>2. Newest(l, d, tx'[s].log)
        BY <2>3, <2>4, <3>2, <4>1 DEF Newest
      <4> QED BY <2>4, <3>2, <4>1, <4>2
    <3>3. CASE d # e /\ tx[s].events[d] = NoRow
      BY <2>3, <2>4, <3>3 DEF VersionInv, SessionVersions
    <3> QED BY <3>1, <3>2, <3>3
  <2> QED BY <1>1, <2>4, <2>7, OneSessionVersions
<1> QED BY <1>3, <1>4

LEMMA PutKeepsVersions ==
  ASSUME Typed, VersionInv, NEW s \in Session, NEW n, NEW row, Put(s, n, row), UNCHANGED tables
  PROVE  VersionInv'
<1> DEFINE o == tx[s].op
           entry == NotifEntry(nextSeq, n, "upsert", row, o)
           pc == AfterOp(o)
           res == IF o.kind = "notify" THEN Answer("applied", row.version, 0) ELSE tx[s].res
<1>1. tx \in [Session -> Transaction]
  BY DEF Typed, TypeOK
<1>2. tx' = [tx EXCEPT ![s].pc = pc, ![s].res = res, ![s].locks = @ \union {o.event},
                       ![s].notifs[n] = row, ![s].log = @ \union {entry}]
  BY DEF Put
<1>3. \A l \in {entry} : l.type = "notification"
  BY DEF NotifEntry
<1> HIDE DEF pc, res, entry
<1>4. /\ \A r \in Session \ {s} : tx'[r] = tx[r]
      /\ tx'[s].events = tx[s].events /\ tx'[s].log = tx[s].log \union {entry}
  BY <1>1, <1>2 DEF Transaction
<1> QED BY <1>3, <1>4, NotificationsKeepVersions

LEMMA AnnounceKeepsVersions ==
  ASSUME Typed, VersionInv, NEW s \in Session, Announce(s)
  PROVE  VersionInv'
<1>1. UNCHANGED tables
  BY DEF Announce
<1>2. \/ nextSeq' = nextSeq /\ (Rollback(s) \/ \E a : Refuse(s, a))
      \/ \E n, row : Put(s, n, row)
  BY Zenon DEF Announce
<1> QED BY <1>1, <1>2, RollbackIsQuiet, RefuseIsQuiet, QuietKeepsVersions, PutKeepsVersions

LEMMA WithdrawKeepsVersions ==
  ASSUME Typed, VersionInv, NEW s \in Session, Withdraw(s)
  PROVE  VersionInv'
<1> DEFINE o == tx[s].op
           rows == VisibleNotifs(s)
           due == {n \in NotifId : rows[n] # NoRow /\ Withdrawable(rows[n], o.event, now)}
           pc == AfterOp(o)
           kept == [n \in NotifId |-> IF n \in due THEN Withdrawn(rows[n]) ELSE tx[s].notifs[n]]
<1>1. tx \in [Session -> Transaction] /\ UNCHANGED tables
  BY DEF Withdraw, Typed, TypeOK
<1>2. PICK seqOf \in Bijection(due, nextSeq .. nextSeq + Cardinality(due) - 1) :
        tx' = [tx EXCEPT
                 ![s].pc     = AfterOp(o),
                 ![s].notifs = [n \in NotifId |-> IF n \in due THEN Withdrawn(rows[n]) ELSE @[n]],
                 ![s].log    = @ \union {NotifEntry(seqOf[n], n, "delete", Withdrawn(rows[n]), o)
                                          : n \in due}]
  BY DEF Withdraw
<1> DEFINE new == {NotifEntry(seqOf[n], n, "delete", Withdrawn(rows[n]), o) : n \in due}
<1>3. \A l \in new : l.type = "notification"
  <2> HIDE DEF due, rows
  <2> QED BY DEF NotifEntry
<1>4. tx' = [tx EXCEPT ![s].pc = pc, ![s].notifs = kept, ![s].log = @ \union new]
  BY <1>2
<1> HIDE DEF pc, kept, new
<1>5. /\ \A r \in Session \ {s} : tx'[r] = tx[r]
      /\ tx'[s].events = tx[s].events /\ tx'[s].log = tx[s].log \union new
  BY <1>1, <1>4 DEF Transaction
<1> QED BY <1>1, <1>3, <1>5, NotificationsKeepVersions
-----------------------------------------------------------------------------
(* The commit *)

\* What a session publishes of an event it has written is newer than all that
\* is in the log of it.
LEMMA CommitKeepsVersions ==
  ASSUME Typed, FeedInv, VersionInv, NEW s \in Session, Commit(s)
  PROVE  VersionInv'
<1>1. /\ tx \in [Session -> Transaction] /\ tx' = [tx EXCEPT ![s] = NoTx]
      /\ log' = log \union tx[s].log /\ nextSeq \in Nat
      /\ \A e \in Event : events'[e] = IF tx[s].events[e] # NoRow THEN tx[s].events[e] ELSE events[e]
  BY DEF Commit, Typed, TypeOK, Over
<1>2. tx'[s] = NoTx /\ \A r \in Session \ {s} : tx'[r] = tx[r]
  BY <1>1
<1> HIDE DEF NoTx
<1>3. \A r \in Session : SessionVersions(r)'
  BY <1>2, NoTxIsEmpty DEF VersionInv, SessionVersions
<1>4. ASSUME NEW e \in Event, events'[e] # NoRow
      PROVE  \E l \in log' : Newest(l, e, log') /\ l.payload.version = events'[e].version
  <2>1. CASE tx[s].events[e] # NoRow
    <3>1. PICK l \in tx[s].log : /\ Newest(l, e, tx[s].log)
                                 /\ l.payload.version = tx[s].events[e].version
      BY <2>1 DEF VersionInv, SessionVersions
    <3>2. \A m \in log : ChangeOf(m, e) => m.seq < l.seq
      BY <3>1 DEF Newest, ChangeOf, FeedInv, PendingIsNewest
    <3>3. \A m \in log : m.seq \in Int /\ l.seq \in Int
      BY <1>1 DEF FeedInv, NumbersAreDistinct
    <3>4. Newest(l, e, log')
      BY <1>1, <3>1, <3>2, <3>3 DEF Newest
    <3> QED BY <1>1, <2>1, <3>1, <3>4
  <2>2. CASE tx[s].events[e] = NoRow
    <3>1. \A m \in tx[s].log : ~ChangeOf(m, e)
      BY <2>2 DEF VersionInv, SessionVersions
    <3>2. PICK l \in log : Newest(l, e, log) /\ l.payload.version = events[e].version
      BY <1>1, <1>4, <2>2 DEF VersionInv
    <3>3. Newest(l, e, log')
      BY <1>1, <3>1, <3>2 DEF Newest
    <3> QED BY <1>1, <2>2, <3>2, <3>3
  <2> QED BY <2>1, <2>2
<1> QED BY <1>3, <1>4 DEF VersionInv

LEMMA InitVersions == Init => VersionInv
<1> SUFFICES ASSUME Init PROVE VersionInv
  OBVIOUS
<1>1. /\ \A e \in Event : events[e] = NoRow
      /\ \A s \in Session : tx[s].log = {} /\ \A e \in Event : tx[s].events[e] = NoRow
  BY NoTxIsEmpty DEF Init
<1> QED BY <1>1 DEF VersionInv, SessionVersions

LEMMA NextKeepsVersions == Typed /\ FeedInv /\ VersionInv /\ [Next]_vars => VersionInv'
<1> SUFFICES ASSUME Typed, FeedInv, VersionInv, [Next]_vars PROVE VersionInv'
  OBVIOUS
<1>1. ASSUME NEW s \in Session,
             \/ \E o \in Op : Begin(s, o) \/ TakeOp(s, o)
             \/ Lookup(s) \/ Read(s) \/ Record(s) \/ Abort(s)
      PROVE  VersionInv'
  BY <1>1, QuietSteps, QuietKeepsVersions
<1>2. ASSUME NEW s \in Session, Write(s) \/ Announce(s) \/ Withdraw(s) \/ Commit(s)
      PROVE  VersionInv'
  BY <1>2, WriteKeepsVersions, AnnounceKeepsVersions, WithdrawKeepsVersions, CommitKeepsVersions
<1>3. CASE Tick \/ UNCHANGED vars
  BY <1>3 DEF Tick, tables, vars, VersionInv, SessionVersions
<1> QED BY <1>1, <1>2, <1>3 DEF Next

\* The change of an event that a phone applies last has the version that the
\* next edit is compared with (the 409 of patch_event and of the outbox), so
\* a phone that is up to date is not refused.
THEOREM PhonesGetTheVersion == Spec => []LastChangeHasVersion
<1>1. Typed /\ FeedInv /\ VersionInv => LastChangeHasVersion
  <2> SUFFICES ASSUME Typed, FeedInv, VersionInv, NEW e \in Event, events[e] # NoRow
               PROVE  LastChange(e).payload.version = events[e].version
    BY DEF LastChangeHasVersion
  <2>1. PICK l \in log : Newest(l, e, log) /\ l.payload.version = events[e].version
    BY DEF VersionInv
  <2>2. \A m \in log : m.seq \in Int
    BY DEF Typed, TypeOK, FeedInv, NumbersAreDistinct
  <2>3. \A m \in log : Newest(m, e, log) => m = l
    BY <2>1, <2>2 DEF Newest, FeedInv, NumbersAreDistinct
  <2>4. LastChange(e) = CHOOSE m \in log : Newest(m, e, log)
    BY DEF LastChange, Newest, ChangeOf
  <2>5. Newest(LastChange(e), e, log) /\ LastChange(e) \in log
    BY <2>1, <2>4
  <2> QED BY <2>1, <2>3, <2>5
<1>2. Init => Typed /\ FeedInv /\ VersionInv
  BY InitTyped, InitFeed, InitVersions
<1>3. Typed /\ FeedInv /\ VersionInv /\ [Next]_vars => (Typed /\ FeedInv /\ VersionInv)'
  BY NextTyped, NextKeepsFeed, NextKeepsVersions
<1> QED BY <1>1, <1>2, <1>3, PTL DEF Spec

-----------------------------------------------------------------------------
(***************************************************************************)
(* 5. Deletions                                                            *)
(*                                                                         *)
(* What deleting an event does to its notifications, for any number of     *)
(* requests in progress: none of them is left waiting for its delivery.    *)
(***************************************************************************)

\* The event and the notification rows as session s sees them.
EventOf(s, e)  == IF tx[s].events[e] # NoRow THEN tx[s].events[e] ELSE events[e]
NotifOf(s, n)  == IF tx[s].notifs[n] # NoRow THEN tx[s].notifs[n] ELSE notifs[n]

LEMMA ViewOf ==
  ASSUME Typed, NEW s \in Session
  PROVE  /\ \A e \in Event : VisibleEvent(s, e) = EventOf(s, e)
         /\ \A n \in NotifId : VisibleNotifs(s)[n] = NotifOf(s, n)
  BY DEF Typed, TypeOK, VisibleEvent, VisibleNotifs, Over, EventOf, NotifOf

\* A notification is of an event that exists.
OwnersExist == \A n \in NotifId : notifs[n] # NoRow => events[notifs[n].event] # NoRow

Settled(row) == row.deleted \/ row.deliverAfter <= now

\* What the lock protects: a session that holds the row of a deleted event sees
\* none of its notifications waiting, except while it is itself about to
\* withdraw them.
SeesNonePending(s) ==
  \A e \in tx[s].locks :
    /\ EventOf(s, e) # NoRow /\ EventOf(s, e).deleted
    /\ ~(tx[s].pc = "withdraw" /\ tx[s].op.event = e)
    => \A n \in NotifId : NotifOf(s, n) # NoRow /\ NotifOf(s, n).event = e
                            => Settled(NotifOf(s, n))

SessionOK(s) ==
  /\ \A e \in Event : tx[s].events[e] # NoRow =>
       /\ e \in tx[s].locks
       /\ events[e] # NoRow /\ events[e].deleted => tx[s].events[e].deleted
  /\ \A n \in NotifId : tx[s].notifs[n] # NoRow =>
       EventOf(s, tx[s].notifs[n].event) # NoRow
  /\ tx[s].pc = "write" /\ tx[s].op.kind = "create" => ~tx[s].mem.deleted
  /\ tx[s].pc = "announce" => EventOf(s, tx[s].op.event) # NoRow
  /\ SeesNonePending(s)

\* The inductive invariant, beside Typed and FeedInv.
DeletionInv ==
  OwnersExist /\ NothingPendingOfDeleted /\ \A s \in Session : SessionOK(s)

-----------------------------------------------------------------------------
\* A step that leaves a session alone, and all that it reads.
LEMMA SessionStays ==
  ASSUME NEW s \in Session, SessionOK(s), UNCHANGED <<events, notifs, now>>, tx'[s] = tx[s]
  PROVE  SessionOK(s)'
<1>1. /\ \A e : EventOf(s, e)' = EventOf(s, e)
      /\ \A n : NotifOf(s, n)' = NotifOf(s, n)
  BY DEF EventOf, NotifOf
<1>2. SeesNonePending(s)'
  BY <1>1 DEF SessionOK, SeesNonePending, Settled
<1>3. \A e \in Event : tx'[s].events[e] # NoRow =>
        /\ e \in tx'[s].locks
        /\ events'[e] # NoRow /\ events'[e].deleted => tx'[s].events[e].deleted
  BY DEF SessionOK
<1>4. (\A n \in NotifId : tx[s].notifs[n] # NoRow => EventOf(s, tx[s].notifs[n].event) # NoRow)'
  BY <1>1 DEF SessionOK
<1>5. (/\ tx[s].pc = "write" /\ tx[s].op.kind = "create" => ~tx[s].mem.deleted
       /\ tx[s].pc = "announce" => EventOf(s, tx[s].op.event) # NoRow)'
  BY <1>1 DEF SessionOK
<1> QED BY <1>2, <1>3, <1>4, <1>5 DEF SessionOK

\* A step that touches only what session s has pending.
LEMMA OneSession ==
  ASSUME DeletionInv, NEW s \in Session,
         \A r \in Session \ {s} : tx'[r] = tx[r],
         UNCHANGED <<events, notifs, now>>, SessionOK(s)'
  PROVE  DeletionInv'
<1>1. OwnersExist' /\ NothingPendingOfDeleted'
  BY DEF DeletionInv, OwnersExist, NothingPendingOfDeleted
<1>2. \A r \in Session : SessionOK(r)'
  <2> TAKE r \in Session
  <2>1. CASE r = s
    BY <2>1
  <2>2. CASE r # s
    <3>1. SessionOK(r) /\ tx'[r] = tx[r]
      BY <2>2 DEF DeletionInv
    <3> QED BY <3>1, SessionStays
  <2> QED BY <2>1, <2>2
<1> QED BY <1>1, <1>2 DEF DeletionInv

\* A transaction that ends.
LEMMA EndsOK ==
  ASSUME Typed, NEW s \in Session, tx'[s] = NoTx
  PROVE  SessionOK(s)'
<1>1. NoTx.pc = "idle" /\ NoTx.locks = {} /\ \A e \in Event : NoTx.events[e] = NoRow
  BY DEF NoTx
<1> QED BY <1>1, NoTxIsEmpty DEF SessionOK, SeesNonePending

\* A step that changes neither the rows nor the locks of a session.
LEMMA MovesOK ==
  ASSUME DeletionInv, NEW s \in Session, UNCHANGED <<events, notifs, now>>,
         tx'[s].events = tx[s].events, tx'[s].notifs = tx[s].notifs,
         tx'[s].locks = tx[s].locks, tx[s].pc # "withdraw", tx'[s].pc # "withdraw",
         tx'[s].pc = "write" /\ tx'[s].op.kind = "create" => ~tx'[s].mem.deleted,
         tx'[s].pc = "announce" => EventOf(s, tx'[s].op.event) # NoRow
  PROVE  SessionOK(s)'
<1>1. /\ \A e : EventOf(s, e)' = EventOf(s, e)
      /\ \A n : NotifOf(s, n)' = NotifOf(s, n)
  BY DEF EventOf, NotifOf
<1>2. SeesNonePending(s)'
  BY <1>1 DEF DeletionInv, SessionOK, SeesNonePending, Settled
<1>3. SessionOK(s)
  BY DEF DeletionInv
<1>4. \A e \in Event : tx'[s].events[e] # NoRow =>
        /\ e \in tx'[s].locks
        /\ events'[e] # NoRow /\ events'[e].deleted => tx'[s].events[e].deleted
  BY <1>3 DEF SessionOK
<1>5. (\A n \in NotifId : tx[s].notifs[n] # NoRow => EventOf(s, tx[s].notifs[n].event) # NoRow)'
  BY <1>1, <1>3 DEF SessionOK
<1>6. (/\ tx[s].pc = "write" /\ tx[s].op.kind = "create" => ~tx[s].mem.deleted
       /\ tx[s].pc = "announce" => EventOf(s, tx[s].op.event) # NoRow)'
  BY <1>1
<1> QED BY <1>2, <1>4, <1>5, <1>6 DEF SessionOK
-----------------------------------------------------------------------------
(* The steps that write nothing *)

\* Of one session, from the record it had to the record r.
LEMMA SetTxKeepsDeletion ==
  ASSUME Typed, DeletionInv, NEW s \in Session, NEW r,
         tx' = [tx EXCEPT ![s] = r], UNCHANGED <<events, notifs, now>>,
         \/ r = NoTx
         \/ /\ r.events = tx[s].events /\ r.notifs = tx[s].notifs /\ r.locks = tx[s].locks
            /\ tx[s].pc # "withdraw" /\ r.pc # "withdraw"
            /\ r.pc = "write" /\ r.op.kind = "create" => ~r.mem.deleted
            /\ r.pc = "announce" => EventOf(s, r.op.event) # NoRow
  PROVE  DeletionInv'
<1>1. tx'[s] = r /\ \A q \in Session \ {s} : tx'[q] = tx[q]
  BY DEF Typed, TypeOK
<1>2. SessionOK(s)'
  <2>1. CASE r = NoTx
    BY <1>1, <2>1, EndsOK
  <2>2. CASE r # NoTx
    BY <1>1, <2>2, MovesOK
  <2> QED BY <2>1, <2>2
<1> QED BY <1>1, <1>2, OneSession

LEMMA RollbackKeepsDeletion ==
  ASSUME Typed, DeletionInv, NEW s \in Session, Rollback(s), UNCHANGED <<events, notifs, now>>
  PROVE  DeletionInv'
  BY SetTxKeepsDeletion DEF Rollback

LEMMA RefuseKeepsDeletion ==
  ASSUME Typed, DeletionInv, NEW s \in Session, NEW a, Refuse(s, a),
         tx[s].pc # "withdraw", UNCHANGED <<events, notifs, now>>
  PROVE  DeletionInv'
<1> DEFINE r == [tx[s] EXCEPT !.pc = "record", !.res = a]
<1>1. tx[s] \in Transaction
  BY DEF Typed, TypeOK
<1>2. /\ r.events = tx[s].events /\ r.notifs = tx[s].notifs /\ r.locks = tx[s].locks
      /\ r.pc = "record"
  BY <1>1 DEF Transaction
<1>3. tx' = [tx EXCEPT ![s] = NoTx] \/ tx' = [tx EXCEPT ![s] = r]
  BY DEF Refuse
<1> HIDE DEF r
<1> QED BY <1>2, <1>3, SetTxKeepsDeletion

LEMMA BeginKeepsDeletion ==
  ASSUME Typed, DeletionInv, NEW s \in Session, NEW o \in Op, Begin(s, o)
  PROVE  DeletionInv'
<1> DEFINE pc == IF o.via = "sync" THEN "lookup" ELSE "read"
<1>1. PICK e \in Event :
        tx' = [tx EXCEPT ![s] = [NoTx EXCEPT !.pc = pc, !.op = [o EXCEPT !.event = e]]]
  BY DEF Begin
<1> DEFINE p == [o EXCEPT !.event = e]
           r == [NoTx EXCEPT !.pc = pc, !.op = p]
<1>2. UNCHANGED <<events, notifs, now>>
  BY DEF Begin, tables
<1>3. pc \in {"lookup", "read"}
  OBVIOUS
<1> HIDE DEF pc, p
<1>4. r.pc = pc /\ r.events = NoTx.events /\ r.notifs = NoTx.notifs /\ r.locks = NoTx.locks
  BY NoTxTyped DEF Transaction
<1>5. \A e2 \in Event : NoTx.events[e2] = NoRow
  BY DEF NoTx
<1>6. tx'[s] = r /\ \A q \in Session \ {s} : tx'[q] = tx[q]
  BY <1>1 DEF Typed, TypeOK, p
<1> HIDE DEF r
<1>7. SessionOK(s)'
  BY <1>3, <1>4, <1>5, <1>6, NoTxIsEmpty DEF SessionOK, SeesNonePending
<1> QED BY <1>2, <1>6, <1>7, OneSession

LEMMA TakeOpKeepsDeletion ==
  ASSUME Typed, DeletionInv, NEW s \in Session, NEW o \in Op, TakeOp(s, o)
  PROVE  DeletionInv'
<1> DEFINE r == [tx[s] EXCEPT !.pc = "lookup", !.op = o, !.mem = NoRow, !.res = NoRow]
<1>1. tx \in [Session -> Transaction] /\ tx[s].pc = "next" /\ UNCHANGED <<events, notifs, now>>
  BY DEF Typed, TypeOK, TakeOp, tables
<1>2. tx' = [tx EXCEPT ![s] = r]
  BY <1>1 DEF TakeOp
<1>3. /\ r.events = tx[s].events /\ r.notifs = tx[s].notifs /\ r.locks = tx[s].locks
      /\ r.pc = "lookup"
  BY <1>1 DEF Transaction
<1> HIDE DEF r
<1> QED BY <1>1, <1>2, <1>3, SetTxKeepsDeletion

LEMMA LookupKeepsDeletion ==
  ASSUME Typed, DeletionInv, NEW s \in Session, Lookup(s)
  PROVE  DeletionInv'
<1> DEFINE pc == IF VisibleAnswer(s) # NoRow THEN "next" ELSE "read"
           done == IF VisibleAnswer(s) # NoRow THEN tx[s].done + 1 ELSE tx[s].done
           r == [tx[s] EXCEPT !.pc = pc, !.res = VisibleAnswer(s), !.done = done]
<1>1. tx \in [Session -> Transaction] /\ tx[s].pc = "lookup" /\ UNCHANGED <<events, notifs, now>>
  BY DEF Typed, TypeOK, Lookup, tables
<1>2. tx' = [tx EXCEPT ![s] = r]
  BY <1>1 DEF Lookup
<1>3. pc \in {"next", "read"}
  OBVIOUS
<1> HIDE DEF pc, done
<1>4. /\ r.events = tx[s].events /\ r.notifs = tx[s].notifs /\ r.locks = tx[s].locks
      /\ r.pc = pc
  BY <1>1 DEF Transaction
<1> HIDE DEF r
<1> QED BY <1>1, <1>2, <1>3, <1>4, SetTxKeepsDeletion

LEMMA RecordKeepsDeletion ==
  ASSUME Typed, DeletionInv, NEW s \in Session, Record(s)
  PROVE  DeletionInv'
<1>1. tx \in [Session -> Transaction] /\ tx[s].pc = "record" /\ UNCHANGED <<events, notifs, now>>
  BY DEF Typed, TypeOK, Record, tables
<1>2. CASE applied[tx[s].op] # NoRow
  BY <1>1, <1>2, RollbackKeepsDeletion DEF Record
<1>3. CASE applied[tx[s].op] = NoRow
  <2> DEFINE answers == [tx[s].applied EXCEPT ![tx[s].op] = tx[s].res]
             r == [tx[s] EXCEPT !.pc = "next", !.done = tx[s].done + 1, !.applied = answers]
  <2>1. tx' = [tx EXCEPT ![s] = r]
    BY <1>1, <1>3 DEF Record, Transaction
  <2> HIDE DEF answers
  <2>2. /\ r.events = tx[s].events /\ r.notifs = tx[s].notifs /\ r.locks = tx[s].locks
        /\ r.pc = "next"
    BY <1>1 DEF Transaction
  <2> HIDE DEF r
  <2> QED BY <1>1, <2>1, <2>2, SetTxKeepsDeletion
<1> QED BY <1>2, <1>3

LEMMA ReadKeepsDeletion ==
  ASSUME Typed, DeletionInv, NEW s \in Session, Read(s)
  PROVE  DeletionInv'
<1> DEFINE o == tx[s].op
           row == VisibleEvent(s, o.event)
           r(pc, mem) == [tx[s] EXCEPT !.pc = pc, !.mem = mem]
<1>1. /\ tx \in [Session -> Transaction] /\ tx[s].pc = "read" /\ StepOK(tx[s])
      /\ UNCHANGED <<events, notifs, now>>
  BY DEF Typed, TypeOK, Read, tables
<1>2. o.event \in Event
  BY <1>1 DEF StepOK, OpOK, OpRecord
<1>3. row = EventOf(s, o.event)
  BY <1>2, ViewOf
<1>4. \A pc, mem : /\ r(pc, mem).events = tx[s].events /\ r(pc, mem).notifs = tx[s].notifs
                  /\ r(pc, mem).locks = tx[s].locks
                  /\ r(pc, mem).op = o /\ r(pc, mem).pc = pc /\ r(pc, mem).mem = mem
  BY <1>1 DEF Transaction
<1>5. \/ \E a : Refuse(s, a)
      \/ o.kind = "create" /\ tx' = [tx EXCEPT ![s].pc = "write", ![s].mem = NewEvent(o)]
      \/ o.kind # "create" /\ tx' = [tx EXCEPT ![s].pc = "write", ![s].mem = row]
      \/ row # NoRow /\ tx' = [tx EXCEPT ![s].pc = "announce", ![s].mem = row]
      \/ \E res : tx' = [tx EXCEPT ![s].pc = "record", ![s].res = res]
  <2>1. CASE o.kind = "create"
    BY <2>1, Zenon DEF Read
  <2>2. CASE o.kind = "update"
    BY <2>2, Zenon DEF Read
  <2>3. CASE o.kind = "delete"
    BY <2>3, Zenon DEF Read
  <2>4. CASE o.kind = "notify"
    BY <2>4, Zenon DEF Read
  <2>5. CASE o.kind = "other"
    BY <2>5, Zenon DEF Read
  <2>6. o.kind \in {"create", "update", "delete", "notify", "other"}
    BY DEF Read
  <2> QED BY <2>1, <2>2, <2>3, <2>4, <2>5, <2>6
<1>6. CASE \E a : Refuse(s, a)
  BY <1>1, <1>6, RefuseKeepsDeletion
<1>7. ASSUME NEW pc, NEW mem, tx' = [tx EXCEPT ![s].pc = pc, ![s].mem = mem],
             pc \in {"write", "announce"},
             pc = "write" /\ o.kind = "create" => ~mem.deleted,
             pc = "announce" => row # NoRow
      PROVE  DeletionInv'
  <2> DEFINE q == r(pc, mem)
  <2>1. tx' = [tx EXCEPT ![s] = q]
    BY <1>1, <1>7
  <2>2. /\ q.events = tx[s].events /\ q.notifs = tx[s].notifs /\ q.locks = tx[s].locks
        /\ q.op = o /\ q.pc = pc /\ q.mem = mem
    BY <1>4
  <2> HIDE DEF q
  <2>3. q.pc = "announce" => EventOf(s, q.op.event) # NoRow
    BY <1>3, <1>7, <2>2
  <2>4. q.pc = "write" /\ q.op.kind = "create" => ~q.mem.deleted
    BY <1>7, <2>2, Zenon
  <2>5. tx[s].pc # "withdraw" /\ q.pc # "withdraw"
    BY <1>1, <1>7, <2>2
  <2> QED BY <1>1, <2>1, <2>2, <2>3, <2>4, <2>5, SetTxKeepsDeletion, Zenon
<1>8. CASE o.kind = "create" /\ tx' = [tx EXCEPT ![s].pc = "write", ![s].mem = NewEvent(o)]
  <2>1. ~NewEvent(o).deleted
    BY DEF NewEvent
  <2> QED BY <1>7, <1>8, <2>1
<1>9. CASE o.kind # "create" /\ tx' = [tx EXCEPT ![s].pc = "write", ![s].mem = row]
  BY <1>7, <1>9
<1>10. CASE row # NoRow /\ tx' = [tx EXCEPT ![s].pc = "announce", ![s].mem = row]
  BY <1>7, <1>10
<1>11. ASSUME NEW res, tx' = [tx EXCEPT ![s].pc = "record", ![s].res = res]
       PROVE  DeletionInv'
  <2> DEFINE q == [tx[s] EXCEPT !.pc = "record", !.res = res]
  <2>1. tx' = [tx EXCEPT ![s] = q]
    BY <1>1, <1>11
  <2>2. /\ q.events = tx[s].events /\ q.notifs = tx[s].notifs /\ q.locks = tx[s].locks
        /\ q.pc = "record"
    BY <1>1 DEF Transaction
  <2> HIDE DEF q
  <2> QED BY <1>1, <2>1, <2>2, SetTxKeepsDeletion
<1> QED BY <1>5, <1>6, <1>8, <1>9, <1>10, <1>11

-----------------------------------------------------------------------------
(* The steps that write *)

\* What session s sees of a row that it is about to lock is what is committed,
\* unless it has locked it before: nothing of a deleted event is waiting.
LEMMA NonePendingUnlocked ==
  ASSUME Typed, FeedInv, DeletionInv, NEW s \in Session, NEW e \in Event,
         EventOf(s, e) # NoRow, EventOf(s, e).deleted,
         ~(tx[s].pc = "withdraw" /\ tx[s].op.event = e),
         NEW n \in NotifId, NotifOf(s, n) # NoRow, NotifOf(s, n).event = e
  PROVE  Settled(NotifOf(s, n))
<1>1. CASE e \in tx[s].locks
  BY <1>1 DEF DeletionInv, SessionOK, SeesNonePending
<1>2. CASE e \notin tx[s].locks
  <2>1. tx[s].events[e] = NoRow
    BY <1>2 DEF DeletionInv, SessionOK
  <2>2. tx[s].notifs[n] = NoRow
    BY <1>2 DEF FeedInv, WritesUnderLock, NotifOf
  <2> QED BY <2>1, <2>2 DEF EventOf, NotifOf, DeletionInv, NothingPendingOfDeleted, Settled
<1> QED BY <1>1, <1>2

\* A write neither revives an event nor adds a notification; the deletion goes
\* on to withdraw them.
LEMMA WriteKeepsDeletion ==
  ASSUME Typed, FeedInv, DeletionInv, NEW s \in Session, Write(s)
  PROVE  DeletionInv'
<1> DEFINE o == tx[s].op
           e == o.event
           new == Edited(o, tx[s].mem)
           entry == EventEntry(nextSeq, e, IF o.kind = "delete" THEN "delete" ELSE "upsert",
                               Snapshot(o, tx[s].mem), o)
           pc == CASE o.kind = "create" -> "announce"
                   [] o.kind = "update" -> IF News(tx[s].mem, new) # {} THEN "announce" ELSE AfterOp(o)
                   [] o.kind = "delete" -> "withdraw"
           res == Answer("applied", new.version, nextSeq)
           row == IF o.kind = "create" THEN new
                  ELSE Stored(VisibleEvent(s, e), tx[s].mem, new)
<1>1. /\ tx \in [Session -> Transaction] /\ StepOK(tx[s]) /\ tx[s].pc = "write"
      /\ UNCHANGED <<events, notifs, now>>
  BY DEF Write, Typed, TypeOK, tables
<1>2. e \in Event /\ o.kind \in {"create", "update", "delete"}
  BY <1>1 DEF StepOK, OpOK, OpRecord
<1>3. CASE o.kind = "create" /\ events[e] # NoRow
  BY <1>1, <1>3, RollbackKeepsDeletion DEF Write
<1>4. CASE ~(o.kind = "create" /\ events[e] # NoRow)
  <2>1. tx' = [tx EXCEPT ![s].pc = pc, ![s].res = res, ![s].locks = @ \union {e},
                         ![s].events[e] = row, ![s].log = @ \union {entry}]
    BY <1>4 DEF Write
  <2>2. /\ o.kind = "create" => ~row.deleted
        /\ o.kind = "update" => row.deleted = EventOf(s, e).deleted /\ EventOf(s, e) # NoRow
    <3>1. o.kind = "create" => ~row.deleted
      BY <1>1 DEF Edited, DeletionInv, SessionOK
    <3>2. o.kind = "update" => VisibleEvent(s, e) = EventOf(s, e) /\ EventOf(s, e) # NoRow
      BY <1>1, <1>2, ViewOf DEF StepOK, VisibleEvent
    <3>3. o.kind = "update" => row.deleted = VisibleEvent(s, e).deleted
      BY DEF Edited, Stored
    <3> QED BY <3>1, <3>2, <3>3
  <2>10. o.kind = "delete" /\ VisibleEvent(s, e).deleted => row.deleted
    BY DEF Edited, Stored
  <2>3. row # NoRow
    <3>1. tx[s].mem \in Row /\ OpOK(o) /\ (o.kind # "create" => VisibleEvent(s, e) # NoRow)
      BY <1>1, <1>2 DEF StepOK, VisibleEvent
    <3>2. new \in Row
      BY <1>2, <3>1, EditedType
    <3>3. o.kind # "create" => VisibleEvent(s, e) \in Row
      BY <1>2, <3>1, VisibleTypes
    <3>4. row \in Row
      BY <3>1, <3>2, <3>3, StoredType
    <3> QED BY <3>4, NoRowAssumption
  <2>4. pc = "withdraw" <=> o.kind = "delete"
    BY <1>2 DEF AfterOp
  <2>5. pc # "write"
    BY <1>2 DEF AfterOp
  <2> HIDE DEF pc, res, row, entry
  <2>6. /\ \A q \in Session \ {s} : tx'[q] = tx[q]
        /\ tx'[s].locks = tx[s].locks \union {e}
        /\ tx'[s].op = o /\ tx'[s].pc = pc
        /\ tx'[s].notifs = tx[s].notifs
        /\ \A d \in Event : tx'[s].events[d] = IF d = e THEN row ELSE tx[s].events[d]
    BY <1>1, <2>1 DEF Transaction
  <2>7. /\ \A d \in Event : EventOf(s, d)' = IF d = e THEN row ELSE EventOf(s, d)
        /\ \A n \in NotifId : NotifOf(s, n)' = NotifOf(s, n)
    BY <1>1, <2>3, <2>6 DEF EventOf, NotifOf
  <2>8. SeesNonePending(s)'
    <3> SUFFICES ASSUME NEW d \in tx'[s].locks, NEW n \in NotifId,
                        EventOf(s, d)' # NoRow, EventOf(s, d)'.deleted,
                        ~(tx'[s].pc = "withdraw" /\ tx'[s].op.event = d),
                        NotifOf(s, n)' # NoRow, NotifOf(s, n)'.event = d
                 PROVE  Settled(NotifOf(s, n))'
      BY DEF SeesNonePending
    <3>1. d \in Event
      BY <1>1, <1>2, <2>6 DEF Transaction
    <3>2. CASE d # e
      <4>1. Settled(NotifOf(s, n))
        BY <1>1, <2>7, <3>1, <3>2, NonePendingUnlocked
      <4> QED BY <1>1, <2>7, <4>1 DEF Settled
    <3>3. CASE d = e
      <4>1. o.kind = "update"
        BY <1>2, <2>2, <2>4, <2>6, <2>7, <3>1, <3>3
      <4>2. Settled(NotifOf(s, n))
        BY <1>1, <2>2, <2>7, <3>1, <3>3, <4>1, NonePendingUnlocked
      <4> QED BY <1>1, <2>7, <4>2 DEF Settled
    <3> QED BY <3>2, <3>3
  <2>9. SessionOK(s)'
    <3>1. \A d \in Event : tx'[s].events[d] # NoRow => d \in tx'[s].locks
      BY <2>6 DEF DeletionInv, SessionOK
    <3>4. events[e] # NoRow /\ events[e].deleted => row.deleted
      <4> HAVE events[e] # NoRow /\ events[e].deleted
      <4>1. EventOf(s, e) # NoRow /\ EventOf(s, e).deleted
        BY <1>2 DEF EventOf, DeletionInv, SessionOK
      <4>2. o.kind # "create"
        BY <1>4
      <4>3. VisibleEvent(s, e).deleted
        BY <1>2, <4>1, ViewOf
      <4> QED BY <1>2, <2>2, <2>10, <4>1, <4>2, <4>3
    <3>5. \A d \in Event : tx'[s].events[d] # NoRow =>
            (events'[d] # NoRow /\ events'[d].deleted => tx'[s].events[d].deleted)
      BY <1>1, <2>6, <3>4 DEF DeletionInv, SessionOK
    <3>2. \A n \in NotifId : tx'[s].notifs[n] # NoRow => EventOf(s, tx[s].notifs[n].event)' # NoRow
      <4> TAKE n \in NotifId
      <4> HAVE tx'[s].notifs[n] # NoRow
      <4>1. tx[s].notifs[n] # NoRow /\ EventOf(s, tx[s].notifs[n].event) # NoRow
        BY <2>6 DEF DeletionInv, SessionOK
      <4>2. tx[s].notifs[n].event \in Event
        BY <1>1, <4>1 DEF Transaction, NotifRow
      <4>3. PICK d \in Event : d = tx[s].notifs[n].event
        BY <4>2
      <4>4. EventOf(s, d)' # NoRow
        BY <2>3, <2>7, <4>1, <4>3
      <4> QED BY <2>6, <4>3, <4>4
    <3> QED BY <1>2, <2>3, <2>5, <2>6, <2>7, <2>8, <3>1, <3>2, <3>5 DEF SessionOK
  <2> QED BY <1>1, <2>6, <2>9, OneSession
<1> QED BY <1>3, <1>4
\* A session sees the event of every notification it sees.
LEMMA OwnerSeen ==
  ASSUME Typed, DeletionInv, NEW s \in Session, NEW n \in NotifId, NotifOf(s, n) # NoRow
  PROVE  NotifOf(s, n).event \in Event /\ EventOf(s, NotifOf(s, n).event) # NoRow
<1>1. tx[s] \in Transaction /\ notifs \in [NotifId -> NotifRow \union {NoRow}]
  BY DEF Typed, TypeOK
<1>2. CASE tx[s].notifs[n] # NoRow
  BY <1>1, <1>2 DEF NotifOf, DeletionInv, SessionOK, Transaction, NotifRow
<1>3. CASE tx[s].notifs[n] = NoRow
  BY <1>1, <1>3 DEF NotifOf, EventOf, DeletionInv, OwnersExist, NotifRow
<1> QED BY <1>2, <1>3

\* announce writes only to an event that it has found, under the lock, not
\* deleted.
LEMMA PutKeepsDeletion ==
  ASSUME Typed, FeedInv, DeletionInv, NEW s \in Session, tx[s].pc = "announce",
         ~VisibleEvent(s, tx[s].op.event).deleted,
         NEW n \in NotifId, NEW row \in NotifRow, row.event = tx[s].op.event,
         Put(s, n, row), UNCHANGED <<events, notifs, now>>
  PROVE  DeletionInv'
<1> DEFINE o == tx[s].op
           e == o.event
           entry == NotifEntry(nextSeq, n, "upsert", row, o)
           pc == AfterOp(o)
           res == IF o.kind = "notify" THEN Answer("applied", row.version, 0) ELSE tx[s].res
<1>1. tx \in [Session -> Transaction] /\ StepOK(tx[s])
  BY DEF Typed, TypeOK
<1>2. e \in Event /\ row # NoRow
  BY <1>1, NoRowAssumption DEF StepOK, OpOK, OpRecord
<1>3. EventOf(s, e) # NoRow /\ ~EventOf(s, e).deleted
  BY <1>2, ViewOf DEF DeletionInv, SessionOK
<1>4. tx' = [tx EXCEPT ![s].pc = pc, ![s].res = res, ![s].locks = @ \union {e},
                       ![s].notifs[n] = row, ![s].log = @ \union {entry}]
  BY DEF Put
<1>5. pc \in {"record", "next"}
  BY DEF AfterOp
<1> HIDE DEF pc, res, entry
<1>6. /\ \A q \in Session \ {s} : tx'[q] = tx[q]
      /\ tx'[s].locks = tx[s].locks \union {e} /\ tx'[s].pc = pc
      /\ tx'[s].events = tx[s].events
      /\ \A m \in NotifId : tx'[s].notifs[m] = IF m = n THEN row ELSE tx[s].notifs[m]
  BY <1>1, <1>4 DEF Transaction
<1>7. /\ \A d : EventOf(s, d)' = EventOf(s, d)
      /\ \A m \in NotifId : NotifOf(s, m)' = IF m = n THEN row ELSE NotifOf(s, m)
  BY <1>2, <1>6 DEF EventOf, NotifOf
<1>8. SeesNonePending(s)'
  <2> SUFFICES ASSUME NEW d \in tx'[s].locks, NEW m \in NotifId,
                      EventOf(s, d)' # NoRow, EventOf(s, d)'.deleted,
                      NotifOf(s, m)' # NoRow, NotifOf(s, m)'.event = d
               PROVE  Settled(NotifOf(s, m))'
    BY DEF SeesNonePending
  <2>1. d \in Event /\ d # e
    BY <1>1, <1>2, <1>3, <1>6, <1>7 DEF Transaction
  <2>2. m # n
    BY <1>7, <2>1
  <2>3. Settled(NotifOf(s, m))
    BY <1>7, <2>1, <2>2, NonePendingUnlocked
  <2> QED BY <1>7, <2>2, <2>3 DEF Settled
<1>9. \A m \in NotifId : tx'[s].notifs[m] # NoRow => EventOf(s, tx'[s].notifs[m].event) # NoRow
  BY <1>2, <1>3, <1>6 DEF DeletionInv, SessionOK
<1>10. SessionOK(s)'
  BY <1>5, <1>6, <1>7, <1>8, <1>9 DEF DeletionInv, SessionOK
<1> QED BY <1>6, <1>10, OneSession

LEMMA AnnounceKeepsDeletion ==
  ASSUME Typed, FeedInv, DeletionInv, NEW s \in Session, Announce(s)
  PROVE  DeletionInv'
<1> DEFINE o == tx[s].op
           rows == VisibleNotifs(s)
           kind == NewsKind(o)
           changes == NewsChanges(o, tx[s].mem)
           text == NewsText(o)
<1>1. /\ tx[s] \in Transaction /\ StepOK(tx[s]) /\ tx[s].pc = "announce" /\ now \in Nat
      /\ UNCHANGED <<events, notifs, now>>
  BY DEF Announce, tables, Typed, TypeOK
<1>2. OpOK(o) /\ o.event \in Event /\ o.kind \in {"create", "update", "notify"}
  BY <1>1 DEF StepOK, OpOK, OpRecord
<1>3. kind \in Kinds /\ changes \in SUBSET Watched /\ text \in Val \union {NoMessage}
  BY <1>2, NewsTypes
<1>4. rows \in [NotifId -> NotifRow \union {NoRow}]
  BY VisibleTypes
<1>5. CASE VisibleEvent(s, o.event).deleted
  BY <1>1, <1>5, RefuseKeepsDeletion, RollbackKeepsDeletion DEF Announce
<1>6. CASE ~VisibleEvent(s, o.event).deleted
  <2>1. \/ \E n \in NotifId : /\ rows[n] # NoRow /\ Mergeable(rows[n], o.event, now)
                              /\ Put(s, n, Merge(rows[n], kind, changes, text))
        \/ \E n \in NotifId : Put(s, n, NewNotification(o.event, kind, changes, text, now))
    BY <1>6 DEF Announce
  <2> HIDE DEF kind, changes, text
  <2>2. ASSUME NEW n \in NotifId, rows[n] # NoRow, Mergeable(rows[n], o.event, now),
               Put(s, n, Merge(rows[n], kind, changes, text))
        PROVE  DeletionInv'
    <3>1. rows[n] \in NotifRow /\ rows[n].event = o.event
      BY <1>4, <2>2 DEF Mergeable
    <3> DEFINE row == Merge(rows[n], kind, changes, text)
    <3>2. row \in NotifRow /\ row.event = o.event
      BY <1>3, <3>1, NotificationTypes, EventOfNotification
    <3> HIDE DEF row
    <3>3. Put(s, n, row)
      BY <2>2 DEF row
    <3> QED BY <1>1, <1>6, <3>2, <3>3, PutKeepsDeletion
  <2>3. ASSUME NEW n \in NotifId, Put(s, n, NewNotification(o.event, kind, changes, text, now))
        PROVE  DeletionInv'
    <3> DEFINE row == NewNotification(o.event, kind, changes, text, now)
    <3>1. row \in NotifRow /\ row.event = o.event
      BY <1>1, <1>2, <1>3, NotificationTypes, EventOfNotification
    <3> HIDE DEF row
    <3>2. Put(s, n, row)
      BY <2>3 DEF row
    <3> QED BY <1>1, <1>6, <3>1, <3>2, PutKeepsDeletion
  <2> QED BY <2>1, <2>2, <2>3
<1> QED BY <1>5, <1>6

\* After the withdrawal nothing of the deleted event is waiting.
LEMMA WithdrawKeepsDeletion ==
  ASSUME Typed, FeedInv, DeletionInv, NEW s \in Session, Withdraw(s)
  PROVE  DeletionInv'
<1> DEFINE o == tx[s].op
           e == o.event
           rows == VisibleNotifs(s)
           due == {n \in NotifId : rows[n] # NoRow /\ Withdrawable(rows[n], e, now)}
           pc == AfterOp(o)
           kept == [n \in NotifId |-> IF n \in due THEN Withdrawn(rows[n]) ELSE tx[s].notifs[n]]
<1>1. /\ tx \in [Session -> Transaction] /\ tx[s].pc = "withdraw"
      /\ UNCHANGED <<events, notifs, now>>
  BY DEF Withdraw, tables, Typed, TypeOK
<1>2. PICK new :
        tx' = [tx EXCEPT ![s].pc = pc, ![s].notifs = kept, ![s].log = @ \union new]
  BY DEF Withdraw
<1>3. pc \in {"record", "next"}
  BY DEF AfterOp
<1>4. \A n \in NotifId : rows[n] = NotifOf(s, n)
  BY ViewOf
<1>5. \A n \in due : /\ n \in NotifId /\ rows[n] # NoRow /\ rows[n] \in NotifRow
                     /\ rows[n].event = e
  BY VisibleTypes DEF Withdrawable
<1>6. \A n \in NotifId \ due :
        NotifOf(s, n) # NoRow /\ NotifOf(s, n).event = e =>
          NotifOf(s, n).deleted \/ ~(NotifOf(s, n).deliverAfter > now)
  BY <1>4 DEF Withdrawable
<1>7. \A n \in NotifId : NotifOf(s, n) # NoRow => NotifOf(s, n).deliverAfter \in Nat /\ now \in Nat
  BY <1>1, VisibleTypes, <1>4 DEF NotifRow, Typed, TypeOK
<1> HIDE DEF due, rows
<1>8. \A n \in due : /\ Withdrawn(rows[n]) # NoRow /\ Withdrawn(rows[n]).event = e
                     /\ Withdrawn(rows[n]).deleted
  <2>1. \A n \in due : Withdrawn(rows[n]).deleted
    BY <1>5 DEF Withdrawn, NotifRow
  <2> QED BY <1>5, <2>1, NotificationTypes, EventOfNotification, NoRowAssumption
<1>9. \A n \in NotifId : kept[n] = IF n \in due THEN Withdrawn(rows[n]) ELSE tx[s].notifs[n]
  OBVIOUS
<1> HIDE DEF pc, kept
<1>10. /\ \A q \in Session \ {s} : tx'[q] = tx[q]
       /\ tx'[s].locks = tx[s].locks /\ tx'[s].pc = pc
       /\ tx'[s].events = tx[s].events /\ tx'[s].notifs = kept
  BY <1>1, <1>2 DEF Transaction
<1>11. /\ \A d : EventOf(s, d)' = EventOf(s, d)
       /\ \A n \in NotifId : NotifOf(s, n)' = IF n \in due THEN Withdrawn(rows[n]) ELSE NotifOf(s, n)
  BY <1>1, <1>8, <1>9, <1>10 DEF EventOf, NotifOf
<1>12. SeesNonePending(s)'
  <2> SUFFICES ASSUME NEW d \in tx'[s].locks, NEW n \in NotifId,
                      EventOf(s, d)' # NoRow, EventOf(s, d)'.deleted,
                      NotifOf(s, n)' # NoRow, NotifOf(s, n)'.event = d
               PROVE  Settled(NotifOf(s, n))'
    BY DEF SeesNonePending
  <2>1. d \in Event
    BY <1>1, <1>10 DEF Transaction
  <2>2. CASE n \in due
    BY <1>8, <1>11, <2>2 DEF Settled
  <2>3. CASE n \notin due /\ d = e
    BY <1>1, <1>6, <1>7, <1>11, <2>3 DEF Settled
  <2>4. CASE n \notin due /\ d # e
    <3>1. Settled(NotifOf(s, n))
      BY <1>11, <2>1, <2>4, NonePendingUnlocked
    <3> QED BY <1>1, <1>11, <2>4, <3>1 DEF Settled
  <2> QED BY <2>2, <2>3, <2>4
<1>13. \A n \in NotifId : kept[n] # NoRow => EventOf(s, kept[n].event) # NoRow
  <2> TAKE n \in NotifId
  <2> HAVE kept[n] # NoRow
  <2>1. CASE n \in due
    BY <1>4, <1>5, <1>8, <1>9, <2>1, OwnerSeen
  <2>2. CASE n \notin due
    BY <1>9, <2>2 DEF DeletionInv, SessionOK
  <2> QED BY <2>1, <2>2
<1>14. SessionOK(s)'
  BY <1>1, <1>3, <1>10, <1>11, <1>12, <1>13 DEF DeletionInv, SessionOK
<1> QED BY <1>1, <1>10, <1>14, OneSession
-----------------------------------------------------------------------------
(* The commit, and time *)

\* A commit publishes what its session sees; what the others have locked it
\* has not touched.
LEMMA CommitKeepsDeletion ==
  ASSUME Typed, FeedInv, DeletionInv, NEW s \in Session, Commit(s)
  PROVE  DeletionInv'
<1>1. /\ tx \in [Session -> Transaction] /\ tx[s].pc = "next" /\ now' = now
      /\ tx' = [tx EXCEPT ![s] = NoTx]
      /\ notifs \in [NotifId -> NotifRow \union {NoRow}]
  BY DEF Commit, Typed, TypeOK
<1>2. /\ tx'[s] = NoTx
      /\ \A r \in Session \ {s} : tx'[r] = tx[r]
  BY <1>1
<1>3. /\ \A e \in Event : events'[e] = EventOf(s, e)
      /\ \A n \in NotifId : notifs'[n] = NotifOf(s, n)
  BY DEF Commit, Typed, TypeOK, Over, EventOf, NotifOf
<1>4. OwnersExist'
  BY <1>3, OwnerSeen DEF OwnersExist
<1>5. NothingPendingOfDeleted'
  <2> SUFFICES ASSUME NEW n \in NotifId, notifs'[n] # NoRow, events'[notifs'[n].event].deleted
               PROVE  notifs'[n].deleted \/ notifs'[n].deliverAfter <= now'
    BY DEF NothingPendingOfDeleted
  <2>1. PICK e \in Event : e = NotifOf(s, n).event /\ EventOf(s, e) # NoRow
    BY <1>3, OwnerSeen
  <2>2. Settled(NotifOf(s, n))
    BY <1>1, <1>3, <2>1, NonePendingUnlocked
  <2> QED BY <1>1, <1>3, <2>2 DEF Settled
<1>6. ASSUME NEW r \in Session PROVE SessionOK(r)'
  <2>1. CASE r = s
    BY <1>2, <2>1, EndsOK
  <2>2. CASE r # s
    <3>1. tx'[r] = tx[r] /\ tx[r] \in Transaction
      BY <1>1, <1>2, <2>2
    <3>2. ASSUME NEW e \in Event PROVE EventOf(r, e) # NoRow => EventOf(r, e)' # NoRow
      BY <1>3, <3>1 DEF EventOf
    <3>3. ASSUME NEW e \in tx[r].locks PROVE e \in Event /\ EventOf(r, e)' = EventOf(r, e)
      <4>1. e \in Event /\ e \notin tx[s].locks
        BY <2>2, <3>1, <3>3 DEF FeedInv, WritesUnderLock, Transaction
      <4>2. events'[e] = events[e]
        BY <1>3, <4>1 DEF EventOf, DeletionInv, SessionOK
      <4> QED BY <3>1, <4>1, <4>2 DEF EventOf
    <3>4. ASSUME NEW e \in tx[r].locks, NEW n \in NotifId, NotifOf(r, n)' # NoRow, NotifOf(r, n)'.event = e
          PROVE  NotifOf(r, n)' = NotifOf(r, n)
      <4>1. CASE tx[r].notifs[n] # NoRow
        BY <3>1, <4>1 DEF NotifOf
      <4>2. CASE tx[r].notifs[n] = NoRow
        <5>1. NotifOf(r, n)' = NotifOf(s, n)
          BY <1>3, <3>1, <4>2 DEF NotifOf
        <5>2. tx[s].notifs[n] = NoRow
          BY <2>2, <3>4, <5>1 DEF NotifOf, FeedInv, WritesUnderLock
        <5> QED BY <4>2, <5>1, <5>2 DEF NotifOf
      <4> QED BY <4>1, <4>2
    <3>5. SeesNonePending(r)'
      <4> SUFFICES ASSUME NEW e \in tx'[r].locks, NEW n \in NotifId,
                          EventOf(r, e)' # NoRow, EventOf(r, e)'.deleted,
                          ~(tx'[r].pc = "withdraw" /\ tx'[r].op.event = e),
                          NotifOf(r, n)' # NoRow, NotifOf(r, n)'.event = e
                   PROVE  Settled(NotifOf(r, n))'
        BY DEF SeesNonePending
      <4>1. Settled(NotifOf(r, n))
        BY <3>1, <3>3, <3>4 DEF DeletionInv, SessionOK, SeesNonePending
      <4> QED BY <1>1, <3>1, <3>4, <4>1 DEF Settled
    <3>6. \A n \in NotifId : tx[r].notifs[n] # NoRow =>
            tx[r].notifs[n].event \in Event /\ EventOf(r, tx[r].notifs[n].event) # NoRow
      BY <3>1 DEF DeletionInv, SessionOK, Transaction, NotifRow
    <3>7. tx[r].pc = "announce" => tx[r].op.event \in Event /\ EventOf(r, tx[r].op.event) # NoRow
      <4>1. StepOK(tx[r])
        BY DEF Typed
      <4> QED BY <4>1 DEF StepOK, OpOK, OpRecord, DeletionInv, SessionOK
    <3>8. \A n \in NotifId : tx'[r].notifs[n] # NoRow => EventOf(r, tx[r].notifs[n].event)' # NoRow
      <4> TAKE n \in NotifId
      <4> HAVE tx'[r].notifs[n] # NoRow
      <4>1. PICK e \in Event : e = tx[r].notifs[n].event /\ EventOf(r, e) # NoRow
        BY <3>1, <3>6
      <4> QED BY <3>1, <3>2, <4>1
    <3>9. tx'[r].pc = "announce" => EventOf(r, tx[r].op.event)' # NoRow
      <4> HAVE tx'[r].pc = "announce"
      <4>1. PICK e \in Event : e = tx[r].op.event /\ EventOf(r, e) # NoRow
        BY <3>1, <3>7
      <4> QED BY <3>1, <3>2, <4>1
    <3>10. ASSUME NEW e \in Event, tx'[r].events[e] # NoRow
           PROVE  e \in tx'[r].locks /\ events'[e] = events[e]
      <4>1. e \in tx[r].locks /\ e \notin tx[s].locks
        BY <2>2, <3>1, <3>10 DEF FeedInv, WritesUnderLock, DeletionInv, SessionOK
      <4> QED BY <1>3, <3>1, <4>1 DEF EventOf, DeletionInv, SessionOK
    <3> QED BY <3>1, <3>5, <3>8, <3>9, <3>10 DEF DeletionInv, SessionOK
  <2> QED BY <2>1, <2>2
<1> QED BY <1>4, <1>5, <1>6 DEF DeletionInv

LEMMA TickKeepsDeletion ==
  ASSUME Typed, DeletionInv, Tick PROVE DeletionInv'
<1>1. now \in Nat /\ now' = now + 1 /\ UNCHANGED <<events, notifs, tx>>
      /\ tx \in [Session -> Transaction] /\ notifs \in [NotifId -> NotifRow \union {NoRow}]
  BY DEF Tick, tables, Typed, TypeOK
<1>2. \A n \in NotifId : notifs[n] # NoRow => notifs[n].deliverAfter \in Nat
  BY <1>1 DEF NotifRow
<1>3. \A s \in Session, n \in NotifId : NotifOf(s, n) # NoRow => NotifOf(s, n).deliverAfter \in Nat
  BY <1>1, <1>2 DEF NotifOf, Transaction, NotifRow
<1>4. OwnersExist' /\ NothingPendingOfDeleted'
  BY <1>1, <1>2 DEF DeletionInv, OwnersExist, NothingPendingOfDeleted
<1>5. \A s \in Session : SessionOK(s)'
  BY <1>1, <1>3 DEF DeletionInv, SessionOK, SeesNonePending, EventOf, NotifOf, Settled
<1> QED BY <1>4, <1>5 DEF DeletionInv

LEMMA InitDeletion == Init => DeletionInv
<1> SUFFICES ASSUME Init PROVE DeletionInv
  OBVIOUS
<1>1. /\ \A n \in NotifId : notifs[n] = NoRow
      /\ \A s \in Session : tx[s] = NoTx
  BY DEF Init
<1>2. NoTx.pc = "idle" /\ NoTx.locks = {} /\ \A e \in Event : NoTx.events[e] = NoRow
  BY DEF NoTx
<1> QED BY <1>1, <1>2, NoTxIsEmpty DEF DeletionInv, OwnersExist, NothingPendingOfDeleted,
                                       SessionOK, SeesNonePending

LEMMA NextKeepsDeletion == Typed /\ FeedInv /\ DeletionInv /\ [Next]_vars => DeletionInv'
<1> SUFFICES ASSUME Typed, FeedInv, DeletionInv, [Next]_vars PROVE DeletionInv'
  OBVIOUS
<1>1. ASSUME NEW s \in Session,
             \/ \E o \in Op : Begin(s, o) \/ TakeOp(s, o)
             \/ Lookup(s) \/ Read(s) \/ Record(s)
      PROVE  DeletionInv'
  BY <1>1, BeginKeepsDeletion, TakeOpKeepsDeletion, LookupKeepsDeletion,
     ReadKeepsDeletion, RecordKeepsDeletion
<1>2. ASSUME NEW s \in Session, Write(s) \/ Announce(s) \/ Withdraw(s) \/ Commit(s)
      PROVE  DeletionInv'
  BY <1>2, WriteKeepsDeletion, AnnounceKeepsDeletion, WithdrawKeepsDeletion,
     CommitKeepsDeletion
<1>3. ASSUME NEW s \in Session, Abort(s) PROVE DeletionInv'
  BY <1>3, RollbackKeepsDeletion DEF Abort, tables
<1>4. CASE Tick
  BY <1>4, TickKeepsDeletion
<1>5. CASE UNCHANGED vars
  <2>1. UNCHANGED <<events, notifs, now>> /\ tx' = tx
    BY <1>5 DEF vars
  <2>2. OwnersExist' /\ NothingPendingOfDeleted'
    BY <2>1 DEF DeletionInv, OwnersExist, NothingPendingOfDeleted
  <2>3. \A s \in Session : SessionOK(s)'
    <3> TAKE s \in Session
    <3>1. SessionOK(s) /\ tx'[s] = tx[s]
      BY <2>1 DEF DeletionInv
    <3> QED BY <2>1, <3>1, SessionStays
  <2> QED BY <2>2, <2>3 DEF DeletionInv
<1> QED BY <1>1, <1>2, <1>3, <1>4, <1>5 DEF Next

\* No notification of a deleted event is waiting for its delivery: an
\* announcement looks at the event again under its lock (EventGone in
\* notifications.py) and a deletion withdraws under the same lock.
THEOREM DeletionWithdraws == Spec => []NothingPendingOfDeleted
<1>1. Init => Typed /\ FeedInv /\ DeletionInv
  BY InitTyped, InitFeed, InitDeletion
<1>2. Typed /\ FeedInv /\ DeletionInv /\ [Next]_vars => (Typed /\ FeedInv /\ DeletionInv)'
  BY NextTyped, NextKeepsFeed, NextKeepsDeletion
<1>3. DeletionInv => NothingPendingOfDeleted
  BY DEF DeletionInv
<1> QED BY <1>1, <1>2, <1>3, PTL DEF Spec

\* Only a commit touches the events.
LEMMA EventsStay ==
  ASSUME Typed, [Next]_vars, \A s \in Session : ~Commit(s) PROVE events' = events
<1>1. ASSUME NEW s \in Session,
             \/ \E o \in Op : Begin(s, o) \/ TakeOp(s, o)
             \/ Lookup(s) \/ Read(s) \/ Record(s) \/ Abort(s)
      PROVE  events' = events
  BY <1>1, QuietSteps DEF Quiet, tables
<1>2. ASSUME NEW s \in Session, Write(s) \/ Announce(s) \/ Withdraw(s) PROVE events' = events
  <2>1. UNCHANGED tables
    BY <1>2 DEF Write, Announce, Withdraw
  <2> QED BY <2>1 DEF tables
<1>3. CASE Tick \/ UNCHANGED vars
  BY <1>3 DEF Tick, tables, vars
<1> QED BY <1>1, <1>2, <1>3 DEF Next

\* A deleted event stays deleted. An update that read it before the deletion
\* writes only the columns it has changed, to the row as the deletion has left
\* it (the UPDATE that the ORM emits at flush).
THEOREM DeletionStands == Spec => DeletionIsFinal
<1> DEFINE Stands == \A e \in Event :
             events[e] # NoRow /\ events[e].deleted => events'[e] # NoRow /\ events'[e].deleted
<1>1. Init => Typed /\ FeedInv /\ DeletionInv
  BY InitTyped, InitFeed, InitDeletion
<1>2. Typed /\ FeedInv /\ DeletionInv /\ [Next]_vars => (Typed /\ FeedInv /\ DeletionInv)'
  BY NextTyped, NextKeepsFeed, NextKeepsDeletion
<1>3. Typed /\ DeletionInv /\ [Next]_vars => [Stands]_events
  <2> SUFFICES ASSUME Typed, DeletionInv, [Next]_vars, events' # events PROVE Stands
    OBVIOUS
  <2>1. PICK s \in Session : Commit(s)
    BY EventsStay
  <2>2. \A e \in Event : events'[e] = EventOf(s, e)
    BY <2>1 DEF Commit, Typed, TypeOK, Over, EventOf
  <2> QED BY <2>2 DEF EventOf, DeletionInv, SessionOK
<1> QED BY <1>1, <1>2, <1>3, PTL DEF Spec, DeletionIsFinal

-----------------------------------------------------------------------------
(***************************************************************************)
(* 6. Open notifications                                                   *)
(*                                                                         *)
(* However many requests announce the same event at the same time, they    *)
(* end in one open notification.                                           *)
(***************************************************************************)

Open(row, e) == row # NoRow /\ Mergeable(row, e, now)

\* What the lock protects: a session sees at most one open notification of an
\* event whose row it holds.
SeesOneOpen(s) ==
  \A e \in tx[s].locks : \A m, n \in NotifId :
    Open(NotifOf(s, m), e) /\ Open(NotifOf(s, n), e) => m = n

\* The inductive invariant, beside Typed and FeedInv.
OpenInv == OneOpenNotification /\ \A s \in Session : SeesOneOpen(s)

\* Of a row it has not locked a session sees what is committed.
LEMMA OneOpenSeen ==
  ASSUME Typed, FeedInv, OpenInv, NEW s \in Session, NEW e \in Event,
         NEW m \in NotifId, NEW n \in NotifId,
         Open(NotifOf(s, m), e), Open(NotifOf(s, n), e)
  PROVE  m = n
<1>1. CASE e \in tx[s].locks
  BY <1>1 DEF OpenInv, SeesOneOpen
<1>2. CASE e \notin tx[s].locks
  <2>1. tx[s].notifs[m] = NoRow /\ tx[s].notifs[n] = NoRow
    BY <1>2 DEF Open, Mergeable, NotifOf, FeedInv, WritesUnderLock
  <2>2. Open(notifs[m], e) /\ Open(notifs[n], e)
    BY <2>1 DEF NotifOf
  <2> QED BY <2>2 DEF Open, Mergeable, OpenInv, OneOpenNotification
<1> QED BY <1>1, <1>2

\* A step of session s that leaves the committed notifications alone.
LEMMA OneSessionOpen ==
  ASSUME OpenInv, NEW s \in Session, \A r \in Session \ {s} : tx'[r] = tx[r],
         UNCHANGED <<notifs, now>>, SeesOneOpen(s)'
  PROVE  OpenInv'
<1>1. OneOpenNotification'
  BY DEF OpenInv, OneOpenNotification
<1>2. \A r \in Session : SeesOneOpen(r)'
  BY DEF OpenInv, SeesOneOpen, NotifOf, Open
<1> QED BY <1>1, <1>2 DEF OpenInv

LEMMA QuietKeepsOpen ==
  ASSUME Typed, OpenInv, NEW s \in Session, Quiet(s), now' = now
  PROVE  OpenInv'
<1>1. UNCHANGED <<notifs, now>> /\ \A r \in Session \ {s} : tx'[r] = tx[r]
  BY DEF Quiet, tables
<1>2. SeesOneOpen(s)'
  BY <1>1 DEF Quiet, OpenInv, SeesOneOpen, NotifOf, Open
<1> QED BY <1>1, <1>2, OneSessionOpen

\* A step of session s after which it still sees at most one open notification
\* of every event.
LEMMA ViewKeepsOpen ==
  ASSUME OpenInv, NEW s \in Session, \A r \in Session \ {s} : tx'[r] = tx[r],
         UNCHANGED <<notifs, now>>, tx'[s].locks \subseteq Event,
         \A d \in Event : \A l, m \in NotifId :
           Open(NotifOf(s, l)', d) /\ Open(NotifOf(s, m)', d) => l = m
  PROVE  OpenInv'
<1>1. SeesOneOpen(s)'
  <2> SUFFICES ASSUME NEW d \in tx'[s].locks, NEW l \in NotifId, NEW m \in NotifId,
                      Open(NotifOf(s, l), d)', Open(NotifOf(s, m), d)'
               PROVE  l = m
    BY DEF SeesOneOpen
  <2>1. Open(NotifOf(s, l)', d) /\ Open(NotifOf(s, m)', d)
    BY DEF Open, Mergeable
  <2> QED BY <2>1
<1> QED BY <1>1, OneSessionOpen

\* A write locks its event, and leaves the notifications alone.
LEMMA WriteKeepsOpen ==
  ASSUME Typed, FeedInv, OpenInv, NEW s \in Session, Write(s)
  PROVE  OpenInv'
<1> DEFINE o == tx[s].op
           e == o.event
           new == Edited(o, tx[s].mem)
           entry == EventEntry(nextSeq, e, IF o.kind = "delete" THEN "delete" ELSE "upsert",
                               Snapshot(o, tx[s].mem), o)
           pc == CASE o.kind = "create" -> "announce"
                   [] o.kind = "update" -> IF News(tx[s].mem, new) # {} THEN "announce" ELSE AfterOp(o)
                   [] o.kind = "delete" -> "withdraw"
           res == Answer("applied", new.version, nextSeq)
           row == IF o.kind = "create" THEN new
                  ELSE Stored(VisibleEvent(s, e), tx[s].mem, new)
<1>1. /\ tx \in [Session -> Transaction] /\ StepOK(tx[s]) /\ tx[s].pc = "write"
      /\ UNCHANGED <<tables, now>> /\ UNCHANGED <<notifs, now>>
  BY DEF Write, Typed, TypeOK, tables
<1>2. e \in Event
  BY <1>1 DEF StepOK, OpOK, OpRecord
<1>3. CASE o.kind = "create" /\ events[e] # NoRow
  <2>1. Rollback(s) /\ nextSeq' = nextSeq
    BY <1>3 DEF Write
  <2> QED BY <1>1, <2>1, RollbackIsQuiet, QuietKeepsOpen
<1>4. CASE ~(o.kind = "create" /\ events[e] # NoRow)
  <2>1. tx' = [tx EXCEPT ![s].pc = pc, ![s].res = res, ![s].locks = @ \union {e},
                         ![s].events[e] = row, ![s].log = @ \union {entry}]
    BY <1>4 DEF Write
  <2> HIDE DEF pc, res, row, entry
  <2>2. /\ \A r \in Session \ {s} : tx'[r] = tx[r]
        /\ tx'[s].locks = tx[s].locks \union {e} /\ tx'[s].notifs = tx[s].notifs
    BY <1>1, <2>1 DEF Transaction
  <2>3. \A n : NotifOf(s, n)' = NotifOf(s, n)
    BY <1>1, <2>2 DEF NotifOf
  <2>4. tx'[s].locks \subseteq Event
    BY <1>1, <1>2, <2>2 DEF Transaction
  <2> QED BY <1>1, <2>2, <2>3, <2>4, OneOpenSeen, ViewKeepsOpen
<1> QED BY <1>3, <1>4

\* A notification that is written is merged into the open one, or is the only
\* one that may be open.
LEMMA PutKeepsOpen ==
  ASSUME Typed, FeedInv, OpenInv, NEW s \in Session, tx[s].pc = "announce",
         NEW n \in NotifId, NEW row \in NotifRow, row.event = tx[s].op.event,
         \/ Open(NotifOf(s, n), tx[s].op.event)
         \/ \A m \in NotifId : ~Open(NotifOf(s, m), tx[s].op.event),
         Put(s, n, row), UNCHANGED <<notifs, now>>
  PROVE  OpenInv'
<1> DEFINE o == tx[s].op
           e == o.event
           entry == NotifEntry(nextSeq, n, "upsert", row, o)
           pc == AfterOp(o)
           res == IF o.kind = "notify" THEN Answer("applied", row.version, 0) ELSE tx[s].res
<1>1. tx \in [Session -> Transaction] /\ StepOK(tx[s])
  BY DEF Typed, TypeOK
<1>2. e \in Event /\ row # NoRow
  BY <1>1, NoRowAssumption DEF StepOK, OpOK, OpRecord
<1>3. tx' = [tx EXCEPT ![s].pc = pc, ![s].res = res, ![s].locks = @ \union {e},
                       ![s].notifs[n] = row, ![s].log = @ \union {entry}]
  BY DEF Put
<1> HIDE DEF pc, res, entry
<1>4. /\ \A r \in Session \ {s} : tx'[r] = tx[r]
      /\ tx'[s].locks = tx[s].locks \union {e}
      /\ \A m \in NotifId : tx'[s].notifs[m] = IF m = n THEN row ELSE tx[s].notifs[m]
  BY <1>1, <1>3 DEF Transaction
<1>5. \A m \in NotifId : NotifOf(s, m)' = IF m = n THEN row ELSE NotifOf(s, m)
  BY <1>2, <1>4 DEF NotifOf
<1>6. ASSUME NEW d \in Event, NEW l \in NotifId, NEW m \in NotifId,
             Open(NotifOf(s, l)', d), Open(NotifOf(s, m)', d)
      PROVE  l = m
  <2>1. ASSUME NEW k \in NotifId, k # n, Open(NotifOf(s, k)', d)
        PROVE  Open(NotifOf(s, k), d)
    BY <1>5, <2>1
  <2>2. CASE l # n /\ m # n
    BY <1>6, <2>1, <2>2, OneOpenSeen
  <2>3. ASSUME NEW k \in NotifId, k # n, Open(NotifOf(s, k)', d), Open(NotifOf(s, n)', d)
        PROVE  FALSE
    <3>1. Open(NotifOf(s, k), d) /\ d = e
      BY <1>5, <2>1, <2>3 DEF Open, Mergeable
    <3> QED BY <2>3, <3>1, OneOpenSeen
  <2> QED BY <1>6, <2>2, <2>3
<1>7. tx'[s].locks \subseteq Event
  BY <1>1, <1>2, <1>4 DEF Transaction
<1> QED BY <1>4, <1>6, <1>7, ViewKeepsOpen

LEMMA AnnounceKeepsOpen ==
  ASSUME Typed, FeedInv, OpenInv, NEW s \in Session, Announce(s)
  PROVE  OpenInv'
<1> DEFINE o == tx[s].op
           rows == VisibleNotifs(s)
           open == {n \in NotifId : rows[n] # NoRow /\ Mergeable(rows[n], o.event, now)}
           kind == NewsKind(o)
           changes == NewsChanges(o, tx[s].mem)
           text == NewsText(o)
<1>1. /\ tx[s] \in Transaction /\ StepOK(tx[s]) /\ tx[s].pc = "announce" /\ now \in Nat
      /\ UNCHANGED <<notifs, now>> /\ UNCHANGED tables
  BY DEF Announce, tables, Typed, TypeOK
<1>2. OpOK(o) /\ o.event \in Event /\ o.kind \in {"create", "update", "notify"}
  BY <1>1 DEF StepOK, OpOK, OpRecord
<1>3. kind \in Kinds /\ changes \in SUBSET Watched /\ text \in Val \union {NoMessage}
  BY <1>2, NewsTypes
<1>4. rows \in [NotifId -> NotifRow \union {NoRow}] /\ \A n \in NotifId : rows[n] = NotifOf(s, n)
  BY VisibleTypes, ViewOf
<1>5. CASE VisibleEvent(s, o.event).deleted
  <2>1. nextSeq' = nextSeq /\ (Rollback(s) \/ \E a : Refuse(s, a))
    BY <1>5 DEF Announce
  <2> QED BY <1>1, <2>1, RollbackIsQuiet, RefuseIsQuiet, QuietKeepsOpen
<1>6. CASE ~VisibleEvent(s, o.event).deleted
  <2>1. \/ \E n \in open : Put(s, n, Merge(rows[n], kind, changes, text))
        \/ /\ open = {}
           /\ \E n \in NotifId : Put(s, n, NewNotification(o.event, kind, changes, text, now))
    BY <1>6 DEF Announce
  <2>2. \A n \in NotifId : n \in open <=> Open(NotifOf(s, n), o.event)
    BY <1>4 DEF Open
  <2> HIDE DEF kind, changes, text, open
  <2>3. ASSUME NEW n \in NotifId, n \in open, Put(s, n, Merge(rows[n], kind, changes, text))
        PROVE  OpenInv'
    <3>1. rows[n] \in NotifRow /\ rows[n].event = o.event
      BY <1>4, <2>2, <2>3 DEF Open, Mergeable
    <3> DEFINE row == Merge(rows[n], kind, changes, text)
    <3>2. row \in NotifRow /\ row.event = o.event
      BY <1>3, <3>1, NotificationTypes, EventOfNotification
    <3> HIDE DEF row
    <3>3. Put(s, n, row)
      BY <2>3 DEF row
    <3> QED BY <1>1, <2>2, <2>3, <3>2, <3>3, PutKeepsOpen
  <2>4. ASSUME open = {}, NEW n \in NotifId,
               Put(s, n, NewNotification(o.event, kind, changes, text, now))
        PROVE  OpenInv'
    <3> DEFINE row == NewNotification(o.event, kind, changes, text, now)
    <3>1. row \in NotifRow /\ row.event = o.event
      BY <1>1, <1>2, <1>3, NotificationTypes, EventOfNotification
    <3> HIDE DEF row
    <3>2. Put(s, n, row)
      BY <2>4 DEF row
    <3> QED BY <1>1, <2>2, <2>4, <3>1, <3>2, PutKeepsOpen
  <2>5. open \subseteq NotifId
    BY DEF open
  <2> QED BY <2>1, <2>3, <2>4, <2>5
<1> QED BY <1>5, <1>6

\* A withdrawn notification is not open.
LEMMA WithdrawKeepsOpen ==
  ASSUME Typed, FeedInv, OpenInv, NEW s \in Session, Withdraw(s)
  PROVE  OpenInv'
<1> DEFINE o == tx[s].op
           rows == VisibleNotifs(s)
           due == {n \in NotifId : rows[n] # NoRow /\ Withdrawable(rows[n], o.event, now)}
           pc == AfterOp(o)
           kept == [n \in NotifId |-> IF n \in due THEN Withdrawn(rows[n]) ELSE tx[s].notifs[n]]
<1>1. tx \in [Session -> Transaction] /\ UNCHANGED <<notifs, now>>
  BY DEF Withdraw, tables, Typed, TypeOK
<1>2. PICK new :
        tx' = [tx EXCEPT ![s].pc = pc, ![s].notifs = kept, ![s].log = @ \union new]
  BY DEF Withdraw
<1>3. \A n \in due : n \in NotifId /\ rows[n] \in NotifRow
  BY VisibleTypes
<1>4. \A n \in due : Withdrawn(rows[n]).deleted /\ Withdrawn(rows[n]) # NoRow
  <2>1. \A n \in due : Withdrawn(rows[n]).deleted
    BY <1>3 DEF Withdrawn, NotifRow
  <2> QED BY <1>3, <2>1, NotificationTypes, NoRowAssumption
<1> HIDE DEF due, rows
<1>5. \A n \in NotifId : kept[n] = IF n \in due THEN Withdrawn(rows[n]) ELSE tx[s].notifs[n]
  OBVIOUS
<1> HIDE DEF pc, kept
<1>6. /\ \A r \in Session \ {s} : tx'[r] = tx[r]
      /\ tx'[s].locks \subseteq Event /\ tx'[s].notifs = kept
  BY <1>1, <1>2 DEF Transaction
<1>7. \A n \in NotifId : NotifOf(s, n)' = IF n \in due THEN Withdrawn(rows[n]) ELSE NotifOf(s, n)
  BY <1>1, <1>4, <1>5, <1>6 DEF NotifOf
<1>8. \A d \in Event, n \in NotifId : Open(NotifOf(s, n)', d) => Open(NotifOf(s, n), d)
  BY <1>4, <1>7 DEF Open, Mergeable
<1> QED BY <1>1, <1>6, <1>8, OneOpenSeen, ViewKeepsOpen
-----------------------------------------------------------------------------
(* The commit, and time *)

\* A commit publishes what its session sees; what the others have locked it
\* has not touched.
LEMMA CommitKeepsOpen ==
  ASSUME Typed, FeedInv, OpenInv, NEW s \in Session, Commit(s)
  PROVE  OpenInv'
<1>1. /\ tx \in [Session -> Transaction] /\ now' = now /\ tx' = [tx EXCEPT ![s] = NoTx]
      /\ notifs \in [NotifId -> NotifRow \union {NoRow}]
  BY DEF Commit, Typed, TypeOK
<1>2. /\ tx'[s] = NoTx /\ NoTx.locks = {}
      /\ \A r \in Session \ {s} : tx'[r] = tx[r]
  BY <1>1, NoTxIsEmpty
<1>3. \A n \in NotifId : notifs'[n] = NotifOf(s, n)
  BY DEF Commit, Typed, TypeOK, Over, NotifOf
<1>4. OneOpenNotification'
  <2> SUFFICES ASSUME NEW m \in NotifId, NEW n \in NotifId,
                      notifs'[m] # NoRow, Mergeable(notifs[m], notifs[m].event, now)',
                      notifs'[n] # NoRow, Mergeable(notifs[n], notifs[m].event, now)'
               PROVE  m = n
    BY DEF OneOpenNotification
  <2> DEFINE e == NotifOf(s, m).event
  <2>1. Open(NotifOf(s, m), e) /\ Open(NotifOf(s, n), e)
    BY <1>1, <1>3 DEF Open, Mergeable
  <2>2. e \in Event
    BY <1>1, <2>1 DEF Open, NotifOf, Transaction, NotifRow
  <2> HIDE DEF e
  <2> QED BY <2>1, <2>2, OneOpenSeen
<1>5. ASSUME NEW r \in Session PROVE SeesOneOpen(r)'
  <2>1. CASE r = s
    BY <1>2, <2>1 DEF SeesOneOpen
  <2>2. CASE r # s
    <3>1. tx'[r] = tx[r]
      BY <1>2, <2>2
    <3>2. ASSUME NEW e \in tx[r].locks, NEW n \in NotifId, NotifOf(r, n)' # NoRow, NotifOf(r, n)'.event = e
          PROVE  NotifOf(r, n)' = NotifOf(r, n)
      <4>1. CASE tx[r].notifs[n] # NoRow
        BY <3>1, <4>1 DEF NotifOf
      <4>2. CASE tx[r].notifs[n] = NoRow
        <5>1. NotifOf(r, n)' = NotifOf(s, n)
          BY <1>3, <3>1, <4>2 DEF NotifOf
        <5>2. tx[s].notifs[n] = NoRow
          BY <2>2, <3>2, <5>1 DEF NotifOf, FeedInv, WritesUnderLock
        <5> QED BY <4>2, <5>1, <5>2 DEF NotifOf
      <4> QED BY <4>1, <4>2
    <3> SUFFICES ASSUME NEW e \in tx'[r].locks, NEW m \in NotifId, NEW n \in NotifId,
                        Open(NotifOf(r, m), e)', Open(NotifOf(r, n), e)'
                 PROVE  m = n
      BY DEF SeesOneOpen
    <3>3. Open(NotifOf(r, m), e) /\ Open(NotifOf(r, n), e)
      BY <1>1, <3>1, <3>2 DEF Open, Mergeable
    <3> QED BY <3>1, <3>3 DEF OpenInv, SeesOneOpen
  <2> QED BY <2>1, <2>2
<1> QED BY <1>4, <1>5 DEF OpenInv

\* As time passes a notification closes; none opens.
LEMMA TickKeepsOpen ==
  ASSUME Typed, OpenInv, Tick PROVE OpenInv'
<1>1. now \in Nat /\ now' = now + 1 /\ UNCHANGED <<notifs, tx>>
      /\ tx \in [Session -> Transaction] /\ notifs \in [NotifId -> NotifRow \union {NoRow}]
  BY DEF Tick, tables, Typed, TypeOK
<1>2. ASSUME NEW row \in NotifRow, NEW e, Mergeable(row, e, now')
      PROVE  Mergeable(row, e, now)
  <2>1. row.deliverAfter \in Nat
    BY DEF NotifRow
  <2> QED BY <1>1, <1>2, <2>1, TimingAssumption DEF Mergeable
<1>3. OneOpenNotification'
  <2> SUFFICES ASSUME NEW m \in NotifId, NEW n \in NotifId,
                      notifs[m] # NoRow, Mergeable(notifs[m], notifs[m].event, now'),
                      notifs[n] # NoRow, Mergeable(notifs[n], notifs[m].event, now')
               PROVE  m = n
    BY <1>1 DEF OneOpenNotification, Mergeable
  <2> QED BY <1>1, <1>2 DEF OpenInv, OneOpenNotification
<1>4. ASSUME NEW s \in Session PROVE SeesOneOpen(s)'
  <2>1. \A n \in NotifId : /\ NotifOf(s, n)' = NotifOf(s, n)
                           /\ NotifOf(s, n) \in NotifRow \union {NoRow}
    BY <1>1 DEF NotifOf, Transaction
  <2> SUFFICES ASSUME NEW e \in tx[s].locks, NEW m \in NotifId, NEW n \in NotifId,
                      NotifOf(s, m) # NoRow, Mergeable(NotifOf(s, m), e, now'),
                      NotifOf(s, n) # NoRow, Mergeable(NotifOf(s, n), e, now')
               PROVE  m = n
    BY <1>1, <2>1 DEF SeesOneOpen, Open, Mergeable
  <2>2. Open(NotifOf(s, m), e) /\ Open(NotifOf(s, n), e)
    BY <1>2, <2>1 DEF Open
  <2> QED BY <2>2 DEF OpenInv, SeesOneOpen
<1> QED BY <1>3, <1>4 DEF OpenInv

LEMMA InitOpen == Init => OpenInv
<1> SUFFICES ASSUME Init PROVE OpenInv
  OBVIOUS
<1>1. /\ \A n \in NotifId : notifs[n] = NoRow
      /\ \A s \in Session : tx[s].locks = {}
  BY NoTxIsEmpty DEF Init
<1> QED BY <1>1 DEF OpenInv, OneOpenNotification, SeesOneOpen

LEMMA NextKeepsOpen == Typed /\ FeedInv /\ OpenInv /\ [Next]_vars => OpenInv'
<1> SUFFICES ASSUME Typed, FeedInv, OpenInv, [Next]_vars PROVE OpenInv'
  OBVIOUS
<1>1. ASSUME NEW s \in Session,
             \/ \E o \in Op : Begin(s, o) \/ TakeOp(s, o)
             \/ Lookup(s) \/ Read(s) \/ Record(s) \/ Abort(s)
      PROVE  OpenInv'
  <2>1. now' = now
    BY <1>1 DEF Begin, TakeOp, Lookup, Read, Record, Abort
  <2> QED BY <1>1, <2>1, QuietSteps, QuietKeepsOpen
<1>2. ASSUME NEW s \in Session, Write(s) \/ Announce(s) \/ Withdraw(s) \/ Commit(s)
      PROVE  OpenInv'
  BY <1>2, WriteKeepsOpen, AnnounceKeepsOpen, WithdrawKeepsOpen, CommitKeepsOpen
<1>3. CASE Tick
  BY <1>3, TickKeepsOpen
<1>4. CASE UNCHANGED vars
  BY <1>4 DEF vars, OpenInv, OneOpenNotification, SeesOneOpen, Open, NotifOf
<1> QED BY <1>1, <1>2, <1>3, <1>4 DEF Next

\* An event has at most one open notification, whatever requests announce it
\* at the same time: announce() looks for the open one after it has locked the
\* event, and sees there what the holder before it has committed.
THEOREM AnnouncementsMerge == Spec => []OneOpenNotification
<1>1. Init => Typed /\ FeedInv /\ OpenInv
  BY InitTyped, InitFeed, InitOpen
<1>2. Typed /\ FeedInv /\ OpenInv /\ [Next]_vars => (Typed /\ FeedInv /\ OpenInv)'
  BY NextTyped, NextKeepsFeed, NextKeepsOpen
<1>3. OpenInv => OneOpenNotification
  BY DEF OpenInv
<1> QED BY <1>1, <1>2, <1>3, PTL DEF Spec
=============================================================================
