---------------------------- MODULE OutboxProofs -----------------------------
(***************************************************************************)
(* Theorems about Outbox, for any entities, batch size, number of edits    *)
(* and of failures: the server acts on an edit once and in the order the   *)
(* edits were made, no edit is forgotten, and no conflict is made up.      *)
(*                                                                         *)
(* The state of the server is taken as one record, because a batch passes  *)
(* through states that no variable ever holds.                             *)
(***************************************************************************)
EXTENDS Outbox, Integers, FiniteSetTheorems, WellFoundedInduction, TLAPS

-----------------------------------------------------------------------------
(* Least elements, and induction *)

\* A set of naturals that is not empty has a least element: of its initial
\* segments, which are finite, one contains no other.
LEMMA LeastExists ==
  ASSUME NEW T \in SUBSET Nat, T # {}
  PROVE  \E m \in T : \A n \in T : m <= n
<1> DEFINE Below(x) == {y \in T : y <= x}
           All      == {Below(x) : x \in T}
<1>1. All \subseteq FiniteSubsetsOf(T) /\ All # {}
  <2>1. ASSUME NEW x \in T PROVE IsFiniteSet(Below(x))
    BY FS_BoundedSetOfNaturals
  <2> QED BY <2>1 DEF FiniteSubsetsOf
<1>2. PICK U \in All : \A V \in All : ~(<<V, U>> \in StrictSubsetOrdering(T))
  BY <1>1, FS_StrictSubsetOrderingWellFounded, WFMin
<1>3. PICK m \in T : U = Below(m)
  OBVIOUS
<1>4. ASSUME NEW n \in T, n < m PROVE FALSE
  <2>1. Below(n) \subseteq Below(m)
    <3>1. ASSUME NEW y \in T, y <= n PROVE y <= m
      <4>1. y \in Nat /\ m \in Nat /\ n \in Nat
        OBVIOUS
      <4> QED BY <4>1, <3>1, <1>4
    <3> QED BY <3>1
  <2>2. m \in Below(m) /\ m \notin Below(n)
    BY <1>4
  <2>3. <<Below(n), Below(m)>> \in StrictSubsetOrdering(T)
    <3> HIDE DEF Below
    <3>1. Below(n) \in SUBSET T /\ Below(m) \in SUBSET T
      BY DEF Below
    <3> QED BY <2>1, <2>2, <3>1 DEF StrictSubsetOrdering
  <2> QED BY <1>2, <1>3, <2>3
<1>5. \A n \in T : m <= n
  BY <1>4
<1> QED BY <1>5

\* Induction, for a set of naturals.
LEMMA SetInduction ==
  ASSUME NEW T, 0 \in T, \A n \in Nat : n \in T => n + 1 \in T
  PROVE  Nat \subseteq T
<1>1. SUFFICES ASSUME Nat \ T # {} PROVE FALSE
  OBVIOUS
<1>2. PICK m \in Nat \ T : \A n \in Nat \ T : m <= n
  BY LeastExists, <1>1
<1>3. m # 0 /\ m - 1 \in Nat /\ m - 1 \notin Nat \ T
  BY <1>2
<1> QED BY <1>3, <1>2

-----------------------------------------------------------------------------
(* The queue and the ledger *)

Server == [row |-> row, ledger |-> ledger, writes |-> writes]

\* Is the operation queued, and can the server parse it?
Known(k)   == k \in Id /\ ops[k] # None
Sound(k)   == Known(k) /\ ops[k].kind # "bad"
Done(L, k) == L[k] # None \/ ops[k].kind = "bad"

-----------------------------------------------------------------------------
(* The invariant of the server *)

ServerTyped(s) ==
  /\ s \in [row    : [Entity -> Row],
            ledger : [Id -> Answer \union {None}],
            writes : SUBSET Write]
  /\ IsFiniteSet(s.writes)

\* Writes are numbered in their order.
Numbered(W) == \A v \in W : v.n <= Cardinality(W)

\* An operation that has written something has its answer, and wrote it once.
WritesAnswered(s) == \A v \in s.writes : v.by # 0 => s.ledger[v.by] # None
Once(W) == \A v, w \in W : v.by = w.by /\ v.by # 0 => v = w
Ordered(W) == \A v, w \in W : 0 < v.by /\ v.by < w.by => v.n < w.n

\* Only what can be parsed is answered, and it is answered in order.
AnsweredInOrder(L) ==
  \A k \in Id : L[k] # None => Sound(k) /\ \A m \in Id : m < k => Done(L, m)

\* A conflict is with another version than the one the edit was based on.
ConflictsReal(L) ==
  \A k \in Id : L[k] # None /\ L[k].status = "conflict" => L[k].version # ops[k].base

ServerOK(s) ==
  /\ ServerTyped(s) /\ WritesAnswered(s)
  /\ Numbered(s.writes) /\ Once(s.writes) /\ Ordered(s.writes)
  /\ AnsweredInOrder(s.ledger) /\ ConflictsReal(s.ledger)

-----------------------------------------------------------------------------
(* The invariant of the phone *)

\* A batch may be sent when everything older is in it or done with.
Sendable(B) ==
  \A k \in B : Known(k) /\ \A m \in Id : m < k => m \in B \/ Done(ledger, m)

OpsOK ==
  /\ ops \in [Id -> OpRow \union {None}]
  /\ \E c \in 0 .. MaxOps : \A k \in Id : ops[k] # None <=> k <= c

PhoneTyped ==
  /\ cached \in [Entity -> Row] /\ pulled \in [Entity -> Nat]
  /\ pending \subseteq {k \in Id : Known(k)}
  /\ requeue \in OpRow \union {None}

\* What has no row any more is done with, for good or by the user's decision.
LeftForAReason ==
  \A k \in Id \ pending : Known(k) =>
    Done(ledger, k) /\ (k \in settled \/ ops[k].kind = "bad" \/ ledger[k].status # "conflict")

AskedOK ==
  \A c \in asked :
    /\ c.op \in Id
    /\ ledger[c.op] # None /\ ledger[c.op].status = "conflict"
    /\ c.version = ledger[c.op].version /\ c.version \in Nat

Push == [pc : Steps, batch : SUBSET Id, todo : SUBSET Id, split : SUBSET Id, full : BOOLEAN]

PushOK ==
  /\ push \in Push
  /\ push.pc = "post" => Sendable(push.batch) /\ Sendable(push.batch \union push.split)
  /\ push.pc = "reject" =>
       /\ Sendable(push.batch) /\ Sendable(push.batch \union push.split)
       /\ ~Parsed(push.batch)
  /\ push.pc = "answers" =>
       /\ Sendable(push.batch \union push.split)
       /\ \A k \in push.batch : ledger[k] # None
       /\ push.todo \subseteq push.batch

LateOK == \A B \in late : B \subseteq Id /\ Sendable(B)

\* The inductive invariant.
OutboxInv ==
  /\ ServerOK(Server) /\ OpsOK /\ PhoneTyped /\ LeftForAReason /\ AskedOK /\ PushOK /\ LateOK

USE OutboxAssumption

-----------------------------------------------------------------------------
(* One operation on the server *)

LEMMA WriteTyped ==
  ASSUME NEW s, ServerTyped(s), NEW k \in 0 .. MaxOps, NEW e \in Entity, NEW v \in Nat
  PROVE  LET w == [n |-> Cardinality(s.writes) + 1, by |-> k, entity |-> e, version |-> v]
         IN  /\ w \in Write
             /\ Written(s.writes, k, e, v) = s.writes \union {w}
             /\ IsFiniteSet(Written(s.writes, k, e, v))
<1>1. Cardinality(s.writes) \in Nat
  BY FS_CardinalityType DEF ServerTyped
<1>2. IsFiniteSet(Written(s.writes, k, e, v))
  BY FS_AddElement DEF ServerTyped, Written
<1> QED BY <1>1, <1>2 DEF Write, Written

\* A new write has the next number, and all that is known of the others stands.
LEMMA WriteAdded ==
  ASSUME NEW s, ServerTyped(s), Numbered(s.writes), WritesAnswered(s), Once(s.writes), Ordered(s.writes),
         NEW k \in 0 .. MaxOps, NEW e \in Entity, NEW v \in Nat,
         NEW t, t.writes = Written(s.writes, k, e, v),
         k # 0 => \A m \in Id : m >= k => s.ledger[m] = None
  PROVE  Numbered(t.writes) /\ Once(t.writes) /\ Ordered(t.writes)
<1> DEFINE w == [n |-> Cardinality(s.writes) + 1, by |-> k, entity |-> e, version |-> v]
<1>1. w \in Write /\ t.writes = s.writes \union {w}
  BY WriteTyped
<1>2. /\ Cardinality(s.writes) \in Nat
      /\ \A x \in s.writes : x \in Write /\ x.n <= Cardinality(s.writes) /\ x # w
  <2>1. Cardinality(s.writes) \in Nat
    BY FS_CardinalityType DEF ServerTyped
  <2>2. ASSUME NEW x \in s.writes
        PROVE  x \in Write /\ x.n <= Cardinality(s.writes) /\ x.n \in Nat
    BY DEF ServerTyped, Numbered, Write
  <2>3. w.n > Cardinality(s.writes)
    BY <2>1
  <2> QED BY <2>1, <2>2, <2>3
<1>3. Cardinality(t.writes) = Cardinality(s.writes) + 1
  <2>1. w \notin s.writes /\ IsFiniteSet(s.writes)
    BY <1>2 DEF ServerTyped
  <2> HIDE DEF w
  <2>2. PICK W : W = s.writes
    OBVIOUS
  <2>3. w \notin W /\ IsFiniteSet(W)
    BY <2>1, <2>2
  <2>4. Cardinality(W \union {w}) = Cardinality(W) + 1
    BY <2>3, FS_AddElement
  <2> QED BY <1>1, <2>2, <2>4
<1>4. Numbered(t.writes)
  BY <1>1, <1>2, <1>3 DEF Numbered, Write
<1>5. k # 0 => \A x \in s.writes : x.by < k
  <2>1. ASSUME k # 0, NEW x \in s.writes, x.by # 0 PROVE x.by < k
    BY <1>2, <2>1 DEF WritesAnswered, Write, Id
  <2> QED BY <1>2, <2>1 DEF Write
<1>6. w.by = k /\ w.n = Cardinality(s.writes) + 1
  OBVIOUS
<1> HIDE DEF w
<1>7. Once(t.writes)
  BY <1>1, <1>2, <1>5, <1>6 DEF Once, Write
<1>8. Ordered(t.writes)
  BY <1>1, <1>2, <1>5, <1>6 DEF Ordered, Write
<1> QED BY <1>4, <1>7, <1>8

\* An answer is recorded, when everything older has been done with.
LEMMA AnswerAdded ==
  ASSUME NEW L \in [Id -> Answer \union {None}], AnsweredInOrder(L), ConflictsReal(L),
         NEW k \in Id, Sound(k), L[k] = None, \A m \in Id : m < k => Done(L, m),
         NEW a \in Answer, a.status = "conflict" => a.version # ops[k].base,
         NEW M, M = [L EXCEPT ![k] = a]
  PROVE  /\ AnsweredInOrder(M) /\ ConflictsReal(M)
         /\ M \in [Id -> Answer \union {None}]
         /\ M[k] # None
         /\ \A m \in Id : L[m] # None => M[m] = L[m]
<1>1. a # None
  BY NoneAssumption
<1>2. \A m \in Id : M[m] = IF m = k THEN a ELSE L[m]
  OBVIOUS
<1>3. M \in [Id -> Answer \union {None}]
  OBVIOUS
<1>4. \A m \in Id : L[m] # None => M[m] = L[m]
  BY <1>2
<1>5. AnsweredInOrder(M)
  BY <1>1, <1>2 DEF AnsweredInOrder, Done
<1>6. ConflictsReal(M)
  BY <1>2 DEF ConflictsReal
<1> QED BY <1>1, <1>2, <1>3, <1>4, <1>5, <1>6

\* What one operation leaves behind.
Step(s, k, t) ==
  /\ ServerOK(t)
  /\ t.ledger[k] # None
  /\ \A m \in Id : s.ledger[m] # None => t.ledger[m] = s.ledger[m]

LEMMA LaterUnanswered ==
  ASSUME NEW s, AnsweredInOrder(s.ledger), NEW k \in Id, Sound(k), s.ledger[k] = None
  PROVE  \A m \in Id : m >= k => s.ledger[m] = None
BY DEF AnsweredInOrder, Done, Sound, Id

LEMMA AnsweredStep ==
  ASSUME NEW s, ServerOK(s),
         NEW k \in Id, Sound(k), s.ledger[k] = None, \A m \in Id : m < k => Done(s.ledger, m),
         NEW a \in Answer, a.status = "conflict" => a.version # ops[k].base
  PROVE  Step(s, k, [s EXCEPT !.ledger[k] = a])
<1> DEFINE t == [s EXCEPT !.ledger[k] = a]
<1>1. t.ledger = [s.ledger EXCEPT ![k] = a] /\ t.writes = s.writes /\ t.row = s.row
      /\ t = [row |-> t.row, ledger |-> t.ledger, writes |-> t.writes]
  BY DEF ServerOK, ServerTyped
<1> HIDE DEF t
<1>2. /\ AnsweredInOrder(t.ledger) /\ ConflictsReal(t.ledger)
      /\ t.ledger \in [Id -> Answer \union {None}]
      /\ t.ledger[k] # None
      /\ \A m \in Id : s.ledger[m] # None => t.ledger[m] = s.ledger[m]
  <2>1. /\ s.ledger \in [Id -> Answer \union {None}]
        /\ AnsweredInOrder(s.ledger) /\ ConflictsReal(s.ledger)
    BY DEF ServerOK, ServerTyped
  <2>2. t.ledger = [s.ledger EXCEPT ![k] = a]
    BY <1>1
  <2> QED BY <2>1, <2>2, AnswerAdded
<1>3. ServerTyped(t)
  BY <1>1, <1>2 DEF ServerOK, ServerTyped
<1>4. Numbered(t.writes) /\ Once(t.writes) /\ Ordered(t.writes)
  BY <1>1 DEF ServerOK, Numbered, Once, Ordered
<1>5. WritesAnswered(t)
  <2>1. ASSUME NEW v \in s.writes, v.by # 0 PROVE v.by \in Id
    BY <2>1 DEF ServerOK, ServerTyped, Write, Id
  <2> QED BY <1>1, <1>2, <2>1 DEF ServerOK, WritesAnswered
<1>6. Step(s, k, t)
  BY <1>2, <1>3, <1>4, <1>5 DEF Step, ServerOK
<1> QED BY <1>6 DEF t

LEMMA AppliedStep ==
  ASSUME NEW s, ServerOK(s),
         NEW k \in Id, Sound(k), s.ledger[k] = None, \A m \in Id : m < k => Done(s.ledger, m),
         NEW e \in Entity, NEW new \in Row
  PROVE  Step(s, k, [row    |-> [s.row EXCEPT ![e] = new],
                     ledger |-> [s.ledger EXCEPT ![k] = Reply("applied", new.version)],
                     writes |-> Written(s.writes, k, e, new.version)])
<1> DEFINE t == [row    |-> [s.row EXCEPT ![e] = new],
                 ledger |-> [s.ledger EXCEPT ![k] = Reply("applied", new.version)],
                 writes |-> Written(s.writes, k, e, new.version)]
           a == Reply("applied", new.version)
<1>1. /\ t = [row |-> t.row, ledger |-> t.ledger, writes |-> t.writes]
      /\ t.row = [s.row EXCEPT ![e] = new]
      /\ t.ledger = [s.ledger EXCEPT ![k] = a]
      /\ t.writes = Written(s.writes, k, e, new.version)
  OBVIOUS
<1>2. a \in Answer /\ a.status # "conflict" /\ new.version \in Nat /\ k \in 0 .. MaxOps
  BY DEF Answer, Reply, Row, Id
<1> HIDE DEF t, a
<1>3. /\ AnsweredInOrder(t.ledger) /\ ConflictsReal(t.ledger)
      /\ t.ledger \in [Id -> Answer \union {None}]
      /\ t.ledger[k] # None
      /\ \A m \in Id : s.ledger[m] # None => t.ledger[m] = s.ledger[m]
  <2>1. /\ s.ledger \in [Id -> Answer \union {None}]
        /\ AnsweredInOrder(s.ledger) /\ ConflictsReal(s.ledger)
    BY DEF ServerOK, ServerTyped
  <2>2. t.ledger = [s.ledger EXCEPT ![k] = a] /\ a \in Answer
        /\ (a.status = "conflict" => a.version # ops[k].base)
    BY <1>1, <1>2
  <2> QED BY <2>1, <2>2, AnswerAdded
<1>4. Numbered(t.writes) /\ Once(t.writes) /\ Ordered(t.writes)
  <2>1. \A m \in Id : m >= k => s.ledger[m] = None
    BY LaterUnanswered DEF ServerOK
  <2> QED BY <1>1, <1>2, <2>1, WriteAdded DEF ServerOK
<1>5. PICK w \in Write : /\ t.writes = s.writes \union {w} /\ w.by = k
                         /\ IsFiniteSet(t.writes)
  <2> DEFINE x == [n |-> Cardinality(s.writes) + 1, by |-> k, entity |-> e,
                   version |-> new.version]
  <2>1. x \in Write /\ t.writes = s.writes \union {x} /\ IsFiniteSet(t.writes)
    BY <1>1, <1>2, WriteTyped DEF ServerOK
  <2>2. x.by = k
    OBVIOUS
  <2> QED BY <2>1, <2>2
<1>6. ServerTyped(t)
  <2>1. t.row \in [Entity -> Row] /\ t.writes \subseteq Write
    BY <1>1, <1>5 DEF ServerOK, ServerTyped
  <2> QED BY <1>1, <1>3, <1>5, <2>1 DEF ServerTyped
<1>7. WritesAnswered(t)
  <2>1. ASSUME NEW v \in s.writes, v.by # 0 PROVE v.by \in Id
    BY <2>1 DEF ServerOK, ServerTyped, Write, Id
  <2> QED BY <1>3, <1>5, <2>1 DEF ServerOK, WritesAnswered
<1>8. Step(s, k, t)
  BY <1>3, <1>4, <1>6, <1>7 DEF Step, ServerOK
<1> QED BY <1>8 DEF t, a

\* The appliers.
LEMMA ApplierStep ==
  ASSUME OpsOK, NEW s, ServerOK(s),
         NEW k \in Id, Sound(k), s.ledger[k] = None, \A m \in Id : m < k => Done(s.ledger, m)
  PROVE  Step(s, k, Applier(s, k))
<1> DEFINE o == ops[k]
           r == s.row[o.entity]
<1>1. o \in OpRow /\ o.kind # "bad" /\ o.entity \in Entity /\ o.base \in Nat
  BY DEF OpsOK, Sound, Known, OpRow
<1>2. r \in Row /\ r.version \in Nat /\ r.deleted \in BOOLEAN
  BY <1>1 DEF ServerOK, ServerTyped, Row
<1>3. \A status \in {"applied", "conflict", "not_found"} :
        /\ Reply(status, r.version) \in Answer
        /\ Reply(status, r.version).status = status
        /\ Reply(status, r.version).version = r.version
  BY <1>2 DEF Reply, Answer
<1>4. o.kind \in {"update", "delete", "notify"}
  BY <1>1 DEF OpRow, Kinds
<1>5. CASE o.kind = "delete" /\ r.deleted
  <2>1. Applier(s, k) = [s EXCEPT !.ledger[k] = Reply("applied", r.version)]
    BY <1>5 DEF Applier
  <2> QED BY <1>3, <2>1, AnsweredStep
<1>6. CASE o.kind = "delete" /\ ~r.deleted
  <2> DEFINE new == [version |-> r.version + 1, deleted |-> TRUE]
  <2>1. new \in Row
    BY <1>2 DEF Row
  <2>2. Applier(s, k) = [row    |-> [s.row EXCEPT ![o.entity] = new],
                         ledger |-> [s.ledger EXCEPT ![k] = Reply("applied", new.version)],
                         writes |-> Written(s.writes, k, o.entity, new.version)]
    BY <1>6 DEF Applier
  <2> HIDE DEF new
  <2> QED BY <1>1, <2>1, <2>2, AppliedStep
<1>7. CASE o.kind # "delete" /\ r.deleted
  <2>1. Applier(s, k) = [s EXCEPT !.ledger[k] = Reply("not_found", r.version)]
    BY <1>7 DEF Applier
  <2> QED BY <1>3, <2>1, AnsweredStep
<1>8. CASE o.kind = "notify" /\ ~r.deleted
  <2>1. Applier(s, k) = [row    |-> [s.row EXCEPT ![o.entity] = r],
                         ledger |-> [s.ledger EXCEPT ![k] = Reply("applied", r.version)],
                         writes |-> Written(s.writes, k, o.entity, r.version)]
    BY <1>8 DEF Applier
  <2> QED BY <1>1, <1>2, <2>1, AppliedStep
<1>9. CASE o.kind = "update" /\ ~r.deleted /\ r.version # o.base
  <2>1. Applier(s, k) = [s EXCEPT !.ledger[k] = Reply("conflict", r.version)]
    BY <1>9 DEF Applier
  <2> QED BY <1>3, <1>9, <2>1, AnsweredStep
<1>10. CASE o.kind = "update" /\ ~r.deleted /\ r.version = o.base
  <2> DEFINE new == [r EXCEPT !.version = @ + 1]
  <2>1. new \in Row
    BY <1>2 DEF Row
  <2>2. Applier(s, k) = [row    |-> [s.row EXCEPT ![o.entity] = new],
                         ledger |-> [s.ledger EXCEPT ![k] = Reply("applied", new.version)],
                         writes |-> Written(s.writes, k, o.entity, new.version)]
    BY <1>10 DEF Applier
  <2> HIDE DEF new
  <2> QED BY <1>1, <2>1, <2>2, AppliedStep
<1> QED BY <1>2, <1>4, <1>5, <1>6, <1>7, <1>8, <1>9, <1>10

-----------------------------------------------------------------------------
(* A batch *)

\* The states a batch passes through, one for each operation there may be.
Passes(batch, f, n) ==
  f = [k \in 0 .. n |->
         IF k = 0 THEN Server
         ELSE IF k \in batch THEN ApplyOne(f[k - 1], k) ELSE f[k - 1]]

\* The recursion that AfterBatch is defined by has a solution.
LEMMA PassesExist ==
  ASSUME NEW batch
  PROVE  \A n \in Nat : \E f : Passes(batch, f, n)
<1> DEFINE T == {n \in Nat : \E f : Passes(batch, f, n)}
<1>1. 0 \in T
  <2>1. Passes(batch, [k \in 0 .. 0 |-> Server], 0)
    BY DEF Passes
  <2> QED BY <2>1
<1>2. ASSUME NEW n \in Nat, n \in T PROVE n + 1 \in T
  <2>1. PICK f : Passes(batch, f, n)
    BY <1>2
  <2> DEFINE last == IF n + 1 \in batch THEN ApplyOne(f[n], n + 1) ELSE f[n]
             g == [k \in 0 .. n + 1 |-> IF k = n + 1 THEN last ELSE f[k]]
  <2>2. ASSUME NEW k \in 0 .. n
        PROVE  g[k] = IF k = 0 THEN Server
                      ELSE IF k \in batch THEN ApplyOne(g[k - 1], k) ELSE g[k - 1]
    <3>1. f[k] = IF k = 0 THEN Server
                 ELSE IF k \in batch THEN ApplyOne(f[k - 1], k) ELSE f[k - 1]
      BY <2>1 DEF Passes
    <3>2. g[k] = f[k] /\ (k # 0 => g[k - 1] = f[k - 1])
      OBVIOUS
    <3> QED BY <3>1, <3>2
  <2>3. g[n + 1] = IF n + 1 \in batch THEN ApplyOne(g[n], n + 1) ELSE g[n]
    OBVIOUS
  <2>4. Passes(batch, g, n + 1)
    <3>1. \A k \in 0 .. n + 1 :
            g[k] = IF k = 0 THEN Server
                   ELSE IF k \in batch THEN ApplyOne(g[k - 1], k) ELSE g[k - 1]
      <4> HIDE DEF g
      <4>1. \A k \in 0 .. n + 1 : k \in 0 .. n \/ (k = n + 1 /\ k # 0 /\ k - 1 = n)
        OBVIOUS
      <4> QED BY <2>2, <2>3, <4>1
    <3>2. g = [k \in 0 .. n + 1 |-> g[k]]
      OBVIOUS
    <3> HIDE DEF g
    <3> QED BY <3>1, <3>2 DEF Passes
  <2> QED BY <2>4
<1> HIDE DEF T
<1>3. Nat \subseteq T
  BY <1>1, <1>2, SetInduction
<1> QED BY <1>3 DEF T

LEMMA AfterBatchPasses ==
  ASSUME NEW batch
  PROVE  \E f : Passes(batch, f, MaxOps) /\ AfterBatch(batch) = f[MaxOps]
<1> DEFINE f == CHOOSE after : Passes(batch, after, MaxOps)
<1>1. Passes(batch, f, MaxOps)
  BY PassesExist
<1>2. AfterBatch(batch) = f[MaxOps]
  BY DEF AfterBatch, Passes, Server
<1> QED BY <1>1, <1>2

\* What is asked of a batch: it is sound, and sent in order.
Servable(B) == B \subseteq Id /\ Sendable(B) /\ Parsed(B)

\* A batch leaves the server as it should be, with an answer to every
\* operation of the batch, and the answers there were.
LEMMA BatchServed ==
  ASSUME OpsOK, ServerOK(Server), NEW batch, Servable(batch)
  PROVE  /\ ServerOK(AfterBatch(batch))
         /\ \A k \in batch : AfterBatch(batch).ledger[k] # None
         /\ \A m \in Id : ledger[m] # None => AfterBatch(batch).ledger[m] = ledger[m]
<1>1. PICK f : Passes(batch, f, MaxOps) /\ AfterBatch(batch) = f[MaxOps]
  BY AfterBatchPasses
<1> DEFINE Good(n) == /\ ServerOK(f[n])
                      /\ \A k \in batch : k <= n => f[n].ledger[k] # None
                      /\ \A m \in Id : ledger[m] # None => f[n].ledger[m] = ledger[m]
           T == {n \in Nat : n <= MaxOps => Good(n)}
<1>2. \A n \in 0 .. MaxOps :
        f[n] = IF n = 0 THEN Server ELSE IF n \in batch THEN ApplyOne(f[n - 1], n) ELSE f[n - 1]
  BY <1>1 DEF Passes
<1>3. 0 \in T
  <2>1. f[0] = Server
    BY <1>2
  <2>2. \A k \in batch : k # 0 /\ k \in Nat
    BY DEF Servable, Id
  <2>3. Server.ledger = ledger
    BY DEF Server
  <2>4. Good(0)
    BY <2>1, <2>2, <2>3
  <2> QED BY <2>4
<1>4. ASSUME NEW n \in Nat, n \in T PROVE n + 1 \in T
  <2> SUFFICES ASSUME n + 1 <= MaxOps PROVE Good(n + 1)
    OBVIOUS
  <2>1. Good(n) /\ n + 1 \in Id /\ n + 1 \in 0 .. MaxOps /\ n + 1 # 0 /\ n + 1 - 1 = n
    BY <1>4 DEF Id
  <2>2. \A k \in batch : k <= n + 1 => k <= n \/ k = n + 1
    BY DEF Servable, Id
  <2>3. f[n + 1] = IF n + 1 \in batch THEN ApplyOne(f[n], n + 1) ELSE f[n]
    BY <1>2, <2>1
  <2> HIDE DEF T
  <2>4. CASE n + 1 \notin batch
    BY <2>1, <2>2, <2>3, <2>4
  <2>5. CASE n + 1 \in batch /\ f[n].ledger[n + 1] # None
    <3>1. f[n + 1] = f[n]
      BY <2>3, <2>5 DEF ApplyOne
    <3> QED BY <2>1, <2>2, <2>5, <3>1
  <2>6. CASE n + 1 \in batch /\ f[n].ledger[n + 1] = None
    <3>1. f[n + 1] = Applier(f[n], n + 1)
      BY <2>3, <2>6 DEF ApplyOne
    <3>2. Sound(n + 1)
      BY <2>1, <2>6 DEF Servable, Sendable, Parsed, Sound
    <3>3. \A m \in Id : m < n + 1 => Done(f[n].ledger, m)
      <4> SUFFICES ASSUME NEW m \in Id, m < n + 1 PROVE Done(f[n].ledger, m)
        OBVIOUS
      <4>1. m \in batch \/ Done(ledger, m)
        BY <2>6 DEF Servable, Sendable
      <4>2. m <= n
        BY DEF Id
      <4> QED BY <2>1, <4>1, <4>2 DEF Done
    <3>4. Step(f[n], n + 1, f[n + 1])
      BY <2>1, <2>6, <3>1, <3>2, <3>3, ApplierStep
    <3>5. \A k \in batch : k \in Id
      BY DEF Servable
    <3> QED BY <2>1, <2>2, <3>4, <3>5 DEF Step
  <2> QED BY <2>4, <2>5, <2>6
<1>5. MaxOps \in T
  <2> HIDE DEF T
  <2>1. Nat \subseteq T
    BY <1>3, <1>4, SetInduction
  <2> QED BY <2>1
<1>6. Good(MaxOps)
  BY <1>5
<1>7. \A k \in batch : k <= MaxOps
  BY DEF Servable, Id
<1> QED BY <1>1, <1>6, <1>7

\* The same, of the step of the server.
LEMMA ServeKeeps ==
  ASSUME OpsOK, ServerOK(Server), NEW batch, Servable(batch), Serve(batch), UNCHANGED ops
  PROVE  /\ ServerOK(Server)'
         /\ \A k \in batch : ledger'[k] # None
         /\ \A m \in Id : ledger[m] # None => ledger'[m] = ledger[m]
<1> DEFINE t == AfterBatch(batch)
<1>1. /\ ServerOK(t) /\ \A k \in batch : t.ledger[k] # None
      /\ \A m \in Id : ledger[m] # None => t.ledger[m] = ledger[m]
  BY BatchServed
<1>2. row' = t.row /\ ledger' = t.ledger /\ writes' = t.writes
  BY DEF Serve
<1> HIDE DEF t
<1>3. Server' = t
  BY <1>1, <1>2 DEF Server, ServerOK, ServerTyped
<1>4. ServerOK(Server)'
  BY <1>1, <1>3 DEF ServerOK, ServerTyped, WritesAnswered, Numbered, Once, Ordered,
       AnsweredInOrder, ConflictsReal, Sound, Known, Done
<1> QED BY <1>1, <1>2, <1>4

-----------------------------------------------------------------------------
(* What stands while operations are added and answers are given *)

Kept ==
  \A k \in Id : /\ Known(k) => ops'[k] = ops[k]
                /\ ledger[k] # None => ledger'[k] = ledger[k]

LEMMA OlderKnown ==
  ASSUME OpsOK, NEW k, Known(k), NEW m \in Id, m < k
  PROVE  Known(m)
BY DEF OpsOK, Known, Id

LEMMA DoneKept ==
  ASSUME Kept, NEW m \in Id, Known(m), Done(ledger, m)
  PROVE  Done(ledger, m)'
BY DEF Kept, Done

LEMMA SendableKept ==
  ASSUME OpsOK, Kept, NEW B, Sendable(B)
  PROVE  Sendable(B)'
<1> SUFFICES ASSUME NEW k \in B
             PROVE  Known(k)' /\ \A m \in Id : m < k => m \in B \/ Done(ledger, m)'
  BY DEF Sendable
<1>1. Known(k)
  BY DEF Sendable
<1>2. Known(k)'
  BY <1>1 DEF Known, Kept
<1>3. ASSUME NEW m \in Id, m < k, m \notin B PROVE Done(ledger, m)'
  <2>1. Known(m)
    BY <1>1, <1>3, OlderKnown
  <2>2. Done(ledger, m)
    BY <1>3 DEF Sendable
  <2> QED BY <2>1, <2>2, DoneKept
<1> QED BY <1>2, <1>3

LEMMA LateKept ==
  ASSUME OpsOK, Kept, LateOK, late' \subseteq late
  PROVE  LateOK'
BY SendableKept DEF LateOK

\* A request that the phone has given up was one it could send.
LEMMA LateGrows ==
  ASSUME OpsOK, Kept, LateOK, PushOK, push.pc = "post",
         late' \in {late, late \union {push.batch}}
  PROVE  LateOK'
<1>1. push.batch \subseteq Id /\ Sendable(push.batch)
  BY DEF PushOK, Push
<1> QED BY <1>1, SendableKept DEF LateOK

LEMMA AskedKept ==
  ASSUME Kept, AskedOK, asked' \subseteq asked
  PROVE  AskedOK'
BY DEF Kept, AskedOK

LEMMA LeftKept ==
  ASSUME Kept, LeftForAReason, pending \subseteq pending', settled \subseteq settled',
         \A k \in Id : Known(k)' => Known(k) \/ k \in pending'
  PROVE  LeftForAReason'
<1> SUFFICES ASSUME NEW k \in Id \ pending', Known(k)'
             PROVE  /\ Done(ledger, k)'
                    /\ k \in settled' \/ ops'[k].kind = "bad" \/ ledger'[k].status # "conflict"
  BY DEF LeftForAReason
<1>1. Known(k) /\ k \notin pending
  OBVIOUS
<1>2. Done(ledger, k) /\ (k \in settled \/ ops[k].kind = "bad" \/ ledger[k].status # "conflict")
  BY <1>1 DEF LeftForAReason
<1> QED BY <1>1, <1>2 DEF Kept, Done

LEMMA PushKept ==
  ASSUME OpsOK, Kept, PushOK, UNCHANGED push
  PROVE  PushOK'
<1>1. push.pc = "post" => Sendable(push.batch)' /\ Sendable(push.batch \union push.split)'
  BY SendableKept DEF PushOK
<1>2. push.pc = "reject" =>
        Sendable(push.batch)' /\ Sendable(push.batch \union push.split)' /\ ~Parsed(push.batch)'
  <2> SUFFICES ASSUME push.pc = "reject"
               PROVE  Sendable(push.batch)' /\ Sendable(push.batch \union push.split)'
                      /\ ~Parsed(push.batch)'
    OBVIOUS
  <2>1. PICK k \in push.batch : ops[k].kind = "bad"
    BY DEF PushOK, Parsed
  <2>2. Known(k)
    BY DEF PushOK, Sendable
  <2>3. ops'[k].kind = "bad"
    BY <2>1, <2>2 DEF Kept, Known
  <2>4. ~Parsed(push.batch)'
    BY <2>3 DEF Parsed
  <2> QED BY <2>4, SendableKept DEF PushOK
<1>3. push.pc = "answers" =>
        /\ Sendable(push.batch \union push.split)'
        /\ \A k \in push.batch : ledger'[k] # None
  BY SendableKept DEF PushOK, Push, Kept
<1> QED BY <1>1, <1>2, <1>3 DEF PushOK

\* A push that is over or about to read promises nothing.
LEMMA PushFresh ==
  ASSUME push' \in Push, push'.pc \in {"idle", "read"}
  PROVE  PushOK'
BY DEF PushOK

LEMMA IdleIsPush ==
  Idle \in Push /\ Idle.pc = "idle" /\ [Idle EXCEPT !.pc = "read"] \in Push
    /\ [Idle EXCEPT !.pc = "read"].pc = "read"
BY DEF Idle, Push, Steps

LEMMA PushMayStart ==
  ASSUME OpsOK, Kept, PushOK, PushPending
  PROVE  PushOK'
BY IdleIsPush, PushKept, PushFresh DEF PushPending

\* The server is as it should be as long as the operations it has answered are.
LEMMA ServerKept ==
  ASSUME OpsOK, Kept, ServerOK(Server), UNCHANGED <<row, ledger, writes>>
  PROVE  ServerOK(Server)'
<1>1. /\ Server.ledger = ledger /\ Server'.ledger = ledger
      /\ Server.writes = writes /\ Server'.writes = writes /\ Server' = Server
  BY DEF Server
<1>2. ServerTyped(Server)' /\ WritesAnswered(Server)' /\ Numbered(writes)' /\ Once(writes)'
      /\ Ordered(writes)'
  BY <1>1 DEF ServerOK, ServerTyped, WritesAnswered, Numbered, Once, Ordered
<1>3. ASSUME NEW k \in Id, ledger[k] # None
      PROVE  /\ Known(k) /\ ops'[k] = ops[k] /\ Sound(k)'
             /\ \A m \in Id : m < k => Done(ledger, m)'
  <2>1. Sound(k) /\ \A m \in Id : m < k => Done(ledger, m)
    BY <1>1, <1>3 DEF ServerOK, AnsweredInOrder
  <2>2. ops'[k] = ops[k]
    BY <2>1 DEF Sound, Kept
  <2>3. Sound(k)'
    BY <2>1, <2>2 DEF Sound, Known
  <2>4. \A m \in Id : m < k => Known(m)
    BY <2>1, OlderKnown DEF Sound
  <2> QED BY <2>1, <2>2, <2>3, <2>4, DoneKept DEF Sound
<1>4. AnsweredInOrder(ledger)'
  BY <1>3 DEF AnsweredInOrder
<1>5. ConflictsReal(ledger)'
  BY <1>1, <1>3 DEF ServerOK, ConflictsReal
<1> QED BY <1>1, <1>2, <1>4, <1>5 DEF ServerOK

LEMMA SameIsKept ==
  ASSUME UNCHANGED <<ops, ledger>>
  PROVE  Kept
BY DEF Kept

-----------------------------------------------------------------------------
(* The steps of the server *)

\* All of the phone's part that no step of the server touches.
LEMMA PhoneTypedKept ==
  ASSUME Kept, PhoneTyped, UNCHANGED <<cached, pulled, pending, ops, requeue>>
  PROVE  PhoneTyped'
BY DEF PhoneTyped, Known

LEMMA KnownSame ==
  ASSUME UNCHANGED ops
  PROVE  OpsOK => OpsOK' /\ \A k \in Id : Known(k)' => Known(k)
BY DEF OpsOK, Known

LEMMA ServedKept ==
  ASSUME OpsOK, ServerOK(Server), NEW batch, Servable(batch), Serve(batch), UNCHANGED ops
  PROVE  /\ Kept /\ ServerOK(Server)' /\ \A k \in batch : ledger'[k] # None
BY ServeKeeps DEF Kept

LEMMA ServeLateInv ==
  ASSUME OutboxInv, ServeLate
  PROVE  OutboxInv'
<1>1. PICK batch \in late :
        /\ late' = late \ {batch}
        /\ IF Parsed(batch) THEN Serve(batch) ELSE UNCHANGED <<row, ledger, writes>>
        /\ UNCHANGED <<phone, screen, push, failures, settled>>
  BY DEF ServeLate
<1> USE DEF phone, screen
<1>2. Kept /\ ServerOK(Server)'
  <2>1. CASE Parsed(batch)
    <3>1. Servable(batch)
      BY <2>1 DEF OutboxInv, LateOK, Servable
    <3> QED BY <1>1, <2>1, <3>1, ServedKept DEF OutboxInv
  <2>2. CASE ~Parsed(batch)
    BY <1>1, <2>2, SameIsKept, ServerKept DEF OutboxInv
  <2> QED BY <2>1, <2>2
<1>3. OpsOK' /\ \A k \in Id : Known(k)' => Known(k)
  BY <1>1, KnownSame DEF OutboxInv
<1>4. LateOK'
  BY <1>1, <1>2, LateKept DEF OutboxInv
<1>5. AskedOK' /\ PushOK'
  BY <1>1, <1>2, AskedKept, PushKept DEF OutboxInv
<1>6. LeftForAReason'
  BY <1>1, <1>2, <1>3, LeftKept DEF OutboxInv
<1>7. PhoneTyped'
  BY <1>1, <1>2, PhoneTypedKept DEF OutboxInv
<1> QED BY <1>2, <1>3, <1>4, <1>5, <1>6, <1>7 DEF OutboxInv

LEMMA OthersWriteInv ==
  ASSUME OutboxInv, NEW e \in Entity, OthersWrite(e)
  PROVE  OutboxInv'
<1> USE DEF phone, screen
<1>1. PICK deleted \in BOOLEAN :
        row' = [row EXCEPT ![e] = [version |-> @.version + 1, deleted |-> deleted]]
  BY DEF OthersWrite
<1>2. /\ writes' = Written(writes, 0, e, row[e].version + 1)
      /\ UNCHANGED <<ledger, late, cached, pulled, ops, pending, asked, requeue, push, settled>>
  BY DEF OthersWrite
<1>3. /\ row \in [Entity -> Row] /\ row[e].version + 1 \in Nat
      /\ Server = [row |-> row, ledger |-> ledger, writes |-> writes]
      /\ Server.writes = writes /\ Server.ledger = ledger
      /\ Server'.writes = writes' /\ Server'.ledger = ledger
  BY <1>2 DEF OutboxInv, ServerOK, ServerTyped, Server, Row
<1>4. Kept
  BY <1>2, SameIsKept
<1>5. ServerOK(Server)'
  <2>1. ServerTyped(Server) /\ WritesAnswered(Server) /\ Numbered(Server.writes)
        /\ Once(Server.writes) /\ Ordered(Server.writes)
    BY DEF OutboxInv, ServerOK
  <2>2. Numbered(Server'.writes) /\ Once(Server'.writes) /\ Ordered(Server'.writes)
    BY <1>2, <1>3, <2>1, WriteAdded
  <2>3. PICK w \in Write : /\ writes' = writes \union {w} /\ w.by = 0 /\ IsFiniteSet(writes')
    <3> DEFINE x == [n |-> Cardinality(writes) + 1, by |-> 0, entity |-> e,
                     version |-> row[e].version + 1]
    <3>1. x \in Write /\ writes' = writes \union {x} /\ IsFiniteSet(writes')
      BY <1>2, <1>3, <2>1, WriteTyped
    <3> QED BY <3>1
  <2>4. ServerTyped(Server')
    <3>1. row' \in [Entity -> Row]
      BY <1>1, <1>3 DEF Row
    <3>2. writes' \subseteq Write /\ ledger' \in [Id -> Answer \union {None}]
      BY <1>2, <1>3, <2>1, <2>3 DEF ServerTyped
    <3>3. Server' = [row |-> row', ledger |-> ledger', writes |-> writes']
      BY DEF Server
    <3> QED BY <2>3, <3>1, <3>2, <3>3 DEF ServerTyped
  <2>5. WritesAnswered(Server')
    BY <1>3, <2>1, <2>3 DEF WritesAnswered
  <2>6. AnsweredInOrder(ledger)' /\ ConflictsReal(ledger)'
    BY <1>2, <1>3 DEF OutboxInv, ServerOK, AnsweredInOrder, ConflictsReal, Sound, Known, Done
  <2> QED BY <1>2, <1>3, <2>2, <2>4, <2>5, <2>6
           DEF ServerOK, ServerTyped, WritesAnswered, Numbered, Once, Ordered
<1>6. OpsOK' /\ \A k \in Id : Known(k)' => Known(k)
  BY <1>2, KnownSame DEF OutboxInv
<1>7. LateOK'
  BY <1>2, <1>4, LateKept DEF OutboxInv
<1>8. AskedOK' /\ PushOK'
  BY <1>2, <1>4, AskedKept, PushKept DEF OutboxInv
<1>9. LeftForAReason'
  BY <1>2, <1>4, <1>6, LeftKept DEF OutboxInv
<1>10. PhoneTyped'
  BY <1>2, <1>4, PhoneTypedKept DEF OutboxInv
<1> QED BY <1>5, <1>6, <1>7, <1>8, <1>9, <1>10 DEF OutboxInv

-----------------------------------------------------------------------------
(* The steps of the user *)

\* Everything but the phone's typing and its push, when nothing was answered
\* or taken back and no operation was added.
LEMMA QuietInv ==
  ASSUME OutboxInv, UNCHANGED <<row, ledger, writes, ops>>,
         pending \subseteq pending', settled \subseteq settled', asked' \subseteq asked
  PROVE  Kept /\ ServerOK(Server)' /\ OpsOK' /\ LeftForAReason' /\ AskedOK'
<1>1. Kept
  BY SameIsKept
<1>2. OpsOK' /\ \A k \in Id : Known(k)' => Known(k)
  BY KnownSame DEF OutboxInv
<1> QED BY <1>1, <1>2, ServerKept, LeftKept, AskedKept DEF OutboxInv

LEMMA PullInv ==
  ASSUME OutboxInv, NEW e \in Entity, Pull(e)
  PROVE  OutboxInv'
<1> USE DEF server, phone, screen, history
<1>1. /\ UNCHANGED <<row, ledger, writes, ops, late, pending, settled, asked, push, requeue>>
      /\ cached' = [cached EXCEPT ![e] = row[e]]
      /\ pulled' = [pulled EXCEPT ![e] = row[e].version]
  BY DEF Pull
<1>2. Kept /\ ServerOK(Server)' /\ OpsOK' /\ LeftForAReason' /\ AskedOK'
  BY <1>1, QuietInv
<1>3. LateOK' /\ PushOK'
  BY <1>1, <1>2, LateKept, PushKept DEF OutboxInv
<1>4. row[e] \in Row /\ row[e].version \in Nat
  BY DEF OutboxInv, ServerOK, ServerTyped, Server, Row
<1>5. PhoneTyped'
  BY <1>1, <1>4 DEF OutboxInv, PhoneTyped, Known
<1> QED BY <1>2, <1>3, <1>5 DEF OutboxInv

\* The number of the next operation is that of no other.
LEMMA NextId ==
  ASSUME OpsOK, Last < MaxOps
  PROVE  /\ Last + 1 \in Id /\ ~Known(Last + 1)
         /\ \A k \in Id : Known(k) <=> k < Last + 1
<1>1. PICK c \in 0 .. MaxOps : \A k \in Id : ops[k] # None <=> k <= c
  BY DEF OpsOK
<1>2. {k \in Id : ops[k] # None} = 1 .. c
  BY <1>1 DEF Id
<1>3. Last = c
  <2>1. Cardinality(1 .. c) = c
    BY FS_Interval
  <2> QED BY <1>2, <2>1 DEF Last
<1> QED BY <1>1, <1>3 DEF Known, Id

LEMMA Inserted ==
  ASSUME OpsOK, NEW o \in OpRow, Insert(o), UNCHANGED ledger
  PROVE  /\ OpsOK' /\ Kept
         /\ \A k \in Id : Known(k) => Known(k)'
         /\ \A k \in Id : Known(k)' => Known(k) \/ k \in pending'
         /\ \A k \in pending' : k \in pending \/ (k \in Id /\ Known(k)')
         /\ pending \subseteq pending'
<1>1. /\ Last + 1 \in Id /\ ~Known(Last + 1)
      /\ \A k \in Id : Known(k) <=> k < Last + 1
  BY NextId DEF Insert
<1>0. PICK n : n = Last + 1
  OBVIOUS
<1>2. /\ ops' = [ops EXCEPT ![n] = o] /\ pending' = pending \union {n}
      /\ o # None
  BY <1>0, NoneAssumption DEF Insert
<1>3. \A k \in Id : ops'[k] = IF k = n THEN o ELSE ops[k]
  BY <1>2 DEF OpsOK
<1>4. \A k \in Id : ops'[k] # None <=> k <= n
  BY <1>0, <1>1, <1>2, <1>3 DEF Known, Id
<1>5. OpsOK'
  <2>1. ops' \in [Id -> OpRow \union {None}]
    BY <1>2 DEF OpsOK
  <2>2. n \in 0 .. MaxOps
    BY <1>0, <1>1 DEF Id
  <2> QED BY <1>4, <2>1, <2>2 DEF OpsOK
<1>6. Kept
  BY <1>0, <1>1, <1>3 DEF Kept
<1>7. \A k \in Id : Known(k)' <=> k = n \/ Known(k)
  BY <1>2, <1>3 DEF Known
<1>8. n \in Id /\ Known(n)'
  BY <1>0, <1>1, <1>7
<1> QED BY <1>2, <1>5, <1>6, <1>7, <1>8

LEMMA QueueInv ==
  ASSUME OutboxInv, NEW e \in Entity, NEW kind \in Kinds, Queue(e, kind)
  PROVE  OutboxInv'
<1> USE DEF server, phone, screen, history
<1> DEFINE o == [kind |-> kind, entity |-> e, base |-> cached[e].version]
<1>1. /\ Insert(o) /\ PushPending
      /\ UNCHANGED <<row, ledger, late, pulled, asked, requeue, writes, settled>>
  BY DEF Queue
<1>2. cached[e] \in Row /\ cached[e].version \in Nat
  BY DEF OutboxInv, PhoneTyped, Row
<1>3. o \in OpRow
  BY <1>2 DEF OpRow
<1> HIDE DEF o
<1>4. /\ OpsOK' /\ Kept /\ pending \subseteq pending'
      /\ \A k \in Id : Known(k) => Known(k)'
      /\ \A k \in Id : Known(k)' => Known(k) \/ k \in pending'
      /\ \A k \in pending' : k \in pending \/ (k \in Id /\ Known(k)')
  BY <1>1, <1>3, Inserted DEF OutboxInv
<1>5. ServerOK(Server)' /\ LateOK' /\ AskedOK' /\ PushOK'
  BY <1>1, <1>4, ServerKept, LateKept, AskedKept, PushMayStart DEF OutboxInv
<1>6. LeftForAReason'
  BY <1>1, <1>4, LeftKept DEF OutboxInv
<1>7. cached' \in [Entity -> Row]
  <2>1. [version |-> cached[e].version + 1, deleted |-> kind = "delete"] \in Row
    BY <1>2 DEF Row
  <2> QED BY <2>1 DEF Queue, OutboxInv, PhoneTyped
<1>8. PhoneTyped'
  <2>1. pending' \subseteq {k \in Id : Known(k)'}
    BY <1>4 DEF OutboxInv, PhoneTyped
  <2> QED BY <1>1, <1>7, <2>1 DEF OutboxInv, PhoneTyped
<1> QED BY <1>4, <1>5, <1>6, <1>8 DEF OutboxInv

LEMMA RequeueInv ==
  ASSUME OutboxInv, Requeue
  PROVE  OutboxInv'
<1> USE DEF server, phone, screen, history
<1>1. /\ Insert(requeue) /\ PushPending /\ requeue' = None /\ requeue \in OpRow
      /\ UNCHANGED <<row, ledger, late, cached, pulled, asked, writes, settled>>
  BY DEF Requeue, OutboxInv, PhoneTyped
<1>2. /\ OpsOK' /\ Kept /\ pending \subseteq pending'
      /\ \A k \in Id : Known(k) => Known(k)'
      /\ \A k \in Id : Known(k)' => Known(k) \/ k \in pending'
      /\ \A k \in pending' : k \in pending \/ (k \in Id /\ Known(k)')
  BY <1>1, Inserted DEF OutboxInv
<1>3. ServerOK(Server)' /\ LateOK' /\ AskedOK' /\ PushOK'
  BY <1>1, <1>2, ServerKept, LateKept, AskedKept, PushMayStart DEF OutboxInv
<1>4. LeftForAReason'
  BY <1>1, <1>2, LeftKept DEF OutboxInv
<1>5. PhoneTyped'
  <2>1. pending' \subseteq {k \in Id : Known(k)'}
    BY <1>2 DEF OutboxInv, PhoneTyped
  <2> QED BY <1>1, <2>1 DEF OutboxInv, PhoneTyped
<1> QED BY <1>2, <1>3, <1>4, <1>5 DEF OutboxInv

\* A row the user gives up has had its answer.
LEMMA TakenBack ==
  ASSUME LeftForAReason, UNCHANGED <<ops, ledger>>, NEW k \in Id, ledger[k] # None,
         pending' = pending \ {k}, settled' = settled \union {k}
  PROVE  LeftForAReason'
BY DEF LeftForAReason, Known, Done

LEMMA DiscardInv ==
  ASSUME OutboxInv, NEW c \in asked, Discard(c)
  PROVE  OutboxInv'
<1> USE DEF server, phone, screen, history
<1>1. /\ UNCHANGED <<row, ledger, writes, ops, late, cached, pulled, push, requeue>>
      /\ asked' \subseteq asked
  BY DEF Discard
<1>2. Kept /\ OpsOK'
  BY <1>1, SameIsKept, KnownSame DEF OutboxInv
<1>3. ServerOK(Server)' /\ LateOK' /\ AskedOK' /\ PushOK'
  BY <1>1, <1>2, ServerKept, LateKept, AskedKept, PushKept DEF OutboxInv
<1>4. c.op \in Id /\ ledger[c.op] # None
  BY DEF OutboxInv, AskedOK
<1>5. LeftForAReason'
  <2>1. CASE UNCHANGED <<pending, settled>>
    BY <1>1, <1>2, <2>1, KnownSame, LeftKept DEF OutboxInv
  <2>2. CASE pending' = pending \ {c.op} /\ settled' = settled \union {c.op}
    BY <1>1, <1>4, <2>2, TakenBack DEF OutboxInv
  <2> QED BY <2>1, <2>2 DEF Discard
<1>6. PhoneTyped'
  <2>1. pending' \subseteq pending
    BY DEF Discard
  <2> QED BY <1>1, <2>1 DEF OutboxInv, PhoneTyped, Known
<1> QED BY <1>2, <1>3, <1>5, <1>6 DEF OutboxInv

LEMMA KeepMineInv ==
  ASSUME OutboxInv, NEW c \in asked, KeepMine(c)
  PROVE  OutboxInv'
<1> USE DEF server, phone, screen, history
<1>1. /\ UNCHANGED <<row, ledger, writes, ops, late, cached, pulled, push>>
      /\ asked' \subseteq asked
  BY DEF KeepMine
<1>2. Kept /\ OpsOK'
  BY <1>1, SameIsKept, KnownSame DEF OutboxInv
<1>3. ServerOK(Server)' /\ LateOK' /\ AskedOK' /\ PushOK'
  BY <1>1, <1>2, ServerKept, LateKept, AskedKept, PushKept DEF OutboxInv
<1>4. c.op \in Id /\ ledger[c.op] # None /\ c.version \in Nat
  BY DEF OutboxInv, AskedOK
<1>5. CASE c.op \notin pending
  <2>1. UNCHANGED <<pending, settled, requeue>>
    BY <1>5 DEF KeepMine
  <2>2. LeftForAReason'
    BY <1>1, <1>2, <2>1, KnownSame, LeftKept DEF OutboxInv
  <2>3. PhoneTyped'
    BY <1>1, <2>1 DEF OutboxInv, PhoneTyped, Known
  <2> QED BY <1>2, <1>3, <2>2, <2>3 DEF OutboxInv
<1>6. CASE c.op \in pending
  <2>1. /\ pending' = pending \ {c.op} /\ settled' = settled \union {c.op}
        /\ requeue' = [ops[c.op] EXCEPT !.base = c.version]
    BY <1>6 DEF KeepMine
  <2>2. LeftForAReason'
    BY <1>1, <1>4, <2>1, TakenBack DEF OutboxInv
  <2>3. requeue' \in OpRow
    <3>1. ops[c.op] \in OpRow
      BY <1>4, <1>6 DEF OutboxInv, OpsOK, PhoneTyped, Known
    <3> QED BY <1>4, <2>1, <3>1 DEF OpRow
  <2>4. PhoneTyped'
    BY <1>1, <2>1, <2>3 DEF OutboxInv, PhoneTyped, Known
  <2> QED BY <1>2, <1>3, <2>2, <2>4 DEF OutboxInv
<1> QED BY <1>5, <1>6

-----------------------------------------------------------------------------
(* The steps of a push *)

LEMMA OldestIs ==
  ASSUME NEW S, S \subseteq Id, S # {}
  PROVE  Oldest(S) \in S /\ \A m \in S : Oldest(S) <= m
<1>1. S \in SUBSET Nat
  BY DEF Id
<1>2. \E k \in S : \A m \in S : k <= m
  BY <1>1, LeastExists
<1> QED BY <1>2 DEF Oldest

\* Of the oldest rows none is left out for a newer one.
LEMMA FirstRowsSendable ==
  ASSUME OpsOK, PhoneTyped, LeftForAReason
  PROVE  FirstRows(pending) \subseteq Id /\ Sendable(FirstRows(pending))
<1>1. FirstRows(pending) \subseteq pending /\ \A k \in pending : k \in Id /\ Known(k)
  BY DEF FirstRows, PhoneTyped
<1>2. ASSUME NEW k \in FirstRows(pending), NEW m \in Id, m < k, m \in pending
      PROVE  m \in FirstRows(pending)
  <2> DEFINE Upto(n) == {j \in pending : j <= n}
  <2>1. IsFiniteSet(Upto(k)) /\ Cardinality(Upto(k)) <= Limit
    <3>1. Upto(k) \subseteq Id /\ IsFiniteSet(Id)
      BY <1>1, FS_Interval DEF Id
    <3> QED BY <3>1, FS_Subset DEF FirstRows
  <2>2. Upto(m) \subseteq Upto(k)
    <3>1. \A j \in pending : j <= m => j <= k
      <4>1. \A j \in pending : j \in Nat
        BY <1>1 DEF Id
      <4>2. k \in Nat /\ m \in Nat
        BY <1>1, <4>1 DEF Id
      <4> QED BY <1>2, <4>1, <4>2
    <3> QED BY <3>1
  <2>3. Cardinality(Upto(m)) <= Cardinality(Upto(k)) /\ IsFiniteSet(Upto(m))
    BY <2>1, <2>2, FS_Subset
  <2>4. Cardinality(Upto(m)) <= Limit
    BY <2>1, <2>3, FS_CardinalityType
  <2> QED BY <1>2, <2>4 DEF FirstRows
<1>3. ASSUME NEW k \in FirstRows(pending), NEW m \in Id, m < k, m \notin FirstRows(pending)
      PROVE  Done(ledger, m)
  <2>1. Known(m)
    BY <1>1, <1>3, OlderKnown
  <2>2. m \notin pending
    BY <1>2, <1>3
  <2> QED BY <2>1, <2>2 DEF LeftForAReason
<1> QED BY <1>1, <1>3 DEF Sendable

LEMMA ReadBatchInv ==
  ASSUME OutboxInv, ReadBatch
  PROVE  OutboxInv'
<1> USE DEF server, phone, screen, history
<1>1. UNCHANGED <<row, ledger, writes, ops, late, cached, pulled, pending, asked, requeue, settled>>
  BY DEF ReadBatch
<1>2. Kept /\ ServerOK(Server)' /\ OpsOK' /\ LeftForAReason' /\ AskedOK'
  BY <1>1, QuietInv
<1>3. LateOK' /\ PhoneTyped'
  BY <1>1, <1>2, LateKept, PhoneTypedKept DEF OutboxInv
<1>4. PushOK'
  <2>1. CASE push' = Idle
    BY <2>1, IdleIsPush, PushFresh
  <2>2. CASE push' = [Idle EXCEPT !.pc = "post", !.batch = FirstRows(pending),
                                  !.full = Cardinality(pending) >= Limit]
    <3>1. FirstRows(pending) \subseteq Id /\ Sendable(FirstRows(pending))
      BY FirstRowsSendable DEF OutboxInv
    <3>2. Sendable(FirstRows(pending))'
      <4>1. PICK B : B = FirstRows(pending)
        OBVIOUS
      <4>2. Sendable(B)'
        BY <1>2, <3>1, <4>1, SendableKept DEF OutboxInv
      <4> QED BY <1>1, <4>1, <4>2 DEF FirstRows
    <3>3. /\ push' \in Push /\ push'.pc = "post"
          /\ push'.batch = FirstRows(pending)' /\ push'.split = {}
      <4> DEFINE full == Cardinality(pending) >= Limit
      <4>1. full \in BOOLEAN
        OBVIOUS
      <4>2. push' = [pc |-> "post", batch |-> FirstRows(pending), todo |-> {}, split |-> {},
                     full |-> full]
        BY <2>2 DEF Idle
      <4>3. FirstRows(pending)' = FirstRows(pending)
        BY <1>1 DEF FirstRows
      <4> HIDE DEF full
      <4> QED BY <3>1, <4>1, <4>2, <4>3 DEF Push, Steps
    <3> QED BY <3>2, <3>3 DEF PushOK
  <2> QED BY <2>1, <2>2 DEF ReadBatch
<1> QED BY <1>2, <1>3, <1>4 DEF OutboxInv

LEMMA PostInv ==
  ASSUME OutboxInv, Post
  PROVE  OutboxInv'
<1> USE DEF server, phone, screen, history
<1>1. /\ UNCHANGED <<ops, late, cached, pulled, pending, asked, requeue, settled>>
      /\ push.pc = "post" /\ push \in Push
      /\ Sendable(push.batch) /\ Sendable(push.batch \union push.split)
  BY DEF Post, OutboxInv, PushOK
<1>2. OpsOK' /\ \A k \in Id : Known(k)' => Known(k)
  BY <1>1, KnownSame DEF OutboxInv
<1>3. Kept /\ ServerOK(Server)' /\ PushOK'
  <2>1. CASE Parsed(push.batch)
    <3>1. Serve(push.batch) /\ push' = [push EXCEPT !.pc = "answers", !.todo = push.batch]
      BY <2>1 DEF Post
    <3>2. Servable(push.batch)
      BY <1>1, <2>1 DEF Servable, Push
    <3>3. Kept /\ ServerOK(Server)' /\ \A k \in push.batch : ledger'[k] # None
      BY <1>1, <3>1, <3>2, ServedKept DEF OutboxInv
    <3>4. /\ push' \in Push /\ push'.pc = "answers"
          /\ push'.batch = push.batch /\ push'.split = push.split /\ push'.todo = push.batch
      BY <1>1, <3>1 DEF Push, Steps
    <3>5. Sendable(push.batch \union push.split)'
      <4>1. PICK B : B = push.batch \union push.split
        OBVIOUS
      <4>2. Sendable(B)'
        BY <1>1, <3>3, <4>1, SendableKept DEF OutboxInv
      <4> QED BY <3>4, <4>1, <4>2
    <3> QED BY <3>3, <3>4, <3>5 DEF PushOK
  <2>2. CASE ~Parsed(push.batch)
    <3>1. UNCHANGED <<row, ledger, writes>> /\ push' = [push EXCEPT !.pc = "reject"]
      BY <2>2 DEF Post
    <3>2. Kept
      BY <1>1, <3>1, SameIsKept
    <3>3. /\ push' \in Push /\ push'.pc = "reject"
          /\ push'.batch = push.batch /\ push'.split = push.split
      BY <1>1, <3>1 DEF Push, Steps
    <3>4. PushOK'
      BY <1>1, <2>2, <3>1, <3>3 DEF PushOK, Parsed, Sendable, Known, Done
    <3> QED BY <1>1, <3>1, <3>2, <3>4, ServerKept DEF OutboxInv
  <2> QED BY <2>1, <2>2
<1>4. LateOK' /\ AskedOK' /\ LeftForAReason' /\ PhoneTyped'
  BY <1>1, <1>2, <1>3, LateKept, AskedKept, LeftKept, PhoneTypedKept DEF OutboxInv
<1> QED BY <1>2, <1>3, <1>4 DEF OutboxInv

\* The next row of a split may be sent: the ones before it have been done with.
LEMMA Proceeds ==
  ASSUME PushOK, UNCHANGED <<ops, ledger>>, push' = Proceed,
         Sendable(push.batch \union push.split),
         \A k \in push.batch : Done(ledger, k)
  PROVE  PushOK'
<1>1. push \in Push /\ push.split \subseteq Id
  BY DEF PushOK, Push
<1>2. CASE push.split = {}
  <2>1. push' \in {Idle, [Idle EXCEPT !.pc = "read"]}
    BY <1>2 DEF Proceed
  <2> QED BY <2>1, IdleIsPush, PushFresh
<1>3. CASE push.split # {}
  <2>1. PICK k : k = Oldest(push.split)
    OBVIOUS
  <2>2. k \in push.split /\ \A m \in push.split : k <= m
    BY <1>1, <1>3, <2>1, OldestIs
  <2>3. push' = [push EXCEPT !.pc = "post", !.batch = {k}, !.todo = {}, !.split = @ \ {k}]
    BY <1>3, <2>1 DEF Proceed
  <2>4. /\ push' \in Push /\ push'.pc = "post" /\ push'.batch = {k}
        /\ push'.split = push.split \ {k}
    <3>1. push' = [pc |-> "post", batch |-> {k}, todo |-> {}, split |-> push.split \ {k},
                   full |-> push.full]
      BY <1>1, <2>3 DEF Push
    <3>2. push.full \in BOOLEAN /\ {k} \subseteq Id
      BY <1>1, <2>2 DEF Push
    <3> QED BY <1>1, <3>1, <3>2 DEF Push, Steps
  <2>5. Sendable({k}) /\ Sendable(push.split)
    <3>1. \A j \in push.split : Known(j) /\ j \in Id
      BY <1>1 DEF Sendable
    <3>2. \A j \in push.split : \A m \in Id : m < j => m \in push.split \/ Done(ledger, m)
      BY DEF Sendable
    <3>3. \A m \in Id : m < k => m \notin push.split
      BY <1>1, <2>2 DEF Id
    <3> QED BY <2>2, <3>1, <3>2, <3>3 DEF Sendable
  <2>6. push'.batch \union push'.split = push.split
    BY <2>2, <2>4
  <2>7. Sendable(push.batch)' /\ Sendable(push.batch \union push.split)'
    BY <2>4, <2>5, <2>6 DEF Sendable, Known, Done
  <2> QED BY <2>4, <2>7 DEF PushOK
<1> QED BY <1>2, <1>3

LEMMA RejectInv ==
  ASSUME OutboxInv, Reject
  PROVE  OutboxInv'
<1> USE DEF server, phone, screen, history
<1>1. /\ UNCHANGED <<row, ledger, writes, ops, late, cached, pulled, asked, requeue, settled>>
      /\ push.pc = "reject" /\ push \in Push /\ push.batch \subseteq Id
      /\ Sendable(push.batch) /\ Sendable(push.batch \union push.split)
      /\ ~Parsed(push.batch)
  BY DEF Reject, OutboxInv, PushOK, Push
<1>2. Kept /\ OpsOK'
  BY <1>1, SameIsKept, KnownSame DEF OutboxInv
<1>3. ServerOK(Server)' /\ LateOK' /\ AskedOK'
  BY <1>1, <1>2, ServerKept, LateKept, AskedKept DEF OutboxInv
<1>4. PICK bad \in push.batch : ops[bad].kind = "bad"
  BY <1>1 DEF Parsed
<1>5. IsFiniteSet(push.batch)
  BY <1>1, FS_Interval, FS_Subset DEF Id
<1>6. CASE Cardinality(push.batch) > 1
  <2>1. PICK k : k = Oldest(push.batch)
    OBVIOUS
  <2>2. /\ push' = [push EXCEPT !.pc = "post", !.batch = {k}, !.split = push.batch \ {k}]
        /\ UNCHANGED pending
    BY <1>6, <2>1 DEF Reject
  <2>3. k \in push.batch /\ \A m \in push.batch : k <= m
    BY <1>1, <1>4, <2>1, OldestIs
  <2>4. /\ push' \in Push /\ push'.pc = "post" /\ push'.batch = {k}
        /\ push'.batch \union push'.split = push.batch
    BY <1>1, <2>2, <2>3 DEF Push, Steps
  <2>5. Sendable({k})
    <3>1. \A m \in Id : m < k => m \notin push.batch
      BY <1>1, <2>3 DEF Id
    <3> QED BY <1>1, <2>3, <3>1 DEF Sendable
  <2>6. Sendable(push.batch)' /\ Sendable(push.batch \union push.split)'
    BY <1>1, <2>4, <2>5 DEF Sendable, Known, Done
  <2>7. PushOK'
    BY <2>4, <2>6 DEF PushOK
  <2>8. LeftForAReason' /\ PhoneTyped'
    BY <1>1, <1>2, <2>2, KnownSame, LeftKept, PhoneTypedKept DEF OutboxInv
  <2> QED BY <1>2, <1>3, <2>7, <2>8 DEF OutboxInv
<1>7. CASE ~(Cardinality(push.batch) > 1)
  <2>1. pending' = pending \ push.batch /\ push' = Proceed
    BY <1>7 DEF Reject
  <2>2. push.batch = {bad}
    <3>1. Cardinality(push.batch) \in Nat /\ Cardinality(push.batch) # 0
      BY <1>4, <1>5, FS_CardinalityType, FS_EmptySet
    <3>2. Cardinality(push.batch) = 1
      BY <1>7, <3>1
    <3> QED BY <1>4, <1>5, <3>2, FS_Singleton
  <2>3. \A k \in push.batch : Done(ledger, k)
    BY <1>4, <2>2 DEF Done
  <2>4. PushOK'
    BY <1>1, <2>1, <2>3, Proceeds DEF OutboxInv
  <2>5. LeftForAReason'
    BY <1>1, <1>4, <2>1, <2>2 DEF OutboxInv, LeftForAReason, Known, Done
  <2>6. PhoneTyped'
    BY <1>1, <2>1 DEF OutboxInv, PhoneTyped, Known
  <2> QED BY <1>2, <1>3, <2>4, <2>5, <2>6 DEF OutboxInv
<1> QED BY <1>6, <1>7

LEMMA ResultInv ==
  ASSUME OutboxInv, Result
  PROVE  OutboxInv'
<1> USE DEF server, phone, screen, history
<1>1. PICK k : k = Oldest(push.todo)
  OBVIOUS
<1>2. /\ push.pc = "answers" /\ push.todo # {}
      /\ pending' = IF ledger[k].status = "conflict" THEN pending ELSE pending \ {k}
      /\ \/ UNCHANGED asked
         \/ /\ ledger[k].status = "conflict"
            /\ asked' = asked \union {[op |-> k, version |-> ledger[k].version]}
      /\ push' = [push EXCEPT !.todo = @ \ {k}]
      /\ UNCHANGED <<row, ledger, writes, ops, late, cached, pulled, requeue, settled>>
  BY <1>1 DEF Result
<1>3. /\ push \in Push /\ push.todo \subseteq push.batch /\ push.todo \subseteq Id
      /\ Sendable(push.batch \union push.split)
      /\ \A m \in push.batch : ledger[m] # None
  BY <1>2 DEF OutboxInv, PushOK, Push
<1>4. k \in push.todo /\ k \in Id /\ ledger[k] # None
  BY <1>1, <1>2, <1>3, OldestIs
<1>5. Kept /\ OpsOK'
  BY <1>2, SameIsKept, KnownSame DEF OutboxInv
<1>6. ServerOK(Server)' /\ LateOK'
  BY <1>2, <1>5, ServerKept, LateKept DEF OutboxInv
<1>7. AskedOK'
  <2>1. ledger[k] \in Answer
    BY <1>4 DEF OutboxInv, ServerOK, ServerTyped, Server
  <2>2. ledger[k].version \in Nat
    BY <2>1 DEF Answer
  <2>3. AskedOK
    BY DEF OutboxInv
  <2> QED BY <1>2, <1>4, <2>2, <2>3 DEF AskedOK
<1>8. LeftForAReason'
  <2>1. CASE ledger[k].status = "conflict"
    BY <1>2, <1>5, <2>1, KnownSame, LeftKept DEF OutboxInv
  <2>2. CASE ledger[k].status # "conflict"
    BY <1>2, <1>4, <2>2 DEF OutboxInv, LeftForAReason, Known, Done
  <2> QED BY <2>1, <2>2
<1>9. PhoneTyped'
  BY <1>2 DEF OutboxInv, PhoneTyped, Known
<1>10. PushOK'
  <2>1. /\ push' \in Push /\ push'.pc = "answers" /\ push'.batch = push.batch
        /\ push'.split = push.split /\ push'.todo = push.todo \ {k}
    BY <1>2, <1>3 DEF Push
  <2>2. Sendable(push.batch \union push.split)'
    BY <1>2, <1>3, <2>1 DEF Sendable, Known, Done
  <2> QED BY <1>2, <1>3, <2>1, <2>2 DEF PushOK
<1> QED BY <1>5, <1>6, <1>7, <1>8, <1>9, <1>10 DEF OutboxInv

LEMMA AnsweredInv ==
  ASSUME OutboxInv, Answered
  PROVE  OutboxInv'
<1> USE DEF server, phone, screen, history
<1>1. /\ push.pc = "answers" /\ push' = Proceed
      /\ UNCHANGED <<row, ledger, writes, ops, late, cached, pulled, pending, asked, requeue, settled>>
  BY DEF Answered
<1>2. Kept /\ ServerOK(Server)' /\ OpsOK' /\ LeftForAReason' /\ AskedOK'
  BY <1>1, QuietInv
<1>3. LateOK' /\ PhoneTyped'
  BY <1>1, <1>2, LateKept, PhoneTypedKept DEF OutboxInv
<1>4. PushOK'
  <2>1. Sendable(push.batch \union push.split) /\ \A k \in push.batch : Done(ledger, k)
    BY <1>1 DEF OutboxInv, PushOK, Done
  <2> QED BY <1>1, <2>1, Proceeds DEF OutboxInv
<1> QED BY <1>2, <1>3, <1>4 DEF OutboxInv

LEMMA GiveUpInv ==
  ASSUME OutboxInv, GiveUp
  PROVE  OutboxInv'
<1> USE DEF server, phone, screen, history
<1>1. /\ push.pc = "post" /\ push' = Idle /\ late' \in {late, late \union {push.batch}}
      /\ UNCHANGED <<row, ledger, writes, ops, cached, pulled, pending, asked, requeue, settled>>
  BY DEF GiveUp
<1>2. Kept /\ ServerOK(Server)' /\ OpsOK' /\ LeftForAReason' /\ AskedOK'
  BY <1>1, QuietInv
<1>3. LateOK' /\ PhoneTyped' /\ PushOK'
  BY <1>1, <1>2, LateGrows, PhoneTypedKept, IdleIsPush, PushFresh DEF OutboxInv
<1> QED BY <1>2, <1>3 DEF OutboxInv

LEMMA KillInv ==
  ASSUME OutboxInv, Kill
  PROVE  OutboxInv'
<1> USE DEF server, phone, screen, history
<1>1. /\ push' = Idle /\ requeue' = None /\ asked' = {}
      /\ late' \in {late} \union (IF push.pc = "post" THEN {late \union {push.batch}} ELSE {})
      /\ UNCHANGED <<row, ledger, writes, ops, cached, pulled, pending, settled>>
  BY DEF Kill
<1>2. Kept /\ ServerOK(Server)' /\ OpsOK' /\ LeftForAReason' /\ AskedOK'
  BY <1>1, QuietInv
<1>3. LateOK'
  BY <1>1, <1>2, LateGrows, LateKept DEF OutboxInv
<1>4. PhoneTyped' /\ PushOK'
  BY <1>1, IdleIsPush, PushFresh DEF OutboxInv, PhoneTyped, Known
<1> QED BY <1>2, <1>3, <1>4 DEF OutboxInv

-----------------------------------------------------------------------------
(* The theorems *)

LEMMA InitInv == Init => OutboxInv
<1> SUFFICES ASSUME Init PROVE OutboxInv
  OBVIOUS
<1>1. [version |-> 1, deleted |-> FALSE] \in Row /\ Idle \in Push /\ Idle.pc = "idle"
  BY IdleIsPush DEF Row
<1>2. /\ row \in [Entity -> Row] /\ ledger = [k \in Id |-> None] /\ late = {}
      /\ cached = row /\ pulled = [e \in Entity |-> 1]
      /\ ops = [k \in Id |-> None] /\ pending = {} /\ push = Idle /\ asked = {}
      /\ requeue = None /\ writes = {} /\ settled = {}
  BY <1>1 DEF Init
<1>3. Server.ledger = ledger /\ Server.writes = writes /\ ServerTyped(Server)
  BY <1>2, FS_EmptySet DEF Server, ServerTyped
<1>4. \A k \in Id : ledger[k] = None /\ ops[k] = None
  BY <1>2
<1>5. ServerOK(Server)
  BY <1>2, <1>3, <1>4
    DEF ServerOK, WritesAnswered, Numbered, Once, Ordered, AnsweredInOrder, ConflictsReal
<1>6. OpsOK
  <2>1. 0 \in 0 .. MaxOps /\ \A k \in Id : ops[k] # None <=> k <= 0
    BY <1>4 DEF Id
  <2>2. ops \in [Id -> OpRow \union {None}]
    BY <1>2
  <2> QED BY <2>1, <2>2 DEF OpsOK
<1>7. PhoneTyped /\ LeftForAReason /\ AskedOK /\ LateOK
  BY <1>2, <1>4 DEF PhoneTyped, LeftForAReason, AskedOK, LateOK, Known
<1>8. PushOK
  BY <1>1, <1>2 DEF PushOK
<1> QED BY <1>5, <1>6, <1>7, <1>8 DEF OutboxInv

LEMMA StutterInv ==
  ASSUME OutboxInv, UNCHANGED vars
  PROVE  OutboxInv'
<1> USE DEF server, phone, screen, history
<1>1. UNCHANGED <<row, ledger, late, writes, ops, cached, pulled, pending, asked, requeue,
                  settled, push>>
  BY DEF vars
<1>2. Kept /\ ServerOK(Server)' /\ OpsOK' /\ LeftForAReason' /\ AskedOK'
  BY <1>1, QuietInv
<1> QED BY <1>1, <1>2, LateKept, PhoneTypedKept, PushKept DEF OutboxInv

LEMMA StepInv == OutboxInv /\ [Next]_vars => OutboxInv'
<1> SUFFICES ASSUME OutboxInv, [Next]_vars PROVE OutboxInv'
  OBVIOUS
<1>1. CASE ServeLate
  BY <1>1, ServeLateInv
<1>2. ASSUME NEW e \in Entity, OthersWrite(e) \/ Pull(e) PROVE OutboxInv'
  BY <1>2, OthersWriteInv, PullInv
<1>3. ASSUME NEW edit \in Edits, Queue(edit[1], edit[2]) PROVE OutboxInv'
  <2>1. edit[1] \in Entity /\ edit[2] \in Kinds
    OBVIOUS
  <2> QED BY <1>3, <2>1, QueueInv
<1>4. CASE PushStep
  BY <1>4, ReadBatchInv, PostInv, RejectInv, ResultInv, AnsweredInv DEF PushStep
<1>5. CASE GiveUp
  BY <1>5, GiveUpInv
<1>6. ASSUME NEW c \in asked, Discard(c) \/ KeepMine(c) PROVE OutboxInv'
  BY <1>6, DiscardInv, KeepMineInv
<1>7. CASE Requeue
  BY <1>7, RequeueInv
<1>8. CASE Kill
  BY <1>8, KillInv
<1>9. CASE UNCHANGED vars
  BY <1>9, StutterInv
<1> QED BY <1>1, <1>2, <1>3, <1>4, <1>5, <1>6, <1>7, <1>8, <1>9 DEF Next

LEMMA Invariance == Spec => []OutboxInv
BY InitInv, StepInv, PTL DEF Spec

\* However often a row is sent and however late a request arrives, the server
\* acts on it once (sync.md: the op_id makes retries safe).
THEOREM EditsActOnce == Spec => []EffectOnce
<1>1. OutboxInv => EffectOnce
  BY DEF OutboxInv, ServerOK, Once, Server, EffectOnce
<1> QED BY <1>1, Invariance, PTL

\* The server acts on a user's edits in the order in which they were made,
\* whatever was split, given up or late.
THEOREM EditsActInOrder == Spec => []EditsInOrder
<1>1. OutboxInv => EditsInOrder
  BY DEF OutboxInv, ServerOK, Ordered, Server, EditsInOrder
<1> QED BY <1>1, Invariance, PTL

\* A row leaves pending_ops only for one of the reasons there are for it.
THEOREM EditsAreKept == Spec => []NothingForgotten
<1>1. OutboxInv => NothingForgotten
  BY DEF OutboxInv, LeftForAReason, Known, Done, NothingForgotten, AnsweredInOrder, Sound,
         ServerOK, Server
<1> QED BY <1>1, Invariance, PTL

\* The user is asked only about conflicts with a version that is not the one
\* the edit was based on.
THEOREM ConflictsAreReal == Spec => []ConflictIsReal
<1>1. OutboxInv => ConflictIsReal
  BY DEF OutboxInv, ServerOK, ConflictsReal, AskedOK, Server, ConflictIsReal
<1> QED BY <1>1, Invariance, PTL
=============================================================================
