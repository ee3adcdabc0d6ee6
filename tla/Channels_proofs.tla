-------------------------- MODULE Channels_proofs --------------------------
(***************************************************************************)
(* Proofs about module Channels, for every set of handles, topics and      *)
(* keys, every backend and every bound: each backend is one atomic log, an *)
(* incremental reader of it misses no row, and a connection that a probe   *)
(* has called ended writes nothing more.                                   *)
(***************************************************************************)
EXTENDS Channels, FiniteSetTheorems, SequenceTheorems, TLAPS

-----------------------------------------------------------------------------
(* The inductive invariant. *)

Told == {"ready", "nothing", "seq", "None", "raised"}

ConnState == [client : BOOLEAN, server : BOOLEAN, key : Keys \cup {"none"}, id : Nat]

StmtState ==
  [at : {"none", "sent", "insert", "inserted", "committed"}, seq : Nat,
   topic : Topics \cup {""}, tries : Nat]

CallState == [expected : Nat, landed : Nat, told : Told]

Row == [seq : Nat, topic : Topics \cup {""}, by : Nat, key : Keys \cup {"none"}]

TypeInv ==
  /\ backend \in {"memory", "sqlite", "postgres"}
  /\ rows \in SUBSET Row
  /\ conn \in [Handles -> ConnState]
  /\ stmt \in [Handles -> StmtState]
  /\ call \in [Handles -> CallState]
  /\ probed \in SUBSET Nat
  /\ left \in [opens : Nat, calls : Nat, faults : Nat]

LogEnd == Cardinality(rows)

(* The seqs of the committed rows are 1, 2, ..., LogEnd. *)
RowsInv ==
  /\ IsFiniteSet(rows)
  /\ \A r \in rows : r.seq \in 1..LogEnd
  /\ \A k \in 1..LogEnd : \E r \in rows : r.seq = k

(* A statement's snapshot may be old, but one that has inserted holds the  *)
(* seq above the tail, and no other does: the primary key, or the file's   *)
(* lock, keeps rivals from it until it has committed.                      *)
CallsInv ==
  \A h \in Handles :
    LET s == stmt[h]
        c == call[h]
    IN  /\ s.at \in {"sent", "insert", "inserted"} => c.landed = 0
        /\ s.at = "committed" => c.landed # 0
        /\ s.at # "none" => c.told \in {"nothing", "raised"}
        /\ s.at \in {"insert", "inserted"} =>
             /\ backend # "memory" /\ s.seq \in 1..(LogEnd + 1)
             /\ c.expected \in {0, s.seq}
        /\ s.at = "inserted" =>
             /\ s.seq = LogEnd + 1
             /\ \A g \in Handles : g # h => stmt[g].at # "inserted"

(* A connection's id is its own for ever, and its key as long as its       *)
(* backend is there; a statement runs in a backend; and the backends of    *)
(* the connections that a probe has called ended are gone.                 *)
SessionsInv ==
  /\ \A h \in Handles :
       /\ stmt[h].at # "none" => conn[h].server
       /\ conn[h].server => conn[h].id > left.opens /\ conn[h].id \notin probed
       /\ \A g \in Handles :
            conn[h].server /\ conn[g].server /\ conn[h].id = conn[g].id => h = g
       /\ \A r \in rows : conn[h].server /\ conn[h].id = r.by => conn[h].key = r.key
  /\ \A r \in rows : r.by > left.opens
  /\ \A b \in probed : b > left.opens

Inv == TypeInv /\ RowsInv /\ CallsInv /\ SessionsInv

-----------------------------------------------------------------------------
(* What the invariants say of the tail. *)

LEMMA LogEndType == ASSUME RowsInv PROVE LogEnd \in Nat
BY FS_CardinalityType DEF RowsInv, LogEnd

LEMMA LastSeqIsLogEnd == ASSUME TypeInv, RowsInv PROVE LastSeq = LogEnd
<1>1. LogEnd \in Nat
  BY LogEndType
<1>2. CASE backend = "memory"
  BY <1>2 DEF LastSeq, LogEnd
<1>3. CASE backend # "memory"
  <2> DEFINE Bounds(n) == n \in {0} \cup {r.seq : r \in rows} /\ \A r \in rows : r.seq <= n
  <2>1. Bounds(LogEnd)
    <3>1. CASE LogEnd = 0
      BY <1>1, <3>1 DEF RowsInv
    <3>2. CASE LogEnd # 0
      <4>1. LogEnd \in 1..LogEnd
        BY <1>1, <3>2
      <4>2. \E r \in rows : r.seq = LogEnd
        BY <4>1 DEF RowsInv
      <4>3. \A r \in rows : r.seq <= LogEnd
        BY <1>1 DEF RowsInv
      <4> QED
        BY <4>2, <4>3
    <3> QED
      BY <3>1, <3>2
  <2>2. ASSUME NEW n, Bounds(n) PROVE n = LogEnd
    <3>1. n \in 0..LogEnd /\ \A r \in rows : r.seq <= n
      BY <1>1, <2>2 DEF RowsInv
    <3>2. CASE LogEnd = 0
      BY <1>1, <3>1, <3>2
    <3>3. CASE LogEnd # 0
      <4>1. PICK r \in rows : r.seq = LogEnd
        BY <1>1, <3>3 DEF RowsInv
      <4> QED
        BY <1>1, <3>1, <4>1
    <3> QED
      BY <3>2, <3>3
  <2>3. LastSeq = CHOOSE n \in {0} \cup {r.seq : r \in rows} : \A r \in rows : r.seq <= n
    BY <1>3 DEF LastSeq
  <2>4. Bounds(LastSeq)
    BY <2>1, <2>3
  <2> QED
    BY <2>2, <2>4
<1> QED
  BY <1>2, <1>3

LEMMA RowsLand ==
  ASSUME TypeInv, RowsInv, NEW r \in Row, r.seq = LogEnd + 1, rows' = rows \cup {r}
  PROVE  /\ RowsInv' /\ LogEnd' = LogEnd + 1
         /\ rows' \in SUBSET Row /\ r \in rows' \ rows
<1>1. LogEnd \in Nat
  BY LogEndType
<1>2. r \notin rows
  BY <1>1 DEF RowsInv
<1>3. IsFiniteSet(rows') /\ LogEnd' = LogEnd + 1
  BY <1>2, FS_AddElement DEF RowsInv, LogEnd
<1>4. \A s \in rows' : s.seq \in 1..(LogEnd + 1)
  BY <1>1 DEF RowsInv
<1>5. ASSUME NEW k \in 1..(LogEnd + 1) PROVE \E s \in rows' : s.seq = k
  <2>1. CASE k = LogEnd + 1
    BY <2>1
  <2>2. CASE k # LogEnd + 1
    <3>1. k \in 1..LogEnd
      BY <1>1, <2>2
    <3> QED
      BY <3>1 DEF RowsInv
  <2> QED
    BY <2>1, <2>2
<1>6. RowsInv'
  BY <1>3, <1>4, <1>5 DEF RowsInv
<1> QED
  BY <1>2, <1>3, <1>6 DEF TypeInv

-----------------------------------------------------------------------------
(* What one step does: an answer, an append, a statement that goes on, and *)
(* the connections that come and go.  Each keeps the invariant and is a    *)
(* step of the atomic log, or none of it.                                  *)

Atomic == [Log!Next]_<<rows, call>>

LEMMA SameCount == Log!Cardinality(rows) = LogEnd
BY DEF Log!Cardinality, Cardinality, LogEnd

LEMMA CommittedType ==
  ASSUME NEW s \in StmtState
  PROVE  LET t == [s EXCEPT !.at = "committed"]
         IN  t \in StmtState /\ t.at = "committed"
BY DEF StmtState

LEMMA LandedType ==
  ASSUME NEW c \in CallState, NEW n \in Nat
  PROVE  LET d == [c EXCEPT !.landed = n]
         IN  d \in CallState /\ d.landed = n /\ d.told = c.told /\ d.expected = c.expected
BY DEF CallState

LEMMA Returns ==
  ASSUME NEW h \in Handles, NEW told \in {"seq", "None", "raised"}, Log!Return(h, told)
  PROVE  Atomic
BY DEF Atomic, Log!Next

LEMMA TellKeeps ==
  ASSUME Inv, NEW h \in Handles, NEW told \in {"seq", "None", "raised"}, Tells(h, told),
         UNCHANGED <<backend, rows, conn, probed, left>>,
         call[h].told = "nothing" =>
           /\ told = "seq" => call[h].landed # 0
           /\ told = "None" => /\ call[h].expected # 0 /\ call[h].landed = 0
                               /\ LogEnd # call[h].expected - 1
  PROVE  Inv' /\ Atomic
<1> DEFINE c == call[h]
           d == [c EXCEPT !.told = IF @ = "nothing" THEN told ELSE @]
<1>1. /\ TypeInv /\ RowsInv /\ CallsInv /\ SessionsInv
      /\ c \in CallState /\ call \in [Handles -> CallState]
      /\ stmt \in [Handles -> StmtState] /\ NoStmt \in StmtState /\ NoStmt.at = "none"
  BY DEF Inv, TypeInv, NoStmt, StmtState
<1>2. /\ call' = [call EXCEPT ![h] = d] /\ stmt' = [stmt EXCEPT ![h] = NoStmt]
      /\ d \in CallState /\ d.landed = c.landed /\ d.expected = c.expected
  BY <1>1 DEF Tells, CallState, Told
<1>3. LogEnd' = LogEnd /\ RowsInv'
  BY <1>1 DEF LogEnd, RowsInv
<1>4. TypeInv'
  BY <1>1, <1>2 DEF TypeInv
<1>5. CallsInv'
  <2> HIDE DEF d
  <2> QED
    BY <1>1, <1>2, <1>3 DEF CallsInv
<1>6. SessionsInv'
  BY <1>1, <1>2 DEF SessionsInv
<1>7. Atomic
  <2>1. CASE c.told = "nothing"
    <3>1. d = [c EXCEPT !.told = told]
      BY <1>1, <2>1 DEF CallState
    <3>2. call' = [call EXCEPT ![h].told = told]
      BY <1>1, <1>2, <3>1
    <3>3. Log!Return(h, told)
      BY <2>1, <3>2, SameCount DEF Log!Return, Log!Plain
    <3> QED
      BY <3>3, Returns
  <2>2. CASE c.told # "nothing"
    <3>1. d = c
      BY <1>1, <2>2 DEF CallState
    <3>2. call' = call
      BY <1>1, <1>2, <3>1
    <3> QED
      BY <3>2 DEF Atomic
  <2> QED
    BY <2>1, <2>2
<1> QED
  BY <1>3, <1>4, <1>5, <1>6, <1>7 DEF Inv

LEMMA LandKeeps ==
  ASSUME Inv, NEW h \in Handles, Lands(h, LogEnd + 1),
         stmt' = [stmt EXCEPT ![h].at = "committed"],
         UNCHANGED <<backend, conn, probed, left>>,
         stmt[h].at \in {"sent", "inserted"},
         \A g \in Handles : g # h => stmt[g].at # "inserted",
         call[h].expected \in {0, LogEnd + 1}
  PROVE  Inv' /\ Atomic
<1> DEFINE c == call[h]
           d == [c EXCEPT !.landed = LogEnd + 1]
           s == stmt[h]
           t == [s EXCEPT !.at = "committed"]
           r == [seq |-> LogEnd + 1, topic |-> s.topic, by |-> conn[h].id,
                 key |-> conn[h].key]
<1>1. /\ TypeInv /\ RowsInv /\ CallsInv /\ SessionsInv
      /\ c \in CallState /\ call \in [Handles -> CallState]
      /\ s \in StmtState /\ stmt \in [Handles -> StmtState]
      /\ conn[h] \in ConnState
  BY DEF Inv, TypeInv
<1>2. LogEnd \in Nat
  BY <1>1, LogEndType
<1>3. r \in Row /\ r.seq = LogEnd + 1 /\ r.by = conn[h].id /\ r.key = conn[h].key
  <2>1. s.topic \in Topics \cup {""} /\ conn[h].id \in Nat /\ conn[h].key \in Keys \cup {"none"}
    BY <1>1 DEF StmtState, ConnState
  <2>2. LogEnd + 1 \in Nat
    BY <1>2
  <2> QED
    BY <2>1, <2>2 DEF Row
<1>4. /\ rows' = rows \cup {r} /\ call' = [call EXCEPT ![h] = d]
      /\ stmt' = [stmt EXCEPT ![h] = t]
  BY DEF Lands
<1>5. /\ d \in CallState /\ d.landed # 0 /\ d.told = c.told /\ d.expected = c.expected
      /\ t \in StmtState /\ t.at = "committed"
  <2>1. LogEnd + 1 \in Nat /\ LogEnd + 1 # 0
    BY <1>2
  <2> QED
    BY <1>1, <2>1, CommittedType, LandedType
<1>6. RowsInv' /\ LogEnd' = LogEnd + 1 /\ rows' \in SUBSET Row /\ r \in rows' \ rows
  <2> HIDE DEF r
  <2> QED
    BY <1>1, <1>3, <1>4, RowsLand
<1>7. Log!Land(h, r)
  <2>1. c.landed = 0 /\ c.told \in {"nothing", "raised"}
    BY <1>1 DEF CallsInv
  <2>2. call' = [call EXCEPT ![h].landed = r.seq]
    BY <1>3 DEF Lands
  <2> HIDE DEF r
  <2> QED
    BY <1>3, <1>4, <2>1, <2>2, SameCount DEF Log!Land, Log!Plain
<1>8. Atomic
  BY <1>6, <1>7 DEF Atomic, Log!Next
<1> HIDE DEF r, t, d
<1>9. TypeInv'
  BY <1>1, <1>4, <1>5, <1>6 DEF TypeInv
<1>10. CallsInv'
  <2>1. \A g \in Handles : g # h => stmt'[g] = stmt[g] /\ call'[g] = call[g]
    BY <1>1, <1>4
  <2>2. stmt'[h] = t /\ call'[h] = d /\ c.told \in {"nothing", "raised"}
    BY <1>1, <1>4 DEF CallsInv
  <2>3. \A g \in Handles : stmt'[g].at # "inserted"
    BY <1>5, <2>1, <2>2
  <2>4. \A g \in Handles : stmt[g].seq \in 1..(LogEnd + 1) => stmt[g].seq \in 1..(LogEnd' + 1)
    BY <1>2, <1>6
  <2> QED
    BY <1>1, <1>5, <2>1, <2>2, <2>3, <2>4 DEF CallsInv
<1>11. SessionsInv'
  <2>1. conn[h].server /\ conn[h].id > left.opens
    BY <1>1 DEF SessionsInv
  <2>2. \A g \in Handles : stmt'[g].at # "none" => stmt[g].at # "none"
    BY <1>1, <1>4
  <2>3. \A g \in Handles : conn[g].server /\ conn[g].id = r.by => conn[g].key = r.key
    BY <1>1, <1>3, <2>1 DEF SessionsInv
  <2> QED
    BY <1>1, <1>3, <1>4, <2>1, <2>2, <2>3 DEF SessionsInv
<1> QED
  BY <1>6, <1>8, <1>9, <1>10, <1>11 DEF Inv

(* A statement that takes its snapshot, inserts, or tries again. *)
LEMMA StatementKeeps ==
  ASSUME Inv, NEW h \in Handles, NEW s \in StmtState, stmt' = [stmt EXCEPT ![h] = s],
         UNCHANGED <<backend, rows, conn, call, probed, left>>,
         stmt[h].at \in {"sent", "insert"}, s.at \in {"sent", "insert", "inserted"},
         s.at \in {"insert", "inserted"} =>
           /\ backend # "memory" /\ s.seq \in 1..(LogEnd + 1)
           /\ call[h].expected \in {0, s.seq},
         s.at = "inserted" =>
           /\ s.seq = LogEnd + 1
           /\ \A g \in Handles : g # h => stmt[g].at # "inserted"
  PROVE  Inv' /\ Atomic
<1>1. /\ TypeInv /\ RowsInv /\ CallsInv /\ SessionsInv /\ stmt \in [Handles -> StmtState]
  BY DEF Inv, TypeInv
<1>2. LogEnd' = LogEnd /\ RowsInv'
  BY <1>1 DEF LogEnd, RowsInv
<1>3. TypeInv'
  BY <1>1 DEF TypeInv
<1>4. CallsInv'
  BY <1>1, <1>2 DEF CallsInv
<1>5. SessionsInv'
  BY <1>1 DEF SessionsInv
<1>6. Atomic
  BY DEF Atomic
<1> QED
  BY <1>2, <1>3, <1>4, <1>5, <1>6 DEF Inv

-----------------------------------------------------------------------------
(* The statements of each backend. *)

LEMMA GuardTells ==
  ASSUME Inv, NEW h \in Handles
  PROVE  /\ Guard(h) => call[h].expected \in {0, LogEnd + 1}
         /\ ~Guard(h) => call[h].expected # 0 /\ LogEnd # call[h].expected - 1
<1>1. LastSeq = LogEnd /\ LogEnd \in Nat /\ call[h].expected \in Nat
  BY LastSeqIsLogEnd, LogEndType DEF Inv, TypeInv, CallState
<1> QED
  BY <1>1 DEF Guard, Conditional, Log!Plain

LEMMA AppendMemoryKeeps ==
  ASSUME Inv, NEW h \in Handles, AppendMemory(h)
  PROVE  Inv' /\ Atomic
<1>1. /\ LastSeq = LogEnd /\ backend = "memory" /\ stmt[h].at = "sent"
      /\ call[h].landed = 0 /\ \A g \in Handles : stmt[g].at # "inserted"
  BY LastSeqIsLogEnd DEF Inv, CallsInv, AppendMemory
<1>2. CASE Guard(h)
  BY <1>1, <1>2, GuardTells, LandKeeps DEF AppendMemory
<1>3. CASE ~Guard(h)
  BY <1>1, <1>3, GuardTells, TellKeeps DEF AppendMemory
<1> QED
  BY <1>2, <1>3

LEMMA NumberedType ==
  ASSUME NEW s \in StmtState, NEW n \in Nat, NEW at \in {"insert", "inserted"}
  PROVE  LET t == [s EXCEPT !.at = at, !.seq = n]
         IN  t \in StmtState /\ t.at = at /\ t.seq = n
BY DEF StmtState

LEMMA InsertedType ==
  ASSUME NEW s \in StmtState
  PROVE  LET t == [s EXCEPT !.at = "inserted"]
         IN  t \in StmtState /\ t.at = "inserted" /\ t.seq = s.seq
BY DEF StmtState

LEMMA RetriedType ==
  ASSUME NEW s \in StmtState
  PROVE  LET t == [s EXCEPT !.at = "sent", !.seq = 0, !.tries = @ + 1]
         IN  t \in StmtState /\ t.at = "sent"
<1>1. s.tries \in Nat
  BY DEF StmtState
<1>2. s.tries + 1 \in Nat
  BY <1>1
<1> DEFINE n == s.tries + 1
<1> HIDE DEF n
<1>3. LET t == [s EXCEPT !.at = "sent", !.seq = 0, !.tries = n]
      IN  t \in StmtState /\ t.at = "sent"
  BY <1>2 DEF StmtState, n
<1> QED
  BY <1>3 DEF n

LEMMA InsertSqliteKeeps ==
  ASSUME Inv, NEW h \in Handles, InsertSqlite(h)
  PROVE  Inv' /\ Atomic
<1> DEFINE s == stmt[h]
           t == [s EXCEPT !.at = "inserted", !.seq = LogEnd + 1]
<1>1. /\ LastSeq = LogEnd /\ LogEnd \in Nat /\ backend = "sqlite" /\ s.at = "sent"
      /\ s \in StmtState /\ stmt \in [Handles -> StmtState]
      /\ call[h].landed = 0 /\ \A g \in Handles : stmt[g].at # "inserted"
  BY LastSeqIsLogEnd, LogEndType DEF Inv, TypeInv, CallsInv, InsertSqlite, Locked
<1>2. CASE Guard(h)
  <2>1. stmt' = [stmt EXCEPT ![h] = t] /\ UNCHANGED <<backend, rows, conn, call, probed, left>>
    BY <1>1, <1>2 DEF InsertSqlite
  <2>2. t \in StmtState /\ t.at = "inserted" /\ t.seq = LogEnd + 1
    <3>1. LogEnd + 1 \in Nat
      BY <1>1
    <3> QED
      BY <1>1, <3>1, NumberedType
  <2>3. LogEnd + 1 \in 1..(LogEnd + 1)
    BY <1>1
  <2> HIDE DEF t
  <2> QED
    BY <1>1, <1>2, <2>1, <2>2, <2>3, GuardTells, StatementKeeps
<1>3. CASE ~Guard(h)
  BY <1>1, <1>3, GuardTells, TellKeeps DEF InsertSqlite
<1> QED
  BY <1>2, <1>3

LEMMA BusySqliteKeeps ==
  ASSUME Inv, NEW h \in Handles, BusySqlite(h)
  PROVE  Inv' /\ Atomic
<1>1. /\ LastSeq = LogEnd /\ LogEnd \in Nat /\ call[h].landed = 0 /\ call[h].expected \in Nat
  BY LastSeqIsLogEnd, LogEndType DEF Inv, TypeInv, CallState, CallsInv, BusySqlite
<1>2. /\ BusyTold(h) \in {"None", "raised"}
      /\ BusyTold(h) = "None" => call[h].expected # 0 /\ LogEnd # call[h].expected - 1
  BY <1>1 DEF BusyTold, Conditional, Log!Plain
<1> QED
  BY <1>1, <1>2, TellKeeps DEF BusySqlite

LEMMA SnapshotPostgresKeeps ==
  ASSUME Inv, NEW h \in Handles, SnapshotPostgres(h)
  PROVE  Inv' /\ Atomic
<1> DEFINE s == stmt[h]
           t == [s EXCEPT !.at = "insert", !.seq = LogEnd + 1]
<1>1. /\ LastSeq = LogEnd /\ LogEnd \in Nat /\ backend = "postgres" /\ s.at = "sent"
      /\ s \in StmtState /\ stmt \in [Handles -> StmtState] /\ call[h].landed = 0
  BY LastSeqIsLogEnd, LogEndType DEF Inv, TypeInv, CallsInv, SnapshotPostgres
<1>2. CASE Guard(h)
  <2>1. stmt' = [stmt EXCEPT ![h] = t] /\ UNCHANGED <<backend, rows, conn, call, probed, left>>
    BY <1>1, <1>2 DEF SnapshotPostgres, NextSeq
  <2>2. t \in StmtState /\ t.at = "insert" /\ t.seq = LogEnd + 1
    <3>1. LogEnd + 1 \in Nat
      BY <1>1
    <3> QED
      BY <1>1, <3>1, NumberedType
  <2>3. LogEnd + 1 \in 1..(LogEnd + 1)
    BY <1>1
  <2> HIDE DEF t
  <2> QED
    BY <1>1, <1>2, <2>1, <2>2, <2>3, GuardTells, StatementKeeps
<1>3. CASE ~Guard(h)
  BY <1>1, <1>3, GuardTells, TellKeeps DEF SnapshotPostgres
<1> QED
  BY <1>2, <1>3

(* The seq of a snapshot is above the tail still, or it has been taken. *)
LEMMA InsertPostgresKeeps ==
  ASSUME Inv, NEW h \in Handles, InsertPostgres(h)
  PROVE  Inv' /\ Atomic
<1> DEFINE s == stmt[h]
           t == [s EXCEPT !.at = "inserted"]
           u == [s EXCEPT !.at = "sent", !.seq = 0, !.tries = @ + 1]
<1>1. /\ RowsInv /\ CallsInv /\ LogEnd \in Nat /\ s.at = "insert" /\ backend = "postgres"
      /\ s \in StmtState /\ stmt \in [Handles -> StmtState]
      /\ call[h].landed = 0 /\ call[h].expected \in Nat
      /\ s.seq \in 1..(LogEnd + 1) /\ call[h].expected \in {0, s.seq}
      /\ UNCHANGED <<backend, rows, conn, probed, left>>
  BY LogEndType DEF Inv, TypeInv, CallState, CallsInv, InsertPostgres
<1>2. CASE ~Inserted(h)
  <2>1. s.seq = LogEnd + 1
    <3>1. \A r \in rows : r.seq # s.seq
      BY <1>2 DEF Inserted
    <3>2. s.seq \notin 1..LogEnd
      BY <1>1, <3>1 DEF RowsInv
    <3> QED
      BY <1>1, <3>2
  <2>2. \A g \in Handles : g # h => stmt[g].at # "inserted"
    BY <1>1, <2>1 DEF InsertPostgres, Uncommitted, CallsInv
  <2>3. stmt' = [stmt EXCEPT ![h] = t] /\ UNCHANGED call
    BY <1>1, <1>2 DEF InsertPostgres
  <2>4. t \in StmtState /\ t.at = "inserted" /\ t.seq = s.seq
    BY <1>1, InsertedType
  <2> HIDE DEF t
  <2> QED
    BY <1>1, <2>1, <2>2, <2>3, <2>4, StatementKeeps
<1>3. CASE Inserted(h) /\ Conditional(h)
  <2>1. Tells(h, "None")
    BY <1>3 DEF InsertPostgres
  <2>2. PICK r \in rows : r.seq = s.seq
    BY <1>3 DEF Inserted
  <2>3. s.seq \in 1..LogEnd
    BY <1>1, <2>2 DEF RowsInv
  <2>4. call[h].expected = s.seq
    BY <1>1, <1>3 DEF Conditional, Log!Plain
  <2> QED
    BY <1>1, <2>1, <2>3, <2>4, TellKeeps
<1>4. CASE Inserted(h) /\ ~Conditional(h)
  <2>1. \/ Tells(h, "raised")
        \/ stmt' = [stmt EXCEPT ![h] = u] /\ UNCHANGED call
    BY <1>1, <1>4 DEF InsertPostgres
  <2>2. u \in StmtState /\ u.at = "sent"
    BY <1>1, RetriedType
  <2>3. CASE Tells(h, "raised")
    BY <1>1, <2>3, TellKeeps
  <2>4. CASE stmt' = [stmt EXCEPT ![h] = u] /\ UNCHANGED call
    <3> HIDE DEF u
    <3> QED
      BY <1>1, <2>2, <2>4, StatementKeeps
  <2> QED
    BY <2>1, <2>3, <2>4
<1> QED
  BY <1>2, <1>3, <1>4

LEMMA StatementStepKeeps ==
  ASSUME Inv, NEW h \in Handles, StatementStep(h)
  PROVE  Inv' /\ Atomic
<1>1. CASE LockTimeout(h)
  BY <1>1, TellKeeps DEF LockTimeout
<1>2. CASE Commit(h)
  <2>1. /\ stmt[h].seq = LogEnd + 1 /\ call[h].expected \in {0, stmt[h].seq}
        /\ \A g \in Handles : g # h => stmt[g].at # "inserted"
    BY <1>2 DEF Commit, Inv, CallsInv
  <2> QED
    BY <1>2, <2>1, LandKeeps DEF Commit
<1>3. CASE Answer(h)
  <2>1. call[h].landed # 0
    BY <1>3 DEF Answer, Inv, CallsInv
  <2> QED
    BY <1>3, <2>1, TellKeeps DEF Answer
<1> QED
  BY <1>1, <1>2, <1>3, AppendMemoryKeeps, InsertSqliteKeeps, BusySqliteKeeps,
     SnapshotPostgresKeeps, InsertPostgresKeeps DEF StatementStep

-----------------------------------------------------------------------------
(* The connections that come and go, the calls, the reads and the probe.   *)

LEMMA OpenKeeps ==
  ASSUME Inv, NEW h \in Handles, Open(h)
  PROVE  Inv' /\ Atomic
<1> PICK k \in Keys \ HeldKeys :
      conn' = [conn EXCEPT ![h] =
        [client |-> TRUE, server |-> TRUE, key |-> k, id |-> left.opens]]
  BY DEF Open
<1> DEFINE n == left.opens
           t == [client |-> TRUE, server |-> TRUE, key |-> k, id |-> n]
<1>1. /\ TypeInv /\ RowsInv /\ CallsInv /\ SessionsInv
      /\ conn \in [Handles -> ConnState] /\ n \in Nat
      /\ UNCHANGED <<backend, rows, stmt, call, probed>>
  BY DEF Inv, TypeInv, Open
<1>2. n > 0 /\ n - 1 \in Nat /\ left' = [left EXCEPT !["opens"] = n - 1]
  <2>1. left["opens"] > 0 /\ left' = [left EXCEPT !["opens"] = left["opens"] - 1]
    BY DEF Open, Spend
  <2>2. left["opens"] = n
    BY <1>1 DEF TypeInv
  <2>3. n > 0 /\ left' = [left EXCEPT !["opens"] = n - 1]
    BY <2>1, <2>2, Zenon
  <2>4. n - 1 \in Nat
    BY <1>1, <2>3
  <2> QED
    BY <2>3, <2>4
<1>3. left' \in [opens : Nat, calls : Nat, faults : Nat] /\ left'.opens = n - 1
  <2> DEFINE m == n - 1
  <2> HIDE DEF m
  <2>1. m \in Nat /\ left' = [left EXCEPT !["opens"] = m]
    BY <1>2 DEF m
  <2>2. left' \in [opens : Nat, calls : Nat, faults : Nat] /\ left'.opens = m
    BY <1>1, <2>1 DEF TypeInv
  <2> QED
    BY <2>2 DEF m
<1>4. t \in ConnState /\ t.server /\ t.id = n /\ t.key = k
  BY <1>1 DEF ConnState
<1>5. \A g \in Handles : g # h => conn'[g] = conn[g]
  BY <1>1
<1>6. conn'[h] = t /\ conn' \in [Handles -> ConnState]
  <2> HIDE DEF t
  <2> QED
    BY <1>1, <1>4 DEF t
<1> HIDE DEF t
<1>7. LogEnd' = LogEnd /\ RowsInv' /\ CallsInv'
  BY <1>1 DEF LogEnd, RowsInv, CallsInv
<1>8. TypeInv'
  BY <1>1, <1>3, <1>6 DEF TypeInv
<1>9. SessionsInv'
  <2>1. /\ \A g \in Handles : conn[g].server => conn[g].id > n
        /\ \A r \in rows : r.by > n
        /\ \A b \in probed : b > n
    BY <1>1 DEF SessionsInv
  <2>2. /\ \A g \in Handles : conn[g].id \in Nat
        /\ \A r \in rows : r.by \in Nat
        /\ \A b \in probed : b \in Nat
    BY <1>1 DEF TypeInv, ConnState, Row
  <2>3. /\ \A g \in Handles : g # h /\ conn'[g].server => conn'[g].id # n
        /\ \A r \in rows : r.by # n
        /\ n \notin probed
    BY <1>1, <1>5, <2>1, <2>2
  <2>4. \A g \in Handles : conn'[g].server => conn'[g].id > n - 1 /\ conn'[g].id \notin probed
    BY <1>1, <1>4, <1>5, <1>6, <2>1, <2>2, <2>3 DEF SessionsInv
  <2>5. /\ \A r \in rows : r.by > n - 1
        /\ \A b \in probed : b > n - 1
    BY <1>1, <2>1, <2>2
  <2>6. \A g \in Handles : stmt'[g].at # "none" => conn'[g].server
    BY <1>1, <1>4, <1>5, <1>6 DEF SessionsInv
  <2>7. \A f, g \in Handles :
          conn'[f].server /\ conn'[g].server /\ conn'[f].id = conn'[g].id => f = g
    BY <1>1, <1>4, <1>5, <1>6, <2>3 DEF SessionsInv
  <2>8. \A g \in Handles, r \in rows :
          conn'[g].server /\ conn'[g].id = r.by => conn'[g].key = r.key
    BY <1>1, <1>4, <1>5, <1>6, <2>3 DEF SessionsInv
  <2> QED
    BY <1>1, <1>3, <2>4, <2>5, <2>6, <2>7, <2>8 DEF SessionsInv
<1>10. Atomic
  BY <1>1 DEF Atomic
<1> QED
  BY <1>7, <1>8, <1>9, <1>10 DEF Inv

LEMMA SpendType ==
  ASSUME TypeInv, NEW what \in {"calls", "faults"}, Spend(what)
  PROVE  left' \in [opens : Nat, calls : Nat, faults : Nat] /\ left'.opens = left.opens
<1>1. left[what] \in Nat /\ left[what] > 0
  BY DEF TypeInv, Spend
<1>2. left[what] - 1 \in Nat
  BY <1>1
<1> QED
  BY <1>2 DEF TypeInv, Spend

LEMMA SendKeeps ==
  ASSUME Inv, NEW h \in Handles, NEW expected \in Nat, Send(h, expected)
  PROVE  Inv' /\ Atomic
<1> DEFINE d == [expected |-> expected, landed |-> 0, told |-> "nothing"]
           Sent(t) == [NoStmt EXCEPT !.at = "sent", !.topic = t]
<1> PICK t \in Topics : stmt' = [stmt EXCEPT ![h] = Sent(t)]
  BY DEF Send
<1>1. /\ TypeInv /\ RowsInv /\ CallsInv /\ SessionsInv
      /\ stmt \in [Handles -> StmtState] /\ call \in [Handles -> CallState]
      /\ UNCHANGED <<backend, rows, conn, probed>> /\ conn[h].server
      /\ call' = [call EXCEPT ![h] = d] /\ call[h].told # "nothing"
  BY DEF Inv, TypeInv, Send
<1>2. left' \in [opens : Nat, calls : Nat, faults : Nat] /\ left'.opens = left.opens
  BY <1>1, SpendType DEF Send
<1>3. d \in CallState /\ d.landed = 0 /\ d.told = "nothing" /\ d.expected = expected
  BY DEF CallState, Told
<1>4. Sent(t) \in StmtState /\ Sent(t).at = "sent"
  BY DEF NoStmt, StmtState
<1>5. Log!Call(h, call'[h].expected)
  BY <1>1, <1>3 DEF Log!Call
<1> HIDE DEF d, Sent
<1>6. LogEnd' = LogEnd /\ RowsInv'
  BY <1>1 DEF LogEnd, RowsInv
<1>7. TypeInv'
  BY <1>1, <1>2, <1>3, <1>4 DEF TypeInv
<1>8. CallsInv'
  BY <1>1, <1>3, <1>4, <1>6 DEF CallsInv
<1>9. SessionsInv'
  BY <1>1, <1>2, <1>4 DEF SessionsInv
<1>10. Atomic
  BY <1>5 DEF Atomic, Log!Next
<1> QED
  BY <1>6, <1>7, <1>8, <1>9, <1>10 DEF Inv

(* Statements and connections end; the backends that stay are as they were, *)
(* and a call under way may raise.                                         *)
LEMMA EndsKeep ==
  ASSUME Inv, UNCHANGED <<backend, rows, probed>>,
         stmt' \in [Handles -> StmtState], conn' \in [Handles -> ConnState],
         call' \in [Handles -> CallState],
         \A h \in Handles :
           /\ stmt'[h] = stmt[h] \/ stmt'[h].at = "none"
           /\ stmt'[h].at # "none" => conn'[h].server
           /\ conn'[h].server =>
                conn[h].server /\ conn'[h].id = conn[h].id /\ conn'[h].key = conn[h].key
           /\ call'[h].landed = call[h].landed /\ call'[h].expected = call[h].expected
           /\ call'[h].told = call[h].told \/ call'[h].told = "raised",
         left' \in [opens : Nat, calls : Nat, faults : Nat], left'.opens = left.opens
  PROVE  Inv'
<1>1. /\ TypeInv /\ RowsInv /\ CallsInv /\ SessionsInv
      /\ LogEnd' = LogEnd /\ RowsInv'
  BY DEF Inv, LogEnd, RowsInv
<1>2. TypeInv'
  BY <1>1 DEF TypeInv
<1>3. CallsInv'
  <2> SUFFICES ASSUME NEW h \in Handles, stmt'[h] = stmt[h], stmt[h].at # "none"
               PROVE  LET s == stmt[h]
                          c == call'[h]
                      IN  /\ s.at \in {"sent", "insert", "inserted"} => c.landed = 0
                          /\ s.at = "committed" => c.landed # 0
                          /\ c.told \in {"nothing", "raised"}
                          /\ s.at \in {"insert", "inserted"} =>
                               /\ backend # "memory" /\ s.seq \in 1..(LogEnd + 1)
                               /\ c.expected \in {0, s.seq}
                          /\ s.at = "inserted" =>
                               /\ s.seq = LogEnd + 1
                               /\ \A g \in Handles : g # h => stmt'[g].at # "inserted"
    BY <1>1 DEF CallsInv
  <2> QED
    BY <1>1 DEF CallsInv
<1>4. SessionsInv'
  BY <1>1 DEF SessionsInv
<1> QED
  BY <1>1, <1>2, <1>3, <1>4 DEF Inv

LEMMA RaisedCall ==
  ASSUME Inv, NEW h \in Handles, UNCHANGED rows,
         call' = [call EXCEPT ![h].told = IF @ = "nothing" THEN "raised" ELSE @]
  PROVE  /\ Atomic /\ call' \in [Handles -> CallState]
         /\ \A g \in Handles :
              /\ call'[g].landed = call[g].landed /\ call'[g].expected = call[g].expected
              /\ call'[g].told = call[g].told \/ call'[g].told = "raised"
<1> DEFINE c == call[h]
           d == [c EXCEPT !.told = IF @ = "nothing" THEN "raised" ELSE @]
<1>1. c \in CallState /\ call \in [Handles -> CallState] /\ call' = [call EXCEPT ![h] = d]
  BY DEF Inv, TypeInv
<1>2. /\ d \in CallState /\ d.landed = c.landed /\ d.expected = c.expected
      /\ d.told = c.told \/ d.told = "raised"
  BY <1>1 DEF CallState, Told
<1>3. Atomic
  <2>1. CASE c.told = "nothing"
    <3>1. d = [c EXCEPT !.told = "raised"]
      BY <1>1, <2>1 DEF CallState
    <3>2. call' = [call EXCEPT ![h].told = "raised"]
      BY <1>1, <3>1
    <3>3. Log!Return(h, "raised")
      BY <2>1, <3>2 DEF Log!Return
    <3> QED
      BY <3>3, Returns
  <2>2. CASE c.told # "nothing"
    <3>1. d = c
      BY <1>1, <2>2 DEF CallState
    <3>2. call' = call
      BY <1>1, <3>1
    <3> QED
      BY <3>2 DEF Atomic
  <2> QED
    BY <2>1, <2>2
<1> HIDE DEF d
<1> QED
  BY <1>1, <1>2, <1>3

LEMMA ClientGoesKeeps ==
  ASSUME Inv, NEW h \in Handles, ClientGoes(h)
  PROVE  Inv' /\ Atomic
<1> DEFINE c == conn[h]
           d == [c EXCEPT !.client = FALSE]
<1>1. /\ TypeInv /\ SessionsInv /\ c \in ConnState /\ conn \in [Handles -> ConnState]
      /\ stmt \in [Handles -> StmtState]
      /\ UNCHANGED <<backend, rows, stmt, probed>>
      /\ conn' = [conn EXCEPT ![h] = d]
  BY DEF Inv, TypeInv, ClientGoes
<1>2. d \in ConnState /\ d.server = c.server /\ d.id = c.id /\ d.key = c.key
  BY <1>1 DEF ConnState
<1>3. left' \in [opens : Nat, calls : Nat, faults : Nat] /\ left'.opens = left.opens
  BY <1>1, SpendType DEF ClientGoes, TypeInv
<1>4. call' = [call EXCEPT ![h].told = IF @ = "nothing" THEN "raised" ELSE @]
  BY DEF ClientGoes
<1> HIDE DEF d
<1>5. /\ conn' \in [Handles -> ConnState]
      /\ \A g \in Handles : /\ conn'[g].server = conn[g].server
                            /\ conn'[g].id = conn[g].id /\ conn'[g].key = conn[g].key
  BY <1>1, <1>2
<1>6. \A g \in Handles : stmt'[g].at # "none" => conn'[g].server
  BY <1>1, <1>5 DEF SessionsInv
<1> QED
  BY <1>1, <1>3, <1>4, <1>5, <1>6, RaisedCall, EndsKeep

LEMMA BackendEndsKeeps ==
  ASSUME Inv, NEW h \in Handles, BackendEnds(h)
  PROVE  Inv' /\ Atomic
<1> DEFINE c == conn[h]
           d == [c EXCEPT !.server = FALSE]
<1>1. /\ TypeInv /\ SessionsInv /\ c \in ConnState /\ conn \in [Handles -> ConnState]
      /\ stmt \in [Handles -> StmtState] /\ call \in [Handles -> CallState]
      /\ UNCHANGED <<backend, rows, call, probed, left>>
      /\ conn' = [conn EXCEPT ![h] = d] /\ stmt' = [stmt EXCEPT ![h] = NoStmt]
      /\ left \in [opens : Nat, calls : Nat, faults : Nat]
  BY DEF Inv, TypeInv, BackendEnds
<1>2. d \in ConnState /\ ~d.server
  BY <1>1 DEF ConnState
<1>3. NoStmt \in StmtState /\ NoStmt.at = "none"
  BY DEF NoStmt, StmtState
<1> HIDE DEF d
<1>4. conn' \in [Handles -> ConnState] /\ stmt' \in [Handles -> StmtState]
  BY <1>1, <1>2, <1>3
<1>5. \A g \in Handles :
        /\ stmt'[g] = stmt[g] \/ stmt'[g].at = "none"
        /\ stmt'[g].at # "none" => conn'[g].server
        /\ conn'[g].server =>
             conn[g].server /\ conn'[g].id = conn[g].id /\ conn'[g].key = conn[g].key
  BY <1>1, <1>2, <1>3 DEF SessionsInv
<1>6. Atomic
  BY <1>1 DEF Atomic
<1> QED
  BY <1>1, <1>4, <1>5, <1>6, EndsKeep

LEMMA RestartKeeps ==
  ASSUME Inv, Restart
  PROVE  Inv' /\ Atomic
<1>1. /\ TypeInv /\ conn \in [Handles -> ConnState] /\ call \in [Handles -> CallState]
      /\ UNCHANGED <<backend, rows, call, probed>>
      /\ conn' = [h \in Handles |-> [conn[h] EXCEPT !.server = FALSE]]
      /\ stmt' = [h \in Handles |-> NoStmt]
  BY DEF Inv, TypeInv, Restart
<1>2. NoStmt \in StmtState /\ NoStmt.at = "none"
  BY DEF NoStmt, StmtState
<1>3. ASSUME NEW c \in ConnState
      PROVE  [c EXCEPT !.server = FALSE] \in ConnState /\ ~[c EXCEPT !.server = FALSE].server
  BY DEF ConnState
<1>4. conn' \in [Handles -> ConnState] /\ stmt' \in [Handles -> StmtState]
  BY <1>1, <1>2, <1>3
<1>5. \A g \in Handles : stmt'[g].at = "none" /\ ~conn'[g].server
  BY <1>1, <1>2, <1>3
<1>6. left' \in [opens : Nat, calls : Nat, faults : Nat] /\ left'.opens = left.opens
  BY <1>1, SpendType DEF Restart
<1>7. Atomic
  BY <1>1 DEF Atomic
<1> QED
  BY <1>1, <1>4, <1>5, <1>6, <1>7, EndsKeep

LEMMA WriterDiesKeeps ==
  ASSUME Inv, NEW h \in Handles, WriterDies(h)
  PROVE  Inv' /\ Atomic
<1>1. /\ TypeInv /\ SessionsInv /\ conn \in [Handles -> ConnState]
      /\ stmt \in [Handles -> StmtState]
      /\ UNCHANGED <<backend, rows, probed>>
      /\ conn' = [conn EXCEPT ![h] = NoConn] /\ stmt' = [stmt EXCEPT ![h] = NoStmt]
      /\ call' = [call EXCEPT ![h].told = IF @ = "nothing" THEN "raised" ELSE @]
  BY DEF Inv, TypeInv, WriterDies, Tells
<1>2. NoConn \in ConnState /\ ~NoConn.server
  BY DEF NoConn, ConnState
<1>3. NoStmt \in StmtState /\ NoStmt.at = "none"
  BY DEF NoStmt, StmtState
<1>4. conn' \in [Handles -> ConnState] /\ stmt' \in [Handles -> StmtState]
  BY <1>1, <1>2, <1>3
<1>5. \A g \in Handles :
        /\ stmt'[g] = stmt[g] \/ stmt'[g].at = "none"
        /\ stmt'[g].at # "none" => conn'[g].server
        /\ conn'[g].server =>
             conn[g].server /\ conn'[g].id = conn[g].id /\ conn'[g].key = conn[g].key
  BY <1>1, <1>2, <1>3 DEF SessionsInv
<1>6. left' \in [opens : Nat, calls : Nat, faults : Nat] /\ left'.opens = left.opens
  BY <1>1, SpendType DEF WriterDies
<1> QED
  BY <1>1, <1>4, <1>5, <1>6, RaisedCall, EndsKeep

(* A probe that finds no backend with the row's key has found the row's    *)
(* connection gone.                                                        *)
LEMMA ProbeKeeps ==
  ASSUME Inv, Probe
  PROVE  Inv' /\ Atomic
<1> PICK row \in rows : row.key \notin HeldKeys /\ probed' = probed \cup {row.by}
  BY DEF Probe, SessionEnded, KeyHeld
<1>1. /\ TypeInv /\ RowsInv /\ CallsInv /\ SessionsInv /\ row.by \in Nat
      /\ UNCHANGED <<backend, rows, conn, stmt, call, left>>
  BY DEF Inv, TypeInv, Probe, Row
<1>2. \A h \in Handles : conn[h].server => conn[h].id # row.by
  BY <1>1 DEF SessionsInv, HeldKeys
<1>3. SessionsInv'
  BY <1>1, <1>2 DEF SessionsInv
<1>4. TypeInv' /\ RowsInv' /\ CallsInv' /\ Atomic
  BY <1>1 DEF TypeInv, RowsInv, CallsInv, LogEnd, Atomic
<1> QED
  BY <1>3, <1>4 DEF Inv

LEMMA StillKeeps ==
  ASSUME Inv, UNCHANGED <<backend, rows, conn, stmt, call, probed, left>>
  PROVE  Inv' /\ Atomic
<1>1. TypeInv' /\ RowsInv' /\ CallsInv' /\ SessionsInv'
  BY DEF Inv, TypeInv, RowsInv, CallsInv, SessionsInv, LogEnd
<1> QED
  BY <1>1 DEF Inv, Atomic

LEMMA NextKeeps == Inv /\ [Next]_vars => Inv' /\ Atomic
<1> SUFFICES ASSUME Inv, [Next]_vars PROVE Inv' /\ Atomic
  OBVIOUS
<1>1. ASSUME NEW h \in Handles, Send(h, Log!Plain) \/ Send(h, LastSeq + 1)
      PROVE  Inv' /\ Atomic
  <2>1. Log!Plain \in Nat /\ LastSeq + 1 \in Nat
    BY LastSeqIsLogEnd, LogEndType DEF Inv, Log!Plain
  <2> QED
    BY <1>1, <2>1, SendKeeps
<1>2. ASSUME TakeW \/ ReadTail \/ UNCHANGED vars PROVE Inv' /\ Atomic
  BY <1>2, StillKeeps DEF TakeW, ReadTail, vars
<1> QED
  BY <1>1, <1>2, OpenKeeps, StatementStepKeeps, ClientGoesKeeps, BackendEndsKeeps,
     WriterDiesKeeps, RestartKeeps, ProbeKeeps DEF Next

LEMMA InitInv == Init => Inv
<1> SUFFICES ASSUME Init PROVE Inv
  OBVIOUS
<1>1. /\ rows = {} /\ probed = {} /\ conn = [h \in Handles |-> NoConn]
      /\ stmt = [h \in Handles |-> NoStmt] /\ call = [h \in Handles |-> Log!NoCall]
  BY DEF Init
<1>2. /\ NoConn \in ConnState /\ ~NoConn.server
      /\ NoStmt \in StmtState /\ NoStmt.at = "none" /\ Log!NoCall \in CallState
  BY DEF NoConn, ConnState, NoStmt, StmtState, Log!NoCall, Log!Plain, CallState, Told
<1>3. TypeInv
  BY <1>1, <1>2, ChannelAssumption DEF Init, TypeInv
<1>4. RowsInv
  BY <1>1, FS_EmptySet DEF RowsInv, LogEnd
<1>5. CallsInv /\ SessionsInv
  BY <1>1, <1>2 DEF CallsInv, SessionsInv
<1> QED
  BY <1>3, <1>4, <1>5 DEF Inv

LEMMA InvHolds == Spec => []Inv
<1>1. Inv /\ [Next]_vars => Inv'
  BY NextKeeps
<1> QED
  BY <1>1, InitInv, PTL DEF Spec

(* Channel.send, on every backend, is one atomic append to one log, or     *)
(* none: a statement's snapshot may be stale when it inserts, and its      *)
(* client, its backend and the server may fail at any step between, but no *)
(* seq is skipped or used twice, None is told only of a log that has moved *)
(* past the expected tail, and a seq only of a row that landed there.      *)
THEOREM BackendsAreAtomic == Spec => ImplementsLog
<1>1. Init => Log!Init
  BY DEF Init, Log!Init
<1>2. Inv /\ [Next]_vars => [Log!Next]_<<rows, call>>
  BY NextKeeps DEF Atomic
<1> QED
  BY <1>1, <1>2, InvHolds, PTL DEF Spec, ImplementsLog, Log!Spec

(* Only the connection of a backend that is there lands a row. *)
LEMMA LandedBy ==
  ASSUME Inv, [Next]_vars, NEW row \in rows' \ rows
  PROVE  row.by \notin probed
<1>1. ASSUME NEW h \in Handles, Lands(h, stmt[h].seq) \/ Lands(h, LastSeq + 1),
             stmt[h].at # "none"
      PROVE  row.by \notin probed
  <2>1. row.by = conn[h].id
    BY <1>1 DEF Lands
  <2>2. conn[h].server /\ conn[h].id \notin probed
    BY <1>1 DEF Inv, SessionsInv
  <2> QED
    BY <2>1, <2>2
<1>2. ~UNCHANGED rows
  BY SMTT(60)
<1>3. PICK h \in Handles : AppendMemory(h) \/ Commit(h)
  BY <1>2 DEF Next, vars, Open, Send, ClientGoes, BackendEnds, WriterDies, Restart,
     TakeW, ReadTail, Probe, StatementStep, InsertSqlite, BusySqlite,
     SnapshotPostgres, InsertPostgres, LockTimeout, Answer
<1> QED
  BY <1>1, <1>2, <1>3 DEF AppendMemory, Commit

(* SessionProbe: once a probe has called a connection ended, no row of     *)
(* that connection lands: the probe looks for the key of its backend, not  *)
(* of its client, and a key drawn again is another connection's.           *)
THEOREM EndedConnectionsAreSilent == Spec => EndedWritesNothing
<1>1. Inv /\ [Next]_vars => [\A row \in rows' \ rows : row.by \notin probed]_vars
  BY LandedBy
<1> QED
  BY <1>1, InvHolds, PTL DEF Spec, EndedWritesNothing

-----------------------------------------------------------------------------
(* What is in order: the sequence of a set's rows by their seqs exists and *)
(* is one, and two sets, one below the other, make one sequence.           *)

(* A set of rows no two of which have one seq, and a sequence of them in   *)
(* the order of their seqs.                                                *)
Numbered(S) ==
  /\ IsFiniteSet(S) /\ \A r \in S : r.seq \in Nat
  /\ \A r, q \in S : r.seq = q.seq => r = q

Ordered(s, S) ==
  /\ s \in [1..Cardinality(S) -> S]
  /\ \A i, j \in 1..Cardinality(S) : i < j => s[i].seq < s[j].seq

LEMMA LeastOf ==
  ASSUME NEW S \in SUBSET Nat, S # {}
  PROVE  \E x \in S : \A y \in S : x <= y
<1> DEFINE R == OpToRel(<, Nat)
<1>1. IsWellFoundedOn(R, Nat)
  BY NatLessThanWellFounded, Zenon
<1> HIDE DEF R
<1>2. PICK x \in S : \A y \in S : <<y, x>> \notin R
  BY <1>1, WFMin, Zenon
<1>3. ASSUME NEW y \in S, ~(x <= y) PROVE FALSE
  <2>1. x \in Nat /\ y \in Nat /\ y < x
    BY <1>3
  <2>2. <<y, x>> \in R
    BY <2>1 DEF R, OpToRel
  <2> QED
    BY <1>2, <2>2
<1> QED
  BY <1>2, <1>3

LEMMA GreatestOf ==
  ASSUME NEW S \in SUBSET Nat, S # {}, NEW n \in Nat, \A x \in S : x <= n
  PROVE  \E x \in S : \A y \in S : y <= x
<1> DEFINE Bounds == {b \in Nat : \A x \in S : x <= b}
<1>1. Bounds \in SUBSET Nat /\ n \in Bounds
  OBVIOUS
<1>2. PICK b \in Bounds : \A c \in Bounds : b <= c
  <2> HIDE DEF Bounds
  <2> QED
    BY <1>1, LeastOf
<1>3. ASSUME b \notin S PROVE FALSE
  <2>1. \A x \in S : x < b
    BY <1>2, <1>3
  <2>2. b - 1 \in Bounds
    <3>1. PICK x \in S : x < b
      BY <2>1
    <3>2. b - 1 \in Nat /\ \A y \in S : y <= b - 1
      BY <1>2, <2>1, <3>1
    <3> QED
      BY <3>2
  <2> QED
    BY <1>2, <2>2
<1> QED
  BY <1>2, <1>3

LEMMA OrderedOnto ==
  ASSUME NEW S, Numbered(S), NEW s, Ordered(s, S), NEW r \in S
  PROVE  \E i \in 1..Cardinality(S) : s[i] = r
<1>1. Cardinality(S) \in Nat
  BY FS_CardinalityType DEF Numbered
<1>2. IsFiniteSet(1..Cardinality(S)) /\ Cardinality(1..Cardinality(S)) = Cardinality(S)
  BY <1>1, FS_Interval
<1>3. ASSUME NEW i \in 1..Cardinality(S), NEW j \in 1..Cardinality(S), s[i] = s[j]
      PROVE  i = j
  <2>1. s[i].seq \in Nat
    BY DEF Numbered, Ordered
  <2> QED
    BY <1>1, <1>3, <2>1 DEF Ordered
<1>4. s \in Injection(1..Cardinality(S), S)
  BY <1>3 DEF Ordered, Injection, IsInjective
<1>5. s \in Surjection(1..Cardinality(S), S)
  BY <1>2, <1>4, FS_Injection DEF Numbered
<1> QED
  BY <1>5 DEF Surjection

(* The order is one: where two such sequences first differ, each would     *)
(* have the other's row later, and so the greater seq.                     *)
LEMMA OrderedOnce ==
  ASSUME NEW S, Numbered(S), NEW s, Ordered(s, S), NEW t, Ordered(t, S)
  PROVE  s = t
<1> DEFINE Differ == {i \in 1..Cardinality(S) : s[i] # t[i]}
<1>1. Cardinality(S) \in Nat
  BY FS_CardinalityType DEF Numbered
<1>2. ASSUME NEW i \in Differ, \A j \in Differ : i <= j PROVE FALSE
  <2>1. ASSUME NEW a, NEW b, Ordered(a, S), Ordered(b, S), a[i] # b[i],
               \A j \in 1..Cardinality(S) : j < i => a[j] = b[j]
        PROVE  b[i].seq < a[i].seq
    <3>1. PICK j \in 1..Cardinality(S) : b[j] = a[i]
      <4>1. a[i] \in S
        BY <2>1 DEF Ordered
      <4> QED
        BY <2>1, <4>1, OrderedOnto
    <3>2. ~(j < i)
      <4>1. ASSUME j < i PROVE FALSE
        <5>1. a[j] = a[i] /\ a[j].seq < a[i].seq /\ a[i].seq \in Nat
          BY <2>1, <3>1, <4>1 DEF Ordered, Numbered
        <5> QED
          BY <5>1
      <4> QED
        BY <4>1
    <3>3. i < j
      BY <1>1, <2>1, <3>1, <3>2
    <3> QED
      BY <2>1, <3>1, <3>3 DEF Ordered
  <2>2. \A j \in 1..Cardinality(S) : j < i => s[j] = t[j]
    <3>1. ASSUME NEW j \in 1..Cardinality(S), j < i, s[j] # t[j] PROVE FALSE
      <4>1. j \in Differ
        BY <3>1
      <4> QED
        BY <1>1, <1>2, <3>1, <4>1
    <3> QED
      BY <3>1
  <2>3. t[i].seq < s[i].seq /\ s[i].seq < t[i].seq
    BY <2>1, <2>2
  <2>4. s[i].seq \in Nat /\ t[i].seq \in Nat
    BY DEF Ordered, Numbered
  <2> QED
    BY <2>3, <2>4
<1>3. Differ = {}
  <2>1. Differ \in SUBSET Nat
    BY <1>1
  <2> HIDE DEF Differ
  <2> QED
    BY <1>2, <2>1, LeastOf
<1>4. \A i \in 1..Cardinality(S) : s[i] = t[i]
  BY <1>3
<1>5. /\ s = [i \in 1..Cardinality(S) |-> s[i]]
      /\ t = [i \in 1..Cardinality(S) |-> t[i]]
  BY Zenon DEF Ordered
<1> QED
  BY <1>4, <1>5, Zenon

(* Two sets, one below the other: their sequences one after the other. *)
LEMMA OrderedJoin ==
  ASSUME NEW S, Numbered(S), NEW s, Ordered(s, S), NEW T, Numbered(T), NEW t, Ordered(t, T),
         \A r \in S, q \in T : r.seq < q.seq
  PROVE  Numbered(S \cup T) /\ Ordered(s \o t, S \cup T)
<1> DEFINE m == Cardinality(S)
           n == Cardinality(T)
<1>1. /\ m \in Nat /\ n \in Nat /\ IsFiniteSet(S \cup T)
      /\ Cardinality(S \cup T) = m + n
  <2>1. S \cap T = {}
    <3>1. ASSUME NEW r \in S \cap T PROVE FALSE
      <4>1. r.seq \in Nat /\ r.seq < r.seq
        BY DEF Numbered
      <4> QED
        BY <4>1
    <3> QED
      BY <3>1
  <2>2. IsFiniteSet(S) /\ IsFiniteSet(T)
    BY DEF Numbered
  <2>3. m \in Nat /\ n \in Nat
    BY <2>2, FS_CardinalityType
  <2>4. IsFiniteSet(S \cup T) /\ Cardinality(S \cup T) = m + n - Cardinality(S \cap T)
    BY <2>2, FS_Union
  <2>5. Cardinality(S \cap T) = 0
    BY <2>1, FS_EmptySet, Zenon
  <2> QED
    BY <2>3, <2>4, <2>5
<1>2. /\ s \in [1..m -> S] /\ t \in [1..n -> T]
      /\ \A i, j \in 1..m : i < j => s[i].seq < s[j].seq
      /\ \A i, j \in 1..n : i < j => t[i].seq < t[j].seq
  BY DEF Ordered
<1> HIDE DEF m, n
<1>3. s \in Seq(S \cup T) /\ t \in Seq(S \cup T) /\ Len(s) = m /\ Len(t) = n
  <2>1. s \in [1..m -> S \cup T] /\ t \in [1..n -> S \cup T]
    BY <1>2
  <2> QED
    BY <1>1, <2>1
<1>4. /\ s \o t \in [1..(m + n) -> S \cup T]
      /\ \A i \in 1..(m + n) : (s \o t)[i] = IF i <= m THEN s[i] ELSE t[i - m]
  <2>1. s \o t \in Seq(S \cup T) /\ Len(s \o t) = m + n
    BY <1>1, <1>3
  <2>2. s \o t \in [1..(m + n) -> S \cup T]
    BY <2>1, LenProperties
  <2>3. ASSUME NEW i \in 1..(m + n)
        PROVE  (s \o t)[i] = IF i <= m THEN s[i] ELSE t[i - m]
    BY <1>1, <1>3
  <2> QED
    BY <2>2, <2>3
<1>5. ASSUME NEW i \in 1..(m + n), NEW j \in 1..(m + n), i < j
      PROVE  (s \o t)[i].seq < (s \o t)[j].seq
  <2>1. CASE j <= m
    <3>1. i \in 1..m /\ j \in 1..m /\ i <= m
      BY <1>1, <1>5, <2>1
    <3> QED
      BY <1>2, <1>4, <1>5, <2>1, <3>1
  <2>2. CASE i <= m /\ ~(j <= m)
    <3>1. i \in 1..m /\ j - m \in 1..n
      BY <1>1, <1>5, <2>2
    <3>2. s[i] \in S /\ t[j - m] \in T
      BY <1>2, <3>1
    <3> QED
      BY <1>4, <2>2, <3>2
  <2>3. CASE ~(i <= m)
    <3>1. i - m \in 1..n /\ j - m \in 1..n /\ i - m < j - m /\ ~(j <= m)
      BY <1>1, <1>5, <2>3
    <3>2. t[i - m].seq < t[j - m].seq
      BY <1>2, <3>1
    <3> QED
      BY <1>4, <2>3, <3>1, <3>2
  <2> QED
    BY <2>1, <2>2, <2>3
<1>6. Ordered(s \o t, S \cup T)
  BY <1>1, <1>4, <1>5 DEF Ordered
<1>7. Numbered(S \cup T)
  <2>1. \A r \in S \cup T : r.seq \in Nat
    BY DEF Numbered
  <2>2. ASSUME NEW r \in S \cup T, NEW q \in S \cup T, r.seq = q.seq PROVE r = q
    <3>1. CASE (r \in S /\ q \in S) \/ (r \in T /\ q \in T)
      BY <2>2, <3>1 DEF Numbered
    <3>2. CASE (r \in S /\ q \in T) \/ (r \in T /\ q \in S)
      BY <2>1, <2>2, <3>2
    <3> QED
      BY <3>1, <3>2
  <2> QED
    BY <1>1, <2>1, <2>2 DEF Numbered
<1> QED
  BY <1>6, <1>7

LEMMA OrderedNone == Numbered({}) /\ Ordered(<<>>, {})
<1>1. Numbered({}) /\ Cardinality({}) = 0
  BY FS_EmptySet DEF Numbered
<1>2. <<>> \in [1..0 -> {}]
  OBVIOUS
<1> QED
  BY <1>1, <1>2 DEF Ordered

LEMMA OrderedExists ==
  ASSUME NEW S, Numbered(S), NEW b \in Nat, \A r \in S : r.seq <= b
  PROVE  \E s : Ordered(s, S)
<1> DEFINE Lacking == {n \in Nat : \E T \in SUBSET S :
                         Cardinality(T) = n /\ ~\E s : Ordered(s, T)}
<1>1. \A T \in SUBSET S : Numbered(T) /\ Cardinality(T) \in Nat
  BY FS_Subset, FS_CardinalityType DEF Numbered
<1>2. ASSUME NEW n \in Lacking, \A k \in Lacking : n <= k PROVE FALSE
  <2>1. PICK T \in SUBSET S : Cardinality(T) = n /\ ~\E s : Ordered(s, T)
    OBVIOUS
  <2>2. T # {}
    BY <2>1, OrderedNone
  <2>3. PICK top \in T : \A r \in T : r.seq <= top.seq
    <3> DEFINE seqs == {r.seq : r \in T}
    <3>1. seqs \in SUBSET Nat /\ seqs # {}
      BY <1>1, <2>2 DEF Numbered
    <3>2. PICK x \in seqs : \A y \in seqs : y <= x
      <4>1. \A x \in seqs : x <= b
        OBVIOUS
      <4> HIDE DEF seqs
      <4> QED
        BY <3>1, <4>1, GreatestOf
    <3> QED
      BY <3>2
  <2> DEFINE low == T \ {top}
  <2>4. low \in SUBSET S /\ Cardinality(low) = n - 1
    BY <1>1, <2>1, FS_RemoveElement DEF Numbered
  <2>5. PICK s : Ordered(s, low)
    BY <1>1, <1>2, <2>4
  <2>6. Numbered({top}) /\ Ordered(<<top>>, {top})
    <3>1. IsFiniteSet({top}) /\ Cardinality({top}) = 1
      BY FS_Singleton
    <3>2. <<top>> \in [1..1 -> {top}] /\ \A i, j \in 1..1 : ~(i < j)
      OBVIOUS
    <3>3. top.seq \in Nat
      BY <1>1 DEF Numbered
    <3> QED
      BY <3>1, <3>2, <3>3 DEF Numbered, Ordered
  <2>7. \A r \in low, q \in {top} : r.seq < q.seq
    BY <1>1, <2>3 DEF Numbered
  <2>8. Ordered(s \o <<top>>, low \cup {top})
    BY <1>1, <2>4, <2>5, <2>6, <2>7, OrderedJoin
  <2> QED
    BY <2>1, <2>8
<1>3. Lacking = {}
  <2>1. Lacking \in SUBSET Nat
    OBVIOUS
  <2> HIDE DEF Lacking
  <2> QED
    BY <1>2, <2>1, LeastOf
<1> QED
  BY <1>1, <1>3

LEMMA InSeqOrderIs ==
  ASSUME NEW S, Numbered(S), NEW b \in Nat, \A r \in S : r.seq <= b
  PROVE  Ordered(InSeqOrder(S), S)
BY OrderedExists, Zenon DEF InSeqOrder, Ordered

LEMMA RowsNumbered ==
  ASSUME TypeInv, RowsInv, NEW S \in SUBSET rows
  PROVE  Numbered(S) /\ LogEnd \in Nat /\ \A r \in S : r.seq <= LogEnd
<1> DEFINE f == [r \in rows |-> r.seq]
<1>1. IsFiniteSet(rows) /\ LogEnd \in Nat /\ \A r \in rows : r.seq \in 1..LogEnd
  BY LogEndType DEF RowsInv
<1>2. f \in Surjection(rows, 1..LogEnd)
  BY <1>1 DEF RowsInv, Surjection
<1>3. Cardinality(1..LogEnd) = Cardinality(rows)
  BY <1>1, FS_Interval DEF LogEnd
<1>4. f \in Injection(rows, 1..LogEnd)
  <2> HIDE DEF f
  <2> QED
    BY <1>1, <1>2, <1>3, FS_SurjSameCardinalityImpliesInj
<1>5. \A r, q \in rows : r.seq = q.seq => r = q
  BY <1>4 DEF Injection, IsInjective
<1>6. IsFiniteSet(S)
  BY <1>1, FS_Subset
<1> QED
  BY <1>1, <1>5, <1>6 DEF Numbered

(* In memory a record's position is its seq. *)
LEMMA InOrderIs ==
  ASSUME TypeInv, RowsInv
  PROVE  InOrder \in [1..LogEnd -> rows] /\ \A i \in 1..LogEnd : InOrder[i].seq = i
<1> DEFINE t == [i \in 1..LogEnd |-> CHOOSE r \in rows : r.seq = i]
<1>1. t \in [1..LogEnd -> rows] /\ \A i \in 1..LogEnd : t[i].seq = i
  BY DEF RowsInv
<1> HIDE DEF t
<1>2. Ordered(t, rows)
  <2>1. ASSUME NEW i \in 1..LogEnd, NEW j \in 1..LogEnd, i < j
        PROVE  t[i].seq < t[j].seq
    BY <1>1, <2>1
  <2> QED
    BY <1>1, <2>1 DEF Ordered, LogEnd
<1>3. Numbered(rows) /\ Ordered(InOrder, rows)
  BY RowsNumbered, InSeqOrderIs DEF InOrder
<1>4. InOrder = t
  BY <1>2, <1>3, OrderedOnce
<1> QED
  BY <1>1, <1>4

LEMMA ReadIs ==
  ASSUME TypeInv, RowsInv, NEW after \in Nat, NEW topic, NEW limit
  PROVE  Read(after, topic, limit) =
         First({r \in rows : r.seq > after /\ r.topic = topic}, limit)
<1> DEFINE at == {j \in DOMAIN InOrder : j > after /\ InOrder[j].topic = topic}
<1>1. /\ DOMAIN InOrder = 1..LogEnd
      /\ \A i \in 1..LogEnd : InOrder[i] \in rows /\ InOrder[i].seq = i
  BY InOrderIs
<1>2. {InOrder[i] : i \in at} = {r \in rows : r.seq > after /\ r.topic = topic}
  <2>1. ASSUME NEW i \in at
        PROVE  InOrder[i] \in rows /\ InOrder[i].seq > after /\ InOrder[i].topic = topic
    BY <1>1
  <2>2. ASSUME NEW r \in rows, r.seq > after, r.topic = topic
        PROVE  \E i \in at : InOrder[i] = r
    <3>1. r.seq \in 1..LogEnd
      BY DEF RowsInv
    <3>2. InOrder[r.seq] = r
      BY <1>1, <3>1, RowsNumbered DEF Numbered
    <3> QED
      BY <1>1, <2>2, <3>1, <3>2
  <2> QED
    BY <2>1, <2>2
<1> QED
  BY <1>2, Zenon DEF Read, MemoryRead, SqlRead

-----------------------------------------------------------------------------

Seen(n) == {r \in rows : r.topic = Followed /\ r.seq <= n}

(* An incremental reader has what there is at or below its cursor, and its *)
(* cursor, like the W of its poll, is a seq of the log.                    *)
ReaderInv ==
  /\ reader = [cursor |-> reader.cursor, w |-> reader.w, got |-> reader.got]
  /\ reader.cursor \in 0..LogEnd /\ reader.w \in Nat
  /\ reader.w # 0 => reader.w \in (reader.cursor + 1)..LogEnd
  /\ Ordered(reader.got, Seen(reader.cursor))

(* What a poll reads is all there is above its cursor and up to W: there   *)
(* are at most W - cursor such rows, and so the limit cuts off none.       *)
LEMMA TailIs ==
  ASSUME TypeInv, RowsInv, NEW c \in Nat, NEW w \in Nat, NEW topic
  PROVE  {r \in Read(c, topic, w - c) : r.seq <= w} =
         {r \in rows : r.topic = topic /\ r.seq > c /\ r.seq <= w}
<1> DEFINE above == {r \in rows : r.seq > c /\ r.topic = topic}
<1>1. Numbered(above)
  BY RowsNumbered
<1>2. ASSUME NEW r \in above, r.seq <= w
      PROVE  Cardinality({q \in above : q.seq < r.seq}) < w - c
  <2> DEFINE Q == {q \in above : q.seq < r.seq}
             f == [q \in Q |-> q.seq]
  <2>1. \A q \in above : q.seq \in Nat /\ q.seq > c
    BY <1>1 DEF Numbered
  <2>2. f \in [Q -> (c + 1)..(r.seq - 1)]
    BY <2>1
  <2>3. \A p, q \in Q : p.seq = q.seq => p = q
    BY <1>1 DEF Numbered
  <2>4. f \in Injection(Q, (c + 1)..(r.seq - 1))
    BY <2>2, <2>3 DEF Injection, IsInjective
  <2>5. r.seq \in Nat /\ r.seq > c
    BY <2>1
  <2>6. /\ IsFiniteSet((c + 1)..(r.seq - 1))
        /\ Cardinality((c + 1)..(r.seq - 1)) = r.seq - 1 - c
    <3>1. c + 1 \in Int /\ r.seq - 1 \in Int
      BY <2>5
    <3>2. /\ IsFiniteSet((c + 1)..(r.seq - 1))
          /\ Cardinality((c + 1)..(r.seq - 1)) =
               IF c + 1 > r.seq - 1 THEN 0 ELSE (r.seq - 1) - (c + 1) + 1
      BY <3>1, FS_Interval, Zenon
    <3> QED
      BY <2>5, <3>2
  <2> HIDE DEF f, Q
  <2>7. IsFiniteSet(Q) /\ Cardinality(Q) <= Cardinality((c + 1)..(r.seq - 1))
    BY <2>4, <2>6, FS_Injection
  <2>8. Cardinality(Q) \in Nat
    BY <2>7, FS_CardinalityType
  <2>9. Cardinality(Q) < w - c
    BY <1>2, <2>5, <2>6, <2>7, <2>8
  <2> QED
    BY <2>9 DEF Q
<1>3. Read(c, topic, w - c) = First(above, w - c)
  BY ReadIs
<1>4. {r \in First(above, w - c) : r.seq <= w} = {r \in above : r.seq <= w}
  <2> HIDE DEF above
  <2> QED
    BY <1>2 DEF First
<1> QED
  BY <1>3, <1>4

LEMMA TakeWKeeps ==
  ASSUME Inv, ReaderInv, TakeW
  PROVE  ReaderInv'
<1>1. /\ UNCHANGED <<rows, backend>> /\ reader' = [reader EXCEPT !.w = LastSeq]
      /\ LastSeq > reader.cursor /\ LastSeq = LogEnd /\ LogEnd \in Nat
  BY LastSeqIsLogEnd, LogEndType DEF TakeW, Inv
<1>2. reader'.cursor = reader.cursor /\ reader'.got = reader.got /\ reader'.w = LogEnd
  BY <1>1 DEF ReaderInv
<1>3. reader' = [cursor |-> reader.cursor, w |-> LogEnd, got |-> reader.got]
  BY <1>1 DEF ReaderInv
<1> QED
  BY <1>1, <1>2, <1>3 DEF ReaderInv, LogEnd, Seen

LEMMA ReadTailKeeps ==
  ASSUME Inv, ReaderInv, ReadTail
  PROVE  ReaderInv'
<1> DEFINE c == reader.cursor
           w == reader.w
           tail == {r \in rows : r.topic = Followed /\ r.seq > c /\ r.seq <= w}
<1>1. TypeInv /\ RowsInv /\ LogEnd \in Nat
  BY LogEndType DEF Inv
<1>2. /\ c \in Nat /\ w \in Nat /\ w \in (c + 1)..LogEnd
      /\ Ordered(reader.got, Seen(c))
  BY <1>1 DEF ReaderInv, ReadTail
<1>3. /\ reader' = [cursor |-> w, w |-> 0, got |-> reader'.got]
      /\ reader'.cursor = w /\ reader'.w = 0
      /\ reader'.got = reader.got \o InSeqOrder(tail)
      /\ UNCHANGED rows
  <2>1. {r \in Read(c, Followed, w - c) : r.seq <= w} = tail
    BY <1>1, <1>2, TailIs
  <2> HIDE DEF tail
  <2> QED
    BY <2>1 DEF ReadTail
<1>4. Numbered(tail) /\ Ordered(InSeqOrder(tail), tail) /\ Numbered(Seen(c))
  BY <1>1, RowsNumbered, InSeqOrderIs DEF Seen
<1>5. \A r \in Seen(c), q \in tail : r.seq < q.seq
  BY <1>2, <1>4 DEF Seen, Numbered
<1>6. Seen(c) \cup tail = Seen(w)
  BY <1>1, <1>2 DEF Seen, RowsInv
<1>7. Ordered(reader'.got, Seen(w))
  <2> HIDE DEF tail, c, w
  <2>1. Ordered(reader.got \o InSeqOrder(tail), Seen(c) \cup tail)
    BY <1>2, <1>4, <1>5, OrderedJoin
  <2> QED
    BY <1>3, <1>6, <2>1
<1> QED
  BY <1>1, <1>2, <1>3, <1>7 DEF ReaderInv, LogEnd, Seen

(* A row lands above every seq that a reader has passed. *)
LEMMA OthersKeepReader ==
  ASSUME Inv, [Next]_vars, ReaderInv, UNCHANGED reader
  PROVE  ReaderInv'
<1>1. TypeInv /\ RowsInv /\ LogEnd \in Nat /\ Atomic /\ Inv'
  BY NextKeeps, LogEndType DEF Inv
<1>2. \/ UNCHANGED rows
      \/ \E r : r \notin rows /\ r.seq = LogEnd + 1 /\ rows' = rows \cup {r}
  BY <1>1, SameCount DEF Atomic, Log!Next, Log!Call, Log!Land, Log!Return
<1>3. LogEnd' \in Nat /\ LogEnd <= LogEnd'
  <2>1. CASE UNCHANGED rows
    BY <1>1, <2>1 DEF LogEnd
  <2>2. CASE ~UNCHANGED rows
    <3>1. PICK r : r \notin rows /\ rows' = rows \cup {r}
      BY <1>2, <2>2
    <3>2. LogEnd' = LogEnd + 1
      BY <1>1, <3>1, FS_AddElement DEF LogEnd, RowsInv
    <3> QED
      BY <1>1, <3>2
  <2> QED
    BY <2>1, <2>2
<1>4. Seen(reader.cursor)' = Seen(reader.cursor)
  BY <1>1, <1>2 DEF ReaderInv, Seen, Followed
<1> QED
  BY <1>1, <1>3, <1>4 DEF ReaderInv, Ordered

LEMMA ReaderInvHolds == Spec => [](Inv /\ ReaderInv)
<1>1. Init => ReaderInv
  <2> SUFFICES ASSUME Init PROVE ReaderInv
    OBVIOUS
  <2>1. LogEnd = 0 /\ Seen(0) = {}
    BY FS_EmptySet DEF Init, LogEnd, Seen
  <2>2. /\ reader = [cursor |-> reader.cursor, w |-> reader.w, got |-> reader.got]
        /\ reader.cursor = 0 /\ reader.w = 0 /\ reader.got = <<>>
    BY DEF Init
  <2>3. Ordered(reader.got, Seen(reader.cursor))
    BY <2>1, <2>2, OrderedNone
  <2> QED
    BY <2>1, <2>2, <2>3 DEF ReaderInv
<1>2. Inv /\ ReaderInv /\ [Next]_vars => ReaderInv'
  <2> SUFFICES ASSUME Inv, ReaderInv, [Next]_vars PROVE ReaderInv'
    OBVIOUS
  <2>1. TakeW \/ ReadTail \/ UNCHANGED reader
    <3>1. ASSUME NEW h \in Handles, StatementStep(h) PROVE UNCHANGED reader
      BY <3>1 DEF StatementStep, AppendMemory, InsertSqlite, BusySqlite,
         SnapshotPostgres, InsertPostgres, LockTimeout, Commit, Answer
    <3>2. ASSUME NEW h \in Handles, NEW n, Open(h) \/ Send(h, n) \/ ClientGoes(h) \/ BackendEnds(h)
                                   \/ WriterDies(h)
          PROVE  UNCHANGED reader
      BY <3>2 DEF Open, Send, ClientGoes, BackendEnds, WriterDies
    <3>3. ASSUME Restart \/ Probe \/ UNCHANGED vars PROVE UNCHANGED reader
      BY <3>3 DEF Restart, Probe, vars
    <3> QED
      BY <3>1, <3>2, <3>3, Zenon DEF Next
  <2> QED
    BY <2>1, TakeWKeeps, ReadTailKeeps, OthersKeepReader
<1> QED
  BY <1>1, <1>2, InvHolds, PTL DEF Spec

(* The newest row of the topic is what latest finds, on each backend. *)
LEMMA LatestIs ==
  ASSUME TypeInv, RowsInv, NEW topic
  PROVE  \/ Latest(topic) = 0
         \/ \E r \in rows : /\ r.topic = topic /\ r.seq = Latest(topic)
                          /\ \A q \in rows : q.topic = topic => q.seq <= r.seq
<1> DEFINE seqs == {r.seq : r \in {s \in rows : s.topic = topic}}
           at == {i \in DOMAIN InOrder : InOrder[i].topic = topic}
<1>1. /\ LogEnd \in Nat /\ DOMAIN InOrder = 1..LogEnd
      /\ \A i \in 1..LogEnd : InOrder[i] \in rows /\ InOrder[i].seq = i
      /\ \A r \in rows : r.seq \in 1..LogEnd
  BY LogEndType, InOrderIs DEF RowsInv
<1>2. at = seqs
  <2>1. \A r \in rows : InOrder[r.seq] = r
    BY <1>1, RowsNumbered DEF Numbered
  <2> QED
    BY <1>1, <2>1
<1>3. seqs \in SUBSET Nat /\ \A n \in seqs : n <= LogEnd
  BY <1>1
<1>4. CASE seqs = {}
  <2>1. LatestSql(topic) = 0 /\ LatestMemory(topic) = 0
    <3>1. LatestMemory(topic) = 0
      BY <1>2, <1>4 DEF LatestMemory
    <3>2. LatestSql(topic) = CHOOSE n \in seqs \cup {0} : \A m \in seqs : m <= n
      BY DEF LatestSql
    <3>3. LatestSql(topic) \in {0}
      <4> HIDE DEF seqs
      <4> QED
        BY <1>4, <3>2
    <3> QED
      BY <3>1, <3>3
  <2> QED
    BY <2>1 DEF Latest
<1>5. CASE seqs # {}
  <2>1. PICK top \in seqs : \A n \in seqs : n <= top
    <3> HIDE DEF seqs
    <3> QED
      BY <1>1, <1>3, <1>5, GreatestOf
  <2>2. LatestSql(topic) = top
    <3>1. LatestSql(topic) = CHOOSE n \in seqs \cup {0} : \A m \in seqs : m <= n
      BY DEF LatestSql
    <3>2. ASSUME NEW n \in seqs \cup {0}, \A m \in seqs : m <= n PROVE n = top
      <4>1. top <= n /\ (n \in seqs => n <= top)
        BY <2>1, <3>2
      <4>2. top \in 1..LogEnd
        BY <1>1, <2>1
      <4> QED
        BY <1>3, <4>1, <4>2
    <3> HIDE DEF seqs
    <3> QED
      BY <2>1, <3>1, <3>2
  <2>3. LatestMemory(topic) = top
    <3>1. LatestMemory(topic) = InOrder[CHOOSE i \in at : \A j \in at : j <= i].seq
      BY <1>2, <1>5 DEF LatestMemory
    <3>2. \A n \in seqs : (\A m \in seqs : m <= n) => n = top
      BY <1>3, <2>1
    <3>3. (CHOOSE i \in seqs : \A j \in seqs : j <= i) = top
      <4> HIDE DEF seqs
      <4> QED
        BY <2>1, <3>2
    <3>4. top \in 1..LogEnd
      BY <1>1, <2>1
    <3> HIDE DEF seqs, at
    <3> QED
      BY <1>1, <1>2, <3>1, <3>3, <3>4
  <2>4. Latest(topic) = top
    BY <2>2, <2>3 DEF Latest
  <2> QED
    BY <2>1, <2>4
<1> QED
  BY <1>4, <1>5

(* _tail: an incremental reader, whose cursor only ever moves up, misses   *)
(* no row of its topic: what it has is, in order, all there is at or below *)
(* its cursor, and the newest of it is what latest finds, once the reader  *)
(* has come to it.                                                         *)
THEOREM NoRowIsMissed == Spec => []NothingMissed
<1>1. Inv /\ ReaderInv => NothingMissed
  <2> SUFFICES ASSUME Inv, ReaderInv PROVE NothingMissed
    OBVIOUS
  <2> DEFINE c == reader.cursor
             n == Cardinality(Seen(c))
  <2>1. /\ TypeInv /\ RowsInv /\ LogEnd \in Nat /\ c \in Nat
        /\ Ordered(reader.got, Seen(c))
    BY LogEndType DEF Inv, ReaderInv
  <2>2. Numbered(Seen(c)) /\ Ordered(InSeqOrder(Seen(c)), Seen(c)) /\ n \in Nat
    BY <2>1, RowsNumbered, InSeqOrderIs, FS_CardinalityType DEF Seen, Numbered
  <2>3. reader.got = InSeqOrder(Seen(c))
    BY <2>1, <2>2, OrderedOnce
  <2>4. Len(reader.got) = n /\ \A i \in 1..n : reader.got[i] \in Seen(c)
    BY <2>1, <2>2 DEF Ordered
  <2>5. ASSUME Latest(Followed) \in 1..c
        PROVE  reader.got # <<>> /\ reader.got[n].seq = Latest(Followed)
    <3>1. PICK r \in rows :
            /\ r.topic = Followed /\ r.seq = Latest(Followed)
            /\ \A q \in rows : q.topic = Followed => q.seq <= r.seq
      BY <2>1, <2>5, LatestIs
    <3>2. r \in Seen(c)
      BY <2>1, <2>5, <3>1 DEF Seen
    <3>3. PICK i \in 1..n : reader.got[i] = r
      BY <2>1, <2>2, <3>2, OrderedOnto
    <3>4. n \in 1..n /\ n # 0
      BY <2>2, <3>3
    <3>5. reader.got[n].seq <= r.seq /\ reader.got[n].seq \in Nat /\ r.seq \in Nat
      BY <2>2, <2>4, <3>1, <3>2, <3>4 DEF Seen, Numbered
    <3>6. i < n => r.seq < reader.got[n].seq
      BY <2>1, <3>3, <3>4 DEF Ordered
    <3>7. i = n
      BY <2>2, <3>3, <3>5, <3>6
    <3> QED
      BY <2>4, <3>1, <3>3, <3>4, <3>7
  <2> QED
    BY <2>3, <2>4, <2>5 DEF NothingMissed, Seen
<1> QED
  BY <1>1, ReaderInvHolds, PTL
=============================================================================
