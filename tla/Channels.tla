------------------------------ MODULE Channels ------------------------------
(***************************************************************************)
(* One run's log on each backend (channel/): the statements behind send,   *)
(* the reads of an incremental reader, and the session probe.  Every other *)
(* module takes an append for one atomic step; this one shows why it may.  *)
(*                                                                         *)
(* A handle has one connection, and its lock lets one call use it at a     *)
(* time, so that a handle is at most one call.  A Postgres statement takes *)
(* a snapshot, inserts, waits for a rival's uncommitted key, and commits;  *)
(* its backend outlives a client that has gone.  SQLite serializes         *)
(* statements on the file's write lock, and memory on the log's.           *)
(***************************************************************************)
EXTENDS Naturals, Sequences, FiniteSets

CONSTANTS
  Handles,
  Backends,     \* the backends a behaviour may be of
  Topics,
  Keys,         \* the advisory-lock keys a connection may draw
  Retries,      \* _SEND_RETRY_BOUND
  MaxCalls,     \* bound: the calls of send
  MaxOpens,     \* bound: the connections ever opened
  MaxFaults     \* bound: lost connections, restarts of the server and crashes

ASSUME ChannelAssumption ==
  /\ Backends \subseteq {"memory", "sqlite", "postgres"}
  /\ Retries \in Nat /\ MaxCalls \in Nat /\ MaxOpens \in Nat /\ MaxFaults \in Nat

VARIABLES
  backend,
  rows,     \* the committed rows
  conn,     \* each handle's connection: its client's side and its backend's
  stmt,     \* each connection's statement under way
  call,     \* each handle's last call, as AtomicLog has it
  reader,   \* an incremental reader: its cursor, the W of its poll, what it got
  probed,   \* the connections that some probe has called ended
  left      \* the calls, opens and faults left

vars == <<backend, rows, conn, stmt, call, reader, probed, left>>

-----------------------------------------------------------------------------

Log == INSTANCE AtomicLog

(* last_seq: the row count in memory, MAX(seq) in SQL. *)
LastSeq ==
  IF backend = "memory" THEN Cardinality(rows)
  ELSE CHOOSE n \in {0} \cup {r.seq : r \in rows} : \A r \in rows : r.seq <= n

Spend(what) == left[what] > 0 /\ left' = [left EXCEPT ![what] = @ - 1]

(* No statement; snap is the tail it read, tries the retries it has made.  *)
NoStmt == [at |-> "none", seq |-> 0, topic |-> "", tries |-> 0]

(* client: has it the connection; server: is its backend there; id: which  *)
(* connection it is, since a key may be drawn again once it is free.       *)
NoConn == [client |-> FALSE, server |-> FALSE, key |-> "none", id |-> 0]

HeldKeys == {conn[h].key : h \in {g \in Handles : conn[g].server}}

(* _become_writer: a key that no connection holds, drawn until one is free. *)
Open(h) ==
  /\ ~conn[h].client /\ ~conn[h].server /\ Spend("opens")
  /\ \E k \in Keys \ HeldKeys :
       conn' = [conn EXCEPT ![h] =
         [client |-> TRUE, server |-> TRUE, key |-> k, id |-> left.opens]]
  /\ UNCHANGED <<backend, rows, stmt, call, reader, probed>>

(* send: unconditional, or with the tail the caller has read as expected. *)
Send(h, expected) ==
  /\ conn[h].client /\ conn[h].server /\ call[h].told # "nothing" /\ stmt[h] = NoStmt
  /\ Spend("calls")
  /\ call' = [call EXCEPT ![h] =
       [expected |-> expected, landed |-> 0, told |-> "nothing"]]
  /\ \E t \in Topics : stmt' = [stmt EXCEPT ![h] = [NoStmt EXCEPT !.at = "sent", !.topic = t]]
  /\ UNCHANGED <<backend, rows, conn, reader, probed>>

Conditional(h) == call[h].expected # Log!Plain

(* The guard of the compare-and-append, against the tail the statement sees. *)
Guard(h) == Conditional(h) => LastSeq = call[h].expected - 1

Tells(h, told) ==
  /\ call' = [call EXCEPT ![h].told = IF @ = "nothing" THEN told ELSE @]
  /\ stmt' = [stmt EXCEPT ![h] = NoStmt]

Lands(h, seq) ==
  /\ rows' = rows \cup {[seq |-> seq, topic |-> stmt[h].topic, by |-> conn[h].id,
                         key |-> conn[h].key]}
  /\ call' = [call EXCEPT ![h].landed = seq]

-----------------------------------------------------------------------------
(* MemoryLog.append, under the log's lock. *)

AppendMemory(h) ==
  /\ backend = "memory" /\ stmt[h].at = "sent"
  /\ IF Guard(h)
     THEN /\ Lands(h, LastSeq + 1)
          /\ stmt' = [stmt EXCEPT ![h].at = "committed"]
     ELSE Tells(h, "None") /\ UNCHANGED rows
  /\ UNCHANGED <<backend, conn, reader, probed, left>>

-----------------------------------------------------------------------------
(* SQLite: one statement is one write transaction, under the file's lock.  *)

Locked == {h \in Handles : stmt[h].at = "inserted"}

InsertSqlite(h) ==
  /\ backend = "sqlite" /\ stmt[h].at = "sent" /\ Locked = {}
  /\ IF Guard(h)
     THEN /\ stmt' = [stmt EXCEPT ![h].at = "inserted", ![h].seq = LastSeq + 1]
          /\ UNCHANGED call
     ELSE Tells(h, "None")
  /\ UNCHANGED <<backend, rows, conn, reader, probed, left>>

(* busy_timeout runs out under another's lock: an append raises, and a     *)
(* compare-and-append has lost when the log has moved, else raises.        *)
BusyAlwaysLost(h) ==          \* mutant: a busy file is taken for a lost claim
  IF Conditional(h) THEN "None" ELSE "raised"

BusyTold(h) ==
  IF Conditional(h) /\ LastSeq > call[h].expected - 1 THEN "None" ELSE "raised"

BusySqlite(h) ==
  /\ backend = "sqlite" /\ stmt[h].at = "sent" /\ Locked # {}
  /\ Tells(h, BusyTold(h))
  /\ UNCHANGED <<backend, rows, conn, reader, probed, left>>

-----------------------------------------------------------------------------
(* Postgres: the primary key is the arbiter. *)

NextOfAll(h) ==               \* mutant: a sequence numbers the rows, committed or not
  LET taken == {r.seq : r \in rows} \cup {stmt[g].seq : g \in Handles}
  IN  1 + CHOOSE n \in taken \cup {0} : \A m \in taken : m <= n

(* The seq of the row, from the rows that the statement's snapshot shows. *)
NextSeq(h) == LastSeq + 1

(* The snapshot: a guard that fails inserts nothing. *)
SnapshotPostgres(h) ==
  /\ backend = "postgres" /\ conn[h].server /\ stmt[h].at = "sent"
  /\ IF Guard(h)
     THEN /\ stmt' = [stmt EXCEPT ![h].at = "insert", ![h].seq = NextSeq(h)]
          /\ UNCHANGED call
     ELSE Tells(h, "None")
  /\ UNCHANGED <<backend, rows, conn, reader, probed, left>>

Uncommitted(h) == {g \in Handles \ {h} : stmt[g].at = "inserted" /\ stmt[g].seq = stmt[h].seq}

Inserted(h) == {r \in rows : r.seq = stmt[h].seq} # {}

(* The insert, once no rival holds the key uncommitted: a violation is a   *)
(* loss to a compare-and-append; an unconditional one tries again, as long *)
(* as its client is there, and gives up at the bound.                      *)
InsertPostgres(h) ==
  /\ backend = "postgres" /\ stmt[h].at = "insert" /\ Uncommitted(h) = {}
  /\ CASE ~Inserted(h) ->
            stmt' = [stmt EXCEPT ![h].at = "inserted"] /\ UNCHANGED call
       [] Inserted(h) /\ Conditional(h) -> Tells(h, "None")
       [] Inserted(h) /\ ~Conditional(h) ->
            IF conn[h].client /\ stmt[h].tries + 1 < Retries
            THEN /\ stmt' = [stmt EXCEPT ![h].at = "sent", ![h].seq = 0, ![h].tries = @ + 1]
                 /\ UNCHANGED call
            ELSE Tells(h, "raised")
  /\ UNCHANGED <<backend, rows, conn, reader, probed, left>>

(* lock_timeout runs out while a rival holds the key uncommitted. *)
LockTimeout(h) ==
  /\ backend = "postgres" /\ stmt[h].at = "insert" /\ Uncommitted(h) # {}
  /\ Tells(h, "raised")
  /\ UNCHANGED <<backend, rows, conn, reader, probed, left>>

-----------------------------------------------------------------------------
(* Of either: the commit, and the answer on its way to the client. *)

Commit(h) ==
  /\ stmt[h].at = "inserted" /\ Lands(h, stmt[h].seq)
  /\ stmt' = [stmt EXCEPT ![h].at = "committed"]
  /\ UNCHANGED <<backend, conn, reader, probed, left>>

Answer(h) ==
  /\ stmt[h].at = "committed" /\ Tells(h, "seq")
  /\ UNCHANGED <<backend, rows, conn, reader, probed, left>>

(* The client loses the connection, or its process dies, or it finds that  *)
(* the server has ended it: a call under way raises, and the backend, if   *)
(* it is there, goes on with the statement it has.                         *)
ClientGoes(h) ==
  /\ backend = "postgres" /\ conn[h].client
  /\ IF conn[h].server THEN Spend("faults") ELSE UNCHANGED left
  /\ conn' = [conn EXCEPT ![h].client = FALSE]
  /\ call' = [call EXCEPT ![h].told = IF @ = "nothing" THEN "raised" ELSE @]
  /\ UNCHANGED <<backend, rows, stmt, reader, probed>>

(* The backend of a client that has gone ends: what it had not committed   *)
(* is rolled back, and its advisory lock is released.                      *)
BackendEnds(h) ==
  /\ conn[h].server /\ ~conn[h].client
  /\ conn' = [conn EXCEPT ![h].server = FALSE]
  /\ stmt' = [stmt EXCEPT ![h] = NoStmt]
  /\ UNCHANGED <<backend, rows, call, reader, probed, left>>

(* The server stops and recovers: every backend ends, and what was         *)
(* committed stays, since every commit was flushed before it was told      *)
(* (synchronous_commit on, fsync on).                                      *)
Restart ==
  /\ backend = "postgres" /\ Spend("faults")
  /\ conn' = [h \in Handles |-> [conn[h] EXCEPT !.server = FALSE]]
  /\ stmt' = [h \in Handles |-> NoStmt]
  /\ UNCHANGED <<backend, rows, call, reader, probed>>

(* A SQLite writer's process dies: its transaction is rolled back. *)
WriterDies(h) ==
  /\ backend = "sqlite" /\ conn[h].client /\ Spend("faults")
  /\ conn' = [conn EXCEPT ![h] = NoConn]
  /\ Tells(h, "raised")
  /\ UNCHANGED <<backend, rows, reader, probed>>

-----------------------------------------------------------------------------
(* Reads. *)

InSeqOrder(S) ==
  CHOOSE s \in [1..Cardinality(S) -> S] :
    \A i, j \in 1..Cardinality(S) : i < j => s[i].seq < s[j].seq

InOrder == InSeqOrder(rows)

(* The first of a set of rows, up to the limit; they are returned in order. *)
First(S, limit) == {r \in S : Cardinality({q \in S : q.seq < r.seq}) < limit}

(* The slice from position `after`, then the filters, then the limit. *)
MemoryRead(after, topic, limit) ==
  First({InOrder[i] : i \in {j \in DOMAIN InOrder : j > after /\ InOrder[j].topic = topic}},
        limit)

SqlRead(after, topic, limit) ==
  First({r \in rows : r.seq > after /\ r.topic = topic}, limit)

Read(after, topic, limit) ==
  IF backend = "memory" THEN MemoryRead(after, topic, limit)
  ELSE SqlRead(after, topic, limit)

(* latest: the last of the topic's positions in memory, the greatest seq in SQL. *)
LatestMemory(topic) ==
  LET at == {i \in DOMAIN InOrder : InOrder[i].topic = topic}
  IN  IF at = {} THEN 0 ELSE InOrder[CHOOSE i \in at : \A j \in at : j <= i].seq

LatestSql(topic) ==
  LET seqs == {r.seq : r \in {s \in rows : s.topic = topic}}
  IN  CHOOSE n \in seqs \cup {0} : \A m \in seqs : m <= n

Latest(topic) == IF backend = "memory" THEN LatestMemory(topic) ELSE LatestSql(topic)

Followed == CHOOSE t \in Topics : TRUE   \* the topic the reader folds

(* A poll of a fold takes W, then reads what is above its cursor, no more  *)
(* than W leaves room for, and drops what is above W (_tail).              *)
TakeW ==
  /\ reader.w = 0 /\ LastSeq > reader.cursor
  /\ reader' = [reader EXCEPT !.w = LastSeq]
  /\ UNCHANGED <<backend, rows, conn, stmt, call, probed, left>>

ReadTail ==
  /\ reader.w # 0
  /\ LET got == {r \in Read(reader.cursor, Followed, reader.w - reader.cursor) :
                   r.seq <= reader.w}
     IN  reader' = [cursor |-> reader.w, w |-> 0, got |-> reader.got \o InSeqOrder(got)]
  /\ UNCHANGED <<backend, rows, conn, stmt, call, probed, left>>

-----------------------------------------------------------------------------
(* The session probe of the connection that stamped a row. *)

(* Is the key granted, on the server the prober is connected to?  A        *)
(* standby's pg_locks know nothing of the primary's sessions.              *)
KeyHeld(key, on) == on = "primary" /\ key \in HeldKeys

SessionEndedAnywhere(row, on) == ~KeyHeld(row.key, on)  \* mutant: a standby answers

(* session_ended: it cannot tell but on the server that wrote the stamp. *)
SessionEnded(row, on) == on = "primary" /\ ~KeyHeld(row.key, on)

Probe ==
  /\ backend = "postgres"
  /\ \E row \in rows, on \in {"primary", "standby"} :
       SessionEnded(row, on) /\ probed' = probed \cup {row.by}
  /\ UNCHANGED <<backend, rows, conn, stmt, call, reader, left>>

-----------------------------------------------------------------------------

Init ==
  /\ backend \in Backends
  /\ rows = {}
  /\ conn = [h \in Handles |-> NoConn]
  /\ stmt = [h \in Handles |-> NoStmt]
  /\ call = [h \in Handles |-> Log!NoCall]
  /\ reader = [cursor |-> 0, w |-> 0, got |-> <<>>]
  /\ probed = {}
  /\ left = [opens |-> MaxOpens, calls |-> MaxCalls, faults |-> MaxFaults]

StatementStep(h) ==
  \/ AppendMemory(h)
  \/ InsertSqlite(h) \/ BusySqlite(h)
  \/ SnapshotPostgres(h) \/ InsertPostgres(h) \/ LockTimeout(h)
  \/ Commit(h) \/ Answer(h)

Next ==
  \/ \E h \in Handles :
       \/ Open(h) \/ StatementStep(h)
       \/ Send(h, Log!Plain) \/ Send(h, LastSeq + 1)
       \/ ClientGoes(h) \/ BackendEnds(h) \/ WriterDies(h)
  \/ Restart \/ TakeW \/ ReadTail \/ Probe

Spec == Init /\ [][Next]_vars

-----------------------------------------------------------------------------
(* The properties. *)

(* Channel.send, "provably lost ... never a silent loss": every backend is *)
(* one atomic log, although a statement's snapshot, its insert and its     *)
(* commit are apart, rivals insert the same seq, and connections, clients  *)
(* and the server fail between them: no seq is skipped or used twice, None *)
(* is told only of a log that has moved, and a seq only of a row that      *)
(* landed there.                                                           *)
ImplementsLog == Log!Spec

(* _tail: an incremental reader, which never looks below its cursor again, *)
(* has every row of its topic there is below it: no row lands at a seq     *)
(* that a reader has passed; and the newest of them is what latest finds,  *)
(* once the reader has come to it.                                         *)
NothingMissed ==
  /\ reader.got = InSeqOrder({r \in rows : r.topic = Followed /\ r.seq <= reader.cursor})
  /\ Latest(Followed) \in 1..reader.cursor =>
       reader.got # <<>> /\ reader.got[Len(reader.got)].seq = Latest(Followed)

(* SessionProbe, "evidence that the claim can write nothing more": once a  *)
(* probe has called a connection ended, no row of that connection lands,   *)
(* though its client may have gone before its backend and its key may be   *)
(* drawn again.                                                            *)
EndedWritesNothing ==
  [][\A row \in rows' \ rows : row.by \notin probed]_vars
=============================================================================
