------------------------------ MODULE Storage ------------------------------
(***************************************************************************)
(* Where one run's log is kept: a SQLite root with the log at the older    *)
(* and at the current format's address, a second root with snapshots, and  *)
(* a Postgres database with both formats' schemas.  Channels open and      *)
(* append (channel/), a copier copies and seals (copy.py, seal.py), a      *)
(* collector drops, and a migrator moves the log to the current format     *)
(* (migrations/__init__.py, stores.py), each of which may die between any  *)
(* two of its steps and be run again.                                      *)
(*                                                                         *)
(* A row is what the parties tell apart: a claim, its end, or an odd row,  *)
(* which the migration step refuses; its id is never used twice.           *)
(***************************************************************************)
EXTENDS Naturals, Sequences, FiniteSets, SequencesExt

CONSTANTS
  Writers,      \* processes that open channels and append
  Calls,        \* the sets of administrators' calls that may be under way together
  Journal,      \* "wal" or "rollback" (RUNSTATE_SQLITE_JOURNAL_MODE)
  Quiet,        \* nobody opens or drops a log in the middle of its seal, or births
                \* one where a copy has found none and is about to publish
  Homes,        \* where the log may be to begin with
  MaxRows,      \* bound: the rows ever appended
  MaxCrashes    \* bound: the crashes of copies and of the migrator

ASSUME StorageAssumption ==
  /\ Journal \in {"wal", "rollback"} /\ Quiet \in BOOLEAN
  /\ Calls \subseteq SUBSET {"move", "back", "keep", "drop", "migrate"}
  /\ Homes \subseteq {"old", "new", "pgold", "pg"}
  /\ MaxRows \in Nat /\ MaxCrashes \in Nat

VARIABLES
  calls,    \* who calls: copies, drops and migrations
  place,    \* the log at each address
  handle,   \* each writer's open channel
  copy,     \* each route's call
  drop,     \* the collector's drop of the SQLite log
  mig,      \* the migrator's invocation
  manifest, \* the logs a facts statement, and an entry citing it, stand for
  from,     \* where the log published at an address came from
  used,     \* the ids of the rows appended so far
  crashes

vars == <<calls, place, handle, copy, drop, mig, manifest, from, used, crashes>>

Places == {"old", "new", "snap", "pgold", "pg"}

Sqlite == {"old", "new", "snap"}

(* copy_run: into Postgres, which becomes the writable log; a snapshot     *)
(* from there into the SQLite root; a snapshot from that root to another.  *)
Source == [move |-> "new", back |-> "pg", keep |-> "new"]

Destination == [move |-> "pg", back |-> "new", keep |-> "snap"]

Routes == DOMAIN Source

Rows(p) == place[p].rows

(* A run is its records: an address holds it when it holds a row (or, on   *)
(* SQLite, a file, which a birth creates empty).                           *)
Holds(p) == place[p].there

(* live_episode, folded over rows: the latest claim has not ended. *)
Live(rows) == \E i \in DOMAIN rows :
  rows[i].kind = "claim" /\ \A j \in (i + 1)..Len(rows) : rows[j].kind # "end"

(* The step's transform refuses a row that it has no chooser for. *)
Refuses(rows) == \E i \in DOMAIN rows : rows[i].kind = "odd"

Absent == [there |-> FALSE, rows |-> <<>>, sealed |-> FALSE, mid |-> FALSE]

-----------------------------------------------------------------------------
(* Channels. *)

(* The opening checks: the current address, else nothing of the run in an  *)
(* older format; and a release that writes the older one refuses what      *)
(* holds a newer (sqlite_log_path, check_format).                          *)
OpensSqlite(p) ==
  \/ p = "snap"
  \/ p = "new" /\ (Holds("new") \/ ~Holds("old"))
  \/ p = "old" /\ Holds("old") /\ ~Holds("new")

OpensPostgres(p) ==
  \/ p = "pg" /\ (Holds("pg") \/ ~Holds("pgold"))
  \/ p = "pgold" /\ Holds("pgold") /\ ~Holds("pg")

Opens(p) == IF p \in Sqlite THEN OpensSqlite(p) ELSE OpensPostgres(p)

(* create_channel: births what it does not find.  A SQLite file is opened  *)
(* read-only when it is sealed; a Postgres trigger reads the seal at each  *)
(* insert instead.                                                         *)
Open(w, p) ==
  /\ handle[w].at = "none" /\ p # "snap" /\ Opens(p)
  /\ Quiet => /\ ~place[p].mid
              /\ Holds(p) \/ \A c \in Routes : Destination[c] = p => copy[c].at # "write"
  /\ handle' = [handle EXCEPT ![w] =
       [at |-> p, readonly |-> p \in Sqlite /\ place[p].sealed, lost |-> FALSE]]
  /\ place' = [place EXCEPT ![p].there = @ \/ p \in Sqlite]
  /\ UNCHANGED <<calls, copy, drop, mig, manifest, from, used, crashes>>

(* The process closes its channel, or dies. *)
Close(w) ==
  /\ handle[w].at # "none"
  /\ handle' = [handle EXCEPT ![w].at = "none"]
  /\ UNCHANGED <<calls, place, copy, drop, mig, manifest, from, used, crashes>>

(* Rows a writer may append: a claim by compare-and-append once the log    *)
(* has no live one, its end, or a row that is neither.                     *)
Appendable(rows) ==
  {[id |-> used + 1, kind |-> k] :
     k \in {"odd"} \cup (IF Live(rows) THEN {"end"} ELSE {"claim"})}

InsertRefused(p) == p \notin Sqlite /\ place[p].sealed

(* send: one statement, which lands at the next seq.  A handle on a file   *)
(* that has been unlinked or replaced writes where nobody reads.           *)
Send(w) ==
  LET h == handle[w]
  IN  /\ h.at # "none" /\ ~h.readonly /\ ~h.lost
      /\ ~InsertRefused(h.at) /\ used < MaxRows
      /\ \E r \in Appendable(Rows(h.at)) :
           place' = [place EXCEPT ![h.at].rows = Append(@, r), ![h.at].there = TRUE]
      /\ used' = used + 1
      /\ UNCHANGED <<calls, handle, copy, drop, mig, manifest, from, crashes>>

-----------------------------------------------------------------------------
(* The seal (seal_sqlite). *)

OpenOn(p) == {w \in Writers : handle[w].at = p /\ ~handle[w].lost}

(* Leaving WAL needs the file to itself; a rollback-mode file has nothing  *)
(* to leave, so a connection that holds it open goes unseen.               *)
Sealable(p) == Journal = "wal" => OpenOn(p) = {}

(* Checkpoint and leave WAL, then clear the write bits.  Connecting        *)
(* creates the file of a log dropped since it was read.                    *)
LeaveWal(p) == place' = [place EXCEPT ![p].mid = TRUE, ![p].there = TRUE]

ClearWriteBits(p) == place' = [place EXCEPT ![p].mid = FALSE, ![p].sealed = TRUE]

-----------------------------------------------------------------------------
(* Copies (copy_run): the rows are exported, then imported. *)

(* src is the source while it stands: a log dropped or replaced in the     *)
(* middle of a copy leaves a copy of no log.                               *)
Idle == [at |-> "idle", src |-> "none", rows |-> <<>>]

Copying(c, at) == copy[c].at = at

CopyGoes(c, at) == copy' = [copy EXCEPT ![c].at = at]

(* It raises, or returns with nothing to write: its caller may call again. *)
CopyEnds(c) == copy' = [copy EXCEPT ![c] = Idle]

Unsourced(p) == [c \in Routes |->
  IF Source[c] = p THEN [copy[c] EXCEPT !.src = "none"] ELSE copy[c]]

(* What `rows` raises over, and _refuse_live after it. *)
Refused(p) == ~Opens(p) \/ Rows(p) = <<>> \/ Live(Rows(p))

(* A writable destination has its source sealed first. *)
Export(c) ==
  /\ Copying(c, "idle") /\ c \in calls /\ ~Refused(Source[c])
  /\ copy' = [copy EXCEPT ![c] =
       [at |-> IF Destination[c] = "pg" /\ ~place[Source[c]].sealed THEN "seal" ELSE "check",
        src |-> Source[c], rows |-> Rows(Source[c])]]
  /\ UNCHANGED <<calls, place, handle, drop, mig, manifest, from, used, crashes>>

CopySeals(c) ==
  /\ Copying(c, "seal")
  /\ IF Sealable(Source[c])
     THEN LeaveWal(Source[c]) /\ CopyGoes(c, "clear")
     ELSE CopyEnds(c) /\ UNCHANGED place
  /\ UNCHANGED <<calls, handle, drop, mig, manifest, from, used, crashes>>

CopyClears(c) ==
  /\ Copying(c, "clear")
  /\ ClearWriteBits(Source[c]) /\ CopyGoes(c, "reread")
  /\ UNCHANGED <<calls, handle, drop, mig, manifest, from, used, crashes>>

RereadKept(c) ==              \* mutant: the rows read before the seal are copied
  IF Refused(Source[c]) THEN CopyEnds(c) ELSE CopyGoes(c, "check")

RereadRows(c) ==
  IF Refused(Source[c]) THEN CopyEnds(c)
  ELSE copy' = [copy EXCEPT ![c].at = "check", ![c].rows = Rows(Source[c])]

(* Read again after the seal, and refuse a live run again. *)
Reread(c) ==
  /\ Copying(c, "reread") /\ RereadRows(c)
  /\ UNCHANGED <<calls, place, handle, drop, mig, manifest, from, used, crashes>>

(* What the destination may hold: nothing, the same rows, or in a sealed   *)
(* SQLite file a strict prefix of them.                                    *)
ReplacesAny(c) ==             \* mutant: whatever is sealed there is replaced
  Destination[c] \in Sqlite /\ place[Destination[c]].sealed

Replaces(c) ==
  /\ Destination[c] \in Sqlite /\ place[Destination[c]].sealed
  /\ IsStrictPrefix(Rows(Destination[c]), copy[c].rows)

CheckDestination(c) ==
  /\ Copying(c, "check")
  /\ IF Opens(Destination[c]) /\ (~Holds(Destination[c]) \/ Replaces(c)) THEN CopyGoes(c, "write") ELSE CopyEnds(c)
  /\ UNCHANGED <<calls, place, handle, drop, mig, manifest, from, used, crashes>>

(* A log renamed into place or unlinked leaves the channels that hold the  *)
(* file before it open on nothing.                                         *)
Detach(p) == handle' = [w \in Writers |->
  IF handle[w].at = p /\ p \in Sqlite THEN [handle[w] EXCEPT !.lost = TRUE] ELSE handle[w]]

Published(p, rows, sealed) ==
  /\ place' = [place EXCEPT ![p] =
       [there |-> TRUE, rows |-> rows, sealed |-> sealed, mid |-> FALSE]]
  /\ Detach(p)

(* A snapshot is written beside its address, sealed and renamed into       *)
(* place; a Postgres import commits its rows unless a writer has born the  *)
(* run meanwhile, whose row collides with its first.                       *)
Import(c) ==
  /\ Copying(c, "write")
  /\ IF Destination[c] = "pg" /\ Rows("pg") # <<>>
     THEN CopyEnds(c) /\ UNCHANGED <<place, handle, from>>
     ELSE /\ Published(Destination[c], copy[c].rows, Destination[c] # "pg")
          /\ copy' = [Unsourced(Destination[c]) EXCEPT ![c] = Idle]
          /\ from' = [q \in Places |->
               IF q = Destination[c] /\ q # "new" THEN copy[c].src
               ELSE IF from[q] = Destination[c] /\ copy[c].src = "none" THEN "none" ELSE from[q]]
  /\ UNCHANGED <<calls, drop, mig, manifest, used, crashes>>

-----------------------------------------------------------------------------
(* drop_run. *)

Dropped(p) ==
  /\ place' = [place EXCEPT ![p] = Absent]
  /\ Detach(p)
  /\ from' = [q \in Places |-> IF q = p \/ from[q] = p THEN "none" ELSE from[q]]
  /\ copy' = Unsourced(p)

(* SQLite: the log is read and refused while live, then unlinked. *)
DropReads ==
  /\ drop = "idle" /\ "drop" \in calls /\ Opens("new") /\ Holds("new") /\ ~Live(Rows("new"))
  /\ drop' = "unlink"
  /\ UNCHANGED <<calls, place, handle, copy, mig, manifest, from, used, crashes>>

DropUnlinks ==
  /\ drop = "unlink" /\ drop' = "idle" /\ Dropped("new")
  /\ Quiet => ~place["new"].mid
  /\ UNCHANGED <<calls, mig, manifest, used, crashes>>

(* Postgres: one transaction, under the table's lock. *)
DropPostgres ==
  /\ "drop" \in calls /\ Holds("pg") /\ ~Live(Rows("pg")) /\ Dropped("pg")
  /\ UNCHANGED <<calls, drop, mig, manifest, used, crashes>>

-----------------------------------------------------------------------------
(* migrate: the detection pass, then migrate_one. *)

MigIdle == [at |-> "idle", rows |-> <<>>]

Migrating(at) == mig.at = at

MigGoes(at) == mig' = [mig EXCEPT !.at = at]

(* Only a run whose newest format is the older one is moved, sealed before *)
(* or not.                                                                 *)
ToDoUnsealed ==               \* mutant: a sealed log is taken for a migrated one
  Holds("old") /\ ~Holds("new") /\ ~place["old"].sealed

ToDo == Holds("old") /\ ~Holds("new")

Detect ==
  /\ Migrating("idle") /\ "migrate" \in calls /\ ToDo
  /\ ~Live(Rows("old")) /\ ~Refuses(Rows("old"))
  /\ MigGoes(IF place["old"].sealed THEN "transform" ELSE "dry")
  /\ UNCHANGED <<calls, place, handle, copy, drop, manifest, from, used, crashes>>

(* Before the seal: refuse a live run, and dry-run the transform. *)
DryRun ==
  /\ Migrating("dry")
  /\ mig' = IF Live(Rows("old")) \/ Refuses(Rows("old")) THEN MigIdle
            ELSE [at |-> "seal", rows |-> Rows("old")]
  /\ UNCHANGED <<calls, place, handle, copy, drop, manifest, from, used, crashes>>

MigSeals ==
  /\ Migrating("seal")
  /\ IF Sealable("old") THEN LeaveWal("old") /\ MigGoes("clear")
     ELSE mig' = MigIdle /\ UNCHANGED place
  /\ UNCHANGED <<calls, handle, copy, drop, manifest, from, used, crashes>>

MigClears ==
  /\ Migrating("clear") /\ ClearWriteBits("old") /\ MigGoes("transform")
  /\ UNCHANGED <<calls, handle, copy, drop, manifest, from, used, crashes>>

(* Memo: the output that the dry run left serves the transform of the very *)
(* rows it read; the step's output is, here, its input.                    *)
Memo(rows) == mig.rows = rows

Migrated(rows) == IF Memo(rows) THEN mig.rows ELSE rows

(* Re-read: the dry run's output when nothing has landed, else a new one,  *)
(* which may refuse and leave the run sealed and unmigrated.               *)
Transform ==
  LET rows == Rows("old")
  IN  mig' = IF ~Memo(rows) /\ Refuses(rows) THEN MigIdle
             ELSE [at |-> "write", rows |-> Migrated(rows)]

MigTransforms ==
  /\ Migrating("transform") /\ Transform
  /\ UNCHANGED <<calls, place, handle, copy, drop, manifest, from, used, crashes>>

(* The statement before the entry that cites it, and both before the log   *)
(* is published.                                                           *)
AppendStatement ==
  /\ Migrating("write") /\ MigGoes("entry")
  /\ manifest' = [manifest EXCEPT !.statement = @ \cup {"old"}]
  /\ UNCHANGED <<calls, place, handle, copy, drop, from, used, crashes>>

AppendEntry ==
  /\ Migrating("entry") /\ MigGoes("publish")
  /\ manifest' = [manifest EXCEPT !.entry = @ \cup {"old"}]
  /\ UNCHANGED <<calls, place, handle, copy, drop, from, used, crashes>>

Publish ==
  /\ Migrating("publish") /\ mig' = MigIdle
  /\ Published("new", mig.rows, FALSE)
  /\ from' = [from EXCEPT !["new"] = "old"]
  /\ UNCHANGED <<calls, copy, drop, manifest, used, crashes>>

ToDoPostgres == Holds("pgold") /\ ~Holds("pg")

(* The statement and the entry, in the tables that the transaction makes.  *)
RecordedPostgres ==
  manifest' = [k \in {"statement", "entry"} |-> manifest[k] \cup {"pgold"}]

(* On Postgres the seal, the read, the refusals, the new log and the entry *)
(* are one transaction.                                                    *)
MigratePostgres ==
  /\ "migrate" \in calls /\ ToDoPostgres
  /\ ~Live(Rows("pgold")) /\ ~Refuses(Rows("pgold"))
  /\ place' = [place EXCEPT
       !["pgold"].sealed = TRUE,
       !["pg"] = [Absent EXCEPT !.there = TRUE, !.rows = Rows("pgold")]]
  /\ RecordedPostgres
  /\ from' = [from EXCEPT !["pg"] = "pgold"]
  /\ UNCHANGED <<calls, handle, copy, drop, mig, used, crashes>>

-----------------------------------------------------------------------------

(* The process of a copy or of a migration dies between two of its steps;  *)
(* what it has sealed stays sealed, and its temporary file is never named. *)
Crashed(p) == place' = [place EXCEPT ![p].mid = FALSE]

CopyCrashes(c) ==
  /\ ~Copying(c, "idle") /\ crashes < MaxCrashes
  /\ CopyEnds(c) /\ crashes' = crashes + 1
  /\ IF Copying(c, "clear") THEN Crashed(Source[c]) ELSE UNCHANGED place
  /\ UNCHANGED <<calls, handle, drop, mig, manifest, from, used>>

(* The migration is killed, or an unexpected error fails the run           *)
(* (RunErrored): its log is left sealed and not copied, or as it was.      *)
MigCrashes ==
  /\ ~Migrating("idle") /\ crashes < MaxCrashes
  /\ mig' = MigIdle /\ crashes' = crashes + 1
  /\ IF Migrating("clear") THEN Crashed("old") ELSE UNCHANGED place
  /\ UNCHANGED <<calls, handle, copy, drop, manifest, from, used>>

Born == <<[id |-> 1, kind |-> "claim"], [id |-> 2, kind |-> "end"]>>

Init ==
  /\ calls \in Calls
  /\ \E home \in Homes :
       place = [p \in Places |->
         IF p = home THEN [Absent EXCEPT !.there = TRUE, !.rows = Born] ELSE Absent]
  /\ handle = [w \in Writers |-> [at |-> "none", readonly |-> FALSE, lost |-> FALSE]]
  /\ copy = [c \in Routes |-> Idle]
  /\ drop = "idle"
  /\ mig = MigIdle
  /\ manifest = [k \in {"statement", "entry"} |-> {}]
  /\ from = [p \in Places |-> "none"]
  /\ used = 2 /\ crashes = 0

CopyStep(c) ==
  \/ Export(c) \/ CopySeals(c) \/ CopyClears(c) \/ Reread(c)
  \/ CheckDestination(c) \/ Import(c)

MigStep ==
  \/ Detect \/ DryRun \/ MigSeals \/ MigClears \/ MigTransforms
  \/ AppendStatement \/ AppendEntry \/ Publish

Next ==
  \/ \E w \in Writers : Close(w) \/ Send(w) \/ \E p \in Places : Open(w, p)
  \/ \E c \in Routes : CopyStep(c) \/ CopyCrashes(c)
  \/ DropReads \/ DropUnlinks \/ DropPostgres
  \/ MigStep \/ MigCrashes \/ MigratePostgres

(* A copy or a migration that has begun goes on, and one that failed is    *)
(* run again.                                                              *)
Fairness ==
  /\ \A c \in Routes : WF_vars(CopyStep(c))
  /\ WF_vars(MigStep)

Spec == Init /\ [][Next]_vars /\ Fairness

-----------------------------------------------------------------------------
(* The properties. *)

(* A log that moved, between formats or into Postgres, is whole where it   *)
(* went and forked nowhere: every row its old address ever took is, in     *)
(* order, in the new log, whatever the channels that were open before the  *)
(* seal append while it is read, and the old address is sealed.  Of one    *)
(* opened between the seal's two steps, where the code has no guard, this  *)
(* says nothing when Quiet.                                                *)
MovedWhole ==
  \A p \in {"new", "pg"} : from[p] # "none" =>
    /\ IsPrefix(Rows(from[p]), Rows(p))
    /\ place[from[p]].sealed
    /\ from[p] \in {"old", "pgold"} => from[p] \in manifest.statement \cap manifest.entry

(* Every snapshot is the log as it once was, at the end of a claim, and    *)
(* never a row that the log does not hold; and a sealed file is replaced   *)
(* only by rows that extend it.  A run born where a copy has found none    *)
(* and is about to publish is outside it when Quiet.                       *)
SnapshotIsLog ==
  from["snap"] # "none" =>
    /\ place["snap"].sealed /\ ~Live(Rows("snap"))
    /\ IsPrefix(Rows("snap"), Rows(from["snap"]))

SnapshotsHonest ==
  /\ []SnapshotIsLog
  /\ [][\A p \in Sqlite : place[p].sealed /\ place'[p].there
          => IsPrefix(place[p].rows, place'[p].rows)]_vars

(* seal_sqlite, and docs/specs/log-formats.md, section 5: a sealed log     *)
(* takes no append, of a channel that was open before the seal either.     *)
SealedTakesNothing ==
  [][used' # used => \A p \in Places : place[p].sealed => place'[p] = place[p]]_vars

(* What was sealed and not moved, because a copy or a migration died after *)
(* its seal, is moved by a retry, unless the log is live or holds a row    *)
(* that the step refuses.                                                  *)
RetriesComplete ==
  /\ ("migrate" \in calls /\ place["old"].sealed
        /\ ~Live(Rows("old")) /\ ~Refuses(Rows("old")))
       ~> Holds("new")
  /\ ("move" \in calls /\ place["new"].sealed
        /\ Rows("new") # <<>> /\ ~Live(Rows("new")))
       ~> (Holds("pg") \/ Holds("pgold") \/ ~Holds("new"))
=============================================================================
