--------------------------- MODULE Storage_proofs ---------------------------
(***************************************************************************)
(* Proofs about module Storage, for every set of writers, however many     *)
(* rows they append and however often a copy or a migration crashes: in    *)
(* WAL mode, with any two administrators' calls at a time, and if nobody   *)
(* opens or drops a log in the middle of its seal or births one under a    *)
(* copy that publishes, a log that moved is whole, and a snapshot is the   *)
(* log as it once was.                                                     *)
(***************************************************************************)
EXTENDS Storage, TLAPS

TwoAtATime == \A cs \in Calls : \A a, b, c \in cs : a = b \/ b = c \/ a = c

(* What the theorems assume, and each names.  The code enforces none of    *)
(* the three: a rollback journal mode is an option, Quiet rules out three  *)
(* windows that it leaves open (seal.py:31 to 42, for a channel opened and *)
(* for a drop; copy.py:297 to 330, for a birth), and any number of         *)
(* administrators may call.                                                *)
Orderly == Journal = "wal" /\ Quiet /\ TwoAtATime

-----------------------------------------------------------------------------
(* The types. *)

Row == [id : Nat, kind : {"claim", "end", "odd"}]

PlaceState == [there : BOOLEAN, rows : Seq(Row), sealed : BOOLEAN, mid : BOOLEAN]

HandleState == [at : Places \cup {"none"}, readonly : BOOLEAN, lost : BOOLEAN]

CopyState ==
  [at : {"idle", "seal", "clear", "reread", "check", "write"},
   src : Places \cup {"none"}, rows : Seq(Row)]

MigState ==
  [at : {"idle", "dry", "seal", "clear", "transform", "write", "entry", "publish"},
   rows : Seq(Row)]

TypeInv ==
  /\ place \in [Places -> PlaceState]
  /\ handle \in [Writers -> HandleState]
  /\ copy \in [Routes -> CopyState]
  /\ drop \in {"idle", "unlink"}
  /\ mig \in MigState
  /\ manifest \in [{"statement", "entry"} -> SUBSET Places]
  /\ from \in [Places -> Places \cup {"none"}]
  /\ used \in Nat

-----------------------------------------------------------------------------
(* The inductive invariant. *)

(* At most two of the administrators call, and those under way do. *)
CallsInv ==
  /\ \A a, b, c \in calls : a = b \/ b = c \/ a = c
  /\ \A c \in Routes : copy[c].at # "idle" => c \in calls
  /\ drop = "unlink" => "drop" \in calls
  /\ mig.at # "idle" => "migrate" \in calls

(* What is sealed, or being sealed, is there; and no channel that is open  *)
(* on the file at an address can write to it once the file is sealed.      *)
SealsInv ==
  /\ \A p \in Places :
       place[p].sealed \/ place[p].mid \/ Rows(p) # <<>> => Holds(p)
  /\ \A w \in Writers : handle[w].at \in Sqlite /\ ~handle[w].lost =>
       /\ Holds(handle[w].at) /\ ~place[handle[w].at].mid
       /\ place[handle[w].at].sealed => handle[w].readonly

(* The rows that a copy s of route c holds are its source's first, while   *)
(* the source stands.                                                      *)
SourceOk(c, s) ==
  /\ s.at = "idle" => s.src = "none"
  /\ s.at # "idle" => s.rows # <<>> /\ ~Live(s.rows)
  /\ s.src # "none" => s.src = Source[c] /\ IsPrefix(s.rows, Rows(s.src))
  /\ s.at \in {"seal", "clear", "reread"} => c = "move"

(* A move has sealed its source before it reads the rows that it imports;  *)
(* unless somebody drops the log, it is there until then.                  *)
MoveOk(s) ==
  /\ s.at \in {"reread", "check", "write"} /\ s.src = "new" => place["new"].sealed
  /\ s.at \in {"check", "write"} /\ s.src = "new" => s.rows = Rows("new")
  /\ s.at = "clear" => place["new"].mid
  /\ s.at # "idle" /\ "drop" \notin calls => Holds("new")
  /\ s.at \in {"seal", "clear"} /\ "drop" \notin calls => ~place["new"].sealed

(* What a snapshot is about to replace is nothing, or its own beginning.   *)
ReplaceOk(p, s) ==
  s.at = "write" =>
    /\ ~Holds(p) \/ (place[p].sealed /\ IsPrefix(Rows(p), s.rows))
    /\ p = "new" /\ "drop" \notin calls => Holds("new") \/ ~Holds("old")

CopyOk(c, s) ==
  /\ SourceOk(c, s)
  /\ c = "move" => MoveOk(s)
  /\ c # "move" => ReplaceOk(Destination[c], s)

CopiesInv == \A c \in Routes : CopyOk(c, copy[c])

(* A migration has the log to itself: nothing is at the current address    *)
(* before it publishes, and it has sealed what it transforms.              *)
MigInv ==
  /\ mig.at # "idle" => Holds("old") /\ ~Holds("new")
  /\ mig.at = "clear" => place["old"].mid
  /\ mig.at \in {"transform", "write", "entry", "publish"} => place["old"].sealed
  /\ mig.at \in {"write", "entry", "publish"} => mig.rows = Rows("old")
  /\ mig.at \in {"entry", "publish"} => "old" \in manifest.statement
  /\ mig.at = "publish" => "old" \in manifest.entry

(* What a log at p that came from q is.                                    *)
CameFrom(p, q) ==
  /\ <<p, q>> \in {<<"new", "old">>, <<"pg", "new">>, <<"pg", "pgold">>, <<"snap", "new">>}
  /\ Holds(p) /\ Holds(q)
  /\ p # "snap" =>
       /\ IsPrefix(Rows(q), Rows(p)) /\ place[q].sealed
       /\ q # "new" => q \in manifest["statement"] /\ q \in manifest["entry"]
  /\ p = "snap" =>
       /\ place[p].sealed /\ ~Live(Rows(p))
       /\ IsPrefix(Rows(p), Rows(q))

FromInv == \A p, q \in Places : from[p] = q => CameFrom(p, q)

Inv == TypeInv /\ CallsInv /\ SealsInv /\ CopiesInv /\ MigInv /\ FromInv

-----------------------------------------------------------------------------
(* Prefixes, and the addresses of the routes. *)

LEMMA PrefixSame ==
  ASSUME NEW S, NEW s \in Seq(S)
  PROVE  IsPrefix(s, s)
BY DEF IsPrefix

LEMMA PrefixLonger ==
  ASSUME NEW S, NEW s \in Seq(S), NEW t \in Seq(S), NEW u \in Seq(S),
         IsPrefix(s, t), IsPrefix(t, u)
  PROVE  IsPrefix(s, u)
BY DEF IsPrefix

LEMMA PrefixAppend ==
  ASSUME NEW S, NEW s \in Seq(S), NEW t \in Seq(S), NEW x \in S, IsPrefix(s, t)
  PROVE  IsPrefix(s, Append(t, x))
BY DEF IsPrefix

LEMMA PrefixOfNone ==
  ASSUME NEW S, NEW s \in Seq(S), IsPrefix(s, <<>>)
  PROVE  s = <<>>
BY DEF IsPrefix

LEMMA RoutesAre ==
  /\ Routes = {"move", "back", "keep"}
  /\ Source["move"] = "new" /\ Source["back"] = "pg" /\ Source["keep"] = "new"
  /\ Destination["move"] = "pg" /\ Destination["back"] = "new"
  /\ Destination["keep"] = "snap"
BY DEF Routes, Source, Destination

-----------------------------------------------------------------------------
(* The steps that leave every address as it is. *)

LEMMA CloseKeeps ==
  ASSUME Inv, NEW w \in Writers, Close(w)
  PROVE  Inv'
<1>1. handle[w] \in HandleState
  BY DEF Inv, TypeInv
<1>2. [handle[w] EXCEPT !.at = "none"] \in HandleState
  BY <1>1 DEF HandleState
<1>3. TypeInv'
  BY <1>2 DEF Close, Inv, TypeInv
<1>4. SealsInv'
  <2>1. /\ handle'[w].at = "none"
        /\ \A v \in Writers \ {w} : handle'[v] = handle[v]
    BY <1>1 DEF Close, Inv, TypeInv, HandleState
  <2>2. "none" \notin Sqlite /\ UNCHANGED place
    BY DEF Close, Sqlite
  <2>3. \A p \in Places : UNCHANGED <<place[p], Rows(p), Holds(p)>>
    BY <2>2 DEF Rows, Holds
  <2>4. SealsInv
    BY DEF Inv
  <2>5. ASSUME NEW v \in Writers, handle'[v].at \in Sqlite, ~handle'[v].lost
        PROVE  /\ Holds(handle[v].at)' /\ ~place'[handle'[v].at].mid
               /\ place'[handle'[v].at].sealed => handle'[v].readonly
    BY <2>1, <2>2, <2>4, <2>5 DEF SealsInv, Holds
  <2> QED
    BY <2>2, <2>4, <2>5 DEF SealsInv, Rows, Holds
<1>5. UNCHANGED <<calls, place, copy, drop, mig, manifest, from>>
  BY DEF Close
<1>6. CallsInv' /\ CopiesInv'
  BY <1>5 DEF Inv, CallsInv, CopiesInv, CopyOk, SourceOk, MoveOk, ReplaceOk, Rows, Holds
<1>7. MigInv' /\ FromInv'
  BY <1>5 DEF Inv, MigInv, FromInv, CameFrom, Rows, Holds
<1> QED
  BY <1>3, <1>4, <1>6, <1>7 DEF Inv

(* A step of the migrator that reads, or writes the manifest. *)
LEMMA MigReadsKeeps ==
  ASSUME Inv, UNCHANGED <<calls, place, handle, copy, drop, from, used>>,
         NEW m, mig' = m, m \in MigState, manifest' \in [{"statement", "entry"} -> SUBSET Places],
         \A k \in {"statement", "entry"} : manifest[k] \subseteq manifest'[k],
         m.at # "idle" => "migrate" \in calls, MigInv'
  PROVE  Inv'
<1>1. TypeInv' /\ CallsInv'
  BY DEF Inv, TypeInv, CallsInv
<1>2. SealsInv' /\ CopiesInv'
  BY DEF Inv, SealsInv, CopiesInv, CopyOk, SourceOk, MoveOk, ReplaceOk, Rows, Holds
<1>3. FromInv'
  BY DEF Inv, FromInv, CameFrom, Rows, Holds
<1> QED
  BY <1>1, <1>2, <1>3 DEF Inv

LEMMA DetectKeeps ==
  ASSUME Inv, Detect
  PROVE  Inv'
<1> DEFINE m == [mig EXCEPT !.at = IF place["old"].sealed THEN "transform" ELSE "dry"]
<1>1. m \in MigState /\ m.at = (IF place["old"].sealed THEN "transform" ELSE "dry")
  BY DEF Inv, TypeInv, MigState
<1>2. mig' = m /\ "migrate" \in calls /\ Holds("old") /\ ~Holds("new")
      /\ UNCHANGED <<calls, place, handle, copy, drop, manifest, from, used>>
  BY DEF Detect, ToDo, MigGoes
<1> HIDE DEF m
<1>3. MigInv'
  BY <1>1, <1>2 DEF MigInv, Holds, Rows
<1> QED
  BY <1>1, <1>2, <1>3, MigReadsKeeps DEF Inv, TypeInv

LEMMA DryRunKeeps ==
  ASSUME Inv, DryRun
  PROVE  Inv'
<1>1. place["old"] \in PlaceState
  BY DEF Inv, TypeInv, Places
<1>2. PICK m \in MigState : mig' = m /\ m.at \in {"idle", "seal"}
  <2>1. MigIdle \in MigState /\ MigIdle.at = "idle"
    BY DEF MigIdle, MigState
  <2>2. [at |-> "seal", rows |-> Rows("old")] \in MigState
    BY <1>1 DEF MigState, PlaceState, Rows
  <2> QED
    BY <2>1, <2>2 DEF DryRun
<1>3. mig.at = "dry" /\ UNCHANGED <<calls, place, handle, copy, drop, manifest, from, used>>
  BY DEF DryRun, Migrating
<1>4. MigInv' /\ "migrate" \in calls
  BY <1>2, <1>3 DEF Inv, MigInv, CallsInv, Holds, Rows
<1> QED
  BY <1>2, <1>3, <1>4, MigReadsKeeps DEF Inv, TypeInv

LEMMA MigTransformsKeeps ==
  ASSUME Inv, MigTransforms
  PROVE  Inv'
<1>1. place["old"] \in PlaceState
  BY DEF Inv, TypeInv, Places
<1>2. PICK m \in MigState : mig' = m /\ (m.at = "idle" \/ (m.at = "write" /\ m.rows = Rows("old")))
  <2>1. MigIdle \in MigState /\ MigIdle.at = "idle"
    BY DEF MigIdle, MigState
  <2>2. [at |-> "write", rows |-> Rows("old")] \in MigState
    BY <1>1 DEF MigState, PlaceState, Rows
  <2>3. mig' = MigIdle \/ mig' = [at |-> "write", rows |-> Rows("old")]
    BY DEF MigTransforms, Transform, Migrated, Memo
  <2> QED
    BY <2>1, <2>2, <2>3
<1>3. mig.at = "transform" /\ UNCHANGED <<calls, place, handle, copy, drop, manifest, from, used>>
  BY DEF MigTransforms, Migrating
<1>4. MigInv' /\ "migrate" \in calls
  BY <1>2, <1>3 DEF Inv, MigInv, CallsInv, Holds, Rows
<1> QED
  BY <1>2, <1>3, <1>4, MigReadsKeeps DEF Inv, TypeInv

LEMMA ManifestKeeps ==
  ASSUME Inv, AppendStatement \/ AppendEntry
  PROVE  Inv'
<1>1. PICK at \in {"entry", "publish"} : MigGoes(at)
  BY DEF AppendStatement, AppendEntry
<1> DEFINE m == [mig EXCEPT !.at = at]
<1>2. m \in MigState /\ m.at = at /\ m.rows = mig.rows /\ mig' = m
  BY <1>1 DEF Inv, TypeInv, MigState, MigGoes
<1> HIDE DEF m
<1>3. UNCHANGED <<calls, place, handle, copy, drop, from, used>>
  BY DEF AppendStatement, AppendEntry
<1>4. /\ manifest' \in [{"statement", "entry"} -> SUBSET Places]
      /\ \A k \in {"statement", "entry"} : manifest[k] \subseteq manifest'[k]
      /\ AppendStatement => "old" \in manifest'["statement"]
      /\ AppendEntry => "old" \in manifest'["entry"]
  BY DEF AppendStatement, AppendEntry, Inv, TypeInv, Places
<1>5. mig.at \in {"write", "entry"} /\ (at = "publish" => AppendEntry /\ mig.at = "entry")
      /\ (AppendStatement \/ mig.at = "entry")
  BY <1>2 DEF AppendStatement, AppendEntry, Migrating, MigGoes, Inv, TypeInv, MigState
<1>6. MigInv' /\ "migrate" \in calls
  BY <1>2, <1>3, <1>4, <1>5 DEF Inv, MigInv, CallsInv, Holds, Rows
<1> QED
  BY <1>2, <1>3, <1>4, <1>6, MigReadsKeeps

LEMMA DropReadsKeeps ==
  ASSUME Inv, DropReads
  PROVE  Inv'
<1>1. TypeInv' /\ CallsInv'
  BY DEF DropReads, Inv, TypeInv, CallsInv
<1>2. UNCHANGED <<calls, place, handle, copy, mig, manifest, from>>
  BY DEF DropReads
<1>3. SealsInv' /\ CopiesInv'
  BY <1>2 DEF Inv, SealsInv, CopiesInv, CopyOk, SourceOk, MoveOk, ReplaceOk, Rows, Holds
<1>4. MigInv' /\ FromInv'
  BY <1>2 DEF Inv, MigInv, FromInv, CameFrom, Rows, Holds
<1> QED
  BY <1>1, <1>3, <1>4 DEF Inv

-----------------------------------------------------------------------------
(* The steps of a copy that only read. *)

LEMMA CopyReadsKeeps ==
  ASSUME Inv, UNCHANGED <<calls, place, handle, drop, mig, manifest, from, used>>,
         NEW c \in Routes, NEW s \in CopyState, copy' = [copy EXCEPT ![c] = s],
         s.at # "idle" => c \in calls, CopyOk(c, s)
  PROVE  Inv'
<1>1. TypeInv' /\ CallsInv'
  BY DEF Inv, TypeInv, CallsInv
<1>2. \A d \in Routes : copy'[d] = IF d = c THEN s ELSE copy[d]
  BY DEF Inv, TypeInv
<1>3. \A d \in Routes : CopyOk(d, copy'[d])
  BY <1>2 DEF Inv, CopiesInv
<1>4. CopiesInv'
  BY <1>3 DEF CopiesInv, CopyOk, SourceOk, MoveOk, ReplaceOk, Rows, Holds
<1>5. SealsInv' /\ MigInv' /\ FromInv'
  BY DEF Inv, SealsInv, MigInv, FromInv, CameFrom, Rows, Holds
<1> QED
  BY <1>1, <1>4, <1>5 DEF Inv

LEMMA IdleOk ==
  ASSUME NEW c \in Routes
  PROVE  Idle \in CopyState /\ Idle.at = "idle" /\ CopyOk(c, Idle)
<1> DEFINE none == <<>>
<1>1. Idle = [at |-> "idle", src |-> "none", rows |-> none] /\ none \in Seq(Row)
  BY DEF Idle
<1> HIDE DEF none
<1>2. Idle \in CopyState /\ Idle.at = "idle" /\ Idle.src = "none"
  BY <1>1 DEF CopyState
<1> QED
  BY <1>2 DEF CopyOk, SourceOk, MoveOk, ReplaceOk

LEMMA CopyAt ==
  ASSUME Inv, NEW c \in Routes
  PROVE  copy[c] \in CopyState /\ CopyOk(c, copy[c]) /\ (copy[c].at # "idle" => c \in calls)
BY DEF Inv, TypeInv, CopiesInv, CallsInv

LEMMA CopyEndsKeeps ==
  ASSUME Inv, UNCHANGED <<calls, place, handle, drop, mig, manifest, from, used>>,
         NEW c \in Routes, CopyEnds(c)
  PROVE  Inv'
BY IdleOk, CopyReadsKeeps DEF CopyEnds

LEMMA PlaceAt ==
  ASSUME Inv, NEW p \in Places
  PROVE  /\ place[p] \in PlaceState /\ Rows(p) \in Seq(Row)
         /\ place[p].sealed \/ place[p].mid \/ Rows(p) # <<>> => Holds(p)
BY DEF Inv, TypeInv, PlaceState, SealsInv, Rows

LEMMA ExportKeeps ==
  ASSUME Inv, NEW c \in Routes, Export(c)
  PROVE  Inv'
<1>1. PICK p \in {"new", "pg"} : p = Source[c]
  BY RoutesAre
<1>2. p \in Places /\ p # "none"
  BY DEF Places
<1>3. place[p] \in PlaceState /\ Rows(p) \in Seq(Row) /\ (Rows(p) # <<>> => Holds(p))
  BY <1>2, PlaceAt
<1>4. PICK at \in {"seal", "check"} :
        at = IF Destination[c] = "pg" /\ ~place[p].sealed THEN "seal" ELSE "check"
  OBVIOUS
<1>5. PICK R \in Seq(Row) : R = Rows(p)
  BY <1>3
<1> DEFINE s == [at |-> at, src |-> p, rows |-> R]
<1>6. s \in CopyState /\ s.at = at /\ s.src = p /\ s.rows = R
  BY <1>2 DEF CopyState
<1>7. copy' = [copy EXCEPT ![c] = s] /\ c \in calls /\ R # <<>> /\ ~Live(R)
  BY <1>1, <1>4, <1>5 DEF Export, Refused
<1> HIDE DEF s
<1>8. SourceOk(c, s)
  <2>1. IsPrefix(R, R)
    BY PrefixSame
  <2>2. at = "seal" => c = "move"
    BY <1>4, RoutesAre
  <2> QED
    BY <1>1, <1>5, <1>6, <1>7, <2>1, <2>2 DEF SourceOk
<1>9. c = "move" => MoveOk(s)
  <2>1. c = "move" => Destination[c] = "pg" /\ p = "new"
    BY <1>1, RoutesAre
  <2> QED
    BY <1>3, <1>4, <1>5, <1>6, <1>7, <2>1 DEF MoveOk
<1>10. ReplaceOk(Destination[c], s)
  BY <1>6 DEF ReplaceOk
<1> QED
  BY <1>6, <1>7, <1>8, <1>9, <1>10, CopyReadsKeeps DEF CopyOk, Export

LEMMA RereadKeeps ==
  ASSUME Inv, NEW c \in Routes, Reread(c)
  PROVE  Inv'
<1>1. UNCHANGED <<calls, place, handle, drop, mig, manifest, from, used>>
  BY DEF Reread
<1>2. CASE CopyEnds(c)
  BY <1>1, <1>2, CopyEndsKeeps
<1>3. CASE /\ ~Refused(Source[c])
           /\ copy' = [copy EXCEPT ![c].at = "check", ![c].rows = Rows(Source[c])]
  <2>1. copy[c] \in CopyState /\ CopyOk(c, copy[c]) /\ copy[c].at = "reread" /\ c \in calls
    BY CopyAt DEF Reread, Copying
  <2>2. c = "move" /\ Source[c] = "new" /\ "new" \in Places
    BY <2>1, RoutesAre DEF CopyOk, SourceOk, Places
  <2>3. PICK R \in Seq(Row) : R = Rows("new")
    BY <2>2, PlaceAt
  <2> DEFINE s == [copy[c] EXCEPT !.at = "check", !.rows = R]
  <2>4. s \in CopyState /\ s.at = "check" /\ s.src = copy[c].src /\ s.rows = R
    BY <2>1 DEF CopyState
  <2>5. copy' = [copy EXCEPT ![c] = s] /\ R # <<>> /\ ~Live(R)
    BY <1>3, <2>2, <2>3 DEF Refused, Inv, TypeInv
  <2> HIDE DEF s
  <2>6. IsPrefix(R, R)
    BY PrefixSame
  <2>7. SourceOk(c, s)
    BY <2>1, <2>2, <2>3, <2>4, <2>5, <2>6 DEF CopyOk, SourceOk
  <2>8. MoveOk(s)
    BY <2>1, <2>2, <2>3, <2>4 DEF CopyOk, MoveOk
  <2> QED
    BY <1>1, <2>1, <2>2, <2>4, <2>5, <2>7, <2>8, CopyReadsKeeps DEF CopyOk
<1> QED
  BY <1>2, <1>3 DEF Reread, RereadRows

LEMMA CheckDestinationKeeps ==
  ASSUME Inv, NEW c \in Routes, CheckDestination(c)
  PROVE  Inv'
<1>1. UNCHANGED <<calls, place, handle, drop, mig, manifest, from, used>>
  BY DEF CheckDestination
<1>2. CASE CopyEnds(c)
  BY <1>1, <1>2, CopyEndsKeeps
<1>3. CASE /\ Opens(Destination[c]) /\ (~Holds(Destination[c]) \/ Replaces(c))
           /\ CopyGoes(c, "write")
  <2>1. copy[c] \in CopyState /\ CopyOk(c, copy[c]) /\ copy[c].at = "check" /\ c \in calls
    BY CopyAt DEF CheckDestination, Copying
  <2> DEFINE s == [copy[c] EXCEPT !.at = "write"]
  <2>2. s \in CopyState /\ s.at = "write" /\ s.src = copy[c].src /\ s.rows = copy[c].rows
    BY <2>1 DEF CopyState
  <2>3. copy' = [copy EXCEPT ![c] = s]
    BY <1>3 DEF CopyGoes, Inv, TypeInv
  <2> HIDE DEF s
  <2>4. SourceOk(c, s) /\ (c = "move" => MoveOk(s))
    BY <2>1, <2>2 DEF CopyOk, SourceOk, MoveOk
  <2>5. ReplaceOk(Destination[c], s)
    <3>1. Destination[c] = "new" => Holds("new") \/ ~Holds("old")
      BY <1>3 DEF Opens, OpensSqlite, Sqlite
    <3>2. Replaces(c) => /\ place[Destination[c]].sealed
                         /\ IsPrefix(Rows(Destination[c]), copy[c].rows)
      BY DEF Replaces, IsStrictPrefix
    <3> QED
      BY <1>3, <2>2, <3>1, <3>2 DEF ReplaceOk
  <2> QED
    BY <1>1, <2>1, <2>2, <2>3, <2>4, <2>5, CopyReadsKeeps DEF CopyOk
<1> QED
  BY <1>2, <1>3 DEF CheckDestination

-----------------------------------------------------------------------------
(* The steps that mark a file, or find or make it: no row is written, and  *)
(* nothing is unsealed or goes.                                            *)

Marks ==
  /\ place' \in [Places -> PlaceState]
  /\ \A p \in Places : /\ place'[p].rows = place[p].rows
                       /\ place[p].there => place'[p].there
                       /\ place[p].sealed => place'[p].sealed

LEMMA MarksKeep ==
  ASSUME Inv, Marks, UNCHANGED <<manifest, from>>
  PROVE  FromInv'
<1>1. ASSUME NEW p \in Places, NEW q \in Places, CameFrom(p, q)
      PROVE  CameFrom(p, q)'
  <2>1. /\ UNCHANGED <<Rows(p), Rows(q)>>
        /\ Holds(p) => Holds(p)'
        /\ Holds(q) => Holds(q)'
        /\ place[p].sealed => place'[p].sealed
        /\ place[q].sealed => place'[q].sealed
    BY DEF Marks, Rows, Holds
  <2> QED
    BY <1>1, <2>1 DEF CameFrom, Rows
<1> QED
  BY <1>1 DEF Inv, FromInv

LEMMA OpenKeeps ==
  ASSUME Inv, Orderly, NEW w \in Writers, NEW p \in Places, Open(w, p)
  PROVE  Inv'
<1> DEFINE P == [place[p] EXCEPT !.there = place[p].there \/ p \in Sqlite]
           h == [at |-> p, readonly |-> p \in Sqlite /\ place[p].sealed, lost |-> FALSE]
<1>1. place[p] \in PlaceState
  BY PlaceAt
<1>2. /\ P \in PlaceState /\ P.rows = place[p].rows /\ P.sealed = place[p].sealed
      /\ P.mid = place[p].mid /\ (place[p].there => P.there) /\ (p \in Sqlite => P.there)
  BY <1>1 DEF PlaceState
<1>3. h \in HandleState /\ h.at = p /\ (p \in Sqlite /\ place[p].sealed => h.readonly)
  BY <1>1 DEF HandleState, PlaceState
<1>4. /\ place' = [place EXCEPT ![p] = P] /\ handle' = [handle EXCEPT ![w] = h]
      /\ UNCHANGED <<calls, copy, drop, mig, manifest, from, used>>
      /\ p # "snap" /\ Opens(p) /\ ~place[p].mid
      /\ Holds(p) \/ \A c \in Routes : Destination[c] = p => copy[c].at # "write"
  BY DEF Open, Orderly, Inv, TypeInv
<1> HIDE DEF P, h
<1>5. \A q \in Places : place'[q] = IF q = p THEN P ELSE place[q]
  BY <1>4 DEF Inv, TypeInv
<1>6. \A v \in Writers : handle'[v] = IF v = w THEN h ELSE handle[v]
  BY <1>4 DEF Inv, TypeInv
<1>7. Marks
  BY <1>2, <1>4, <1>5 DEF Marks, Inv, TypeInv
<1>8. TypeInv' /\ CallsInv'
  BY <1>2, <1>3, <1>4 DEF Inv, TypeInv, CallsInv
<1>9. SealsInv'
  <2>1. SealsInv /\ Sqlite \subseteq Places
    BY DEF Inv, Sqlite, Places
  <2> QED
    BY <1>2, <1>3, <1>4, <1>5, <1>6, <2>1 DEF SealsInv, Rows, Holds
<1>10. p = "new" => Holds("new") \/ ~Holds("old")
  BY <1>4 DEF Opens, OpensSqlite, Sqlite
<1>11. p = "old" => Holds("old")
  BY <1>4 DEF Opens, OpensSqlite, Sqlite
<1>12. "old" \in Places /\ "new" \in Places
  BY DEF Places
<1>13. CopiesInv'
  <2>1. ASSUME NEW c \in Routes, NEW s, s = copy[c]
        PROVE  CopyOk(c, s)'
    <3>1. CopyOk(c, s)
      BY <2>1 DEF Inv, CopiesInv
    <3>2. SourceOk(c, s)'
      BY <1>2, <1>5, <3>1, RoutesAre DEF CopyOk, SourceOk, Rows, Places
    <3>3. c = "move" => MoveOk(s)'
      BY <1>2, <1>4, <1>5, <1>12, <3>1 DEF CopyOk, MoveOk, Rows, Holds
    <3>4. c # "move" => ReplaceOk(Destination[c], s)'
      <4>1. PICK d \in Places : d = Destination[c]
        BY RoutesAre DEF Places
      <4>2. d = p /\ s.at = "write" => Holds(p)
        BY <1>4, <2>1, <4>1
      <4>3. c # "move" => ReplaceOk(d, s)'
        BY <1>2, <1>4, <1>5, <1>10, <1>11, <1>12, <3>1, <4>1, <4>2
           DEF CopyOk, ReplaceOk, Rows, Holds
      <4> QED
        BY <4>1, <4>3
    <3> QED
      BY <3>2, <3>3, <3>4 DEF CopyOk
  <2> QED
    BY <1>4, <2>1 DEF CopiesInv
<1>14. MigInv'
  BY <1>2, <1>4, <1>5, <1>10, <1>11, <1>12 DEF Inv, MigInv, Rows, Holds
<1> QED
  BY <1>4, <1>7, <1>8, <1>9, <1>13, <1>14, MarksKeep DEF Inv

-----------------------------------------------------------------------------
(* A row lands at an address that no seal protects. *)

LEMMA SendKeeps ==
  ASSUME Inv, NEW w \in Writers, Send(w)
  PROVE  Inv'
<1>1. handle[w] \in HandleState
  BY DEF Inv, TypeInv
<1>2. PICK p \in Places : p = handle[w].at
  BY <1>1 DEF Send, HandleState
<1>3. PICK r \in Appendable(Rows(p)) :
        place' = [place EXCEPT ![p].rows = Append(@, r), ![p].there = TRUE]
  BY <1>2 DEF Send
<1>4. r \in Row
  BY DEF Appendable, Row, Inv, TypeInv
<1>5. place[p] \in PlaceState /\ place[p].rows \in Seq(Row)
  BY PlaceAt DEF PlaceState
<1> DEFINE R == Append(place[p].rows, r)
           P == [place[p] EXCEPT !.rows = R, !.there = TRUE]
<1>6. R \in Seq(Row) /\ R # <<>> /\ \A s \in Seq(Row) : IsPrefix(s, place[p].rows) => IsPrefix(s, R)
  BY <1>4, <1>5, PrefixAppend
<1> HIDE DEF R
<1>7. /\ P \in PlaceState /\ P.rows = R /\ P.there
      /\ P.sealed = place[p].sealed /\ P.mid = place[p].mid
  BY <1>5, <1>6 DEF PlaceState
<1>8. place' = [place EXCEPT ![p] = P]
  BY <1>3 DEF R
<1> HIDE DEF P
<1>9. \A q \in Places : place'[q] = IF q = p THEN P ELSE place[q]
  BY <1>8 DEF Inv, TypeInv
<1>10. UNCHANGED <<calls, handle, copy, drop, mig, manifest, from>> /\ used' \in Nat
  BY DEF Send, Inv, TypeInv
<1>11. ~place[p].sealed /\ (p \in Sqlite => Holds(p) /\ ~place[p].mid)
  BY <1>2 DEF Send, InsertRefused, Inv, SealsInv
<1>12. TypeInv' /\ CallsInv'
  BY <1>7, <1>8, <1>10 DEF Inv, TypeInv, CallsInv
<1>13. SealsInv'
  <2>1. SealsInv /\ Sqlite \subseteq Places
    BY DEF Inv, Sqlite, Places
  <2> QED
    BY <1>7, <1>9, <1>10, <2>1 DEF SealsInv, Rows, Holds
<1>14. "old" \in Places /\ "new" \in Places /\ "snap" \in Places /\ {"old", "new", "snap"} = Sqlite
  BY DEF Places, Sqlite
<1>15. CopiesInv'
  <2>1. ASSUME NEW c \in Routes, NEW s, s = copy[c]
        PROVE  CopyOk(c, s)'
    <3>1. CopyOk(c, s) /\ s.rows \in Seq(Row)
      BY <2>1, CopyAt DEF CopyState
    <3>2. SourceOk(c, s)'
      BY <1>6, <1>7, <1>9, <3>1, RoutesAre DEF CopyOk, SourceOk, Rows, Places
    <3>3. c = "move" => MoveOk(s)'
      BY <1>7, <1>9, <1>10, <1>11, <1>14, <3>1 DEF CopyOk, MoveOk, Rows, Holds
    <3>4. c # "move" => ReplaceOk(Destination[c], s)'
      <4>1. PICK d \in Places : d = Destination[c]
        BY RoutesAre DEF Places
      <4>2. c # "move" => d \in {"new", "snap"}
        BY <4>1, RoutesAre
      <4>3. c # "move" => ReplaceOk(d, s)'
        BY <1>7, <1>9, <1>10, <1>11, <1>14, <3>1, <4>1, <4>2
           DEF CopyOk, ReplaceOk, Rows, Holds
      <4> QED
        BY <4>1, <4>3
    <3> QED
      BY <3>2, <3>3, <3>4 DEF CopyOk
  <2> QED
    BY <1>10, <2>1 DEF CopiesInv
<1>16. MigInv'
  BY <1>7, <1>9, <1>10, <1>11, <1>14 DEF Inv, MigInv, Rows, Holds
<1>17. FromInv'
  <2>1. ASSUME NEW a \in Places, NEW b \in Places, CameFrom(a, b)
        PROVE  CameFrom(a, b)'
    <3>1. Rows(a) \in Seq(Row) /\ Rows(b) \in Seq(Row)
      BY PlaceAt
    <3>2. a = p => a # "snap" /\ Rows(a)' = R /\ IsPrefix(Rows(b), R)
      BY <1>6, <1>7, <1>9, <1>11, <2>1, <3>1 DEF CameFrom, Rows
    <3>3. b = p => a = "snap" /\ Rows(b)' = R /\ IsPrefix(Rows(a), R)
      BY <1>6, <1>7, <1>9, <1>11, <2>1, <3>1 DEF CameFrom, Rows
    <3>4. /\ a # p => UNCHANGED <<Rows(a), Holds(a)>> /\ place'[a] = place[a]
          /\ b # p => UNCHANGED <<Rows(b), Holds(b)>> /\ place'[b] = place[b]
      BY <1>9 DEF Rows, Holds
    <3>5. Holds(a)' /\ Holds(b)' /\ (place[a].sealed => place'[a].sealed)
          /\ (place[b].sealed => place'[b].sealed)
      BY <1>7, <1>9, <2>1 DEF CameFrom, Holds
    <3>6. CASE a # "snap"
      BY <1>10, <2>1, <3>2, <3>3, <3>4, <3>5, <3>6 DEF CameFrom
    <3>7. CASE a = "snap"
      BY <1>10, <2>1, <3>2, <3>3, <3>4, <3>5, <3>7 DEF CameFrom
    <3> QED
      BY <3>6, <3>7
  <2> QED
    BY <1>10, <2>1 DEF Inv, FromInv
<1> QED
  BY <1>12, <1>13, <1>15, <1>16, <1>17 DEF Inv

-----------------------------------------------------------------------------
(* The seal: the file at p becomes P, with the same rows. *)

Sealing(p, P) ==
  /\ p \in Places /\ P \in PlaceState /\ place' = [place EXCEPT ![p] = P]
  /\ P.rows = place[p].rows
  /\ place[p].there => P.there
  /\ place[p].sealed => P.sealed
  /\ P.sealed \/ P.mid => P.there
  /\ \A w \in OpenOn(p) : ~P.mid /\ (P.sealed => place[p].sealed)
  /\ UNCHANGED <<calls, handle, drop, manifest, from, used>>

LEMMA SealingAt ==
  ASSUME Inv, NEW p, NEW P, Sealing(p, P)
  PROVE  \A q \in Places : place'[q] = IF q = p THEN P ELSE place[q]
BY DEF Sealing, Inv, TypeInv

LEMMA SealingKeeps ==
  ASSUME Inv, NEW p, NEW P, Sealing(p, P)
  PROVE  SealsInv' /\ FromInv' /\ place' \in [Places -> PlaceState]
<1>1. \A q \in Places : place'[q] = IF q = p THEN P ELSE place[q]
  BY SealingAt
<1>2. Marks /\ place' \in [Places -> PlaceState]
  BY <1>1 DEF Marks, Sealing, Inv, TypeInv
<1>3. SealsInv'
  <2>1. SealsInv /\ Sqlite \subseteq Places
    BY DEF Inv, Sqlite, Places
  <2>2. \A w \in Writers : handle[w].at = p /\ ~handle[w].lost => w \in OpenOn(p)
    BY DEF OpenOn
  <2>3. \A q \in Places : place'[q].sealed \/ place'[q].mid \/ Rows(q)' # <<>> => Holds(q)'
    BY <1>1, <2>1 DEF Sealing, SealsInv, Rows, Holds
  <2>4. ASSUME NEW w \in Writers, handle[w].at \in Sqlite, ~handle[w].lost
        PROVE  /\ place'[handle[w].at].there /\ ~place'[handle[w].at].mid
               /\ place'[handle[w].at].sealed => handle[w].readonly
    BY <1>1, <2>1, <2>2, <2>4 DEF Sealing, SealsInv, Holds
  <2>5. UNCHANGED handle
    BY DEF Sealing
  <2> QED
    BY <2>3, <2>4, <2>5 DEF SealsInv, Rows, Holds
<1> QED
  BY <1>2, <1>3, MarksKeep DEF Sealing

LEMMA WalLeft ==
  ASSUME Inv, NEW p \in Places, OpenOn(p) = {}, LeaveWal(p),
         UNCHANGED <<calls, handle, drop, manifest, from, used>>
  PROVE  \E P \in PlaceState : /\ Sealing(p, P) /\ P.mid /\ P.there
                               /\ P.sealed = place[p].sealed
<1> DEFINE P == [place[p] EXCEPT !.mid = TRUE, !.there = TRUE]
<1>1. place[p] \in PlaceState
  BY PlaceAt
<1>2. /\ P \in PlaceState /\ P.rows = place[p].rows /\ P.sealed = place[p].sealed
      /\ P.mid /\ P.there
  BY <1>1 DEF PlaceState
<1>3. place' = [place EXCEPT ![p] = P]
  BY DEF LeaveWal
<1> HIDE DEF P
<1>4. Sealing(p, P)
  BY <1>2, <1>3 DEF Sealing
<1> QED
  BY <1>2, <1>4

LEMMA BitsCleared ==
  ASSUME Inv, NEW p \in Sqlite, place[p].mid, ClearWriteBits(p),
         UNCHANGED <<calls, handle, drop, manifest, from, used>>
  PROVE  \E P \in PlaceState : Sealing(p, P) /\ ~P.mid /\ P.sealed /\ P.there
<1> DEFINE P == [place[p] EXCEPT !.mid = FALSE, !.sealed = TRUE]
<1>1. p \in Places
  BY DEF Places, Sqlite
<1>2. place[p] \in PlaceState /\ place[p].there
  BY <1>1, PlaceAt DEF Holds
<1>3. /\ P \in PlaceState /\ P.rows = place[p].rows /\ P.sealed
      /\ ~P.mid /\ P.there
  BY <1>2 DEF PlaceState
<1>4. place' = [place EXCEPT ![p] = P]
  BY DEF ClearWriteBits
<1>5. OpenOn(p) = {}
  BY DEF OpenOn, Inv, SealsInv
<1> HIDE DEF P
<1>6. Sealing(p, P)
  BY <1>1, <1>3, <1>4, <1>5 DEF Sealing
<1> QED
  BY <1>3, <1>6

LEMMA SealDied ==
  ASSUME Inv, NEW p \in Places, Crashed(p),
         UNCHANGED <<calls, handle, drop, manifest, from, used>>
  PROVE  \E P \in PlaceState : /\ Sealing(p, P) /\ ~P.mid
                               /\ P.sealed = place[p].sealed /\ P.there = place[p].there
<1> DEFINE P == [place[p] EXCEPT !.mid = FALSE]
<1>1. place[p] \in PlaceState /\ (place[p].sealed => place[p].there)
  BY PlaceAt DEF Holds
<1>2. /\ P \in PlaceState /\ P.rows = place[p].rows /\ P.sealed = place[p].sealed
      /\ ~P.mid /\ P.there = place[p].there
  BY <1>1 DEF PlaceState
<1>3. place' = [place EXCEPT ![p] = P]
  BY DEF Crashed
<1> HIDE DEF P
<1>4. Sealing(p, P)
  BY <1>1, <1>2, <1>3 DEF Sealing
<1> QED
  BY <1>2, <1>4

LEMMA AddressesAre ==
  /\ {"old", "new", "snap", "pg", "pgold"} = Places /\ {"old", "new", "snap"} = Sqlite
  /\ "old" \in Places /\ "new" \in Places
BY DEF Places, Sqlite

(* A move, as it seals the log at the current address. *)
LEMMA MoveSealingKeeps ==
  ASSUME Inv, NEW P, Sealing("new", P), UNCHANGED mig,
         NEW s \in CopyState, copy' = [copy EXCEPT !["move"] = s],
         copy["move"].at # "idle", SourceOk("move", s), MoveOk(s)',
         P.there => Holds("new") \/ "drop" \in calls
  PROVE  Inv'
<1>1. \A q \in Places : place'[q] = IF q = "new" THEN P ELSE place[q]
  BY SealingAt
<1>2. SealsInv' /\ FromInv' /\ place' \in [Places -> PlaceState]
  BY SealingKeeps
<1>3. "move" \in Routes /\ \A d \in Routes : copy'[d] = IF d = "move" THEN s ELSE copy[d]
  BY RoutesAre DEF Inv, TypeInv
<1>4. "move" \in calls
  BY <1>3, CopyAt
<1>5. TypeInv' /\ CallsInv'
  BY <1>2, <1>3, <1>4 DEF Sealing, Inv, TypeInv, CallsInv
<1>6. /\ P.rows = place["new"].rows /\ (place["new"].there => P.there)
      /\ (place["new"].sealed => P.sealed)
      /\ UNCHANGED <<calls, handle, drop, manifest, from, used>>
  BY DEF Sealing
<1>7. \A p \in Places : UNCHANGED Rows(p) /\ (p # "new" => UNCHANGED place[p])
  BY <1>1, <1>6 DEF Rows
<1>8. ASSUME NEW c \in Routes \ {"move"}, NEW r, r = copy[c]
      PROVE  CopyOk(c, r)'
  <2>1. CopyOk(c, r) /\ (r.at # "idle" => c \in calls)
    BY <1>8, CopyAt
  <2>2. SourceOk(c, r)'
    BY <1>7, <2>1, RoutesAre, AddressesAre DEF CopyOk, SourceOk
  <2>3. PICK d \in {"new", "snap"} : d = Destination[c]
    BY RoutesAre
  <2>4. d = "new" => c = "back"
    BY <2>3, RoutesAre
  <2>5. r.at = "write" /\ d = "new" /\ P.there => Holds("new")
    BY <1>4, <2>1, <2>4 DEF Inv, CallsInv
  <2>6. ReplaceOk(d, r)'
    BY <1>1, <1>6, <1>7, <2>1, <2>3, <2>5, AddressesAre DEF CopyOk, ReplaceOk, Rows, Holds
  <2> QED
    BY <2>2, <2>3, <2>6 DEF CopyOk
<1>9. CopyOk("move", s)'
  BY <1>7, RoutesAre, AddressesAre DEF CopyOk, SourceOk
<1>10. CopiesInv'
  BY <1>3, <1>8, <1>9 DEF CopiesInv
<1>11. MigInv'
  <2>1. mig.at # "idle" /\ P.there => Holds("new")
    BY <1>4 DEF Inv, CallsInv
  <2> QED
    BY <1>1, <1>6, <1>7, <2>1, AddressesAre DEF Inv, MigInv, Holds
<1> QED
  BY <1>2, <1>5, <1>10, <1>11 DEF Inv

LEMMA CopySealsKeeps ==
  ASSUME Inv, Orderly, NEW c \in Routes, CopySeals(c)
  PROVE  Inv'
<1>1. UNCHANGED <<calls, handle, drop, mig, manifest, from, used>>
  BY DEF CopySeals
<1>2. copy[c] \in CopyState /\ CopyOk(c, copy[c]) /\ copy[c].at = "seal" /\ c = "move"
  BY CopyAt DEF CopySeals, Copying, CopyOk, SourceOk
<1>3. CASE CopyEnds(c) /\ UNCHANGED place
  BY <1>1, <1>3, CopyEndsKeeps
<1>4. CASE Sealable("new") /\ LeaveWal("new") /\ CopyGoes("move", "clear")
  <2>1. PICK P \in PlaceState : /\ Sealing("new", P) /\ P.mid /\ P.there
                                /\ P.sealed = place["new"].sealed
    BY <1>1, <1>4, WalLeft, AddressesAre DEF Sealable, Orderly
  <2>2. PICK s \in CopyState : s = [copy["move"] EXCEPT !.at = "clear"]
    BY <1>2 DEF CopyState
  <2>3. /\ copy' = [copy EXCEPT !["move"] = s] /\ s.at = "clear"
        /\ s.src = copy["move"].src /\ s.rows = copy["move"].rows
    BY <1>2, <1>4, <2>2 DEF CopyGoes, CopyState
  <2>4. SourceOk("move", s) /\ MoveOk(copy["move"])
    BY <1>2, <2>3 DEF CopyOk, SourceOk
  <2>5. place'["new"] = P
    BY <2>1, SealingAt, AddressesAre
  <2>6. MoveOk(s)'
    BY <1>1, <1>2, <2>1, <2>3, <2>4, <2>5 DEF MoveOk, Holds
  <2>7. Holds("new") \/ "drop" \in calls
    BY <1>2, <2>4 DEF MoveOk
  <2> QED
    BY <1>1, <1>2, <2>1, <2>2, <2>3, <2>4, <2>6, <2>7, MoveSealingKeeps
<1> QED
  BY <1>2, <1>3, <1>4, RoutesAre DEF CopySeals

LEMMA CopyClearsKeeps ==
  ASSUME Inv, NEW c \in Routes, CopyClears(c)
  PROVE  Inv'
<1>1. UNCHANGED <<calls, handle, drop, mig, manifest, from, used>>
  BY DEF CopyClears
<1>2. copy[c] \in CopyState /\ CopyOk(c, copy[c]) /\ copy[c].at = "clear" /\ c = "move"
  BY CopyAt DEF CopyClears, Copying, CopyOk, SourceOk
<1>3. ClearWriteBits("new") /\ CopyGoes("move", "reread")
  BY <1>2, RoutesAre DEF CopyClears
<1>4. place["new"].mid /\ Holds("new")
  BY <1>2, PlaceAt, AddressesAre DEF CopyOk, MoveOk
<1>5. PICK P \in PlaceState : Sealing("new", P) /\ ~P.mid /\ P.sealed /\ P.there
  BY <1>1, <1>3, <1>4, BitsCleared, AddressesAre
<1>6. PICK s \in CopyState : s = [copy["move"] EXCEPT !.at = "reread"]
  BY <1>2 DEF CopyState
<1>7. /\ copy' = [copy EXCEPT !["move"] = s] /\ s.at = "reread"
      /\ s.src = copy["move"].src /\ s.rows = copy["move"].rows
  BY <1>2, <1>3, <1>6 DEF CopyGoes, CopyState
<1>8. SourceOk("move", s)
  BY <1>2, <1>7 DEF CopyOk, SourceOk
<1>9. place'["new"] = P
  BY <1>5, SealingAt, AddressesAre
<1>10. MoveOk(s)'
  BY <1>5, <1>7, <1>9 DEF MoveOk, Holds
<1> QED
  BY <1>1, <1>2, <1>4, <1>5, <1>6, <1>7, <1>8, <1>10, MoveSealingKeeps

LEMMA CopyCrashesKeeps ==
  ASSUME Inv, NEW c \in Routes, CopyCrashes(c)
  PROVE  Inv'
<1>1. UNCHANGED <<calls, handle, drop, mig, manifest, from, used>> /\ CopyEnds(c)
  BY DEF CopyCrashes
<1>2. CASE UNCHANGED place
  BY <1>1, <1>2, CopyEndsKeeps
<1>3. CASE copy[c].at = "clear" /\ Crashed(Source[c])
  <2>1. c = "move" /\ Source[c] = "new"
    BY <1>3, CopyAt, RoutesAre DEF CopyOk, SourceOk
  <2>2. PICK P \in PlaceState : /\ Sealing("new", P) /\ ~P.mid
                                /\ P.sealed = place["new"].sealed /\ P.there = place["new"].there
    BY <1>1, <1>3, <2>1, SealDied, AddressesAre
  <2>3. Idle \in CopyState /\ SourceOk("move", Idle) /\ Idle.at = "idle" /\ Idle.src = "none"
    BY <2>1, IdleOk DEF Idle, CopyOk
  <2>4. MoveOk(Idle)'
    BY <2>3 DEF MoveOk, Idle
  <2>5. copy' = [copy EXCEPT !["move"] = Idle]
    BY <1>1, <2>1 DEF CopyEnds
  <2>6. copy["move"].at # "idle"
    BY <1>3, <2>1
  <2>7. P.there => Holds("new")
    BY <2>2 DEF Holds
  <2> QED
    BY <1>1, <2>2, <2>3, <2>4, <2>5, <2>6, <2>7, MoveSealingKeeps
<1> QED
  BY <1>2, <1>3 DEF CopyCrashes, Copying

(* The migrator, as it seals the log at the older address. *)
LEMMA MigSealingKeeps ==
  ASSUME Inv, NEW P, Sealing("old", P), UNCHANGED copy,
         NEW m \in MigState, mig' = m, mig.at # "idle", MigInv'
  PROVE  Inv'
<1>1. \A q \in Places : place'[q] = IF q = "old" THEN P ELSE place[q]
  BY SealingAt
<1>2. SealsInv' /\ FromInv' /\ place' \in [Places -> PlaceState]
  BY SealingKeeps
<1>3. TypeInv' /\ CallsInv'
  BY <1>2 DEF Sealing, Inv, TypeInv, CallsInv
<1>4. P.rows = place["old"].rows /\ UNCHANGED calls
  BY DEF Sealing
<1>5. \A p \in Places : UNCHANGED Rows(p) /\ (p # "old" => UNCHANGED place[p])
  BY <1>1, <1>4 DEF Rows
<1>6. ASSUME NEW c \in Routes, NEW r, r = copy[c]
      PROVE  CopyOk(c, r)'
  <2>1. CopyOk(c, r) /\ Holds("old")
    BY <1>6, CopyAt DEF Inv, MigInv
  <2>2. SourceOk(c, r)'
    BY <1>5, <2>1, RoutesAre, AddressesAre DEF CopyOk, SourceOk
  <2>3. c = "move" => MoveOk(r)'
    BY <1>4, <1>5, <2>1, AddressesAre DEF CopyOk, MoveOk, Holds
  <2>4. PICK d \in {"new", "snap", "pg"} : d = Destination[c]
    BY RoutesAre
  <2>5. c # "move" => ReplaceOk(d, r)'
    BY <1>4, <1>5, <2>1, <2>4, AddressesAre DEF CopyOk, ReplaceOk, Holds
  <2> QED
    BY <2>2, <2>3, <2>4, <2>5 DEF CopyOk
<1>7. CopiesInv'
  BY <1>6 DEF CopiesInv
<1> QED
  BY <1>2, <1>3, <1>7 DEF Inv

LEMMA MigSealsKeeps ==
  ASSUME Inv, Orderly, MigSeals
  PROVE  Inv'
<1>1. UNCHANGED <<calls, handle, copy, drop, manifest, from, used>> /\ mig.at = "seal"
  BY DEF MigSeals, Migrating
<1>2. CASE mig' = MigIdle /\ UNCHANGED place
  <2>1. MigIdle \in MigState /\ MigIdle.at = "idle"
    BY DEF MigIdle, MigState
  <2>2. MigInv'
    BY <1>2, <2>1 DEF MigInv
  <2> QED
    BY <1>1, <1>2, <2>1, <2>2, MigReadsKeeps DEF Inv, TypeInv
<1>3. CASE Sealable("old") /\ LeaveWal("old") /\ MigGoes("clear")
  <2>1. PICK P \in PlaceState : /\ Sealing("old", P) /\ P.mid /\ P.there
                                /\ P.sealed = place["old"].sealed
    BY <1>1, <1>3, WalLeft, AddressesAre DEF Sealable, Orderly
  <2>2. PICK m \in MigState : m = [mig EXCEPT !.at = "clear"]
    BY DEF Inv, TypeInv, MigState
  <2>3. mig' = m /\ m.at = "clear"
    BY <1>3, <2>2 DEF MigGoes, Inv, TypeInv, MigState
  <2>4. place'["old"] = P /\ place'["new"] = place["new"]
    BY <2>1, SealingAt, AddressesAre
  <2>5. MigInv'
    BY <1>1, <2>1, <2>3, <2>4 DEF Inv, MigInv, Holds
  <2> QED
    BY <1>1, <2>1, <2>3, <2>5, MigSealingKeeps
<1> QED
  BY <1>2, <1>3 DEF MigSeals

LEMMA MigClearsKeeps ==
  ASSUME Inv, MigClears
  PROVE  Inv'
<1>1. /\ UNCHANGED <<calls, handle, copy, drop, manifest, from, used>> /\ mig.at = "clear"
      /\ ClearWriteBits("old") /\ MigGoes("transform")
  BY DEF MigClears, Migrating
<1>2. place["old"].mid
  BY <1>1 DEF Inv, MigInv
<1>3. PICK P \in PlaceState : Sealing("old", P) /\ ~P.mid /\ P.sealed /\ P.there
  BY <1>1, <1>2, BitsCleared, AddressesAre
<1>4. PICK m \in MigState : m = [mig EXCEPT !.at = "transform"]
  BY DEF Inv, TypeInv, MigState
<1>5. mig' = m /\ m.at = "transform"
  BY <1>1, <1>4 DEF MigGoes, Inv, TypeInv, MigState
<1>6. place'["old"] = P /\ place'["new"] = place["new"]
  BY <1>3, SealingAt, AddressesAre
<1>7. MigInv'
  BY <1>1, <1>3, <1>5, <1>6 DEF Inv, MigInv, Holds
<1> QED
  BY <1>1, <1>3, <1>5, <1>7, MigSealingKeeps

LEMMA MigCrashesKeeps ==
  ASSUME Inv, MigCrashes
  PROVE  Inv'
<1>1. UNCHANGED <<calls, handle, copy, drop, manifest, from, used>>
      /\ mig.at # "idle" /\ mig' = MigIdle
  BY DEF MigCrashes, Migrating
<1>2. MigIdle \in MigState /\ MigIdle.at = "idle"
  BY DEF MigIdle, MigState
<1>3. MigInv'
  BY <1>1, <1>2 DEF MigInv
<1>4. CASE UNCHANGED place
  BY <1>1, <1>2, <1>3, <1>4, MigReadsKeeps DEF Inv, TypeInv
<1>5. CASE Crashed("old")
  <2>1. PICK P \in PlaceState : Sealing("old", P)
    BY <1>1, <1>5, SealDied, AddressesAre
  <2> QED
    BY <1>1, <1>2, <1>3, <2>1, MigSealingKeeps
<1> QED
  BY <1>4, <1>5 DEF MigCrashes

-----------------------------------------------------------------------------
(* A log that is put at an address, or dropped from it. *)

LEMMA DetachedSeals ==
  ASSUME Inv, NEW p \in Places, NEW P \in PlaceState, place' = [place EXCEPT ![p] = P],
         P.sealed \/ P.mid \/ P.rows # <<>> => P.there, Detach(p)
  PROVE  /\ SealsInv' /\ place' \in [Places -> PlaceState]
         /\ handle' \in [Writers -> HandleState]
         /\ \A q \in Places : place'[q] = IF q = p THEN P ELSE place[q]
<1>1. \A q \in Places : place'[q] = IF q = p THEN P ELSE place[q]
  BY DEF Inv, TypeInv
<1>2. place' \in [Places -> PlaceState]
  BY DEF Inv, TypeInv
<1>3. ASSUME NEW w \in Writers
      PROVE  /\ handle'[w] \in HandleState /\ handle'[w].at = handle[w].at
             /\ handle'[w].readonly = handle[w].readonly
             /\ ~handle'[w].lost => ~handle[w].lost /\ ~(handle[w].at = p /\ p \in Sqlite)
  <2> DEFINE h == [handle[w] EXCEPT !.lost = TRUE]
  <2>1. handle[w] \in HandleState
    BY DEF Inv, TypeInv
  <2>2. h \in HandleState /\ h.at = handle[w].at /\ h.readonly = handle[w].readonly /\ h.lost
    BY <2>1 DEF HandleState
  <2>3. handle'[w] = IF handle[w].at = p /\ p \in Sqlite THEN h ELSE handle[w]
    BY DEF Detach
  <2> HIDE DEF h
  <2> QED
    BY <2>1, <2>2, <2>3
<1>4. handle' \in [Writers -> HandleState]
  BY <1>3 DEF Detach
<1>5. SealsInv'
  <2>1. SealsInv /\ Sqlite \subseteq Places
    BY AddressesAre DEF Inv
  <2>2. \A q \in Places : place'[q].sealed \/ place'[q].mid \/ place'[q].rows # <<>> => place'[q].there
    BY <1>1, <2>1 DEF SealsInv, Rows, Holds
  <2>3. ASSUME NEW w \in Writers, handle'[w].at \in Sqlite, ~handle'[w].lost
        PROVE  /\ place'[handle'[w].at].there /\ ~place'[handle'[w].at].mid
               /\ place'[handle'[w].at].sealed => handle'[w].readonly
    BY <1>1, <1>3, <2>1, <2>3 DEF SealsInv, Holds
  <2> QED
    BY <2>2, <2>3 DEF SealsInv, Rows, Holds
<1> QED
  BY <1>1, <1>2, <1>4, <1>5

LEMMA UnsourcedAt ==
  ASSUME Inv, NEW p, NEW c \in Routes
  PROVE  LET s == Unsourced(p)[c]
         IN  /\ s \in CopyState /\ s.at = copy[c].at /\ s.rows = copy[c].rows
             /\ s.src = IF Source[c] = p THEN "none" ELSE copy[c].src
<1> DEFINE s == [copy[c] EXCEPT !.src = "none"]
<1>1. copy[c] \in CopyState
  BY CopyAt
<1>2. s \in CopyState /\ s.at = copy[c].at /\ s.rows = copy[c].rows /\ s.src = "none"
  BY <1>1 DEF CopyState
<1>3. Unsourced(p)[c] = IF Source[c] = p THEN s ELSE copy[c]
  BY DEF Unsourced
<1> HIDE DEF s
<1> QED
  BY <1>1, <1>2, <1>3

LEMMA DroppedKeeps ==
  ASSUME Inv, NEW p \in {"new", "pg"}, Dropped(p), "drop" \in calls,
         p = "new" => ~place["new"].mid,
         drop' \in {"idle", "unlink"}, drop' = drop \/ drop' = "idle",
         UNCHANGED <<calls, mig, manifest, used>>
  PROVE  Inv'
<1> DEFINE none == <<>>
           P == [there |-> FALSE, rows |-> none, sealed |-> FALSE, mid |-> FALSE]
<1>1. none \in Seq(Row)
  OBVIOUS
<1>2. place' = [place EXCEPT ![p] = P] /\ Detach(p) /\ copy' = Unsourced(p)
  BY DEF Dropped, Absent
<1>3. p \in Places /\ P \in PlaceState /\ P.rows = <<>> /\ ~P.sealed /\ ~P.mid /\ ~P.there
  BY <1>1, AddressesAre DEF PlaceState
<1> HIDE DEF none, P
<1>4. /\ SealsInv' /\ place' \in [Places -> PlaceState] /\ handle' \in [Writers -> HandleState]
      /\ \A q \in Places : place'[q] = IF q = p THEN P ELSE place[q]
  BY <1>2, <1>3, DetachedSeals
<1>5. /\ \A c \in Routes : /\ copy'[c] \in CopyState /\ copy'[c].at = copy[c].at
                           /\ copy'[c].rows = copy[c].rows
                           /\ copy'[c].src = IF Source[c] = p THEN "none" ELSE copy[c].src
      /\ copy' \in [Routes -> CopyState]
  <2>1. copy' = [c \in Routes |-> Unsourced(p)[c]]
    BY <1>2 DEF Unsourced
  <2>2. \A c \in Routes : copy'[c] = Unsourced(p)[c]
    BY <1>2
  <2>3. \A c \in Routes : /\ copy'[c] \in CopyState /\ copy'[c].at = copy[c].at
                           /\ copy'[c].rows = copy[c].rows
                           /\ copy'[c].src = IF Source[c] = p THEN "none" ELSE copy[c].src
    BY <2>2, UnsourcedAt
  <2> QED
    BY <2>1, <2>2, <2>3
<1>6. from' = [q \in Places |-> IF q = p \/ from[q] = p THEN "none" ELSE from[q]]
  BY DEF Dropped
<1>7. TypeInv' /\ CallsInv'
  BY <1>4, <1>5, <1>6 DEF Inv, TypeInv, CallsInv
<1>8. \A q \in Places : q # p => UNCHANGED <<place[q], Rows(q), Holds(q)>>
  BY <1>4 DEF Rows, Holds
<1>9. ASSUME NEW c \in Routes, NEW s \in CopyState, s = copy'[c]
      PROVE  CopyOk(c, s)'
  <2>1. CopyOk(c, copy[c]) /\ copy[c] \in CopyState
    BY CopyAt
  <2>2. SourceOk(c, s)'
    BY <1>5, <1>8, <1>9, <2>1, RoutesAre, AddressesAre DEF CopyOk, SourceOk
  <2>3. c = "move" => MoveOk(s)'
    BY <1>5, <1>8, <1>9, <2>1, RoutesAre, AddressesAre DEF CopyOk, MoveOk, Holds
  <2>4. PICK d \in {"new", "snap", "pg"} : d = Destination[c]
    BY RoutesAre
  <2>5. c # "move" => ReplaceOk(d, s)'
    <3>1. d # p => UNCHANGED <<place[d], Rows(d), Holds(d)>>
      BY <1>8, AddressesAre
    <3>2. d = p => ~Holds(d)'
      BY <1>3, <1>4 DEF Holds
    <3>3. c # "move" => ReplaceOk(d, copy[c])
      BY <2>1, <2>4 DEF CopyOk
    <3> QED
      BY <1>5, <1>9, <3>1, <3>2, <3>3 DEF ReplaceOk
  <2> QED
    BY <2>2, <2>3, <2>4, <2>5 DEF CopyOk
<1>10. CopiesInv'
  BY <1>5, <1>9 DEF CopiesInv
<1>11. MigInv'
  <2>1. ~Holds("new") => ~Holds("new")'
    BY <1>3, <1>4, AddressesAre DEF Holds
  <2>2. UNCHANGED <<place["old"], Rows("old"), Holds("old")>>
    BY <1>8, AddressesAre
  <2> QED
    BY <2>1, <2>2 DEF Inv, MigInv
<1>12. FromInv'
  <2>1. ASSUME NEW a \in Places, NEW b \in Places, from'[a] = b
        PROVE  CameFrom(a, b)'
    <3>1. from[a] = b /\ a # p /\ b # p
      BY <1>6, <2>1, AddressesAre
    <3>2. UNCHANGED <<place[a], Rows(a), Holds(a), place[b], Rows(b), Holds(b), manifest>>
      BY <1>8, <3>1
    <3>3. CameFrom(a, b)
      BY <3>1 DEF Inv, FromInv
    <3> QED
      BY <3>2, <3>3 DEF CameFrom
  <2> QED
    BY <2>1 DEF FromInv
<1> QED
  BY <1>4, <1>7, <1>10, <1>11, <1>12 DEF Inv

LEMMA DropUnlinksKeeps ==
  ASSUME Inv, Orderly, DropUnlinks
  PROVE  Inv'
BY DroppedKeeps DEF DropUnlinks, Orderly, Inv, CallsInv

LEMMA DropPostgresKeeps ==
  ASSUME Inv, DropPostgres
  PROVE  Inv'
BY DroppedKeeps DEF DropPostgres, Inv, TypeInv

(* A published log detaches the channels on the file before it. *)
LEMMA PublishedAt ==
  ASSUME Inv, NEW p \in Places, NEW R \in Seq(Row), NEW b \in BOOLEAN, R # <<>>,
         Published(p, R, b)
  PROVE  \E P \in PlaceState :
           /\ P.there /\ P.rows = R /\ P.sealed = b /\ ~P.mid
           /\ SealsInv' /\ place' \in [Places -> PlaceState] /\ handle' \in [Writers -> HandleState]
           /\ \A q \in Places : place'[q] = IF q = p THEN P ELSE place[q]
<1> DEFINE P == [there |-> TRUE, rows |-> R, sealed |-> b, mid |-> FALSE]
<1>1. P \in PlaceState /\ P.there /\ P.rows = R /\ P.sealed = b /\ ~P.mid
  BY DEF PlaceState
<1>2. place' = [place EXCEPT ![p] = P] /\ Detach(p)
  BY DEF Published
<1> HIDE DEF P
<1> QED
  BY <1>1, <1>2, DetachedSeals

LEMMA ImportAt ==
  ASSUME Inv, NEW c \in Routes, NEW p \in Places, p = Destination[c],
         copy' = [Unsourced(p) EXCEPT ![c] = Idle]
  PROVE  /\ copy' \in [Routes -> CopyState] /\ copy'[c] = Idle
         /\ \A d \in Routes \ {c} :
              /\ copy'[d] \in CopyState /\ copy'[d].at = copy[d].at /\ copy'[d].rows = copy[d].rows
              /\ copy'[d].src = IF Source[d] = p THEN "none" ELSE copy[d].src
<1>1. \A d \in Routes : copy'[d] = IF d = c THEN Idle ELSE Unsourced(p)[d]
  BY DEF Unsourced
<1>2. \A d \in Routes : copy'[d] \in CopyState
  BY <1>1, IdleOk, UnsourcedAt
<1>3. copy' \in [Routes -> CopyState]
  BY <1>2 DEF Unsourced
<1> QED
  BY <1>1, <1>2, <1>3, UnsourcedAt

LEMMA ImportKeeps ==
  ASSUME Inv, NEW c \in Routes, Import(c)
  PROVE  Inv'
<1>1. UNCHANGED <<calls, drop, mig, manifest, used>>
  BY DEF Import
<1>2. CASE CopyEnds(c) /\ UNCHANGED <<place, handle, from>>
  BY <1>1, <1>2, CopyEndsKeeps
<1>3. CASE /\ ~(Destination[c] = "pg" /\ Rows("pg") # <<>>)
           /\ Published(Destination[c], copy[c].rows, Destination[c] # "pg")
           /\ copy' = [Unsourced(Destination[c]) EXCEPT ![c] = Idle]
           /\ from' = [q \in Places |->
                IF q = Destination[c] /\ q # "new" THEN copy[c].src
                ELSE IF from[q] = Destination[c] /\ copy[c].src = "none" THEN "none" ELSE from[q]]
  <2>1. copy[c] \in CopyState /\ CopyOk(c, copy[c]) /\ copy[c].at = "write" /\ c \in calls
    BY CopyAt DEF Import, Copying
  <2>2. PICK p \in {"pg", "new", "snap"} :
          /\ p = Destination[c] /\ (p = "pg" <=> c = "move") /\ (p = "new" <=> c = "back")
          /\ (p = "snap" <=> c = "keep")
    BY RoutesAre
  <2>3. p \in Places
    BY <2>2, AddressesAre
  <2>4. PICK R \in Seq(Row), src \in Places \cup {"none"} : R = copy[c].rows /\ src = copy[c].src
    BY <2>1 DEF CopyState
  <2>5. R # <<>> /\ ~Live(R)
        /\ (src # "none" => src = Source[c] /\ IsPrefix(R, Rows(src)))
        /\ (p = "pg" /\ src # "none" => place["new"].sealed /\ R = Rows("new"))
        /\ (p # "pg" => \/ ~Holds(p)
                        \/ place[p].sealed /\ IsPrefix(Rows(p), R))
        /\ (p = "new" /\ "drop" \notin calls => Holds("new") \/ ~Holds("old"))
        /\ (p = "pg" => Rows("pg") = <<>>)
    BY <1>3, <2>1, <2>2, <2>4, RoutesAre DEF CopyOk, SourceOk, MoveOk, ReplaceOk
  <2>6. PICK P \in PlaceState :
           /\ P.there /\ P.rows = R /\ P.sealed = (p # "pg") /\ ~P.mid
           /\ SealsInv' /\ place' \in [Places -> PlaceState] /\ handle' \in [Writers -> HandleState]
           /\ \A q \in Places : place'[q] = IF q = p THEN P ELSE place[q]
    <3>1. PICK b \in BOOLEAN : b = (p # "pg")
      OBVIOUS
    <3>2. Published(p, R, b) /\ R # <<>>
      BY <1>3, <2>2, <2>4, <2>5, <3>1
    <3>3. \E P \in PlaceState :
            /\ P.there /\ P.rows = R /\ P.sealed = b /\ ~P.mid
            /\ SealsInv' /\ place' \in [Places -> PlaceState] /\ handle' \in [Writers -> HandleState]
            /\ \A q \in Places : place'[q] = IF q = p THEN P ELSE place[q]
      BY <2>3, <3>2, PublishedAt
    <3> QED
      BY <3>1, <3>3
  <2>7. /\ copy' \in [Routes -> CopyState] /\ copy'[c] = Idle
        /\ \A d \in Routes \ {c} :
             /\ copy'[d] \in CopyState /\ copy'[d].at = copy[d].at /\ copy'[d].rows = copy[d].rows
             /\ copy'[d].src = IF Source[d] = p THEN "none" ELSE copy[d].src
    BY <1>3, <2>2, <2>3, ImportAt
  <2>8. from' = [q \in Places |->
          IF q = p /\ q # "new" THEN src
          ELSE IF from[q] = p /\ src = "none" THEN "none" ELSE from[q]]
    BY <1>3, <2>2, <2>4
  <2>9. TypeInv' /\ CallsInv'
    BY <1>1, <2>6, <2>7, <2>8, IdleOk DEF Inv, TypeInv, CallsInv
  <2>10. \A q \in Places : q # p => UNCHANGED <<place[q], Rows(q), Holds(q)>>
    BY <2>6 DEF Rows, Holds
  <2>11. place'[p] = P /\ Rows(p)' = R /\ Holds(p)'
    BY <2>3, <2>6 DEF Rows, Holds
  <2>12. p = "new" /\ "drop" \notin calls => mig.at = "idle" /\ copy["move"].at \notin {"seal", "clear"}
    <3>1. CopyOk("move", copy["move"]) /\ (place["new"].mid => Holds("new"))
      BY CopyAt, RoutesAre, PlaceAt, AddressesAre
    <3> QED
      BY <2>5, <3>1 DEF Inv, MigInv, CopyOk, MoveOk
  <2>13. p = "new" /\ "drop" \in calls => mig.at = "idle" /\ copy["move"].at = "idle"
    BY <2>1, <2>2, CopyAt, RoutesAre DEF Inv, CallsInv
  <2>14. ASSUME NEW d \in Routes \ {c}, NEW s \in CopyState, s = copy'[d]
         PROVE  CopyOk(d, s)'
    <3>1. /\ CopyOk(d, copy[d]) /\ copy[d] \in CopyState
          /\ s.at = copy[d].at /\ s.rows = copy[d].rows
          /\ s.src = IF Source[d] = p THEN "none" ELSE copy[d].src
      BY <2>7, <2>14, CopyAt
    <3>2. SourceOk(d, s)'
      BY <2>10, <3>1, RoutesAre, AddressesAre DEF CopyOk, SourceOk
    <3>3. d = "move" => MoveOk(s)'
      <4>1. CASE p = "new"
        BY <1>1, <2>11, <2>12, <2>13, <3>1, <4>1, RoutesAre DEF MoveOk
      <4>2. CASE p # "new"
        BY <1>1, <2>10, <3>1, <4>2, AddressesAre DEF CopyOk, MoveOk
      <4> QED
        BY <4>1, <4>2
    <3>4. PICK e \in {"new", "snap", "pg"} :
            e = Destination[d] /\ e # p /\ (e = "new" => p \in {"pg", "snap"})
      BY <2>2, <2>14, RoutesAre
    <3>5. d # "move" => ReplaceOk(e, s)'
      BY <1>1, <2>2, <2>10, <3>1, <3>4, AddressesAre DEF CopyOk, ReplaceOk
    <3> QED
      BY <3>2, <3>3, <3>4, <3>5 DEF CopyOk
  <2>15. CopiesInv'
    <3>1. CopyOk(c, Idle)'
      BY IdleOk DEF Idle, CopyOk, SourceOk, MoveOk, ReplaceOk
    <3> QED
      BY <2>7, <2>14, <3>1 DEF CopiesInv
  <2>16. MigInv'
    <3>1. CASE p = "new"
      BY <1>1, <2>12, <2>13, <3>1 DEF MigInv
    <3>2. CASE p # "new"
      BY <1>1, <2>2, <2>10, <3>2, AddressesAre DEF Inv, MigInv
    <3> QED
      BY <3>1, <3>2
  <2>17. ASSUME NEW a \in Places, NEW b \in Places, from'[a] = b
         PROVE  CameFrom(a, b)'
    <3>1. Rows(a) \in Seq(Row) /\ Rows(b) \in Seq(Row) /\ "none" \notin Places
      BY PlaceAt DEF Places
    <3>2. CASE a = p /\ a # "new"
      <4>1. b = src /\ src # "none" /\ b = "new" /\ b # p
        BY <2>2, <2>5, <2>8, <2>17, <3>1, <3>2, RoutesAre
      <4>2. Rows("new") # <<>> /\ Holds("new")
        <5>1. IsPrefix(R, Rows("new"))
          BY <2>5, <4>1
        <5>2. Rows("new") # <<>>
          BY <2>5, <3>1, <4>1, <5>1, PrefixOfNone
        <5> QED
          BY <5>2, PlaceAt, AddressesAre
      <4>3. UNCHANGED <<place["new"], Rows("new"), Holds("new")>>
        BY <2>10, <4>1, AddressesAre
      <4>4. IsPrefix(R, R)
        BY PrefixSame
      <4> QED
        BY <2>2, <2>5, <2>6, <2>11, <3>2, <4>1, <4>2, <4>3, <4>4, ZenonT(60) DEF CameFrom
    <3>3. CASE ~(a = p /\ a # "new")
      <4>1. from[a] = b /\ (b = p => src # "none")
        BY <2>8, <2>17, <3>1, <3>3
      <4>2. CameFrom(a, b)
        BY <4>1 DEF Inv, FromInv
      <4>3. CASE a # p /\ b # p
        <5>1. UNCHANGED <<place[a], Rows(a), Holds(a), place[b], Rows(b), Holds(b), manifest>>
          BY <1>1, <2>10, <4>3
        <5> QED
          BY <4>2, <5>1 DEF CameFrom
      <4>4. CASE a = p
        <5>1. a = "new" /\ b = "old" /\ p = "new" /\ IsPrefix(Rows(b), Rows(a)) /\ Holds(a)
          BY <3>3, <4>2, <4>4 DEF CameFrom
        <5>2. IsPrefix(Rows(b), R)
          BY <2>5, <3>1, <5>1, PrefixLonger
        <5>3. UNCHANGED <<place[b], Rows(b), Holds(b), manifest>>
          BY <1>1, <2>10, <5>1
        <5> QED
          BY <2>11, <4>2, <5>1, <5>2, <5>3 DEF CameFrom
      <4>5. CASE a # p /\ b = p
        <5>1. p = "new" /\ b = "new" /\ a \in {"pg", "snap"} /\ Holds("new") /\ src = "pg"
          BY <2>2, <2>5, <4>1, <4>2, <4>5, RoutesAre DEF CameFrom
        <5>2. UNCHANGED <<place[a], Rows(a), Holds(a), manifest>>
          BY <1>1, <2>10, <4>5
        <5>3. a = "pg" => IsPrefix(R, Rows(a))
          BY <2>5, <5>1
        <5>4. a = "snap" => IsPrefix(Rows(a), R)
          BY <2>5, <3>1, <4>2, <5>1, PrefixLonger DEF CameFrom
        <5> QED
          BY <2>6, <2>11, <4>2, <4>5, <5>1, <5>2, <5>3, <5>4 DEF CameFrom
      <4> QED
        BY <4>3, <4>4, <4>5
    <3> QED
      BY <3>2, <3>3
  <2>18. FromInv'
    BY <2>17 DEF FromInv
  <2> QED
    BY <2>6, <2>9, <2>15, <2>16, <2>18 DEF Inv
<1> QED
  BY <1>2, <1>3 DEF Import

LEMMA PublishKeeps ==
  ASSUME Inv, Publish
  PROVE  Inv'
<1>1. UNCHANGED <<calls, copy, drop, manifest, used>> /\ mig' = MigIdle
      /\ from' = [from EXCEPT !["new"] = "old"] /\ mig.at = "publish"
  BY DEF Publish, Migrating
<1>2. /\ Holds("old") /\ ~Holds("new") /\ place["old"].sealed /\ mig.rows = Rows("old")
      /\ "old" \in manifest.statement /\ "old" \in manifest.entry
  BY <1>1 DEF Inv, MigInv
<1>3. Rows("new") = <<>> /\ ~place["new"].sealed /\ ~place["new"].mid
  BY <1>2, PlaceAt, AddressesAre
<1> DEFINE P == [there |-> TRUE, rows |-> Rows("old"), sealed |-> FALSE, mid |-> FALSE]
<1>4. P \in PlaceState /\ P.there /\ P.rows = Rows("old") /\ ~P.sealed /\ ~P.mid
  BY PlaceAt, AddressesAre DEF PlaceState
<1>5. place' = [place EXCEPT !["new"] = P] /\ Detach("new")
  BY <1>2 DEF Publish, Published
<1> HIDE DEF P
<1>6. /\ SealsInv' /\ place' \in [Places -> PlaceState] /\ handle' \in [Writers -> HandleState]
      /\ \A q \in Places : place'[q] = IF q = "new" THEN P ELSE place[q]
  BY <1>4, <1>5, DetachedSeals, AddressesAre
<1>7. MigIdle \in MigState /\ MigIdle.at = "idle"
  BY DEF MigIdle, MigState
<1>8. TypeInv'
  BY <1>1, <1>6, <1>7, AddressesAre DEF Inv, TypeInv
<1>9. CallsInv' /\ MigInv'
  BY <1>1, <1>7 DEF Inv, CallsInv, MigInv
<1>10. \A q \in Places : q # "new" => UNCHANGED <<place[q], Rows(q), Holds(q)>>
  BY <1>6 DEF Rows, Holds
<1>11. place'["new"] = P /\ Holds("new")' /\ Rows("new")' = Rows("old")
  BY <1>4, <1>6, AddressesAre DEF Rows, Holds
<1>12. ASSUME NEW c \in Routes, NEW s \in CopyState, s = copy[c]
       PROVE  CopyOk(c, s)'
  <2>1. CopyOk(c, s) /\ (s.at # "idle" => c \in calls)
    BY <1>12, CopyAt
  <2>2. s.src # "new"
    <3>1. SUFFICES ASSUME s.src = "new" PROVE FALSE
      OBVIOUS
    <3>2. s.rows # <<>> /\ IsPrefix(s.rows, Rows("new"))
      BY <2>1, <3>1 DEF CopyOk, SourceOk
    <3>3. s.rows \in Seq(Row)
      BY DEF CopyState
    <3> QED
      BY <1>3, <3>2, <3>3, PrefixOfNone
  <2>3. SourceOk(c, s)'
    BY <1>10, <2>1, <2>2, RoutesAre, AddressesAre DEF CopyOk, SourceOk
  <2>4. c = "move" => MoveOk(s)'
    BY <1>1, <1>2, <1>3, <1>4, <1>11, <2>1, <2>2 DEF CopyOk, MoveOk
  <2>5. PICK d \in {"new", "snap", "pg"} : d = Destination[c] /\ (d = "new" => c = "back")
    BY RoutesAre
  <2>6. c # "move" => ReplaceOk(d, s)'
    <3>1. CASE d = "new"
      <4>1. s.at = "write" => "back" \in calls /\ "migrate" \in calls
        BY <1>1, <2>1, <2>5, <3>1 DEF Inv, CallsInv
      <4>2. s.at = "write" => "drop" \notin calls
        BY <4>1 DEF Inv, CallsInv
      <4>3. s.at # "write"
        BY <1>2, <2>1, <2>5, <3>1, <4>2 DEF CopyOk, ReplaceOk
      <4> QED
        BY <4>3 DEF ReplaceOk
    <3>2. CASE d # "new"
      BY <1>1, <1>10, <2>1, <2>5, <3>2, AddressesAre DEF CopyOk, ReplaceOk
    <3> QED
      BY <3>1, <3>2
  <2> QED
    BY <2>3, <2>4, <2>5, <2>6 DEF CopyOk
<1>13. CopiesInv'
  BY <1>1, <1>12, CopyAt DEF CopiesInv
<1>14. ASSUME NEW a \in Places, NEW b \in Places, from'[a] = b
       PROVE  CameFrom(a, b)'
  <2>1. CASE a = "new"
    <3>1. b = "old"
      BY <1>1, <1>14, <2>1, AddressesAre DEF Inv, TypeInv
    <3>2. UNCHANGED <<place["old"], Rows("old"), Holds("old"), manifest>>
      BY <1>1, <1>10, AddressesAre
    <3>3. IsPrefix(Rows("old"), Rows("old"))
      BY PlaceAt, PrefixSame, AddressesAre
    <3> QED
      BY <1>2, <1>11, <2>1, <3>1, <3>2, <3>3 DEF CameFrom
  <2>2. CASE a # "new"
    <3>1. CameFrom(a, b)
      BY <1>1, <1>14, <2>2 DEF Inv, TypeInv, FromInv
    <3>2. b # "new"
      BY <1>2, <3>1 DEF CameFrom
    <3>3. UNCHANGED <<place[a], Rows(a), Holds(a), place[b], Rows(b), Holds(b), manifest>>
      BY <1>1, <1>10, <2>2, <3>2
    <3> QED
      BY <3>1, <3>3 DEF CameFrom
  <2> QED
    BY <2>1, <2>2
<1>15. FromInv'
  BY <1>14 DEF FromInv
<1> QED
  BY <1>6, <1>8, <1>9, <1>13, <1>15 DEF Inv

LEMMA MigratePostgresKeeps ==
  ASSUME Inv, MigratePostgres
  PROVE  Inv'
<1>1. /\ UNCHANGED <<calls, handle, copy, drop, mig, used>>
      /\ from' = [from EXCEPT !["pg"] = "pgold"]
      /\ manifest' = [k \in {"statement", "entry"} |-> manifest[k] \cup {"pgold"}]
      /\ Holds("pgold") /\ ~Holds("pg")
  BY DEF MigratePostgres, RecordedPostgres, ToDoPostgres
<1>2. "pg" \in Places /\ "pgold" \in Places /\ "pg" \notin Sqlite /\ "pgold" \notin Sqlite
  BY DEF Places, Sqlite
<1>3. place["pgold"] \in PlaceState /\ Rows("pgold") \in Seq(Row) /\ Rows("pg") = <<>>
  BY <1>1, <1>2, PlaceAt
<1> DEFINE O == [place["pgold"] EXCEPT !.sealed = TRUE]
           P == [Absent EXCEPT !.there = TRUE, !.rows = Rows("pgold")]
<1>4. /\ O \in PlaceState /\ O.rows = Rows("pgold") /\ O.there = place["pgold"].there /\ O.sealed
      /\ O.mid = place["pgold"].mid
  BY <1>3 DEF PlaceState, Rows
<1>5. P \in PlaceState /\ P.rows = Rows("pgold") /\ P.there
  BY <1>3 DEF PlaceState, Absent
<1>6. place' = [place EXCEPT !["pgold"] = O, !["pg"] = P]
  BY DEF MigratePostgres
<1> HIDE DEF O, P
<1>7. \A q \in Places : place'[q] = IF q = "pg" THEN P ELSE IF q = "pgold" THEN O ELSE place[q]
  BY <1>6 DEF Inv, TypeInv
<1>8. TypeInv'
  BY <1>1, <1>2, <1>4, <1>5, <1>6 DEF Inv, TypeInv
<1>9. SealsInv'
  <2>1. SealsInv /\ Sqlite \subseteq Places
    BY AddressesAre DEF Inv
  <2>2. \A q \in Places : place'[q].sealed \/ place'[q].mid \/ place'[q].rows # <<>> => place'[q].there
    BY <1>1, <1>4, <1>5, <1>7, <2>1 DEF SealsInv, Rows, Holds
  <2>3. \A q \in Sqlite : place'[q] = place[q]
    BY <1>2, <1>7, <2>1
  <2> QED
    BY <1>1, <2>1, <2>2, <2>3 DEF SealsInv, Rows, Holds
<1>10. \A q \in Places : q \notin {"pg", "pgold"} => UNCHANGED <<place[q], Rows(q), Holds(q)>>
  BY <1>7 DEF Rows, Holds
<1>11. UNCHANGED <<place["old"], Rows("old"), Holds("old"), place["new"], Rows("new"),
                   Holds("new"), place["snap"], Rows("snap"), Holds("snap")>>
  BY <1>10, AddressesAre
<1>12. CallsInv'
  BY <1>1 DEF Inv, CallsInv
<1>13. MigInv'
  BY <1>1, <1>11 DEF Inv, TypeInv, MigInv
<1>14. ASSUME NEW c \in Routes, NEW s \in CopyState, s = copy[c]
       PROVE  CopyOk(c, s)'
  <2>1. CopyOk(c, s)
    BY <1>14, CopyAt
  <2>2. s.src # "pg"
    <3>1. SUFFICES ASSUME s.src = "pg" PROVE FALSE
      OBVIOUS
    <3>2. s.rows # <<>> /\ IsPrefix(s.rows, Rows("pg"))
      BY <2>1, <3>1 DEF CopyOk, SourceOk
    <3>3. s.rows \in Seq(Row)
      BY DEF CopyState
    <3> QED
      BY <1>3, <3>2, <3>3, PrefixOfNone
  <2>3. SourceOk(c, s)'
    BY <1>11, <2>1, <2>2, RoutesAre DEF CopyOk, SourceOk
  <2>4. c = "move" => MoveOk(s)'
    BY <1>1, <1>11, <2>1 DEF CopyOk, MoveOk
  <2>5. c # "move" => Destination[c] \in {"new", "snap"}
    BY RoutesAre
  <2>6. c # "move" => ReplaceOk(Destination[c], s)'
    <3>1. ASSUME NEW d \in {"new", "snap"}, ReplaceOk(d, s)
          PROVE  ReplaceOk(d, s)'
      BY <1>1, <1>11, <3>1 DEF ReplaceOk
    <3>2. PICK d \in {"new", "snap", "pg"} : d = Destination[c]
      BY RoutesAre
    <3>3. c # "move" => ReplaceOk(d, s)'
      BY <2>1, <2>5, <3>1, <3>2 DEF CopyOk
    <3> QED
      BY <3>2, <3>3
  <2> QED
    BY <2>3, <2>4, <2>6 DEF CopyOk
<1>15. CopiesInv'
  BY <1>1, <1>14, CopyAt DEF CopiesInv
<1>16. ASSUME NEW a \in Places, NEW b \in Places, from'[a] = b
       PROVE  CameFrom(a, b)'
  <2>1. CASE a = "pg"
    <3>1. b = "pgold"
      BY <1>1, <1>2, <1>16, <2>1 DEF Inv, TypeInv
    <3>2. IsPrefix(Rows("pgold"), Rows("pgold"))
      BY <1>3, PrefixSame
    <3>3. /\ Holds("pg")' /\ Holds("pgold")' /\ Rows("pg")' = Rows("pgold") /\ place'["pgold"].sealed
          /\ Rows("pgold")' = Rows("pgold")
      BY <1>1, <1>2, <1>4, <1>5, <1>7 DEF Rows, Holds
    <3>4. "pgold" \in manifest'["statement"] /\ "pgold" \in manifest'["entry"]
      BY <1>1
    <3> QED
      BY <2>1, <3>1, <3>2, <3>3, <3>4 DEF CameFrom
  <2>2. CASE a # "pg"
    <3>1. CameFrom(a, b)
      BY <1>1, <1>16, <2>2 DEF Inv, TypeInv, FromInv
    <3>2. b \notin {"pg", "pgold"} /\ a \notin {"pg", "pgold"}
      BY <1>1, <2>2, <3>1 DEF CameFrom
    <3>3. UNCHANGED <<place[a], Rows(a), Holds(a), place[b], Rows(b), Holds(b)>>
      BY <1>10, <3>2
    <3>4. b \in manifest["statement"] /\ b \in manifest["entry"] =>
            b \in manifest'["statement"] /\ b \in manifest'["entry"]
      BY <1>1
    <3> QED
      BY <3>1, <3>3, <3>4 DEF CameFrom
  <2> QED
    BY <2>1, <2>2
<1>17. FromInv'
  BY <1>16 DEF FromInv
<1> QED
  BY <1>8, <1>9, <1>12, <1>13, <1>15, <1>17 DEF Inv

-----------------------------------------------------------------------------
(* The invariant, over every step. *)

LEMMA InitInv ==
  ASSUME Orderly, Init
  PROVE  Inv
<1> DEFINE none == <<>>
           A == [there |-> FALSE, rows |-> none, sealed |-> FALSE, mid |-> FALSE]
           B == [A EXCEPT !.there = TRUE, !.rows = Born]
<1>1. none \in Seq(Row) /\ Born \in Seq(Row)
  BY DEF Born, Row
<1>2. A \in PlaceState /\ A.rows = <<>> /\ ~A.sealed /\ ~A.mid /\ ~A.there
  BY <1>1 DEF PlaceState
<1> HIDE DEF none
<1>3. B \in PlaceState /\ ~B.sealed /\ ~B.mid /\ B.there
  BY <1>1, <1>2 DEF PlaceState
<1> HIDE DEF B
<1>4. PICK home \in Homes : place = [p \in Places |-> IF p = home THEN B ELSE A]
  <2>1. Absent = A
    BY Zenon DEF Absent, none
  <2> HIDE DEF A
  <2> QED
    BY <2>1 DEF Init, B
<1> HIDE DEF A
<1>5. \A p \in Places : place[p] = B \/ place[p] = A
  BY <1>4
<1>6. place \in [Places -> PlaceState]
  BY <1>2, <1>3, <1>4
<1>7. /\ handle = [w \in Writers |-> [at |-> "none", readonly |-> FALSE, lost |-> FALSE]]
      /\ copy = [c \in Routes |-> Idle] /\ drop = "idle" /\ mig = MigIdle
      /\ manifest = [k \in {"statement", "entry"} |-> {}]
      /\ from = [p \in Places |-> "none"] /\ used = 2 /\ calls \in Calls
  BY DEF Init
<1>8. MigIdle \in MigState /\ MigIdle.at = "idle"
  BY DEF MigIdle, MigState
<1>9. handle \in [Writers -> HandleState] /\ \A w \in Writers : handle[w].at \notin Sqlite
  BY <1>7 DEF HandleState, Sqlite
<1>10. copy \in [Routes -> CopyState] /\ \A c \in Routes : copy[c] = Idle
  BY <1>7, IdleOk
<1>11. TypeInv
  BY <1>6, <1>7, <1>8, <1>9, <1>10 DEF TypeInv
<1>12. CallsInv
  BY <1>7, <1>8, <1>10, IdleOk DEF Orderly, TwoAtATime, CallsInv
<1>13. SealsInv
  BY <1>2, <1>3, <1>5, <1>9 DEF SealsInv, Rows, Holds
<1>14. CopiesInv
  BY <1>10, IdleOk DEF CopiesInv
<1>15. MigInv
  BY <1>7, <1>8 DEF MigInv
<1>16. FromInv
  BY <1>7 DEF FromInv, Places
<1> QED
  BY <1>11, <1>12, <1>13, <1>14, <1>15, <1>16 DEF Inv

LEMMA StutterKeeps ==
  ASSUME Inv, UNCHANGED vars
  PROVE  Inv'
<1>1. UNCHANGED <<calls, place, handle, copy, drop, mig, manifest, from, used>>
  BY DEF vars
<1>2. TypeInv' /\ CallsInv' /\ SealsInv'
  BY <1>1 DEF Inv, TypeInv, CallsInv, SealsInv, Rows, Holds
<1>3. CopiesInv'
  BY <1>1 DEF Inv, CopiesInv, CopyOk, SourceOk, MoveOk, ReplaceOk, Rows, Holds
<1>4. MigInv' /\ FromInv'
  BY <1>1 DEF Inv, MigInv, FromInv, CameFrom, Rows, Holds
<1> QED
  BY <1>2, <1>3, <1>4 DEF Inv

LEMMA NextInv ==
  ASSUME Orderly, Inv, [Next]_vars
  PROVE  Inv'
<1>1. ASSUME NEW w \in Writers, Close(w) \/ Send(w) \/ \E p \in Places : Open(w, p)
      PROVE  Inv'
  BY <1>1, CloseKeeps, SendKeeps, OpenKeeps
<1>2. ASSUME NEW c \in Routes, CopyStep(c) \/ CopyCrashes(c)
      PROVE  Inv'
  BY <1>2, ExportKeeps, CopySealsKeeps, CopyClearsKeeps, RereadKeeps, CheckDestinationKeeps,
     ImportKeeps, CopyCrashesKeeps DEF CopyStep
<1>3. CASE DropReads \/ DropUnlinks \/ DropPostgres
  BY <1>3, DropReadsKeeps, DropUnlinksKeeps, DropPostgresKeeps
<1>4. CASE MigStep
  BY <1>4, DetectKeeps, DryRunKeeps, MigSealsKeeps, MigClearsKeeps, MigTransformsKeeps,
     ManifestKeeps, PublishKeeps DEF MigStep
<1>5. CASE MigCrashes \/ MigratePostgres
  BY <1>5, MigCrashesKeeps, MigratePostgresKeeps
<1>6. CASE UNCHANGED vars
  BY <1>6, StutterKeeps
<1> QED
  BY <1>1, <1>2, <1>3, <1>4, <1>5, <1>6 DEF Next

(* Whatever is copied, dropped, migrated, appended or killed, the storage  *)
(* keeps its inductive invariant.                                          *)
THEOREM StorageKept ==
  ASSUME Orderly
  PROVE  Spec => []Inv
<1>1. Init => Inv
  BY InitInv
<1>2. Inv /\ [Next]_vars => Inv'
  BY NextInv
<1> QED
  BY <1>1, <1>2, PTL DEF Spec

-----------------------------------------------------------------------------
(* What the runs check. *)

LEMMA InvMovedWhole ==
  ASSUME Inv
  PROVE  MovedWhole
<1>1. SUFFICES ASSUME NEW p \in {"new", "pg"}, from[p] # "none"
               PROVE  /\ IsPrefix(Rows(from[p]), Rows(p))
                      /\ place[from[p]].sealed
                      /\ from[p] \in {"old", "pgold"} =>
                           from[p] \in manifest.statement \cap manifest.entry
  BY DEF MovedWhole
<1>2. PICK q \in Places : from[p] = q
  BY <1>1, AddressesAre DEF Inv, TypeInv
<1>3. CameFrom(p, q)
  BY <1>2, AddressesAre DEF Inv, FromInv
<1> QED
  BY <1>2, <1>3 DEF CameFrom

(* In WAL mode, with at most two administrators' calls at a time, and if   *)
(* no channel is opened and no log dropped between a seal's two steps and  *)
(* no run born under a copy that publishes (Quiet), a log that moved is    *)
(* whole where it went, whatever the channels open before the seal append  *)
(* until then, whoever crashed, and however long the log is.               *)
THEOREM MovesWhole ==
  ASSUME Journal = "wal", Quiet, TwoAtATime
  PROVE  Spec => []MovedWhole
<1>0. Orderly
  BY DEF Orderly
<1>1. Inv => MovedWhole
  BY InvMovedWhole
<1> QED
  BY <1>1, <1>0, StorageKept, PTL

LEMMA InvSnapshotIsLog ==
  ASSUME Inv
  PROVE  SnapshotIsLog
<1>1. SUFFICES ASSUME from["snap"] # "none"
               PROVE  /\ place["snap"].sealed /\ ~Live(Rows("snap"))
                      /\ IsPrefix(Rows("snap"), Rows(from["snap"]))
  BY DEF SnapshotIsLog
<1>2. PICK q \in Places : from["snap"] = q
  BY <1>1, AddressesAre DEF Inv, TypeInv
<1>3. CameFrom("snap", q)
  BY <1>2, AddressesAre DEF Inv, FromInv
<1> QED
  BY <1>2, <1>3 DEF CameFrom

(* Marking a file writes no row. *)
LEMMA MarkingKeepsRows ==
  ASSUME Inv, NEW q \in Places, NEW p \in Places,
         \/ LeaveWal(q) \/ ClearWriteBits(q) \/ Crashed(q)
         \/ place' = [place EXCEPT ![q].there = @ \/ q \in Sqlite]
  PROVE  place'[p].rows = place[p].rows
<1>1. place[q] \in PlaceState
  BY PlaceAt
<1>2. PICK P : place' = [place EXCEPT ![q] = P] /\ P.rows = place[q].rows
  <2> DEFINE A == [place[q] EXCEPT !.mid = TRUE, !.there = TRUE]
             B == [place[q] EXCEPT !.mid = FALSE, !.sealed = TRUE]
             C == [place[q] EXCEPT !.mid = FALSE]
             D == [place[q] EXCEPT !.there = place[q].there \/ q \in Sqlite]
  <2>1. /\ A.rows = place[q].rows /\ B.rows = place[q].rows
        /\ C.rows = place[q].rows /\ D.rows = place[q].rows
    BY <1>1 DEF PlaceState
  <2>2. \/ place' = [place EXCEPT ![q] = A] \/ place' = [place EXCEPT ![q] = B]
        \/ place' = [place EXCEPT ![q] = C] \/ place' = [place EXCEPT ![q] = D]
    BY DEF LeaveWal, ClearWriteBits, Crashed
  <2> QED
    BY <2>1, <2>2
<1> QED
  BY <1>2 DEF Inv, TypeInv

LEMMA SealedGrows ==
  ASSUME Orderly, Inv, [Next]_vars, NEW p \in Sqlite, place[p].sealed, place'[p].there
  PROVE  IsPrefix(place[p].rows, place'[p].rows)
<1>1. p \in Places /\ place[p].rows \in Seq(Row) /\ place[p].there
  BY AddressesAre, PlaceAt DEF PlaceState, Holds
<1>2. CASE place'[p].rows = place[p].rows
  BY <1>1, <1>2, PrefixSame
<1>3. ASSUME NEW w \in Writers, Send(w)
      PROVE  IsPrefix(place[p].rows, place'[p].rows)
  <2>1. handle[w] \in HandleState /\ handle[w].at # "none"
    BY <1>3 DEF Inv, TypeInv, Send
  <2>2. PICK q \in Places : q = handle[w].at
    BY <2>1 DEF HandleState
  <2>3. q # p
    BY <1>3, <2>2 DEF Send, Inv, SealsInv
  <2>4. PICK P : place' = [place EXCEPT ![q] = P]
    BY <1>3, <2>2 DEF Send
  <2>5. place'[p].rows = place[p].rows
    BY <1>1, <2>3, <2>4 DEF Inv, TypeInv
  <2> QED
    BY <1>2, <2>5
<1>4. ASSUME NEW c \in Routes, Import(c)
      PROVE  IsPrefix(place[p].rows, place'[p].rows)
  <2>1. copy[c] \in CopyState /\ CopyOk(c, copy[c]) /\ copy[c].at = "write"
    BY <1>4, CopyAt DEF Import, Copying
  <2>2. CASE UNCHANGED place
    BY <1>2, <2>2
  <2>3. CASE Published(Destination[c], copy[c].rows, Destination[c] # "pg")
    <3>1. PICK q \in {"new", "snap", "pg"} : q = Destination[c] /\ (q = "pg" <=> c = "move")
      BY RoutesAre
    <3>2. PICK P : place' = [place EXCEPT ![q] = P] /\ P.rows = copy[c].rows
      <4>1. PICK R \in Seq(Row), b \in BOOLEAN : R = copy[c].rows /\ b = (q # "pg")
        BY <2>1 DEF CopyState
      <4> DEFINE P == [there |-> TRUE, rows |-> R, sealed |-> b, mid |-> FALSE]
      <4>2. place' = [place EXCEPT ![q] = P]
        BY <2>3, <3>1, <4>1, Zenon DEF Published
      <4>3. P.rows = R
        OBVIOUS
      <4> HIDE DEF P
      <4> QED
        BY <4>1, <4>2, <4>3
    <3>3. place'[p] = IF p = q THEN P ELSE place[p]
      BY <1>1, <3>2 DEF Inv, TypeInv
    <3>4. p = q => IsPrefix(place[p].rows, copy[c].rows)
      BY <1>1, <2>1, <3>1, AddressesAre DEF CopyOk, ReplaceOk, Rows, Holds, Sqlite
    <3> QED
      BY <1>2, <3>2, <3>3, <3>4
  <2> QED
    BY <1>4, <2>2, <2>3 DEF Import
<1>5. CASE Publish
  <2>1. ~place["new"].sealed
    BY <1>5, PlaceAt, AddressesAre DEF Publish, Migrating, Inv, MigInv
  <2>2. PICK P : place' = [place EXCEPT !["new"] = P]
    BY <1>5 DEF Publish, Published
  <2>3. place'[p] = place[p]
    BY <1>1, <2>1, <2>2 DEF Inv, TypeInv
  <2> QED
    BY <1>2, <2>3
<1>6. ASSUME NEW q \in {"new", "pg"}, Dropped(q)
      PROVE  IsPrefix(place[p].rows, place'[p].rows)
  <2>1. place' = [place EXCEPT ![q] = Absent] /\ ~Absent.there
    BY <1>6 DEF Dropped, Absent
  <2>2. p # q /\ place'[p] = place[p]
    BY <1>1, <2>1 DEF Inv, TypeInv
  <2> QED
    BY <1>2, <2>2
<1>7. CASE MigratePostgres
  <2>1. PICK O, P : place' = [place EXCEPT !["pgold"] = O, !["pg"] = P]
    BY <1>7 DEF MigratePostgres
  <2>2. p # "pgold" /\ p # "pg"
    BY DEF Sqlite
  <2>3. place'[p] = place[p]
    BY <1>1, <2>1, <2>2 DEF Inv, TypeInv
  <2> QED
    BY <1>2, <2>3
<1>8. ASSUME NEW q \in Places,
             \/ LeaveWal(q) \/ ClearWriteBits(q) \/ Crashed(q)
             \/ place' = [place EXCEPT ![q].there = @ \/ q \in Sqlite]
      PROVE  IsPrefix(place[p].rows, place'[p].rows)
  BY <1>1, <1>2, <1>8, MarkingKeepsRows
<1>9. CASE UNCHANGED place
  BY <1>2, <1>9
<1>10. ASSUME NEW w \in Writers, Close(w) \/ Send(w) \/ \E q \in Places : Open(w, q)
       PROVE  IsPrefix(place[p].rows, place'[p].rows)
  BY <1>3, <1>8, <1>9, <1>10 DEF Close, Open
<1>11. ASSUME NEW c \in Routes, CopyStep(c) \/ CopyCrashes(c)
       PROVE  IsPrefix(place[p].rows, place'[p].rows)
  <2>1. Source[c] \in Places
    BY RoutesAre, AddressesAre
  <2> QED
    BY <1>4, <1>8, <1>9, <1>11, <2>1
       DEF CopyStep, Export, CopySeals, CopyClears, Reread, CheckDestination, CopyCrashes
<1>12. CASE DropReads \/ DropUnlinks \/ DropPostgres
  BY <1>6, <1>9, <1>12 DEF DropReads, DropUnlinks, DropPostgres
<1>13. CASE MigStep \/ MigCrashes
  BY <1>5, <1>8, <1>9, <1>13, AddressesAre
     DEF MigStep, Detect, DryRun, MigSeals, MigClears, MigTransforms, AppendStatement,
         AppendEntry, MigCrashes
<1>14. CASE UNCHANGED vars
  BY <1>9, <1>14 DEF vars
<1> QED
  BY <1>7, <1>10, <1>11, <1>12, <1>13, <1>14 DEF Next

(* Under the same three hypotheses a snapshot is the log as it was at the  *)
(* end of a claim, and a sealed file gives way only to rows that extend    *)
(* its own, for every order in which the copies, the drop and the          *)
(* migration take their steps.  A run born where a copy has found none is  *)
(* what Quiet rules out: the copy would replace its log (copy.py:330).     *)
THEOREM SnapshotsKept ==
  ASSUME Journal = "wal", Quiet, TwoAtATime
  PROVE  Spec => SnapshotsHonest
<1>0. Orderly
  BY DEF Orderly
<1>1. Inv => SnapshotIsLog
  BY InvSnapshotIsLog
<1>2. Inv /\ [Next]_vars =>
        [\A p \in Sqlite : place[p].sealed /\ place'[p].there
           => IsPrefix(place[p].rows, place'[p].rows)]_vars
  BY <1>0, SealedGrows
<1> QED
  BY <1>1, <1>2, <1>0, StorageKept, PTL DEF Spec, SnapshotsHonest

LEMMA StepSealedTakesNothing ==
  ASSUME Inv, Next, used' # used, NEW p \in Places, place[p].sealed
  PROVE  place'[p] = place[p]
<1>1. \E w \in Writers : Send(w)
  BY DEF Next, Close, Open, CopyStep, CopyCrashes, Export, CopySeals, CopyClears, Reread,
     CheckDestination, Import, DropReads, DropUnlinks, DropPostgres, MigStep, MigCrashes,
     MigratePostgres, Detect, DryRun, MigSeals, MigClears, MigTransforms, AppendStatement,
     AppendEntry, Publish
<1>2. PICK w \in Writers : Send(w)
  BY <1>1
<1>3. handle[w] \in HandleState /\ handle[w].at # "none"
  BY <1>2 DEF Inv, TypeInv, Send
<1>4. PICK q \in Places : q = handle[w].at
  BY <1>3 DEF HandleState
<1>5. q # p
  BY <1>2, <1>4 DEF Send, InsertRefused, Inv, SealsInv
<1>6. PICK P : place' = [place EXCEPT ![q] = P]
  BY <1>2, <1>4 DEF Send
<1> QED
  BY <1>5, <1>6 DEF Inv, TypeInv

(* Under the same three hypotheses a sealed log takes no append: in WAL    *)
(* mode the seal waits until no channel is open on the file, and every     *)
(* channel opened after its second step is read-only.  One opened between  *)
(* the two steps, which Quiet rules out, is not; nor, in rollback mode, is *)
(* one opened before the first (the run seal_open).                        *)
THEOREM WalSealsHold ==
  ASSUME Journal = "wal", Quiet, TwoAtATime
  PROVE  Spec => SealedTakesNothing
<1>0. Orderly
  BY DEF Orderly
<1>1. Inv /\ [Next]_vars =>
        [used' # used => \A p \in Places : place[p].sealed => place'[p] = place[p]]_vars
  BY StepSealedTakesNothing DEF vars
<1> QED
  BY <1>1, <1>0, StorageKept, PTL DEF Spec, SealedTakesNothing
=============================================================================
