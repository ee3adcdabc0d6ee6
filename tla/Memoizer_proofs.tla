-------------------------- MODULE Memoizer_proofs --------------------------
(***************************************************************************)
(* Proofs about module Memoizer, for any number of callers, launches and   *)
(* foreign workers: what ensure raises of its drive is so, and every       *)
(* checkpoint holds the state of the node that names it.                   *)
(***************************************************************************)
EXTENDS Memoizer, RunLog_proofs, FiniteSetTheorems

-----------------------------------------------------------------------------
(* The types.  What a caller remembers of the head is not restricted: it   *)
(* is compared with what the caller reads next, and no more.               *)

Outcome == {"completed", "preempted", "errored"}

WorkerState ==
  [at : {"none", "boot", "live", "inside", "bind", "bind exit", "dead"},
   claim : Nat, position : Nat, work : Nat]

Results == {"none", "Reached", "Unreachable", "RunFailed", "NoProgress", "Recordless"}

DriveState(Seen) ==
  [at : {"first", "extend", "alive", "report", "read", "held", "done"},
   launch : Launches \cup {NoId}, handle : {"own", "wrapping", "ended"},
   alive : BOOLEAN, reaped : BOOLEAN, w : Nat,
   node : Seen, commits : Seen, recordless : Seen, result : Results]

DriveTypes == \E Seen : drive \in [Ensurers -> DriveState(Seen)]

TypeInv ==
  /\ log \in Seq(Fields)
  /\ worker \in [Launches \cup Foreign -> WorkerState]
  /\ store \subseteq [node : Nat, work : Nat]
  /\ DriveTypes

-----------------------------------------------------------------------------
(* The inductive invariant. *)

(* Nothing runs for launch l any more. *)
Over(l) == l = NoId \/ ~Alive(l)

AllEnded(l) == \A c \in ClaimsOf(l) : Ended(c)

(* A launch claims once, and only after it was booted. *)
LaunchInv ==
  \A l \in Launches :
    /\ worker[l].at \in {"none", "boot"} => ClaimsOf(l) = {}
    /\ \A c, d \in ClaimsOf(l) : c = d

(* What drive d knows of its launch when the log ends at n, of which over  *)
(* says that it is Over, own is its claims, and ended says that they have  *)
(* ended: its own process that was read dead stays dead, and the claims of *)
(* a launch that had none at d.w come after it.                            *)
DriveOk(d, over, own, ended, n) ==
  /\ d.w <= n
  /\ d.at \in {"report", "read", "held"} /\ d.handle = "own" /\ ~d.alive => over
  /\ d.at = "held" /\ d.handle = "own" /\ ~d.alive => own = {}
  /\ d.at = "held" \/ d.result = "Recordless" => \A c \in own : c > d.w
  /\ d.result = "Recordless" /\ d.handle = "own" => over /\ own = {}
  /\ d.result \in {"NoProgress", "RunFailed"} => own # {} /\ ended

DriveInv ==
  \A e \in Ensurers :
    LET l == drive[e].launch
    IN  DriveOk(drive[e], Over(l), ClaimsOf(l), AllEnded(l), W)

Inv == TypeInv /\ LaunchInv /\ DriveInv

-----------------------------------------------------------------------------
(* What a record changes. *)

LEMMA Wrote ==
  ASSUME log \in Seq(Fields), NEW r \in Fields, Appended(r)
  PROVE  /\ log' \in Seq(Fields)
         /\ W \in Nat /\ W' = W + 1 /\ log'[W + 1] = r
         /\ \A i \in 1..W : log'[i] = log[i]
BY DEF Appended, W

LEMMA RidsWrote ==
  ASSUME log \in Seq(Fields), NEW r \in Fields, Appended(r), NEW l
  PROVE  /\ Claims(log, W)' = Claims(log, W) \cup
              (IF r.topic = "started" THEN {W + 1} ELSE {})
         /\ ClaimsOf(l)' = ClaimsOf(l) \cup
              (IF r.topic = "started" /\ r.rid = l /\ l # NoId THEN {W + 1} ELSE {})
<1>1. /\ W \in Nat /\ W' = W + 1 /\ log'[W + 1] = r
      /\ \A i \in 1..W : log'[i] = log[i]
  BY Wrote
<1>2. 1..(W + 1) = (1..W) \cup {W + 1} /\ (W + 1) \notin 1..W
  BY <1>1
<1>3. Claims(log, W)' = {i \in 1..(W + 1) : log'[i].topic = "started"}
  BY <1>1 DEF Claims
<1>4. Claims(log, W) = {i \in 1..W : log[i].topic = "started"}
  BY DEF Claims
<1>5. Claims(log, W)' = Claims(log, W) \cup
        (IF r.topic = "started" THEN {W + 1} ELSE {})
  BY <1>1, <1>2, <1>3, <1>4
<1>6. \A c \in Claims(log, W) : log'[c] = log[c]
  BY <1>1, <1>4
<1>7. ClaimsOf(l)' = {c \in Claims(log, W)' : log'[c].rid = l /\ l # NoId}
  BY DEF ClaimsOf
<1> QED
  BY <1>1, <1>5, <1>6, <1>7 DEF ClaimsOf

LEMMA EndedStays ==
  ASSUME log \in Seq(Fields), NEW r \in Fields, Appended(r), NEW c \in Nat, Ended(c)
  PROVE  Ended(c)'
<1>1. /\ W \in Nat /\ W' = W + 1
      /\ \A i \in 1..W : log'[i] = log[i]
  BY Wrote
<1>2. PICK i \in (c + 1)..W : log[i].topic \in {"stopped", "died"} /\ log[i].claim = c
  BY DEF Ended, Endings
<1>3. i \in 1..W /\ i \in (c + 1)..(W + 1)
  BY <1>1
<1>4. i \in Endings(log, c, W)'
  BY <1>1, <1>2, <1>3 DEF Endings
<1> QED
  BY <1>4 DEF Ended

LEMMA ClaimsType ==
  ASSUME log \in Seq(Fields), NEW l
  PROVE  W \in Nat /\ ClaimsOf(l) \subseteq Nat
BY DEF ClaimsOf, Claims, W

(* A step writes nothing, or what is no claim. *)
Unclaimed == UNCHANGED log \/ \E r \in Fields : r.topic # "started" /\ Appended(r)

LEMMA UnclaimedReads ==
  ASSUME log \in Seq(Fields), Unclaimed
  PROVE  /\ log' \in Seq(Fields)
         /\ Claims(log, W)' = Claims(log, W)
         /\ \A l : ClaimsOf(l)' = ClaimsOf(l)
         /\ \A c \in Nat : Ended(c) => Ended(c)'
         /\ W \in Nat /\ W' \in Nat /\ W' >= W
<1>1. CASE UNCHANGED log
  BY <1>1 DEF Claims, ClaimsOf, W, Ended, Endings
<1>2. CASE \E r \in Fields : r.topic # "started" /\ Appended(r)
  <2>1. PICK r \in Fields : r.topic # "started" /\ Appended(r)
    BY <1>2
  <2>2. /\ log' \in Seq(Fields) /\ \A c \in Nat : Ended(c) => Ended(c)'
        /\ W \in Nat /\ W' = W + 1
    BY <2>1, Wrote, EndedStays
  <2>3. ASSUME NEW l
        PROVE  /\ Claims(log, W)' = Claims(log, W)
               /\ ClaimsOf(l)' = ClaimsOf(l)
    <3>1. /\ Claims(log, W)' = Claims(log, W) \cup
               (IF r.topic = "started" THEN {W + 1} ELSE {})
          /\ ClaimsOf(l)' = ClaimsOf(l) \cup
               (IF r.topic = "started" /\ r.rid = l /\ l # NoId THEN {W + 1} ELSE {})
      BY <2>1, RidsWrote, Zenon
    <3> QED
      BY <2>1, <3>1
  <2>4. Claims(log, W)' = Claims(log, W) /\ \A l : ClaimsOf(l)' = ClaimsOf(l)
    BY <2>3
  <2> QED
    BY <2>2, <2>4
<1> QED
  BY <1>1, <1>2 DEF Unclaimed

-----------------------------------------------------------------------------
(* What a drive knows of its launch stays so under the steps of others. *)

Stays(l) ==
  /\ Over(l) => Over(l)' /\ ClaimsOf(l)' = ClaimsOf(l)
  /\ ClaimsOf(l) # {} => ClaimsOf(l)' = ClaimsOf(l)
  /\ AllEnded(l) /\ ClaimsOf(l) # {} => AllEnded(l)'
  /\ W \in Nat /\ W' \in Nat /\ W' >= W
  /\ \A c \in ClaimsOf(l)' : c \in Nat /\ (c \in ClaimsOf(l) \/ c > W)

LEMMA DriveOkStays ==
  ASSUME NEW d, d.w \in Nat, NEW o, NEW S, NEW x, NEW n \in Nat, NEW o2, NEW S2, NEW x2,
         NEW n2 \in Nat, DriveOk(d, o, S, x, n), n2 >= n, o => o2 /\ S2 = S,
         S # {} => S2 = S, x /\ S # {} => x2,
         \A c \in S2 : c \in Nat /\ (c \in S \/ c > n)
  PROVE  DriveOk(d, o2, S2, x2, n2)
<1> DEFINE h == d.at = "held" \/ d.result = "Recordless"
<1>1. h => \A c \in S2 : c > d.w
  BY DEF DriveOk
<1> QED
  BY <1>1 DEF DriveOk

LEMMA DriveStays ==
  ASSUME Inv, NEW e \in Ensurers, UNCHANGED drive[e],
         NEW l, l = drive[e].launch, Stays(l)
  PROVE  DriveOk(drive[e], Over(drive[e].launch), ClaimsOf(drive[e].launch),
                 AllEnded(drive[e].launch), W)'
<1>1. DriveOk(drive[e], Over(l), ClaimsOf(l), AllEnded(l), W)
  BY DEF Inv, DriveInv
<1>2. drive[e].w \in Nat
  BY DEF Inv, TypeInv, DriveTypes, DriveState
<1>3. DriveOk(drive[e], Over(l)', ClaimsOf(l)', AllEnded(l)', W')
  BY <1>1, <1>2, DriveOkStays DEF Stays
<1>4. DriveOk(drive'[e], Over(l)', ClaimsOf(l)', AllEnded(l)', W')
  BY <1>3
<1>5. drive'[e].launch = l
  OBVIOUS
<1> QED
  BY <1>4, <1>5

-----------------------------------------------------------------------------
(* The workers' steps. *)

LEMMA BlankType == Blank \in Fields
BY DEF Blank, Fields, Topics, Bodies, ControlTopics

(* A step of worker p: it was booted and does not boot again. *)
Works(p) ==
  /\ UNCHANGED drive
  /\ Alive(p)
  /\ \E Q \in WorkerState : /\ Q.at \notin {"none", "boot"}
                            /\ worker' = [worker EXCEPT ![p] = Q]
  /\ store' \subseteq [node : Nat, work : Nat]

LEMMA ClaimWorks ==
  ASSUME TypeInv, NEW p \in Launches \cup Foreign, Claim(p)
  PROVE  /\ Works(p) /\ worker[p].at = "boot"
         /\ \E r \in Fields : /\ r.topic = "started" /\ Appended(r)
                              /\ r.rid = (IF p \in Launches THEN p ELSE NoId)
<1>1. PICK c \in {[node |-> 0, work |-> 0]}
            \cup OnHeadLineage(log, store, W, HeadNode) \cup MostProgress(log, store, W) :
       /\ Appended([Blank EXCEPT !.topic = "started", !.ref = c.node,
                                 !.rid = IF p \in Launches THEN p ELSE NoId])
       /\ worker' = [worker EXCEPT ![p] =
            [at |-> "live", claim |-> W + 1, position |-> c.node, work |-> c.work]]
  BY DEF Claim
<1>2. c \in [node : Nat, work : Nat]
  BY DEF TypeInv, OnHeadLineage, MostProgress, Complete
<1> DEFINE rid == IF p \in Launches THEN p ELSE NoId
           r == [Blank EXCEPT !.topic = "started", !.ref = c.node, !.rid = rid]
           Q == [at |-> "live", claim |-> W + 1, position |-> c.node, work |-> c.work]
<1>3. rid \in RequestIds \cup {NoId}
  BY DEF Launches
<1> HIDE DEF rid
<1>4. r \in Fields /\ r.topic = "started" /\ r.rid = rid
  BY <1>2, <1>3, BlankType DEF Fields, Topics
<1>5. W + 1 \in Nat
  BY DEF W, TypeInv
<1>6. Q \in WorkerState /\ Q.at = "live"
  BY <1>2, <1>5 DEF WorkerState
<1>7. Appended(r) /\ worker' = [worker EXCEPT ![p] = Q]
  BY <1>1 DEF rid
<1>8. worker[p].at = "boot" /\ UNCHANGED <<store, drive>>
  BY DEF Claim
<1> HIDE DEF r, Q
<1>9. Works(p)
  BY <1>6, <1>7, <1>8 DEF Works, Alive, TypeInv
<1> QED
  BY <1>4, <1>7, <1>8, <1>9 DEF rid

LEMMA WorkerAt ==
  ASSUME TypeInv, NEW p \in Launches \cup Foreign
  PROVE  worker[p] \in WorkerState
BY DEF TypeInv

LEMMA GoneIs ==
  ASSUME TypeInv, NEW p \in Launches \cup Foreign
  PROVE  Gone(p) \in WorkerState /\ Gone(p).at = "dead"
<1>1. worker[p].claim \in Nat
  BY WorkerAt DEF WorkerState
<1> DEFINE c == worker[p].claim
<1> HIDE DEF c
<1>2. c \in Nat => LET Q == [Booting EXCEPT !.at = "dead", !.claim = c]
                    IN  Q \in WorkerState /\ Q.at = "dead"
  BY DEF Booting, WorkerState
<1> QED
  BY <1>1, <1>2 DEF Gone, c

LEMMA IterateWorks ==
  ASSUME TypeInv, NEW p \in Launches \cup Foreign, Iterate(p)
  PROVE  Works(p) /\ Unclaimed
<1> DEFINE s == worker[p]
           work == s.work + 1
           Q == [s EXCEPT !.at = "inside", !.work = work]
<1>1. s \in WorkerState
  BY WorkerAt
<1>2. s.work \in Nat
  BY <1>1 DEF WorkerState
<1>3. work \in Nat
  BY <1>2
<1>4. s.at = "live" /\ worker' = [worker EXCEPT ![p] = Q]
  BY DEF Iterate, TypeInv
<1> HIDE DEF work
<1>5. Q \in WorkerState /\ Q.at = "inside"
  BY <1>1, <1>3 DEF WorkerState
<1> HIDE DEF Q
<1> QED
  BY <1>4, <1>5 DEF Iterate, Works, Alive, Unclaimed, TypeInv

LEMMA CommitWorks ==
  ASSUME TypeInv, NEW p \in Launches \cup Foreign, Commit(p)
  PROVE  Works(p) /\ Unclaimed
<1> DEFINE s == worker[p]
           r == [Blank EXCEPT !.topic = "commit", !.claim = s.claim, !.ref = s.position]
           seq == W + 1
           at == IF SavesAtCommit(Cardinality(CommitsOn(log, s.position)) + 1)
                 THEN "bind" ELSE "live"
           Q == [s EXCEPT !.position = seq, !.at = at]
<1>1. s \in WorkerState
  BY WorkerAt
<1>2. seq \in Nat /\ at \in {"bind", "live"}
  BY DEF TypeInv, W
<1>3. r \in Fields /\ r.topic = "commit"
  BY <1>1, BlankType DEF WorkerState, Fields, Topics
<1>4. s.at = "inside" /\ Appended(r) /\ worker' = [worker EXCEPT ![p] = Q]
  BY DEF Commit, TypeInv
<1> HIDE DEF at, seq
<1>5. Q \in WorkerState /\ Q.at = at
  BY <1>1, <1>2 DEF WorkerState
<1> HIDE DEF Q, r
<1>6. Q.at \notin {"none", "boot"} /\ UNCHANGED <<store, drive>>
  BY <1>2, <1>5 DEF Commit
<1>7. Works(p)
  BY <1>4, <1>5, <1>6 DEF Works, Alive, TypeInv
<1> QED
  BY <1>3, <1>4, <1>7 DEF Unclaimed

LEMMA BindWorks ==
  ASSUME TypeInv, NEW p \in Launches \cup Foreign, Bind(p)
  PROVE  Works(p) /\ Unclaimed
<1> DEFINE s == worker[p]
           L == [s EXCEPT !.at = "live"]
           Q == IF s.at = "bind" THEN L ELSE Gone(p)
           c == [node |-> s.position, work |-> s.work]
<1>1. s \in WorkerState
  BY WorkerAt
<1>2. /\ s.at \in {"bind", "bind exit"} /\ worker' = [worker EXCEPT ![p] = Q]
      /\ store' = store \cup {c} /\ UNCHANGED <<log, drive>>
  BY DEF Bind, TypeInv
<1>3. Q \in WorkerState /\ Q.at \in {"live", "dead"}
  <2>1. L \in WorkerState /\ L.at = "live"
    BY <1>1 DEF WorkerState
  <2> HIDE DEF L
  <2> QED
    BY <2>1, GoneIs
<1>4. c \in [node : Nat, work : Nat]
  BY <1>1 DEF WorkerState
<1> HIDE DEF Q, c
<1> QED
  BY <1>2, <1>3, <1>4 DEF Works, Alive, Unclaimed, TypeInv

LEMMA ExitWorks ==
  ASSUME TypeInv, NEW p \in Launches \cup Foreign, NEW outcome \in Outcome,
         Exit(p, outcome)
  PROVE  Works(p) /\ Unclaimed
<1> DEFINE s == worker[p]
           r == [Blank EXCEPT !.topic = "stopped", !.claim = s.claim, !.ref = s.position,
                              !.body = outcome, !.torn = (outcome = "errored")]
           seq == W + 1
           B == [s EXCEPT !.at = "bind exit", !.position = seq]
           D == Gone(p)
           Q == IF SavesAtExit(outcome) THEN B ELSE D
<1>1. s \in WorkerState
  BY WorkerAt
<1>2. seq \in Nat
  BY DEF TypeInv, W
<1>3. r \in Fields /\ r.topic = "stopped"
  BY <1>1, BlankType DEF WorkerState, Fields, Topics, Bodies, Outcome
<1>4. s.at \in {"live", "inside", "bind"} /\ Appended(r) /\ UNCHANGED <<store, drive>>
  BY DEF Exit
<1>5. worker' = [worker EXCEPT ![p] = Q]
  BY DEF Exit, TypeInv
<1> HIDE DEF seq
<1>6. /\ B \in WorkerState /\ B.at = "bind exit"
      /\ D \in WorkerState /\ D.at = "dead"
  BY <1>1, <1>2, GoneIs DEF WorkerState
<1> HIDE DEF B, D, r
<1>7. Q \in WorkerState /\ Q.at \notin {"none", "boot"}
  BY <1>6
<1> HIDE DEF Q
<1>8. Works(p)
  BY <1>4, <1>5, <1>7 DEF Works, Alive, TypeInv
<1> QED
  BY <1>3, <1>4, <1>8 DEF Unclaimed

LEMMA EndsWorks ==
  ASSUME TypeInv, NEW p \in Launches \cup Foreign, Ends(p)
  PROVE  Works(p) /\ Unclaimed
<1> DEFINE Q == Gone(p)
<1>2. Q \in WorkerState /\ Q.at = "dead"
  BY GoneIs
<1>3. worker' = [worker EXCEPT ![p] = Q]
  BY DEF Ends, TypeInv
<1> HIDE DEF Q
<1> QED
  BY <1>2, <1>3 DEF Ends, Works, Unclaimed, TypeInv

LEMMA WorkerSteps ==
  ASSUME TypeInv, NEW p \in Launches \cup Foreign, WorkerStep(p)
  PROVE  Works(p) /\ (Unclaimed \/ Claim(p))
BY ClaimWorks, IterateWorks, CommitWorks, BindWorks, ExitWorks, EndsWorks
   DEF WorkerStep, Outcome

LEMMA LaunchNamed ==
  ASSUME TypeInv, NEW e \in Ensurers
  PROVE  drive[e].launch \in Launches \cup {NoId}
BY DEF TypeInv, DriveTypes, DriveState

(* The worker that steps was alive, and the claim it may make is its first. *)
LEMMA WorkStays ==
  ASSUME Inv, NEW p \in Launches \cup Foreign, WorkerStep(p),
         NEW l \in Launches \cup {NoId}
  PROVE  /\ Stays(l)
         /\ l = p \/ (ClaimsOf(l)' = ClaimsOf(l) /\ (l # NoId => worker'[l] = worker[l]))
<1>1. Works(p) /\ (Unclaimed \/ Claim(p)) /\ log \in Seq(Fields)
  BY WorkerSteps DEF Inv, TypeInv
<1>2. NoId # p /\ NoId \notin Launches
  BY IdAssumption, MemoizerAssumption DEF Launches
<1>3. l # p /\ l # NoId => worker'[l] = worker[l]
  BY <1>1 DEF Works, Inv, TypeInv
<1>4. Over(l) => Over(l)' /\ l # p
  BY <1>1, <1>2, <1>3 DEF Over, Works, Alive
<1>a. ClaimsOf(l) \subseteq Nat
  BY <1>1, ClaimsType
<1>5. ASSUME Unclaimed
      PROVE  /\ ClaimsOf(l)' = ClaimsOf(l)
             /\ AllEnded(l) => AllEnded(l)'
             /\ W \in Nat /\ W' \in Nat /\ W' >= W
  <2>1. /\ ClaimsOf(l)' = ClaimsOf(l) /\ \A c \in Nat : Ended(c) => Ended(c)'
        /\ W \in Nat /\ W' \in Nat /\ W' >= W
    BY <1>1, <1>5, UnclaimedReads
  <2> QED
    BY <1>a, <2>1 DEF AllEnded
<1>6. ASSUME Claim(p)
      PROVE  /\ l # p => ClaimsOf(l)' = ClaimsOf(l)
             /\ ClaimsOf(l) # {} => l # p
             /\ AllEnded(l) /\ ClaimsOf(l)' = ClaimsOf(l) => AllEnded(l)'
             /\ W \in Nat /\ W' \in Nat /\ W' >= W
             /\ \A c \in ClaimsOf(l)' : c \in Nat /\ (c \in ClaimsOf(l) \/ c > W)
  <2>1. PICK r \in Fields : /\ r.topic = "started" /\ Appended(r)
                            /\ r.rid = (IF p \in Launches THEN p ELSE NoId)
    BY <1>6, ClaimWorks DEF Inv
  <2>2. ClaimsOf(l)' = ClaimsOf(l) \cup
          (IF r.topic = "started" /\ r.rid = l /\ l # NoId THEN {W + 1} ELSE {})
    BY <1>1, <2>1, RidsWrote, Zenon
  <2>3. l # p => ClaimsOf(l)' = ClaimsOf(l)
    BY <1>2, <2>1, <2>2
  <2>4. worker[p].at = "boot"
    BY <1>6 DEF Claim
  <2>5. ClaimsOf(l) # {} => l # p
    BY <1>2, <2>4 DEF Inv, LaunchInv
  <2>6. W \in Nat /\ W' = W + 1
    BY <1>1, <2>1, Wrote
  <2>7. \A c \in Nat : Ended(c) => Ended(c)'
    BY <1>1, <2>1, EndedStays
  <2>8. ClaimsOf(l)' \subseteq ClaimsOf(l) \cup {W + 1}
    BY <2>2
  <2>9. \A c \in ClaimsOf(l)' : c \in Nat /\ (c \in ClaimsOf(l) \/ c > W)
    BY <1>a, <2>6, <2>8
  <2>10. AllEnded(l) /\ ClaimsOf(l)' = ClaimsOf(l) => AllEnded(l)'
    BY <1>a, <2>7 DEF AllEnded
  <2> QED
    BY <2>3, <2>5, <2>6, <2>9, <2>10
<1>7. CASE Unclaimed
  BY <1>3, <1>4, <1>5, <1>7, <1>a DEF Stays
<1>8. CASE Claim(p)
  BY <1>3, <1>4, <1>6, <1>8 DEF Stays
<1> QED
  BY <1>1, <1>7, <1>8

LEMMA WorkKeeps ==
  ASSUME Inv, NEW p \in Launches \cup Foreign, WorkerStep(p)
  PROVE  Inv'
<1>1. Works(p) /\ (Unclaimed \/ Claim(p)) /\ log \in Seq(Fields)
  BY WorkerSteps DEF Inv, TypeInv
<1>2. NoId # p /\ NoId \notin Launches
  BY IdAssumption, MemoizerAssumption DEF Launches
<1>3. PICK Q \in WorkerState : /\ Q.at \notin {"none", "boot"}
                               /\ worker' = [worker EXCEPT ![p] = Q]
  BY <1>1 DEF Works
<1>4. ASSUME Claim(p)
      PROVE  /\ log' \in Seq(Fields) /\ W \in Nat
             /\ Claims(log, W)' = Claims(log, W) \cup {W + 1}
             /\ p \in Launches => ClaimsOf(p)' = ClaimsOf(p) \cup {W + 1}
  <2>1. PICK r \in Fields : /\ r.topic = "started" /\ Appended(r)
                            /\ r.rid = (IF p \in Launches THEN p ELSE NoId)
    BY <1>4, ClaimWorks DEF Inv
  <2>2. /\ Claims(log, W)' = Claims(log, W) \cup
              (IF r.topic = "started" THEN {W + 1} ELSE {})
        /\ ClaimsOf(p)' = ClaimsOf(p) \cup
              (IF r.topic = "started" /\ r.rid = p /\ p # NoId THEN {W + 1} ELSE {})
    BY <1>1, <2>1, RidsWrote, Zenon
  <2> QED
    BY <1>1, <1>2, <2>1, <2>2, Wrote
<1>5. log' \in Seq(Fields)
  BY <1>1, <1>4, UnclaimedReads
<1>6. TypeInv'
  BY <1>1, <1>3, <1>5 DEF Inv, TypeInv, Works, DriveTypes
<1>7. LaunchInv'
  <2> SUFFICES ASSUME NEW l \in Launches
               PROVE  /\ worker'[l].at \in {"none", "boot"} => ClaimsOf(l)' = {}
                      /\ \A c, d \in ClaimsOf(l)' : c = d
    BY DEF LaunchInv
  <2>1. /\ worker[l].at \in {"none", "boot"} => ClaimsOf(l) = {}
        /\ \A c, d \in ClaimsOf(l) : c = d
    BY DEF Inv, LaunchInv
  <2>2. CASE l # p
    <3>1. ClaimsOf(l)' = ClaimsOf(l) /\ worker'[l] = worker[l]
      BY <1>2, <2>2, WorkStays
    <3> QED
      BY <1>1, <2>1, <3>1 DEF Alive, Works
  <2>3. CASE l = p
    <3>1. worker'[l].at \notin {"none", "boot"} /\ Alive(l) /\ UNCHANGED drive
      BY <1>1, <1>3, <2>3 DEF Works, Inv, TypeInv
    <3>2. CASE Unclaimed
      <4>1. ClaimsOf(l)' = ClaimsOf(l)
        BY <1>1, <3>2, UnclaimedReads
      <4> QED
        BY <2>1, <3>1, <4>1
    <3>3. CASE Claim(p)
      <4>1. ClaimsOf(l) = {}
        BY <2>1, <2>3, <3>3 DEF Claim
      <4>2. ClaimsOf(l)' = {W + 1}
        BY <1>4, <2>3, <3>3, <4>1
      <4> QED
        BY <3>1, <4>2
    <3> QED
      BY <1>1, <3>2, <3>3
  <2> QED
    BY <2>2, <2>3
<1>8. DriveInv'
  <2>1. ASSUME NEW e \in Ensurers
        PROVE  DriveOk(drive[e], Over(drive[e].launch), ClaimsOf(drive[e].launch),
                       AllEnded(drive[e].launch), W)'
    <3>1. PICK l \in Launches \cup {NoId} : l = drive[e].launch
      BY LaunchNamed DEF Inv
    <3>2. Stays(l) /\ UNCHANGED drive[e]
      BY <1>1, WorkStays DEF Works
    <3> QED
      BY <3>1, <3>2, DriveStays DEF Inv
  <2> QED
    BY <2>1 DEF DriveInv
<1> QED
  BY <1>6, <1>7, <1>8 DEF Inv

-----------------------------------------------------------------------------
(* The drives' steps. *)

(* Drive e becomes D, which is about the same launch. *)
Steers(e, D) ==
  /\ drive' = [drive EXCEPT ![e] = D]
  /\ \E T : D \in DriveState(T)
  /\ D.launch = drive[e].launch
  /\ LET l == drive[e].launch IN DriveOk(D, Over(l), ClaimsOf(l), AllEnded(l), W)
  /\ Unclaimed /\ UNCHANGED <<worker, store>>

LEMMA DriveTyped ==
  ASSUME DriveTypes, NEW e \in Ensurers, NEW D, drive' = [drive EXCEPT ![e] = D],
         NEW T, D \in DriveState(T)
  PROVE  DriveTypes'
<1>1. PICK Seen : drive \in [Ensurers -> DriveState(Seen)]
  BY DEF DriveTypes
<1>2. DriveState(Seen) \subseteq DriveState(Seen \cup T) /\ D \in DriveState(Seen \cup T)
  BY DEF DriveState
<1>3. drive' \in [Ensurers -> DriveState(Seen \cup T)]
  BY <1>1, <1>2
<1> QED
  BY <1>3 DEF DriveTypes

LEMMA SteersKeeps ==
  ASSUME Inv, NEW e \in Ensurers, NEW D, Steers(e, D)
  PROVE  Inv'
<1>1. /\ log' \in Seq(Fields)
      /\ \A l : ClaimsOf(l)' = ClaimsOf(l)
      /\ \A c \in Nat : Ended(c) => Ended(c)'
      /\ W \in Nat /\ W' \in Nat /\ W' >= W
  BY UnclaimedReads DEF Steers, Inv, TypeInv
<1>2. DriveTypes'
  BY DriveTyped DEF Steers, Inv, TypeInv
<1>3. TypeInv'
  BY <1>1, <1>2 DEF Steers, Inv, TypeInv
<1>4. \A f \in Ensurers : /\ drive'[f].launch = drive[f].launch
                          /\ f # e => drive'[f] = drive[f]
                          /\ drive'[e] = D
  BY DEF Steers, Inv, TypeInv, DriveTypes
<1>5. LaunchInv'
  BY <1>1, <1>4 DEF Steers, Inv, LaunchInv, Alive
<1>6. ASSUME NEW l
      PROVE  Stays(l)
  <2>1. ClaimsOf(l) \subseteq Nat
    BY DEF ClaimsOf, Claims
  <2> QED
    BY <1>1, <2>1 DEF Stays, AllEnded, Over, Alive, Steers
<1>7. DriveInv'
  <2>1. ASSUME NEW f \in Ensurers
        PROVE  DriveOk(drive[f], Over(drive[f].launch), ClaimsOf(drive[f].launch),
                       AllEnded(drive[f].launch), W)'
    <3>1. PICK l : l = drive[f].launch
      OBVIOUS
    <3>2. Stays(l)
      BY <1>6
    <3>3. CASE f # e
      BY <1>4, <3>1, <3>2, <3>3, DriveStays DEF Inv
    <3>4. CASE f = e
      <4>1. DriveOk(D, Over(l), ClaimsOf(l), AllEnded(l), W)
        BY <3>1, <3>4 DEF Steers
      <4>a. D.w \in Nat
        BY DEF Steers, DriveState
      <4>2. DriveOk(D, Over(l)', ClaimsOf(l)', AllEnded(l)', W')
        BY <3>2, <4>1, <4>a, DriveOkStays DEF Stays
      <4>3. DriveOk(drive'[f], Over(l)', ClaimsOf(l)', AllEnded(l)', W')
        BY <1>4, <3>4, <4>2
      <4>4. drive'[f].launch = l
        BY <1>4, <3>1
      <4> QED
        BY <4>3, <4>4
    <3> QED
      BY <3>3, <3>4
  <2> QED
    BY <2>1 DEF DriveInv
<1> QED
  BY <1>3, <1>5, <1>7 DEF Inv

(* What a step finds: the drive's state, typed and right of its launch. *)
LEMMA DriveAt ==
  ASSUME Inv, NEW e \in Ensurers
  PROVE  /\ \E T : drive[e] \in DriveState(T)
         /\ LET l == drive[e].launch
            IN  DriveOk(drive[e], Over(l), ClaimsOf(l), AllEnded(l), W)
         /\ drive[e].w \in Nat /\ W \in Nat
<1>1. DriveTypes /\ W \in Nat
  BY DEF Inv, TypeInv, W
<1>2. PICK Seen : drive \in [Ensurers -> DriveState(Seen)]
  BY <1>1 DEF DriveTypes
<1>3. drive[e] \in DriveState(Seen)
  BY <1>2
<1> QED
  BY <1>1, <1>3 DEF Inv, DriveInv, DriveState

LEMMA BlankDrive == NoDrive \in DriveState({0, <<>>})
<1> DEFINE none == <<>>
<1>1. NoDrive = [at |-> "first", launch |-> NoId, handle |-> "own", alive |-> FALSE,
                 reaped |-> FALSE, w |-> 0, node |-> 0, commits |-> 0, recordless |-> none, result |-> "none"]
  BY DEF NoDrive
<1> HIDE DEF none
<1>2. NoDrive \in DriveState({0, none})
  BY <1>1 DEF DriveState, Results
<1> QED
  BY <1>2 DEF none

(* A drive that ends with one of the results, or goes on at one of its     *)
(* reads, and asserts by it what DriveOk asks. *)
LEMMA ReturnsSteers ==
  ASSUME Inv, NEW e \in Ensurers, NEW result \in Results \ {"none"}, Returns(e, result),
         UNCHANGED <<log, worker, store>>,
         NEW l, l = drive[e].launch,
         result = "Recordless" =>
           /\ \A c \in ClaimsOf(l) : c > drive[e].w
           /\ drive[e].handle = "own" => Over(l) /\ ClaimsOf(l) = {},
         result \in {"NoProgress", "RunFailed"} => ClaimsOf(l) # {} /\ AllEnded(l)
  PROVE  \E D : Steers(e, D)
<1> DEFINE h == drive[e].handle
           w == drive[e].w
           D == [NoDrive EXCEPT !.at = "done", !.result = result, !.launch = l,
                                !.handle = h, !.w = w]
<1>1. l \in Launches \cup {NoId}
  BY LaunchNamed DEF Inv
<1>a. h \in {"own", "wrapping", "ended"} /\ w \in Nat
  BY DriveAt DEF DriveState
<1>b. w <= W
  BY DriveAt DEF DriveOk
<1>2. drive' = [drive EXCEPT ![e] = D]
  BY DEF Returns
<1>3. NoDrive \in DriveState({0, <<>>})
  BY BlankDrive
<1>c. /\ result = "Recordless" =>
           /\ \A c \in ClaimsOf(l) : c > w
           /\ h = "own" => Over(l) /\ ClaimsOf(l) = {}
      /\ result \in {"NoProgress", "RunFailed"} => ClaimsOf(l) # {} /\ AllEnded(l)
  OBVIOUS
<1> HIDE DEF NoDrive, h, w
<1>4. D \in DriveState({0, <<>>})
  BY <1>1, <1>3, <1>a DEF DriveState
<1>5. D.launch = l /\ D.at = "done" /\ D.result = result /\ D.handle = h /\ D.w = w
  BY <1>3 DEF DriveState
<1> HIDE DEF D
<1>6. DriveOk(D, Over(l), ClaimsOf(l), AllEnded(l), W)
  BY <1>5, <1>b, <1>c DEF DriveOk
<1> QED
  BY <1>2, <1>4, <1>5, <1>6 DEF Steers, Unclaimed

LEMMA GoesSteers ==
  ASSUME Inv, NEW e \in Ensurers, NEW at, Goes(e, at), drive[e].result = "none",
         at \in {"extend", "read"}, Unclaimed, UNCHANGED <<worker, store>>,
         NEW l, l = drive[e].launch,
         at = "read" /\ drive[e].handle = "own" /\ ~drive[e].alive => Over(l)
  PROVE  \E D : Steers(e, D)
<1> DEFINE s == drive[e]
           D == [s EXCEPT !.at = at]
<1>1. PICK T : s \in DriveState(T)
  BY DriveAt
<1>2. drive' = [drive EXCEPT ![e] = D]
  BY DEF Goes, Inv, TypeInv, DriveTypes
<1>3. /\ D \in DriveState(T) /\ D.at = at /\ D.launch = l /\ D.result = "none"
      /\ D.alive = s.alive /\ D.handle = s.handle /\ D.w = s.w
  BY <1>1 DEF DriveState
<1>a. s.w <= W
  BY DriveAt DEF DriveOk
<1> HIDE DEF D
<1>4. DriveOk(D, Over(l), ClaimsOf(l), AllEnded(l), W)
  BY <1>3, <1>a DEF DriveOk
<1> QED
  BY <1>2, <1>3, <1>4 DEF Steers

LEMMA MovesSteers ==
  ASSUME Inv, NEW e \in Ensurers, NEW at, NEW here, Moves(e, at, here),
         drive[e].result = "none", at \in {"extend", "alive"},
         UNCHANGED <<log, worker, store>>
  PROVE  \E D : Steers(e, D)
<1> DEFINE s == drive[e]
           off == FALSE
           D == [s EXCEPT !.at = at, !.recordless = here, !.alive = off,
                          !.w = 0, !.node = 0, !.commits = 0]
<1>1. PICK T : s \in DriveState(T)
  BY DriveAt
<1>2. drive' = [drive EXCEPT ![e] = D]
  BY DEF Moves, Inv, TypeInv, DriveTypes
<1>3. off \in BOOLEAN /\ W \in Nat
  BY DriveAt
<1> HIDE DEF off
<1>4. /\ D \in DriveState(T \cup {0, here}) /\ D.at = at /\ D.launch = s.launch
      /\ D.result = "none" /\ D.w = 0
  BY <1>1, <1>3 DEF DriveState
<1> HIDE DEF D
<1>5. ASSUME NEW l PROVE DriveOk(D, Over(l), ClaimsOf(l), AllEnded(l), W)
  BY <1>3, <1>4 DEF DriveOk
<1> QED
  BY <1>2, <1>4, <1>5 DEF Steers, Unclaimed

LEMMA ReadFirstSteers ==
  ASSUME Inv, NEW e \in Ensurers, ReadFirst(e)
  PROVE  \E D : Steers(e, D)
<1>1. PICK l : l = drive[e].launch
  OBVIOUS
<1>2. /\ drive[e].result = "none" /\ UNCHANGED <<log, worker, store>>
      /\ drive[e].at = "first"
  BY DEF ReadFirst, At
<1>3. \/ Returns(e, "Reached") \/ Returns(e, "Unreachable") \/ Goes(e, "extend")
  BY DEF ReadFirst
<1> QED
  BY <1>1, <1>2, <1>3, ReturnsSteers, GoesSteers DEF Results, Unclaimed

LEMMA DiedUnclaimed ==
  ASSUME NEW c \in Nat, NEW outcome \in {"cause", "lost"},
         Appended([DiedLost(c) EXCEPT !.body = outcome])
  PROVE  Unclaimed
<1> DEFINE r == [DiedLost(c) EXCEPT !.body = outcome]
<1>1. r \in Fields /\ r.topic = "died"
  BY BlankType DEF DiedLost, Fields, Topics, Bodies
<1> HIDE DEF r
<1> QED
  BY <1>1 DEF r, Unclaimed

LEMMA LostUnclaimed ==
  ASSUME NEW c \in DeadHeld, Appended(DiedLost(c))
  PROVE  Unclaimed
<1>1. c \in Nat
  BY DEF DeadHeld, Held, Claims
<1> DEFINE r == DiedLost(c)
<1>2. r \in Fields /\ r.topic = "died"
  BY <1>1, BlankType DEF DiedLost, Fields, Topics, Bodies
<1> HIDE DEF r
<1> QED
  BY <1>2 DEF r, Unclaimed

LEMMA OwnClaim ==
  ASSUME Inv, NEW l \in Launches \cup {NoId}, NEW c \in ClaimsOf(l)
  PROVE  c \in Nat /\ ClaimsOf(l) = {c} /\ NewestOf(ClaimsOf(l)) = {c}
<1>1. l \in Launches /\ c \in Nat
  BY DEF ClaimsOf, Claims
<1>a. \A d, e \in ClaimsOf(l) : d = e
  BY <1>1 DEF Inv, LaunchInv
<1>2. ClaimsOf(l) = {c}
  BY <1>a
<1>3. Newest({c}) = c
  BY <1>1 DEF Newest
<1> QED
  BY <1>1, <1>2, <1>3 DEF NewestOf

LEMMA ReadAliveSteers ==
  ASSUME Inv, NEW e \in Ensurers, ReadAlive(e)
  PROVE  \E D : Steers(e, D)
<1> DEFINE s == drive[e]
           l == s.launch
           alive == IF l = NoId THEN Held # {} ELSE HandleAlive(e)
           own == {c \in ClaimsOf(l) : s.handle = "own"}
           reaped == s.reaped \/ ~alive
           D == [s EXCEPT !.at = "report", !.alive = alive, !.reaped = reaped]
<1>1. PICK T : s \in DriveState(T)
  BY DriveAt
<1>2. drive' = [drive EXCEPT ![e] = D] /\ UNCHANGED <<worker, store>>
  BY DEF ReadAlive, Inv, TypeInv, DriveTypes
<1>3. s.result = "none"
  BY DEF ReadAlive, At
<1>b. s.handle \in {"own", "wrapping", "ended"}
  BY <1>1 DEF DriveState
<1>c. /\ s.handle = "own" => HandleAlive(e) = Alive(l)
      /\ HandleAlive(e) \in BOOLEAN
  BY <1>b, Zenon DEF HandleAlive, Alive
<1>4. alive \in BOOLEAN /\ reaped \in BOOLEAN
  BY <1>c, Zenon
<1>a. s.handle = "own" /\ ~alive => Over(l)
  BY <1>c DEF Over
<1>5. Unclaimed
  <2>1. \/ UNCHANGED log
        \/ /\ own # {}
           /\ \E outcome \in {"cause", "lost"} :
                Appended([DiedLost(Newest(own)) EXCEPT !.body = outcome])
    BY DEF ReadAlive
  <2>2. ASSUME own # {}
        PROVE  Newest(own) \in Nat
    <3>1. PICK c : c \in ClaimsOf(l)
      BY <2>2
    <3>2. c \in Nat /\ NewestOf(ClaimsOf(l)) = {c}
      BY <3>1, LaunchNamed, OwnClaim DEF Inv
    <3>3. own = ClaimsOf(l)
      BY <2>2
    <3> HIDE DEF own
    <3> QED
      BY <2>2, <3>2, <3>3 DEF NewestOf
  <2> QED
    BY <2>1, <2>2, DiedUnclaimed DEF Unclaimed
<1>d. s.w <= W
  BY DriveAt DEF DriveOk
<1> HIDE DEF alive, reaped
<1>6. /\ D \in DriveState(T) /\ D.at = "report" /\ D.launch = l /\ D.result = "none"
      /\ D.alive = alive /\ D.handle = s.handle /\ D.w = s.w
  BY <1>1, <1>3, <1>4 DEF DriveState
<1> HIDE DEF D
<1>7. DriveOk(D, Over(l), ClaimsOf(l), AllEnded(l), W)
  BY <1>a, <1>d, <1>6 DEF DriveOk
<1> QED
  BY <1>2, <1>5, <1>6, <1>7 DEF Steers

LEMMA ReportIfDeadSteers ==
  ASSUME Inv, NEW e \in Ensurers, ReportIfDead(e)
  PROVE  \E D : Steers(e, D)
<1>1. PICK l : l = drive[e].launch
  OBVIOUS
<1>2. /\ drive[e].result = "none" /\ UNCHANGED <<worker, store>>
      /\ drive[e].at = "report" /\ Goes(e, "read")
  BY DEF ReportIfDead, At
<1>3. drive[e].handle = "own" /\ ~drive[e].alive => Over(l)
  BY <1>1, <1>2, DriveAt DEF DriveOk
<1>4. Unclaimed
  BY LostUnclaimed DEF ReportIfDead, Unclaimed
<1> QED
  BY <1>1, <1>2, <1>3, <1>4, GoesSteers

LEMMA WaitForSteers ==
  ASSUME Inv, NEW e \in Ensurers, WaitFor(e)
  PROVE  \E D : Steers(e, D)
<1>1. /\ drive[e].result = "none" /\ UNCHANGED <<log, worker, store>>
      /\ Moves(e, "alive", drive[e].recordless)
  BY DEF WaitFor, At
<1> QED
  BY <1>1, MovesSteers

LEMMA WrapperEndsSteers ==
  ASSUME Inv, NEW e \in Ensurers, WrapperEnds(e)
  PROVE  \E D : Steers(e, D)
<1> DEFINE s == drive[e]
           D == [s EXCEPT !.handle = "ended"]
<1>1. PICK T : s \in DriveState(T)
  BY DriveAt
<1>2. /\ drive' = [drive EXCEPT ![e] = D] /\ UNCHANGED <<log, worker, store>>
      /\ s.result = "none"
  BY DEF WrapperEnds, Inv, TypeInv, DriveTypes
<1>3. /\ D \in DriveState(T) /\ D.at = s.at /\ D.launch = s.launch
      /\ D.result = s.result /\ D.handle = "ended" /\ D.w = s.w
  BY <1>1 DEF DriveState
<1>4. ASSUME NEW l, l = s.launch PROVE DriveOk(D, Over(l), ClaimsOf(l), AllEnded(l), W)
  <2>1. DriveOk(s, Over(l), ClaimsOf(l), AllEnded(l), W)
    BY <1>4, DriveAt
  <2> HIDE DEF D
  <2> QED
    BY <1>2, <1>3, <2>1 DEF DriveOk
<1> QED
  BY <1>2, <1>3, <1>4 DEF Steers, Unclaimed

LEMMA RecordlessSteers ==
  ASSUME Inv, NEW e \in Ensurers, Recordless(e)
  PROVE  \E D : Steers(e, D)
<1> DEFINE s == drive[e]
           l == s.launch
           here == <<s.node, s.commits>>
<1>1. /\ s.at = "held" /\ s.result = "none" /\ ~s.alive
      /\ UNCHANGED <<log, worker, store>>
  BY DEF Recordless, At, Waits
<1>2. /\ \A c \in ClaimsOf(l) : c > s.w
      /\ s.handle = "own" => Over(l) /\ ClaimsOf(l) = {}
  BY <1>1, DriveAt DEF DriveOk
<1>3. CASE Returns(e, "Recordless")
  BY <1>1, <1>2, <1>3, ReturnsSteers DEF Results
<1>4. CASE Moves(e, "extend", here)
  <2>1. PICK x : x = here
    OBVIOUS
  <2>2. Moves(e, "extend", x)
    BY <1>4, <2>1
  <2> QED
    BY <1>1, <2>2, MovesSteers
<1> QED
  BY <1>3, <1>4 DEF Recordless

LEMMA PollSteers ==
  ASSUME Inv, NEW e \in Ensurers, Poll(e)
  PROVE  \E D : Steers(e, D)
<1> DEFINE s == drive[e]
           l == s.launch
           claim == DriveClaim(e)
           ended == {c \in claim : Ended(c)}
<1>1. /\ s.at = "read" /\ s.result = "none" /\ UNCHANGED <<log, worker, store>>
  BY DEF Poll, At
<1>2. /\ s.handle = "own" /\ ~s.alive => Over(l)
      /\ W \in Nat
  BY <1>1, DriveAt DEF DriveOk
<1>3. claim = {} => ClaimsOf(l) = {}
  BY DEF DriveClaim, NewestOf
<1>4. claim # {} => ClaimsOf(l) # {}
  BY DEF DriveClaim, NewestOf
<1>5. ASSUME NEW c \in ended
      PROVE  ClaimsOf(l) # {} /\ AllEnded(l)
  <2>1. c \in NewestOf(ClaimsOf(l)) /\ Ended(c)
    BY <1>5 DEF DriveClaim
  <2>2. ClaimsOf(l) # {}
    BY <2>1 DEF NewestOf
  <2>3. PICK d : d \in ClaimsOf(l)
    BY <2>2
  <2>4. ClaimsOf(l) = {d} /\ NewestOf(ClaimsOf(l)) = {d}
    BY <2>3, LaunchNamed, OwnClaim DEF Inv
  <2> QED
    BY <2>1, <2>2, <2>4 DEF AllEnded
<1>6. \/ Returns(e, "Reached") \/ Returns(e, "Unreachable")
      \/ Moves(e, "alive", s.recordless) \/ Moves(e, "extend", <<>>)
      \/ ended # {} /\ (Returns(e, "RunFailed") \/ Returns(e, "NoProgress"))
      \/ /\ claim = {}
         /\ drive' = [drive EXCEPT ![e].at = "held", ![e].w = W, ![e].node = HeadNode,
                                   ![e].commits = Count]
  BY Zenon DEF Poll
<1> HIDE DEF claim, ended
<1>7. CASE Returns(e, "Reached") \/ Returns(e, "Unreachable")
  BY <1>1, <1>7, ReturnsSteers DEF Results
<1>8. CASE Moves(e, "alive", s.recordless) \/ Moves(e, "extend", <<>>)
  BY <1>1, <1>8, MovesSteers
<1>9. CASE ended # {} /\ (Returns(e, "RunFailed") \/ Returns(e, "NoProgress"))
  <2>1. ClaimsOf(l) # {} /\ AllEnded(l)
    BY <1>5, <1>9
  <2> QED
    BY <1>1, <1>9, <2>1, ReturnsSteers DEF Results
<1>10. CASE /\ claim = {}
            /\ drive' = [drive EXCEPT ![e].at = "held", ![e].w = W, ![e].node = HeadNode,
                                      ![e].commits = Count]
  <2> DEFINE w == W
             node == HeadNode
             commits == Count
             D == [s EXCEPT !.at = "held", !.w = w, !.node = node, !.commits = commits]
  <2>1. PICK T : s \in DriveState(T)
    BY DriveAt
  <2>2. drive' = [drive EXCEPT ![e] = D]
    BY <1>10 DEF Inv, TypeInv, DriveTypes
  <2>a. w \in Nat /\ w = W
    BY <1>2
  <2> HIDE DEF w, node, commits
  <2>3. /\ D \in DriveState(T \cup {node, commits})
        /\ D.at = "held" /\ D.launch = l /\ D.result = "none" /\ D.alive = s.alive
        /\ D.handle = s.handle /\ D.w = w
    BY <1>1, <2>1, <2>a DEF DriveState
  <2> HIDE DEF D
  <2>4. DriveOk(D, Over(l), ClaimsOf(l), AllEnded(l), W)
    BY <1>2, <1>3, <1>10, <2>3, <2>a DEF DriveOk
  <2> QED
    BY <1>1, <2>2, <2>3, <2>4 DEF Steers, Unclaimed
<1> QED
  BY <1>6, <1>7, <1>8, <1>9, <1>10

(* The next drive: of nobody's launch, or of a fresh one. *)
LEMMA ExtendKeeps ==
  ASSUME Inv, NEW e \in Ensurers, Extend(e)
  PROVE  Inv'
<1>1. NoId \notin Launches
  BY IdAssumption DEF Launches
<1>2. At(e, "extend")
  BY DEF Extend
<1>3. PICK m \in Launches \cup {NoId} :
        /\ \E h \in {"own", "wrapping"} : Drives(e, m, h)
        /\ Unclaimed /\ UNCHANGED store
        /\ \/ m = NoId /\ UNCHANGED worker
           \/ /\ m \in Launches /\ ~Alive(m) /\ ClaimsOf(m) = {}
              /\ \A f \in Ensurers : drive[f].launch = m => f = e
              /\ worker' = [worker EXCEPT ![m] = Booting]
  <2>1. CASE Drives(e, NoId, "own") /\ UNCHANGED <<log, worker, store>>
    BY <2>1 DEF Unclaimed
  <2>2. ASSUME NEW m, Fresh(e) # {}, m = (CHOOSE l \in Fresh(e) : TRUE),
               \E h \in Handles(m) : Drives(e, m, h),
               worker' = [worker EXCEPT ![m] = Booting],
               UNCHANGED log \/ \E c \in DeadHeld : Appended(DiedLost(c)),
               UNCHANGED store
        PROVE  /\ m \in Launches /\ ~Alive(m) /\ ClaimsOf(m) = {}
               /\ \A f \in Ensurers : drive[f].launch = m => f = e
               /\ Unclaimed /\ \E h \in {"own", "wrapping"} : Drives(e, m, h)
    <3>1. m \in Fresh(e)
      BY <2>2
    <3>2. Unclaimed
      BY <2>2, LostUnclaimed DEF Unclaimed
    <3> QED
      BY <2>2, <3>1, <3>2 DEF Fresh, Handles
  <2>3. CASE /\ Fresh(e) # {}
             /\ \E h \in Handles(CHOOSE l \in Fresh(e) : TRUE) :
                  Drives(e, CHOOSE l \in Fresh(e) : TRUE, h)
             /\ worker' = [worker EXCEPT ![CHOOSE l \in Fresh(e) : TRUE] = Booting]
             /\ UNCHANGED log \/ \E c \in DeadHeld : Appended(DiedLost(c))
             /\ UNCHANGED store
    <3>1. PICK m : m = (CHOOSE l \in Fresh(e) : TRUE)
      OBVIOUS
    <3>2. /\ \E h \in Handles(m) : Drives(e, m, h)
          /\ worker' = [worker EXCEPT ![m] = Booting]
      BY <2>3, <3>1
    <3> QED
      BY <2>2, <2>3, <3>1, <3>2
  <2> QED
    BY <2>1, <2>3, Zenon DEF Extend
<1>a. PICK h \in {"own", "wrapping"} : Drives(e, m, h)
  BY <1>3
<1> DEFINE s == drive[e]
           off == FALSE
           D == [s EXCEPT !.at = "alive", !.launch = m, !.handle = h, !.alive = off,
                          !.reaped = off]
<1>4. PICK T : s \in DriveState(T)
  BY DriveAt
<1>5. drive' = [drive EXCEPT ![e] = D]
  BY <1>a DEF Drives, Inv, TypeInv, DriveTypes
<1>b. off \in BOOLEAN /\ s.w \in Nat /\ s.w <= W
  BY DriveAt DEF DriveOk
<1> HIDE DEF off
<1>6. /\ D \in DriveState(T) /\ D.at = "alive" /\ D.launch = m /\ D.result = "none"
      /\ D.w = s.w
  BY <1>2, <1>4, <1>b DEF DriveState, At
<1> HIDE DEF D
<1>7. /\ log' \in Seq(Fields)
      /\ \A l : ClaimsOf(l)' = ClaimsOf(l)
      /\ \A c \in Nat : Ended(c) => Ended(c)'
      /\ W \in Nat /\ W' \in Nat /\ W' >= W
  BY <1>3, UnclaimedReads DEF Inv, TypeInv
<1>8. TypeInv'
  <2>1. DriveTypes'
    BY <1>5, <1>6, DriveTyped DEF Inv, TypeInv
  <2>a. Booting \in WorkerState
    BY DEF Booting, WorkerState
  <2>2. worker' \in [Launches \cup Foreign -> WorkerState]
    BY <1>3, <2>a DEF Inv, TypeInv
  <2> QED
    BY <1>3, <1>7, <2>1, <2>2 DEF Inv, TypeInv
<1>9. /\ drive'[e] = D
      /\ \A f \in Ensurers \ {e} : drive'[f] = drive[f]
  BY <1>5 DEF Inv, TypeInv, DriveTypes
<1>10. /\ \A l \in Launches \ {m} : worker'[l] = worker[l]
       /\ m \in Launches => worker'[m].at = "boot" /\ ClaimsOf(m) = {}
  BY <1>1, <1>3 DEF Inv, TypeInv, Booting
<1>11. LaunchInv'
  <2> SUFFICES ASSUME NEW l \in Launches
               PROVE  /\ worker'[l].at \in {"none", "boot"} => ClaimsOf(l)' = {}
                      /\ \A c, d \in ClaimsOf(l)' : c = d
    BY DEF LaunchInv
  <2>1. /\ worker[l].at \in {"none", "boot"} => ClaimsOf(l) = {}
        /\ \A c, d \in ClaimsOf(l) : c = d
    BY DEF Inv, LaunchInv
  <2>2. CASE l = m
    BY <1>6, <1>7, <1>9, <1>10, <2>2
  <2>3. CASE l # m
    <3>1. worker'[l] = worker[l]
      BY <1>10, <2>3
    <3> QED
      BY <1>7, <2>1, <3>1
  <2> QED
    BY <2>2, <2>3
<1>12. DriveInv'
  <2>1. ASSUME NEW f \in Ensurers
        PROVE  DriveOk(drive[f], Over(drive[f].launch), ClaimsOf(drive[f].launch),
                       AllEnded(drive[f].launch), W)'
    <3>1. CASE f = e
      <4>1. D.w <= W'
        BY <1>6, <1>7, <1>b
      <4>2. \A o, S, x : DriveOk(D, o, S, x, W')
        BY <1>6, <4>1 DEF DriveOk
      <4>3. DriveOk(drive'[f], Over(drive[f].launch)', ClaimsOf(drive[f].launch)',
                    AllEnded(drive[f].launch)', W')
        BY <1>9, <3>1, <4>2
      <4> QED
        BY <4>3
    <3>2. CASE f # e
      <4>1. PICK l \in Launches \cup {NoId} : l = drive[f].launch
        BY LaunchNamed DEF Inv
      <4>2. Over(l) => Over(l)'
        BY <1>3, <1>10, <3>2, <4>1 DEF Over, Alive
      <4>3. ClaimsOf(l) \subseteq Nat
        BY DEF ClaimsOf, Claims
      <4>4. Stays(l)
        BY <1>7, <4>2, <4>3 DEF Stays, AllEnded
      <4> QED
        BY <1>9, <3>2, <4>1, <4>4, DriveStays DEF Inv
    <3> QED
      BY <3>1, <3>2
  <2> QED
    BY <2>1 DEF DriveInv
<1> QED
  BY <1>8, <1>11, <1>12 DEF Inv

-----------------------------------------------------------------------------

LEMMA InitInv == Init => Inv
<1> SUFFICES ASSUME Init
             PROVE  Inv
  OBVIOUS
<1>1. log = <<>> /\ W = 0 /\ Claims(log, W) = {} /\ \A l : ClaimsOf(l) = {}
  BY DEF Init, W, Claims, ClaimsOf
<1>2. TypeInv
  <2>1. NoDrive \in DriveState({0, <<>>})
    BY BlankDrive
  <2>2. drive \in [Ensurers -> DriveState({0, <<>>})]
    BY <2>1 DEF Init
  <2>3. worker \in [Launches \cup Foreign -> WorkerState]
    BY DEF Init, Booting, WorkerState
  <2> QED
    BY <2>2, <2>3 DEF Init, TypeInv, DriveTypes
<1>3. LaunchInv
  <2>1. \A l \in Launches : ~Alive(l)
    BY MemoizerAssumption DEF Init, Alive, Booting, Launches
  <2> QED
    BY <1>1, <2>1 DEF LaunchInv
<1>4. DriveInv
  BY <1>1 DEF Init, DriveInv, DriveOk, NoDrive, Over
<1> QED
  BY <1>2, <1>3, <1>4 DEF Inv

LEMMA StutterInv == Inv /\ UNCHANGED vars => Inv'
<1> SUFFICES ASSUME Inv, UNCHANGED vars
             PROVE  Inv'
  OBVIOUS
<1>1. /\ Claims(log, W)' = Claims(log, W)
      /\ \A l : /\ ClaimsOf(l)' = ClaimsOf(l) /\ Over(l)' = Over(l)
               /\ Alive(l)' = Alive(l) /\ AllEnded(l)' = AllEnded(l)
      /\ W' = W
  BY DEF vars, W, Claims, ClaimsOf, Alive, Over, AllEnded, Ended, Endings
<1>2. TypeInv' /\ LaunchInv'
  BY <1>1 DEF vars, Inv, TypeInv, DriveTypes, LaunchInv
<1>3. \A e \in Ensurers : UNCHANGED drive[e] /\ UNCHANGED drive[e].launch
  BY DEF vars
<1>4. DriveInv'
  BY <1>1, <1>3 DEF Inv, DriveInv, DriveOk, vars
<1> QED
  BY <1>2, <1>4 DEF Inv

LEMMA NextInv == Inv /\ [Next]_vars => Inv'
<1> SUFFICES ASSUME Inv, [Next]_vars
             PROVE  Inv'
  OBVIOUS
<1>1. ASSUME NEW p \in Launches \cup Foreign, WorkerStep(p)
      PROVE  Inv'
  BY <1>1, WorkKeeps
<1>2. ASSUME NEW e \in Ensurers, DriveStep(e)
      PROVE  Inv'
  <2>1. CASE Extend(e)
    BY <2>1, ExtendKeeps
  <2>2. CASE ReadFirst(e)
    BY <2>2, ReadFirstSteers, SteersKeeps
  <2>3. CASE ReadAlive(e)
    BY <2>3, ReadAliveSteers, SteersKeeps
  <2>4. CASE ReportIfDead(e)
    BY <2>4, ReportIfDeadSteers, SteersKeeps
  <2>5. CASE Poll(e)
    BY <2>5, PollSteers, SteersKeeps
  <2>6. CASE Recordless(e)
    BY <2>6, RecordlessSteers, SteersKeeps
  <2>7. CASE WaitFor(e)
    BY <2>7, WaitForSteers, SteersKeeps
  <2> QED
    BY <1>2, <2>1, <2>2, <2>3, <2>4, <2>5, <2>6, <2>7 DEF DriveStep
<1>3. ASSUME NEW e \in Ensurers, WrapperEnds(e)
      PROVE  Inv'
  BY <1>3, WrapperEndsSteers, SteersKeeps
<1>4. CASE UNCHANGED vars
  BY <1>4, StutterInv
<1> QED
  BY <1>1, <1>2, <1>3, <1>4 DEF Next

(* The types of module Memoizer, whatever the callers remember of a head. *)
THEOREM TypesHold == Spec => []TypeInv
<1>1. Inv => TypeInv
  BY DEF Inv
<1> QED
  BY <1>1, InitInv, NextInv, PTL DEF Spec

(* What ensure raises of its drive is so, however many callers drive a run *)
(* and whoever else runs workers on it: a drive that it calls recordless   *)
(* had made no claim when the log was last read, and, when its handle is   *)
(* its worker's own process, has no process left that could make one (a    *)
(* wrapper's worker may still claim); and the failure or the standstill it *)
(* reports is of the one claim its own launch made, which has ended.       *)
THEOREM RaisesOwn == Spec => []RaisesOfItsDrive
<1>1. Inv => RaisesOfItsDrive
  BY DEF Inv, DriveInv, DriveOk, AllEnded, RaisesOfItsDrive
<1> QED
  BY <1>1, InitInv, NextInv, PTL DEF Spec

-----------------------------------------------------------------------------
(* What a process has run, and what its lineage holds. *)

Counted(lg, n) == Cardinality(CommitsOn(lg, n))

(* A worker's position can be extended; between iterations its work is     *)
(* what the position's lineage holds, and inside one it is ahead by one.   *)
WorkOk(lg, s) ==
  /\ s.at \in {"live", "inside", "bind", "bind exit"} =>
       s.position \in {0} \cup Extendable(lg, Len(lg))
  /\ s.at \in {"bind", "bind exit"} => s.position # 0
  /\ s.at \in {"live", "bind", "bind exit"} => s.work = Counted(lg, s.position)
  /\ s.at = "inside" => s.work = Counted(lg, s.position) + 1

CheckpointOk(lg, c) ==
  c.node \in Extendable(lg, Len(lg)) /\ c.work = Counted(lg, c.node)

WorkInv ==
  /\ \A c \in store : CheckpointOk(log, c)
  /\ \A p \in Launches \cup Foreign : WorkOk(log, worker[p])

LEMMA LogReffed ==
  ASSUME NEW lg \in Seq(Fields)
  PROVE  Reffed(lg)
<1>1. \A i \in 1..Len(lg) : lg[i] \in Fields
  OBVIOUS
<1> QED
  BY <1>1 DEF Reffed, Fields

LEMMA CountIs ==
  ASSUME NEW lg \in Seq(Fields), NEW n \in 0..Len(lg)
  PROVE  /\ IsFiniteSet(CommitsOn(lg, n)) /\ CommitsOn(lg, n) \subseteq 1..n
         /\ Counted(lg, n) \in Nat
         /\ n = 0 => Counted(lg, n) = 0
<1>1. Reffed(lg) /\ Len(lg) \in Nat /\ n \in Nat
  BY LogReffed
<1>2. Lineage(lg, n) \subseteq 1..n
  BY <1>1, LineageBelow
<1>3. IsFiniteSet(1..n)
  BY <1>1, FS_Interval
<1>4. CommitsOn(lg, n) \subseteq 1..n
  BY <1>2 DEF CommitsOn
<1>5. IsFiniteSet(CommitsOn(lg, n))
  BY <1>3, <1>4, FS_Subset
<1>6. Counted(lg, n) \in Nat
  BY <1>5, FS_CardinalityType DEF Counted
<1>7. n = 0 => CommitsOn(lg, n) = {}
  BY <1>4
<1>8. n = 0 => Counted(lg, n) = 0
  BY <1>7, FS_EmptySet DEF Counted
<1> QED
  BY <1>4, <1>5, <1>6, <1>8

LEMMA CountKept ==
  ASSUME log \in Seq(Fields), NEW r \in Fields, Appended(r)
  PROVE  /\ \A n \in 0..Len(log) : CommitsOn(log', n) = CommitsOn(log, n)
                                   /\ Counted(log', n) = Counted(log, n)
         /\ Extendable(log, Len(log)) \subseteq Extendable(log', Len(log'))
<1>1. /\ log' \in Seq(Fields) /\ Len(log) \in Nat /\ Len(log') = Len(log) + 1
      /\ \A i \in 1..Len(log) : log'[i] = log[i]
  BY Wrote DEF W
<1>2. Reffed(log) /\ Reffed(log')
  BY <1>1, LogReffed
<1>3. ASSUME NEW n \in 0..Len(log)
      PROVE  CommitsOn(log', n) = CommitsOn(log, n)
  <2>1. Lineage(log', n) = Lineage(log, n)
    BY <1>1, <1>2, LineageKept
  <2>2. \A i \in Lineage(log, n) : i \in 1..Len(log)
    BY <1>1, <1>2, LineageBelow
  <2> QED
    BY <1>1, <2>1, <2>2 DEF CommitsOn
<1>4. Extendable(log, Len(log)) \subseteq Extendable(log', Len(log'))
  BY <1>1 DEF Extendable
<1> QED
  BY <1>3, <1>4 DEF Counted

(* A node adds itself to its parent's commits, if it is one. *)
LEMMA CountGrows ==
  ASSUME log \in Seq(Fields), NEW r \in Fields, Appended(r), r.ref \in 0..Len(log)
  PROVE  Counted(log', Len(log) + 1) =
           Counted(log, r.ref) + (IF r.topic = "commit" THEN 1 ELSE 0)
<1> DEFINE n == Len(log) + 1
<1>1. /\ log' \in Seq(Fields) /\ Len(log) \in Nat /\ Len(log') = n
      /\ log'[n] = r /\ n \in 1..Len(log') /\ r.ref < n
  BY Wrote DEF W
<1>2. Reffed(log') /\ Reffed(log)
  BY <1>1, LogReffed
<1>3. Lineage(log', n) = {n} \cup Lineage(log', r.ref)
  BY <1>1, <1>2, LineageOf
<1>4. CommitsOn(log', n) = CommitsOn(log', r.ref) \cup (IF r.topic = "commit" THEN {n} ELSE {})
  BY <1>1, <1>3 DEF CommitsOn
<1>5. CommitsOn(log', r.ref) = CommitsOn(log, r.ref)
  BY CountKept
<1>6. IsFiniteSet(CommitsOn(log, r.ref)) /\ n \notin CommitsOn(log, r.ref)
      /\ Counted(log, r.ref) \in Nat
  <2>1. CommitsOn(log, r.ref) \subseteq 1..r.ref
    BY CountIs
  <2> QED
    BY <1>1, <2>1, CountIs
<1> HIDE DEF n
<1>7. CASE r.topic = "commit"
  <2>1. CommitsOn(log', n) = CommitsOn(log, r.ref) \cup {n}
    BY <1>4, <1>5, <1>7
  <2>2. Cardinality(CommitsOn(log, r.ref) \cup {n}) = Cardinality(CommitsOn(log, r.ref)) + 1
    BY <1>6, FS_AddElement
  <2> QED
    BY <1>7, <2>1, <2>2 DEF Counted, n
<1>8. CASE r.topic # "commit"
  <2>1. CommitsOn(log', n) = CommitsOn(log, r.ref)
    BY <1>4, <1>5, <1>8
  <2> QED
    BY <1>6, <1>8, <2>1 DEF Counted, n
<1> QED
  BY <1>7, <1>8

LEMMA WorkOkStays ==
  ASSUME log \in Seq(Fields), NEW r \in Fields, Appended(r)
  PROVE  /\ \A s \in WorkerState : WorkOk(log, s) => WorkOk(log', s)
         /\ \A c : CheckpointOk(log, c) => CheckpointOk(log', c)
<1>1. Extendable(log, Len(log)) \subseteq 0..Len(log) /\ 0 \in 0..Len(log)
  BY DEF Extendable
<1> QED
  BY <1>1, CountKept DEF WorkOk, CheckpointOk

-----------------------------------------------------------------------------
(* The workers' steps. *)

(* A step appends at most a record, and leaves worker p as Q. *)
LEMMA WorksOn ==
  ASSUME TypeInv, WorkInv, NEW p \in Launches \cup Foreign, NEW Q \in WorkerState,
         worker' = [worker EXCEPT ![p] = Q], WorkOk(log', Q),
         UNCHANGED log \/ \E r \in Fields : Appended(r),
         \A c \in store' : c \in store \/ CheckpointOk(log', c)
  PROVE  WorkInv'
<1>1. /\ \A q \in Launches \cup Foreign : WorkOk(log', worker[q])
      /\ \A c \in store : CheckpointOk(log', c)
  <2>1. CASE UNCHANGED log
    BY <2>1 DEF WorkInv
  <2>2. ASSUME NEW r \in Fields, Appended(r)
        PROVE  /\ \A q \in Launches \cup Foreign : WorkOk(log', worker[q])
               /\ \A c \in store : CheckpointOk(log', c)
    <3>1. /\ \A s \in WorkerState : WorkOk(log, s) => WorkOk(log', s)
          /\ \A c : CheckpointOk(log, c) => CheckpointOk(log', c)
      BY <2>2, WorkOkStays DEF TypeInv
    <3> QED
      BY <3>1, WorkerAt DEF WorkInv
  <2> QED
    BY <2>1, <2>2
<1>2. \A q \in Launches \cup Foreign : worker'[q] = IF q = p THEN Q ELSE worker[q]
  BY DEF TypeInv
<1> QED
  BY <1>1, <1>2 DEF WorkInv

LEMMA ExtendableOn ==
  ASSUME NEW lg \in Seq(Fields)
  PROVE  {0} \cup Extendable(lg, Len(lg)) \subseteq 0..Len(lg)
<1>1. Len(lg) \in Nat
  OBVIOUS
<1> QED
  BY <1>1 DEF Extendable

LEMMA PositionOk ==
  ASSUME TypeInv, WorkInv, NEW p \in Launches \cup Foreign,
         worker[p].at \in {"live", "inside", "bind", "bind exit"}
  PROVE  worker[p].position \in 0..Len(log)
<1>1. worker[p].position \in {0} \cup Extendable(log, Len(log))
  BY DEF WorkInv, WorkOk
<1>2. {0} \cup Extendable(log, Len(log)) \subseteq 0..Len(log)
  BY ExtendableOn DEF TypeInv
<1> QED
  BY <1>1, <1>2, Zenon

LEMMA ClaimCounts ==
  ASSUME TypeInv, WorkInv, NEW p \in Launches \cup Foreign, Claim(p)
  PROVE  WorkInv'
<1>1. PICK c \in {[node |-> 0, work |-> 0]}
            \cup OnHeadLineage(log, store, W, HeadNode) \cup MostProgress(log, store, W) :
       /\ Appended([Blank EXCEPT !.topic = "started", !.ref = c.node,
                                 !.rid = IF p \in Launches THEN p ELSE NoId])
       /\ worker' = [worker EXCEPT ![p] =
            [at |-> "live", claim |-> W + 1, position |-> c.node, work |-> c.work]]
  BY DEF Claim
<1>2. c \in store \/ c = [node |-> 0, work |-> 0]
  BY DEF OnHeadLineage, MostProgress, Complete
<1> DEFINE rid == IF p \in Launches THEN p ELSE NoId
           r == [Blank EXCEPT !.topic = "started", !.ref = c.node, !.rid = rid]
           Q == [at |-> "live", claim |-> W + 1, position |-> c.node, work |-> c.work]
<1>3. rid \in RequestIds \cup {NoId} /\ c.node \in Nat /\ c.work \in Nat /\ W + 1 \in Nat
  BY <1>2 DEF Launches, TypeInv, W
<1>4. Appended(r) /\ worker' = [worker EXCEPT ![p] = Q]
  BY <1>1
<1> HIDE DEF rid
<1>5. r \in Fields
  BY <1>3, BlankType DEF Fields, Topics
<1>6. Q \in WorkerState /\ Q.at = "live" /\ Q.position = c.node /\ Q.work = c.work
  BY <1>3 DEF WorkerState
<1> HIDE DEF r, Q
<1>7. log \in Seq(Fields) /\ 0 \in 0..Len(log)
  BY DEF TypeInv
<1>8. c.node \in {0} \cup Extendable(log, Len(log)) /\ c.work = Counted(log, c.node)
  <2>1. CASE c \in store
    BY <2>1 DEF WorkInv, CheckpointOk
  <2>2. CASE c = [node |-> 0, work |-> 0]
    BY <1>7, <2>2, CountIs
  <2> QED
    BY <1>2, <2>1, <2>2
<1>9. WorkOk(log, Q)
  BY <1>6, <1>8 DEF WorkOk
<1>10. WorkOk(log', Q)
  BY <1>4, <1>5, <1>6, <1>7, <1>9, WorkOkStays
<1>11. UNCHANGED store
  BY DEF Claim
<1> QED
  BY <1>4, <1>5, <1>6, <1>10, <1>11, WorksOn

LEMMA IterateCounts ==
  ASSUME TypeInv, WorkInv, NEW p \in Launches \cup Foreign, Iterate(p)
  PROVE  WorkInv'
<1> DEFINE s == worker[p]
           work == s.work + 1
           Q == [s EXCEPT !.at = "inside", !.work = work]
<1>1. s \in WorkerState /\ WorkOk(log, s)
  BY WorkerAt DEF WorkInv
<1>2. s.work \in Nat /\ work \in Nat
  <2>1. s.work \in Nat
    BY <1>1 DEF WorkerState
  <2> QED
    BY <2>1
<1>3. s.at = "live" /\ worker' = [worker EXCEPT ![p] = Q] /\ UNCHANGED <<log, store>>
  BY DEF Iterate, TypeInv
<1>4. work = Counted(log, s.position) + 1 /\ s.position \in {0} \cup Extendable(log, Len(log))
  BY <1>1, <1>3 DEF WorkOk
<1> HIDE DEF work
<1>5. Q \in WorkerState /\ Q.at = "inside" /\ Q.position = s.position /\ Q.work = work
  BY <1>1, <1>2 DEF WorkerState
<1> HIDE DEF Q
<1>6. WorkOk(log', Q)
  BY <1>3, <1>4, <1>5 DEF WorkOk
<1> QED
  BY <1>3, <1>5, <1>6, WorksOn

LEMMA CommitCounts ==
  ASSUME TypeInv, WorkInv, NEW p \in Launches \cup Foreign, Commit(p)
  PROVE  WorkInv'
<1> DEFINE s == worker[p]
           r == [Blank EXCEPT !.topic = "commit", !.claim = s.claim, !.ref = s.position]
           seq == W + 1
           at == IF SavesAtCommit(Cardinality(CommitsOn(log, s.position)) + 1)
                 THEN "bind" ELSE "live"
           Q == [s EXCEPT !.position = seq, !.at = at]
<1>1. s \in WorkerState /\ WorkOk(log, s) /\ log \in Seq(Fields)
  BY WorkerAt DEF WorkInv, TypeInv
<1>2. /\ seq \in Nat \ {0} /\ seq = Len(log) + 1 /\ at \in {"bind", "live"}
  BY DEF TypeInv, W
<1>3. r \in Fields /\ r.topic = "commit" /\ r.ref = s.position /\ r.body = ""
  BY <1>1, BlankType DEF WorkerState, Fields, Topics, Blank
<1>4. s.at = "inside" /\ Appended(r) /\ worker' = [worker EXCEPT ![p] = Q]
      /\ UNCHANGED store
  BY DEF Commit, TypeInv
<1> HIDE DEF at, seq
<1>5. Q \in WorkerState /\ Q.at = at /\ Q.position = seq /\ Q.work = s.work
  BY <1>1, <1>2 DEF WorkerState
<1> HIDE DEF Q, r
<1>6. s.position \in 0..Len(log) /\ s.work = Counted(log, s.position) + 1
  BY <1>1, <1>4, PositionOk DEF WorkOk
<1>7. Counted(log', seq) = s.work
  BY <1>1, <1>2, <1>3, <1>4, <1>6, CountGrows
<1>8. seq \in Extendable(log', Len(log'))
  <2>1. Len(log') = seq /\ log'[seq] = r
    BY <1>1, <1>2, <1>3, <1>4, Wrote DEF W
  <2>2. IsNode(r) /\ Readable(r) /\ ~Closed(r) /\ ~Torn(r)
    BY <1>3 DEF IsNode, Readable, Closed, Torn
  <2> QED
    BY <1>2, <2>1, <2>2 DEF Extendable
<1>9. WorkOk(log', Q)
  BY <1>2, <1>5, <1>7, <1>8 DEF WorkOk
<1> QED
  BY <1>3, <1>4, <1>5, <1>9, WorksOn

LEMMA BindCounts ==
  ASSUME TypeInv, WorkInv, NEW p \in Launches \cup Foreign, Bind(p)
  PROVE  WorkInv'
<1> DEFINE s == worker[p]
           L == [s EXCEPT !.at = "live"]
           Q == IF s.at = "bind" THEN L ELSE Gone(p)
           c == [node |-> s.position, work |-> s.work]
<1>1. s \in WorkerState /\ WorkOk(log, s)
  BY WorkerAt DEF WorkInv
<1>2. /\ s.at \in {"bind", "bind exit"} /\ worker' = [worker EXCEPT ![p] = Q]
      /\ store' = store \cup {c} /\ UNCHANGED log
  BY DEF Bind, TypeInv
<1>3. /\ Q \in WorkerState /\ Q.at \in {"live", "dead"}
      /\ Q.at = "live" => s.at = "bind" /\ Q.position = s.position /\ Q.work = s.work
  <2>1. /\ L \in WorkerState /\ L.at = "live"
        /\ L.position = s.position /\ L.work = s.work
    BY <1>1 DEF WorkerState
  <2> HIDE DEF L
  <2> QED
    BY <2>1, GoneIs
<1> HIDE DEF Q
<1>4. CheckpointOk(log', c)
  BY <1>1, <1>2 DEF WorkOk, CheckpointOk
<1>5. WorkOk(log', Q)
  BY <1>1, <1>2, <1>3 DEF WorkOk
<1> QED
  BY <1>2, <1>3, <1>4, <1>5, WorksOn

LEMMA ExitCounts ==
  ASSUME TypeInv, WorkInv, NEW p \in Launches \cup Foreign, NEW outcome \in Outcome,
         Exit(p, outcome)
  PROVE  WorkInv'
<1> DEFINE s == worker[p]
           torn == (outcome = "errored")
           r == [Blank EXCEPT !.topic = "stopped", !.claim = s.claim, !.ref = s.position,
                              !.body = outcome, !.torn = torn]
           seq == W + 1
           B == [s EXCEPT !.at = "bind exit", !.position = seq]
           D == Gone(p)
<1>1. s \in WorkerState /\ WorkOk(log, s) /\ log \in Seq(Fields)
  BY WorkerAt DEF WorkInv, TypeInv
<1>2. seq \in Nat \ {0} /\ seq = Len(log) + 1
  BY DEF TypeInv, W
<1>3. s.at \in {"live", "inside", "bind"} /\ Appended(r) /\ UNCHANGED store
  BY DEF Exit
<1>4. worker' = IF SavesAtExit(outcome) THEN [worker EXCEPT ![p] = B]
                ELSE [worker EXCEPT ![p] = D]
  BY DEF Exit, TypeInv
<1>5. SavesAtExit(outcome) => outcome = "preempted" /\ s.at = "live"
  BY DEF Exit, SavesAtExit
<1> HIDE DEF torn
<1>6. /\ r \in Fields /\ r.topic = "stopped" /\ r.ref = s.position
      /\ r.body = outcome /\ r.torn = torn
  BY <1>1, BlankType DEF WorkerState, Fields, Topics, Bodies, Outcome, Blank, torn
<1> HIDE DEF seq
<1>7. /\ B \in WorkerState /\ B.at = "bind exit" /\ B.position = seq /\ B.work = s.work
      /\ D \in WorkerState /\ D.at = "dead"
  BY <1>1, <1>2, GoneIs DEF WorkerState
<1> HIDE DEF B, D, r
<1>8. CASE SavesAtExit(outcome)
  <2>1. s.position \in 0..Len(log) /\ s.work = Counted(log, s.position)
        /\ Counted(log, s.position) \in Nat
    BY <1>1, <1>5, <1>8, PositionOk, CountIs DEF WorkOk
  <2>2. Counted(log', seq) = s.work
    BY <1>1, <1>2, <1>3, <1>6, <2>1, CountGrows
  <2>3. Len(log') = seq /\ log'[seq] = r
    BY <1>1, <1>2, <1>3, <1>6, Wrote DEF W
  <2>4. outcome = "preempted" /\ ~torn
    BY <1>5, <1>8 DEF torn
  <2>5. seq \in Extendable(log', Len(log'))
    BY <1>2, <1>6, <2>3, <2>4 DEF Extendable, IsNode, Readable, Closed, Torn
  <2>6. WorkOk(log', B)
    BY <1>2, <1>7, <2>2, <2>5 DEF WorkOk
  <2> QED
    BY <1>3, <1>4, <1>6, <1>7, <1>8, <2>6, WorksOn
<1>9. CASE ~SavesAtExit(outcome)
  <2>1. WorkOk(log', D)
    BY <1>7 DEF WorkOk
  <2> QED
    BY <1>3, <1>4, <1>6, <1>7, <1>9, <2>1, WorksOn
<1> QED
  BY <1>8, <1>9

LEMMA EndsCounts ==
  ASSUME TypeInv, WorkInv, NEW p \in Launches \cup Foreign, Ends(p)
  PROVE  WorkInv'
<1> DEFINE Q == Gone(p)
<1>1. Q \in WorkerState /\ Q.at = "dead"
  BY GoneIs
<1>2. worker' = [worker EXCEPT ![p] = Q] /\ UNCHANGED <<log, store>>
  BY DEF Ends, TypeInv
<1> HIDE DEF Q
<1>3. WorkOk(log', Q)
  BY <1>1 DEF WorkOk
<1> QED
  BY <1>1, <1>2, <1>3, WorksOn

-----------------------------------------------------------------------------
(* The drives' steps boot a worker or leave them all, and report deaths. *)

Reports == UNCHANGED log \/ \E r \in Fields : Appended(r)

LEMMA UnclaimedReports == Unclaimed => Reports
BY DEF Unclaimed, Reports

LEMMA LeavesCounts ==
  ASSUME TypeInv, WorkInv, UNCHANGED <<worker, store>>, Reports
  PROVE  WorkInv'
<1>1. CASE UNCHANGED log
  BY <1>1 DEF WorkInv
<1>2. ASSUME NEW r \in Fields, Appended(r) PROVE WorkInv'
  <2>1. /\ \A s \in WorkerState : WorkOk(log, s) => WorkOk(log', s)
        /\ \A c : CheckpointOk(log, c) => CheckpointOk(log', c)
    BY <1>2, WorkOkStays DEF TypeInv
  <2> QED
    BY <2>1, WorkerAt DEF WorkInv
<1> QED
  BY <1>1, <1>2 DEF Reports

LEMMA ExtendCounts ==
  ASSUME Inv, WorkInv, NEW e \in Ensurers, Extend(e)
  PROVE  WorkInv'
<1>0. TypeInv
  BY DEF Inv
<1>1. CASE UNCHANGED <<log, worker, store>>
  BY <1>0, <1>1, LeavesCounts DEF Reports
<1>2. CASE ~UNCHANGED <<log, worker, store>>
  <2>1. PICK l : l = (CHOOSE m \in Fresh(e) : TRUE)
    OBVIOUS
  <2>2. /\ Fresh(e) # {} /\ worker' = [worker EXCEPT ![l] = Booting] /\ UNCHANGED store
        /\ UNCHANGED log \/ \E c \in DeadHeld : Appended(DiedLost(c))
    BY <1>2, <2>1 DEF Extend
  <2>3. l \in Launches \cup Foreign
    BY <2>1, <2>2 DEF Fresh
  <2>4. Booting \in WorkerState /\ Booting.at = "boot"
    BY DEF Booting, WorkerState
  <2>5. Reports
    BY <1>0, <2>2, LostUnclaimed, UnclaimedReports DEF Reports
  <2>6. WorkOk(log', Booting)
    BY <2>4 DEF WorkOk
  <2> QED
    BY <1>0, <2>2, <2>3, <2>4, <2>5, <2>6, WorksOn DEF Reports
<1> QED
  BY <1>1, <1>2

LEMMA DriveCounts ==
  ASSUME Inv, WorkInv, NEW e \in Ensurers, DriveStep(e)
  PROVE  WorkInv'
<1>0. TypeInv
  BY DEF Inv
<1>1. CASE Extend(e)
  BY <1>1, ExtendCounts
<1>2. CASE ~Extend(e)
  <2>1. UNCHANGED <<worker, store>>
    BY <1>2 DEF DriveStep, ReadFirst, ReadAlive, ReportIfDead, Poll, Recordless, WaitFor
  <2>2. Reports
    BY <1>2, ReadFirstSteers, ReadAliveSteers, ReportIfDeadSteers, PollSteers,
       RecordlessSteers, WaitForSteers, UnclaimedReports DEF DriveStep, Steers
  <2> QED
    BY <1>0, <2>1, <2>2, LeavesCounts
<1> QED
  BY <1>1, <1>2

-----------------------------------------------------------------------------

LEMMA WorkInvHolds == Spec => [](Inv /\ WorkInv)
<1>1. ASSUME Init PROVE WorkInv
  <2>1. store = {}
    BY <1>1 DEF Init
  <2>2. \A p \in Launches \cup Foreign : worker[p].at \in {"boot", "none"}
    BY <1>1 DEF Init, Booting
  <2> QED
    BY <2>1, <2>2 DEF WorkInv, WorkOk
<1>2. ASSUME Inv, WorkInv, [Next]_vars PROVE WorkInv'
  <2>0. TypeInv
    BY <1>2 DEF Inv
  <2>1. ASSUME NEW p \in Launches \cup Foreign, WorkerStep(p) PROVE WorkInv'
    BY <1>2, <2>0, <2>1, ClaimCounts, IterateCounts, CommitCounts, BindCounts, ExitCounts,
       EndsCounts DEF WorkerStep, Outcome
  <2>2. ASSUME NEW e \in Ensurers, DriveStep(e) PROVE WorkInv'
    BY <1>2, <2>2, DriveCounts
  <2>3. CASE UNCHANGED <<log, worker, store>>
    BY <1>2, <2>0, <2>3, LeavesCounts DEF Reports
  <2> QED
    BY <1>2, <2>1, <2>2, <2>3 DEF Next, WrapperEnds, vars
<1> QED
  BY <1>1, <1>2, InitInv, NextInv, PTL DEF Spec

(* Every checkpoint holds the state of the node that names it, and a       *)
(* worker between iterations has run the commits of its lineage, whatever  *)
(* crashes, raises or resumes between a prepare and its bind.              *)
THEOREM NoLieIsWritten == Spec => []NoLineageLie
<1>1. Inv /\ WorkInv => NoLineageLie
  BY DEF Inv, TypeInv, WorkInv, WorkOk, CheckpointOk, NoLineageLie, W, Counted
<1> QED
  BY <1>1, WorkInvHolds, PTL
=============================================================================
