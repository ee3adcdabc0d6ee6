--------------------------- MODULE Worker_proofs ---------------------------
(***************************************************************************)
(* Proofs about module Worker, for every set of workers, reporters and     *)
(* requests, every bound and every combination of faults.  First the type  *)
(* of every step and what a worker remembers of its claim.  Then what      *)
(* holds of the claims, the exits, the death reports, the heads and the    *)
(* lineages in every reachable state, and with it that the protocol        *)
(* implements the register of claims.                                      *)
(***************************************************************************)
EXTENDS WorkerProps, RunLog_proofs, FiniteSetTheorems

-----------------------------------------------------------------------------
(* The functions from worker state to worker state preserve its type.      *)

LEMMA NoNodeType == NoNode \in NodeUnderWay
BY DEF NoNode, NodeUnderWay

LEMMA TornNodeType ==
  ASSUME NEW body \in {"", "completed", "preempted", "errored"}
  PROVE  TornNode(body) \in NodeUnderWay
BY NoNodeType DEF TornNode, NoNode, NodeUnderWay

LEMMA NewWorkerType == NewWorker \in WorkerState
BY NoNodeType DEF NewWorker, WorkerState, Pcs, Phases

LEMMA IdleType ==
  ASSUME NEW s \in WorkerState
  PROVE  /\ Idle(s) \in WorkerState
         /\ Idle(s).w = 0 /\ Idle(s).claim = s.claim /\ Idle(s).pc = "idle"
BY NoNodeType DEF Idle, WorkerState, Pcs

LEMMA DrainsType ==
  ASSUME NEW s \in WorkerState,
         NEW op \in {"none", "commit", "heartbeat", "exitNode", "exitCas"},
         NEW mode \in {"ITERATION", "EXIT"}, NEW under \in NodeUnderWay
  PROVE  /\ Drains(s, op, mode, under) \in WorkerState
         /\ Drains(s, op, mode, under).w = s.w
         /\ Drains(s, op, mode, under).claim = s.claim
         /\ Drains(s, op, mode, under).pc = "drain"
BY DEF Drains, WorkerState, Pcs

LEMMA TornUpdate ==
  ASSUME NEW t \in WorkerState, NEW d \in SUBSET Nat
  PROVE  LET u == [t EXCEPT !.phase = "discarded", !.pending = {}, !.dropped = d]
         IN  u \in WorkerState /\ u.w = t.w /\ u.claim = t.claim /\ u.pc = t.pc
BY DEF WorkerState, Phases

LEMMA TearType ==
  ASSUME NEW s \in WorkerState
  PROVE  /\ Tear(s) \in WorkerState
         /\ Tear(s).w = 0 /\ Tear(s).claim = s.claim /\ Tear(s).pc = "idle"
<1>1. Idle(s).dropped \cup s.pending \in SUBSET Nat
  BY IdleType DEF WorkerState
<1> QED
  BY <1>1, IdleType, TornUpdate, ZenonT(60) DEF Tear

LEMMA RewoundType ==
  ASSUME NEW s \in WorkerState, NEW n \in Nat
  PROVE  /\ Rewound(s, n) \in WorkerState
         /\ Rewound(s, n).w = s.w /\ Rewound(s, n).claim = s.claim
         /\ Rewound(s, n).pc = s.pc
BY DEF Rewound, WorkerState

LEMMA HandledType ==
  ASSUME NEW s \in WorkerState, NEW k \in Nat
  PROVE  /\ Handled(s, k) \in WorkerState
         /\ Handled(s, k).w = s.w /\ Handled(s, k).claim = s.claim
         /\ Handled(s, k).pc = s.pc
BY DEF Handled, WorkerState

LEMMA SpendIdType ==
  ASSUME NEW s \in WorkerState, NEW r \in RequestIds
  PROVE  /\ SpendId(s, r) \in WorkerState
         /\ SpendId(s, r).w = s.w /\ SpendId(s, r).claim = s.claim
         /\ SpendId(s, r).pc = s.pc
BY DEF SpendId, WorkerState

LEMMA DrainedToType ==
  ASSUME NEW s \in WorkerState
  PROVE  /\ DrainedTo(s) \in WorkerState
         /\ DrainedTo(s).w = 0 /\ DrainedTo(s).claim = s.claim
         /\ DrainedTo(s).pc = s.pc
BY DEF DrainedTo, WorkerState

LEMMA DecideType ==
  ASSUME NEW s \in WorkerState, NEW held \in SUBSET RequestIds
  PROVE  /\ Decide(s, held) \in WorkerState
         /\ Decide(s, held).w = s.w /\ Decide(s, held).claim = s.claim
         /\ Decide(s, held).pc = s.pc
BY DEF Decide, WorkerState

LEMMA StarveType ==
  ASSUME NEW s \in WorkerState
  PROVE  /\ Starve(s) \in WorkerState
         /\ Starve(s).w = 0 /\ Starve(s).claim = s.claim /\ Starve(s).pc = "idle"
BY ZenonT(60) DEF Starve, Idle, WorkerState, Phases, Pcs

LEMMA NodeLandedType ==
  ASSUME NEW s \in WorkerState, NEW n \in Nat
  PROVE  /\ NodeLanded(s, n) \in WorkerState
         /\ NodeLanded(s, n).w = 0 /\ NodeLanded(s, n).claim = s.claim
         /\ NodeLanded(s, n).pc = "idle"
<1> DEFINE leases == {r \in s.under.expired : s.subs[r] = "lease"}
           subs == [r \in RequestIds |-> IF r \in leases THEN "none" ELSE s.subs[r]]
<1>1. Idle(s).spent \cup leases \in SUBSET RequestIds
  BY IdleType DEF WorkerState, NodeUnderWay
<1>2. subs \in [RequestIds -> {"none", "durable", "lease"}]
  BY DEF WorkerState
<1>3. NodeLanded(s, n) = [Idle(s) EXCEPT !.node = n, !.pending = {},
                            !.spent = Idle(s).spent \cup leases, !.subs = subs]
  BY DEF NodeLanded
<1>4. Idle(s) \in WorkerState /\ Idle(s).w = 0 /\ Idle(s).claim = s.claim
      /\ Idle(s).pc = "idle"
  BY IdleType
<1> HIDE DEF leases, subs
<1> DEFINE t == Idle(s)  p == t.spent \cup leases
<1>5. LET u == [t EXCEPT !.node = n, !.pending = {}, !.spent = p, !.subs = subs]
      IN  u \in WorkerState /\ u.w = t.w /\ u.claim = t.claim /\ u.pc = t.pc
  <2> HIDE DEF t, p
  <2>1. t \in WorkerState /\ p \in SUBSET RequestIds
    BY <1>1, <1>4 DEF t, p
  <2> QED
    BY <2>1, <1>2 DEF WorkerState
<1> QED
  BY <1>3, <1>4, <1>5, Zenon

-----------------------------------------------------------------------------
(* The inductive invariant.  A worker about to compare-and-append its      *)
(* claim at W has seen the run free at W: the newest claim at or below W   *)
(* has an ending there.                                                    *)

SeqsOnLog ==
  \A w \in Workers : wk[w].w <= Len(log) /\ wk[w].claim <= Len(log)

FreeAt(lg, W) ==
  \A c \in Claims(lg, W) : IsNewestClaim(lg, c, W) => Endings(lg, c, W) # {}

FreeAtCas == \A w \in Workers : wk[w].pc = "cas" => FreeAt(log, wk[w].w)

TypeInv == TypeOK /\ SeqsOnLog

ClaimInv == TypeInv /\ FreeAtCas /\ ClaimsExclusive

-----------------------------------------------------------------------------
(* Records, and what appending one does.                                   *)

LEMMA RecordAt ==
  ASSUME log \in Seq(Record), NEW i \in 1..Len(log)
  PROVE  log[i] \in Fields /\ WellBodied(log[i])
BY DEF Record

LEMMA Sent ==
  ASSUME log \in Seq(Record), NEW e \in Record, Send(e)
  PROVE  /\ log' \in Seq(Record) /\ Len(log') = Len(log) + 1
         /\ \A i \in 1..Len(log) : log'[i] = log[i]
         /\ log'[Len(log) + 1] = e
BY DEF Send

LEMMA SpentType ==
  ASSUME log \in Seq(Record), NEW W \in 0..Len(log)
  PROVE  Spent(log, W) \in SUBSET RequestIds
<1> SUFFICES ASSUME NEW i \in 1..W PROVE SpentBy(log[i]) \in SUBSET RequestIds
  BY DEF Spent
<1>1. log[i] \in Fields
  BY RecordAt
<1> QED
  BY <1>1 DEF SpentBy, Fields

-----------------------------------------------------------------------------
(* What every step but a claim's does: worker w moves, to a state of the   *)
(* right type, with the same claim and not about to claim; and the log     *)
(* stays, or gets one record that is not a claim.                          *)

LogGrows ==
  \/ UNCHANGED log
  \/ \E e \in Record : e.topic # "started" /\ Send(e)

OthersTyped == rep' \in [Actors -> Report] /\ asked' \in Nat /\ called' \in Nat

WorkerMoves(w) ==
  /\ wk' = [wk EXCEPT ![w] = wk'[w]]
  /\ wk'[w] \in WorkerState
  /\ wk'[w].w <= Len(log')
  /\ wk'[w].claim = wk[w].claim
  /\ wk'[w].pc # "cas"
  /\ LogGrows
  /\ OthersTyped

LEMMA LogGrown ==
  ASSUME log \in Seq(Record), LogGrows
  PROVE  /\ log' \in Seq(Record) /\ Len(log) <= Len(log')
         /\ \A i \in 1..Len(log) : log'[i] = log[i]
         /\ \A i \in 1..Len(log') : log'[i].topic = "started" => i <= Len(log)
<1>1. CASE UNCHANGED log
  BY <1>1
<1>2. CASE \E e \in Record : e.topic # "started" /\ Send(e)
  <2> PICK e \in Record : e.topic # "started" /\ Send(e)
    BY <1>2
  <2> QED
    BY Sent
<1> QED
  BY <1>1, <1>2 DEF LogGrows

LEMMA MovesTo ==
  ASSUME TypeInv, NEW w \in Workers, NEW s \in WorkerState, Become(w, s),
         LogGrows, OthersTyped,
         s.w <= Len(log'), s.claim = wk[w].claim, s.pc # "cas"
  PROVE  WorkerMoves(w)
<1>1. wk'[w] = s
  BY DEF Become, TypeInv, TypeOK
<1> QED
  BY <1>1 DEF WorkerMoves, Become

(* A step that writes nothing and leaves the other variables alone. *)
LEMMA QuietlyTo ==
  ASSUME TypeInv, NEW w \in Workers, NEW s \in WorkerState, Become(w, s), Quiet,
         s.w <= Len(log), s.claim = wk[w].claim, s.pc # "cas"
  PROVE  WorkerMoves(w)
<1>1. LogGrows /\ OthersTyped /\ Len(log') = Len(log)
  BY DEF Quiet, LogGrows, OthersTyped, TypeInv, TypeOK
<1> QED
  BY <1>1, MovesTo

LEMMA StateOf ==
  ASSUME TypeInv, NEW w \in Workers
  PROVE  /\ wk[w] \in WorkerState /\ wk[w].w \in 0..Len(log)
         /\ wk[w].claim \in 0..Len(log) /\ Len(log) \in Nat
<1>1. wk[w] \in WorkerState /\ Len(log) \in Nat
  BY DEF TypeInv, TypeOK
<1>2. wk[w].w \in Nat /\ wk[w].claim \in Nat
  BY <1>1 DEF WorkerState
<1> QED
  BY <1>1, <1>2 DEF TypeInv, SeqsOnLog

-----------------------------------------------------------------------------
(* The claim's steps. *)

LEMMA RaiseMoves ==
  ASSUME TypeInv, NEW w \in Workers, Raise(w), Quiet
  PROVE  WorkerMoves(w)
<1> DEFINE t == Idle(wk[w])
           s == [t EXCEPT !.phase = "raised"]
<1>1. t \in WorkerState /\ t.w = 0 /\ t.claim = wk[w].claim /\ t.pc = "idle"
  BY StateOf, IdleType
<1>2. s \in WorkerState /\ s.w = 0 /\ s.claim = wk[w].claim /\ s.pc = "idle"
  <2> HIDE DEF t
  <2> QED
    BY <1>1 DEF WorkerState, Phases
<1>3. Become(w, s)
  BY DEF Raise
<1> HIDE DEF s
<1> QED
  BY <1>2, <1>3, StateOf, QuietlyTo

LEMMA ConstructMoves ==
  ASSUME TypeInv, NEW w \in Workers, Construct(w)
  PROVE  WorkerMoves(w)
<1> DEFINE v == wk[w]
           AtHead == [v EXCEPT !.pc = "claim", !.phase = "lost", !.follow = TRUE]
           AtNode(n) == [v EXCEPT !.pc = "claim", !.phase = "lost", !.node = n]
<1>1. v \in WorkerState /\ v.w <= Len(log)
  BY StateOf
<1>2. Quiet /\ (Become(w, AtHead) \/ \E n \in Nat : Become(w, AtNode(n)))
  <2>1. Extendable(log, Len(log)) \subseteq Nat
    BY DEF Extendable
  <2> QED
    BY <2>1 DEF Construct
<1>3. AtHead \in WorkerState /\ AtHead.w = v.w /\ AtHead.claim = v.claim /\ AtHead.pc = "claim"
  <2> HIDE DEF v
  <2> QED
    BY <1>1, ZenonT(60) DEF WorkerState, Pcs, Phases
<1>4. ASSUME NEW n \in Nat
      PROVE  /\ AtNode(n) \in WorkerState /\ AtNode(n).w = v.w
             /\ AtNode(n).claim = v.claim /\ AtNode(n).pc = "claim"
  <2> HIDE DEF v
  <2> QED
    BY <1>1, ZenonT(60) DEF WorkerState, Pcs, Phases
<1> HIDE DEF AtHead, AtNode
<1>5. CASE Become(w, AtHead)
  BY <1>1, <1>2, <1>3, <1>5, QuietlyTo
<1>6. CASE \E n \in Nat : Become(w, AtNode(n))
  BY <1>1, <1>2, <1>4, <1>6, QuietlyTo
<1> QED
  BY <1>2, <1>5, <1>6

LEMMA ResumePointMoves ==
  ASSUME TypeInv, NEW w \in Workers, ResumePoint(w)
  PROVE  WorkerMoves(w)
<1> DEFINE v == wk[w]
           W == Len(log)
           k == v.tries + 1
           At0(n) == [v EXCEPT !.pc = "latest", !.w = W, !.node = n, !.tries = k]
<1>1. v \in WorkerState /\ W \in Nat /\ k \in Nat
  BY StateOf, SMTT(60) DEF WorkerState
<1>2. \A n \in 0..Len(log) : ResumeNode(log, n) \in Nat
  <2> TAKE n \in 0..Len(log)
  <2>1. CASE n = 0
    BY <2>1 DEF ResumeNode
  <2>2. CASE n # 0
    <3>1. log[n] \in Fields
      BY <2>2, RecordAt DEF TypeInv, TypeOK
    <3> QED
      BY <3>1 DEF ResumeNode, Fields
  <2> QED
    BY <2>1, <2>2
<1>3. Quiet /\ \/ Raise(w)
               \/ Become(w, At0(v.node)) \/ Become(w, At0(0))
               \/ \E n \in 0..Len(log) : Become(w, At0(ResumeNode(log, n)))
  BY DEF ResumePoint
<1>4. ASSUME NEW n \in Nat
      PROVE  /\ At0(n) \in WorkerState /\ At0(n).w = W
             /\ At0(n).claim = v.claim /\ At0(n).pc = "latest"
  <2> HIDE DEF v, W, k
  <2> QED
    BY <1>1 DEF WorkerState, Pcs
<1>5. v.node \in Nat
  BY <1>1 DEF WorkerState
<1> HIDE DEF At0
<1>6. CASE Raise(w)
  BY <1>3, <1>6, RaiseMoves
<1>7. CASE \E n \in Nat : Become(w, At0(n))
  BY <1>1, <1>3, <1>4, <1>7, QuietlyTo
<1> QED
  BY <1>2, <1>3, <1>5, <1>6, <1>7

LEMMA ClaimStarvedMoves ==
  ASSUME TypeInv, NEW w \in Workers, ClaimStarved(w)
  PROVE  WorkerMoves(w)
BY RaiseMoves DEF ClaimStarved

LEMMA FoldMoves ==
  ASSUME TypeInv, NEW w \in Workers, FoldAnswers(w) \/ FoldRaises(w)
  PROVE  WorkerMoves(w)
<1> USE StateOf
<1>1. CASE FoldAnswers(w)
  <2> DEFINE t == Idle(wk[w])
             p == Spent(log, wk[w].claim - 1)
             s == [t EXCEPT !.folded = TRUE, !.drained = 0, !.spent = p]
  <2>1. t \in WorkerState /\ t.w = 0 /\ t.claim = wk[w].claim /\ t.pc = "idle"
    BY IdleType
  <2>2. p \in SUBSET RequestIds
    <3>1. CASE wk[w].claim = 0
      BY <3>1 DEF Spent
    <3>2. CASE wk[w].claim # 0
      BY <3>2, SpentType, SMTT(60) DEF TypeInv, TypeOK
    <3> QED
      BY <3>1, <3>2
  <2>3. Become(w, s) /\ Quiet
    BY <1>1 DEF FoldAnswers
  <2>4. s \in WorkerState /\ s.w = 0 /\ s.claim = wk[w].claim /\ s.pc = "idle"
    <3> HIDE DEF t, p
    <3> QED
      BY <2>1, <2>2, ZenonT(60) DEF WorkerState
  <2> HIDE DEF s
  <2> QED
    BY <2>3, <2>4, QuietlyTo
<1>2. CASE FoldRaises(w)
  <2> DEFINE u == [NoNode EXCEPT !.body = "errored"]
             s == Drains(wk[w], "exitNode", "EXIT", u)
  <2>1. u \in NodeUnderWay
    BY DEF NoNode, NodeUnderWay
  <2>2. Become(w, s) /\ Quiet
    BY <1>2 DEF FoldRaises
  <2> HIDE DEF u
  <2>3. s \in WorkerState /\ s.w = wk[w].w /\ s.claim = wk[w].claim /\ s.pc = "drain"
    BY <2>1, DrainsType
  <2> HIDE DEF s
  <2> QED
    BY <2>2, <2>3, QuietlyTo
<1> QED
  BY <1>1, <1>2

LEMMA ProbeMoves ==
  ASSUME TypeInv, NEW w \in Workers, ProbeLatest(w) \/ ProbeHeld(w)
  PROVE  WorkerMoves(w)
<1> DEFINE v == wk[w]
<1>1. v \in WorkerState /\ v.w <= Len(log) /\ Len(log) \in Nat
  BY StateOf
<1>2. CASE ProbeLatest(w)
  <2> PICK c \in Claims(log, Len(log)) : Become(w, [v EXCEPT !.pc = "held", !.seen = c])
    BY <1>2 DEF ProbeLatest
  <2> DEFINE s == [v EXCEPT !.pc = "held", !.seen = c]
  <2>1. c \in Nat
    BY DEF Claims
  <2>2. s \in WorkerState /\ s.w = v.w /\ s.claim = v.claim /\ s.pc = "held"
    <3> HIDE DEF v
    <3> QED
      BY <1>1, <2>1 DEF WorkerState, Pcs
  <2>3. Become(w, s) /\ Quiet
    BY <1>2 DEF ProbeLatest
  <2> HIDE DEF s
  <2> QED
    BY <1>1, <2>2, <2>3, QuietlyTo
<1>3. CASE ProbeHeld(w)
  <2> DEFINE s == [v EXCEPT !.pc = "report"]
             r == [NoReport EXCEPT !.pc = "read", !.claim = v.seen]
  <2>1. Become(w, s) \/ Become(w, Idle(v))
    BY <1>3 DEF ProbeHeld
  <2>2. s \in WorkerState /\ s.w = v.w /\ s.claim = v.claim /\ s.pc = "report"
    <3> HIDE DEF v
    <3> QED
      BY <1>1 DEF WorkerState, Pcs
  <2>3. r \in Report
    BY <1>1 DEF WorkerState, NoReport, Report
  <2>4. LogGrows /\ OthersTyped /\ Len(log') = Len(log)
    <3>1. rep' = [rep EXCEPT ![w] = r] \/ rep' = rep
      BY <1>3 DEF ProbeHeld
    <3> HIDE DEF r
    <3> QED
      BY <1>3, <2>3, <3>1 DEF ProbeHeld, LogGrows, OthersTyped, TypeInv, TypeOK, Actors
  <2> HIDE DEF s
  <2>5. CASE Become(w, s)
    BY <1>1, <2>2, <2>4, <2>5, MovesTo
  <2>6. CASE Become(w, Idle(v))
    BY <1>1, <2>4, <2>6, IdleType, MovesTo
  <2> QED
    BY <2>1, <2>5, <2>6
<1> QED
  BY <1>2, <1>3

-----------------------------------------------------------------------------
(* Death reports.  They move no worker but a claimant, and no record but   *)
(* the report lands.                                                       *)

LEMMA DiedType ==
  ASSUME NEW c \in Nat, NEW o \in {"lost", "cause"}
  PROVE  LET e == [Blank EXCEPT !.topic = "died", !.claim = c, !.body = o]
         IN  e \in Record /\ e.topic = "died"
BY DEF Blank, Record, Fields, WellBodied, Topics, ControlTopics, Bodies

OthersMove == UNCHANGED wk /\ LogGrows /\ OthersTyped

LEMMA StartReportMoves ==
  ASSUME TypeInv, NEW p \in Reporters, StartReport(p)
  PROVE  OthersMove
<1> PICK c \in Claims(log, Len(log)), v \in Evidence :
      rep' = [rep EXCEPT ![p] = [NoReport EXCEPT
                 !.pc = "read", !.claim = c, !.outcome = v[1], !.force = v[2],
                 !.made = rep[p].made + 1]]
  BY DEF StartReport
<1> DEFINE m == rep[p].made + 1
           r == [NoReport EXCEPT !.pc = "read", !.claim = c, !.outcome = v[1],
                                 !.force = v[2], !.made = m]
<1>1. c \in Nat /\ v[1] \in {"lost", "cause"} /\ v[2] \in BOOLEAN
  BY EvidenceAssumption DEF Claims
<1>2. rep \in [Actors -> Report] /\ p \in Actors
  BY DEF TypeInv, TypeOK, Actors
<1>3. m \in Nat
  BY <1>2 DEF Report
<1>4. r \in Report
  <2> HIDE DEF m
  <2> QED
    BY <1>1, <1>3 DEF NoReport, Report
<1>5. rep' = [rep EXCEPT ![p] = r]
  OBVIOUS
<1> HIDE DEF r
<1>6. rep' \in [Actors -> Report]
  BY <1>2, <1>4, <1>5
<1> QED
  BY <1>6 DEF StartReport, OthersMove, LogGrows, OthersTyped, TypeInv, TypeOK

LEMMA ReportEndsMoves ==
  ASSUME TypeInv, NEW x \in Actors, NEW s, ReportEnds(x, s),
         x \in Workers => /\ s \in WorkerState /\ s.pc # "cas"
                          /\ s.w <= Len(log') /\ s.claim = wk[x].claim,
         LogGrows, UNCHANGED <<asked, called>>
  PROVE  OthersMove \/ (x \in Workers /\ WorkerMoves(x))
<1> DEFINE r == [NoReport EXCEPT !.made = rep[x].made]
<1>1. rep \in [Actors -> Report]
  BY DEF TypeInv, TypeOK
<1>2. r \in Report
  BY <1>1 DEF NoReport, Report
<1>3. rep' = [rep EXCEPT ![x] = r]
  BY DEF ReportEnds
<1> HIDE DEF r
<1>4. rep' \in [Actors -> Report]
  BY <1>1, <1>2, <1>3
<1>5. OthersTyped
  BY <1>4 DEF OthersTyped, TypeInv, TypeOK
<1>6. CASE x \in Workers
  BY <1>5, <1>6, MovesTo DEF ReportEnds
<1>7. CASE x \notin Workers
  BY <1>5, <1>7 DEF ReportEnds, OthersMove
<1> QED
  BY <1>6, <1>7

LEMMA ReportStepMoves ==
  ASSUME TypeInv, NEW x \in Actors, ReportStep(x)
  PROVE  OthersMove \/ (x \in Workers /\ WorkerMoves(x))
<1> DEFINE r == rep[x]
           v == wk[x]
<1>1. r \in Report /\ rep \in [Actors -> Report] /\ Len(log) \in Nat
  BY DEF TypeInv, TypeOK
<1>2. x \in Workers => v \in WorkerState /\ v.w <= Len(log)
  BY StateOf
<1>3. CASE ReportRead(x)
  <2>0. LogGrows /\ UNCHANGED <<log, asked, called>>
    BY <1>3 DEF ReportRead, LogGrows
  <2>1. CASE ReportEnds(x, Idle(v))
    <3>1. x \in Workers => /\ Idle(v) \in WorkerState /\ Idle(v).pc # "cas"
                           /\ Idle(v).w <= Len(log') /\ Idle(v).claim = wk[x].claim
      BY <1>1, <1>2, <2>0, IdleType
    <3> QED
      BY <2>0, <2>1, <3>1, ReportEndsMoves
  <2>2. CASE /\ rep' = [rep EXCEPT ![x] = [r EXCEPT !.pc = "cas", !.w = Len(log),
                                                    !.tries = r.tries + 1]]
             /\ UNCHANGED wk
    <3> DEFINE W == Len(log)
               k == r.tries + 1
               t == [r EXCEPT !.pc = "cas", !.w = W, !.tries = k]
    <3>1. W \in Nat /\ k \in Nat
      BY <1>1 DEF Report
    <3>2. t \in Report
      <4> HIDE DEF r, W, k
      <4> QED
        BY <1>1, <3>1 DEF Report
    <3>3. rep' = [rep EXCEPT ![x] = t]
      BY <2>2
    <3> HIDE DEF t
    <3>4. rep' \in [Actors -> Report]
      BY <1>1, <3>2, <3>3
    <3> QED
      BY <2>0, <2>2, <3>4 DEF OthersMove, OthersTyped, TypeInv, TypeOK
  <2> QED
    BY <1>3, <2>1, <2>2 DEF ReportRead
<1>4. CASE ReportCas(x)
  <2> DEFINE e == [Blank EXCEPT !.topic = "died", !.claim = r.claim, !.body = r.outcome]
             s == [v EXCEPT !.pc = "claim", !.seen = 0]
  <2>0. UNCHANGED <<asked, called>>
    BY <1>4 DEF ReportCas
  <2>1. CASE Send(e) /\ ReportEnds(x, s)
    <3>0. r.claim \in Nat /\ r.outcome \in {"lost", "cause"}
      BY <1>1 DEF Report
    <3>1. e \in Record /\ e.topic = "died"
      BY <3>0, DiedType, Zenon
    <3> HIDE DEF e
    <3>2. LogGrows /\ Len(log') = Len(log) + 1
      BY <2>1, <3>1, Sent DEF LogGrows, TypeInv, TypeOK
    <3>3. x \in Workers => /\ s \in WorkerState /\ s.pc # "cas"
                           /\ s.w = v.w /\ s.claim = v.claim
      <4> HIDE DEF v
      <4> QED
        BY <1>2 DEF WorkerState, Pcs
    <3> HIDE DEF s
    <3>4. x \in Workers => s.w <= Len(log')
      <4> SUFFICES ASSUME x \in Workers PROVE s.w <= Len(log')
        OBVIOUS
      <4>1. v.w \in Nat
        BY <1>2 DEF WorkerState
      <4> QED
        BY <1>1, <1>2, <3>2, <3>3, <4>1
    <3> QED
      BY <2>0, <2>1, <3>2, <3>3, <3>4, ReportEndsMoves
  <2>2. CASE rep' = [rep EXCEPT ![x].pc = "read"] /\ UNCHANGED <<log, wk>>
    <3> DEFINE t == [r EXCEPT !.pc = "read"]
    <3>1. t \in Report
      <4> HIDE DEF r
      <4> QED
        BY <1>1 DEF Report
    <3>3. rep' = [rep EXCEPT ![x] = t]
      BY <2>2
    <3> HIDE DEF t
    <3>2. rep' \in [Actors -> Report]
      BY <1>1, <3>1, <3>3
    <3> QED
      BY <2>0, <2>2, <3>2 DEF OthersMove, OthersTyped, LogGrows, TypeInv, TypeOK
  <2> QED
    BY <1>4, <2>1, <2>2 DEF ReportCas
<1>5. CASE ReportStarved(x)
  <2> DEFINE t == Idle(v)
             s == [t EXCEPT !.phase = "raised"]
  <2>1. ReportEnds(x, s) /\ UNCHANGED <<log, asked, called>> /\ LogGrows
    BY <1>5 DEF ReportStarved, LogGrows
  <2>2. x \in Workers => t \in WorkerState /\ t.w = 0 /\ t.claim = v.claim /\ t.pc = "idle"
    BY <1>2, IdleType
  <2>3. x \in Workers => s \in WorkerState /\ s.w = 0 /\ s.claim = v.claim /\ s.pc = "idle"
    <3> HIDE DEF t
    <3> QED
      BY <2>2 DEF WorkerState, Phases
  <2> HIDE DEF s
  <2> QED
    BY <1>1, <2>1, <2>3, ReportEndsMoves
<1> QED
  BY <1>3, <1>4, <1>5 DEF ReportStep

-----------------------------------------------------------------------------
(* The driver's calls. *)

LEMMA EagerType ==
  LET e == [Blank EXCEPT !.body = "eager"] IN e \in Record /\ e.topic = "value"
BY DEF Blank, Record, Fields, WellBodied, Topics, ControlTopics, Bodies

LEMMA RewindType ==
  ASSUME NEW c \in Nat, NEW n \in Nat
  PROVE  LET e == [Blank EXCEPT !.topic = "rewind", !.claim = c, !.ref = n]
         IN  e \in Record /\ e.topic = "rewind"
BY DEF Blank, Record, Fields, WellBodied, Topics, ControlTopics, Bodies

LEMMA CountedTyped ==
  ASSUME TypeInv, Counted
  PROVE  called' \in Nat
BY DEF Counted, TypeInv, TypeOK

(* A call that writes nothing. *)
LEMMA SilentlyTo ==
  ASSUME TypeInv, NEW w \in Workers, NEW s \in WorkerState, Become(w, s),
         Counted, Silent, s.w <= Len(log), s.claim = wk[w].claim, s.pc # "cas"
  PROVE  WorkerMoves(w)
<1>1. LogGrows /\ OthersTyped /\ Len(log') = Len(log)
  BY CountedTyped DEF Silent, LogGrows, OthersTyped, TypeInv, TypeOK
<1> QED
  BY <1>1, MovesTo

(* A step that appends one record, not a claim. *)
LEMMA SendsTo ==
  ASSUME TypeInv, NEW w \in Workers, NEW s \in WorkerState, Become(w, s),
         NEW e \in Record, Send(e), e.topic # "started",
         UNCHANGED <<rep, asked>>, called' \in Nat,
         s.w <= Len(log) + 1, s.claim = wk[w].claim, s.pc # "cas"
  PROVE  WorkerMoves(w)
<1>1. LogGrows /\ OthersTyped /\ Len(log') = Len(log) + 1
  BY Sent DEF LogGrows, OthersTyped, TypeInv, TypeOK
<1> QED
  BY <1>1, MovesTo

LEMMA CallMoves ==
  ASSUME TypeInv, NEW w \in Workers,
         \/ Emit(w) \/ SetRegister(w) \/ Include(w) \/ Rewind(w) \/ Discard(w)
  PROVE  WorkerMoves(w)
<1> DEFINE v == wk[w]
<1>1. v \in WorkerState /\ Len(log) \in Nat /\ v.claim \in Nat /\ v.w <= Len(log)
  BY StateOf
<1>9. v.w <= Len(log) + 1
  BY <1>1 DEF WorkerState
<1>0. v.pc = "idle" /\ called' \in Nat /\ Counted
  BY CountedTyped DEF Emit, SetRegister, Include, Rewind, Discard, Call, Callable, At
<1>2. CASE Emit(w)
  <2> DEFINE e == [Blank EXCEPT !.body = "eager"]
             p == v.pending \cup {Len(log) + 1}
             s == [v EXCEPT !.pending = p]
  <2>1. p \in SUBSET Nat
    BY <1>1 DEF WorkerState
  <2>2. s \in WorkerState /\ s.w = v.w /\ s.claim = v.claim /\ s.pc = v.pc
    <3> HIDE DEF v, p
    <3> QED
      BY <1>1, <2>1 DEF WorkerState
  <2>3. Send(e) /\ Become(w, s) /\ UNCHANGED <<rep, asked>>
    BY <1>2 DEF Emit
  <2>4. e \in Record /\ e.topic = "value"
    BY EagerType
  <2> HIDE DEF s, e
  <2> QED
    BY <1>0, <1>1, <1>9, <2>2, <2>3, <2>4, SendsTo
<1>3. CASE SetRegister(w)
  <2> DEFINE s == [v EXCEPT !.reg = {v.node}]
             g == {v.node}
  <2>1. g \in SUBSET Nat
    BY <1>1 DEF WorkerState
  <2>2. s \in WorkerState /\ s.w = v.w /\ s.claim = v.claim /\ s.pc = v.pc
    <3>1. s = [v EXCEPT !.reg = g]
      OBVIOUS
    <3> HIDE DEF v, g, s
    <3> QED
      BY <1>1, <2>1, <3>1 DEF WorkerState
  <2>3. Become(w, s) /\ Silent
    BY <1>3 DEF SetRegister
  <2> HIDE DEF s
  <2> QED
    BY <1>0, <1>1, <2>2, <2>3, SilentlyTo
<1>4. CASE Include(w)
  <2> PICK k \in Includable(v) : Become(w, [v EXCEPT !.pending = @ \cup {k}])
    BY <1>4 DEF Include
  <2> DEFINE p == v.pending \cup {k}
             s == [v EXCEPT !.pending = p]
  <2>1. p \in SUBSET Nat
    BY <1>1 DEF WorkerState, Includable
  <2>2. s \in WorkerState /\ s.w = v.w /\ s.claim = v.claim /\ s.pc = v.pc
    <3> HIDE DEF v, p
    <3> QED
      BY <1>1, <2>1 DEF WorkerState
  <2>3. Become(w, s) /\ Silent
    BY <1>4 DEF Include
  <2> HIDE DEF s
  <2> QED
    BY <1>0, <1>1, <2>2, <2>3, SilentlyTo
<1>5. CASE Rewind(w)
  <2> PICK n \in {0} \cup Extendable(log, Len(log)) :
        /\ Send([Blank EXCEPT !.topic = "rewind", !.claim = v.claim, !.ref = n])
        /\ Become(w, Rewound(v, n))
    BY <1>5 DEF Rewind
  <2> DEFINE e == [Blank EXCEPT !.topic = "rewind", !.claim = v.claim, !.ref = n]
  <2>1. n \in Nat
    BY DEF Extendable
  <2>2. e \in Record /\ e.topic = "rewind"
    BY <1>1, <2>1, RewindType, Zenon
  <2>3. Send(e) /\ UNCHANGED <<rep, asked>>
    BY <1>5 DEF Rewind
  <2> HIDE DEF e
  <2> QED
    BY <1>0, <1>1, <1>9, <2>1, <2>2, <2>3, RewoundType, SendsTo
<1>6. CASE Discard(w)
  BY <1>0, <1>1, <1>6, TearType, SilentlyTo DEF Discard
<1> QED
  BY <1>2, <1>3, <1>4, <1>5, <1>6

LEMMA BeginMoves ==
  ASSUME TypeInv, NEW w \in Workers,
         \/ BeginCommit(w) \/ BeginHeartbeat(w) \/ BeginRetire(w)
         \/ BeginStopped(w) \/ RetryStarved(w)
  PROVE  WorkerMoves(w)
<1> DEFINE v == wk[w]
           Errs(b) == [NoNode EXCEPT !.body = b]
<1>1. v \in WorkerState /\ v.under \in NodeUnderWay /\ v.w <= Len(log)
  BY StateOf DEF WorkerState
<1>2. \A b \in {"completed", "preempted", "errored"} : Errs(b) \in NodeUnderWay
  BY DEF NoNode, NodeUnderWay
<1> HIDE DEF Errs
<1>3. CASE BeginCommit(w) \/ BeginHeartbeat(w)
  BY <1>1, <1>3, NoNodeType, DrainsType, SilentlyTo, ZenonT(60)
  DEF BeginCommit, BeginHeartbeat, Call
<1>4. CASE BeginRetire(w)
  BY <1>1, <1>2, <1>4, DrainsType, SilentlyTo, ZenonT(60) DEF BeginRetire, Call, Errs
<1>5. CASE RetryStarved(w)
  BY <1>1, <1>5, DrainsType, SilentlyTo DEF RetryStarved
<1>6. CASE BeginStopped(w)
  <2> PICK b \in {"completed", "preempted", "errored"} :
        Become(w, Drains(v, "exitNode", "EXIT", Errs(b)))
    BY <1>6 DEF BeginStopped, Errs
  <2>1. Errs(b) \in NodeUnderWay /\ Quiet
    BY <1>2, <1>6 DEF BeginStopped
  <2> QED
    BY <1>1, <2>1, DrainsType, QuietlyTo
<1> QED
  BY <1>3, <1>4, <1>5, <1>6

-----------------------------------------------------------------------------
(* The drain. *)

LEMMA DrainReadMoves ==
  ASSUME TypeInv, NEW w \in Workers, DrainRead(w)
  PROVE  WorkerMoves(w)
<1> DEFINE v == wk[w]
           i == Idle(v)
           W == Len(log)
           k == v.tries + 1
           released == [i EXCEPT !.phase = "released"]
           take == [v EXCEPT !.pc = "take", !.w = W, !.tries = k]
<1>1. /\ v \in WorkerState /\ W \in Nat /\ k \in Nat
  BY StateOf, SMTT(60) DEF WorkerState
<1>2. i \in WorkerState /\ i.w = 0 /\ i.claim = v.claim /\ i.pc = "idle"
  BY <1>1, IdleType
<1>3. /\ released \in WorkerState /\ released.w = 0
      /\ released.claim = v.claim /\ released.pc = "idle"
  <2> HIDE DEF i
  <2> QED
    BY <1>2 DEF WorkerState, Phases
<1>4. take \in WorkerState /\ take.w = W /\ take.claim = v.claim /\ take.pc = "take"
  <2> HIDE DEF v, W, k
  <2> QED
    BY <1>1 DEF WorkerState, Pcs
<1>6. Quiet /\ (Become(w, released) \/ Become(w, take))
  BY DEF DrainRead
<1> HIDE DEF released, take
<1>7. CASE Become(w, released)
  BY <1>1, <1>3, <1>6, <1>7, QuietlyTo
<1>8. CASE Become(w, take)
  BY <1>1, <1>4, <1>6, <1>8, QuietlyTo
<1> QED
  BY <1>6, <1>7, <1>8

(* A call that raises leaves its worker idle where it was. *)
LEMMA FailsType ==
  ASSUME NEW s \in WorkerState
  PROVE  /\ Fails(s) \in WorkerState /\ Fails(s).w = 0 /\ Fails(s).pc = "idle"
         /\ Fails(s).claim = s.claim /\ Fails(s).phase = s.phase
         /\ Fails(s).up = s.up /\ Fails(s).folded = s.folded /\ Fails(s).bound = s.bound
         /\ Fails(s).node = s.node /\ Fails(s).subs = s.subs /\ Fails(s).reg = s.reg
         /\ Fails(s).pending = s.pending /\ Fails(s).mark = s.mark
         /\ Fails(s).drained = s.drained /\ Fails(s).spent = s.spent
         /\ Fails(s).stops = s.stops /\ Fails(s).op = "none"
         /\ Fails(s).mode = "ITERATION"
         /\ Fails(s).under = IF s.phase = "starved" THEN s.under ELSE NoNode
         /\ Fails(s).failed = (s.failed \/ (s.mode = "EXIT" /\ s.phase = "live"))
<1> DEFINE i == Idle(s)
           u == IF s.phase = "starved" THEN s.under ELSE NoNode
           f == s.failed \/ (s.mode = "EXIT" /\ s.phase = "live")
           t == [i EXCEPT !.under = u, !.failed = f]
<1>1. /\ i \in WorkerState /\ i.w = 0 /\ i.pc = "idle" /\ i.claim = s.claim
      /\ i.phase = s.phase /\ i.up = s.up /\ i.folded = s.folded /\ i.bound = s.bound
      /\ i.node = s.node /\ i.subs = s.subs /\ i.reg = s.reg /\ i.pending = s.pending
      /\ i.mark = s.mark /\ i.drained = s.drained /\ i.spent = s.spent
      /\ i.stops = s.stops /\ i.failed = s.failed /\ i.op = "none"
      /\ i.mode = "ITERATION"
  <2>1. i \in WorkerState /\ i.w = 0 /\ i.pc = "idle" /\ i.claim = s.claim
    BY IdleType DEF Idle, WorkerState
  <2>2. /\ i.phase = s.phase /\ i.up = s.up /\ i.folded = s.folded /\ i.bound = s.bound
        /\ i.node = s.node /\ i.subs = s.subs /\ i.reg = s.reg
    BY DEF Idle, WorkerState
  <2>3. /\ i.pending = s.pending /\ i.mark = s.mark /\ i.drained = s.drained
        /\ i.spent = s.spent /\ i.stops = s.stops /\ i.failed = s.failed
        /\ i.op = "none" /\ i.mode = "ITERATION"
    BY DEF Idle, WorkerState
  <2> QED
    BY <2>1, <2>2, <2>3
<1>2. u \in NodeUnderWay /\ f \in BOOLEAN
  BY NoNodeType DEF WorkerState
<1>3. Fails(s) = t
  BY <1>1 DEF Fails
<1> HIDE DEF i, u, f
<1>4. /\ t \in WorkerState /\ t.w = i.w /\ t.pc = i.pc /\ t.claim = i.claim
      /\ t.phase = i.phase /\ t.up = i.up /\ t.folded = i.folded /\ t.bound = i.bound
      /\ t.node = i.node /\ t.subs = i.subs /\ t.reg = i.reg /\ t.pending = i.pending
      /\ t.mark = i.mark /\ t.drained = i.drained /\ t.spent = i.spent
      /\ t.stops = i.stops /\ t.under = u /\ t.failed = f /\ t.op = i.op
      /\ t.mode = i.mode
  BY <1>1, <1>2 DEF WorkerState
<1> HIDE DEF t
<1> QED
  BY <1>1, <1>3, <1>4 DEF u, f

(* A step in which a call raises. *)
Raising(w) == DrainStarved(w) \/ CallRaises(w)

LEMMA RaisingIs ==
  ASSUME TypeInv, NEW w \in Workers, Raising(w)
  PROVE  /\ wk[w] \in WorkerState /\ Become(w, Fails(wk[w])) /\ wk'[w] = Fails(wk[w])
         /\ wk[w].up /\ wk[w].pc \in {"drain", "take", "sample", "send", "beat"}
         /\ UNCHANGED <<log, rep, asked>> /\ called' \in Nat
<1>1. wk[w] \in WorkerState
  BY StateOf
<1>2. called \in Nat
  BY DEF TypeInv, TypeOK
<1>3. Become(w, Fails(wk[w])) => wk'[w] = Fails(wk[w])
  BY DEF Become, TypeInv, TypeOK
<1>4. CASE DrainStarved(w)
  BY <1>1, <1>2, <1>3, <1>4 DEF DrainStarved, At, Quiet
<1>5. CASE CallRaises(w)
  BY <1>1, <1>2, <1>3, <1>5 DEF CallRaises, At, Silent, Counted
<1> QED
  BY <1>4, <1>5 DEF Raising

LEMMA RaisingMoves ==
  ASSUME TypeInv, NEW w \in Workers, Raising(w)
  PROVE  WorkerMoves(w)
<1> DEFINE s == Fails(wk[w])
<1>1. /\ s \in WorkerState /\ s.w = 0 /\ s.pc = "idle" /\ s.claim = wk[w].claim
  BY RaisingIs, FailsType
<1>2. Become(w, s) /\ LogGrows /\ OthersTyped /\ Len(log') \in Nat
  BY RaisingIs DEF LogGrows, OthersTyped, TypeInv, TypeOK
<1> HIDE DEF s
<1> QED
  BY <1>1, <1>2, MovesTo

(* A record a drain reads is on the log, so it has a record's type. *)
LEMMA UndrainedType ==
  ASSUME TypeInv, NEW w \in Workers, NEW k \in Undrained(wk[w])
  PROVE  /\ k \in Nat /\ log[k] \in Fields /\ WellBodied(log[k])
         /\ log[k].rid \in RequestIds \cup {NoId}
<1>1. wk[w].drained \in Nat /\ wk[w].w \in 0..Len(log)
  BY StateOf DEF WorkerState
<1>2. k \in 1..Len(log)
  BY <1>1 DEF Undrained
<1>3. log[k] \in Fields /\ WellBodied(log[k])
  BY <1>2, RecordAt DEF TypeInv, TypeOK
<1> QED
  BY <1>2, <1>3 DEF Fields

LEMMA StopsUpdate ==
  ASSUME NEW s \in WorkerState, NEW r \in RequestIds, NEW b \in {"now", "later"}
  PROVE  LET u == [s EXCEPT !.stops[r] = b]
         IN  u \in WorkerState /\ u.w = s.w /\ u.claim = s.claim /\ u.pc = s.pc
BY DEF WorkerState

LEMMA SubsUpdate ==
  ASSUME NEW s \in WorkerState, NEW r \in RequestIds, NEW b \in {"durable", "lease"}
  PROVE  LET u == [s EXCEPT !.subs[r] = b]
         IN  u \in WorkerState /\ u.w = s.w /\ u.claim = s.claim /\ u.pc = s.pc
BY DEF WorkerState

LEMMA TakeMoves ==
  ASSUME TypeInv, NEW w \in Workers, TakeRecord(w)
  PROVE  WorkerMoves(w)
<1> DEFINE v == wk[w]
<1>1. v \in WorkerState /\ v.w <= Len(log) /\ v.pc = "take" /\ Quiet
  BY StateOf DEF TakeRecord, At
<1> PICK k \in Undrained(v) :
      LET e == log[k]
      IN  \/ Become(w, Handled(v, k))
          \/ /\ TakesStop(v, e)
             /\ Become(w, [Handled(v, k) EXCEPT !.stops[e.rid] = e.body])
          \/ TakesWithdraw(v, e) /\ Become(w, SpendId(Handled(v, k), e.rid))
          \/ /\ VoidLease(v, e)
             /\ Become(w, [Handled(v, k) EXCEPT !.spent = @ \cup {e.rid}])
          \/ /\ Accepted(v, e)
             /\ Become(w, [Handled(v, k) EXCEPT !.subs[e.rid] = e.body])
  BY DEF TakeRecord
<1> DEFINE e == log[k]
           h == Handled(v, k)
<1>2. k \in Nat /\ e \in Fields /\ WellBodied(e)
  BY UndrainedType
<1>3. h \in WorkerState /\ h.w = v.w /\ h.claim = v.claim /\ h.pc = "take"
  BY <1>1, <1>2, HandledType
<1>4. CASE Become(w, h)
  BY <1>1, <1>3, <1>4, QuietlyTo
<1>5. CASE TakesStop(v, e) /\ Become(w, [h EXCEPT !.stops[e.rid] = e.body])
  <2> DEFINE r == e.rid  b == e.body
             s == [h EXCEPT !.stops[r] = b]
  <2>1. r \in RequestIds /\ b \in {"now", "later"}
    BY <1>2, <1>5 DEF TakesStop, Answerable, WellBodied
  <2>2. Become(w, s)
    BY <1>5
  <2>3. s \in WorkerState /\ s.w = v.w /\ s.claim = v.claim /\ s.pc = "take"
    <3> HIDE DEF h, r, b
    <3> QED
      BY <1>3, <2>1, StopsUpdate
  <2> HIDE DEF s
  <2> QED
    BY <1>1, <2>2, <2>3, QuietlyTo
<1>6. CASE TakesWithdraw(v, e) /\ Become(w, SpendId(h, e.rid))
  <2>1. e.rid \in RequestIds
    BY <1>6 DEF TakesWithdraw, Answerable
  <2> HIDE DEF h, e
  <2> QED
    BY <1>1, <1>3, <1>6, <2>1, SpendIdType, QuietlyTo
<1>7. CASE VoidLease(v, e) /\ Become(w, [h EXCEPT !.spent = @ \cup {e.rid}])
  <2> DEFINE p == h.spent \cup {e.rid}
             s == [h EXCEPT !.spent = p]
  <2>1. p \in SUBSET RequestIds
    BY <1>3, <1>7 DEF VoidLease, Subscribes, Answerable, WorkerState
  <2>2. Become(w, s)
    BY <1>7
  <2>3. s \in WorkerState /\ s.w = v.w /\ s.claim = v.claim /\ s.pc = "take"
    <3> HIDE DEF h, p
    <3> QED
      BY <1>3, <2>1 DEF WorkerState
  <2> HIDE DEF s
  <2> QED
    BY <1>1, <2>2, <2>3, QuietlyTo
<1>8. CASE Accepted(v, e) /\ Become(w, [h EXCEPT !.subs[e.rid] = e.body])
  <2> DEFINE r == e.rid  b == e.body
             s == [h EXCEPT !.subs[r] = b]
  <2>1. r \in RequestIds /\ b \in {"durable", "lease"}
    BY <1>2, <1>8 DEF Accepted, Subscribes, Answerable, WellBodied
  <2>2. Become(w, s)
    BY <1>8
  <2>3. s \in WorkerState /\ s.w = v.w /\ s.claim = v.claim /\ s.pc = "take"
    <3> HIDE DEF h, r, b
    <3> QED
      BY <1>3, <2>1, SubsUpdate
  <2> HIDE DEF s
  <2> QED
    BY <1>1, <2>2, <2>3, QuietlyTo
<1> QED
  BY <1>4, <1>5, <1>6, <1>7, <1>8

LEMMA AnswerType ==
  ASSUME NEW r \in RequestIds \cup {NoId}, NEW c \in Nat
  PROVE  /\ LET e == [Blank EXCEPT !.topic = "nak", !.rid = r]
            IN  e \in Record /\ e.topic = "nak"
         /\ LET e == [Blank EXCEPT !.topic = "bound", !.rid = r, !.claim = c]
            IN  e \in Record /\ e.topic = "bound"
BY DEF Blank, Record, Fields, WellBodied, Topics, ControlTopics, Bodies

LEMMA TailUpdate ==
  ASSUME NEW s \in WorkerState, NEW n \in Nat
  PROVE  LET u == [s EXCEPT !.w = n]
         IN  u \in WorkerState /\ u.w = n /\ u.claim = s.claim /\ u.pc = s.pc
BY DEF WorkerState

(* An answer lands: the worker's tail moves over it. *)
LEMMA LandsMoves ==
  ASSUME TypeInv, NEW w \in Workers, NEW t \in WorkerState, NEW e \in Record,
         Send(e), e.topic # "started", UNCHANGED <<rep, asked, called>>,
         Become(w, [t EXCEPT !.w = Len(log) + 1]),
         t.claim = wk[w].claim, t.pc # "cas"
  PROVE  WorkerMoves(w)
<1> DEFINE n == Len(log) + 1
           s == [t EXCEPT !.w = n]
<1>1. n \in Nat /\ called' \in Nat
  BY DEF TypeInv, TypeOK
<1>2. s \in WorkerState /\ s.w = n /\ s.claim = t.claim /\ s.pc = t.pc
  <2> HIDE DEF n
  <2> QED
    BY <1>1, TailUpdate
<1>3. Become(w, s)
  OBVIOUS
<1> HIDE DEF s
<1> QED
  BY <1>1, <1>2, <1>3, SendsTo

LEMMA WriteAnswerMoves ==
  ASSUME TypeInv, NEW w \in Workers, WriteAnswer(w)
  PROVE  WorkerMoves(w)
<1> DEFINE v == wk[w]
<1>1. /\ v \in WorkerState /\ v.w <= Len(log) /\ v.claim \in Nat /\ v.pc = "take"
      /\ UNCHANGED <<rep, asked, called>>
  BY StateOf DEF WriteAnswer, At
<1> PICK k \in Undrained(v) :
      LET e == log[k]
      IN  \/ /\ Send([Blank EXCEPT !.topic = "nak", !.rid = e.rid])
             /\ Become(w, [(IF e.rid = NoId THEN Handled(v, k)
                            ELSE SpendId(Handled(v, k), e.rid)) EXCEPT !.w = Len(log) + 1])
          \/ /\ Binds(v, e)
             /\ Send([Blank EXCEPT !.topic = "bound", !.rid = e.rid, !.claim = v.claim])
             /\ Become(w, [[Handled(v, k) EXCEPT !.subs[e.rid] = "lease",
                              !.bound = @ \cup {e.rid}] EXCEPT !.w = Len(log) + 1])
          \/ UNCHANGED log /\ Become(w, [v EXCEPT !.pc = "drain"])
  BY DEF WriteAnswer
<1> DEFINE e == log[k]
           h == Handled(v, k)
           nak == [Blank EXCEPT !.topic = "nak", !.rid = e.rid]
           bnd == [Blank EXCEPT !.topic = "bound", !.rid = e.rid, !.claim = v.claim]
<1>2. k \in Nat /\ e \in Fields /\ e.rid \in RequestIds \cup {NoId}
  BY UndrainedType
<1>3. h \in WorkerState /\ h.w = v.w /\ h.claim = v.claim /\ h.pc = "take"
  BY <1>1, <1>2, HandledType
<1>4. nak \in Record /\ nak.topic = "nak" /\ bnd \in Record /\ bnd.topic = "bound"
  <2> DEFINE r == e.rid  c == v.claim
  <2>1. r \in RequestIds \cup {NoId} /\ c \in Nat
    BY <1>1, <1>2
  <2> HIDE DEF r, c
  <2>2. /\ LET n == [Blank EXCEPT !.topic = "nak", !.rid = r]
           IN  n \in Record /\ n.topic = "nak"
        /\ LET b == [Blank EXCEPT !.topic = "bound", !.rid = r, !.claim = c]
           IN  b \in Record /\ b.topic = "bound"
    BY <2>1, AnswerType
  <2> QED
    BY <2>2 DEF r, c
<1>5. CASE /\ Send(nak)
           /\ Become(w, [(IF e.rid = NoId THEN h ELSE SpendId(h, e.rid))
                           EXCEPT !.w = Len(log) + 1])
  <2> DEFINE t == IF e.rid = NoId THEN h ELSE SpendId(h, e.rid)
  <2>1. t \in WorkerState /\ t.claim = v.claim /\ t.pc = "take"
    <3>1. CASE e.rid = NoId
      BY <1>3, <3>1
    <3>2. CASE e.rid # NoId
      <4>1. e.rid \in RequestIds
        BY <1>2, <3>2
      <4> HIDE DEF h, e
      <4> QED
        BY <1>3, <3>2, <4>1, SpendIdType
    <3> QED
      BY <3>1, <3>2
  <2>2. Become(w, [t EXCEPT !.w = Len(log) + 1]) /\ Send(nak)
    BY <1>5
  <2> HIDE DEF t, nak
  <2> QED
    BY <1>1, <1>4, <2>1, <2>2, LandsMoves
<1>6. CASE /\ Binds(v, e) /\ Send(bnd)
           /\ Become(w, [[h EXCEPT !.subs[e.rid] = "lease", !.bound = @ \cup {e.rid}]
                           EXCEPT !.w = Len(log) + 1])
  <2> DEFINE r == e.rid
             b == h.bound \cup {r}
             t == [h EXCEPT !.subs[r] = "lease", !.bound = b]
  <2>1. r \in RequestIds /\ b \in SUBSET RequestIds
    BY <1>3, <1>6 DEF Binds, Accepted, Subscribes, Answerable, WorkerState
  <2>2. t \in WorkerState /\ t.claim = v.claim /\ t.pc = "take"
    <3> HIDE DEF h, r, b
    <3> QED
      BY <1>3, <2>1 DEF WorkerState
  <2>3. Become(w, [t EXCEPT !.w = Len(log) + 1]) /\ Send(bnd)
    BY <1>6
  <2> HIDE DEF t, bnd
  <2> QED
    BY <1>1, <1>4, <2>2, <2>3, LandsMoves
<1>7. CASE UNCHANGED log /\ Become(w, [v EXCEPT !.pc = "drain"])
  <2> DEFINE s == [v EXCEPT !.pc = "drain"]
  <2>1. s \in WorkerState /\ s.w = v.w /\ s.claim = v.claim /\ s.pc = "drain"
    <3> HIDE DEF v
    <3> QED
      BY <1>1 DEF WorkerState, Pcs
  <2>2. Become(w, s) /\ Quiet
    BY <1>1, <1>7 DEF Quiet
  <2> HIDE DEF s
  <2> QED
    BY <1>1, <2>1, <2>2, QuietlyTo
<1> QED
  BY <1>5, <1>6, <1>7

-----------------------------------------------------------------------------
(* Nodes and heartbeats. *)

LEMMA EvaluatedType ==
  ASSUME NEW s \in WorkerState, NEW fired \in MayFire(s), NEW expired \in SUBSET Live(s),
         NEW body \in {"", "completed", "preempted", "errored"}
  PROVE  Evaluated(s, body, fired, expired) \in NodeUnderWay
<1>1. Live(s) \subseteq RequestIds
  BY DEF Live
<1>2. fired \in SUBSET RequestIds /\ expired \in SUBSET RequestIds
  BY <1>1 DEF MayFire
<1>3. s.pending \in SUBSET Nat
  BY DEF WorkerState
<1> QED
  BY <1>2, <1>3 DEF Evaluated, NodeUnderWay

LEMMA DecideMoves ==
  ASSUME TypeInv, NEW w \in Workers, CommitDecide(w) \/ HeartbeatDecide(w)
  PROVE  WorkerMoves(w)
<1> DEFINE v == wk[w]
           t(held) == Decide(DrainedTo(v), held)
<1>1. v \in WorkerState /\ Quiet /\ Len(log) \in Nat
  BY StateOf DEF CommitDecide, HeartbeatDecide
<1>2. ASSUME NEW held \in Due(v)
      PROVE  t(held) \in WorkerState /\ t(held).w = 0 /\ t(held).claim = v.claim
  <2>1. held \in SUBSET RequestIds
    BY DEF Due
  <2> QED
    BY <1>1, <2>1, DrainedToType, DecideType
<1>3. CASE CommitDecide(w)
  <2> PICK held \in Due(v), fired \in MayFire(v), expired \in SUBSET Live(v) :
        Become(w, [t(held) EXCEPT !.under = Evaluated(v, "", fired, expired),
                                  !.pc = IF fired = {} THEN "send" ELSE "sample"])
    BY <1>3 DEF CommitDecide
  <2> DEFINE u == Evaluated(v, "", fired, expired)
             p == IF fired = {} THEN "send" ELSE "sample"
             h == t(held)
             s == [h EXCEPT !.under = u, !.pc = p]
  <2>1. u \in NodeUnderWay /\ p \in Pcs /\ p # "cas"
    BY <1>1, EvaluatedType DEF Pcs
  <2>2. h \in WorkerState /\ h.w = 0 /\ h.claim = v.claim
    BY <1>2
  <2>3. Become(w, s)
    OBVIOUS
  <2>4. s \in WorkerState /\ s.w = 0 /\ s.claim = v.claim /\ s.pc # "cas"
    <3> HIDE DEF u, p, h
    <3> QED
      BY <2>1, <2>2 DEF WorkerState
  <2> HIDE DEF s
  <2> QED
    BY <1>1, <2>3, <2>4, QuietlyTo
<1>4. CASE HeartbeatDecide(w)
  <2> PICK held \in Due(v) : Become(w, [t(held) EXCEPT !.pc = "beat"])
    BY <1>4 DEF HeartbeatDecide
  <2> DEFINE h == t(held)
             s == [h EXCEPT !.pc = "beat"]
  <2>2. h \in WorkerState /\ h.w = 0 /\ h.claim = v.claim
    BY <1>2
  <2>3. Become(w, s)
    OBVIOUS
  <2>4. s \in WorkerState /\ s.w = 0 /\ s.claim = v.claim /\ s.pc # "cas"
    <3> HIDE DEF h
    <3> QED
      BY <2>2 DEF WorkerState, Pcs
  <2> HIDE DEF s
  <2> QED
    BY <1>1, <2>3, <2>4, QuietlyTo
<1> QED
  BY <1>3, <1>4

LEMMA NodeRecordType ==
  ASSUME NEW s \in WorkerState
  PROVE  /\ CommitRecord(s) \in Record /\ CommitRecord(s).topic = "commit"
         /\ ExitRecord(s) \in Record /\ ExitRecord(s).topic = "stopped"
<1> DEFINE c == s.claim  m == s.mark  n == s.node  u == s.under
           vs == u.values  f == u.fired  x == u.expired  b == u.body
           tn == u.torn  hon == Honored(s)
<1>1. /\ c \in Nat /\ m \in Nat /\ n \in Nat /\ u \in NodeUnderWay
      /\ hon \in SUBSET RequestIds
  BY DEF WorkerState, Honored
<1>2. /\ vs \in SUBSET Nat /\ f \in SUBSET RequestIds /\ x \in SUBSET RequestIds
      /\ b \in {"", "completed", "preempted", "errored"} /\ tn \in BOOLEAN
  BY <1>1 DEF NodeUnderWay
<1>3. CommitRecord(s) =
        [Blank EXCEPT !.topic = "commit", !.claim = c, !.consumed = m, !.ref = n,
                      !.values = vs, !.fired = f, !.expired = x]
  BY DEF CommitRecord
<1>4. ExitRecord(s) =
        [Blank EXCEPT !.topic = "stopped", !.claim = c, !.ref = n, !.body = b,
                      !.torn = tn, !.values = vs, !.fired = f, !.expired = x,
                      !.honored = hon]
  BY DEF ExitRecord
<1> HIDE DEF c, m, n, u, vs, f, x, b, tn, hon
<1>5. CommitRecord(s) \in Record /\ CommitRecord(s).topic = "commit"
  BY <1>1, <1>2, <1>3, ZenonT(60)
  DEF Blank, Record, Fields, WellBodied, Topics, ControlTopics, Bodies
<1>6. ExitRecord(s) \in Record /\ ExitRecord(s).topic = "stopped"
  <2> DEFINE e(z) ==
        [topic |-> "stopped", rid |-> NoId, claim |-> c, ref |-> n, consumed |-> 0,
         values |-> vs, torn |-> z, honored |-> hon, fired |-> f, expired |-> x,
         body |-> b]
  <2>1. ExitRecord(s) = e(tn)
    BY <1>4, ZenonT(60) DEF Blank
  <2>2. /\ b \in Bodies /\ "stopped" \in Topics
        /\ vs \in SUBSET Nat /\ f \in SUBSET RequestIds /\ x \in SUBSET RequestIds
    BY <1>2 DEF Bodies, Topics
  <2>3. e(TRUE) \in Record /\ e(FALSE) \in Record
    BY <1>1, <2>2 DEF Record, Fields, WellBodied
  <2>4. tn = TRUE \/ tn = FALSE
    BY <1>2
  <2>5. ExitRecord(s).topic = "stopped"
    BY <2>1
  <2> HIDE DEF e
  <2> QED
    BY <2>1, <2>3, <2>4, <2>5, Zenon
<1> QED
  BY <1>5, <1>6

LEMMA SampleMoves ==
  ASSUME TypeInv, NEW w \in Workers, SampleSend(w)
  PROVE  WorkerMoves(w)
<1> DEFINE v == wk[w]
           x == v.under
           q == x.values \cup {Len(log) + 1}
           u == [x EXCEPT !.values = q]
           s == [v EXCEPT !.under = u, !.pc = "send"]
<1>1. /\ v \in WorkerState /\ Len(log) \in Nat /\ v.w \in Nat /\ v.w <= Len(log)
      /\ v.under \in NodeUnderWay /\ v.reg \in SUBSET Nat
  BY StateOf DEF WorkerState
<1>2. u \in NodeUnderWay
  <2>2. x \in NodeUnderWay
    BY <1>1
  <2>1. q \in SUBSET Nat
    <3> DEFINE W == Len(log) + 1
    <3>1. W \in Nat
      BY <1>1
    <3>2. q = x.values \cup {W}
      OBVIOUS
    <3> HIDE DEF x, W, q
    <3> QED
      BY <2>2, <3>1, <3>2 DEF NodeUnderWay
  <2> HIDE DEF q, x
  <2> QED
    BY <2>1, <2>2 DEF NodeUnderWay
<1>3. s \in WorkerState /\ s.w = v.w /\ s.claim = v.claim /\ s.pc = "send"
  <2> HIDE DEF v, u
  <2> QED
    BY <1>1, <1>2 DEF WorkerState, Pcs
<1>4. Become(w, s) /\ UNCHANGED <<rep, asked, called>>
  <2>1. /\ Become(w, [[v EXCEPT !.under.values = @ \cup {Len(log) + 1}] EXCEPT !.pc = "send"])
        /\ UNCHANGED <<rep, asked, called>>
    BY DEF SampleSend
  <2>2. [[v EXCEPT !.under.values = @ \cup {Len(log) + 1}] EXCEPT !.pc = "send"] = s
    BY <1>1 DEF WorkerState, NodeUnderWay
  <2> QED
    BY <2>1, <2>2
<1> PICK n \in v.reg : Send([Blank EXCEPT !.body = "sample", !.ref = n])
  BY DEF SampleSend
<1> DEFINE e == [Blank EXCEPT !.body = "sample", !.ref = n]
<1>5. e \in Record /\ e.topic = "value"
  <2>1. n \in Nat
    BY <1>1
  <2> QED
    BY <2>1 DEF Blank, Record, Fields, WellBodied, Topics, ControlTopics, Bodies
<1>6. Send(e) /\ called' \in Nat
  BY <1>4 DEF TypeInv, TypeOK
<1>7. s.w <= Len(log) + 1
  BY <1>1, <1>3
<1> HIDE DEF s, e
<1> QED
  BY <1>3, <1>4, <1>5, <1>6, <1>7, SendsTo

LEMMA ToExitCasType ==
  ASSUME NEW s \in WorkerState, NEW under \in NodeUnderWay
  PROVE  /\ ToExitCas(s, under) \in WorkerState
         /\ ToExitCas(s, under).w = s.w
         /\ ToExitCas(s, under).claim = s.claim
         /\ ToExitCas(s, under).pc = "drain"
<1>1. s.mode \in {"ITERATION", "EXIT"}
  BY DEF WorkerState
<1> QED
  BY <1>1, DrainsType DEF ToExitCas

LEMMA NodeFailsMoves ==
  ASSUME TypeInv, NEW w \in Workers, NodeFails(w) \/ ExitPrepared(w)
  PROVE  WorkerMoves(w)
<1> DEFINE v == wk[w]
           torn == TornNode("errored")
<1>1. v \in WorkerState /\ v.w <= Len(log) /\ Len(log) \in Nat
      /\ v.under \in NodeUnderWay
  BY StateOf, SMTT(60) DEF WorkerState
<1>2. torn \in NodeUnderWay
  BY TornNodeType
<1>3. /\ Quiet
      /\ \/ Become(w, Tear(v))
         \/ Become(w, ToExitCas(v, torn)) \/ Become(w, ToExitCas(v, v.under))
  BY DEF NodeFails, ExitPrepared
<1> HIDE DEF torn
<1>4. CASE Become(w, Tear(v))
  BY <1>1, <1>3, <1>4, TearType, QuietlyTo
<1>5. CASE Become(w, ToExitCas(v, torn)) \/ Become(w, ToExitCas(v, v.under))
  BY <1>1, <1>2, <1>3, <1>5, ToExitCasType, QuietlyTo
<1> QED
  BY <1>3, <1>4, <1>5

LEMMA NodeSendMoves ==
  ASSUME TypeInv, NEW w \in Workers,
         CommitSend(w) \/ CommitUnacknowledged(w) \/ HeartbeatSend(w)
  PROVE  WorkerMoves(w)
<1> DEFINE v == wk[w]
           n == Len(log) + 1
<1>1. v \in WorkerState /\ Len(log) \in Nat /\ n \in Nat /\ v.claim \in Nat /\ v.mark \in Nat
  BY StateOf DEF WorkerState
<1>2. called' \in Nat /\ UNCHANGED <<rep, asked>>
  BY DEF CommitSend, CommitUnacknowledged, HeartbeatSend, TypeInv, TypeOK
<1>3. CASE CommitSend(w)
  <2>1. Send(CommitRecord(v)) /\ Become(w, NodeLanded(v, n))
    BY <1>3 DEF CommitSend
  <2> DEFINE s == NodeLanded(v, n)
             e == CommitRecord(v)
  <2>2. s \in WorkerState /\ s.w = 0 /\ s.claim = v.claim /\ s.pc = "idle"
    <3> HIDE DEF v, n
    <3> QED
      BY <1>1, NodeLandedType
  <2>3. e \in Record /\ e.topic = "commit"
    BY <1>1, NodeRecordType
  <2>4. Send(e) /\ Become(w, s)
    BY <2>1
  <2> HIDE DEF s, e
  <2> QED
    BY <1>1, <1>2, <2>2, <2>3, <2>4, SendsTo
<1>4. CASE CommitUnacknowledged(w)
  <2>1. Send(CommitRecord(v)) /\ Become(w, Tear(v))
    BY <1>4 DEF CommitUnacknowledged
  <2> QED
    BY <1>1, <1>2, <2>1, NodeRecordType, TearType, SendsTo
<1>5. CASE HeartbeatSend(w)
  <2> DEFINE c == v.claim  m == v.mark
             e == [Blank EXCEPT !.topic = "heartbeat", !.claim = c, !.consumed = m]
  <2>1. Send(e) /\ Become(w, Idle(v))
    BY <1>5 DEF HeartbeatSend
  <2>2. e \in Record /\ e.topic = "heartbeat"
    <3> HIDE DEF c, m
    <3>1. c \in Nat /\ m \in Nat
      BY <1>1 DEF c, m
    <3> QED
      BY <3>1 DEF Blank, Record, Fields, WellBodied, Topics, ControlTopics, Bodies
  <2> HIDE DEF e
  <2> QED
    BY <1>1, <1>2, <2>1, <2>2, IdleType, SendsTo
<1> QED
  BY <1>3, <1>4, <1>5

-----------------------------------------------------------------------------
(* The exit. *)

LEMMA ExitNodeMoves ==
  ASSUME TypeInv, NEW w \in Workers, ExitNode(w)
  PROVE  WorkerMoves(w)
<1> DEFINE v == wk[w]
           d == DrainedTo(v)
           b == v.under.body
           torn == TornNode(b)
<1>1. v \in WorkerState /\ Len(log) \in Nat /\ Quiet
  BY StateOf DEF ExitNode
<1>0. b \in {"", "completed", "preempted", "errored"}
  BY <1>1 DEF WorkerState, NodeUnderWay
<1>2. d \in WorkerState /\ d.w = 0 /\ d.claim = v.claim
  BY <1>1, DrainedToType
<1>3. torn \in NodeUnderWay
  BY <1>0, TornNodeType
<1>4. \/ Become(w, Idle(d)) \/ Become(w, ToExitCas(d, torn))
      \/ \E fired \in MayFire(v), expired \in SUBSET Live(v) :
           Become(w, [d EXCEPT !.under = Evaluated(v, b, fired, expired),
                               !.pc = IF fired = {} THEN "send" ELSE "sample"])
  BY DEF ExitNode
<1> HIDE DEF torn
<1>5. CASE Become(w, Idle(d))
  <2> HIDE DEF d
  <2> QED
    BY <1>1, <1>2, <1>5, IdleType, QuietlyTo
<1>6. CASE Become(w, ToExitCas(d, torn))
  <2> HIDE DEF d
  <2> QED
    BY <1>1, <1>2, <1>3, <1>6, ToExitCasType, QuietlyTo
<1>7. CASE \E fired \in MayFire(v), expired \in SUBSET Live(v) :
             Become(w, [d EXCEPT !.under = Evaluated(v, b, fired, expired),
                                 !.pc = IF fired = {} THEN "send" ELSE "sample"])
  <2> PICK fired \in MayFire(v), expired \in SUBSET Live(v) :
        Become(w, [d EXCEPT !.under = Evaluated(v, b, fired, expired),
                            !.pc = IF fired = {} THEN "send" ELSE "sample"])
    BY <1>7
  <2> DEFINE u == Evaluated(v, b, fired, expired)
             p == IF fired = {} THEN "send" ELSE "sample"
             s == [d EXCEPT !.under = u, !.pc = p]
  <2>1. u \in NodeUnderWay /\ p \in Pcs /\ p # "cas"
    BY <1>0, <1>1, EvaluatedType DEF Pcs
  <2>2. Become(w, s)
    OBVIOUS
  <2>3. s \in WorkerState /\ s.w = 0 /\ s.claim = v.claim /\ s.pc # "cas"
    <3> HIDE DEF u, p, d
    <3> QED
      BY <1>2, <2>1 DEF WorkerState
  <2> HIDE DEF s
  <2> QED
    BY <1>1, <2>2, <2>3, QuietlyTo
<1> QED
  BY <1>4, <1>5, <1>6, <1>7

LEMMA ExitCasMoves ==
  ASSUME TypeInv, NEW w \in Workers, ExitCas(w)
  PROVE  WorkerMoves(w)
<1> DEFINE v == wk[w]
           d == DrainedTo(v)
           i == Idle(d)
           k == v.exits + 1
           ended == [i EXCEPT !.phase = "stopped"]
           again == [d EXCEPT !.pc = "drain", !.tries = 0, !.exits = k]
<1>1. v \in WorkerState /\ Len(log) \in Nat /\ k \in Nat
  BY StateOf, SMTT(60) DEF WorkerState
<1>2. d \in WorkerState /\ d.w = 0 /\ d.claim = v.claim
  BY <1>1, DrainedToType
<1>3. i \in WorkerState /\ i.w = 0 /\ i.claim = v.claim /\ i.pc = "idle"
  <2> HIDE DEF d
  <2> QED
    BY <1>2, IdleType
<1>4. ended \in WorkerState /\ ended.w = 0 /\ ended.claim = v.claim /\ ended.pc = "idle"
  <2> HIDE DEF i
  <2> QED
    BY <1>3 DEF WorkerState, Phases
<1>5. again \in WorkerState /\ again.w = 0 /\ again.claim = v.claim /\ again.pc = "drain"
  <2> HIDE DEF d, k
  <2> QED
    BY <1>1, <1>2, ZenonT(60) DEF WorkerState, Pcs
<1>6. /\ UNCHANGED <<rep, asked, called>>
      /\ \/ UNCHANGED log /\ (Become(w, i) \/ Become(w, again) \/ Become(w, Starve(d)))
         \/ Send(ExitRecord(v)) /\ Become(w, ended)
  BY DEF ExitCas
<1>7. called' \in Nat
  BY <1>6 DEF TypeInv, TypeOK
<1> HIDE DEF ended, again, i
<1>8. CASE UNCHANGED log /\ Become(w, i)
  BY <1>1, <1>3, <1>6, <1>8, QuietlyTo DEF Quiet
<1>9. CASE UNCHANGED log /\ Become(w, again)
  BY <1>1, <1>5, <1>6, <1>9, QuietlyTo DEF Quiet
<1>10. CASE UNCHANGED log /\ Become(w, Starve(d))
  <2> HIDE DEF d
  <2> QED
    BY <1>1, <1>2, <1>6, <1>10, StarveType, QuietlyTo DEF Quiet
<1>11. CASE Send(ExitRecord(v)) /\ Become(w, ended)
  BY <1>1, <1>4, <1>6, <1>7, <1>11, NodeRecordType, SendsTo
<1> QED
  BY <1>6, <1>8, <1>9, <1>10, <1>11

-----------------------------------------------------------------------------
(* The environment. *)

LEMMA ProcessEndsMoves ==
  ASSUME TypeInv, NEW w \in Workers, ProcessEnds(w)
  PROVE  WorkerMoves(w)
<1> DEFINE c == wk[w].claim
           f == wk[w].folded
           t == [NewWorker EXCEPT !.up = FALSE, !.claim = c]
           s == [t EXCEPT !.folded = f]
<1>1. c \in Nat /\ Len(log) \in Nat /\ f \in BOOLEAN
  BY StateOf DEF WorkerState
<1>2. t \in WorkerState /\ t.w = 0 /\ t.claim = c /\ t.pc = "idle"
  <2> HIDE DEF c
  <2>1. NewWorker.w = 0 /\ NewWorker.pc = "idle"
    BY DEF NewWorker
  <2> HIDE DEF NewWorker
  <2> QED
    BY <1>1, <2>1, NewWorkerType DEF WorkerState
<1>3. s \in WorkerState /\ s.w = 0 /\ s.claim = c /\ s.pc = "idle"
  <2> HIDE DEF t, f
  <2> QED
    BY <1>1, <1>2 DEF WorkerState
<1>4. Become(w, s) /\ rep' = [rep EXCEPT ![w] = NoReport] /\ UNCHANGED <<log, asked, called>>
  BY DEF ProcessEnds
<1>5. LogGrows /\ OthersTyped /\ Len(log') = Len(log)
  <2>1. NoReport \in Report
    BY DEF NoReport, Report
  <2> QED
    BY <1>4, <2>1 DEF LogGrows, OthersTyped, TypeInv, TypeOK, Actors
<1> HIDE DEF s
<1> QED
  BY <1>1, <1>3, <1>4, <1>5, MovesTo

LEMMA AskMoves ==
  ASSUME TypeInv, NEW e \in Asks, Ask(e)
  PROVE  OthersMove
<1>1. e \in Record /\ e.topic # "started"
  BY AsksAssumption DEF IsControl, ControlTopics
<1> QED
  BY <1>1 DEF Ask, OthersMove, LogGrows, OthersTyped, TypeInv, TypeOK

-----------------------------------------------------------------------------
(* The invariant is inductive.  A log that only grows reads the same up to *)
(* any bound, so what a worker knew at its W stays true.                   *)

LEMMA ReadsSame ==
  ASSUME NEW lg, NEW lh, NEW W \in Nat, \A i \in 1..W : lh[i] = lg[i]
  PROVE  /\ Claims(lh, W) = Claims(lg, W)
         /\ \A c \in Nat : Endings(lh, c, W) = Endings(lg, c, W)
         /\ FreeAt(lg, W) => FreeAt(lh, W)
<1>1. Claims(lh, W) = Claims(lg, W)
  BY DEF Claims
<1>2. \A c \in Nat : Endings(lh, c, W) = Endings(lg, c, W)
  BY DEF Endings
<1>3. Claims(lg, W) \subseteq Nat
  BY DEF Claims
<1> QED
  BY <1>1, <1>2, <1>3 DEF FreeAt, IsNewestClaim

(* Along a step that claims nothing, the claims that were exclusive are. *)
LEMMA ExclusiveKept ==
  ASSUME TypeInv, ClaimsExclusive, LogGrows
  PROVE  ClaimsExclusive'
<1> SUFFICES ASSUME NEW c \in Claims(log', Len(log')), NEW d \in Claims(log', Len(log')),
                    c < d
             PROVE  Endings(log', c, d - 1) # {}
  BY DEF ClaimsExclusive, AllClaims
<1>1. /\ log \in Seq(Record) /\ log' \in Seq(Record)
      /\ \A i \in 1..Len(log) : log'[i] = log[i]
      /\ \A i \in 1..Len(log') : log'[i].topic = "started" => i <= Len(log)
  BY LogGrown DEF TypeInv, TypeOK
<1>2. c \in 1..Len(log) /\ d \in 1..Len(log)
  BY <1>1 DEF Claims
<1>3. c \in Claims(log, Len(log)) /\ d \in Claims(log, Len(log))
  BY <1>1, <1>2 DEF Claims
<1>4. Endings(log, c, d - 1) # {}
  BY <1>3 DEF ClaimsExclusive, AllClaims
<1>5. d - 1 \in Nat /\ c \in Nat /\ \A i \in 1..(d - 1) : log'[i] = log[i]
  BY <1>1, <1>2
<1> DEFINE W == d - 1
<1>6. Endings(log', c, W) = Endings(log, c, W)
  <2>1. W \in Nat /\ \A i \in 1..W : log'[i] = log[i]
    BY <1>5
  <2> HIDE DEF W
  <2> QED
    BY <1>5, <2>1 DEF Endings
<1> QED
  BY <1>4, <1>6

(* A worker that does not move keeps what it knew. *)
LEMMA FreeKept ==
  ASSUME TypeInv, FreeAtCas, LogGrows \/ (\E e \in Record : Send(e)),
         NEW w \in Workers, wk'[w] = wk[w]
  PROVE  /\ wk'[w].w <= Len(log') /\ wk'[w].claim <= Len(log')
         /\ wk'[w].pc = "cas" => FreeAt(log', wk'[w].w)
<1> DEFINE W == wk[w].w
<1>1. /\ Len(log) <= Len(log') /\ Len(log') \in Nat
      /\ \A i \in 1..Len(log) : log'[i] = log[i]
  BY LogGrown, Sent DEF TypeInv, TypeOK
<1>2. W \in 0..Len(log) /\ wk[w].claim \in 0..Len(log) /\ Len(log) \in Nat
  BY StateOf
<1>3. wk'[w].w <= Len(log') /\ wk'[w].claim <= Len(log')
  BY <1>1, <1>2
<1>4. FreeAt(log, W) => FreeAt(log', W)
  <2>1. W \in Nat /\ \A i \in 1..W : log'[i] = log[i]
    BY <1>1, <1>2
  <2> HIDE DEF W
  <2> QED
    BY <2>1, ReadsSame
<1> QED
  BY <1>3, <1>4 DEF FreeAtCas

LEMMA MovesKeep ==
  ASSUME ClaimInv, NEW w \in Workers, WorkerMoves(w)
  PROVE  ClaimInv'
<1>1. LogGrows /\ OthersTyped /\ TypeInv /\ FreeAtCas /\ ClaimsExclusive
  BY DEF WorkerMoves, ClaimInv
<1>2. /\ log' \in Seq(Record) /\ Len(log) <= Len(log')
      /\ Len(log) \in Nat /\ Len(log') \in Nat
  BY <1>1, LogGrown DEF TypeInv, TypeOK
<1>3. wk' \in [Workers -> WorkerState] /\ \A u \in Workers : u # w => wk'[u] = wk[u]
  BY <1>1 DEF WorkerMoves, TypeInv, TypeOK
<1>4. TypeOK'
  BY <1>1, <1>2, <1>3 DEF TypeOK, OthersTyped
<1>5. ASSUME NEW u \in Workers
      PROVE  /\ wk'[u].w <= Len(log') /\ wk'[u].claim <= Len(log')
             /\ wk'[u].pc = "cas" => FreeAt(log', wk'[u].w)
  <2>1. CASE u = w
    <3>1. wk[w].claim \in 0..Len(log)
      BY <1>1, StateOf
    <3>2. wk'[w].claim <= Len(log')
      BY <1>2, <3>1 DEF WorkerMoves
    <3> QED
      BY <2>1, <3>2 DEF WorkerMoves
  <2>2. CASE u # w
    BY <1>1, <1>3, <2>2, FreeKept
  <2> QED
    BY <2>1, <2>2
<1>6. ClaimsExclusive'
  BY <1>1, ExclusiveKept
<1> QED
  BY <1>4, <1>5, <1>6 DEF ClaimInv, TypeInv, SeqsOnLog, FreeAtCas

LEMMA OthersKeep ==
  ASSUME ClaimInv, OthersMove
  PROVE  ClaimInv'
<1>1. LogGrows /\ OthersTyped /\ UNCHANGED wk /\ TypeInv /\ FreeAtCas /\ ClaimsExclusive
  BY DEF OthersMove, ClaimInv
<1>2. log' \in Seq(Record)
  BY <1>1, LogGrown DEF TypeInv, TypeOK
<1>3. TypeOK'
  BY <1>1, <1>2 DEF TypeInv, TypeOK, OthersTyped
<1>4. ASSUME NEW u \in Workers
      PROVE  /\ wk'[u].w <= Len(log') /\ wk'[u].claim <= Len(log')
             /\ wk'[u].pc = "cas" => FreeAt(log', wk'[u].w)
  BY <1>1, FreeKept
<1>5. ClaimsExclusive'
  BY <1>1, ExclusiveKept
<1> QED
  BY <1>3, <1>4, <1>5 DEF ClaimInv, TypeInv, SeqsOnLog, FreeAtCas

LEMMA StutterKeeps == ASSUME ClaimInv, UNCHANGED vars PROVE ClaimInv'
<1>1. OthersMove
  BY DEF vars, OthersMove, LogGrows, OthersTyped, ClaimInv, TypeInv, TypeOK
<1> QED
  BY <1>1, OthersKeep

(* Seeing the run free: the newest claim on the log is at or below W and   *)
(* has ended there, or there is none.                                      *)
LEMMA SeenFree ==
  ASSUME NEW lg, NEW L \in Nat, NEW W \in 0..L,
         \/ Claims(lg, L) = {}
         \/ \E c \in Claims(lg, L) :
              IsNewestClaim(lg, c, L) /\ c <= W /\ Endings(lg, c, W) # {}
  PROVE  FreeAt(lg, W)
<1>1. Claims(lg, W) \subseteq Claims(lg, L)
  BY DEF Claims
<1> SUFFICES ASSUME NEW d \in Claims(lg, W), IsNewestClaim(lg, d, W)
             PROVE  Endings(lg, d, W) # {}
  BY DEF FreeAt
<1> PICK c \in Claims(lg, L) :
      IsNewestClaim(lg, c, L) /\ c <= W /\ Endings(lg, c, W) # {}
  BY <1>1
<1>2. c \in Claims(lg, W) /\ c \in Nat /\ d \in Nat
  BY DEF Claims
<1>3. c = d
  BY <1>1, <1>2 DEF IsNewestClaim
<1> QED
  BY <1>3

LEMMA ReadLatestKeeps ==
  ASSUME ClaimInv, NEW w \in Workers, ReadLatest(w)
  PROVE  ClaimInv'
<1> DEFINE v == wk[w]
           Goes(p) == [v EXCEPT !.pc = p]
<1>1. /\ TypeInv /\ FreeAtCas /\ ClaimsExclusive
  BY DEF ClaimInv
<1>2. v \in WorkerState /\ v.w \in 0..Len(log) /\ Len(log) \in Nat
  BY <1>1, StateOf
<1>3. Quiet
  BY DEF ReadLatest
<1>4. ASSUME NEW p \in {"claim", "probe", "cas"}
      PROVE  /\ Goes(p) \in WorkerState /\ Goes(p).w = v.w
             /\ Goes(p).claim = v.claim /\ Goes(p).pc = p
  <2> HIDE DEF v
  <2> QED
    BY <1>2 DEF WorkerState, Pcs
<1>5. \/ Become(w, Goes("claim")) \/ Become(w, Goes("probe"))
      \/ /\ Become(w, Goes("cas"))
         /\ \/ Claims(log, Len(log)) = {}
            \/ \E c \in Claims(log, Len(log)) :
                 IsNewestClaim(log, c, Len(log)) /\ c <= v.w /\ Endings(log, c, v.w) # {}
  BY DEF ReadLatest
<1>6. CASE Become(w, Goes("claim")) \/ Become(w, Goes("probe"))
  <2> HIDE DEF Goes
  <2>1. WorkerMoves(w)
    BY <1>1, <1>2, <1>3, <1>4, <1>6, QuietlyTo
  <2> QED
    BY <2>1, MovesKeep
<1>7. CASE /\ Become(w, Goes("cas"))
           /\ \/ Claims(log, Len(log)) = {}
              \/ \E c \in Claims(log, Len(log)) :
                   IsNewestClaim(log, c, Len(log)) /\ c <= v.w /\ Endings(log, c, v.w) # {}
  <2> DEFINE s == Goes("cas")
  <2>0. s \in WorkerState /\ s.w = v.w /\ s.claim = v.claim
    BY <1>4
  <2>1. wk' = [wk EXCEPT ![w] = s]
    BY <1>7 DEF Become
  <2> HIDE DEF s, Goes
  <2>2. FreeAt(log, v.w)
    BY <1>2, <1>7, SeenFree
  <2>3. wk' \in [Workers -> WorkerState] /\ wk'[w] = s
        /\ \A u \in Workers : u # w => wk'[u] = wk[u]
    BY <1>1, <2>0, <2>1 DEF TypeInv, TypeOK
  <2>4. log' = log /\ LogGrows /\ OthersTyped
    BY <1>1, <1>3 DEF Quiet, LogGrows, OthersTyped, TypeInv, TypeOK
  <2>5. TypeOK'
    BY <1>1, <2>3, <2>4 DEF TypeInv, TypeOK, OthersTyped
  <2>6. ASSUME NEW u \in Workers
        PROVE  /\ wk'[u].w <= Len(log') /\ wk'[u].claim <= Len(log')
               /\ wk'[u].pc = "cas" => FreeAt(log', wk'[u].w)
    <3>1. CASE u = w
      <4>1. v.claim <= Len(log) /\ v.w <= Len(log)
        BY <1>1, StateOf
      <4> QED
        BY <2>0, <2>2, <2>3, <2>4, <3>1, <4>1
    <3>2. CASE u # w
      BY <1>1, <2>3, <2>4, <3>2, FreeKept
    <3> QED
      BY <3>1, <3>2
  <2>7. ClaimsExclusive'
    BY <1>1, <2>4, ExclusiveKept
  <2> QED
    BY <2>5, <2>6, <2>7 DEF ClaimInv, TypeInv, SeqsOnLog, FreeAtCas
<1> QED
  BY <1>5, <1>6, <1>7

(* At a free W, every claim has ended by W: the newest one because the     *)
(* worker saw so, an earlier one because a later claim landed above it.    *)
LEMMA AllEnded ==
  ASSUME log \in Seq(Record), ClaimsExclusive, FreeAt(log, Len(log)),
         NEW c \in Claims(log, Len(log))
  PROVE  Endings(log, c, Len(log)) # {}
<1>1. CASE IsNewestClaim(log, c, Len(log))
  BY <1>1 DEF FreeAt
<1>2. CASE ~IsNewestClaim(log, c, Len(log))
  <2> PICK d \in Claims(log, Len(log)) : ~(d <= c)
    BY <1>2 DEF IsNewestClaim
  <2>1. c \in Nat /\ d \in 1..Len(log) /\ c < d
    BY DEF Claims
  <2>2. Endings(log, c, d - 1) # {}
    BY <2>1 DEF ClaimsExclusive, AllClaims
  <2>3. Endings(log, c, d - 1) \subseteq Endings(log, c, Len(log))
    BY <2>1 DEF Endings
  <2> QED
    BY <2>2, <2>3
<1> QED
  BY <1>1, <1>2

LEMMA StartedType ==
  ASSUME NEW n \in Nat
  PROVE  LET e == [Blank EXCEPT !.topic = "started", !.ref = n]
         IN  e \in Record /\ e.topic = "started"
BY DEF Blank, Record, Fields, WellBodied, Topics, ControlTopics, Bodies

LEMMA ClaimCasKeeps ==
  ASSUME ClaimInv, NEW w \in Workers, ClaimCas(w)
  PROVE  ClaimInv'
<1> DEFINE v == wk[w]
           W == Len(log)
           c == W + 1
           a == v.w
           e == [Blank EXCEPT !.topic = "started", !.ref = v.node]
           won == [v EXCEPT !.pc = "answers", !.phase = "live", !.claim = c,
                            !.drained = a, !.tries = 0]
           lost == [v EXCEPT !.pc = "claim"]
<1>1. TypeInv /\ FreeAtCas /\ ClaimsExclusive
  BY DEF ClaimInv
<1>2. v \in WorkerState /\ v.w \in 0..Len(log) /\ W \in Nat
  BY <1>1, StateOf
<1>3. UNCHANGED <<rep, asked, called>> /\ v.pc = "cas"
  BY DEF ClaimCas, At
<1>4. CASE UNCHANGED log /\ Become(w, lost)
  <2>1. lost \in WorkerState /\ lost.w = v.w /\ lost.claim = v.claim /\ lost.pc = "claim"
    <3> HIDE DEF v
    <3> QED
      BY <1>2 DEF WorkerState, Pcs
  <2>2. Become(w, lost) /\ Quiet
    BY <1>3, <1>4 DEF Quiet
  <2> HIDE DEF lost
  <2>3. WorkerMoves(w)
    BY <1>1, <1>2, <2>1, <2>2, QuietlyTo
  <2> QED
    BY <2>3, MovesKeep
<1>5. CASE AtTail(w) /\ Send(e) /\ Become(w, won)
  <2>1. won \in WorkerState /\ won.w = v.w /\ won.claim = c /\ won.pc = "answers"
    <3>1. c \in Nat /\ a \in Nat
      BY <1>2
    <3>2. v.w = a
      OBVIOUS
    <3> HIDE DEF v, c, a
    <3> QED
      BY <1>2, <3>1, <3>2, ZenonT(60) DEF WorkerState, Pcs, Phases
  <2>2. Become(w, won) /\ v.w = W
    BY <1>5 DEF AtTail
  <2> HIDE DEF won
  <2>3. wk' \in [Workers -> WorkerState] /\ wk'[w] = won
        /\ \A u \in Workers : u # w => wk'[u] = wk[u]
    BY <1>1, <2>1, <2>2 DEF TypeInv, TypeOK, Become
  <2>4. e \in Record /\ e.topic = "started"
    <3> DEFINE n == v.node
    <3>1. n \in Nat
      BY <1>2 DEF WorkerState
    <3> HIDE DEF n
    <3>2. LET f == [Blank EXCEPT !.topic = "started", !.ref = n]
          IN  f \in Record /\ f.topic = "started"
      BY <3>1, StartedType
    <3> QED
      BY <3>2 DEF n
  <2>5. Send(e)
    BY <1>5
  <2> HIDE DEF e
  <2>6. /\ log \in Seq(Record) /\ log' \in Seq(Record) /\ Len(log') = W + 1
        /\ \A i \in 1..W : log'[i] = log[i]
    BY <1>1, <2>4, <2>5, Sent DEF TypeInv, TypeOK
  <2>7. TypeOK'
    BY <1>1, <1>3, <2>3, <2>6 DEF TypeInv, TypeOK
  <2>8. ASSUME NEW u \in Workers
        PROVE  /\ wk'[u].w <= Len(log') /\ wk'[u].claim <= Len(log')
               /\ wk'[u].pc = "cas" => FreeAt(log', wk'[u].w)
    <3>1. CASE u = w
      BY <1>2, <2>1, <2>2, <2>3, <2>6, <3>1
    <3>2. CASE u # w
      BY <1>1, <2>3, <2>4, <2>5, <3>2, FreeKept
    <3> QED
      BY <3>1, <3>2
  <2>9. ClaimsExclusive'
    <3> SUFFICES ASSUME NEW b \in Claims(log', Len(log')), NEW d \in Claims(log', Len(log')),
                        b < d
                 PROVE  Endings(log', b, d - 1) # {}
      BY DEF ClaimsExclusive, AllClaims
    <3>1. b \in 1..W /\ b \in Claims(log, W) /\ d \in 1..(W + 1)
      BY <1>2, <2>6 DEF Claims
    <3>2. Endings(log, b, d - 1) # {}
      <4>1. CASE d \in 1..W
        <5>1. d \in Claims(log, W)
          BY <2>6, <4>1 DEF Claims
        <5> QED
          BY <1>1, <3>1, <5>1 DEF ClaimsExclusive, AllClaims
      <4>2. CASE d = W + 1
        <5>1. FreeAt(log, W)
          BY <1>1, <1>3, <2>2 DEF FreeAtCas
        <5>2. Endings(log, b, W) # {}
          BY <1>1, <2>6, <3>1, <5>1, AllEnded
        <5> QED
          BY <1>2, <4>2, <5>2
      <4> QED
        BY <1>2, <3>1, <4>1, <4>2
    <3> DEFINE D == d - 1
    <3>3. D \in Nat /\ b \in Nat /\ \A i \in 1..D : log'[i] = log[i]
      BY <1>2, <2>6, <3>1
    <3>4. Endings(log', b, D) = Endings(log, b, D)
      <4> HIDE DEF D
      <4> QED
        BY <3>3 DEF Endings
    <3> QED
      BY <3>2, <3>4
  <2> QED
    BY <2>7, <2>8, <2>9 DEF ClaimInv, TypeInv, SeqsOnLog, FreeAtCas
<1> QED
  BY <1>4, <1>5 DEF ClaimCas

-----------------------------------------------------------------------------
(* The theorems. *)

LEMMA InitClaimInv == Init => ClaimInv
<1> SUFFICES ASSUME Init PROVE ClaimInv
  OBVIOUS
<1>1. log = <<>> /\ Len(log) = 0
  BY DEF Init
<1>2. \A w \in Workers : wk[w] = NewWorker
  BY DEF Init
<1>3. NoReport \in Report
  BY DEF NoReport, Report
<1>4. TypeOK
  BY <1>3, NewWorkerType DEF Init, TypeOK
<1>5. NewWorker.w = 0 /\ NewWorker.claim = 0 /\ NewWorker.pc = "idle"
  BY DEF NewWorker
<1>6. SeqsOnLog /\ FreeAtCas
  BY <1>1, <1>2, <1>5 DEF SeqsOnLog, FreeAtCas
<1>7. ClaimsExclusive
  BY <1>1 DEF ClaimsExclusive, AllClaims, Claims
<1> QED
  BY <1>4, <1>6, <1>7 DEF ClaimInv, TypeInv

LEMMA NextClaimInv == ClaimInv /\ [Next]_vars => ClaimInv'
<1> SUFFICES ASSUME ClaimInv, [Next]_vars PROVE ClaimInv'
  OBVIOUS
<1>0. TypeInv
  BY DEF ClaimInv
<1>1. ASSUME NEW w \in Workers, Construct(w) PROVE ClaimInv'
  BY <1>0, <1>1, ConstructMoves, MovesKeep
<1>2. ASSUME NEW w \in Workers, ClaimStep(w) PROVE ClaimInv'
  <2>1. CASE ReadLatest(w)
    BY <2>1, ReadLatestKeeps
  <2>2. CASE ClaimCas(w)
    BY <2>2, ClaimCasKeeps
  <2>3. CASE \/ ResumePoint(w) \/ ClaimStarved(w) \/ FoldAnswers(w) \/ FoldRaises(w)
             \/ ProbeLatest(w) \/ ProbeHeld(w)
    BY <1>0, <2>3, ResumePointMoves, ClaimStarvedMoves, FoldMoves, ProbeMoves, MovesKeep
  <2> QED
    BY <1>2, <2>1, <2>2, <2>3 DEF ClaimStep
<1>3. ASSUME NEW w \in Workers, CallStep(w) \/ BeginStopped(w) \/ RetryStarved(w)
      PROVE  ClaimInv'
  BY <1>0, <1>3, CallMoves, BeginMoves, MovesKeep DEF CallStep
<1>4. ASSUME NEW w \in Workers, DrainStep(w) PROVE ClaimInv'
  BY <1>0, <1>4, DrainReadMoves, RaisingMoves, TakeMoves, WriteAnswerMoves, MovesKeep
  DEF DrainStep, Raising
<1>5. ASSUME NEW w \in Workers, NodeStep(w) PROVE ClaimInv'
  <2>1. WorkerMoves(w)
    BY <1>0, <1>5, DecideMoves, SampleMoves, NodeFailsMoves, NodeSendMoves,
       ExitNodeMoves, ExitCasMoves DEF NodeStep
  <2> QED
    BY <2>1, MovesKeep
<1>6. ASSUME NEW w \in Workers, CallRaises(w) \/ ProcessEnds(w) PROVE ClaimInv'
  BY <1>0, <1>6, RaisingMoves, ProcessEndsMoves, MovesKeep DEF Raising
<1>7. ASSUME NEW x \in Actors, ReportStep(x) PROVE ClaimInv'
  BY <1>0, <1>7, ReportStepMoves, MovesKeep, OthersKeep
<1>8. ASSUME NEW p \in Reporters, StartReport(p) PROVE ClaimInv'
  BY <1>0, <1>8, StartReportMoves, OthersKeep
<1>9. ASSUME NEW e \in Asks, Ask(e) PROVE ClaimInv'
  BY <1>0, <1>9, AskMoves, OthersKeep
<1>10. CASE UNCHANGED vars
  BY <1>10, StutterKeeps
<1> QED
  BY <1>1, <1>2, <1>3, <1>4, <1>5, <1>6, <1>7, <1>8, <1>9, <1>10 DEF Next

LEMMA ClaimInvHolds == Spec => []ClaimInv
<1>1. ClaimInv /\ [Next]_vars => ClaimInv'
  BY NextClaimInv
<1> QED
  BY <1>1, InitClaimInv, PTL DEF Spec

(* Every record any actor writes has a record's shape, and every worker's  *)
(* and report's state keeps its type, however many workers, reporters,     *)
(* requests and faults there are.                                          *)
THEOREM TypeCorrect == Spec => []TypeOK
<1>1. ClaimInv => TypeOK
  BY DEF ClaimInv, TypeInv
<1> QED
  BY <1>1, ClaimInvHolds, PTL

(* The run has one claimant at a time (_claim_run): below every claim,     *)
(* each earlier one has ended by its exit or by a death report.  The       *)
(* compare-and-append at the W whose latest claim was seen ended is what   *)
(* makes it so, whatever landed between the worker's three reads.          *)
THEOREM ClaimsAreExclusive == Spec => []ClaimsExclusive
<1>1. ClaimInv => ClaimsExclusive
  BY DEF ClaimInv
<1> QED
  BY <1>1, ClaimInvHolds, PTL

-----------------------------------------------------------------------------
(***************************************************************************)
(* What one step of module Worker does, said once: how a worker's control, *)
(* position and leases move, which record it may write and when, and how a *)
(* death report proceeds.  The invariants below and those of               *)
(* WorkerRequests_proofs follow from these few cases, and open no action.  *)
(***************************************************************************)

(* A claimant's steps, those of a worker that holds a claim, and those     *)
(* between a drain that read no report and the write it was made for.      *)

ClaimPcs == {"claim", "latest", "probe", "held", "report", "cas"}

WorkPcs == {"answers", "drain", "take", "sample", "send", "beat"}

OpenPcs == {"take", "sample", "send", "beat"}

DrainPcs == {"drain", "take", "sample", "send"}

Done(s) == ~s.up \/ (s.phase = "stopped" /\ s.pc = "idle")

ReportedNow(c) == Reported(log, c, Len(log))

Resumable == {0} \cup Extendable(log, Len(log))

DurableAsked(r) ==
  \E k \in 1..Len(log) :
    log[k].topic = "subscribe" /\ log[k].rid = r /\ log[k].body = "durable"

(* The worker of state v, up and not done, goes to state t. *)
ControlMoves(v, t) ==
  /\ v.up /\ v.pc # "report" /\ ~Done(v)
  /\ t.up /\ t.claim = v.claim /\ (v.failed => t.failed)
  /\ t.phase = "new" => v.phase = "new"
  /\ t.folded => v.folded \/ v.pc = "answers"
  /\ t.pc \in ClaimPcs => v.pc \in ClaimPcs \/ v.phase = "new"
  /\ t.pc \in WorkPcs => v.pc \in WorkPcs \/ v.folded
  /\ t.pc \in OpenPcs => v.pc \in OpenPcs \/ ~ReportedNow(v.claim)
  /\ t.pc = "held" => t.seen \in AllClaims
  /\ t.pc = "take" =>
       \/ v.pc = "take" /\ t.w = v.w
       \/ t.w = Len(log) /\ ~ReportedNow(v.claim)
       \/ v.pc = "take" /\ v.w = Len(log) /\ t.w = Len(log) + 1

(* What the worker of state v may write, and the position it goes to. *)
Writes(v, t, e) ==
  \/ e.topic = "value" /\ t.node = v.node /\ t.pc # "take"
  \/ /\ e.topic = "rewind" /\ "rewind" \in Calls
     /\ e.claim = v.claim /\ e.ref = t.node /\ Readable(e)
     /\ t.pc = "idle" /\ t.node \in Resumable
  \/ /\ e.topic = "heartbeat" /\ e.claim = v.claim /\ e.consumed = v.mark
     /\ v.pc = "beat" /\ t.pc = "idle" /\ t.node = v.node
  \/ /\ e.topic = "commit" /\ e.claim = v.claim /\ e.ref = v.node /\ Readable(e)
     /\ e.fired = v.under.fired /\ e.expired = v.under.expired
     /\ e.values = v.under.values /\ e.consumed = v.mark
     /\ v.pc = "send" /\ v.op = "commit" /\ t.pc = "idle"
     /\ t.node = Len(log) + 1 \/ ("ack" \in Faults /\ t.node = v.node)
  \/ /\ e.topic = "stopped" /\ e.claim = v.claim /\ e.ref = v.node /\ Readable(e)
     /\ e.fired = v.under.fired /\ e.expired = v.under.expired
     /\ e.values = v.under.values /\ e.honored = Honored(v)
     /\ v.pc = "take" /\ v.w = Len(log) /\ Undrained(v) = {}
     /\ Done(t) /\ t.pc = "idle" /\ t.node = v.node
  \/ /\ e.topic \in {"nak", "bound"}
     /\ e.topic = "bound" => e.claim = v.claim /\ Readable(e)
     /\ v.pc = "take" /\ v.w = Len(log) /\ t.node = v.node
     /\ t.pc = "take" /\ t.w = Len(log) + 1

LogMoves(v, t) ==
  \/ /\ UNCHANGED log
     /\ t.node = v.node \/ (t.node \in Resumable /\ (v.phase = "new" \/ v.pc = "claim"))
     /\ t.pc = "take" => t.w <= Len(log)
  \/ \E e \in Record : Send(e) /\ Writes(v, t, e)

(* Subscriptions and leases: what becomes live was asked for or is bound,  *)
(* what a node under way names was live, and a lease is bound by the       *)
(* record that says so, once, and only where it is not void.               *)
SubsMove(v, t) ==
  /\ \A r \in RequestIds :
       /\ t.subs[r] = "lease" => v.subs[r] = "lease" \/ r \in t.bound
       /\ t.subs[r] = "durable" => v.subs[r] = "durable" \/ DurableAsked(r)
  /\ \A r \in t.under.fired \cup t.under.expired :
       \/ r \in v.under.fired \cup v.under.expired
       \/ r \in RequestIds /\ v.subs[r] \in {"lease", "durable"}
  /\ v.folded => t.folded
  /\ t.pc \in DrainPcs => \/ t.folded
                          \/ t.mode = "EXIT"
                          \/ v.pc \in DrainPcs /\ t.mode = v.mode

Binding(v, t, e) ==
  /\ e.topic = "bound" /\ e.rid \in RequestIds \ v.bound
  /\ t.bound = v.bound \cup {e.rid}
  /\ v.pc = "take" /\ v.mode = "ITERATION"
  /\ v.subs[e.rid] \in {"none", "lease"}
  /\ ~(v.subs[e.rid] = "none" /\ IsVoid(v, e.rid))

BoundMoves(v, t) ==
  \/ t.bound = v.bound /\ (Len(log') > Len(log) => log'[Len(log')].topic # "bound")
  \/ \E e \in Record : Send(e) /\ Binding(v, t, e)

WorkerStep(w) ==
  /\ wk' = [wk EXCEPT ![w] = wk'[w]]
  /\ ControlMoves(wk[w], wk'[w])
  /\ LogMoves(wk[w], wk'[w])
  /\ SubsMove(wk[w], wk'[w])
  /\ BoundMoves(wk[w], wk'[w])

-----------------------------------------------------------------------------
(* What the functions from worker state to worker state leave alone. *)

Frame(v, t) ==
  /\ t.up = v.up /\ t.claim = v.claim /\ t.folded = v.folded /\ t.bound = v.bound
  /\ v.failed => t.failed
  /\ \A r \in RequestIds : t.subs[r] \in {v.subs[r], "none"}

(* The node under way names nothing it did not name before. *)
Names(v, t) ==
  t.under.fired \cup t.under.expired \subseteq v.under.fired \cup v.under.expired

LEMMA IdleFrame ==
  ASSUME NEW s \in WorkerState
  PROVE  /\ Frame(s, Idle(s)) /\ Idle(s).under = NoNode
         /\ Idle(s).phase = s.phase /\ Idle(s).node = s.node
BY DEF Idle, Frame, WorkerState

LEMMA DrainsFrame ==
  ASSUME NEW s \in WorkerState, NEW op, NEW mode, NEW under
  PROVE  LET t == Drains(s, op, mode, under)
         IN  /\ Frame(s, t) /\ t.under = under /\ t.mode = mode
             /\ t.phase = s.phase /\ t.node = s.node /\ t.pc = "drain"
BY DEF Drains, Frame, WorkerState

LEMMA TearFrame ==
  ASSUME NEW s \in WorkerState
  PROVE  /\ Frame(s, Tear(s)) /\ Tear(s).under = NoNode
         /\ Tear(s).phase = "discarded" /\ Tear(s).node = s.node
<1> DEFINE i == Idle(s)
           d == i.dropped \cup s.pending
<1>1. Tear(s) = [i EXCEPT !.phase = "discarded", !.pending = {}, !.dropped = d]
  BY DEF Tear
<1>2. i \in WorkerState /\ Frame(s, i) /\ i.under = NoNode /\ i.node = s.node
  BY IdleType, IdleFrame
<1> HIDE DEF i, d
<1> QED
  BY <1>1, <1>2 DEF Frame, WorkerState

LEMMA RewoundFrame ==
  ASSUME NEW s \in WorkerState, NEW n
  PROVE  LET t == Rewound(s, n)
         IN  /\ Frame(s, t) /\ t.under = s.under /\ t.phase = s.phase
             /\ t.node = n /\ t.mode = s.mode
BY DEF Rewound, Frame, WorkerState

LEMMA DrainedToFrame ==
  ASSUME NEW s \in WorkerState
  PROVE  LET t == DrainedTo(s)
         IN  /\ Frame(s, t) /\ t.under = s.under /\ t.phase = s.phase
             /\ t.node = s.node /\ t.mode = s.mode
BY DEF DrainedTo, Frame, WorkerState

LEMMA DecideFrame ==
  ASSUME NEW s \in WorkerState, NEW held
  PROVE  LET t == Decide(s, held)
         IN  /\ Frame(s, t) /\ t.under = s.under /\ t.phase = s.phase
             /\ t.node = s.node /\ t.mode = s.mode
BY DEF Decide, Frame, WorkerState

LEMMA StarveFrame ==
  ASSUME NEW s \in WorkerState
  PROVE  LET t == Starve(s)
         IN  /\ Frame(s, t) /\ t.under = s.under /\ t.phase = "starved"
             /\ t.node = s.node
<1> DEFINE i == Idle(s)
           u == s.under
<1>1. Starve(s) = [i EXCEPT !.phase = "starved", !.under = u]
  BY DEF Starve
<1>2. i \in WorkerState /\ Frame(s, i) /\ i.node = s.node
  BY IdleType, IdleFrame
<1> HIDE DEF i
<1> QED
  BY <1>1, <1>2 DEF Frame, WorkerState

LEMMA NodeLandedFrame ==
  ASSUME NEW s \in WorkerState, NEW n
  PROVE  LET t == NodeLanded(s, n)
         IN  /\ Frame(s, t) /\ t.under = NoNode /\ t.phase = s.phase /\ t.node = n
<1> DEFINE i == Idle(s)
           leases == {r \in s.under.expired : s.subs[r] = "lease"}
           subs == [r \in RequestIds |-> IF r \in leases THEN "none" ELSE s.subs[r]]
           p == i.spent \cup leases
<1>1. NodeLanded(s, n) =
        [i EXCEPT !.node = n, !.pending = {}, !.spent = p, !.subs = subs]
  BY DEF NodeLanded
<1>2. i \in WorkerState /\ Frame(s, i) /\ i.under = NoNode /\ i.phase = s.phase
  BY IdleType, IdleFrame
<1>3. \A r \in RequestIds : subs[r] \in {s.subs[r], "none"}
  OBVIOUS
<1> HIDE DEF i, p, subs
<1> QED
  BY <1>1, <1>2, <1>3 DEF Frame, WorkerState

-----------------------------------------------------------------------------
(* From the state a step gives its worker to the step's summary. *)

LEMMA Becomes ==
  ASSUME TypeInv, NEW w \in Workers, NEW s, Become(w, s)
  PROVE  wk'[w] = s /\ wk' = [wk EXCEPT ![w] = wk'[w]]
BY DEF Become, TypeInv, TypeOK

DrainMode(v, t) ==
  t.pc \in DrainPcs => \/ t.folded
                       \/ t.mode = "EXIT"
                       \/ v.pc \in DrainPcs /\ t.mode = v.mode

LEMMA FramedSubs ==
  ASSUME NEW v \in WorkerState, NEW t, Frame(v, t), Names(v, t), DrainMode(v, t)
  PROVE  SubsMove(v, t)
BY DEF Frame, Names, DrainMode, SubsMove

LEMMA NoNames ==
  ASSUME NEW v \in WorkerState, NEW t, t.under = NoNode \/ t.under = v.under
  PROVE  Names(v, t)
<1>1. NoNode.fired = {} /\ NoNode.expired = {}
  BY DEF NoNode
<1> QED
  BY <1>1 DEF Names

(* A step that writes nothing, and leaves the leases and names alone. *)
LEMMA QuietStep ==
  ASSUME TypeInv, NEW w \in Workers, NEW s, Become(w, s), UNCHANGED log,
         ControlMoves(wk[w], s), Frame(wk[w], s), Names(wk[w], s),
         DrainMode(wk[w], s),
         \/ s.node = wk[w].node
         \/ s.node \in Resumable /\ (wk[w].phase = "new" \/ wk[w].pc = "claim"),
         s.pc = "take" => s.w <= Len(log)
  PROVE  WorkerStep(w)
<1>1. wk'[w] = s /\ wk' = [wk EXCEPT ![w] = wk'[w]]
  BY Becomes
<1>2. LogMoves(wk[w], s)
  BY DEF LogMoves
<1>3. SubsMove(wk[w], s)
  BY FramedSubs, StateOf
<1>4. BoundMoves(wk[w], s)
  BY StateOf DEF BoundMoves, Frame
<1> QED
  BY <1>1, <1>2, <1>3, <1>4 DEF WorkerStep

(* A step that writes one record, no binding. *)
LEMMA WritingStep ==
  ASSUME TypeInv, NEW w \in Workers, NEW s, Become(w, s),
         NEW e \in Record, Send(e), e.topic # "bound",
         ControlMoves(wk[w], s), Frame(wk[w], s), Names(wk[w], s),
         DrainMode(wk[w], s), Writes(wk[w], s, e)
  PROVE  WorkerStep(w)
<1>1. wk'[w] = s /\ wk' = [wk EXCEPT ![w] = wk'[w]]
  BY Becomes
<1>2. LogMoves(wk[w], s)
  BY DEF LogMoves
<1>3. SubsMove(wk[w], s)
  BY FramedSubs, StateOf
<1>4. BoundMoves(wk[w], s)
  <2>1. Len(log') = Len(log) + 1 /\ log'[Len(log) + 1] = e
    BY Sent DEF TypeInv, TypeOK
  <2> QED
    BY <2>1 DEF BoundMoves, Frame
<1> QED
  BY <1>1, <1>2, <1>3, <1>4 DEF WorkerStep

-----------------------------------------------------------------------------
(* The claim's steps.  What a claim resumes from is an extendable node, or *)
(* the root.                                                               *)

LEMMA RaiseStep ==
  ASSUME TypeInv, NEW w \in Workers, Raise(w), Quiet, At(w, "claim")
  PROVE  WorkerStep(w)
<1> DEFINE v == wk[w]
           i == Idle(v)
           s == [i EXCEPT !.phase = "raised"]
<1>1. v \in WorkerState /\ v.up /\ v.pc = "claim"
  BY StateOf DEF At
<1>2. i \in WorkerState /\ i.pc = "idle" /\ Frame(v, i) /\ i.under = NoNode /\ i.node = v.node
  BY <1>1, IdleType, IdleFrame
<1>3. /\ s.pc = "idle" /\ s.phase = "raised" /\ s.node = v.node /\ s.under = NoNode
      /\ Frame(v, s)
  <2> HIDE DEF i
  <2> QED
    BY <1>2 DEF WorkerState, Frame
<1>4. Become(w, s) /\ UNCHANGED log
  BY DEF Raise, Quiet
<1> HIDE DEF s
<1>5. ControlMoves(v, s)
  BY <1>1, <1>3
  DEF ControlMoves, Done, Frame, ClaimPcs, WorkPcs, OpenPcs
<1> QED
  BY <1>1, <1>3, <1>4, <1>5, NoNames, QuietStep DEF DrainMode, DrainPcs

LEMMA ConstructStep ==
  ASSUME TypeInv, NEW w \in Workers, Construct(w)
  PROVE  WorkerStep(w)
<1> DEFINE v == wk[w]
           AtHead == [v EXCEPT !.pc = "claim", !.phase = "lost", !.follow = TRUE]
           AtNode(n) == [v EXCEPT !.pc = "claim", !.phase = "lost", !.node = n]
           Fits(s) == /\ s.pc = "claim" /\ s.phase = "lost" /\ s.under = v.under
                      /\ Frame(v, s)
<1>1. v \in WorkerState /\ v.up /\ v.pc = "idle" /\ v.phase = "new" /\ UNCHANGED log
  BY StateOf DEF Construct, At, Quiet
<1>2. Become(w, AtHead) \/ \E n \in Resumable : Become(w, AtNode(n))
  BY DEF Construct, Resumable
<1>3. Fits(AtHead) /\ AtHead.node = v.node
  <2> HIDE DEF v
  <2> QED
    BY <1>1 DEF WorkerState, Frame
<1>4. ASSUME NEW n PROVE Fits(AtNode(n)) /\ AtNode(n).node = n
  <2> HIDE DEF v
  <2> QED
    BY <1>1 DEF WorkerState, Frame
<1> HIDE DEF AtHead, AtNode
<1>5. ASSUME NEW s, Fits(s) PROVE ControlMoves(v, s) /\ DrainMode(v, s) /\ Names(v, s)
  BY <1>1, <1>5, NoNames
  DEF ControlMoves, Done, Frame, ClaimPcs, WorkPcs, OpenPcs, DrainMode, DrainPcs
<1>6. CASE Become(w, AtHead)
  BY <1>1, <1>3, <1>5, <1>6, QuietStep
<1>7. CASE \E n \in Resumable : Become(w, AtNode(n))
  BY <1>1, <1>4, <1>5, <1>7, QuietStep
<1> QED
  BY <1>2, <1>6, <1>7

(* A position the head fold reads is the root or an extendable node. *)
LEMMA PositionResumable ==
  ASSUME NEW lg \in Seq(Record), NEW W \in 0..Len(lg), NEW c \in Claims(lg, W),
         HeadReadable(lg, c, W), NEW i \in Nat, i <= W + 1,
         NEW p, IsPosition(lg, c, i, p)
  PROVE  p \in {0} \cup Extendable(lg, W)
<1> PICK j \in Positions(lg, c, i) :
      p = (IF lg[j].topic = "commit" THEN j ELSE lg[j].ref)
  BY DEF IsPosition
<1> DEFINE own == {k \in (c + 1)..W : OwnedBy(lg[k], c)}
<1>1. c \in 1..W /\ lg[c].topic = "started" /\ W \in Nat
  BY DEF Claims
<1>2. /\ j \in 1..W
      /\ j = c \/ (j \in own /\ lg[j].topic \in {"commit", "rewind"})
  BY <1>1 DEF Positions, OwnedBy
<1>3. CASE lg[j].topic = "commit"
  <2>1. Readable(lg[j])
    BY <1>1, <1>2, <1>3 DEF HeadReadable
  <2> QED
    BY <1>2, <1>3, <2>1 DEF Extendable, IsNode, Closed, Torn
<1>4. CASE lg[j].topic # "commit"
  <2>1. ~BadReference(lg, j)
    BY <1>1, <1>2, <1>4 DEF HeadReadable
  <2>2. Extendable(lg, j - 1) \subseteq Extendable(lg, W)
    BY <1>2 DEF Extendable
  <2> QED
    BY <1>4, <2>1, <2>2 DEF BadReference
<1> QED
  BY <1>3, <1>4

LEMMA HeadResumable ==
  ASSUME NEW lg \in Seq(Record), NEW W \in 0..Len(lg), NEW c \in Claims(lg, W),
         HeadReadable(lg, c, W), NEW n \in 0..W, IsHead(lg, c, W, n),
         ~(n # 0 /\ Closed(lg[n]))
  PROVE  ResumeNode(lg, n) \in {0} \cup Extendable(lg, W)
<1>1. W \in Nat /\ c \in 1..W
  BY DEF Claims
<1>2. CASE HasExit(lg, c, W)
  <2>1. n \in (c + 1)..W /\ lg[n].topic = "stopped" /\ lg[n].claim = c /\ Readable(lg[n])
    BY <1>2 DEF IsHead, Endings
  <2>2. CASE Torn(lg[n])
    <3>1. IsPosition(lg, c, n, lg[n].ref)
      BY <2>1 DEF HeadReadable, OwnedBy
    <3>2. n \in Nat /\ n <= W + 1 /\ n # 0
      BY <1>1, <2>1
    <3>3. lg[n].ref \in {0} \cup Extendable(lg, W)
      BY <3>1, <3>2, PositionResumable
    <3> QED
      BY <2>2, <3>2, <3>3 DEF ResumeNode
  <2>3. CASE ~Torn(lg[n])
    BY <1>1, <2>1, <2>3 DEF ResumeNode, Extendable, IsNode
  <2> QED
    BY <2>2, <2>3
<1>3. CASE ~HasExit(lg, c, W)
  <2>1. IsPosition(lg, c, W + 1, n)
    BY <1>3 DEF IsHead
  <2>2. n \in {0} \cup Extendable(lg, W)
    <3>1. W + 1 \in Nat /\ W + 1 <= W + 1
      BY <1>1
    <3> QED
      BY <2>1, <3>1, PositionResumable
  <2> QED
    BY <1>1, <2>2 DEF ResumeNode, Extendable
<1> QED
  BY <1>2, <1>3

LEMMA ResumePointStep ==
  ASSUME TypeInv, NEW w \in Workers, ResumePoint(w)
  PROVE  WorkerStep(w)
<1> DEFINE v == wk[w]
           W == Len(log)
           k == v.tries + 1
           At0(n) == [v EXCEPT !.pc = "latest", !.w = W, !.node = n, !.tries = k]
<1>1. /\ v \in WorkerState /\ W \in Nat /\ v.up /\ v.pc = "claim"
      /\ Quiet /\ UNCHANGED log /\ At(w, "claim")
  BY StateOf DEF ResumePoint, At, Quiet
<1>2. \/ Raise(w)
      \/ Become(w, At0(v.node))
      \/ \E n \in Resumable : Become(w, At0(n))
  <2>1. ASSUME NEW c \in Claims(log, W), HeadReadable(log, c, W), NEW n \in 0..W,
               IsHead(log, c, W, n), ~(n # 0 /\ Closed(log[n])),
               Become(w, At0(ResumeNode(log, n)))
        PROVE  \E m \in Resumable : Become(w, At0(m))
    <3> HIDE DEF At0
    <3>1. log \in Seq(Record) /\ W \in 0..Len(log)
      BY <1>1 DEF TypeInv, TypeOK
    <3>2. ResumeNode(log, n) \in Resumable
      BY <2>1, <3>1, HeadResumable DEF Resumable
    <3> QED
      BY <2>1, <3>2
  <2>2. 0 \in Resumable
    BY DEF Resumable
  <2>3. \/ Raise(w) \/ Become(w, At0(v.node)) \/ Become(w, At0(0))
        \/ \E c \in Claims(log, W) :
             /\ HeadReadable(log, c, W)
             /\ \E n \in 0..W :
                  /\ IsHead(log, c, W, n) /\ ~(n # 0 /\ Closed(log[n]))
                  /\ Become(w, At0(ResumeNode(log, n)))
    BY DEF ResumePoint
  <2> HIDE DEF At0
  <2> QED
    BY <2>1, <2>2, <2>3
<1>3. ASSUME NEW n
      PROVE  /\ At0(n).pc = "latest" /\ At0(n).node = n /\ At0(n).phase = v.phase
             /\ At0(n).under = v.under /\ Frame(v, At0(n))
  <2> HIDE DEF v, W, k
  <2> QED
    BY <1>1 DEF WorkerState, Frame
<1> HIDE DEF At0
<1>4. ASSUME NEW n
      PROVE  ControlMoves(v, At0(n)) /\ DrainMode(v, At0(n)) /\ Names(v, At0(n))
  BY <1>1, <1>3, NoNames
  DEF ControlMoves, Done, Frame, ClaimPcs, WorkPcs, OpenPcs, DrainMode, DrainPcs
<1>5. CASE Raise(w)
  BY <1>1, <1>5, RaiseStep
<1>6. CASE Become(w, At0(v.node))
  BY <1>1, <1>3, <1>4, <1>6, QuietStep
<1>7. CASE \E n \in Resumable : Become(w, At0(n))
  BY <1>1, <1>3, <1>4, <1>7, QuietStep
<1> QED
  BY <1>2, <1>5, <1>6, <1>7

(* A claimant goes on without having claimed. *)
LEMMA ClaimingStep ==
  ASSUME TypeInv, NEW w \in Workers,
         ReadLatest(w) \/ ProbeLatest(w) \/ (ClaimCas(w) /\ UNCHANGED log)
  PROVE  WorkerStep(w) /\ UNCHANGED <<log, rep>>
<1> DEFINE v == wk[w]
           Goes(p) == [v EXCEPT !.pc = p]
           Held(c) == [v EXCEPT !.pc = "held", !.seen = c]
<1>1. v \in WorkerState /\ v.up /\ v.pc \in ClaimPcs \ {"report"}
  BY StateOf DEF ReadLatest, ProbeLatest, ClaimCas, At, ClaimPcs
<1>2. UNCHANGED <<log, rep>>
  BY DEF ReadLatest, ProbeLatest, ClaimCas, Quiet
<1>3. \/ \E p \in {"claim", "probe", "cas"} : Become(w, Goes(p))
      \/ \E c \in AllClaims : Become(w, Held(c))
  <2>1. ~(ClaimCas(w) /\ UNCHANGED log /\ ~Become(w, Goes("claim")))
    <3>1. log \in Seq(Record) /\ \A e : Len(Append(log, e)) = Len(log) + 1 /\ Len(log) \in Nat
      BY DEF TypeInv, TypeOK
    <3> QED
      BY <3>1 DEF ClaimCas, Send
  <2> QED
    BY <2>1 DEF ReadLatest, ProbeLatest, AllClaims
<1>4. ASSUME NEW p
      PROVE  /\ Goes(p).pc = p /\ Goes(p).node = v.node /\ Goes(p).phase = v.phase
             /\ Goes(p).under = v.under /\ Frame(v, Goes(p))
  <2> HIDE DEF v
  <2> QED
    BY <1>1 DEF WorkerState, Frame
<1>5. ASSUME NEW c
      PROVE  /\ Held(c).pc = "held" /\ Held(c).node = v.node /\ Held(c).phase = v.phase
             /\ Held(c).under = v.under /\ Held(c).seen = c /\ Frame(v, Held(c))
  <2> HIDE DEF v
  <2> QED
    BY <1>1 DEF WorkerState, Frame
<1> HIDE DEF Goes, Held
<1>6. CASE \E p \in {"claim", "probe", "cas"} : Become(w, Goes(p))
  <2> PICK p \in {"claim", "probe", "cas"} : Become(w, Goes(p))
    BY <1>6
  <2>1. ControlMoves(v, Goes(p)) /\ DrainMode(v, Goes(p)) /\ Names(v, Goes(p))
    BY <1>1, <1>4, NoNames
    DEF ControlMoves, Done, Frame, ClaimPcs, WorkPcs, OpenPcs, DrainMode, DrainPcs
  <2> QED
    BY <1>2, <1>4, <2>1, QuietStep
<1>7. CASE \E c \in AllClaims : Become(w, Held(c))
  <2> PICK c \in AllClaims : Become(w, Held(c))
    BY <1>7
  <2>1. DrainMode(v, Held(c)) /\ Names(v, Held(c))
    BY <1>1, <1>5, NoNames DEF DrainMode, DrainPcs
  <2>2. Held(c).seen \in AllClaims
    BY <1>5
  <2>3. ControlMoves(v, Held(c))
    BY <1>1, <1>5, <2>2, ZenonT(60) DEF ControlMoves, Done, Frame, ClaimPcs, WorkPcs, OpenPcs
  <2> QED
    BY <1>2, <1>5, <2>1, <2>3, QuietStep
<1> QED
  BY <1>2, <1>3, <1>6, <1>7

LEMMA FoldStep ==
  ASSUME TypeInv, NEW w \in Workers, FoldAnswers(w) \/ FoldRaises(w)
  PROVE  WorkerStep(w)
<1> DEFINE v == wk[w]
<1>1. v \in WorkerState /\ v.up /\ v.pc = "answers" /\ UNCHANGED log
  BY StateOf DEF FoldAnswers, FoldRaises, At, Quiet
<1>2. CASE FoldRaises(w)
  <2> DEFINE u == [NoNode EXCEPT !.body = "errored"]
             s == Drains(v, "exitNode", "EXIT", u)
  <2>1. Become(w, s)
    BY <1>2 DEF FoldRaises
  <2>2. u.fired = {} /\ u.expired = {}
    BY DEF NoNode
  <2> HIDE DEF u
  <2>3. /\ Frame(v, s) /\ s.under = u /\ s.mode = "EXIT" /\ s.phase = v.phase
        /\ s.node = v.node /\ s.pc = "drain"
    BY <1>1, DrainsFrame
  <2> HIDE DEF s
  <2>4. ControlMoves(v, s) /\ DrainMode(v, s) /\ Names(v, s)
    BY <1>1, <2>2, <2>3
    DEF ControlMoves, Done, Frame, ClaimPcs, WorkPcs, OpenPcs, DrainMode, DrainPcs, Names
  <2> QED
    BY <1>1, <2>1, <2>3, <2>4, QuietStep
<1>3. CASE FoldAnswers(w)
  <2> DEFINE i == Idle(v)
             p == Spent(log, v.claim - 1)
             s == [i EXCEPT !.folded = TRUE, !.drained = 0, !.spent = p]
  <2>1. /\ i \in WorkerState /\ i.pc = "idle" /\ Frame(v, i) /\ i.under = NoNode
        /\ i.node = v.node /\ i.phase = v.phase
    BY <1>1, IdleType, IdleFrame
  <2>2. Become(w, s)
    BY <1>3 DEF FoldAnswers
  <2>3. /\ s.up = i.up /\ s.claim = i.claim /\ s.bound = i.bound /\ s.subs = i.subs
        /\ s.pc = "idle" /\ s.under = NoNode /\ s.node = v.node /\ s.phase = v.phase
        /\ s.folded /\ s.failed = i.failed
    <3> HIDE DEF i, p
    <3> QED
      BY <2>1 DEF WorkerState
  <2> HIDE DEF s
  <2>4. ControlMoves(v, s)
    BY <1>1, <2>1, <2>3
    DEF ControlMoves, Done, Frame, ClaimPcs, WorkPcs, OpenPcs
  <2>5. SubsMove(v, s)
    <3>1. Names(v, s) /\ s.pc \notin DrainPcs
      BY <1>1, <2>3, NoNames DEF DrainPcs
    <3>2. \A r \in RequestIds : s.subs[r] \in {v.subs[r], "none"}
      BY <2>1, <2>3 DEF Frame
    <3>3. s.folded
      BY <2>3
    <3> HIDE DEF v
    <3> QED
      BY <3>1, <3>2, <3>3 DEF SubsMove, Names
  <2>6. LogMoves(v, s) /\ BoundMoves(v, s)
    BY <1>1, <2>1, <2>3, StateOf DEF LogMoves, BoundMoves, Frame
  <2> QED
    BY <2>2, <2>4, <2>5, <2>6, Becomes DEF WorkerStep
<1> QED
  BY <1>2, <1>3

(* A dead claim seen: the claimant's report starts. *)
LEMMA ProbeHeldStep ==
  ASSUME TypeInv, NEW w \in Workers, ProbeHeld(w)
  PROVE  /\ WorkerStep(w) /\ wk[w].pc = "held" /\ UNCHANGED log
         /\ \/ UNCHANGED rep
            \/ /\ wk'[w].pc = "report"
               /\ rep' = [rep EXCEPT ![w] = [NoReport EXCEPT !.pc = "read",
                                                             !.claim = wk[w].seen]]
<1> DEFINE v == wk[w]
           s == [v EXCEPT !.pc = "report"]
           i == Idle(v)
<1>1. v \in WorkerState /\ v.up /\ v.pc = "held" /\ UNCHANGED log
  BY StateOf DEF ProbeHeld, At
<1>2. \/ Become(w, i) /\ UNCHANGED rep
      \/ /\ Become(w, s)
         /\ rep' = [rep EXCEPT ![w] = [NoReport EXCEPT !.pc = "read", !.claim = v.seen]]
  BY DEF ProbeHeld
<1>3. /\ s.pc = "report" /\ s.node = v.node /\ s.phase = v.phase
      /\ s.under = v.under /\ Frame(v, s)
  <2> HIDE DEF v
  <2> QED
    BY <1>1 DEF WorkerState, Frame
<1>4. i.pc = "idle" /\ Frame(v, i) /\ i.under = NoNode /\ i.node = v.node /\ i.phase = v.phase
  BY <1>1, IdleType, IdleFrame
<1> HIDE DEF s, i
<1>5. ASSUME NEW t, t \in {s, i}
      PROVE  ControlMoves(v, t) /\ DrainMode(v, t) /\ Names(v, t)
  BY <1>1, <1>3, <1>4, <1>5, NoNames
  DEF ControlMoves, Done, Frame, ClaimPcs, WorkPcs, OpenPcs, DrainMode, DrainPcs
<1>6. CASE Become(w, i) /\ UNCHANGED rep
  BY <1>1, <1>4, <1>5, <1>6, QuietStep
<1>7. CASE /\ Become(w, s)
           /\ rep' = [rep EXCEPT ![w] = [NoReport EXCEPT !.pc = "read", !.claim = v.seen]]
  <2>1. wk'[w] = s
    BY <1>7, Becomes
  <2> QED
    BY <1>1, <1>3, <1>5, <1>7, <2>1, QuietStep
<1> QED
  BY <1>2, <1>6, <1>7

-----------------------------------------------------------------------------
(* The driver's calls. *)

LEMMA CallStarts ==
  ASSUME TypeInv, NEW w \in Workers, NEW phases, Callable(w, phases), "stopped" \notin phases
  PROVE  /\ wk[w] \in WorkerState /\ wk[w].up /\ wk[w].pc = "idle" /\ wk[w].folded
         /\ ~Done(wk[w]) /\ wk[w].phase \in phases
BY StateOf DEF Callable, At, Done

(* A call whose caller stays idle: it moves control nowhere. *)
LEMMA IdleControl ==
  ASSUME NEW v, v.up, v.pc # "report", ~Done(v), NEW t, Frame(v, t), t.pc = "idle",
         t.phase # "new" \/ t.phase = v.phase
  PROVE  ControlMoves(v, t) /\ DrainMode(v, t)
BY DEF ControlMoves, Frame, ClaimPcs, WorkPcs, OpenPcs, DrainMode, DrainPcs

(* A call that begins a drain. *)
LEMMA DrainControl ==
  ASSUME NEW v, v.up, v.pc # "report", ~Done(v), NEW t, Frame(v, t), t.pc = "drain",
         t.phase # "new" \/ t.phase = v.phase,
         v.folded \/ (v.pc \in DrainPcs /\ t.mode = v.mode)
  PROVE  ControlMoves(v, t) /\ DrainMode(v, t)
BY DEF ControlMoves, Frame, ClaimPcs, WorkPcs, OpenPcs, DrainMode, DrainPcs

LEMMA CallStepStep ==
  ASSUME TypeInv, NEW w \in Workers,
         \/ Emit(w) \/ SetRegister(w) \/ Include(w) \/ Rewind(w) \/ Discard(w)
  PROVE  WorkerStep(w)
<1> DEFINE v == wk[w]
           Pends(p) == [v EXCEPT !.pending = p]
           Sets(g) == [v EXCEPT !.reg = g]
<1>1. /\ v \in WorkerState /\ v.up /\ v.pc = "idle" /\ v.folded /\ ~Done(v)
      /\ v.phase = "live"
  <2>1. Callable(w, {"live"})
    BY DEF Emit, SetRegister, Include, Rewind, Discard, Call
  <2> QED
    BY <2>1, CallStarts
<1>2. ASSUME NEW p
      PROVE  /\ Frame(v, Pends(p)) /\ Pends(p).pc = "idle" /\ Pends(p).phase = "live"
             /\ Pends(p).under = v.under /\ Pends(p).node = v.node
             /\ Frame(v, Sets(p)) /\ Sets(p).pc = "idle" /\ Sets(p).phase = "live"
             /\ Sets(p).under = v.under /\ Sets(p).node = v.node
  <2> HIDE DEF v
  <2> QED
    BY <1>1 DEF WorkerState, Frame
<1>3. CASE Emit(w)
  <2> DEFINE e == [Blank EXCEPT !.body = "eager"]
             s == Pends(v.pending \cup {Len(log) + 1})
  <2>1. Send(e) /\ Become(w, s) /\ e \in Record /\ e.topic = "value"
    BY <1>3, EagerType DEF Emit
  <2>2. Frame(v, s) /\ s.pc = "idle" /\ s.phase = "live" /\ s.under = v.under /\ s.node = v.node
    BY <1>2
  <2> HIDE DEF e, s
  <2>3. ControlMoves(v, s) /\ DrainMode(v, s) /\ Names(v, s) /\ Writes(v, s, e)
    BY <1>1, <2>1, <2>2, IdleControl, NoNames DEF Writes
  <2> QED
    BY <2>1, <2>2, <2>3, WritingStep
<1>4. CASE SetRegister(w) \/ Include(w)
  <2> PICK s : /\ Become(w, s) /\ UNCHANGED log
               /\ Frame(v, s) /\ s.pc = "idle" /\ s.phase = "live"
               /\ s.under = v.under /\ s.node = v.node
    BY <1>2, <1>4 DEF SetRegister, Include, Silent
  <2>1. ControlMoves(v, s) /\ DrainMode(v, s) /\ Names(v, s)
    BY <1>1, IdleControl, NoNames
  <2> QED
    BY <2>1, QuietStep
<1>5. CASE Rewind(w)
  <2> PICK n \in Resumable :
        /\ Send([Blank EXCEPT !.topic = "rewind", !.claim = v.claim, !.ref = n])
        /\ Become(w, Rewound(v, n))
    BY <1>5 DEF Rewind, Resumable
  <2> DEFINE c == v.claim
             e == [Blank EXCEPT !.topic = "rewind", !.claim = c, !.ref = n]
             s == Rewound(v, n)
  <2>1. n \in Nat /\ c \in Nat
    BY <1>1 DEF Resumable, Extendable, WorkerState
  <2>2. /\ e \in Record /\ e.topic = "rewind" /\ e.claim = c /\ e.ref = n /\ Readable(e)
    <3> HIDE DEF c
    <3> QED
      BY <2>1, RewindType DEF Blank, Readable
  <2>3. /\ Frame(v, s) /\ s.pc = "idle" /\ s.phase = "live" /\ s.under = v.under
        /\ s.node = n
    BY <1>1, <2>1, RewoundType, RewoundFrame
  <2>4. Send(e) /\ Become(w, s) /\ "rewind" \in Calls
    BY <1>5 DEF Rewind, Call
  <2> HIDE DEF e, s
  <2>5. ControlMoves(v, s) /\ DrainMode(v, s) /\ Names(v, s) /\ Writes(v, s, e)
    BY <1>1, <2>2, <2>3, <2>4, IdleControl, NoNames DEF Writes
  <2> QED
    BY <2>2, <2>3, <2>4, <2>5, WritingStep
<1>6. CASE Discard(w)
  <2> DEFINE s == Tear(v)
  <2>1. /\ Frame(v, s) /\ s.under = NoNode /\ s.phase = "discarded" /\ s.node = v.node
        /\ s.pc = "idle" /\ Become(w, s) /\ UNCHANGED log
    BY <1>1, <1>6, TearType, TearFrame DEF Discard, Silent
  <2> HIDE DEF s
  <2>2. ControlMoves(v, s) /\ DrainMode(v, s) /\ Names(v, s)
    BY <1>1, <2>1, IdleControl, NoNames
  <2> QED
    BY <2>1, <2>2, QuietStep
<1> QED
  BY <1>3, <1>4, <1>5, <1>6

LEMMA BeginStep ==
  ASSUME TypeInv, NEW w \in Workers,
         \/ BeginCommit(w) \/ BeginHeartbeat(w) \/ BeginRetire(w)
         \/ BeginStopped(w) \/ RetryStarved(w)
  PROVE  WorkerStep(w)
<1> DEFINE v == wk[w]
           Errs(b) == [NoNode EXCEPT !.body = b]
<1>1. v \in WorkerState /\ v.up /\ v.pc = "idle" /\ v.folded /\ ~Done(v) /\ UNCHANGED log
  <2>1. Callable(w, {"live"}) \/ Callable(w, {"live", "discarded"}) \/ Callable(w, {"starved"})
    BY DEF BeginCommit, BeginHeartbeat, BeginRetire, BeginStopped, RetryStarved, Call
  <2>2. UNCHANGED log
    BY DEF BeginCommit, BeginHeartbeat, BeginRetire, BeginStopped, RetryStarved, Silent, Quiet
  <2> QED
    BY <2>1, <2>2, CallStarts
<1>2. \A b : Errs(b).fired = {} /\ Errs(b).expired = {}
  BY DEF NoNode
<1> HIDE DEF Errs
<1> PICK op, mode, under :
      /\ Become(w, Drains(v, op, mode, under))
      /\ under = v.under \/ under = NoNode \/ \E b : under = Errs(b)
  BY DEF BeginCommit, BeginHeartbeat, BeginRetire, BeginStopped, RetryStarved, Errs
<1> DEFINE s == Drains(v, op, mode, under)
<1>3. /\ Frame(v, s) /\ s.under = under /\ s.mode = mode
      /\ s.phase = v.phase /\ s.node = v.node /\ s.pc = "drain"
  BY <1>1, DrainsFrame
<1>6. Become(w, s)
  OBVIOUS
<1> HIDE DEF s
<1>4. Names(v, s)
  BY <1>2, <1>3, NoNames, <1>1 DEF Names
<1>5. ControlMoves(v, s) /\ DrainMode(v, s)
  BY <1>1, <1>3, DrainControl
<1> QED
  BY <1>1, <1>3, <1>4, <1>5, <1>6, QuietStep

-----------------------------------------------------------------------------
(* The drain. *)

LEMMA DrainReadStep ==
  ASSUME TypeInv, NEW w \in Workers, DrainRead(w)
  PROVE  WorkerStep(w)
<1> DEFINE v == wk[w]
           i == Idle(v)
           W == Len(log)
           k == v.tries + 1
           released == [i EXCEPT !.phase = "released"]
           take == [v EXCEPT !.pc = "take", !.w = W, !.tries = k]
<1>1. /\ v \in WorkerState /\ v.up /\ v.pc = "drain" /\ ~Done(v) /\ UNCHANGED log
      /\ W \in Nat
  BY StateOf DEF DrainRead, At, Quiet, Done
<1>2. /\ i \in WorkerState /\ i.pc = "idle" /\ Frame(v, i) /\ i.under = NoNode
      /\ i.node = v.node /\ i.phase = v.phase
  BY <1>1, IdleType, IdleFrame
<1>3. Become(w, released) \/ (Become(w, take) /\ ~ReportedNow(v.claim))
  BY DEF DrainRead, ReportedNow
<1>4. /\ released.pc = "idle" /\ released.phase = "released" /\ released.node = v.node
      /\ released.under = NoNode /\ Frame(v, released)
  <2> HIDE DEF i
  <2> QED
    BY <1>2 DEF WorkerState, Frame
<1>6. /\ take.pc = "take" /\ take.phase = v.phase /\ take.node = v.node /\ take.w = W
      /\ take.under = v.under /\ take.mode = v.mode /\ Frame(v, take)
  <2> HIDE DEF v, W, k
  <2> QED
    BY <1>1 DEF WorkerState, Frame
<1> HIDE DEF released, take, i
<1>7. CASE Become(w, released)
  BY <1>1, <1>4, <1>7, IdleControl, NoNames, QuietStep
<1>9. CASE Become(w, take) /\ ~ReportedNow(v.claim)
  <2>1. ControlMoves(v, take) /\ DrainMode(v, take) /\ Names(v, take)
    BY <1>1, <1>6, <1>9, NoNames
    DEF ControlMoves, Frame, ClaimPcs, WorkPcs, OpenPcs, DrainMode, DrainPcs
  <2> QED
    BY <1>1, <1>6, <1>9, <2>1, QuietStep
<1> QED
  BY <1>3, <1>7, <1>9

LEMMA RaisingStep ==
  ASSUME TypeInv, NEW w \in Workers, Raising(w)
  PROVE  WorkerStep(w)
<1> DEFINE v == wk[w]
           s == Fails(v)
<1>1. /\ v \in WorkerState /\ v.up /\ v.pc # "report" /\ ~Done(v) /\ Become(w, s)
      /\ UNCHANGED log
  BY RaisingIs DEF Done
<1>2. /\ s.pc = "idle" /\ s.phase = v.phase /\ s.node = v.node
      /\ s.under = NoNode \/ s.under = v.under
      /\ Frame(v, s)
  BY <1>1, FailsType DEF Frame
<1> HIDE DEF s
<1>3. Names(v, s) /\ ControlMoves(v, s) /\ DrainMode(v, s)
  BY <1>1, <1>2, NoNames, IdleControl
<1> QED
  BY <1>1, <1>2, <1>3, QuietStep

(* Handling a record leaves everything a step's summary tells of alone but *)
(* the subscriptions.                                                      *)
StaysTaking(v, t) ==
  /\ v.failed => t.failed
  /\ t.up = v.up /\ t.claim = v.claim /\ t.folded = v.folded /\ t.bound = v.bound
  /\ t.pc = v.pc /\ t.phase = v.phase /\ t.node = v.node /\ t.under = v.under
  /\ t.mode = v.mode /\ t.w = v.w

LEMMA HandledStays ==
  ASSUME NEW v \in WorkerState, NEW k
  PROVE  StaysTaking(v, Handled(v, k)) /\ Handled(v, k).subs = v.subs
BY DEF Handled, StaysTaking, WorkerState

LEMMA SpendIdStays ==
  ASSUME NEW v \in WorkerState, NEW r \in RequestIds
  PROVE  /\ StaysTaking(v, SpendId(v, r))
         /\ \A q \in RequestIds : SpendId(v, r).subs[q] \in {v.subs[q], "none"}
BY DEF SpendId, StaysTaking, WorkerState

LEMMA StaysTrans ==
  ASSUME NEW s, NEW t, NEW u, StaysTaking(s, t), StaysTaking(t, u)
  PROVE  StaysTaking(s, u)
BY DEF StaysTaking

LEMMA UndrainedOnLog ==
  ASSUME TypeInv, NEW w \in Workers, NEW k \in Undrained(wk[w])
  PROVE  k \in 1..Len(log)
<1>1. wk[w].drained \in Nat /\ wk[w].w \in 0..Len(log)
  BY StateOf DEF WorkerState
<1> QED
  BY <1>1 DEF Undrained

LEMMA TakeStep ==
  ASSUME TypeInv, NEW w \in Workers, TakeRecord(w)
  PROVE  WorkerStep(w)
<1> DEFINE v == wk[w]
<1>1. v \in WorkerState /\ v.up /\ v.pc = "take" /\ UNCHANGED log
      /\ v.w \in 0..Len(log) /\ Len(log) \in Nat
  BY StateOf DEF TakeRecord, At, Quiet
<1> PICK k \in Undrained(v) :
      LET e == log[k]
      IN  \/ Become(w, Handled(v, k))
          \/ /\ TakesStop(v, e)
             /\ Become(w, [Handled(v, k) EXCEPT !.stops[e.rid] = e.body])
          \/ TakesWithdraw(v, e) /\ Become(w, SpendId(Handled(v, k), e.rid))
          \/ /\ VoidLease(v, e)
             /\ Become(w, [Handled(v, k) EXCEPT !.spent = @ \cup {e.rid}])
          \/ /\ Accepted(v, e) /\ ~Binds(v, e)
             /\ Become(w, [Handled(v, k) EXCEPT !.subs[e.rid] = e.body])
  BY DEF TakeRecord
<1> DEFINE e == log[k]
           h == Handled(v, k)
           Fits(s) == /\ StaysTaking(v, s)
                      /\ \A r \in RequestIds :
                           \/ s.subs[r] \in {v.subs[r], "none"}
                           \/ s.subs[r] = "lease" /\ r \in v.bound
                           \/ s.subs[r] = "durable" /\ DurableAsked(r)
<1>2. k \in 1..Len(log) /\ e \in Fields /\ WellBodied(e)
  BY UndrainedOnLog, UndrainedType
<1>3. h \in WorkerState /\ StaysTaking(v, h) /\ h.subs = v.subs
  BY <1>1, <1>2, HandledType, HandledStays
<1>4. ASSUME NEW s, Fits(s), Become(w, s) PROVE WorkerStep(w)
  <2>1. ControlMoves(v, s)
    BY <1>1, <1>4 DEF StaysTaking, ControlMoves, Done, ClaimPcs, WorkPcs, OpenPcs
  <2>2. LogMoves(v, s) /\ BoundMoves(v, s)
    BY <1>1, <1>4 DEF StaysTaking, LogMoves, BoundMoves
  <2>3. SubsMove(v, s)
    BY <1>1, <1>4 DEF StaysTaking, SubsMove, DrainPcs
  <2> QED
    BY <1>4, <2>1, <2>2, <2>3, Becomes DEF WorkerStep
<1>5. CASE Become(w, h)
  <2> HIDE DEF h
  <2>1. Fits(h)
    BY <1>3
  <2> HIDE DEF Fits
  <2> QED
    BY <1>4, <1>5, <2>1
<1>6. CASE TakesStop(v, e) /\ Become(w, [h EXCEPT !.stops[e.rid] = e.body])
  <2> DEFINE s == [h EXCEPT !.stops[e.rid] = e.body]
  <2>1. StaysTaking(v, s) /\ s.subs = v.subs
    <3> HIDE DEF h, e
    <3> QED
      BY <1>3 DEF StaysTaking, WorkerState
  <2>2. Become(w, s)
    BY <1>6
  <2> HIDE DEF s
  <2>3. Fits(s)
    BY <2>1
  <2> HIDE DEF Fits
  <2> QED
    BY <1>4, <2>2, <2>3
<1>7. CASE TakesWithdraw(v, e) /\ Become(w, SpendId(h, e.rid))
  <2> DEFINE s == SpendId(h, e.rid)
  <2>1. e.rid \in RequestIds
    BY <1>7 DEF TakesWithdraw, Answerable
  <2> HIDE DEF h, e
  <2>2. StaysTaking(v, s) /\ \A r \in RequestIds : s.subs[r] \in {v.subs[r], "none"}
    <3>1. StaysTaking(h, s) /\ \A r \in RequestIds : s.subs[r] \in {h.subs[r], "none"}
      BY <1>3, <2>1, SpendIdStays
    <3> HIDE DEF s
    <3> QED
      BY <1>3, <3>1, StaysTrans
  <2>3. Become(w, s)
    BY <1>7
  <2> HIDE DEF s
  <2>4. Fits(s)
    BY <2>2
  <2> HIDE DEF Fits
  <2> QED
    BY <1>4, <2>3, <2>4
<1>8. CASE VoidLease(v, e) /\ Become(w, [h EXCEPT !.spent = @ \cup {e.rid}])
  <2> DEFINE p == h.spent \cup {e.rid}
             s == [h EXCEPT !.spent = p]
  <2>1. StaysTaking(v, s) /\ s.subs = v.subs
    <3> HIDE DEF h, p
    <3> QED
      BY <1>3 DEF StaysTaking, WorkerState
  <2>2. Become(w, s)
    BY <1>8
  <2> HIDE DEF s
  <2>3. Fits(s)
    BY <2>1
  <2> HIDE DEF Fits
  <2> QED
    BY <1>4, <2>2, <2>3
<1>9. CASE /\ Accepted(v, e) /\ ~Binds(v, e)
           /\ Become(w, [h EXCEPT !.subs[e.rid] = e.body])
  <2> DEFINE r == e.rid  b == e.body
             s == [h EXCEPT !.subs[r] = b]
  <2>1. /\ r \in RequestIds /\ b \in {"durable", "lease"}
        /\ b = "lease" => r \in v.bound
        /\ b = "durable" => DurableAsked(r)
    BY <1>2, <1>9
    DEF Accepted, Binds, Subscribes, Answerable, WellBodied, DurableAsked
  <2>2. Become(w, s)
    BY <1>9
  <2>3. /\ StaysTaking(v, s)
        /\ \A q \in RequestIds : s.subs[q] = IF q = r THEN b ELSE v.subs[q]
    <3> HIDE DEF h, r, b
    <3> QED
      BY <1>3 DEF StaysTaking, WorkerState
  <2> HIDE DEF s, r, b
  <2>4. Fits(s)
    BY <2>1, <2>3
  <2> HIDE DEF Fits
  <2> QED
    BY <1>4, <2>2, <2>4
<1> QED
  BY <1>5, <1>6, <1>7, <1>8, <1>9

LEMMA WriteAnswerStep ==
  ASSUME TypeInv, NEW w \in Workers, WriteAnswer(w)
  PROVE  WorkerStep(w)
<1> DEFINE v == wk[w]
           L == Len(log)
           n == L + 1
<1>1. v \in WorkerState /\ v.up /\ v.pc = "take" /\ ~Done(v) /\ L \in Nat /\ n \in Nat
  BY StateOf DEF WriteAnswer, At, Done
<1> PICK k \in Undrained(v) :
      LET e == log[k]
      IN  \/ /\ AtTail(w)
             /\ Send([Blank EXCEPT !.topic = "nak", !.rid = e.rid])
             /\ Become(w, [(IF e.rid = NoId THEN Handled(v, k)
                            ELSE SpendId(Handled(v, k), e.rid)) EXCEPT !.w = Len(log) + 1])
          \/ /\ AtTail(w) /\ Binds(v, e)
             /\ Send([Blank EXCEPT !.topic = "bound", !.rid = e.rid, !.claim = v.claim])
             /\ Become(w, [[Handled(v, k) EXCEPT !.subs[e.rid] = "lease",
                              !.bound = @ \cup {e.rid}] EXCEPT !.w = Len(log) + 1])
          \/ UNCHANGED log /\ Become(w, [v EXCEPT !.pc = "drain"])
  BY DEF WriteAnswer
<1> DEFINE e == log[k]
           r == e.rid
           h == Handled(v, k)
           c == v.claim
           nak == [Blank EXCEPT !.topic = "nak", !.rid = r]
           bnd == [Blank EXCEPT !.topic = "bound", !.rid = r, !.claim = c]
<1>2. k \in 1..L /\ r \in RequestIds \cup {NoId} /\ c \in Nat
  BY <1>1, UndrainedOnLog, UndrainedType DEF WorkerState
<1>3. h \in WorkerState /\ StaysTaking(v, h) /\ h.subs = v.subs
  BY <1>1, <1>2, HandledType, HandledStays
<1>4. /\ nak \in Record /\ nak.topic = "nak"
      /\ bnd \in Record /\ bnd.topic = "bound" /\ bnd.rid = r /\ bnd.claim = c
      /\ Readable(bnd)
  <2> HIDE DEF r, c
  <2> QED
    BY <1>2, AnswerType DEF Blank, Readable
<1> HIDE DEF nak, bnd
<1>5. CASE /\ AtTail(w) /\ Send(nak)
           /\ Become(w, [(IF r = NoId THEN h ELSE SpendId(h, r)) EXCEPT !.w = n])
  <2> DEFINE t == IF r = NoId THEN h ELSE SpendId(h, r)
             s == [t EXCEPT !.w = n]
  <2>1. /\ t \in WorkerState /\ StaysTaking(v, t)
        /\ \A q \in RequestIds : t.subs[q] \in {v.subs[q], "none"}
    <3>1. CASE r = NoId
      <4> HIDE DEF h, r
      <4> QED
        BY <1>3, <3>1
    <3>2. CASE r # NoId
      <4> HIDE DEF h, r
      <4>1. r \in RequestIds
        BY <1>2, <3>2
      <4>2. /\ SpendId(h, r) \in WorkerState /\ StaysTaking(h, SpendId(h, r))
            /\ \A q \in RequestIds : SpendId(h, r).subs[q] \in {h.subs[q], "none"}
        BY <1>3, <4>1, SpendIdType, SpendIdStays
      <4> QED
        BY <1>3, <3>2, <4>2, StaysTrans
    <3> QED
      BY <3>1, <3>2
  <2>2. /\ Frame(v, s) /\ s.pc = "take" /\ s.phase = v.phase /\ s.node = v.node
        /\ s.under = v.under /\ s.mode = v.mode /\ s.w = n
    <3> HIDE DEF t, n
    <3> QED
      BY <1>1, <2>1, ZenonT(60) DEF StaysTaking, Frame, WorkerState
  <2>3. Become(w, s) /\ Send(nak) /\ v.w = L
    BY <1>5 DEF AtTail
  <2> HIDE DEF s
  <2>4. ControlMoves(v, s) /\ DrainMode(v, s) /\ Names(v, s) /\ Writes(v, s, nak)
    BY <1>1, <1>4, <2>2, <2>3, NoNames
    DEF ControlMoves, Frame, ClaimPcs, WorkPcs, OpenPcs, DrainMode, DrainPcs, Writes
  <2> QED
    BY <1>4, <2>2, <2>3, <2>4, WritingStep
<1>6. CASE /\ AtTail(w) /\ Binds(v, e) /\ Send(bnd)
           /\ Become(w, [[h EXCEPT !.subs[r] = "lease", !.bound = @ \cup {r}]
                           EXCEPT !.w = n])
  <2> DEFINE b == h.bound \cup {r}
             s == [[h EXCEPT !.subs[r] = "lease", !.bound = b] EXCEPT !.w = n]
  <2>1. /\ r \in RequestIds \ v.bound /\ v.mode = "ITERATION"
        /\ v.subs[r] \in {"none", "lease"} /\ ~(v.subs[r] = "none" /\ IsVoid(v, r))
    BY <1>6 DEF Binds, Accepted, VoidLease, Subscribes, Answerable
  <2>2. Become(w, s) /\ Send(bnd) /\ v.w = L
    BY <1>6 DEF AtTail
  <2>3. /\ s.up = v.up /\ s.claim = v.claim /\ s.folded = v.folded
        /\ s.pc = "take" /\ s.phase = v.phase /\ s.node = v.node
        /\ s.under = v.under /\ s.mode = v.mode /\ s.w = n
        /\ s.bound = v.bound \cup {r} /\ (v.failed => s.failed)
        /\ \A q \in RequestIds : s.subs[q] = IF q = r THEN "lease" ELSE v.subs[q]
    <3>1. b = v.bound \cup {r}
      BY <1>3 DEF StaysTaking
    <3> DEFINE u == [h EXCEPT !.subs[r] = "lease", !.bound = b]
    <3> HIDE DEF h, r, b, n
    <3>2. /\ u \in WorkerState /\ u.up = h.up /\ u.claim = h.claim
          /\ u.folded = h.folded /\ u.pc = h.pc /\ u.phase = h.phase
          /\ u.failed = h.failed /\ u.node = h.node /\ u.under = h.under /\ u.mode = h.mode /\ u.bound = b
          /\ \A q \in RequestIds : u.subs[q] = IF q = r THEN "lease" ELSE h.subs[q]
      <4>1. r \in RequestIds /\ b \in SUBSET RequestIds
        BY <1>1, <2>1, <3>1 DEF WorkerState
      <4> QED
        BY <1>3, <4>1 DEF WorkerState
    <3> HIDE DEF u
    <3>3. /\ s.up = u.up /\ s.claim = u.claim /\ s.folded = u.folded /\ s.pc = u.pc
          /\ s.phase = u.phase /\ s.node = u.node /\ s.under = u.under
          /\ s.mode = u.mode /\ s.bound = u.bound /\ s.subs = u.subs /\ s.w = n
          /\ s.failed = u.failed
      BY <3>2 DEF WorkerState, u
    <3> QED
      BY <1>1, <1>3, <3>1, <3>2, <3>3, ZenonT(60) DEF StaysTaking
  <2> HIDE DEF s, r, e
  <2>4. ControlMoves(v, s) /\ Writes(v, s, bnd)
    BY <1>1, <1>4, <2>2, <2>3
    DEF ControlMoves, ClaimPcs, WorkPcs, OpenPcs, Writes
  <2>5. SubsMove(v, s)
    BY <1>1, <2>1, <2>3 DEF SubsMove, DrainPcs
  <2>6. LogMoves(v, s) /\ BoundMoves(v, s)
    <3>1. Binding(v, s, bnd)
      BY <1>1, <1>4, <2>1, <2>3 DEF Binding
    <3> QED
      BY <1>4, <2>2, <2>4, <3>1 DEF LogMoves, BoundMoves
  <2> QED
    BY <2>2, <2>4, <2>5, <2>6, Becomes DEF WorkerStep
<1>7. CASE UNCHANGED log /\ Become(w, [v EXCEPT !.pc = "drain"])
  <2> DEFINE s == [v EXCEPT !.pc = "drain"]
  <2>1. /\ Frame(v, s) /\ s.pc = "drain" /\ s.phase = v.phase /\ s.node = v.node
        /\ s.under = v.under /\ s.mode = v.mode
    <3> HIDE DEF v
    <3> QED
      BY <1>1 DEF WorkerState, Frame
  <2>2. Become(w, s)
    BY <1>7
  <2> HIDE DEF s
  <2>3. ControlMoves(v, s) /\ DrainMode(v, s) /\ Names(v, s)
    BY <1>1, <2>1, NoNames, DrainControl DEF DrainPcs
  <2> QED
    BY <1>7, <2>1, <2>2, <2>3, QuietStep
<1> QED
  BY <1>5, <1>6, <1>7 DEF nak, bnd

-----------------------------------------------------------------------------
(* Nodes, heartbeats and the exit. *)

LEMMA StaysFrame ==
  ASSUME NEW v \in WorkerState, NEW t
  PROVE  /\ t = DrainedTo(v) => /\ Frame(v, t) /\ t.phase = v.phase /\ t.node = v.node
                                /\ t.mode = v.mode /\ t.under = v.under
         /\ \A held : t = Decide(DrainedTo(v), held) =>
              /\ Frame(v, t) /\ t.phase = v.phase /\ t.node = v.node /\ t.mode = v.mode
<1>1. DrainedTo(v) \in WorkerState
  BY DrainedToType
<1>2. /\ Frame(v, DrainedTo(v)) /\ DrainedTo(v).phase = v.phase
      /\ DrainedTo(v).node = v.node /\ DrainedTo(v).mode = v.mode
      /\ DrainedTo(v).under = v.under
  BY DrainedToFrame
<1>3. ASSUME NEW held
      PROVE  LET u == Decide(DrainedTo(v), held)
             IN  /\ Frame(v, u) /\ u.phase = v.phase /\ u.node = v.node /\ u.mode = v.mode
  <2> DEFINE d == DrainedTo(v)
             u == Decide(d, held)
  <2>1. Frame(d, u) /\ u.phase = d.phase /\ u.node = d.node /\ u.mode = d.mode
    BY <1>1, DecideFrame
  <2> HIDE DEF d, u
  <2>2. Frame(v, u) /\ u.phase = v.phase /\ u.node = v.node /\ u.mode = v.mode
    BY <1>2, <2>1 DEF Frame, d
  <2> QED
    BY <2>2 DEF u, d
<1> QED
  BY <1>2, <1>3

(* A drained worker evaluates the node it is about to write: what the node *)
(* names is live.                                                          *)
LEMMA EvaluatedStep ==
  ASSUME TypeInv, NEW w \in Workers, At(w, "take"), UNCHANGED log,
         NEW d \in WorkerState, Frame(wk[w], d), d.phase = wk[w].phase,
         d.node = wk[w].node, d.mode = wk[w].mode,
         NEW body, NEW fired \in MayFire(wk[w]), NEW expired \in SUBSET Live(wk[w]),
         Become(w, [d EXCEPT !.under = Evaluated(wk[w], body, fired, expired),
                             !.pc = IF fired = {} THEN "send" ELSE "sample"])
  PROVE  WorkerStep(w)
<1> DEFINE v == wk[w]
           u == Evaluated(v, body, fired, expired)
           p == IF fired = {} THEN "send" ELSE "sample"
           s == [d EXCEPT !.under = u, !.pc = p]
<1>1. v \in WorkerState /\ v.up /\ v.pc = "take"
  BY StateOf DEF At
<1>2. /\ Frame(v, s) /\ s.phase = v.phase /\ s.node = v.node /\ s.mode = v.mode
      /\ s.under = u /\ s.pc = p
  <2> HIDE DEF u, p, v
  <2> QED
    BY DEF Frame, WorkerState, v
<1>3. u.fired = fired /\ u.expired = expired /\ p \in {"send", "sample"}
  BY DEF Evaluated
<1>4. \A r \in fired \cup expired : r \in RequestIds /\ v.subs[r] \in {"lease", "durable"}
  BY DEF MayFire, Live
<1>5. Become(w, s)
  OBVIOUS
<1> HIDE DEF s, u, p
<1>6. ControlMoves(v, s)
  BY <1>1, <1>2, <1>3
  DEF ControlMoves, Done, Frame, ClaimPcs, WorkPcs, OpenPcs
<1>7. SubsMove(v, s)
  BY <1>1, <1>2, <1>3, <1>4 DEF SubsMove, Frame, DrainPcs
<1>8. LogMoves(v, s) /\ BoundMoves(v, s)
  BY <1>1, <1>2, <1>3, StateOf DEF LogMoves, BoundMoves, Frame
<1> QED
  BY <1>5, <1>6, <1>7, <1>8, Becomes DEF WorkerStep

LEMMA DecideStep ==
  ASSUME TypeInv, NEW w \in Workers, CommitDecide(w) \/ HeartbeatDecide(w)
  PROVE  WorkerStep(w)
<1> DEFINE v == wk[w]
<1>1. v \in WorkerState /\ v.up /\ v.pc = "take" /\ UNCHANGED log /\ At(w, "take")
  BY StateOf DEF CommitDecide, HeartbeatDecide, Drained, At, Quiet
<1>2. ASSUME NEW held \in Due(v)
      PROVE  LET d == Decide(DrainedTo(v), held)
             IN  /\ d \in WorkerState /\ Frame(v, d) /\ d.phase = v.phase
                 /\ d.node = v.node /\ d.mode = v.mode
  <2>1. held \in SUBSET RequestIds
    BY DEF Due
  <2> QED
    BY <1>1, <2>1, DrainedToType, DecideType, StaysFrame
<1>3. CASE CommitDecide(w)
  <2> PICK held \in Due(v), fired \in MayFire(v), expired \in SUBSET Live(v) :
        Become(w, [Decide(DrainedTo(v), held) EXCEPT
                     !.under = Evaluated(v, "", fired, expired),
                     !.pc = IF fired = {} THEN "send" ELSE "sample"])
    BY <1>3 DEF CommitDecide
  <2> DEFINE d == Decide(DrainedTo(v), held)
  <2>1. /\ d \in WorkerState /\ Frame(v, d) /\ d.phase = v.phase
        /\ d.node = v.node /\ d.mode = v.mode
    BY <1>2
  <2>2. Become(w, [d EXCEPT !.under = Evaluated(v, "", fired, expired),
                            !.pc = IF fired = {} THEN "send" ELSE "sample"])
    OBVIOUS
  <2> HIDE DEF d
  <2> QED
    BY <1>1, <2>1, <2>2, EvaluatedStep
<1>4. CASE HeartbeatDecide(w)
  <2> PICK held \in Due(v) : Become(w, [Decide(DrainedTo(v), held) EXCEPT !.pc = "beat"])
    BY <1>4 DEF HeartbeatDecide
  <2> DEFINE d == Decide(DrainedTo(v), held)
             s == [d EXCEPT !.pc = "beat"]
  <2>1. /\ d \in WorkerState /\ Frame(v, d) /\ d.phase = v.phase
        /\ d.node = v.node /\ d.mode = v.mode
    BY <1>2
  <2>2. d.under = v.under
    <3>1. DrainedTo(v) \in WorkerState /\ DrainedTo(v).under = v.under
      BY <1>1, DrainedToType, DrainedToFrame
    <3> QED
      BY <3>1, DecideFrame
  <2>3. Become(w, s)
    OBVIOUS
  <2>4. /\ Frame(v, s) /\ s.phase = v.phase /\ s.node = v.node /\ s.pc = "beat"
        /\ s.under = v.under
    <3> HIDE DEF d, v
    <3> QED
      BY <2>1, <2>2 DEF Frame, WorkerState
  <2> HIDE DEF s
  <2>5. ControlMoves(v, s) /\ DrainMode(v, s) /\ Names(v, s)
    BY <1>1, <2>4, NoNames
    DEF ControlMoves, Done, Frame, ClaimPcs, WorkPcs, OpenPcs, DrainMode, DrainPcs
  <2> QED
    BY <1>1, <2>3, <2>4, <2>5, QuietStep
<1> QED
  BY <1>3, <1>4

LEMMA SampleStep ==
  ASSUME TypeInv, NEW w \in Workers, SampleSend(w)
  PROVE  WorkerStep(w)
<1> DEFINE v == wk[w]
           x == v.under
           q == x.values \cup {Len(log) + 1}
           u == [x EXCEPT !.values = q]
           s == [v EXCEPT !.under = u, !.pc = "send"]
<1>1. v \in WorkerState /\ v.up /\ v.pc = "sample" /\ ~Done(v)
      /\ v.under \in NodeUnderWay /\ v.reg \in SUBSET Nat
  BY StateOf DEF SampleSend, At, Done, WorkerState
<1>2. u.fired = x.fired /\ u.expired = x.expired
  <2>1. x \in NodeUnderWay
    BY <1>1
  <2> HIDE DEF x, q
  <2> QED
    BY <2>1 DEF NodeUnderWay
<1>3. /\ Frame(v, s) /\ s.phase = v.phase /\ s.node = v.node /\ s.mode = v.mode
      /\ s.under = u /\ s.pc = "send"
  <2> HIDE DEF v, u
  <2> QED
    BY <1>1 DEF Frame, WorkerState
<1>4. Become(w, s)
  <2>1. Become(w, [[v EXCEPT !.under.values = @ \cup {Len(log) + 1}] EXCEPT !.pc = "send"])
    BY DEF SampleSend
  <2>2. [[v EXCEPT !.under.values = @ \cup {Len(log) + 1}] EXCEPT !.pc = "send"] = s
    BY <1>1 DEF WorkerState, NodeUnderWay
  <2> QED
    BY <2>1, <2>2
<1> PICK n \in v.reg : Send([Blank EXCEPT !.body = "sample", !.ref = n])
  BY DEF SampleSend
<1> DEFINE e == [Blank EXCEPT !.body = "sample", !.ref = n]
<1>5. e \in Record /\ e.topic = "value" /\ Send(e)
  <2>1. n \in Nat
    BY <1>1
  <2> QED
    BY <2>1 DEF Blank, Record, Fields, WellBodied, Topics, ControlTopics, Bodies
<1> HIDE DEF s, e, u
<1>6. ControlMoves(v, s) /\ DrainMode(v, s) /\ Writes(v, s, e)
  BY <1>1, <1>3, <1>5
  DEF ControlMoves, Frame, ClaimPcs, WorkPcs, OpenPcs, DrainMode, DrainPcs, Writes
<1>7. Names(v, s)
  BY <1>2, <1>3 DEF Names
<1> QED
  BY <1>3, <1>4, <1>5, <1>6, <1>7, WritingStep

(* The exit goes on to its compare-and-append, from a state d like v. *)
LEMMA ToExitStep ==
  ASSUME TypeInv, NEW w \in Workers, UNCHANGED log,
         wk[w].up, wk[w].pc \in DrainPcs,
         NEW d \in WorkerState, Frame(wk[w], d), d.phase = wk[w].phase,
         d.node = wk[w].node, d.mode = wk[w].mode,
         NEW under, (under.fired = {} /\ under.expired = {}) \/ under = wk[w].under,
         Become(w, ToExitCas(d, under))
  PROVE  WorkerStep(w)
<1> DEFINE v == wk[w]
           s == ToExitCas(d, under)
<1>1. v \in WorkerState /\ ~Done(v) /\ v.pc # "report"
  BY StateOf DEF DrainPcs, Done
<1>2. /\ Frame(d, s) /\ s.under = under /\ s.mode = d.mode
      /\ s.phase = d.phase /\ s.node = d.node /\ s.pc = "drain"
  BY DrainsFrame DEF ToExitCas
<1> HIDE DEF s
<1>3. Frame(v, s) /\ s.mode = v.mode /\ s.phase = v.phase /\ s.node = v.node
  BY <1>2 DEF Frame
<1>4. Names(v, s)
  BY <1>2 DEF Names
<1>5. ControlMoves(v, s) /\ DrainMode(v, s)
  BY <1>1, <1>2, <1>3, DrainControl
<1> QED
  BY <1>2, <1>3, <1>4, <1>5, QuietStep DEF s

LEMMA NodeFailsStep ==
  ASSUME TypeInv, NEW w \in Workers, NodeFails(w) \/ ExitPrepared(w)
  PROVE  WorkerStep(w)
<1> DEFINE v == wk[w]
<1>1. v \in WorkerState /\ v.up /\ v.pc \in DrainPcs /\ ~Done(v) /\ v.pc # "report"
      /\ UNCHANGED log
  BY StateOf DEF NodeFails, ExitPrepared, At, Done, DrainPcs, Quiet
<1>2. TornNode("errored").fired = {} /\ TornNode("errored").expired = {}
  BY DEF TornNode, NoNode
<1>3. \/ Become(w, Tear(v)) \/ Become(w, ToExitCas(v, TornNode("errored")))
      \/ Become(w, ToExitCas(v, v.under))
  BY DEF NodeFails, ExitPrepared
<1>4. CASE Become(w, Tear(v))
  <2>1. /\ Frame(v, Tear(v)) /\ Tear(v).under = NoNode /\ Tear(v).phase = "discarded"
        /\ Tear(v).node = v.node /\ Tear(v).pc = "idle"
    BY <1>1, TearType, TearFrame
  <2>2. ControlMoves(v, Tear(v)) /\ DrainMode(v, Tear(v)) /\ Names(v, Tear(v))
    BY <1>1, <2>1, IdleControl, NoNames
  <2> QED
    BY <1>1, <1>4, <2>1, <2>2, QuietStep
<1>5. Frame(v, v)
  BY <1>1 DEF Frame
<1> QED
  BY <1>1, <1>2, <1>3, <1>4, <1>5, ToExitStep

LEMMA NodeRecordFields ==
  ASSUME NEW s
  PROVE  /\ LET e == CommitRecord(s)
            IN  /\ e.claim = s.claim /\ e.ref = s.node /\ Readable(e)
                /\ e.fired = s.under.fired /\ e.expired = s.under.expired
                /\ e.values = s.under.values /\ e.consumed = s.mark
         /\ LET e == ExitRecord(s)
            IN  /\ e.claim = s.claim /\ e.ref = s.node /\ e.body = s.under.body
                /\ e.fired = s.under.fired /\ e.expired = s.under.expired
                /\ e.values = s.under.values /\ e.honored = Honored(s)
BY DEF CommitRecord, ExitRecord, Blank, Readable

LEMMA NodeSendStep ==
  ASSUME TypeInv, NEW w \in Workers,
         CommitSend(w) \/ CommitUnacknowledged(w) \/ HeartbeatSend(w)
  PROVE  WorkerStep(w)
<1> DEFINE v == wk[w]
           n == Len(log) + 1
           commit == CommitRecord(v)
<1>1. /\ v \in WorkerState /\ v.up /\ v.pc \in {"send", "beat"} /\ ~Done(v)
      /\ v.pc # "report" /\ n \in Nat /\ v.claim \in Nat /\ v.mark \in Nat
  BY StateOf, SMTT(60) DEF CommitSend, CommitUnacknowledged, HeartbeatSend, At, Done, WorkerState
<1>2. /\ commit \in Record /\ commit.topic = "commit" /\ commit.claim = v.claim
      /\ commit.ref = v.node /\ Readable(commit)
      /\ commit.fired = v.under.fired /\ commit.expired = v.under.expired
      /\ commit.values = v.under.values /\ commit.consumed = v.mark
  BY <1>1, NodeRecordType, NodeRecordFields
<1>3. CASE CommitSend(w)
  <2> DEFINE s == NodeLanded(v, n)
  <2>1. Send(commit) /\ Become(w, s) /\ v.pc = "send" /\ v.op = "commit"
    BY <1>3 DEF CommitSend, At
  <2>2. /\ Frame(v, s) /\ s.under = NoNode /\ s.phase = v.phase /\ s.node = n
        /\ s.pc = "idle"
    <3> HIDE DEF v, n
    <3> QED
      BY <1>1, NodeLandedType, NodeLandedFrame
  <2> HIDE DEF s, commit
  <2>3. ControlMoves(v, s) /\ DrainMode(v, s) /\ Names(v, s) /\ Writes(v, s, commit)
    BY <1>1, <1>2, <2>1, <2>2, IdleControl, NoNames DEF Writes
  <2> QED
    BY <1>2, <2>1, <2>2, <2>3, WritingStep
<1>4. CASE CommitUnacknowledged(w)
  <2> DEFINE s == Tear(v)
  <2>1. /\ Send(commit) /\ Become(w, s) /\ v.pc = "send" /\ v.op = "commit"
        /\ "ack" \in Faults
    BY <1>4 DEF CommitUnacknowledged, At
  <2>2. /\ Frame(v, s) /\ s.under = NoNode /\ s.phase = "discarded" /\ s.node = v.node
        /\ s.pc = "idle"
    BY <1>1, TearType, TearFrame
  <2> HIDE DEF s, commit
  <2>3. ControlMoves(v, s) /\ DrainMode(v, s) /\ Names(v, s) /\ Writes(v, s, commit)
    BY <1>1, <1>2, <2>1, <2>2, IdleControl, NoNames DEF Writes
  <2> QED
    BY <1>2, <2>1, <2>2, <2>3, WritingStep
<1>5. CASE HeartbeatSend(w)
  <2> DEFINE c == v.claim  m == v.mark
             e == [Blank EXCEPT !.topic = "heartbeat", !.claim = c, !.consumed = m]
             s == Idle(v)
  <2>1. Send(e) /\ Become(w, s) /\ v.pc = "beat"
    BY <1>5 DEF HeartbeatSend, At
  <2>2. e \in Record /\ e.topic = "heartbeat" /\ e.claim = c /\ e.consumed = m
    <3>1. c \in Nat /\ m \in Nat
      BY <1>1
    <3> HIDE DEF c, m
    <3> QED
      BY <3>1 DEF Blank, Record, Fields, WellBodied, Topics, ControlTopics, Bodies
  <2>3. /\ Frame(v, s) /\ s.under = NoNode /\ s.phase = v.phase /\ s.node = v.node
        /\ s.pc = "idle"
    BY <1>1, IdleType, IdleFrame
  <2> HIDE DEF e, s
  <2>4. ControlMoves(v, s) /\ DrainMode(v, s) /\ Names(v, s) /\ Writes(v, s, e)
    BY <1>1, <2>1, <2>2, <2>3, IdleControl, NoNames DEF Writes
  <2> QED
    BY <2>1, <2>2, <2>3, <2>4, WritingStep
<1> QED
  BY <1>3, <1>4, <1>5

(* The drained worker's exit serves a subscription instead, or is on its   *)
(* way to the compare-and-append.                                          *)
LEMMA ServedStep ==
  ASSUME TypeInv, NEW w \in Workers, At(w, "take"), UNCHANGED log,
         Become(w, Idle(DrainedTo(wk[w])))
  PROVE  WorkerStep(w)
<1> DEFINE v == wk[w]
           d == DrainedTo(v)
           s == Idle(d)
<1>1. v \in WorkerState /\ v.up /\ v.pc = "take" /\ ~Done(v)
  BY StateOf DEF At, Done
<1>2. d \in WorkerState /\ Frame(v, d) /\ d.phase = v.phase /\ d.node = v.node
  BY <1>1, DrainedToType, DrainedToFrame
<1>3. Become(w, s)
  OBVIOUS
<1> HIDE DEF d
<1>4. Frame(d, s) /\ s.under = NoNode /\ s.phase = d.phase /\ s.node = d.node /\ s.pc = "idle"
  BY <1>2, IdleType, IdleFrame
<1> HIDE DEF s
<1>5. Frame(v, s)
  BY <1>2, <1>4 DEF Frame
<1>6. ControlMoves(v, s) /\ DrainMode(v, s) /\ Names(v, s)
  BY <1>1, <1>2, <1>4, <1>5, IdleControl, NoNames
<1> QED
  BY <1>2, <1>3, <1>4, <1>5, <1>6, QuietStep

LEMMA ExitNodeStep ==
  ASSUME TypeInv, NEW w \in Workers, ExitNode(w)
  PROVE  WorkerStep(w)
<1> DEFINE v == wk[w]
           d == DrainedTo(v)
           b == v.under.body
<1>1. /\ v \in WorkerState /\ v.up /\ v.pc = "take" /\ UNCHANGED log /\ At(w, "take")
      /\ v.pc \in DrainPcs
  BY StateOf DEF ExitNode, Drained, At, Quiet, DrainPcs
<1>2. /\ d \in WorkerState /\ Frame(v, d) /\ d.phase = v.phase /\ d.node = v.node
      /\ d.mode = v.mode
  BY <1>1, DrainedToType, DrainedToFrame
<1>3. TornNode(b).fired = {} /\ TornNode(b).expired = {}
  BY DEF TornNode, NoNode
<1>4. \/ Become(w, Idle(d)) \/ Become(w, ToExitCas(d, TornNode(b)))
      \/ \E fired \in MayFire(v), expired \in SUBSET Live(v) :
           Become(w, [d EXCEPT !.under = Evaluated(v, b, fired, expired),
                               !.pc = IF fired = {} THEN "send" ELSE "sample"])
  BY DEF ExitNode
<1>5. CASE Become(w, Idle(d))
  BY <1>1, <1>5, ServedStep
<1> HIDE DEF d
<1>6. CASE Become(w, ToExitCas(d, TornNode(b)))
  BY <1>1, <1>2, <1>3, <1>6, ToExitStep
<1>7. CASE \E fired \in MayFire(v), expired \in SUBSET Live(v) :
             Become(w, [d EXCEPT !.under = Evaluated(v, b, fired, expired),
                                 !.pc = IF fired = {} THEN "send" ELSE "sample"])
  BY <1>1, <1>2, <1>7, EvaluatedStep
<1> QED
  BY <1>4, <1>5, <1>6, <1>7 DEF d

LEMMA ExitCasStep ==
  ASSUME TypeInv, NEW w \in Workers, ExitCas(w)
  PROVE  WorkerStep(w)
<1> DEFINE v == wk[w]
           d == DrainedTo(v)
           i == Idle(d)
           k == v.exits + 1
           e == ExitRecord(v)
           ended == [i EXCEPT !.phase = "stopped"]
           again == [d EXCEPT !.pc = "drain", !.tries = 0, !.exits = k]
           starved == Starve(d)
<1>1. /\ v \in WorkerState /\ v.up /\ v.pc = "take" /\ ~Done(v) /\ At(w, "take")
      /\ v.pc # "report" /\ v.under \in NodeUnderWay /\ Undrained(v) = {}
  BY StateOf DEF ExitCas, Drained, At, Done, WorkerState
<1>2. /\ d \in WorkerState /\ Frame(v, d) /\ d.phase = v.phase /\ d.node = v.node
      /\ d.mode = v.mode /\ d.under = v.under
  BY <1>1, DrainedToType, DrainedToFrame
<1>3. \/ UNCHANGED log /\ Become(w, Idle(d))
      \/ UNCHANGED log /\ (Become(w, again) \/ Become(w, starved))
      \/ v.w = Len(log) /\ Send(e) /\ Become(w, ended)
  BY DEF ExitCas, AtTail
<1> HIDE DEF starved, again, ended
<1>4. CASE UNCHANGED log /\ Become(w, Idle(d))
  BY <1>1, <1>4, ServedStep
<1> HIDE DEF d
<1>5. CASE UNCHANGED log /\ Become(w, again)
  <2>1. /\ Frame(v, again) /\ again.phase = v.phase /\ again.node = v.node
        /\ again.mode = v.mode /\ again.under = v.under /\ again.pc = "drain"
    <3> HIDE DEF v, k
    <3> QED
      BY <1>2 DEF again, Frame, WorkerState
  <2>2. ControlMoves(v, again) /\ DrainMode(v, again) /\ Names(v, again)
    BY <1>1, <2>1, NoNames, DrainControl DEF DrainPcs
  <2> QED
    BY <1>5, <2>1, <2>2, QuietStep
<1>6. CASE UNCHANGED log /\ Become(w, starved)
  <2>1. /\ Frame(d, starved) /\ starved.under = v.under /\ starved.phase = "starved"
        /\ starved.node = v.node /\ starved.pc = "idle"
    BY <1>2, StarveType, StarveFrame DEF starved
  <2>2. Frame(v, starved)
    BY <1>2, <2>1 DEF Frame
  <2>3. ControlMoves(v, starved) /\ DrainMode(v, starved) /\ Names(v, starved)
    BY <1>1, <2>1, <2>2, NoNames, IdleControl
  <2> QED
    BY <1>6, <2>1, <2>2, <2>3, QuietStep
<1>7. CASE v.w = Len(log) /\ Send(e) /\ Become(w, ended)
  <2>1. /\ i \in WorkerState /\ Frame(d, i) /\ i.under = NoNode /\ i.node = v.node
        /\ i.pc = "idle"
    BY <1>2, IdleType, IdleFrame
  <2>2. /\ Frame(v, ended) /\ ended.under = NoNode /\ ended.phase = "stopped"
        /\ ended.node = v.node /\ ended.pc = "idle"
    <3> HIDE DEF i
    <3> QED
      BY <1>2, <2>1 DEF ended, Frame, WorkerState
  <2>3. e \in Record /\ e.topic = "stopped"
    BY <1>1, NodeRecordType
  <2>4. /\ e.claim = v.claim /\ e.ref = v.node /\ Readable(e)
        /\ e.fired = v.under.fired /\ e.expired = v.under.expired
        /\ e.values = v.under.values /\ e.honored = Honored(v)
    <3>1. v.under.body # "junk"
      BY <1>1 DEF NodeUnderWay
    <3> HIDE DEF e, v
    <3> QED
      BY <3>1, NodeRecordFields DEF Readable, e
  <2> HIDE DEF e
  <2>5. ControlMoves(v, ended) /\ DrainMode(v, ended) /\ Names(v, ended)
    BY <1>1, <2>2, NoNames, IdleControl
  <2>6. Writes(v, ended, e)
    BY <1>1, <1>7, <2>2, <2>3, <2>4 DEF Writes, Done
  <2> QED
    BY <1>7, <2>2, <2>3, <2>5, <2>6, WritingStep
<1> QED
  BY <1>3, <1>4, <1>5, <1>6, <1>7 DEF d

-----------------------------------------------------------------------------
(* The other steps: a claim won, a process gone, a death report, a control *)
(* record.                                                                 *)

ClaimWon(w) ==
  LET v == wk[w]
      t == wk'[w]
  IN  /\ v.up /\ v.pc = "cas" /\ v.w = Len(log)
      /\ \E e \in Record : /\ e.topic = "started" /\ e.ref = v.node /\ Readable(e)
                           /\ Send(e)
      /\ wk' = [wk EXCEPT ![w] = t]
      /\ t.up /\ t.pc = "answers" /\ t.phase = "live" /\ t.claim = Len(log) + 1
      /\ t.node = v.node /\ t.folded = v.folded
      /\ t.subs = v.subs /\ t.bound = v.bound /\ t.under = v.under
      /\ UNCHANGED rep

Gone(w) ==
  LET v == wk[w]
      t == wk'[w]
  IN  /\ v.up /\ ~t.up
      /\ wk' = [wk EXCEPT ![w] = t]
      /\ t.pc = "idle" /\ t.claim = v.claim /\ t.folded = v.folded /\ t.node = 0
      /\ rep' = [rep EXCEPT ![w] = NoReport]
      /\ UNCHANGED log

Probed(w) ==
  /\ WorkerStep(w) /\ UNCHANGED log
  /\ wk[w].pc = "held" /\ wk'[w].pc = "report"
  /\ rep' = [rep EXCEPT ![w] = [NoReport EXCEPT !.pc = "read", !.claim = wk[w].seen]]

(* The claimant whose report ended. *)
Claimant(v, t) ==
  /\ Frame(v, t) /\ Names(v, t) /\ t.pc \in {"idle", "claim"} /\ t.node = v.node
  /\ t.phase \in {v.phase, "raised"}

ReportGoesOn(x) ==
  /\ UNCHANGED <<log, wk>>
  /\ rep'[x].claim = rep[x].claim /\ rep'[x].outcome = rep[x].outcome
  /\ \/ rep'[x].pc = "read"
     \/ /\ rep'[x].pc = "cas" /\ rep'[x].w = Len(log)
        /\ ~NothingToReport(rep'[x], Len(log))

ReportIsOver(x) ==
  /\ rep'[x].pc = "idle"
  /\ IF x \in Workers THEN wk' = [wk EXCEPT ![x] = wk'[x]] /\ Claimant(wk[x], wk'[x])
                      ELSE UNCHANGED wk
  /\ \/ UNCHANGED log
     \/ /\ rep[x].pc = "cas" /\ rep[x].w = Len(log)
        /\ \E e \in Record : /\ e.topic = "died" /\ e.claim = rep[x].claim
                             /\ e.body = rep[x].outcome /\ Send(e)

ReportMoves(x) ==
  /\ rep[x].pc # "idle"
  /\ rep' = [rep EXCEPT ![x] = rep'[x]]
  /\ ReportGoesOn(x) \/ ReportIsOver(x)

ReportBegins(p) ==
  /\ rep' = [rep EXCEPT ![p] = rep'[p]]
  /\ rep'[p].pc = "read" /\ rep'[p].claim \in AllClaims
  /\ UNCHANGED <<log, wk>>

Asked ==
  UNCHANGED <<wk, rep>> /\ \E e \in Asks : e \in Record /\ IsControl(e) /\ Send(e)

Step ==
  \/ \E w \in Workers : WorkerStep(w) /\ UNCHANGED rep
  \/ \E w \in Workers : Probed(w) \/ ClaimWon(w) \/ Gone(w)
  \/ \E x \in Actors : ReportMoves(x)
  \/ \E p \in Reporters : ReportBegins(p)
  \/ Asked
  \/ UNCHANGED <<log, wk, rep>>

LEMMA ClaimWonStep ==
  ASSUME TypeInv, NEW w \in Workers, ClaimCas(w), ~UNCHANGED log
  PROVE  ClaimWon(w)
<1> DEFINE v == wk[w]
           c == Len(log) + 1
           a == v.w
           n == v.node
           e == [Blank EXCEPT !.topic = "started", !.ref = n]
           won == [v EXCEPT !.pc = "answers", !.phase = "live", !.claim = c,
                            !.drained = a, !.tries = 0]
<1>1. /\ v \in WorkerState /\ v.up /\ v.pc = "cas" /\ v.w = Len(log) /\ n \in Nat
      /\ UNCHANGED rep
  BY StateOf DEF ClaimCas, At, AtTail, WorkerState
<1>2. Send(e) /\ Become(w, won)
  BY DEF ClaimCas
<1>3. e \in Record /\ e.topic = "started" /\ e.ref = n /\ Readable(e)
  <2> HIDE DEF n
  <2> QED
    BY <1>1, StartedType DEF Blank, Readable
<1>4. /\ won.up = v.up /\ won.pc = "answers" /\ won.phase = "live" /\ won.claim = c
      /\ won.node = n /\ won.folded = v.folded /\ won.subs = v.subs
      /\ won.bound = v.bound /\ won.under = v.under
  <2> HIDE DEF v, c, a
  <2> QED
    BY <1>1 DEF WorkerState, n
<1> HIDE DEF won, e
<1>5. wk'[w] = won /\ wk' = [wk EXCEPT ![w] = wk'[w]]
  BY <1>2, Becomes
<1> QED
  BY <1>1, <1>2, <1>3, <1>4, <1>5 DEF ClaimWon

LEMMA GoneStep ==
  ASSUME TypeInv, NEW w \in Workers, ProcessEnds(w)
  PROVE  Gone(w)
<1> DEFINE c == wk[w].claim
           f == wk[w].folded
           s == [NewWorker EXCEPT !.up = FALSE, !.claim = c, !.folded = f]
<1>1. /\ ~s.up /\ s.pc = "idle" /\ s.claim = c /\ s.folded = f /\ s.node = 0
  BY DEF NewWorker
<1>2. Become(w, s) /\ rep' = [rep EXCEPT ![w] = NoReport] /\ UNCHANGED log /\ wk[w].up
  BY DEF ProcessEnds
<1> HIDE DEF s
<1>3. wk'[w] = s /\ wk' = [wk EXCEPT ![w] = wk'[w]]
  BY <1>2, Becomes
<1> QED
  BY <1>1, <1>2, <1>3 DEF Gone

LEMMA ReportOver ==
  ASSUME TypeInv, NEW x \in Actors, NEW s, ReportEnds(x, s),
         x \in Workers => Claimant(wk[x], s),
         \/ UNCHANGED log
         \/ /\ rep[x].pc = "cas" /\ rep[x].w = Len(log)
            /\ \E e \in Record : /\ e.topic = "died" /\ e.claim = rep[x].claim
                                 /\ e.body = rep[x].outcome /\ Send(e)
  PROVE  ReportIsOver(x) /\ rep' = [rep EXCEPT ![x] = rep'[x]]
<1> DEFINE r == [NoReport EXCEPT !.made = rep[x].made]
<1>1. r.pc = "idle"
  BY DEF NoReport
<1>2. rep' = [rep EXCEPT ![x] = r] /\ rep \in [Actors -> Report]
  BY DEF ReportEnds, TypeInv, TypeOK
<1> HIDE DEF r
<1>3. rep'[x] = r /\ rep' = [rep EXCEPT ![x] = rep'[x]]
  BY <1>2
<1>4. IF x \in Workers THEN wk' = [wk EXCEPT ![x] = wk'[x]] /\ Claimant(wk[x], wk'[x])
                       ELSE UNCHANGED wk
  BY Becomes DEF ReportEnds
<1> QED
  BY <1>1, <1>3, <1>4 DEF ReportIsOver

LEMMA ReportStepStep ==
  ASSUME TypeInv, NEW x \in Actors, ReportStep(x)
  PROVE  ReportMoves(x)
<1> DEFINE r == rep[x]
           v == wk[x]
           i == Idle(v)
<1>1. r \in Report /\ rep \in [Actors -> Report] /\ r.pc # "idle"
  BY DEF TypeInv, TypeOK, ReportStep, ReportRead, ReportCas, ReportStarved, Reporting
<1>2. x \in Workers => /\ v \in WorkerState /\ i \in WorkerState /\ i.pc = "idle"
                       /\ Frame(v, i) /\ i.under = NoNode /\ i.node = v.node
                       /\ i.phase = v.phase
  BY StateOf, IdleType, IdleFrame
<1>3. x \in Workers => Claimant(v, i)
  BY <1>2, NoNames DEF Claimant
<1>4. CASE ReportRead(x)
  <2>1. CASE ReportEnds(x, i)
    <3>1. UNCHANGED log
      BY <1>4 DEF ReportRead
    <3> HIDE DEF i
    <3> QED
      BY <1>1, <1>3, <2>1, <3>1, ReportOver DEF ReportMoves
  <2>2. CASE /\ ~NothingToReport(r, Len(log))
             /\ rep' = [rep EXCEPT ![x] = [r EXCEPT !.pc = "cas", !.w = Len(log),
                                                    !.tries = r.tries + 1]]
             /\ UNCHANGED <<log, wk>>
    <3> DEFINE k == r.tries + 1
               W == Len(log)
               t == [r EXCEPT !.pc = "cas", !.w = W, !.tries = k]
    <3>1. t.pc = "cas" /\ t.w = W /\ t.claim = r.claim /\ t.outcome = r.outcome
      <4> HIDE DEF r, k, W
      <4> QED
        BY <1>1 DEF Report
    <3>2. rep' = [rep EXCEPT ![x] = t]
      BY <2>2
    <3> HIDE DEF t
    <3>3. rep'[x] = t /\ rep' = [rep EXCEPT ![x] = rep'[x]]
      BY <1>1, <3>2
    <3>4. ~NothingToReport(t, W)
      BY <2>2, <3>1 DEF NothingToReport
    <3> QED
      BY <1>1, <2>2, <3>1, <3>3, <3>4 DEF ReportMoves, ReportGoesOn
  <2> QED
    BY <1>4, <2>1, <2>2 DEF ReportRead
<1>5. CASE ReportCas(x)
  <2>1. CASE /\ Len(log) = r.w /\ r.pc = "cas"
             /\ Send([Blank EXCEPT !.topic = "died", !.claim = r.claim, !.body = r.outcome])
             /\ ReportEnds(x, [v EXCEPT !.pc = "claim", !.seen = 0])
    <3> DEFINE c == r.claim  o == r.outcome
               e == [Blank EXCEPT !.topic = "died", !.claim = c, !.body = o]
               s == [v EXCEPT !.pc = "claim", !.seen = 0]
    <3>1. c \in Nat /\ o \in {"lost", "cause"}
      BY <1>1, SMTT(60) DEF Report
    <3>2. e \in Record /\ e.topic = "died" /\ e.claim = c /\ e.body = o
      <4> HIDE DEF c, o
      <4> QED
        BY <3>1, DiedType DEF Blank
    <3>3. x \in Workers => Claimant(v, s)
      <4> SUFFICES ASSUME x \in Workers PROVE Claimant(v, s)
        OBVIOUS
      <4>1. /\ Frame(v, s) /\ s.under = v.under /\ s.pc = "claim"
            /\ s.node = v.node /\ s.phase = v.phase
        <5> HIDE DEF v
        <5> QED
          BY <1>2 DEF Frame, WorkerState
      <4> HIDE DEF s
      <4> QED
        BY <1>2, <4>1, NoNames DEF Claimant
    <3>4. Send(e) /\ ReportEnds(x, s)
      BY <2>1
    <3> HIDE DEF e, s
    <3> QED
      BY <1>1, <2>1, <3>2, <3>3, <3>4, ReportOver DEF ReportMoves
  <2>2. CASE rep' = [rep EXCEPT ![x].pc = "read"] /\ UNCHANGED <<log, wk>>
    <3> DEFINE t == [r EXCEPT !.pc = "read"]
    <3>1. t.pc = "read" /\ t.claim = r.claim /\ t.outcome = r.outcome
      <4> HIDE DEF r
      <4> QED
        BY <1>1 DEF Report
    <3>2. rep' = [rep EXCEPT ![x] = t]
      BY <2>2
    <3> HIDE DEF t
    <3>3. rep'[x] = t /\ rep' = [rep EXCEPT ![x] = rep'[x]]
      BY <1>1, <3>2
    <3> QED
      BY <1>1, <2>2, <3>1, <3>3 DEF ReportMoves, ReportGoesOn
  <2> QED
    BY <1>5, <2>1, <2>2 DEF ReportCas, Reporting
<1>6. CASE ReportStarved(x)
  <2> DEFINE s == [i EXCEPT !.phase = "raised"]
  <2>1. ReportEnds(x, s) /\ UNCHANGED log
    BY <1>6 DEF ReportStarved
  <2>2. x \in Workers => Claimant(v, s)
    <3> SUFFICES ASSUME x \in Workers PROVE Claimant(v, s)
      OBVIOUS
    <3>1. /\ Frame(v, s) /\ s.under = NoNode /\ s.pc = "idle" /\ s.node = v.node
          /\ s.phase = "raised"
      <4> HIDE DEF i
      <4> QED
        BY <1>2 DEF Frame, WorkerState
    <3> HIDE DEF s
    <3> QED
      BY <1>2, <3>1, NoNames DEF Claimant
  <2> HIDE DEF s
  <2> QED
    BY <1>1, <2>1, <2>2, ReportOver DEF ReportMoves
<1> QED
  BY <1>4, <1>5, <1>6 DEF ReportStep

LEMMA ReportBeginsStep ==
  ASSUME TypeInv, NEW p \in Reporters, StartReport(p)
  PROVE  ReportBegins(p)
<1> DEFINE m == rep[p].made + 1
<1> PICK c \in Claims(log, Len(log)), u \in Evidence :
      rep' = [rep EXCEPT ![p] = [NoReport EXCEPT
                 !.pc = "read", !.claim = c, !.outcome = u[1], !.force = u[2],
                 !.made = m]]
  <2> HIDE DEF NoReport
  <2> QED
    BY DEF StartReport
<1> DEFINE r == [NoReport EXCEPT !.pc = "read", !.claim = c, !.outcome = u[1],
                                 !.force = u[2], !.made = m]
<1>1. r.pc = "read" /\ r.claim = c
  BY DEF NoReport
<1>2. rep' = [rep EXCEPT ![p] = r] /\ rep \in [Actors -> Report] /\ p \in Actors
  BY DEF TypeInv, TypeOK, Actors
<1> HIDE DEF r
<1>3. rep'[p] = r /\ rep' = [rep EXCEPT ![p] = rep'[p]]
  BY <1>2
<1> QED
  BY <1>1, <1>3 DEF ReportBegins, StartReport, AllClaims

(* Every step of the specification is one of these. *)
LEMMA NextStep ==
  ASSUME TypeInv, [Next]_vars
  PROVE  Step
<1>1. ASSUME NEW w \in Workers, Construct(w) PROVE Step
  BY <1>1, ConstructStep DEF Construct, Quiet, Step
<1>2. ASSUME NEW w \in Workers, ClaimStep(w) PROVE Step
  <2>1. CASE ResumePoint(w)
    BY <2>1, ResumePointStep DEF ResumePoint, Quiet, Step
  <2>2. CASE ReadLatest(w) \/ ProbeLatest(w) \/ (ClaimCas(w) /\ UNCHANGED log)
    BY <2>2, ClaimingStep DEF Step
  <2>3. CASE ClaimCas(w) /\ ~UNCHANGED log
    BY <2>3, ClaimWonStep DEF Step
  <2>4. CASE ClaimStarved(w)
    BY <2>4, RaiseStep DEF ClaimStarved, Quiet, Step
  <2>5. CASE FoldAnswers(w) \/ FoldRaises(w)
    BY <2>5, FoldStep DEF FoldAnswers, FoldRaises, Quiet, Step
  <2>6. CASE ProbeHeld(w)
    BY <2>6, ProbeHeldStep DEF Step, Probed
  <2> QED
    BY <1>2, <2>1, <2>2, <2>3, <2>4, <2>5, <2>6, SMTT(60) DEF ClaimStep
<1>3. ASSUME NEW w \in Workers, CallStep(w) \/ BeginStopped(w) \/ RetryStarved(w)
      PROVE  Step
  <2>1. WorkerStep(w)
    BY <1>3, CallStepStep, BeginStep DEF CallStep
  <2>2. UNCHANGED rep
    BY <1>3 DEF CallStep, Emit, SetRegister, Include, Rewind, Discard, BeginCommit,
                BeginHeartbeat, BeginRetire, BeginStopped, RetryStarved, Silent, Quiet
  <2> QED
    BY <2>1, <2>2 DEF Step
<1>4. ASSUME NEW w \in Workers, DrainStep(w) PROVE Step
  <2>1. WorkerStep(w)
    BY <1>4, DrainReadStep, RaisingStep, TakeStep, WriteAnswerStep, SMTT(60)
    DEF DrainStep, Raising
  <2>2. UNCHANGED rep
    BY <1>4 DEF DrainStep, DrainRead, DrainStarved, TakeRecord, WriteAnswer, Quiet
  <2> QED
    BY <2>1, <2>2 DEF Step
<1>5. ASSUME NEW w \in Workers, NodeStep(w) PROVE Step
  <2>1. WorkerStep(w)
    BY <1>5, DecideStep, SampleStep, NodeFailsStep, NodeSendStep, ExitNodeStep,
       ExitCasStep, SMTT(60) DEF NodeStep
  <2>2. UNCHANGED rep
    BY <1>5 DEF NodeStep, CommitDecide, SampleSend, NodeFails, CommitSend,
                CommitUnacknowledged, HeartbeatDecide, HeartbeatSend, ExitNode,
                ExitPrepared, ExitCas, Quiet
  <2> QED
    BY <2>1, <2>2 DEF Step
<1>6. ASSUME NEW w \in Workers, CallRaises(w) \/ ProcessEnds(w) PROVE Step
  BY <1>6, RaisingIs, RaisingStep, GoneStep DEF Step, Raising
<1>7. ASSUME NEW x \in Actors, ReportStep(x) PROVE Step
  BY <1>7, ReportStepStep DEF Step
<1>8. ASSUME NEW p \in Reporters, StartReport(p) PROVE Step
  BY <1>8, ReportBeginsStep DEF Step
<1>9. ASSUME NEW e \in Asks, Ask(e) PROVE Step
  BY <1>9, AsksAssumption DEF Ask, Step, Asked
<1>10. CASE UNCHANGED vars
  BY <1>10 DEF vars, Step
<1> QED
  BY <1>1, <1>2, <1>3, <1>4, <1>5, <1>6, <1>7, <1>8, <1>9, <1>10, SMTT(60) DEF Next

-----------------------------------------------------------------------------
(* The log of a step. *)

LogStep == UNCHANGED log \/ \E e \in Record : Send(e)

Landed == Len(log') = Len(log) + 1

Newest == log'[Len(log')]

LEMMA StepGrows == ASSUME Step PROVE LogStep
<1>1. ASSUME NEW w \in Workers, WorkerStep(w) PROVE LogStep
  BY <1>1 DEF WorkerStep, LogMoves, LogStep
<1>2. ASSUME NEW w \in Workers, Probed(w) \/ ClaimWon(w) \/ Gone(w) PROVE LogStep
  BY <1>2 DEF Probed, ClaimWon, Gone, LogStep
<1>3. ASSUME NEW x \in Actors, ReportMoves(x) PROVE LogStep
  BY <1>3 DEF ReportMoves, ReportGoesOn, ReportIsOver, LogStep
<1>4. ASSUME NEW p \in Reporters, ReportBegins(p) PROVE LogStep
  BY <1>4 DEF ReportBegins, LogStep
<1>5. CASE Asked
  BY <1>5 DEF Asked, LogStep
<1> QED
  BY <1>1, <1>2, <1>3, <1>4, <1>5 DEF Step, LogStep

LEMMA LogKept ==
  ASSUME TypeInv, LogStep
  PROVE  /\ log \in Seq(Record) /\ log' \in Seq(Record)
         /\ Len(log) \in Nat /\ Len(log') \in Nat
         /\ UNCHANGED log \/ Landed
         /\ \A i \in 1..Len(log) : log'[i] = log[i]
<1>1. log \in Seq(Record) /\ Len(log) \in Nat
  BY DEF TypeInv, TypeOK
<1> QED
  BY <1>1, Sent DEF LogStep, Landed

LEMMA ClaimsGrow ==
  ASSUME TypeInv, LogStep
  PROVE  /\ AllClaims \subseteq AllClaims'
         /\ \A c \in AllClaims' \ AllClaims : Landed /\ c = Len(log') /\ Newest.topic = "started"
         /\ \A c \in AllClaims : c \in 1..Len(log)
BY LogKept DEF AllClaims, Claims, Landed, Newest

LEMMA NodesGrow ==
  ASSUME TypeInv, LogStep
  PROVE  /\ Resumable \subseteq Resumable'
         /\ \A n \in Resumable : n \in 0..Len(log)
<1>1. Extendable(log, Len(log)) \subseteq Extendable(log', Len(log'))
  BY LogKept DEF Extendable, Landed
<1>2. \A n \in Extendable(log, Len(log)) : n \in 1..Len(log)
  BY DEF Extendable
<1> QED
  BY <1>1, <1>2, LogKept DEF Resumable

(* A claim's endings stay; one is new only when the step wrote it. *)
LEMMA EndingsGrow ==
  ASSUME TypeInv, LogStep, NEW c \in Nat
  PROVE  /\ Endings(log, c, Len(log)) \subseteq Endings(log', c, Len(log'))
         /\ \A W \in 0..Len(log) : Endings(log', c, W) = Endings(log, c, W)
         /\ \A j \in Endings(log', c, Len(log')) \ Endings(log, c, Len(log)) :
              /\ Landed /\ j = Len(log') /\ c <= Len(log)
              /\ Newest.topic \in {"stopped", "died"} /\ Newest.claim = c
         /\ Endings(log, c, Len(log)) \subseteq 1..Len(log)
<1>1. Endings(log, c, Len(log)) \subseteq Endings(log', c, Len(log'))
  BY LogKept DEF Endings, Landed
<1>2. \A W \in 0..Len(log) : Endings(log', c, W) = Endings(log, c, W)
  BY LogKept DEF Endings
<1>3. ASSUME NEW j \in Endings(log', c, Len(log')), j \notin Endings(log, c, Len(log))
      PROVE  /\ Landed /\ j = Len(log') /\ c <= Len(log)
             /\ Newest.topic \in {"stopped", "died"} /\ Newest.claim = c
  BY <1>3, LogKept DEF Endings, Landed, Newest
<1>4. Endings(log, c, Len(log)) \subseteq 1..Len(log)
  BY LogKept DEF Endings
<1> QED
  BY <1>1, <1>2, <1>3, <1>4

LEMMA ReportedGrows ==
  ASSUME TypeInv, LogStep, NEW c \in Nat
  PROVE  /\ \A W \in 0..Len(log) : Reported(log', c, W) = Reported(log, c, W)
         /\ ReportedNow(c)' => ReportedNow(c) \/ (Landed /\ Newest.topic = "died")
<1>1. ASSUME NEW W \in 0..Len(log) PROVE Reported(log', c, W) = Reported(log, c, W)
  <2>1. Endings(log', c, W) = Endings(log, c, W)
    BY EndingsGrow
  <2>2. \A i \in Endings(log, c, W) : i \in 1..Len(log)
    BY LogKept DEF Endings
  <2> QED
    BY <2>1, <2>2, LogKept DEF Reported
<1>2. ASSUME ReportedNow(c)', ~ReportedNow(c) PROVE Landed /\ Newest.topic = "died"
  <2> PICK i \in Endings(log', c, Len(log')) : log'[i].topic = "died"
    BY <1>2 DEF ReportedNow, Reported
  <2>1. i \notin Endings(log, c, Len(log))
    BY <1>2, EndingsGrow, LogKept DEF ReportedNow, Reported
  <2> QED
    BY <2>1, EndingsGrow DEF Newest
<1> QED
  BY <1>1, <1>2

-----------------------------------------------------------------------------
(* The inductive invariant.  A worker holds a claim of its own from the    *)
(* claim's CAS on; one that takes control records has seen no report up to *)
(* the tail it read.                                                       *)

WriterInv ==
  \A w \in Workers :
    LET s == wk[w]
    IN  /\ s.claim # 0 => s.claim \in AllClaims
        /\ \A u \in Workers : u # w /\ wk[u].claim = s.claim => s.claim = 0
        /\ s.pc \in ClaimPcs => s.claim = 0
        /\ s.up /\ s.phase = "new" => s.claim = 0
        /\ s.pc \in WorkPcs \/ s.folded => s.claim # 0
        /\ s.pc = "take" => ~Reported(log, s.claim, s.w)
        /\ s.pc = "held" => s.seen \in AllClaims

(* A report is of some claim; a claimant waits for its own; and one about  *)
(* to be written has seen its claim without an exit at the tail it read.   *)
ReportsInv ==
  /\ \A w \in Workers : rep[w].pc # "idle" => wk[w].up /\ wk[w].pc = "report"
  /\ \A x \in Actors :
       /\ rep[x].pc # "idle" => rep[x].claim \in AllClaims
       /\ rep[x].pc = "cas" => /\ rep[x].w <= Len(log)
                               /\ ~NothingToReport(rep[x], rep[x].w)

(* An exit is its claim's one ending, and its writer is done. *)
ExitsInv ==
  \A i \in 1..Len(log) : log[i].topic = "stopped" =>
    /\ Readable(log[i]) /\ log[i].claim \in AllClaims /\ log[i].claim < i
    /\ \A j \in Endings(log, log[i].claim, Len(log)) : j = i
    /\ \A w \in Workers : wk[w].claim = log[i].claim => Done(wk[w])

(* Where a worker stands is a node that can be built upon. *)
NodesInv == \A w \in Workers : wk[w].node \in Resumable

(* What a claim wrote above a report of its death: one record at most, and *)
(* none while a drain that read no report may still be followed by one.    *)
LateWrites(d, c) ==
  {i \in (d + 1)..Len(log) : log[i].topic \in {"commit", "heartbeat"} /\ log[i].claim = c}

DeathsOf(c) == {d \in Endings(log, c, Len(log)) : log[d].topic = "died"}

LateInv ==
  /\ \A c \in AllClaims : \A d \in DeathsOf(c) : \A i, j \in LateWrites(d, c) : i = j
  /\ \A w \in Workers : wk[w].pc \in OpenPcs =>
       \A d \in DeathsOf(wk[w].claim) : LateWrites(d, wk[w].claim) = {}

RunInv ==
  ClaimInv /\ WriterInv /\ ReportsInv /\ ExitsInv /\ NodesInv /\ LateInv

-----------------------------------------------------------------------------
(* Who holds the claims. *)

LEMMA WriterKept ==
  ASSUME TypeInv, LogStep, WriterInv, NEW u \in Workers, wk'[u] = wk[u]
  PROVE  LET s == wk'[u]
         IN  /\ s.claim # 0 => s.claim \in AllClaims'
             /\ s.pc \in ClaimPcs => s.claim = 0
             /\ s.up /\ s.phase = "new" => s.claim = 0
             /\ s.pc \in WorkPcs \/ s.folded => s.claim # 0
             /\ s.pc = "take" => ~Reported(log', s.claim, s.w)
             /\ s.pc = "held" => s.seen \in AllClaims'
<1>1. AllClaims \subseteq AllClaims'
  BY ClaimsGrow
<1>2. wk[u].claim \in Nat /\ wk[u].w \in 0..Len(log)
  BY StateOf
<1>3. Reported(log', wk[u].claim, wk[u].w) = Reported(log, wk[u].claim, wk[u].w)
  BY <1>2, ReportedGrows
<1> QED
  BY <1>1, <1>3 DEF WriterInv

(* A worker that goes on with the claim it has, or with none. *)
LEMMA WriterSame ==
  ASSUME TypeInv, LogStep, WriterInv, NEW w \in Workers,
         wk' = [wk EXCEPT ![w] = wk'[w]],
         LET s == wk'[w]
         IN  /\ s.claim = wk[w].claim
             /\ s.pc \in ClaimPcs => s.claim = 0
             /\ s.up /\ s.phase = "new" => s.claim = 0
             /\ s.pc \in WorkPcs \/ s.folded => s.claim # 0
             /\ s.pc = "take" => ~Reported(log', s.claim, s.w)
             /\ s.pc = "held" => s.seen \in AllClaims'
  PROVE  WriterInv'
<1>1. \A u \in Workers : u # w => wk'[u] = wk[u]
  BY DEF TypeInv, TypeOK
<1>2. \A u \in Workers : wk'[u].claim = wk[u].claim
  BY <1>1
<1>3. wk[w].claim # 0 => wk[w].claim \in AllClaims'
  BY ClaimsGrow DEF WriterInv
<1>4. ASSUME NEW u \in Workers, NEW v \in Workers, v # u, wk'[v].claim = wk'[u].claim
      PROVE  wk'[u].claim = 0
  BY <1>2, <1>4 DEF WriterInv
<1>5. \A u \in Workers : u # w => wk'[u] = wk[u]
  BY <1>1
<1> QED
  BY <1>3, <1>4, <1>5, WriterKept DEF WriterInv

LEMMA WorkerKeepsWriter ==
  ASSUME TypeInv, WriterInv, NEW w \in Workers, WorkerStep(w)
  PROVE  WriterInv'
<1> DEFINE v == wk[w]
           t == wk'[w]
<1>0. LogStep
  BY DEF WorkerStep, LogMoves, LogStep
<1>1. /\ ControlMoves(v, t) /\ LogMoves(v, t) /\ t.claim = v.claim
      /\ wk' = [wk EXCEPT ![w] = t]
  BY DEF WorkerStep, ControlMoves
<1>2. v.claim \in Nat /\ v.w \in 0..Len(log) /\ Len(log) \in Nat
  BY StateOf
<1>3. /\ t.pc \in ClaimPcs => t.claim = 0
      /\ t.up /\ t.phase = "new" => t.claim = 0
      /\ t.pc \in WorkPcs \/ t.folded => t.claim # 0
  BY <1>1 DEF ControlMoves, WriterInv, WorkPcs
<1>4. t.pc = "held" => t.seen \in AllClaims'
  BY <1>0, <1>1, ClaimsGrow DEF ControlMoves
<1>5. ASSUME t.pc = "take" PROVE ~Reported(log', t.claim, t.w)
  <2>1. CASE v.pc = "take" /\ t.w = v.w
    <3>1. ~Reported(log, v.claim, v.w)
      BY <2>1 DEF WriterInv
    <3> QED
      BY <1>0, <1>1, <1>2, <2>1, <3>1, ReportedGrows
  <2>2. CASE t.w = Len(log) /\ ~ReportedNow(v.claim)
    BY <1>0, <1>1, <1>2, <2>2, ReportedGrows DEF ReportedNow
  <2>3. CASE v.pc = "take" /\ v.w = Len(log) /\ t.w = Len(log) + 1
    <3>1. ~ReportedNow(v.claim)
      BY <2>3 DEF WriterInv, ReportedNow
    <3>0. ~(t.w <= Len(log))
      BY <1>2, <2>3
    <3>2. PICK e \in Record : Send(e) /\ Writes(v, t, e)
      BY <1>1, <1>5, <3>0 DEF LogMoves
    <3>3. e.topic # "died"
      BY <3>2 DEF Writes
    <3>4. Len(log') = Len(log) + 1 /\ Newest = e
      BY <3>2, Sent DEF Newest, TypeInv, TypeOK
    <3>5. ~Reported(log', v.claim, Len(log'))
      BY <1>0, <1>2, <3>1, <3>3, <3>4, ReportedGrows DEF ReportedNow
    <3> QED
      BY <1>1, <2>3, <3>4, <3>5
  <2> QED
    BY <1>1, <1>5, <2>1, <2>2, <2>3 DEF ControlMoves
<1> QED
  BY <1>0, <1>1, <1>3, <1>4, <1>5, WriterSame

(* The claim just won is at the log's end, above everyone's. *)
LEMMA WonKeepsWriter ==
  ASSUME TypeInv, WriterInv, NEW w \in Workers, ClaimWon(w)
  PROVE  WriterInv'
<1> DEFINE t == wk'[w]
           c == Len(log) + 1
<1>1. /\ t.pc = "answers" /\ t.phase = "live" /\ t.claim = c
      /\ wk' = [wk EXCEPT ![w] = t]
  BY DEF ClaimWon
<1>2. PICK e \in Record : e.topic = "started" /\ Send(e)
  BY DEF ClaimWon
<1>3. LogStep /\ Len(log) \in Nat /\ c \in AllClaims'
  BY <1>2, Sent DEF LogStep, TypeInv, TypeOK, AllClaims, Claims
<1>4. \A u \in Workers : u # w => wk'[u] = wk[u] /\ wk[u].claim # c
  BY <1>1, <1>3, StateOf DEF TypeInv, TypeOK
<1>5. ASSUME NEW u \in Workers, NEW v \in Workers, v # u, wk'[v].claim = wk'[u].claim
      PROVE  wk'[u].claim = 0
  BY <1>1, <1>4, <1>5 DEF WriterInv
<1>6. c # 0
  BY <1>3
<1> QED
  BY <1>1, <1>3, <1>4, <1>5, <1>6, WriterKept DEF WriterInv, ClaimPcs

LEMMA GoneKeepsWriter ==
  ASSUME TypeInv, WriterInv, NEW w \in Workers, Gone(w)
  PROVE  WriterInv'
<1>1. LogStep /\ wk' = [wk EXCEPT ![w] = wk'[w]]
  BY DEF Gone, LogStep
<1>2. LET s == wk'[w]
      IN  /\ s.claim = wk[w].claim /\ s.folded = wk[w].folded /\ ~s.up /\ s.pc = "idle"
  BY DEF Gone
<1>3. wk[w].folded => wk[w].claim # 0
  BY DEF WriterInv
<1> QED
  BY <1>1, <1>2, <1>3, WriterSame DEF ClaimPcs, WorkPcs

LEMMA ReportKeepsWriter ==
  ASSUME TypeInv, WriterInv, ReportsInv, NEW x \in Actors, ReportMoves(x)
  PROVE  WriterInv'
<1>1. LogStep
  BY DEF ReportMoves, ReportGoesOn, ReportIsOver, LogStep
<1>2. CASE UNCHANGED wk
  <2>1. \A u \in Workers : wk'[u] = wk[u]
    BY <1>2
  <2> QED
    BY <1>1, <1>2, <2>1, WriterKept DEF WriterInv
<1>3. CASE x \in Workers /\ wk' = [wk EXCEPT ![x] = wk'[x]] /\ Claimant(wk[x], wk'[x])
  <2>1. wk[x].up /\ wk[x].pc = "report"
    BY <1>3 DEF ReportsInv, ReportMoves
  <2>2. wk[x].claim = 0 /\ ~wk[x].folded /\ (wk[x].phase = "new" => wk[x].claim = 0)
    BY <1>3, <2>1 DEF WriterInv, ClaimPcs
  <2>3. LET s == wk'[x]
        IN  /\ s.claim = wk[x].claim /\ s.folded = wk[x].folded
            /\ s.pc \in {"idle", "claim"}
    BY <1>3 DEF Claimant, Frame
  <2> QED
    BY <1>1, <1>3, <2>2, <2>3, WriterSame DEF WorkPcs
<1> QED
  BY <1>2, <1>3 DEF ReportMoves, ReportGoesOn, ReportIsOver

LEMMA StillKeepsWriter ==
  ASSUME TypeInv, WriterInv, LogStep, UNCHANGED wk
  PROVE  WriterInv'
<1>1. \A u \in Workers : wk'[u] = wk[u]
  OBVIOUS
<1> QED
  BY <1>1, WriterKept DEF WriterInv

LEMMA StepKeepsWriter ==
  ASSUME TypeInv, WriterInv, ReportsInv, Step
  PROVE  WriterInv'
<1>1. LogStep
  BY StepGrows
<1>2. ASSUME NEW w \in Workers, WorkerStep(w) PROVE WriterInv'
  BY <1>2, WorkerKeepsWriter
<1>3. ASSUME NEW w \in Workers, Probed(w) \/ ClaimWon(w) \/ Gone(w) PROVE WriterInv'
  BY <1>3, WorkerKeepsWriter, WonKeepsWriter, GoneKeepsWriter DEF Probed
<1>4. ASSUME NEW x \in Actors, ReportMoves(x) PROVE WriterInv'
  BY <1>4, ReportKeepsWriter
<1>5. CASE UNCHANGED wk
  BY <1>1, <1>5, StillKeepsWriter
<1> QED
  BY <1>2, <1>3, <1>4, <1>5 DEF Step, ReportBegins, Asked

-----------------------------------------------------------------------------
(* The reports under way. *)

LEMMA ReportKept ==
  ASSUME TypeInv, LogStep, ReportsInv, NEW x \in Actors, rep'[x] = rep[x]
  PROVE  /\ rep'[x].pc # "idle" => rep'[x].claim \in AllClaims'
         /\ rep'[x].pc = "cas" => /\ rep'[x].w <= Len(log')
                                  /\ ~NothingToReport(rep[x], rep[x].w)'
<1> DEFINE r == rep[x]
           c == r.claim
           W == r.w
<1>1. r \in Report
  BY DEF TypeInv, TypeOK
<1>2. c \in Nat /\ W \in Nat
  BY <1>1 DEF Report
<1>3. r.pc # "idle" => c \in AllClaims'
  BY ClaimsGrow DEF ReportsInv
<1>4. ASSUME r.pc = "cas" PROVE W <= Len(log') /\ ~NothingToReport(r, W)'
  <2>1. W <= Len(log) /\ ~NothingToReport(r, W)
    BY <1>4 DEF ReportsInv
  <2>2. W \in 0..Len(log) /\ Len(log) <= Len(log')
    BY <1>2, <2>1, LogKept DEF Landed
  <2>3. Endings(log', c, W) = Endings(log, c, W)
    BY <1>2, <2>2, EndingsGrow
  <2>4. \A i \in Endings(log, c, W) : log'[i] = log[i]
    BY <1>2, <2>2, LogKept DEF Endings
  <2>5. NothingToReport(r, W)' <=> NothingToReport(r, W)
    BY <2>3, <2>4 DEF NothingToReport, HasExit
  <2> QED
    BY <1>2, <2>1, <2>2, <2>5, LogKept
<1> QED
  BY <1>3, <1>4

LEMMA StepKeepsReports ==
  ASSUME TypeInv, WriterInv, ReportsInv, Step
  PROVE  ReportsInv'
<1>0. LogStep
  BY StepGrows
<1>1. rep \in [Actors -> Report] /\ wk \in [Workers -> WorkerState] /\ Workers \subseteq Actors
  BY DEF TypeInv, TypeOK, Actors
<1>2. NoReport.pc = "idle"
  BY DEF NoReport
<1>3. ASSUME NEW w \in Workers, WorkerStep(w), UNCHANGED rep PROVE ReportsInv'
  <2>1. /\ wk' = [wk EXCEPT ![w] = wk'[w]] /\ wk[w].pc # "report"
        /\ \A x \in Actors : rep'[x] = rep[x]
    BY <1>3 DEF WorkerStep, ControlMoves
  <2>2. \A u \in Workers : rep'[u].pc # "idle" => wk'[u].up /\ wk'[u].pc = "report"
    BY <1>1, <2>1 DEF ReportsInv
  <2> QED
    BY <1>0, <2>1, <2>2, ReportKept DEF ReportsInv
<1>4. ASSUME NEW w \in Workers, Probed(w) PROVE ReportsInv'
  <2> DEFINE c == wk[w].seen
             r == [NoReport EXCEPT !.pc = "read", !.claim = c]
  <2>1. /\ wk' = [wk EXCEPT ![w] = wk'[w]] /\ wk'[w].up /\ wk'[w].pc = "report"
        /\ wk[w].pc = "held" /\ rep' = [rep EXCEPT ![w] = r]
    BY <1>4 DEF Probed, WorkerStep, ControlMoves
  <2>2. r.pc = "read" /\ r.claim = c
    BY DEF NoReport
  <2>3. c \in AllClaims'
    BY <1>0, <2>1, ClaimsGrow DEF WriterInv
  <2> HIDE DEF c, r
  <2>4. \A x \in Actors : x # w => rep'[x] = rep[x]
    BY <1>1, <2>1
  <2>5. rep'[w] = r
    BY <1>1, <2>1
  <2>6. \A u \in Workers : rep'[u].pc # "idle" => wk'[u].up /\ wk'[u].pc = "report"
    BY <1>1, <2>1, <2>4 DEF ReportsInv
  <2> QED
    BY <1>0, <2>2, <2>3, <2>4, <2>5, <2>6, ReportKept DEF ReportsInv
<1>5. ASSUME NEW w \in Workers, ClaimWon(w) PROVE ReportsInv'
  <2>1. /\ wk' = [wk EXCEPT ![w] = wk'[w]] /\ wk[w].pc # "report"
        /\ \A x \in Actors : rep'[x] = rep[x]
    BY <1>5 DEF ClaimWon
  <2>2. \A u \in Workers : rep'[u].pc # "idle" => wk'[u].up /\ wk'[u].pc = "report"
    BY <1>1, <2>1 DEF ReportsInv
  <2> QED
    BY <1>0, <2>1, <2>2, ReportKept DEF ReportsInv
<1>6. ASSUME NEW w \in Workers, Gone(w) PROVE ReportsInv'
  <2>1. wk' = [wk EXCEPT ![w] = wk'[w]] /\ rep' = [rep EXCEPT ![w] = NoReport]
    BY <1>6 DEF Gone
  <2>2. rep'[w].pc = "idle" /\ \A x \in Actors : x # w => rep'[x] = rep[x]
    BY <1>1, <1>2, <2>1
  <2>3. \A u \in Workers : rep'[u].pc # "idle" => wk'[u].up /\ wk'[u].pc = "report"
    BY <1>1, <2>1, <2>2 DEF ReportsInv
  <2> QED
    BY <1>0, <2>2, <2>3, ReportKept DEF ReportsInv
<1>7. ASSUME NEW x \in Actors, ReportMoves(x) PROVE ReportsInv'
  <2>1. rep' = [rep EXCEPT ![x] = rep'[x]] /\ rep[x].pc # "idle"
    BY <1>7 DEF ReportMoves
  <2>2. \A y \in Actors : y # x => rep'[y] = rep[y]
    BY <1>1, <2>1
  <2>3. \A u \in Workers : rep'[u].pc # "idle" => wk'[u].up /\ wk'[u].pc = "report"
    BY <1>1, <1>7, <2>1, <2>2 DEF ReportsInv, ReportMoves, ReportGoesOn, ReportIsOver
  <2>4. rep'[x].pc # "idle" => rep'[x].claim \in AllClaims'
    BY <1>0, <1>7, <2>1, ClaimsGrow
    DEF ReportsInv, ReportMoves, ReportGoesOn, ReportIsOver
  <2>5. rep'[x].pc = "cas" => /\ rep'[x].w <= Len(log')
                              /\ ~NothingToReport(rep[x], rep[x].w)'
    BY <1>0, <1>7, <2>1, LogKept
    DEF ReportMoves, ReportGoesOn, ReportIsOver, NothingToReport, HasExit
  <2> QED
    BY <1>0, <2>2, <2>3, <2>4, <2>5, ReportKept DEF ReportsInv
<1>8. ASSUME NEW p \in Reporters, ReportBegins(p) PROVE ReportsInv'
  <2>1. /\ rep' = [rep EXCEPT ![p] = rep'[p]] /\ UNCHANGED <<log, wk>>
        /\ rep'[p].pc = "read" /\ rep'[p].claim \in AllClaims
    BY <1>8 DEF ReportBegins
  <2>2. \A y \in Actors : y # p => rep'[y] = rep[y]
    BY <1>1, <2>1
  <2>3. \A u \in Workers : rep'[u] = rep[u]
    BY <1>1, <2>2, ActorsAssumption
  <2>4. rep'[p].claim \in AllClaims'
    BY <1>0, <2>1, ClaimsGrow
  <2>5. \A u \in Workers : rep'[u].pc # "idle" => wk'[u].up /\ wk'[u].pc = "report"
    BY <2>1, <2>3 DEF ReportsInv
  <2> QED
    BY <1>0, <2>1, <2>2, <2>4, <2>5, ReportKept DEF ReportsInv
<1>9. CASE UNCHANGED <<wk, rep>>
  <2>1. \A x \in Actors : rep'[x] = rep[x]
    BY <1>9
  <2>2. \A u \in Workers : rep'[u].pc # "idle" => wk'[u].up /\ wk'[u].pc = "report"
    BY <1>9 DEF ReportsInv
  <2> QED
    BY <1>0, <2>1, <2>2, ReportKept DEF ReportsInv
<1> QED
  BY <1>3, <1>4, <1>5, <1>6, <1>7, <1>8, <1>9 DEF Step, Asked

-----------------------------------------------------------------------------
(* The exits.  While a worker is not done, nothing ends its claim but a    *)
(* report; and a report is written of no claim with an exit.               *)

LEMMA NoExitYet ==
  ASSUME TypeInv, ExitsInv, NEW w \in Workers, ~Done(wk[w]),
         NEW j \in Endings(log, wk[w].claim, Len(log))
  PROVE  log[j].topic = "died"
<1>1. /\ j \in 1..Len(log) /\ log[j].topic \in {"stopped", "died"}
      /\ log[j].claim = wk[w].claim
  BY StateOf DEF Endings
<1> QED
  BY <1>1 DEF ExitsInv

(* The record of an exit that was there stays right when no exit of its    *)
(* claim, nor any report of it, lands, and its writers do not move.        *)
LEMMA ExitKept ==
  ASSUME TypeInv, LogStep, ExitsInv,
         NEW i \in 1..Len(log), log[i].topic = "stopped",
         Landed => ~(/\ Newest.topic \in {"stopped", "died"}
                     /\ Newest.claim = log[i].claim),
         \A w \in Workers : Done(wk[w]) => wk'[w] = wk[w] \/ Done(wk'[w]),
         \A w \in Workers : wk'[w].claim = log[i].claim => wk[w].claim = log[i].claim
  PROVE  /\ Readable(log'[i]) /\ log'[i].claim \in AllClaims' /\ log'[i].claim < i
         /\ \A j \in Endings(log', log'[i].claim, Len(log')) : j = i
         /\ \A w \in Workers : wk'[w].claim = log'[i].claim => Done(wk'[w])
<1> DEFINE c == log[i].claim
<1>1. /\ Readable(log[i]) /\ c \in AllClaims /\ c < i
      /\ \A j \in Endings(log, c, Len(log)) : j = i
      /\ \A w \in Workers : wk[w].claim = c => Done(wk[w])
  BY DEF ExitsInv
<1>2. log'[i] = log[i] /\ c \in AllClaims' /\ c \in Nat
  BY <1>1, LogKept, ClaimsGrow
<1>3. Endings(log', c, Len(log')) \subseteq Endings(log, c, Len(log))
  BY <1>2, EndingsGrow
<1>4. \A w \in Workers : wk'[w].claim = c => Done(wk'[w])
  BY <1>1 DEF Done
<1> QED
  BY <1>1, <1>2, <1>3, <1>4

LEMMA WorkerKeepsExits ==
  ASSUME TypeInv, WriterInv, ExitsInv, NEW w \in Workers, WorkerStep(w)
  PROVE  ExitsInv'
<1> DEFINE v == wk[w]
           t == wk'[w]
           c == v.claim
<1>1. /\ ControlMoves(v, t) /\ LogMoves(v, t) /\ t.claim = c /\ ~Done(v)
      /\ wk' = [wk EXCEPT ![w] = t]
  BY DEF WorkerStep, ControlMoves
<1>2. LogStep
  BY <1>1 DEF LogMoves, LogStep
<1>3. c \in 0..Len(log) /\ Len(log) \in Nat /\ \A u \in Workers : u # w => wk'[u] = wk[u]
  BY <1>1, StateOf DEF TypeInv, TypeOK
<1>4. \A u \in Workers : Done(wk[u]) => wk'[u] = wk[u]
  BY <1>1, <1>3
<1>5. \A u \in Workers : wk'[u].claim = wk[u].claim
  BY <1>1, <1>3
<1>6. \A i \in 1..Len(log) : log[i].topic = "stopped" => log[i].claim # c
  BY <1>1 DEF ExitsInv
<1> DEFINE Allowed(e) ==
      /\ e.topic # "died" /\ (e.topic = "stopped" => e.claim = c)
      /\ e.topic = "stopped" =>
           Readable(e) /\ v.pc = "take" /\ v.w = Len(log) /\ Done(t)
<1>7. Landed => Allowed(Newest)
  <2>1. CASE UNCHANGED log
    BY <1>3, <2>1 DEF Landed
  <2>2. ASSUME NEW e \in Record, Send(e), Writes(v, t, e) PROVE Allowed(Newest)
    <3>1. Newest = e
      BY <2>2, Sent DEF Newest, TypeInv, TypeOK
    <3> QED
      BY <2>2, <3>1 DEF Writes
  <2> QED
    BY <1>1, <2>1, <2>2 DEF LogMoves
<1>8. ASSUME NEW i \in 1..Len(log'), log'[i].topic = "stopped", ~(i \in 1..Len(log))
      PROVE  /\ Readable(log'[i]) /\ log'[i].claim \in AllClaims' /\ log'[i].claim < i
             /\ \A j \in Endings(log', log'[i].claim, Len(log')) : j = i
             /\ \A u \in Workers : wk'[u].claim = log'[i].claim => Done(wk'[u])
  <2>1. Landed /\ i = Len(log') /\ Newest = log'[i]
    BY <1>2, <1>8, LogKept DEF Landed, Newest
  <2>2. Readable(log'[i]) /\ log'[i].claim = c /\ v.pc = "take" /\ v.w = Len(log) /\ Done(t)
    BY <1>7, <1>8, <2>1
  <2>3. c # 0 /\ c \in AllClaims /\ ~Reported(log, c, Len(log))
    BY <2>2 DEF WriterInv, WorkPcs
  <2>4. Endings(log, c, Len(log)) = {}
    BY <1>1, <2>3, NoExitYet DEF Reported
  <2>5. \A j \in Endings(log', c, Len(log')) : j = i
    BY <1>2, <1>3, <2>1, <2>4, EndingsGrow
  <2>6. \A u \in Workers : wk'[u].claim = c => u = w
    BY <1>5, <2>3 DEF WriterInv
  <2> QED
    BY <1>2, <1>3, <2>1, <2>2, <2>3, <2>5, <2>6, ClaimsGrow DEF Landed
<1>9. ASSUME NEW i \in 1..Len(log), log'[i].topic = "stopped"
      PROVE  /\ Readable(log'[i]) /\ log'[i].claim \in AllClaims' /\ log'[i].claim < i
             /\ \A j \in Endings(log', log'[i].claim, Len(log')) : j = i
             /\ \A u \in Workers : wk'[u].claim = log'[i].claim => Done(wk'[u])
  <2>1. log[i].topic = "stopped"
    BY <1>2, <1>9, LogKept
  <2>2. Landed => ~(Newest.topic \in {"stopped", "died"} /\ Newest.claim = log[i].claim)
    BY <1>6, <1>7, <2>1
  <2> QED
    BY <1>2, <1>4, <1>5, <2>1, <2>2, ExitKept
<1> QED
  BY <1>8, <1>9 DEF ExitsInv

(* Steps that end no claim keep the exits when nobody done moves. *)
LEMMA OthersKeepExits ==
  ASSUME TypeInv, LogStep, ExitsInv,
         Landed => Newest.topic # "stopped",
         Landed /\ Newest.topic = "died" => ~HasExit(log, Newest.claim, Len(log)),
         \A w \in Workers : Done(wk[w]) => wk'[w] = wk[w] \/ Done(wk'[w]),
         \A w \in Workers : wk'[w].claim = wk[w].claim \/ wk'[w].claim > Len(log)
  PROVE  ExitsInv'
<1> SUFFICES ASSUME NEW i \in 1..Len(log'), log'[i].topic = "stopped"
             PROVE  /\ Readable(log'[i]) /\ log'[i].claim \in AllClaims' /\ log'[i].claim < i
                    /\ \A j \in Endings(log', log'[i].claim, Len(log')) : j = i
                    /\ \A w \in Workers : wk'[w].claim = log'[i].claim => Done(wk'[w])
  BY DEF ExitsInv
<1>1. i \in 1..Len(log) /\ log[i].topic = "stopped"
  BY LogKept DEF Landed, Newest
<1>2. Readable(log[i]) /\ log[i].claim \in 1..Len(log) /\ log[i].claim < i
  BY <1>1, ClaimsGrow DEF ExitsInv
<1>3. HasExit(log, log[i].claim, Len(log))
  <2>1. i \in Endings(log, log[i].claim, Len(log))
    BY <1>1, <1>2, LogKept DEF Endings
  <2> QED
    BY <1>1, <1>2, <2>1 DEF HasExit
<1>4. Landed => ~(Newest.topic \in {"stopped", "died"} /\ Newest.claim = log[i].claim)
  BY <1>3
<1>5. \A w \in Workers : wk'[w].claim = log[i].claim => wk[w].claim = log[i].claim
  BY <1>2, LogKept
<1> QED
  BY <1>1, <1>4, <1>5, ExitKept

LEMMA StepKeepsExits ==
  ASSUME TypeInv, WriterInv, ReportsInv, ExitsInv, Step
  PROVE  ExitsInv'
<1>0. LogStep
  BY StepGrows
<1>1. wk \in [Workers -> WorkerState]
  BY DEF TypeInv, TypeOK
<1>2. ASSUME NEW w \in Workers, WorkerStep(w) PROVE ExitsInv'
  BY <1>2, WorkerKeepsExits
<1>3. ASSUME NEW w \in Workers, ClaimWon(w) PROVE ExitsInv'
  <2>1. /\ ~Done(wk[w]) /\ wk'[w].claim = Len(log) + 1 /\ wk' = [wk EXCEPT ![w] = wk'[w]]
        /\ \E e \in Record : e.topic = "started" /\ Send(e)
    BY <1>3 DEF ClaimWon, Done
  <2>2. Newest.topic = "started"
    BY <2>1, Sent DEF Newest, TypeInv, TypeOK
  <2>3. \A u \in Workers : u # w => wk'[u] = wk[u]
    BY <1>1, <2>1
  <2>4. Len(log) + 1 > Len(log)
    BY LogKept, <1>0
  <2> QED
    BY <1>0, <2>1, <2>2, <2>3, <2>4, OthersKeepExits
<1>4. ASSUME NEW w \in Workers, Gone(w) PROVE ExitsInv'
  <2>1. /\ UNCHANGED log /\ ~wk'[w].up /\ wk'[w].claim = wk[w].claim
        /\ wk' = [wk EXCEPT ![w] = wk'[w]]
    BY <1>4 DEF Gone
  <2>2. ~Landed
    BY <1>0, <2>1, LogKept DEF Landed
  <2>3. \A u \in Workers : u # w => wk'[u] = wk[u]
    BY <1>1, <2>1
  <2>4. \A u \in Workers : /\ Done(wk[u]) => wk'[u] = wk[u] \/ Done(wk'[u])
                           /\ wk'[u].claim = wk[u].claim
    BY <2>1, <2>3 DEF Done
  <2> QED
    BY <1>0, <2>2, <2>4, OthersKeepExits
<1>5. ASSUME NEW x \in Actors, ReportMoves(x) PROVE ExitsInv'
  <2>1. \A u \in Workers : wk'[u] = wk[u] \/ (~Done(wk[u]) /\ wk'[u].claim = wk[u].claim)
    <3>1. CASE UNCHANGED wk
      BY <3>1
    <3>2. CASE x \in Workers /\ wk' = [wk EXCEPT ![x] = wk'[x]] /\ Claimant(wk[x], wk'[x])
      <4>1. wk[x].up /\ wk[x].pc = "report"
        BY <1>5, <3>2 DEF ReportsInv, ReportMoves
      <4>2. ~Done(wk[x]) /\ wk'[x].claim = wk[x].claim
        BY <3>2, <4>1 DEF Done, Claimant, Frame
      <4> QED
        BY <1>1, <3>2, <4>2
    <3> QED
      BY <1>5, <3>1, <3>2 DEF ReportMoves, ReportGoesOn, ReportIsOver
  <2>2. Landed => Newest.topic = "died" /\ ~HasExit(log, Newest.claim, Len(log))
    <3>1. CASE UNCHANGED log
      BY <1>0, <3>1, LogKept DEF Landed
    <3>2. ASSUME rep[x].pc = "cas", rep[x].w = Len(log), NEW e \in Record,
                 e.topic = "died", e.claim = rep[x].claim, Send(e)
          PROVE  Newest.topic = "died" /\ ~HasExit(log, Newest.claim, Len(log))
      <4>1. Newest = e
        BY <3>2, Sent DEF Newest, TypeInv, TypeOK
      <4>2. ~HasExit(log, rep[x].claim, Len(log))
        BY <3>2 DEF ReportsInv, NothingToReport
      <4> QED
        BY <3>2, <4>1, <4>2
    <3> QED
      BY <1>5, <3>1, <3>2 DEF ReportMoves, ReportGoesOn, ReportIsOver
  <2> QED
    BY <1>0, <2>1, <2>2, OthersKeepExits
<1>6. CASE UNCHANGED wk /\ (Asked \/ UNCHANGED log)
  <2>1. Landed => Newest.topic \in ControlTopics
    BY <1>0, <1>6, LogKept, Sent DEF Asked, IsControl, Landed, Newest, TypeInv, TypeOK
  <2>2. Landed => Newest.topic # "stopped" /\ Newest.topic # "died"
    BY <2>1 DEF ControlTopics
  <2> QED
    BY <1>0, <1>6, <2>2, OthersKeepExits
<1> QED
  BY <1>2, <1>3, <1>4, <1>5, <1>6 DEF Step, Probed, ReportBegins, Asked

-----------------------------------------------------------------------------
(* The positions are nodes that can be built upon. *)

LEMMA StepKeepsNodes ==
  ASSUME TypeInv, NodesInv, Step
  PROVE  NodesInv'
<1>0. LogStep /\ Resumable \subseteq Resumable'
  BY StepGrows, NodesGrow
<1>1. wk \in [Workers -> WorkerState]
  BY DEF TypeInv, TypeOK
<1>2. ASSUME NEW w \in Workers, wk' = [wk EXCEPT ![w] = wk'[w]], wk'[w].node \in Resumable'
      PROVE  NodesInv'
  <2>1. \A u \in Workers : u # w => wk'[u] = wk[u]
    BY <1>1, <1>2
  <2> QED
    BY <1>0, <1>2, <2>1 DEF NodesInv
<1>3. ASSUME NEW w \in Workers, WorkerStep(w) PROVE NodesInv'
  <2>1. wk' = [wk EXCEPT ![w] = wk'[w]] /\ LogMoves(wk[w], wk'[w]) /\ wk[w].node \in Resumable
    BY <1>3 DEF WorkerStep, NodesInv
  <2>2. ASSUME NEW e \in Record, Send(e), e.topic = "commit", Readable(e)
        PROVE  Len(log) + 1 \in Resumable'
    <3>1. Newest = e /\ Len(log') = Len(log) + 1 /\ Len(log) \in Nat
      BY <2>2, Sent, LogKept, <1>0 DEF Newest, TypeInv, TypeOK
    <3> QED
      BY <2>2, <3>1 DEF Resumable, Extendable, IsNode, Closed, Torn, Newest
  <2>3. wk'[w].node \in Resumable'
    BY <1>0, <2>1, <2>2 DEF LogMoves, Writes
  <2> QED
    BY <1>2, <2>1, <2>3
<1>4. ASSUME NEW w \in Workers, ClaimWon(w) \/ Gone(w) PROVE NodesInv'
  <2>1. wk' = [wk EXCEPT ![w] = wk'[w]] /\ wk'[w].node \in {0, wk[w].node}
    BY <1>4 DEF ClaimWon, Gone
  <2>2. wk'[w].node \in Resumable'
    BY <1>0, <2>1 DEF NodesInv, Resumable
  <2> QED
    BY <1>2, <2>1, <2>2
<1>5. ASSUME NEW x \in Actors, ReportMoves(x) PROVE NodesInv'
  BY <1>0, <1>2, <1>5
  DEF ReportMoves, ReportGoesOn, ReportIsOver, Claimant, NodesInv
<1>6. CASE UNCHANGED wk
  BY <1>0, <1>6 DEF NodesInv
<1> QED
  BY <1>3, <1>4, <1>5, <1>6 DEF Step, Probed, ReportBegins, Asked

-----------------------------------------------------------------------------
(* What lands above a report. *)

WritesLate(e, c) == e.topic \in {"commit", "heartbeat"} /\ e.claim = c

LEMMA LateGrows ==
  ASSUME TypeInv, LogStep, NEW c \in Nat, NEW d \in Nat
  PROVE  /\ \A i \in LateWrites(d, c)' \ LateWrites(d, c) :
              Landed /\ i = Len(log') /\ WritesLate(Newest, c)
         /\ LateWrites(d, c) \subseteq LateWrites(d, c)'
         /\ d = Len(log') => LateWrites(d, c)' = {}
<1>1. ASSUME NEW i \in LateWrites(d, c)', i \notin LateWrites(d, c)
      PROVE  Landed /\ i = Len(log') /\ WritesLate(Newest, c)
  BY <1>1, LogKept DEF LateWrites, Landed, Newest, WritesLate
<1>2. LateWrites(d, c) \subseteq LateWrites(d, c)'
  BY LogKept DEF LateWrites, Landed
<1>3. d = Len(log') => LateWrites(d, c)' = {}
  BY DEF LateWrites
<1> QED
  BY <1>1, <1>2, <1>3

LEMMA DeathsGrow ==
  ASSUME TypeInv, LogStep, NEW c \in Nat, NEW d \in DeathsOf(c)'
  PROVE  /\ d \in Nat
         /\ d \in DeathsOf(c) \/ (Landed /\ d = Len(log') /\ Newest.topic = "died" /\ c <= Len(log))
<1>1. d \in Endings(log', c, Len(log')) /\ log'[d].topic = "died" /\ d \in Nat
  BY DEF DeathsOf, Endings
<1>2. CASE d \in Endings(log, c, Len(log))
  <2>1. d \in 1..Len(log)
    BY <1>2, EndingsGrow
  <2> QED
    BY <1>1, <1>2, <2>1, LogKept DEF DeathsOf
<1>3. CASE d \notin Endings(log, c, Len(log))
  BY <1>1, <1>3, EndingsGrow DEF Newest
<1> QED
  BY <1>1, <1>2, <1>3

(* A worker writes late only while its drain may be followed by a write,   *)
(* and not again.                                                          *)
LEMMA WorkerWritesLate ==
  ASSUME TypeInv, WriterInv, NEW w \in Workers, WorkerStep(w)
  PROVE  /\ Landed => Newest.topic # "died"
         /\ \A c : Landed /\ WritesLate(Newest, c) =>
              /\ wk[w].pc \in OpenPcs /\ wk'[w].pc = "idle"
              /\ c = wk[w].claim /\ c \in AllClaims
              /\ \A u \in Workers : wk[u].claim = c => u = w
<1>0. LogStep /\ LogMoves(wk[w], wk'[w])
  BY StepGrows DEF Step, WorkerStep, LogMoves, LogStep
<1>1. CASE UNCHANGED log
  BY <1>0, <1>1, LogKept DEF Landed
<1>2. ASSUME NEW e \in Record, Send(e), Writes(wk[w], wk'[w], e)
      PROVE  /\ Newest.topic # "died"
             /\ \A c : WritesLate(Newest, c) =>
                  wk[w].pc \in OpenPcs /\ wk'[w].pc = "idle" /\ c = wk[w].claim
  <2>1. Newest = e
    BY <1>2, Sent DEF Newest, TypeInv, TypeOK
  <2> QED
    BY <1>2, <2>1 DEF Writes, WritesLate, OpenPcs
<1>3. wk[w].pc \in OpenPcs => wk[w].claim # 0
  BY DEF WriterInv, OpenPcs, WorkPcs
<1>4. wk[w].claim # 0 =>
        wk[w].claim \in AllClaims /\ \A u \in Workers : wk[u].claim = wk[w].claim => u = w
  BY DEF WriterInv
<1> QED
  BY <1>0, <1>1, <1>2, <1>3, <1>4 DEF LogMoves

LEMMA WorkerKeepsLate ==
  ASSUME TypeInv, WriterInv, LateInv, NEW w \in Workers, WorkerStep(w)
  PROVE  LateInv'
<1>0. LogStep
  BY DEF WorkerStep, LogMoves, LogStep
<1>1. /\ ControlMoves(wk[w], wk'[w]) /\ wk' = [wk EXCEPT ![w] = wk'[w]]
      /\ wk \in [Workers -> WorkerState]
  BY DEF WorkerStep, TypeInv, TypeOK
<1>2. \A u \in Workers : u # w => wk'[u] = wk[u]
  BY <1>1
<1>3. Landed => Newest.topic # "died"
  BY WorkerWritesLate
<1>4. ASSUME NEW c \in AllClaims', NEW d \in DeathsOf(c)', NEW i \in LateWrites(d, c)',
             NEW j \in LateWrites(d, c)'
      PROVE  i = j
  <2>1. c \in Nat
    BY DEF AllClaims, Claims
  <2>2. d \in DeathsOf(c) /\ d \in Nat
    BY <1>0, <1>3, <2>1, DeathsGrow
  <2>3. c \in AllClaims
    BY <1>0, <2>1, <2>2, ClaimsGrow, LogKept DEF DeathsOf, Endings, Landed
  <2>4. CASE Landed /\ WritesLate(Newest, c)
    <3>1. LateWrites(d, c) = {}
      BY <2>2, <2>4, WorkerWritesLate DEF LateInv
    <3> QED
      BY <1>0, <2>1, <2>2, <3>1, LateGrows
  <2>5. CASE ~(Landed /\ WritesLate(Newest, c))
    BY <1>0, <2>1, <2>2, <2>3, <2>5, LateGrows DEF LateInv
  <2> QED
    BY <2>4, <2>5
<1>5. ASSUME NEW u \in Workers, wk'[u].pc \in OpenPcs, NEW c \in Nat, c = wk'[u].claim,
             NEW d \in DeathsOf(c)', NEW i \in LateWrites(d, c)'
      PROVE  FALSE
  <2>1. d \in DeathsOf(c) /\ d \in Nat
    BY <1>0, <1>3, DeathsGrow
  <2>2. c = wk[u].claim
    BY <1>1, <1>2, <1>5 DEF ControlMoves
  <2>3. wk[u].pc \in OpenPcs
    <3>1. ReportedNow(c)
      BY <2>1 DEF DeathsOf, ReportedNow, Reported
    <3> QED
      BY <1>1, <1>2, <1>5, <2>2, <3>1 DEF ControlMoves
  <2>4. LateWrites(d, c) = {}
    BY <2>1, <2>2, <2>3 DEF LateInv
  <2>5. Landed /\ WritesLate(Newest, c)
    BY <1>0, <2>1, <2>4, LateGrows
  <2>6. u = w /\ wk'[w].pc = "idle"
    BY <2>2, <2>5, WorkerWritesLate
  <2> QED
    BY <1>5, <2>6 DEF OpenPcs
<1>6. ASSUME NEW u \in Workers, wk'[u].pc \in OpenPcs, NEW d \in DeathsOf(wk[u].claim)'
      PROVE  LateWrites(d, wk[u].claim)' = {}
  <2>1. wk'[u].claim \in Nat
    BY <1>1, <1>2, StateOf DEF ControlMoves
  <2> QED
    BY <1>5, <1>6, <2>1
<1> QED
  BY <1>4, <1>6 DEF LateInv

LEMMA OthersKeepLate ==
  ASSUME TypeInv, WriterInv, LateInv, LogStep,
         Landed => Newest.topic \notin {"commit", "heartbeat"},
         Landed /\ Newest.topic = "died" => Newest.claim \in AllClaims,
         \A u \in Workers : wk'[u].pc \in OpenPcs => wk'[u] = wk[u]
  PROVE  LateInv'
<1>1. ASSUME NEW c \in Nat, NEW d \in Nat
      PROVE  LateWrites(d, c)' = LateWrites(d, c) /\ (d = Len(log') => LateWrites(d, c)' = {})
  BY LateGrows DEF WritesLate
<1>2. ASSUME NEW c \in AllClaims', NEW d \in DeathsOf(c)', NEW i \in LateWrites(d, c)',
             NEW j \in LateWrites(d, c)'
      PROVE  i = j
  <2>1. c \in Nat
    BY DEF AllClaims, Claims
  <2>2. d \in Nat /\ (d \in DeathsOf(c) \/ d = Len(log'))
    BY <2>1, DeathsGrow
  <2>3. c \in AllClaims
    <3>1. c <= Len(log)
      BY <2>1, DeathsGrow, LogKept DEF DeathsOf, Endings
    <3> QED
      BY <2>1, <3>1, ClaimsGrow, LogKept DEF Landed
  <2> QED
    BY <1>1, <2>1, <2>2, <2>3 DEF LateInv
<1>3. ASSUME NEW u \in Workers, wk'[u].pc \in OpenPcs, NEW c \in Nat, c = wk'[u].claim,
             NEW d \in DeathsOf(c)'
      PROVE  LateWrites(d, c)' = {}
  <2>1. d \in Nat /\ (d \in DeathsOf(c) \/ d = Len(log'))
    BY DeathsGrow
  <2> QED
    BY <1>1, <1>3, <2>1 DEF LateInv
<1>4. ASSUME NEW u \in Workers, wk'[u].pc \in OpenPcs, NEW d \in DeathsOf(wk[u].claim)'
      PROVE  LateWrites(d, wk[u].claim)' = {}
  <2>1. wk'[u].claim \in Nat
    BY <1>4, StateOf
  <2> QED
    BY <1>3, <1>4, <2>1
<1> QED
  BY <1>2, <1>4 DEF LateInv

LEMMA StepKeepsLate ==
  ASSUME TypeInv, WriterInv, ReportsInv, LateInv, Step
  PROVE  LateInv'
<1>0. LogStep /\ wk \in [Workers -> WorkerState]
  BY StepGrows DEF TypeInv, TypeOK
<1>1. ASSUME NEW w \in Workers, WorkerStep(w) PROVE LateInv'
  BY <1>1, WorkerKeepsLate
<1>2. ASSUME NEW w \in Workers, ClaimWon(w) PROVE LateInv'
  <2>1. /\ wk' = [wk EXCEPT ![w] = wk'[w]] /\ wk'[w].pc = "answers"
        /\ \E e \in Record : e.topic = "started" /\ Send(e)
    BY <1>2 DEF ClaimWon
  <2>2. Newest.topic = "started"
    BY <2>1, Sent DEF Newest, TypeInv, TypeOK
  <2>3. \A u \in Workers : wk'[u].pc \in OpenPcs => wk'[u] = wk[u]
    BY <1>0, <2>1 DEF OpenPcs
  <2> QED
    BY <1>0, <2>2, <2>3, OthersKeepLate
<1>3. ASSUME NEW w \in Workers, Gone(w) PROVE LateInv'
  <2>1. /\ wk' = [wk EXCEPT ![w] = wk'[w]] /\ wk'[w].pc = "idle" /\ UNCHANGED log
    BY <1>3 DEF Gone
  <2>2. ~Landed
    BY <1>0, <2>1, LogKept DEF Landed
  <2>3. \A u \in Workers : wk'[u].pc \in OpenPcs => wk'[u] = wk[u]
    BY <1>0, <2>1 DEF OpenPcs
  <2> QED
    BY <1>0, <2>2, <2>3, OthersKeepLate
<1>4. ASSUME NEW x \in Actors, ReportMoves(x) PROVE LateInv'
  <2>1. \A u \in Workers : wk'[u].pc \in OpenPcs => wk'[u] = wk[u]
    BY <1>0, <1>4 DEF ReportMoves, ReportGoesOn, ReportIsOver, Claimant, OpenPcs
  <2>2. Landed => Newest.topic = "died" /\ Newest.claim \in AllClaims
    <3>1. CASE UNCHANGED log
      BY <1>0, <3>1, LogKept DEF Landed
    <3>2. ASSUME NEW e \in Record, e.topic = "died", e.claim = rep[x].claim, Send(e)
          PROVE  Newest.topic = "died" /\ Newest.claim \in AllClaims
      <4>1. Newest = e
        BY <3>2, Sent DEF Newest, TypeInv, TypeOK
      <4>2. rep[x].claim \in AllClaims
        BY <1>4 DEF ReportsInv, ReportMoves
      <4> QED
        BY <3>2, <4>1, <4>2
    <3> QED
      BY <1>4, <3>1, <3>2 DEF ReportMoves, ReportGoesOn, ReportIsOver
  <2> QED
    BY <1>0, <2>1, <2>2, OthersKeepLate
<1>5. CASE UNCHANGED wk /\ (Asked \/ UNCHANGED log)
  <2>1. Landed => Newest.topic \in ControlTopics
    BY <1>0, <1>5, LogKept, Sent DEF Asked, IsControl, Landed, Newest, TypeInv, TypeOK
  <2>2. Landed => Newest.topic \notin {"commit", "heartbeat", "died"}
    BY <2>1 DEF ControlTopics
  <2> QED
    BY <1>0, <1>5, <2>2, OthersKeepLate
<1> QED
  BY <1>1, <1>2, <1>3, <1>4, <1>5 DEF Step, Probed, ReportBegins, Asked

-----------------------------------------------------------------------------
(* The invariant holds. *)

LEMMA InitRunInv == Init => RunInv
<1> SUFFICES ASSUME Init PROVE RunInv
  OBVIOUS
<1>1. log = <<>> /\ Len(log) = 0 /\ \A w \in Workers : wk[w] = NewWorker
  BY DEF Init
<1>2. /\ NewWorker.claim = 0 /\ NewWorker.pc = "idle" /\ ~NewWorker.folded
      /\ NewWorker.node = 0
  BY DEF NewWorker
<1>3. \A x \in Actors : rep[x].pc = "idle"
  BY DEF Init, NoReport
<1>4. WriterInv
  BY <1>1, <1>2 DEF WriterInv, ClaimPcs, WorkPcs
<1>5. ReportsInv
  BY <1>3 DEF ReportsInv, Actors
<1>6. ExitsInv
  BY <1>1 DEF ExitsInv
<1>7. NodesInv
  BY <1>1, <1>2 DEF NodesInv, Resumable
<1>8. LateInv
  BY <1>1, <1>2 DEF LateInv, OpenPcs, AllClaims, Claims
<1> QED
  BY <1>4, <1>5, <1>6, <1>7, <1>8, InitClaimInv DEF RunInv

LEMMA NextRunInv == RunInv /\ [Next]_vars => RunInv'
<1> SUFFICES ASSUME RunInv, [Next]_vars PROVE RunInv'
  OBVIOUS
<1>1. /\ ClaimInv /\ TypeInv /\ WriterInv /\ ReportsInv /\ ExitsInv /\ NodesInv /\ LateInv
  BY DEF RunInv, ClaimInv
<1>2. Step
  BY <1>1, NextStep
<1>3. ClaimInv'
  BY <1>1, NextClaimInv
<1> QED
  BY <1>1, <1>2, <1>3, StepKeepsWriter, StepKeepsReports, StepKeepsExits,
     StepKeepsNodes, StepKeepsLate DEF RunInv

LEMMA RunInvHolds == Spec => []RunInv
<1>1. RunInv /\ [Next]_vars => RunInv'
  BY NextRunInv
<1> QED
  BY <1>1, InitRunInv, PTL DEF Spec

(* A mistaken release costs at most the iteration in flight: whoever is    *)
(* reported dead while alive, at most one commit or heartbeat of its claim *)
(* lands above the report, since every write follows a drain that read the *)
(* reports, and returns to the driver.                                     *)
THEOREM OneLateWrite == Spec => []OneIterationInFlight
<1>1. RunInv => OneIterationInFlight
  <2> SUFFICES ASSUME RunInv, NEW c \in AllClaims, NEW d \in DeathsOf(c)
               PROVE  Cardinality(LateWrites(d, c)) <= 1
    BY DEF OneIterationInFlight, DeathsOf, LateWrites
  <2>1. \A i, j \in LateWrites(d, c) : i = j
    BY DEF RunInv, LateInv
  <2>2. CASE LateWrites(d, c) = {}
    BY <2>2, FS_EmptySet
  <2>3. CASE LateWrites(d, c) # {}
    <3> PICK i \in LateWrites(d, c) : LateWrites(d, c) = {i}
      BY <2>1, <2>3
    <3>1. Cardinality({i}) = 1
      BY FS_Singleton, Zenon
    <3> QED
      BY <3>1
  <2> QED
    BY <2>2, <2>3
<1> QED
  BY <1>1, RunInvHolds, PTL

(* Once a report of its claim is on the log, a worker writes no exit, no   *)
(* refusal and no binding: each is compare-and-appended at a tail up to    *)
(* which its drain read no report.                                         *)
THEOREM ReleasedIsSilent == Spec => ReleasedAnswersNothing
<1>1. ASSUME RunInv, Step, NEW w \in Workers, wk'[w] # wk[w], Len(log') > Len(log),
             Newest.topic \in {"stopped", "nak", "bound"}
      PROVE  ~Reported(log, wk[w].claim, Len(log))
  <2>0. TypeInv /\ WriterInv /\ LogStep /\ wk \in [Workers -> WorkerState]
    BY <1>1, StepGrows DEF RunInv, ClaimInv, TypeInv, TypeOK
  <2>1. ~UNCHANGED log
    BY <1>1, <2>0, LogKept
  <2>2. ASSUME NEW e \in Record, Send(e) PROVE Newest = e
    BY <2>0, <2>2, Sent DEF Newest, TypeInv, TypeOK
  <2>3. ASSUME NEW v \in Workers, WorkerStep(v)
        PROVE  wk[w].pc = "take" /\ wk[w].w = Len(log)
    <3>1. v = w
      BY <1>1, <2>0, <2>3 DEF WorkerStep
    <3>2. PICK e \in Record : Send(e) /\ Writes(wk[w], wk'[w], e)
      BY <2>1, <2>3, <3>1 DEF WorkerStep, LogMoves
    <3>3. e.topic \in {"stopped", "nak", "bound"}
      BY <1>1, <2>2, <3>2
    <3> QED
      BY <3>2, <3>3 DEF Writes
  <2>4. ASSUME NEW v \in Workers, ClaimWon(v) PROVE FALSE
    BY <1>1, <2>2, <2>4 DEF ClaimWon
  <2>5. ASSUME NEW x \in Actors, ReportMoves(x) PROVE FALSE
    BY <1>1, <2>1, <2>2, <2>5 DEF ReportMoves, ReportGoesOn, ReportIsOver
  <2>6. ~Asked
    BY <1>1, SMTT(60) DEF Asked
  <2>7. \E v \in Workers : WorkerStep(v)
    BY <1>1, <2>1, <2>4, <2>5, <2>6 DEF Step, Probed, Gone, ReportBegins
  <2> QED
    BY <2>0, <2>3, <2>7 DEF WriterInv
<1>2. RunInv /\ [Next]_vars =>
        [\A w \in Workers :
           /\ wk'[w] # wk[w]
           /\ Len(log') > Len(log)
           /\ log'[Len(log')].topic \in {"stopped", "nak", "bound"}
           => ~Reported(log, wk[w].claim, Len(log))]_vars
  <2> SUFFICES ASSUME RunInv, [Next]_vars, NEW w \in Workers, wk'[w] # wk[w],
                      Len(log') > Len(log), Newest.topic \in {"stopped", "nak", "bound"}
               PROVE  ~Reported(log, wk[w].claim, Len(log))
    BY DEF Newest
  <2>1. Step
    BY NextStep DEF RunInv, ClaimInv
  <2> QED
    BY <1>1, <2>1
<1> QED
  BY <1>2, RunInvHolds, PTL DEF Spec, ReleasedAnswersNothing

-----------------------------------------------------------------------------
(* The claims are the register's.  A claim's end is a function of its      *)
(* endings, which are its one exit, or reports.                            *)

Ends == [c \in AllClaims |-> EndOf(c)]

LEMMA EndsHeld ==
  ASSUME NEW c, Endings(log, c, Len(log)) = {}
  PROVE  EndOf(c) = "held"
<1> DEFINE ends == Endings(log, c, Len(log))
           reports == {i \in ends : log[i].topic = "died"}
<1>1. EndOf(c) = CASE ends = {}                               -> "held"
                   [] ends # {} /\ reports = ends              -> "report"
                   [] reports = {} /\ Cardinality(ends) = 1   -> "exit"
                   [] OTHER                                   -> "conflict"
  BY DEF EndOf
<1>2. reports = {} /\ Cardinality(ends) # 1
  BY FS_EmptySet
<1> HIDE DEF reports
<1> QED
  BY <1>1, <1>2

LEMMA EndsReport ==
  ASSUME NEW c, Endings(log, c, Len(log)) # {},
         \A i \in Endings(log, c, Len(log)) : log[i].topic = "died"
  PROVE  EndOf(c) = "report"
<1> DEFINE ends == Endings(log, c, Len(log))
           reports == {i \in ends : log[i].topic = "died"}
<1>1. reports = ends /\ ends # {}
  OBVIOUS
<1>2. EndOf(c) = CASE ends = {}                               -> "held"
                   [] ends # {} /\ reports = ends              -> "report"
                   [] reports = {} /\ Cardinality(ends) = 1   -> "exit"
                   [] OTHER                                   -> "conflict"
  BY DEF EndOf
<1> HIDE DEF ends, reports
<1> QED
  BY <1>1, <1>2

LEMMA EndsExit ==
  ASSUME NEW c, NEW i, Endings(log, c, Len(log)) = {i}, log[i].topic = "stopped"
  PROVE  EndOf(c) = "exit"
<1> DEFINE ends == Endings(log, c, Len(log))
           reports == {j \in ends : log[j].topic = "died"}
<1>1. reports = {} /\ ends = {i}
  OBVIOUS
<1>2. Cardinality({i}) = 1
  BY FS_Singleton, Zenon
<1>3. EndOf(c) = CASE ends = {}                               -> "held"
                   [] ends # {} /\ reports = ends              -> "report"
                   [] reports = {} /\ Cardinality(ends) = 1   -> "exit"
                   [] OTHER                                   -> "conflict"
  BY DEF EndOf
<1>4. ends # {} /\ reports # ends /\ Cardinality(ends) = 1
  BY <1>1, <1>2
<1> HIDE DEF ends, reports
<1> QED
  BY <1>1, <1>3, <1>4

(* What a claim of the log may be: held, reported or exited. *)
LEMMA EndsOneWay ==
  ASSUME TypeInv, ExitsInv, NEW c \in Nat
  PROVE  \/ Endings(log, c, Len(log)) = {} /\ EndOf(c) = "held"
         \/ /\ \A i \in Endings(log, c, Len(log)) : log[i].topic = "died"
            /\ EndOf(c) = "report"
         \/ HasExit(log, c, Len(log)) /\ EndOf(c) = "exit"
<1> DEFINE ends == Endings(log, c, Len(log))
<1>1. \A i \in ends : /\ i \in 1..Len(log) /\ log[i].claim = c
                      /\ log[i].topic \in {"stopped", "died"}
  BY DEF Endings, TypeInv, TypeOK
<1>2. CASE ends = {}
  BY <1>2, EndsHeld
<1>3. CASE ends # {} /\ \A i \in ends : log[i].topic = "died"
  BY <1>3, EndsReport
<1>4. CASE \E i \in ends : log[i].topic # "died"
  <2> PICK i \in ends : log[i].topic = "stopped"
    BY <1>1, <1>4
  <2>1. Readable(log[i]) /\ \A j \in ends : j = i
    BY <1>1 DEF ExitsInv
  <2>2. HasExit(log, c, Len(log)) /\ ends = {i}
    BY <2>1 DEF HasExit
  <2> QED
    BY <2>2, EndsExit
<1> QED
  BY <1>2, <1>3, <1>4

(* A claim whose endings a step leaves alone ends as it did. *)
LEMMA EndKept ==
  ASSUME TypeInv, LogStep, NEW c \in Nat,
         ~(Landed /\ Newest.topic \in {"stopped", "died"} /\ Newest.claim = c)
  PROVE  EndOf(c)' = EndOf(c)
<1> DEFINE ends == Endings(log, c, Len(log))
           reports == {i \in ends : log[i].topic = "died"}
           reported == {i \in ends : log'[i].topic = "died"}
<1>1. Endings(log', c, Len(log')) = ends
  BY EndingsGrow
<1>2. \A i \in ends : log'[i] = log[i]
  BY EndingsGrow, LogKept
<1>3. reported = reports
  BY <1>2
<1>4. EndOf(c)' = CASE ends = {}                                 -> "held"
                    [] ends # {} /\ reported = ends               -> "report"
                    [] reported = {} /\ Cardinality(ends) = 1    -> "exit"
                    [] OTHER                                     -> "conflict"
  BY <1>1 DEF EndOf
<1>5. EndOf(c) = CASE ends = {}                                 -> "held"
                   [] ends # {} /\ reports = ends                -> "report"
                   [] reports = {} /\ Cardinality(ends) = 1     -> "exit"
                   [] OTHER                                     -> "conflict"
  BY DEF EndOf
<1> QED
  BY <1>3, <1>4, <1>5

LEMMA ClaimsSame ==
  ASSUME TypeInv, LogStep, Landed => Newest.topic # "started"
  PROVE  AllClaims' = AllClaims /\ AllClaims \subseteq Nat
<1>1. AllClaims \subseteq AllClaims' /\ \A c \in AllClaims' : c \in AllClaims
  BY ClaimsGrow
<1>2. \A c \in AllClaims : c \in Nat
  BY DEF AllClaims, Claims
<1> QED
  BY <1>1, <1>2

(* No claim's worker or reporter moves: the register stays. *)
LEMMA EndsKept ==
  ASSUME TypeInv, LogStep, Landed => Newest.topic \notin {"started", "stopped", "died"}
  PROVE  Ends' = Ends
<1>1. AllClaims' = AllClaims /\ AllClaims \subseteq Nat
  BY ClaimsSame
<1>2. \A c \in AllClaims : EndOf(c)' = EndOf(c)
  BY <1>1, EndKept
<1> QED
  BY <1>1, <1>2 DEF Ends

(* A claim won is made of a register that holds none. *)
LEMMA WonClaims ==
  ASSUME RunInv, NEW w \in Workers, ClaimWon(w), NEW n \in Nat, n = Len(log) + 1
  PROVE  Register!Claim(n) /\ n \in AllClaims' \ AllClaims
<1>1. TypeInv /\ ExitsInv /\ ClaimsExclusive /\ log \in Seq(Record)
  BY DEF RunInv, ClaimInv, TypeInv, TypeOK
<1>2. FreeAt(log, Len(log))
  BY DEF RunInv, ClaimInv, FreeAtCas, ClaimWon
<1>3. PICK e \in Record : e.topic = "started" /\ Send(e)
  BY DEF ClaimWon
<1>4. LogStep /\ Landed /\ Newest.topic = "started" /\ Len(log) \in Nat /\ Len(log') = n
  BY <1>1, <1>3, Sent DEF LogStep, Landed, Newest
<1>5. AllClaims \subseteq Nat /\ \A c \in AllClaims : c < n
  BY <1>1, <1>4, ClaimsGrow
<1>6. AllClaims' = AllClaims \cup {n}
  <2>1. n \in AllClaims'
    BY <1>4 DEF AllClaims, Claims, Newest
  <2> QED
    BY <1>1, <1>4, <2>1, ClaimsGrow
<1>7. \A c \in AllClaims : EndOf(c)' = EndOf(c)
  BY <1>1, <1>4, <1>5, EndKept
<1>8. \A c \in AllClaims : EndOf(c) # "held"
  <2>1. \A c \in AllClaims : Endings(log, c, Len(log)) # {}
    BY <1>1, <1>2, AllEnded DEF AllClaims
  <2> QED
    BY <1>1, <1>5, <2>1, EndsOneWay
<1>9. EndOf(n)' = "held"
  <2>1. Endings(log, n, Len(log)) = {}
    BY <1>4 DEF Endings
  <2>2. EndOf(n) = "held"
    BY <2>1, EndsHeld
  <2> QED
    BY <1>1, <1>4, <2>2, EndKept
<1>10. n \notin AllClaims
  BY <1>4, <1>5
<1>11. Register!Held = {}
  BY <1>8 DEF Register!Held
<1>12. \A d \in AllClaims : d < n
  BY <1>5
<1>13. [c \in AllClaims |-> EndOf(c)]' =
         [d \in AllClaims \cup {n} |-> IF d = n THEN "held" ELSE [c \in AllClaims |-> EndOf(c)][d]]
  BY <1>6, <1>7, <1>9, <1>10
<1>14. Register!Claim(n)
  BY <1>11, <1>12, <1>13 DEF Register!Claim
<1> QED
  BY <1>6, <1>10, <1>14

(* A claim ends in the one way of its new ending. *)
LEMMA EndsNow ==
  ASSUME TypeInv, LogStep, NEW c \in AllClaims, NEW how, EndOf(c) = "held",
         EndOf(c)' = how,
         Landed => Newest.topic # "started" /\
                   (Newest.topic \in {"stopped", "died"} => Newest.claim = c)
  PROVE  Register!End(c, how)
<1>1. AllClaims' = AllClaims /\ AllClaims \subseteq Nat
  BY ClaimsSame
<1>2. \A d \in AllClaims : d # c => EndOf(d)' = EndOf(d)
  BY <1>1, EndKept
<1>3. [d \in AllClaims |-> EndOf(d)]' = [[d \in AllClaims |-> EndOf(d)] EXCEPT ![c] = how]
  BY <1>1, <1>2
<1> QED
  BY <1>3 DEF Register!End, Register!Held

(* A worker's exit ends its claim, which was held. *)
LEMMA ExitEnds ==
  ASSUME RunInv, ExitsInv', NEW w \in Workers, WorkerStep(w)
  PROVE  Ends' = Ends \/ \E c \in AllClaims : Register!End(c, "exit")
<1>1. TypeInv /\ WriterInv /\ ExitsInv /\ LogMoves(wk[w], wk'[w]) /\ ControlMoves(wk[w], wk'[w])
  BY DEF RunInv, ClaimInv, WorkerStep
<1>2. LogStep
  BY <1>1 DEF LogMoves, LogStep
<1>3. CASE ~Landed
  BY <1>1, <1>2, <1>3, EndsKept
<1>4. ASSUME NEW e \in Record, Send(e), Writes(wk[w], wk'[w], e)
      PROVE  Ends' = Ends \/ \E c \in AllClaims : Register!End(c, "exit")
  <2>1. Newest = e
    BY <1>1, <1>4, Sent DEF Newest, TypeInv, TypeOK
  <2>2. CASE e.topic # "stopped"
    <3>1. e.topic \notin {"started", "stopped", "died"}
      BY <1>4, <2>2 DEF Writes
    <3> QED
      BY <1>1, <1>2, <2>1, <3>1, EndsKept
  <2>3. ASSUME e.topic = "stopped", NEW c \in Nat, c = wk[w].claim
        PROVE  \E d \in AllClaims : Register!End(d, "exit")
    <3>1. /\ e.claim = c /\ wk[w].pc = "take" /\ wk[w].w = Len(log) /\ ~Done(wk[w])
          /\ c \in AllClaims
      BY <1>1, <1>4, <2>3 DEF Writes, ControlMoves, WriterInv, WorkPcs
    <3>2. ~Reported(log, c, Len(log))
      BY <1>1, <2>3, <3>1 DEF WriterInv
    <3>3. Endings(log, c, Len(log)) = {}
      BY <1>1, <2>3, <3>1, <3>2, NoExitYet DEF Reported
    <3>4. Landed /\ Len(log') \in 1..Len(log') /\ log'[Len(log')] = e /\ c <= Len(log)
      BY <1>1, <1>2, <1>4, <3>1, Sent, LogKept, ClaimsGrow DEF Landed, TypeInv, TypeOK
    <3>5. Endings(log', c, Len(log')) = {Len(log')}
      <4>1. Len(log') \in Endings(log', c, Len(log'))
        BY <2>3, <3>1, <3>4, <1>2, <1>1, LogKept DEF Endings, Landed
      <4> QED
        BY <1>1, <1>2, <3>3, <4>1, EndingsGrow
    <3>6. EndOf(c)' = "exit"
      <4> DEFINE ends == {Len(log')}
                 reports == {i \in ends : log'[i].topic = "died"}
      <4>1. EndOf(c)' = CASE ends = {}                               -> "held"
                          [] ends # {} /\ reports = ends              -> "report"
                          [] reports = {} /\ Cardinality(ends) = 1   -> "exit"
                          [] OTHER                                   -> "conflict"
        BY <3>5 DEF EndOf
      <4>2. reports = {} /\ ends # {}
        BY <2>3, <3>4
      <4>3. Cardinality(ends) = 1
        BY FS_Singleton, Zenon
      <4> HIDE DEF ends, reports
      <4> QED
        BY <4>1, <4>2, <4>3
    <3>7. EndOf(c) = "held"
      BY <3>3, EndsHeld
    <3>8. Register!End(c, "exit")
      BY <1>1, <1>2, <2>1, <2>3, <3>1, <3>6, <3>7, EndsNow
    <3> QED
      BY <3>1, <3>8
  <2> QED
    BY <1>1, <2>2, <2>3, StateOf
<1> QED
  BY <1>1, <1>3, <1>4 DEF LogMoves, Landed

(* A report ends a claim that is held, or adds a cause to one reported. *)
LEMMA ReportEndsClaim ==
  ASSUME RunInv, NEW x \in Actors, ReportMoves(x)
  PROVE  Ends' = Ends \/ \E c \in AllClaims : Register!End(c, "report")
<1>1. TypeInv /\ ReportsInv /\ ExitsInv
  BY DEF RunInv, ClaimInv
<1>2. LogStep
  BY DEF ReportMoves, ReportGoesOn, ReportIsOver, LogStep
<1>3. CASE ~Landed
  BY <1>1, <1>2, <1>3, EndsKept
<1>4. ASSUME Landed, NEW c \in AllClaims, c = rep[x].claim
      PROVE  Ends' = Ends \/ \E d \in AllClaims : Register!End(d, "report")
  <2>1. PICK e \in Record : /\ e.topic = "died" /\ e.claim = c /\ Send(e)
                            /\ rep[x].pc = "cas" /\ rep[x].w = Len(log)
    BY <1>2, <1>1, <1>4, LogKept DEF ReportMoves, ReportGoesOn, ReportIsOver, Landed
  <2>2. Newest = e /\ c \in Nat /\ c <= Len(log)
    BY <1>1, <1>2, <2>1, Sent, ClaimsGrow DEF Newest, TypeInv, TypeOK
  <2>3. ~HasExit(log, c, Len(log))
    BY <1>1, <1>4, <2>1 DEF ReportsInv, NothingToReport
  <2>4. \A i \in Endings(log, c, Len(log)) : log[i].topic = "died"
    <3>1. \A i \in Endings(log, c, Len(log)) :
            i \in 1..Len(log) /\ log[i].topic \in {"stopped", "died"}
      BY <1>1, <1>2, <2>2, LogKept DEF Endings
    <3> QED
      BY <1>1, <2>3, <3>1 DEF HasExit, ExitsInv
  <2>5. EndOf(c)' = "report"
    <3> DEFINE ends == Endings(log', c, Len(log'))
               reports == {i \in ends : log'[i].topic = "died"}
    <3>1. Len(log') \in ends
      BY <1>1, <1>2, <1>4, <2>1, <2>2, LogKept DEF Endings, Landed, Newest
    <3>2. \A i \in ends : log'[i].topic = "died"
      BY <1>1, <1>2, <2>1, <2>2, <2>4, EndingsGrow, LogKept DEF Newest
    <3>3. EndOf(c)' = CASE ends = {}                               -> "held"
                        [] ends # {} /\ reports = ends              -> "report"
                        [] reports = {} /\ Cardinality(ends) = 1   -> "exit"
                        [] OTHER                                   -> "conflict"
      BY DEF EndOf
    <3>4. reports = ends /\ ends # {}
      BY <3>1, <3>2
    <3> HIDE DEF ends, reports
    <3> QED
      BY <3>3, <3>4
  <2>6. Newest.topic # "started" /\ (Newest.topic \in {"stopped", "died"} => Newest.claim = c)
    BY <2>1, <2>2
  <2>7. CASE EndOf(c) = "held"
    <3>1. Register!End(c, "report")
      BY <1>1, <1>2, <2>5, <2>6, <2>7, EndsNow
    <3> QED
      BY <3>1
  <2>8. CASE EndOf(c) = "report"
    <3>1. AllClaims' = AllClaims /\ AllClaims \subseteq Nat
      BY <1>1, <1>2, <2>6, ClaimsSame
    <3>2. \A d \in AllClaims : EndOf(d)' = EndOf(d)
      BY <1>1, <1>2, <2>1, <2>2, <2>5, <2>8, <3>1, EndKept, SMTT(60)
    <3> QED
      BY <3>1, <3>2 DEF Ends
  <2> QED
    BY <1>1, <2>2, <2>3, <2>7, <2>8, EndsOneWay
<1> QED
  BY <1>1, <1>3, <1>4 DEF ReportsInv, ReportMoves

LEMMA StepImplements ==
  ASSUME RunInv, ExitsInv', Step
  PROVE  Register!Next \/ Ends' = Ends
<1>0. TypeInv /\ LogStep /\ log \in Seq(Record) /\ Len(log) \in Nat
  BY StepGrows DEF RunInv, ClaimInv, TypeInv, TypeOK
<1>1. CASE \E c \in AllClaims, how \in {"exit", "report"} : Register!End(c, how)
  BY <1>1 DEF Register!Next
<1>2. ASSUME NEW w \in Workers, ClaimWon(w), NEW n \in Nat, n = Len(log) + 1
      PROVE  Register!Next
  <2>1. Register!Claim(n) /\ n \in AllClaims' \ AllClaims
    BY <1>2, WonClaims
  <2> QED
    BY <2>1 DEF Register!Next
<1>3. ASSUME NEW w \in Workers, WorkerStep(w) PROVE Register!Next \/ Ends' = Ends
  BY <1>1, <1>3, ExitEnds
<1>4. ASSUME NEW x \in Actors, ReportMoves(x) PROVE Register!Next \/ Ends' = Ends
  BY <1>1, <1>4, ReportEndsClaim
<1>5. CASE Asked
  <2>1. Landed => Newest.topic \in ControlTopics
    BY <1>0, <1>5, Sent DEF Asked, IsControl, Landed, Newest
  <2>2. Landed => Newest.topic \notin {"started", "stopped", "died"}
    BY <2>1 DEF ControlTopics
  <2> QED
    BY <1>0, <2>2, EndsKept
<1>6. CASE UNCHANGED log
  BY <1>0, <1>6, EndsKept DEF Landed
<1>7. Len(log) + 1 \in Nat
  BY <1>0
<1> QED
  BY <1>2, <1>3, <1>4, <1>5, <1>6, <1>7 DEF Step, Probed, Gone, ReportBegins

(* The protocol implements the register: whatever is read between a        *)
(* decision and its write, a claim is won only of a run that holds none,   *)
(* and each claim ends once, by its exit or by reports, and stays ended.   *)
(* No lock is held anywhere: the proof rests on the compare-and-append of  *)
(* claims, exits and reports at the tail up to which each looked.          *)
THEOREM RegisterImplemented == Spec => ImplementsRegister
<1>1. Init => Register!Init
  <2> SUFFICES ASSUME Init PROVE [c \in AllClaims |-> EndOf(c)] = [c \in {} |-> "held"]
    BY DEF Register!Init
  <2>1. AllClaims = {}
    BY DEF Init, AllClaims, Claims
  <2> QED
    BY <2>1
<1>2. RunInv /\ RunInv' /\ [Next]_vars => [Register!Next]_([c \in AllClaims |-> EndOf(c)])
  <2> SUFFICES ASSUME RunInv, RunInv', [Next]_vars
               PROVE  Register!Next \/ Ends' = Ends
    BY DEF Ends
  <2>1. Step
    BY NextStep DEF RunInv, ClaimInv
  <2>2. ExitsInv'
    BY DEF RunInv
  <2> QED
    BY <2>1, <2>2, StepImplements
<1> QED
  BY <1>1, <1>2, RunInvHolds, PTL DEF Spec, ImplementsRegister, Register!Spec

-----------------------------------------------------------------------------
(* Positions.  When no worker rewinds, a worker's position above its claim *)
(* is a node of its own claim.                                             *)

OwnPositions ==
  \A w \in Workers :
    wk[w].claim # 0 /\ wk[w].node > wk[w].claim => log[wk[w].node].claim = wk[w].claim

LEMMA OwnKept ==
  ASSUME TypeInv, NodesInv, LogStep, OwnPositions, NEW w \in Workers,
         wk'[w].node = wk[w].node, wk'[w].claim = wk[w].claim
  PROVE  wk'[w].claim # 0 /\ wk'[w].node > wk'[w].claim
           => log'[wk'[w].node].claim = wk'[w].claim
<1>1. wk[w].node \in 0..Len(log) /\ wk[w].claim \in Nat /\ Len(log) \in Nat
  BY NodesGrow, StateOf DEF NodesInv
<1>2. wk[w].node > wk[w].claim => log'[wk[w].node] = log[wk[w].node]
  BY <1>1, LogKept
<1> QED
  BY <1>2 DEF OwnPositions

LEMMA StepKeepsOwn ==
  ASSUME "rewind" \notin Calls, TypeInv, WriterInv, NodesInv, OwnPositions, Step
  PROVE  OwnPositions'
<1>0. LogStep /\ wk \in [Workers -> WorkerState] /\ Len(log) \in Nat
  BY StepGrows, LogKept DEF TypeInv, TypeOK
<1>1. ASSUME NEW w \in Workers, wk' = [wk EXCEPT ![w] = wk'[w]],
             wk'[w].claim # 0 /\ wk'[w].node > wk'[w].claim
               => log'[wk'[w].node].claim = wk'[w].claim
      PROVE  OwnPositions'
  <2>1. \A u \in Workers : u # w => wk'[u] = wk[u]
    BY <1>0, <1>1
  <2> QED
    BY <1>0, <1>1, <2>1, OwnKept DEF OwnPositions
<1>2. ASSUME NEW w \in Workers, WorkerStep(w) PROVE OwnPositions'
  <2>1. /\ wk' = [wk EXCEPT ![w] = wk'[w]] /\ LogMoves(wk[w], wk'[w])
        /\ wk[w].up /\ wk'[w].claim = wk[w].claim
    BY <1>2 DEF WorkerStep, ControlMoves
  <2>2. CASE wk'[w].node = wk[w].node
    BY <1>0, <1>1, <2>1, <2>2, OwnKept
  <2>3. CASE wk[w].phase = "new" \/ wk[w].pc = "claim"
    <3>1. wk[w].claim = 0
      BY <2>1, <2>3 DEF WriterInv, ClaimPcs
    <3> QED
      BY <1>1, <2>1, <3>1
  <2>4. ASSUME NEW e \in Record, Send(e), e.topic = "commit", e.claim = wk[w].claim,
               wk'[w].node = Len(log) + 1
        PROVE  OwnPositions'
    <3>1. log'[Len(log) + 1] = e
      BY <2>4, Sent DEF TypeInv, TypeOK
    <3> QED
      BY <1>1, <2>1, <2>4, <3>1
  <2> QED
    BY <2>1, <2>2, <2>3, <2>4 DEF LogMoves, Writes
<1>3. ASSUME NEW w \in Workers, ClaimWon(w) \/ Gone(w) PROVE OwnPositions'
  <2>1. /\ wk' = [wk EXCEPT ![w] = wk'[w]]
        /\ \/ wk'[w].claim = Len(log) + 1 /\ wk'[w].node = wk[w].node
           \/ wk'[w].claim = wk[w].claim /\ wk'[w].node = 0
    BY <1>3 DEF ClaimWon, Gone
  <2>2. wk[w].node \in 0..Len(log) /\ wk[w].claim \in Nat
    BY <1>0, NodesGrow, StateOf DEF NodesInv
  <2>3. ~(wk'[w].node > wk'[w].claim)
    BY <1>0, <2>1, <2>2
  <2> QED
    BY <1>1, <2>1, <2>3
<1>4. ASSUME NEW x \in Actors, ReportMoves(x) PROVE OwnPositions'
  <2>1. CASE UNCHANGED wk
    BY <1>0, <2>1, OwnKept DEF OwnPositions
  <2>2. CASE x \in Workers /\ wk' = [wk EXCEPT ![x] = wk'[x]] /\ Claimant(wk[x], wk'[x])
    BY <1>0, <1>1, <2>2, OwnKept DEF Claimant, Frame
  <2> QED
    BY <1>4, <2>1, <2>2 DEF ReportMoves, ReportGoesOn, ReportIsOver
<1>5. CASE UNCHANGED wk
  BY <1>0, <1>5, OwnKept DEF OwnPositions
<1> QED
  BY <1>2, <1>3, <1>4, <1>5 DEF Step, Probed, ReportBegins, Asked

(* A node is written by a worker that stands at its parent. *)
LEMMA NewNode ==
  ASSUME TypeInv, Step, Landed, IsNode(Newest)
  PROVE  \E w \in Workers :
           /\ WorkerStep(w)
           /\ Newest.ref = wk[w].node /\ Newest.claim = wk[w].claim
           /\ Readable(Newest) /\ Newest.values = wk[w].under.values
           /\ wk[w].pc \in {"send", "take"}
<1>1. ~UNCHANGED log /\ \A e \in Record : Send(e) => Newest = e
  BY Sent DEF Landed, Newest, TypeInv, TypeOK
<1>2. ASSUME NEW w \in Workers, ClaimWon(w) PROVE FALSE
  BY <1>1, <1>2 DEF ClaimWon, IsNode
<1>3. ASSUME NEW x \in Actors, ReportMoves(x) PROVE FALSE
  BY <1>1, <1>3 DEF ReportMoves, ReportGoesOn, ReportIsOver, IsNode
<1>4. ~Asked
  BY <1>1, SMTT(60) DEF Asked, IsNode, IsControl, ControlTopics
<1>5. PICK w \in Workers : WorkerStep(w)
  BY <1>1, <1>2, <1>3, <1>4 DEF Step, Probed, Gone, ReportBegins
<1>6. PICK e \in Record : Send(e) /\ Writes(wk[w], wk'[w], e)
  BY <1>1, <1>5 DEF WorkerStep, LogMoves
<1>7. Newest = e
  BY <1>1, <1>6
<1>8. /\ e.topic \in {"commit", "stopped"}
  BY <1>7 DEF IsNode
<1>9. /\ e.ref = wk[w].node /\ e.claim = wk[w].claim /\ wk[w].pc \in {"send", "take"}
      /\ Readable(e) /\ e.values = wk[w].under.values
  BY <1>6, <1>8 DEF Writes
<1> QED
  BY <1>5, <1>7, <1>9

(* A node's parent is below it. *)
ParentsBelow == \A n \in Nodes : log[n].ref \in 0..(n - 1)

LEMMA StepKeepsParents ==
  ASSUME TypeInv, NodesInv, ParentsBelow, Step
  PROVE  ParentsBelow'
<1>0. LogStep /\ Len(log) \in Nat
  BY StepGrows, LogKept
<1> SUFFICES ASSUME NEW n \in Nodes' PROVE log'[n].ref \in 0..(n - 1)
  BY DEF ParentsBelow
<1>1. CASE n \in 1..Len(log)
  <2>1. log'[n] = log[n] /\ n \in Nodes
    BY <1>0, <1>1, LogKept DEF Nodes
  <2> QED
    BY <2>1 DEF ParentsBelow
<1>2. CASE n \notin 1..Len(log)
  <2>1. Landed /\ n = Len(log) + 1 /\ Newest = log'[n] /\ IsNode(Newest)
    BY <1>0, <1>2, LogKept DEF Nodes, Landed, Newest
  <2>2. PICK w \in Workers : Newest.ref = wk[w].node
    BY <2>1, NewNode
  <2>3. wk[w].node \in 0..Len(log)
    BY <1>0, NodesGrow DEF NodesInv
  <2> QED
    BY <1>0, <2>1, <2>2, <2>3
<1> QED
  BY <1>1, <1>2

(* The late commit of a displaced worker stays off its successor's         *)
(* lineage, whatever each claim resumed from, as long as no driver rewinds *)
(* by hand: above its claim, a node extends only its own claim's nodes.    *)
THEOREM ParentsAreOwn ==
  ASSUME "rewind" \notin Calls
  PROVE  Spec => []NoForeignParent
<1> DEFINE Inv == RunInv /\ OwnPositions /\ ParentsBelow /\ NoForeignParent
<1>1. Init => Inv
  <2> SUFFICES ASSUME Init PROVE OwnPositions /\ ParentsBelow /\ NoForeignParent
    BY InitRunInv
  <2>1. Len(log) = 0 /\ \A w \in Workers : wk[w].claim = 0
    BY DEF Init, NewWorker
  <2> QED
    BY <2>1 DEF OwnPositions, ParentsBelow, NoForeignParent, Nodes
<1>2. Inv /\ [Next]_vars => Inv'
  <2> SUFFICES ASSUME Inv, [Next]_vars PROVE Inv'
    OBVIOUS
  <2>1. TypeInv /\ WriterInv /\ NodesInv
    BY DEF RunInv, ClaimInv
  <2>2. Step
    BY <2>1, NextStep
  <2>3. LogStep /\ RunInv' /\ OwnPositions' /\ ParentsBelow' /\ Len(log) \in Nat
    BY <2>1, <2>2, StepGrows, NextRunInv, StepKeepsOwn, StepKeepsParents, LogKept
  <2>4. ASSUME NEW n \in Nodes', log'[n].ref # 0, log'[n].ref > log'[n].claim
        PROVE  log'[log'[n].ref].claim = log'[n].claim
    <3>1. n \in 1..Len(log') /\ IsNode(log'[n])
      BY DEF Nodes
    <3>2. CASE n \in 1..Len(log)
      <4>1. log'[n] = log[n] /\ n \in Nodes
        BY <2>1, <2>3, <3>1, <3>2, LogKept DEF Nodes
      <4>2. log[log[n].ref].claim = log[n].claim /\ log[n].ref \in 0..(n - 1)
        BY <2>4, <4>1 DEF NoForeignParent, ParentsBelow
      <4>3. log[n].ref \in 1..Len(log)
        BY <2>3, <2>4, <3>2, <4>1, <4>2
      <4> QED
        BY <2>1, <2>3, <4>1, <4>2, <4>3, LogKept
    <3>3. CASE n \notin 1..Len(log)
      <4>1. Landed /\ n = Len(log) + 1 /\ Newest = log'[n]
        BY <2>1, <2>3, <3>1, <3>3, LogKept DEF Landed, Newest
      <4>2. PICK w \in Workers : /\ Newest.ref = wk[w].node /\ Newest.claim = wk[w].claim
                                 /\ wk[w].pc \in {"send", "take"}
        BY <2>1, <2>2, <3>1, <4>1, NewNode
      <4>3. wk[w].claim # 0 /\ wk[w].node \in 0..Len(log)
        BY <2>1, <4>2, NodesGrow, <2>3 DEF WriterInv, NodesInv, WorkPcs
      <4>4. log[wk[w].node].claim = wk[w].claim
        BY <2>4, <4>1, <4>2, <4>3 DEF OwnPositions
      <4>5. wk[w].node \in 1..Len(log)
        BY <2>3, <2>4, <4>1, <4>2, <4>3
      <4> QED
        BY <2>1, <2>3, <4>1, <4>2, <4>4, <4>5, LogKept
    <3> QED
      BY <3>2, <3>3
  <2> QED
    BY <2>3, <2>4 DEF NoForeignParent
<1>3. Inv => NoForeignParent
  OBVIOUS
<1> HIDE DEF Inv
<1> QED
  BY <1>1, <1>2, <1>3, PTL DEF Spec

-----------------------------------------------------------------------------
(* The heads.  A worker's position is the one its claim's records leave,   *)
(* as long as no commit lands whose writer does not learn of it.           *)

PositionsHeld ==
  \A w \in Workers :
    wk[w].up /\ wk[w].claim # 0
      => IsPosition(log, wk[w].claim, Len(log) + 1, wk[w].node)

Moving(e, c) == e.topic \in {"commit", "rewind"} /\ e.claim = c

LEMMA PositionSame ==
  ASSUME TypeInv, LogStep, NEW c \in 1..Len(log), NEW i \in 0..(Len(log) + 1), NEW p,
         IsPosition(log, c, i, p)
  PROVE  IsPosition(log', c, i, p)
<1>1. Len(log) \in Nat /\ \A j \in Positions(log, c, i) : j \in 1..Len(log)
  BY LogKept DEF Positions
<1>2. Positions(log', c, i) = Positions(log, c, i)
  <2>1. \A j \in (c + 1)..(i - 1) : j \in 1..Len(log)
    BY <1>1
  <2> QED
    BY <2>1, LogKept DEF Positions
<1> QED
  BY <1>1, <1>2, LogKept DEF IsPosition

LEMMA PositionStays ==
  ASSUME TypeInv, LogStep, NEW c \in 1..Len(log), NEW p,
         IsPosition(log, c, Len(log) + 1, p), ~(Landed /\ Moving(Newest, c))
  PROVE  IsPosition(log', c, Len(log') + 1, p)
<1> DEFINE i == Len(log) + 1
           k == Len(log') + 1
<1>0. Len(log) \in Nat /\ Len(log') \in Nat /\ i \in 0..(Len(log) + 1)
  BY LogKept
<1>1. IsPosition(log', c, i, p)
  BY <1>0, PositionSame
<1>2. Positions(log', c, k) = Positions(log', c, i)
  <2>1. CASE UNCHANGED log
    BY <2>1
  <2>2. CASE Landed
    <3>1. \A j \in Positions(log', c, k) : j \in Positions(log', c, i)
      BY <1>0, <2>2 DEF Positions, Moving, Newest, Landed
    <3>2. \A j \in Positions(log', c, i) : j \in Positions(log', c, k)
      BY <1>0, <2>2 DEF Positions, Landed
    <3> QED
      BY <3>1, <3>2
  <2> QED
    BY <2>1, <2>2, LogKept
<1> QED
  BY <1>1, <1>2 DEF IsPosition

LEMMA PositionMoves ==
  ASSUME TypeInv, LogStep, NEW c \in 1..Len(log), Landed, Moving(Newest, c)
  PROVE  IsPosition(log', c, Len(log') + 1,
                    IF Newest.topic = "commit" THEN Len(log') ELSE Newest.ref)
<1> DEFINE n == Len(log')
<1>1. n \in Nat /\ n = Len(log) + 1 /\ Len(log) \in Nat
  BY LogKept DEF Landed
<1>2. n \in Positions(log', c, n + 1)
  BY <1>1 DEF Positions, Moving, Newest
<1>3. \A k \in Positions(log', c, n + 1) : k <= n
  BY <1>1 DEF Positions
<1>4. Newest = log'[n]
  BY DEF Newest
<1> HIDE DEF n
<1>5. IsPosition(log', c, n + 1, IF Newest.topic = "commit" THEN n ELSE Newest.ref)
  BY <1>2, <1>3, <1>4 DEF IsPosition
<1> QED
  BY <1>5 DEF n

(* What a worker writes, it writes at its position. *)
LEMMA WorkerKeepsPosition ==
  ASSUME "ack" \notin Faults, TypeInv, WriterInv, PositionsHeld,
         NEW w \in Workers, WorkerStep(w), wk'[w].claim # 0
  PROVE  IsPosition(log', wk'[w].claim, Len(log') + 1, wk'[w].node)
<1> DEFINE v == wk[w]
           t == wk'[w]
<1>1. /\ LogMoves(v, t) /\ v.up /\ t.claim = v.claim
      /\ LogStep /\ Len(log) \in Nat
  BY LogKept DEF WorkerStep, ControlMoves, LogMoves, LogStep
<1>2. /\ v.claim \in 1..Len(log) /\ v.claim # 0
      /\ IsPosition(log, v.claim, Len(log) + 1, v.node)
  BY <1>1, ClaimsGrow DEF WriterInv, PositionsHeld
<1>3. CASE UNCHANGED log
  <2>1. t.node = v.node
    BY <1>1, <1>2, <1>3, Sent DEF LogMoves, WriterInv, ClaimPcs, TypeInv, TypeOK
  <2> QED
    BY <1>1, <1>2, <1>3, <2>1
<1>4. ASSUME NEW e \in Record, Send(e), Writes(v, t, e)
      PROVE  IsPosition(log', t.claim, Len(log') + 1, t.node)
  <2>1. Landed /\ Newest = e
    BY <1>4, Sent DEF Landed, Newest, TypeInv, TypeOK
  <2>2. CASE Moving(e, v.claim)
    <3>1. t.node = (IF e.topic = "commit" THEN Len(log') ELSE e.ref)
      BY <1>4, <2>1, <2>2 DEF Writes, Moving, Landed
    <3>2. IsPosition(log', v.claim, Len(log') + 1,
                     IF e.topic = "commit" THEN Len(log') ELSE e.ref)
      BY <1>1, <1>2, <2>1, <2>2, PositionMoves
    <3> QED
      BY <1>1, <3>1, <3>2
  <2>3. CASE ~Moving(e, v.claim)
    <3>1. t.node = v.node
      BY <1>4, <2>3 DEF Writes, Moving
    <3> QED
      BY <1>1, <1>2, <2>1, <2>3, <3>1, PositionStays
  <2> QED
    BY <2>2, <2>3
<1> QED
  BY <1>1, <1>3, <1>4 DEF LogMoves

(* Whoever writes a record of claim c that moves a position or exits. *)
LEMMA NewOwned ==
  ASSUME TypeInv, Step, Landed, NEW c, OwnedBy(Newest, c)
  PROVE  \E w \in Workers :
           /\ WorkerStep(w) /\ wk[w].claim = c
           /\ Readable(Newest)
           /\ Newest.topic = "rewind" => Newest.ref \in Resumable
           /\ Newest.topic # "rewind" => Newest.ref = wk[w].node
<1>0. Newest.topic \in {"commit", "rewind", "stopped"} /\ Newest.claim = c
  BY DEF OwnedBy
<1>1. ~UNCHANGED log /\ \A e \in Record : Send(e) => Newest = e
  BY Sent DEF Landed, Newest, TypeInv, TypeOK
<1>2. ASSUME NEW w \in Workers, ClaimWon(w) PROVE FALSE
  BY <1>0, <1>1, <1>2 DEF ClaimWon
<1>3. ASSUME NEW x \in Actors, ReportMoves(x) PROVE FALSE
  BY <1>0, <1>1, <1>3 DEF ReportMoves, ReportGoesOn, ReportIsOver
<1>4. ~Asked
  BY <1>0, <1>1, SMTT(60) DEF Asked, IsControl, ControlTopics
<1>5. PICK w \in Workers : WorkerStep(w)
  BY <1>1, <1>2, <1>3, <1>4 DEF Step, Probed, Gone, ReportBegins
<1>6. PICK e \in Record : Send(e) /\ Writes(wk[w], wk'[w], e)
  BY <1>1, <1>5 DEF WorkerStep, LogMoves
<1>7. Newest = e
  BY <1>1, <1>6, SMTT(60)
<1> QED
  BY <1>0, <1>5, <1>6, <1>7 DEF Writes

LEMMA NewClaim ==
  ASSUME TypeInv, Step, Landed, Newest.topic = "started"
  PROVE  \E w \in Workers : ClaimWon(w)
<1>1. ~UNCHANGED log /\ \A e \in Record : Send(e) => Newest = e
  BY Sent DEF Landed, Newest, TypeInv, TypeOK
<1>2. ASSUME NEW w \in Workers, WorkerStep(w) PROVE FALSE
  BY <1>1, <1>2 DEF WorkerStep, LogMoves, Writes
<1>3. ASSUME NEW x \in Actors, ReportMoves(x) PROVE FALSE
  BY <1>1, <1>3 DEF ReportMoves, ReportGoesOn, ReportIsOver
<1>4. ~Asked
  BY <1>1 DEF Asked, IsControl, ControlTopics
<1> QED
  BY <1>1, <1>2, <1>3, <1>4 DEF Step, Probed, Gone, ReportBegins

LEMMA StepKeepsPositions ==
  ASSUME "ack" \notin Faults, TypeInv, WriterInv, ReportsInv, PositionsHeld, Step
  PROVE  PositionsHeld'
<1>0. LogStep /\ wk \in [Workers -> WorkerState] /\ Len(log) \in Nat
  BY StepGrows, LogKept DEF TypeInv, TypeOK
<1> SUFFICES ASSUME NEW u \in Workers, wk'[u].up, wk'[u].claim # 0
             PROVE  IsPosition(log', wk'[u].claim, Len(log') + 1, wk'[u].node)
  BY DEF PositionsHeld
<1>1. CASE WorkerStep(u)
  BY <1>1, WorkerKeepsPosition
<1>2. ASSUME wk[u].up, wk'[u].claim = wk[u].claim, wk'[u].node = wk[u].node, ~WorkerStep(u)
      PROVE  IsPosition(log', wk'[u].claim, Len(log') + 1, wk'[u].node)
  <2>1. wk[u].claim \in 1..Len(log) /\ IsPosition(log, wk[u].claim, Len(log) + 1, wk[u].node)
    BY <1>0, <1>2, ClaimsGrow DEF WriterInv, PositionsHeld
  <2>2. ~(Landed /\ Moving(Newest, wk[u].claim))
    <3> SUFFICES ASSUME Landed, Moving(Newest, wk[u].claim) PROVE FALSE
      OBVIOUS
    <3>1. OwnedBy(Newest, wk[u].claim)
      BY DEF Moving, OwnedBy
    <3>2. PICK w \in Workers : WorkerStep(w) /\ wk[w].claim = wk[u].claim
      BY <3>1, NewOwned
    <3> QED
      BY <1>2, <2>1, <3>2 DEF WriterInv
  <2> QED
    BY <1>0, <1>2, <2>1, <2>2, PositionStays
<1>3. ASSUME NEW w \in Workers, WorkerStep(w), w # u
      PROVE  wk'[u] = wk[u]
  BY <1>0, <1>3 DEF WorkerStep
<1>4. ASSUME ClaimWon(u)
      PROVE  IsPosition(log', wk'[u].claim, Len(log') + 1, wk'[u].node)
  <2> DEFINE c == Len(log')
  <2>1. PICK e \in Record : e.topic = "started" /\ e.ref = wk[u].node /\ Send(e)
    BY <1>4 DEF ClaimWon
  <2>2. /\ c = Len(log) + 1 /\ c \in Nat /\ log'[c] = e
        /\ wk'[u].claim = c /\ wk'[u].node = wk[u].node
    BY <1>0, <1>4, <2>1, Sent DEF ClaimWon, TypeInv, TypeOK
  <2> HIDE DEF c
  <2>3. Positions(log', c, c + 1) = {c}
    BY <2>2 DEF Positions
  <2>4. IsPosition(log', c, c + 1, log'[c].ref)
    BY <2>1, <2>2, <2>3 DEF IsPosition
  <2> QED
    BY <2>1, <2>2, <2>4 DEF c
<1>5. ASSUME NEW w \in Workers, ClaimWon(w) \/ Gone(w), w # u
      PROVE  wk'[u] = wk[u]
  BY <1>0, <1>5 DEF ClaimWon, Gone
<1>6. ~Gone(u)
  BY DEF Gone
<1>7. ASSUME NEW x \in Actors, ReportMoves(x)
      PROVE  wk[u].up /\ wk'[u].claim = wk[u].claim /\ wk'[u].node = wk[u].node
  BY <1>0, <1>7 DEF ReportMoves, ReportGoesOn, ReportIsOver, Claimant, Frame
<1> QED
  BY <1>1, <1>2, <1>3, <1>4, <1>5, <1>6, <1>7 DEF Step, Probed, ReportBegins, Asked

(* A record of a claim lands where the head fold expects one. *)
LEMMA StepKeepsHeads ==
  ASSUME "ack" \notin Faults, TypeInv, WriterInv, ExitsInv, NodesInv, PositionsHeld,
         HeadAlwaysReads, Step, NEW c \in AllClaims'
  PROVE  HeadReadable(log', c, Len(log'))
<1> DEFINE own(lg) == {i \in (c + 1)..Len(lg) : OwnedBy(lg[i], c)}
           n == Len(log')
<1>0. LogStep /\ Len(log) \in Nat /\ n \in Nat /\ c \in 1..n /\ log'[c].topic = "started"
  BY StepGrows, LogKept DEF AllClaims, Claims
<1>1. CASE c \in AllClaims
  <2>1. c \in 1..Len(log) /\ HeadReadable(log, c, Len(log)) /\ log'[c] = log[c]
    BY <1>0, <1>1, ClaimsGrow, LogKept DEF HeadAlwaysReads
  <2>2. ASSUME NEW i \in own(log')
        PROVE  \/ i \in own(log) /\ log'[i] = log[i]
               \/ Landed /\ i = n /\ OwnedBy(Newest, c) /\ log'[i] = Newest
    <3>1. CASE i \in 1..Len(log)
      BY <1>0, <3>1, LogKept
    <3>2. CASE i \notin 1..Len(log)
      BY <1>0, <3>2, LogKept DEF Landed, Newest
    <3> QED
      BY <3>1, <3>2
  <2>3. \A i \in own(log) : i \in 1..Len(log) /\ i > c
    BY <2>1
  <2>4. ASSUME NEW i \in 1..Len(log), ~BadReference(log, i) PROVE ~BadReference(log', i)
    <3>1. Extendable(log, i - 1) = Extendable(log', i - 1)
      BY <1>0, LogKept DEF Extendable
    <3> QED
      BY <1>0, <2>4, <3>1, LogKept DEF BadReference
  <2>5. ASSUME NEW i \in 1..Len(log), NEW p, IsPosition(log, c, i, p)
        PROVE  IsPosition(log', c, i, p)
    BY <1>0, <2>1, <2>5, PositionSame
  <2>6. ASSUME Landed, OwnedBy(Newest, c)
        PROVE  /\ Readable(Newest)
               /\ Newest.topic = "rewind" => ~BadReference(log', n)
               /\ Newest.topic # "rewind" => IsPosition(log', c, n, Newest.ref)
               /\ \A i \in own(log) : log[i].topic # "stopped"
    <3>1. PICK w \in Workers : /\ WorkerStep(w) /\ wk[w].claim = c
                               /\ Readable(Newest)
                               /\ Newest.topic = "rewind" => Newest.ref \in Resumable
                               /\ Newest.topic # "rewind" => Newest.ref = wk[w].node
      BY <2>6, NewOwned
    <3>2. n = Len(log) + 1 /\ log'[n] = Newest
      BY <2>6 DEF Landed, Newest
    <3>3. Newest.ref \in Resumable => ~BadReference(log', n)
      <4>1. n - 1 = Len(log) /\ Extendable(log', Len(log)) = Extendable(log, Len(log))
        BY <1>0, <3>2, LogKept DEF Extendable
      <4> QED
        BY <3>2, <4>1 DEF BadReference, Resumable
    <3>4. IsPosition(log', c, n, wk[w].node)
      <4>1. wk[w].up /\ c # 0 /\ Len(log) + 1 \in 0..(Len(log) + 1)
        BY <1>0, <3>1 DEF WorkerStep, ControlMoves
      <4>2. IsPosition(log, c, Len(log) + 1, wk[w].node)
        BY <3>1, <4>1 DEF PositionsHeld
      <4> QED
        BY <1>0, <2>1, <3>2, <4>1, <4>2, PositionSame
    <3>5. ~Done(wk[w])
      BY <3>1 DEF WorkerStep, ControlMoves
    <3>6. \A i \in own(log) : log[i].topic # "stopped"
      BY <2>3, <3>1, <3>5 DEF ExitsInv, OwnedBy
    <3> QED
      BY <3>1, <3>3, <3>4, <3>6
  <2>7. Readable(log'[c]) /\ ~BadReference(log', c)
    BY <2>1, <2>4 DEF HeadReadable
  <2>8. \A i \in own(log') : Readable(log'[i])
    BY <2>1, <2>2, <2>6 DEF HeadReadable
  <2>9. \A i \in own(log') : log'[i].topic = "rewind" => ~BadReference(log', i)
    BY <2>1, <2>2, <2>3, <2>4, <2>6 DEF HeadReadable
  <2>10. \A i \in own(log') : log'[i].topic # "rewind" => IsPosition(log', c, i, log'[i].ref)
    BY <2>1, <2>2, <2>3, <2>5, <2>6 DEF HeadReadable
  <2>11. \A i, j \in own(log') : i < j => log'[i].topic # "stopped"
    <3> SUFFICES ASSUME NEW i \in own(log'), NEW j \in own(log'), i < j
                 PROVE  log'[i].topic # "stopped"
      OBVIOUS
    <3>1. i \in own(log) /\ log'[i] = log[i]
      BY <1>0, <2>2
    <3>2. \A k \in own(log) : k > i => log[i].topic # "stopped"
      BY <2>1, <3>1 DEF HeadReadable
    <3> QED
      BY <2>2, <2>6, <3>1, <3>2
  <2> QED
    BY <2>7, <2>8, <2>9, <2>10, <2>11 DEF HeadReadable
<1>2. CASE c \notin AllClaims
  <2>1. Landed /\ c = n /\ Newest = log'[c]
    BY <1>0, <1>2, ClaimsGrow DEF Newest
  <2>2. own(log') = {}
    BY <1>0, <2>1
  <2>3. PICK w \in Workers : ClaimWon(w)
    BY <1>0, <2>1, NewClaim
  <2>4. PICK e \in Record : e.ref = wk[w].node /\ Readable(e) /\ Send(e)
    BY <2>3 DEF ClaimWon
  <2>5. e = log'[c] /\ c - 1 = Len(log) /\ wk[w].node \in Resumable
    BY <1>0, <2>1, <2>4, Sent DEF TypeInv, TypeOK, NodesInv
  <2>6. ~BadReference(log', c)
    <3>1. Extendable(log', c - 1) = Extendable(log, Len(log))
      BY <1>0, <2>5, LogKept DEF Extendable
    <3> QED
      BY <2>4, <2>5, <3>1 DEF BadReference, Resumable
  <2>7. \A i \in {c} \cup {j \in own(log') : log'[j].topic = "rewind"} : ~BadReference(log', i)
    BY <2>2, <2>6
  <2> QED
    BY <2>2, <2>4, <2>5, <2>7 DEF HeadReadable
<1> QED
  BY <1>1, <1>2

(* Every claim's records read back, unless a commit lands unacknowledged:  *)
(* the head fold finds each node at the position before it, each rewind    *)
(* and each claim on a node that can be built upon, and nothing after the  *)
(* exit.                                                                   *)
THEOREM HeadsRead ==
  ASSUME "ack" \notin Faults
  PROVE  Spec => []HeadAlwaysReads
<1> DEFINE Inv == RunInv /\ PositionsHeld /\ HeadAlwaysReads
<1>1. Init => Inv
  <2> SUFFICES ASSUME Init PROVE PositionsHeld /\ HeadAlwaysReads
    BY InitRunInv
  <2>1. AllClaims = {} /\ \A w \in Workers : wk[w].claim = 0
    BY DEF Init, NewWorker, AllClaims, Claims
  <2> QED
    BY <2>1 DEF PositionsHeld, HeadAlwaysReads
<1>2. Inv /\ [Next]_vars => Inv'
  <2> SUFFICES ASSUME Inv, [Next]_vars PROVE Inv'
    OBVIOUS
  <2>1. TypeInv /\ WriterInv /\ ReportsInv /\ ExitsInv /\ NodesInv
    BY DEF RunInv, ClaimInv
  <2>2. Step
    BY <2>1, NextStep
  <2>3. RunInv' /\ PositionsHeld'
    BY <2>1, <2>2, NextRunInv, StepKeepsPositions
  <2>4. HeadAlwaysReads'
    BY <2>1, <2>2, StepKeepsHeads DEF HeadAlwaysReads
  <2> QED
    BY <2>3, <2>4
<1>3. Inv => HeadAlwaysReads
  OBVIOUS
<1> HIDE DEF Inv
<1> QED
  BY <1>1, <1>2, <1>3, PTL DEF Spec

-----------------------------------------------------------------------------
(* What a step does to the values its worker may yet commit, its position  *)
(* and its register.  A claimant's position is not its claim's yet.        *)

Open(s) == s.pending \cup s.under.values

Held(s) == s.pc \notin ClaimPcs /\ s.phase # "new"

(* Between its calls a worker has no node under way, but a starved exit's. *)
Unladen(s) == s.pc = "idle" /\ s.phase # "starved" => s.under.values = {}

(* The value that lands is x, and a sample was set on where it says. *)
Lands(v, x) ==
  /\ Landed /\ x = Len(log') /\ Newest.topic = "value"
  /\ Newest.body = "sample" => Newest.ref \in v.reg

ValuesMove(v, t) ==
  /\ \A x \in Open(t) : x \in Open(v) \/ (Held(v) /\ (x \in Includable(v) \/ Lands(v, x)))
  /\ t.reg \subseteq v.reg \/ (Held(v) /\ t.reg = {v.node} /\ t.node = v.node)
  /\ \/ t.node = v.node \/ ~Held(v)
     \/ /\ Open(t) = {}
        /\ t.reg = {} \/ (/\ t.reg = v.reg /\ Landed
                          /\ t.node = Len(log') /\ Newest.ref = v.node)
  /\ Unladen(t)
  /\ Held(t) \/ ~Held(v) \/ (Open(t) = {} /\ t.reg = {})

(* The same for a step that opens nothing and stays. *)
Stays(v, t) ==
  /\ t.pending \subseteq v.pending /\ t.reg = v.reg /\ t.node = v.node
  /\ t.under.values \subseteq Open(v) /\ Unladen(t) /\ (Held(v) => Held(t))

LEMMA StaysMoves ==
  ASSUME NEW v, NEW t, Stays(v, t)
  PROVE  ValuesMove(v, t)
BY DEF Stays, ValuesMove, Open

LEMMA NoNodeValues == NoNode.values = {} /\ \A b : TornNode(b).values = {}
BY DEF NoNode, TornNode

(* What the functions from worker state to worker state leave alone. *)
Rests(s, t) ==
  /\ t.pending = s.pending /\ t.reg = s.reg /\ t.node = s.node
  /\ t.spent = s.spent /\ t.subs = s.subs /\ t.mark = s.mark

LEMMA IdleRests ==
  ASSUME NEW s \in WorkerState
  PROVE  /\ Rests(s, Idle(s)) /\ Idle(s).stops = s.stops /\ Idle(s).drained = s.drained
         /\ Idle(s).under = NoNode /\ Idle(s).phase = s.phase /\ Idle(s).pc = "idle"
         /\ Idle(s).op = "none" /\ Idle(s).mode = "ITERATION"
BY DEF Idle, Rests, WorkerState

LEMMA DrainsRests ==
  ASSUME NEW s \in WorkerState, NEW op, NEW mode, NEW under
  PROVE  LET t == Drains(s, op, mode, under)
         IN  /\ Rests(s, t) /\ t.stops = s.stops /\ t.drained = s.drained
             /\ t.under = under /\ t.phase = s.phase /\ t.pc = "drain"
             /\ t.op = op /\ t.mode = mode
BY DEF Drains, Rests, WorkerState

LEMMA DrainedToRests ==
  ASSUME NEW s \in WorkerState
  PROVE  LET t == DrainedTo(s)
         IN  /\ Rests(s, t) /\ t.stops = s.stops /\ t.drained = s.w
             /\ t.under = s.under /\ t.phase = s.phase /\ t.pc = s.pc
             /\ t.op = s.op /\ t.mode = s.mode
BY DEF DrainedTo, Rests, WorkerState

LEMMA DecideRests ==
  ASSUME NEW s \in WorkerState, NEW held
  PROVE  LET t == Decide(s, held)
         IN  /\ Rests(s, t) /\ t.drained = s.drained
             /\ t.under = s.under /\ t.phase = s.phase /\ t.pc = s.pc
             /\ t.op = s.op /\ t.mode = s.mode
             /\ \A r \in RequestIds :
                  t.stops[r] = IF s.stops[r] = "now" \/ r \in held THEN "held"
                               ELSE s.stops[r]
BY DEF Decide, Rests, WorkerState

LEMMA HandledRests ==
  ASSUME NEW s \in WorkerState, NEW k
  PROVE  LET t == Handled(s, k)
         IN  /\ t.pending = s.pending /\ t.reg = s.reg /\ t.node = s.node
             /\ t.spent = s.spent /\ t.subs = s.subs /\ t.stops = s.stops
             /\ t.mark = k /\ t.drained = k
             /\ t.under = s.under /\ t.phase = s.phase /\ t.pc = s.pc
             /\ t.op = s.op /\ t.mode = s.mode
BY DEF Handled, WorkerState

LEMMA SpendIdRests ==
  ASSUME NEW s \in WorkerState, NEW r \in RequestIds
  PROVE  LET t == SpendId(s, r)
         IN  /\ t.pending = s.pending /\ t.reg = s.reg /\ t.node = s.node
             /\ t.mark = s.mark /\ t.drained = s.drained
             /\ t.under = s.under /\ t.phase = s.phase /\ t.pc = s.pc
             /\ t.op = s.op /\ t.mode = s.mode
             /\ t.spent = s.spent \cup {r}
             /\ \A q \in RequestIds : t.subs[q] = IF q = r THEN "none" ELSE s.subs[q]
             /\ \A q \in RequestIds :
                  t.stops[q] = IF q # r \/ s.stops[q] = "held" THEN s.stops[q] ELSE "none"
BY DEF SpendId, WorkerState

LEMMA TearRests ==
  ASSUME NEW s \in WorkerState
  PROVE  LET t == Tear(s)
         IN  /\ t.pending = {} /\ t.reg = s.reg /\ t.node = s.node
             /\ t.spent = s.spent /\ t.subs = s.subs /\ t.stops = s.stops
             /\ t.mark = s.mark /\ t.drained = s.drained
             /\ t.under = NoNode /\ t.phase = "discarded" /\ t.pc = "idle"
             /\ t.op = "none" /\ t.mode = "ITERATION"
<1> DEFINE i == Idle(s)
           d == i.dropped \cup s.pending
<1>1. Tear(s) = [i EXCEPT !.phase = "discarded", !.pending = {}, !.dropped = d]
  BY DEF Tear
<1>2. /\ i \in WorkerState /\ Rests(s, i) /\ i.stops = s.stops /\ i.drained = s.drained
      /\ i.under = NoNode /\ i.pc = "idle" /\ i.op = "none" /\ i.mode = "ITERATION"
  BY IdleType, IdleRests
<1> HIDE DEF i, d
<1> QED
  BY <1>1, <1>2 DEF Rests, WorkerState

LEMMA NodeLandedRests ==
  ASSUME NEW s \in WorkerState, NEW n
  PROVE  LET t == NodeLanded(s, n)
         IN  /\ t.pending = {} /\ t.reg = s.reg /\ t.node = n
             /\ t.stops = s.stops /\ t.mark = s.mark /\ t.drained = s.drained
             /\ t.under = NoNode /\ t.phase = s.phase /\ t.pc = "idle"
             /\ t.op = "none" /\ t.mode = "ITERATION"
             /\ s.spent \subseteq t.spent
             /\ \A r \in t.spent :
                  r \in s.spent \/ (r \in RequestIds /\ s.subs[r] = "lease")
             /\ \A r \in RequestIds :
                  t.subs[r] = s.subs[r] \/ (s.subs[r] = "lease" /\ r \in t.spent)
<1> DEFINE i == Idle(s)
           leases == {r \in s.under.expired : s.subs[r] = "lease"}
           subs == [r \in RequestIds |-> IF r \in leases THEN "none" ELSE s.subs[r]]
           p == i.spent \cup leases
<1>1. NodeLanded(s, n) =
        [i EXCEPT !.node = n, !.pending = {}, !.spent = p, !.subs = subs]
  BY DEF NodeLanded
<1>2. /\ i \in WorkerState /\ Rests(s, i) /\ i.stops = s.stops /\ i.drained = s.drained
      /\ i.under = NoNode /\ i.pc = "idle" /\ i.op = "none" /\ i.mode = "ITERATION"
      /\ i.phase = s.phase
  BY IdleType, IdleRests
<1>3. s.under.expired \subseteq RequestIds
  BY DEF WorkerState, NodeUnderWay
<1>4. /\ \A r \in RequestIds : subs[r] = s.subs[r] \/ (s.subs[r] = "lease" /\ r \in p)
      /\ s.spent \subseteq p
      /\ \A r \in p : r \in s.spent \/ (r \in RequestIds /\ s.subs[r] = "lease")
  BY <1>2, <1>3 DEF Rests
<1> HIDE DEF i, p, subs
<1> QED
  BY <1>1, <1>2, <1>4 DEF Rests, WorkerState

LEMMA StarveRests ==
  ASSUME NEW s \in WorkerState
  PROVE  LET t == Starve(s)
         IN  /\ Rests(s, t) /\ t.stops = s.stops /\ t.drained = s.drained
             /\ t.under = s.under /\ t.phase = "starved" /\ t.pc = "idle"
             /\ t.op = "none" /\ t.mode = "ITERATION"
<1> DEFINE i == Idle(s)
           u == s.under
<1>1. Starve(s) = [i EXCEPT !.phase = "starved", !.under = u]
  BY DEF Starve
<1>2. /\ i \in WorkerState /\ Rests(s, i) /\ i.stops = s.stops /\ i.drained = s.drained
      /\ i.pc = "idle" /\ i.op = "none" /\ i.mode = "ITERATION"
  BY IdleType, IdleRests
<1> HIDE DEF i
<1> QED
  BY <1>1, <1>2 DEF Rests, WorkerState

(* A claimant's steps move nothing but its position. *)
Claiming(v, t) ==
  /\ ~Held(v) /\ t.pending = v.pending /\ t.reg = v.reg
  /\ t.under.values \subseteq v.under.values /\ Unladen(t)

LEMMA ClaimingMoves ==
  ASSUME NEW v, NEW t, Claiming(v, t)
  PROVE  ValuesMove(v, t)
BY DEF Claiming, ValuesMove, Open

LEMMA ClaimantValues ==
  ASSUME TypeInv, NEW w \in Workers,
         \/ Construct(w) \/ ResumePoint(w) \/ ReadLatest(w) \/ ClaimCas(w)
         \/ ClaimStarved(w) \/ ProbeLatest(w) \/ ProbeHeld(w)
  PROVE  Claiming(wk[w], wk'[w])
<1> DEFINE v == wk[w]
           t == wk'[w]
           i == Idle(v)
           Fits(s) == /\ s.pc # "idle" /\ s.pending = v.pending /\ s.reg = v.reg
                      /\ s.under = v.under
           AtHead == [v EXCEPT !.pc = "claim", !.phase = "lost", !.follow = TRUE]
           AtNode(n) == [v EXCEPT !.pc = "claim", !.phase = "lost", !.node = n]
           At0(W, n, k) == [v EXCEPT !.pc = "latest", !.w = W, !.node = n, !.tries = k]
           Goes(p) == [v EXCEPT !.pc = p]
           Sees(c) == [v EXCEPT !.pc = "held", !.seen = c]
           Won(c, d) == [v EXCEPT !.pc = "answers", !.phase = "live", !.claim = c,
                                  !.drained = d, !.tries = 0]
           raised == [i EXCEPT !.phase = "raised"]
<1>1. v \in WorkerState /\ ~Held(v)
  BY StateOf, ZenonT(60)
  DEF Held, ClaimPcs, Construct, ResumePoint, ReadLatest, ClaimCas, ClaimStarved,
      ProbeLatest, ProbeHeld, At
<1>2. \/ Become(w, AtHead) \/ \E n : Become(w, AtNode(n))
      \/ \E W, n, k : Become(w, At0(W, n, k))
      \/ \E p \in ClaimPcs : Become(w, Goes(p))
      \/ \E c : Become(w, Sees(c))
      \/ \E c, d : Become(w, Won(c, d))
      \/ Become(w, raised) \/ Become(w, i)
  <2>1. CASE Construct(w)
    BY <2>1 DEF Construct
  <2>2. CASE ResumePoint(w)
    BY <2>2 DEF ResumePoint, Raise
  <2>3. CASE ReadLatest(w) \/ ProbeLatest(w)
    BY <2>3 DEF ReadLatest, ProbeLatest, ClaimPcs
  <2>4. CASE ClaimCas(w)
    BY <2>4 DEF ClaimCas, ClaimPcs
  <2>5. CASE ClaimStarved(w) \/ ProbeHeld(w)
    BY <2>5 DEF ClaimStarved, ProbeHeld, Raise, ClaimPcs
  <2> QED
    BY <2>1, <2>2, <2>3, <2>4, <2>5
<1>3. /\ Fits(AtHead)
      /\ \A n : Fits(AtNode(n))
      /\ \A W, n, k : Fits(At0(W, n, k))
      /\ \A p \in ClaimPcs : Fits(Goes(p))
      /\ \A c : Fits(Sees(c))
      /\ \A c, d : Fits(Won(c, d))
  <2> HIDE DEF v
  <2> QED
    BY <1>1 DEF WorkerState, ClaimPcs
<1>4. /\ i \in WorkerState /\ i.pending = v.pending /\ i.reg = v.reg /\ i.under = NoNode
  BY <1>1, IdleType, IdleRests DEF Rests
<1>5. raised.pending = v.pending /\ raised.reg = v.reg /\ raised.under = NoNode
  <2> HIDE DEF i, v
  <2> QED
    BY <1>4 DEF WorkerState
<1> HIDE DEF AtHead, AtNode, At0, Goes, Sees, Won, raised, i
<1> DEFINE Rested(s) == /\ s.pending = v.pending /\ s.reg = v.reg
                        /\ s.under = NoNode
<1>6. \/ Fits(t) \/ Rested(t)
  <2>1. \A s : Become(w, s) /\ Fits(s) => Fits(t)
    BY Becomes
  <2>2. \A s : Become(w, s) /\ Rested(s) => Rested(t)
    BY Becomes
  <2>3. Rested(i) /\ Rested(raised)
    BY <1>4, <1>5
  <2> HIDE DEF Fits, Rested, v, t
  <2>4. CASE Become(w, AtHead) \/ \E n : Become(w, AtNode(n))
    BY <1>3, <2>1, <2>4
  <2>5. CASE \E W, n, k : Become(w, At0(W, n, k))
    <3> PICK W, n, k : Become(w, At0(W, n, k))
      BY <2>5
    <3>1. Fits(At0(W, n, k))
      BY <1>3
    <3> QED
      BY <2>1, <3>1
  <2>6. CASE \E p \in ClaimPcs : Become(w, Goes(p))
    BY <1>3, <2>1, <2>6
  <2>7. CASE \E c : Become(w, Sees(c))
    BY <1>3, <2>1, <2>7
  <2>8. CASE \E c, d : Become(w, Won(c, d))
    BY <1>3, <2>1, <2>8
  <2>9. CASE Become(w, raised) \/ Become(w, i)
    BY <2>2, <2>3, <2>9
  <2> QED
    BY <1>2, <2>4, <2>5, <2>6, <2>7, <2>8, <2>9
<1> QED
  BY <1>1, <1>6, NoNodeValues DEF Claiming, Unladen

LEMMA ReportValues ==
  ASSUME TypeInv, ReportsInv, NEW x \in Actors, ReportStep(x), NEW w \in Workers
  PROVE  wk'[w] = wk[w] \/ Claiming(wk[w], wk'[w])
<1> DEFINE v == wk[x]
           i == Idle(v)
           back == [v EXCEPT !.pc = "claim", !.seen = 0]
           raised == [i EXCEPT !.phase = "raised"]
<1>1. \/ UNCHANGED wk
      \/ x \in Workers /\ (Become(x, i) \/ Become(x, back) \/ Become(x, raised))
  BY DEF ReportStep, ReportRead, ReportCas, ReportStarved, ReportEnds
<1>2. x \in Workers => ~Held(v)
  <2>1. rep[x].pc # "idle"
    BY ReportStepStep DEF ReportMoves
  <2> QED
    BY <2>1 DEF ReportsInv, Held, ClaimPcs
<1>3. CASE UNCHANGED wk
  BY <1>3
<1>4. CASE x \in Workers /\ (Become(x, i) \/ Become(x, back) \/ Become(x, raised))
  <2> HIDE DEF i, back, raised
  <2>0. PICK s \in {i, back, raised} : Become(x, s)
    BY <1>4
  <2>1. v \in WorkerState /\ wk'[x] = s /\ \A u \in Workers : u # x => wk'[u] = wk[u]
    <3>1. wk' = [wk EXCEPT ![x] = wk'[x]] /\ wk'[x] = s
      BY <1>4, <2>0, Becomes
    <3>2. wk \in [Workers -> WorkerState] /\ v \in WorkerState
      BY <1>4 DEF TypeInv, TypeOK
    <3> QED
      BY <3>1, <3>2
  <2>2. i \in WorkerState /\ i.pending = v.pending /\ i.reg = v.reg /\ i.under = NoNode
    BY <2>1, IdleType, IdleRests DEF i, Rests
  <2>3. raised.pending = v.pending /\ raised.reg = v.reg /\ raised.under = NoNode
    <3> HIDE DEF i, v
    <3> QED
      BY <2>2 DEF raised, WorkerState
  <2>4. /\ back.pc = "claim" /\ back.pending = v.pending /\ back.reg = v.reg
        /\ back.under = v.under
    <3> HIDE DEF v
    <3> QED
      BY <2>1 DEF back, WorkerState
  <2>5. Claiming(v, wk'[x])
    BY <1>2, <1>4, <2>0, <2>1, <2>2, <2>3, <2>4, NoNodeValues DEF Claiming, Unladen
  <2> QED
    BY <2>1, <2>5
<1> QED
  BY <1>1, <1>3, <1>4

(* The driver's calls that write or move values. *)
LEMMA CallValues ==
  ASSUME TypeInv, NEW w \in Workers, Unladen(wk[w]),
         \/ Emit(w) \/ SetRegister(w) \/ Include(w) \/ Rewind(w) \/ Discard(w)
  PROVE  ValuesMove(wk[w], wk'[w])
<1> DEFINE v == wk[w]
           t == wk'[w]
           Pends(p) == [v EXCEPT !.pending = p]
           Sets(g) == [v EXCEPT !.reg = g]
<1>1. /\ v \in WorkerState /\ v.pc = "idle" /\ v.phase = "live" /\ Held(v)
      /\ v.under.values = {} /\ Len(log) \in Nat
  <2>1. Callable(w, {"live"})
    BY DEF Emit, SetRegister, Include, Rewind, Discard, Call
  <2>2. v.pc = "idle" /\ v.phase = "live" /\ v \in WorkerState
    BY <2>1, CallStarts
  <2> QED
    BY <2>2, StateOf DEF Held, ClaimPcs, Unladen
<1>2. ASSUME NEW p
      PROVE  /\ Pends(p).pc = "idle" /\ Pends(p).phase = "live" /\ Pends(p).reg = v.reg
             /\ Pends(p).under = v.under /\ Pends(p).node = v.node /\ Pends(p).pending = p
             /\ Sets(p).pc = "idle" /\ Sets(p).phase = "live" /\ Sets(p).reg = p
             /\ Sets(p).under = v.under /\ Sets(p).node = v.node
             /\ Sets(p).pending = v.pending
  <2> HIDE DEF v
  <2> QED
    BY <1>1 DEF WorkerState
<1> HIDE DEF Pends, Sets
<1>3. CASE Emit(w)
  <2> DEFINE e == [Blank EXCEPT !.body = "eager"]
             p == v.pending \cup {Len(log) + 1}
  <2>1. Send(e) /\ Become(w, Pends(p)) /\ e \in Record
    BY <1>3, EagerType DEF Emit, Pends
  <2>2. e.topic = "value" /\ e.body = "eager"
    BY DEF Blank
  <2> HIDE DEF e
  <2>3. t = Pends(p) /\ Lands(v, Len(log) + 1)
    BY <2>1, <2>2, Becomes, Sent DEF Lands, Landed, Newest, TypeInv, TypeOK
  <2> QED
    BY <1>1, <1>2, <2>3 DEF ValuesMove, Open, Unladen, Held, ClaimPcs
<1>4. CASE SetRegister(w)
  <2>1. t = Sets({v.node})
    BY <1>4, Becomes DEF SetRegister, Sets
  <2> QED
    BY <1>1, <1>2, <2>1 DEF ValuesMove, Open, Unladen, Held, ClaimPcs
<1>5. CASE Include(w)
  <2> PICK x \in Includable(v) : Become(w, Pends(v.pending \cup {x}))
    BY <1>5 DEF Include, Pends
  <2>1. t = Pends(v.pending \cup {x})
    BY Becomes
  <2> QED
    BY <1>1, <1>2, <2>1 DEF ValuesMove, Open, Unladen, Held, ClaimPcs
<1>6. CASE Rewind(w)
  <2> PICK n \in Resumable : Become(w, Rewound(v, n))
    BY <1>6 DEF Rewind, Resumable
  <2>1. t = Rewound(v, n)
    BY Becomes
  <2>2. /\ t.pending = {} /\ t.reg = {} /\ t.under = v.under /\ t.pc = "idle"
        /\ t.phase = "live"
    <3> HIDE DEF v
    <3> QED
      BY <1>1, <2>1 DEF Rewound, WorkerState
  <2> QED
    BY <1>1, <2>2 DEF ValuesMove, Open, Unladen, Held, ClaimPcs
<1>7. CASE Discard(w)
  <2>1. t = Tear(v)
    BY <1>7, Becomes DEF Discard
  <2> QED
    BY <1>1, <2>1, TearRests, NoNodeValues DEF ValuesMove, Open, Unladen, Held, ClaimPcs
<1> QED
  BY <1>3, <1>4, <1>5, <1>6, <1>7

(* The calls that begin a drain, and the fold of a claim just won. *)
LEMMA BeginValues ==
  ASSUME TypeInv, NEW w \in Workers,
         \/ BeginCommit(w) \/ BeginHeartbeat(w) \/ BeginRetire(w) \/ BeginStopped(w)
         \/ RetryStarved(w) \/ FoldRaises(w) \/ FoldAnswers(w)
  PROVE  Stays(wk[w], wk'[w])
<1> DEFINE v == wk[w]
           t == wk'[w]
           Errs(b) == [NoNode EXCEPT !.body = b]
<1>1. v \in WorkerState /\ Len(log) \in Nat
  BY StateOf
<1>2. \A b : Errs(b).values = {}
  BY DEF NoNode
<1> HIDE DEF Errs
<1>3. CASE ~FoldAnswers(w)
  <2> PICK op, mode, under :
        /\ Become(w, Drains(v, op, mode, under))
        /\ under = v.under \/ under = NoNode \/ \E b : under = Errs(b)
    BY <1>3
    DEF BeginCommit, BeginHeartbeat, BeginRetire, BeginStopped, RetryStarved,
        FoldRaises, Errs
  <2>1. t = Drains(v, op, mode, under)
    BY Becomes
  <2>2. /\ t.pending = v.pending /\ t.reg = v.reg /\ t.node = v.node /\ t.under = under
        /\ t.pc = "drain" /\ t.phase = v.phase
    BY <1>1, <2>1, DrainsRests DEF Rests
  <2>3. t.under.values \subseteq v.under.values
    BY <1>2, <2>2, NoNodeValues
  <2> QED
    BY <2>2, <2>3 DEF Stays, Open, Unladen, Held, ClaimPcs
<1>4. CASE FoldAnswers(w)
  <2> DEFINE i == Idle(v)
             p == Spent(log, v.claim - 1)
             s == [i EXCEPT !.folded = TRUE, !.drained = 0, !.spent = p]
  <2>1. t = s
    BY <1>4, Becomes DEF FoldAnswers
  <2>2. /\ i \in WorkerState /\ Rests(v, i) /\ i.under = NoNode /\ i.phase = v.phase
        /\ i.pc = "idle"
    BY <1>1, IdleType, IdleRests
  <2>3. /\ s.pending = i.pending /\ s.reg = i.reg /\ s.node = i.node /\ s.under = i.under
        /\ s.phase = i.phase /\ s.pc = i.pc
    <3> HIDE DEF i, p
    <3> QED
      BY <2>2 DEF WorkerState
  <2> QED
    BY <2>1, <2>2, <2>3, NoNodeValues DEF Rests, Stays, Open, Unladen, Held, ClaimPcs
<1> QED
  BY <1>3, <1>4

(* The drain. *)
LEMMA RaisingValues ==
  ASSUME TypeInv, NEW w \in Workers, Raising(w)
  PROVE  Stays(wk[w], wk'[w])
<1> DEFINE v == wk[w]
           s == Fails(v)
<1>1. /\ wk'[w] = s /\ v \in WorkerState
      /\ v.pc \in {"drain", "take", "sample", "send", "beat"}
  BY RaisingIs
<1>2. /\ s.pending = v.pending /\ s.reg = v.reg /\ s.node = v.node /\ s.pc = "idle"
      /\ s.phase = v.phase
      /\ s.under = IF v.phase = "starved" THEN v.under ELSE NoNode
  BY <1>1, FailsType
<1> HIDE DEF s
<1>3. /\ s.under.values \subseteq v.under.values
      /\ v.phase # "starved" => s.under.values = {}
  BY <1>2, NoNodeValues
<1> QED
  BY <1>1, <1>2, <1>3 DEF Stays, Open, Unladen, Held, ClaimPcs

LEMMA DrainValues ==
  ASSUME TypeInv, NEW w \in Workers, DrainStep(w)
  PROVE  Stays(wk[w], wk'[w])
<1> DEFINE v == wk[w]
           t == wk'[w]
           i == Idle(v)
           Fits(s) == /\ s.pending = v.pending /\ s.reg = v.reg /\ s.node = v.node
                      /\ s.under = v.under /\ s.pc \in {"drain", "take"}
                      /\ s.phase = v.phase
<1>1. v \in WorkerState /\ v.pc \in {"drain", "take"} /\ Len(log) \in Nat
  BY StateOf, ZenonT(60) DEF DrainStep, DrainRead, DrainStarved, TakeRecord, WriteAnswer, At
<1>2. ASSUME NEW s, Fits(s) PROVE Stays(v, s)
  BY <1>1, <1>2 DEF Stays, Open, Unladen, Held, ClaimPcs
<1>3. CASE DrainRead(w)
  <2> DEFINE W == Len(log)
             k == v.tries + 1
             released == [i EXCEPT !.phase = "released"]
             take == [v EXCEPT !.pc = "take", !.w = W, !.tries = k]
  <2>1. t = released \/ t = take
    BY <1>3, Becomes DEF DrainRead
  <2>2. /\ i \in WorkerState /\ Rests(v, i) /\ i.under = NoNode /\ i.pc = "idle"
    BY <1>1, IdleType, IdleRests
  <2>3. /\ released.pending = i.pending /\ released.reg = i.reg /\ released.node = i.node
        /\ released.under = NoNode /\ released.pc = "idle"
        /\ released.phase = "released"
    <3> HIDE DEF i
    <3> QED
      BY <2>2 DEF WorkerState
  <2>4. Fits(take)
    <3> HIDE DEF v, k, W
    <3> QED
      BY <1>1 DEF WorkerState
  <2> HIDE DEF released, take, i, Fits
  <2>5. Stays(v, released)
    BY <2>2, <2>3, NoNodeValues DEF Rests, Stays, Open, Unladen, Held, ClaimPcs
  <2> QED
    BY <1>2, <2>1, <2>4, <2>5
<1>4. CASE DrainStarved(w)
  BY <1>4, RaisingValues DEF Raising
<1>5. CASE TakeRecord(w)
  <2> PICK k \in Undrained(v) :
        LET e == log[k]
        IN  \/ Become(w, Handled(v, k))
            \/ /\ TakesStop(v, e)
               /\ Become(w, [Handled(v, k) EXCEPT !.stops[e.rid] = e.body])
            \/ TakesWithdraw(v, e) /\ Become(w, SpendId(Handled(v, k), e.rid))
            \/ /\ VoidLease(v, e)
               /\ Become(w, [Handled(v, k) EXCEPT !.spent = @ \cup {e.rid}])
            \/ /\ Accepted(v, e) /\ ~Binds(v, e)
               /\ Become(w, [Handled(v, k) EXCEPT !.subs[e.rid] = e.body])
    BY <1>5 DEF TakeRecord
  <2> DEFINE r == log[k].rid  b == log[k].body
             h == Handled(v, k)
             Stops == [h EXCEPT !.stops[r] = b]
             p == h.spent \cup {r}
             Spends == [h EXCEPT !.spent = p]
             Subs == [h EXCEPT !.subs[r] = b]
  <2>1. h \in WorkerState /\ Fits(h)
    <3>1. k \in 1..Len(log)
      BY UndrainedOnLog
    <3> QED
      BY <1>1, <3>1, HandledType, HandledRests
  <2>2. Fits(Stops) /\ Fits(Spends) /\ Fits(Subs)
    <3> HIDE DEF h, v, r, b, p
    <3> QED
      BY <2>1 DEF WorkerState
  <2>3. r \in RequestIds => Fits(SpendId(h, r))
    <3> HIDE DEF h, r
    <3> QED
      BY <2>1, SpendIdRests
  <2>4. t \in {h, Stops, Spends, Subs} \/ (r \in RequestIds /\ t = SpendId(h, r))
    BY Becomes DEF TakesWithdraw, Answerable
  <2> HIDE DEF h, Stops, Spends, Subs, Fits, r
  <2> QED
    BY <1>2, <2>1, <2>2, <2>3, <2>4
<1>6. CASE WriteAnswer(w)
  <2> PICK k \in Undrained(v) :
        LET e == log[k]
        IN  \/ Become(w, [(IF e.rid = NoId THEN Handled(v, k)
                           ELSE SpendId(Handled(v, k), e.rid)) EXCEPT !.w = Len(log) + 1])
            \/ Become(w, [[Handled(v, k) EXCEPT !.subs[e.rid] = "lease",
                              !.bound = @ \cup {e.rid}] EXCEPT !.w = Len(log) + 1])
            \/ Become(w, [v EXCEPT !.pc = "drain"])
    BY <1>6 DEF WriteAnswer
  <2> DEFINE r == log[k].rid
             n == Len(log) + 1
             h == Handled(v, k)
             x == IF r = NoId THEN h ELSE SpendId(h, r)
             Naks == [x EXCEPT !.w = n]
             b == h.bound \cup {r}
             y == [h EXCEPT !.subs[r] = "lease", !.bound = b]
             Bound == [y EXCEPT !.w = n]
             Lost == [v EXCEPT !.pc = "drain"]
  <2>1. h \in WorkerState /\ Fits(h) /\ r \in RequestIds \cup {NoId} /\ n \in Nat
    <3>1. k \in 1..Len(log) /\ r \in RequestIds \cup {NoId}
      BY UndrainedOnLog, UndrainedType
    <3> QED
      BY <1>1, <3>1, HandledType, HandledRests
  <2>2. x \in WorkerState /\ Fits(x)
    <3> HIDE DEF h, r
    <3>1. r # NoId => SpendId(h, r) \in WorkerState /\ Fits(SpendId(h, r))
      BY <2>1, SpendIdType, SpendIdRests
    <3> QED
      BY <2>1, <3>1
  <2>3. Fits(Naks)
    <3> HIDE DEF x, v, n
    <3> QED
      BY <2>2 DEF WorkerState
  <2>4. Fits(Bound)
    <3> HIDE DEF h, v, n, r, b
    <3>1. DOMAIN y = DOMAIN h /\ Fits(y)
      BY <2>1 DEF WorkerState
    <3> HIDE DEF y
    <3>2. Bound.pending = y.pending /\ Bound.reg = y.reg /\ Bound.node = y.node
          /\ Bound.under = y.under /\ Bound.pc = y.pc /\ Bound.phase = y.phase
      BY <2>1, <3>1 DEF WorkerState
    <3> QED
      BY <3>1, <3>2
  <2>5. Fits(Lost)
    <3> HIDE DEF v
    <3> QED
      BY <1>1 DEF WorkerState
  <2>6. t \in {Naks, Bound, Lost}
    BY Becomes
  <2> HIDE DEF Naks, Bound, Lost, Fits
  <2> QED
    BY <1>2, <2>3, <2>4, <2>5, <2>6
<1> QED
  BY <1>3, <1>4, <1>5, <1>6 DEF DrainStep

(* An evaluation commits what is pending, from a state d like v. *)
LEMMA EvaluatedValues ==
  ASSUME TypeInv, NEW w \in Workers, wk[w].pc = "take",
         NEW d \in WorkerState, Rests(wk[w], d), d.phase = wk[w].phase,
         NEW b, NEW fired \in MayFire(wk[w]), NEW expired \in SUBSET Live(wk[w]),
         Become(w, [d EXCEPT !.under = Evaluated(wk[w], b, fired, expired),
                             !.pc = IF fired = {} THEN "send" ELSE "sample"])
  PROVE  Stays(wk[w], wk'[w])
<1> DEFINE v == wk[w]
           t == wk'[w]
           u == Evaluated(v, b, fired, expired)
           p == IF fired = {} THEN "send" ELSE "sample"
           s == [d EXCEPT !.under = u, !.pc = p]
<1>1. v \in WorkerState /\ t = s
  BY StateOf, Becomes
<1>2. u.values = v.pending
  BY DEF Evaluated
<1>3. p \in {"send", "sample"}
  OBVIOUS
<1> HIDE DEF u, p
<1>4. /\ s.pending = d.pending /\ s.reg = d.reg /\ s.node = d.node
      /\ s.under = u /\ s.pc = p /\ s.phase = d.phase
  BY DEF WorkerState
<1> HIDE DEF s
<1> QED
  BY <1>1, <1>2, <1>3, <1>4 DEF Rests, Stays, Open, Unladen, Held, ClaimPcs

LEMMA DecideValues ==
  ASSUME TypeInv, NEW w \in Workers, CommitDecide(w) \/ HeartbeatDecide(w)
  PROVE  Stays(wk[w], wk'[w])
<1> DEFINE v == wk[w]
           t == wk'[w]
           d == DrainedTo(v)
<1>1. v \in WorkerState /\ v.pc = "take"
  BY StateOf DEF CommitDecide, HeartbeatDecide, Drained, At
<1>2. /\ d \in WorkerState /\ Rests(v, d) /\ d.under = v.under /\ d.phase = v.phase
  BY <1>1, DrainedToType, DrainedToRests
<1>3. PICK held \in Due(v) :
        \/ /\ CommitDecide(w)
           /\ \E fired \in MayFire(v), expired \in SUBSET Live(v) :
                Become(w, [Decide(d, held) EXCEPT
                  !.under = Evaluated(v, "", fired, expired),
                  !.pc = IF fired = {} THEN "send" ELSE "sample"])
        \/ Become(w, [Decide(d, held) EXCEPT !.pc = "beat"])
  BY DEF CommitDecide, HeartbeatDecide
<1> DEFINE h == Decide(d, held)
           beat == [h EXCEPT !.pc = "beat"]
<1> HIDE DEF d
<1>4. /\ h \in WorkerState /\ Rests(v, h) /\ h.under = v.under /\ h.phase = v.phase
  <2>1. Rests(d, h) /\ h.under = d.under /\ h.phase = d.phase
    BY <1>2, DecideRests
  <2>2. h \in WorkerState
    BY <1>2, DecideType DEF Due
  <2> QED
    BY <1>2, <2>1, <2>2 DEF Rests
<1> HIDE DEF h
<1>5. CASE \E fired \in MayFire(v), expired \in SUBSET Live(v) :
             Become(w, [h EXCEPT !.under = Evaluated(v, "", fired, expired),
                                 !.pc = IF fired = {} THEN "send" ELSE "sample"])
  BY <1>1, <1>4, <1>5, EvaluatedValues
<1>6. CASE Become(w, beat)
  <2>1. t = beat
    BY <1>6, Becomes
  <2>2. /\ beat.pending = h.pending /\ beat.reg = h.reg /\ beat.node = h.node
        /\ beat.under = h.under /\ beat.pc = "beat" /\ beat.phase = h.phase
    BY <1>4 DEF WorkerState
  <2> HIDE DEF beat
  <2> QED
    BY <1>1, <1>4, <2>1, <2>2 DEF Rests, Stays, Open, Unladen, Held, ClaimPcs
<1> QED
  BY <1>3, <1>5, <1>6 DEF h, d

LEMMA SampleValues ==
  ASSUME TypeInv, NEW w \in Workers, Held(wk[w]), SampleSend(w)
  PROVE  ValuesMove(wk[w], wk'[w])
<1> DEFINE v == wk[w]
           t == wk'[w]
           vs == v.under.values \cup {Len(log) + 1}
           s == [v EXCEPT !.under.values = vs]
           g == [s EXCEPT !.pc = "send"]
<1>1. v \in WorkerState /\ v.under \in NodeUnderWay /\ Len(log) \in Nat
      /\ v.reg \in SUBSET Nat
  BY StateOf DEF WorkerState
<1>2. t = g
  BY Becomes DEF SampleSend
<1>3. /\ s.pending = v.pending /\ s.reg = v.reg /\ s.node = v.node
      /\ s.under.values = vs /\ s.phase = v.phase /\ DOMAIN s = DOMAIN v
  <2> HIDE DEF v, vs
  <2> QED
    BY <1>1 DEF WorkerState, NodeUnderWay
<1>4. /\ g.pending = s.pending /\ g.reg = s.reg /\ g.node = s.node
      /\ g.under = s.under /\ g.phase = s.phase /\ g.pc = "send"
  <2>1. "pc" \in DOMAIN s
    BY <1>1, <1>3 DEF WorkerState
  <2> HIDE DEF s
  <2> QED
    BY <2>1
<1>5. Lands(v, Len(log) + 1)
  <2> PICK n \in v.reg : Send([Blank EXCEPT !.body = "sample", !.ref = n])
    BY DEF SampleSend
  <2> DEFINE e == [Blank EXCEPT !.body = "sample", !.ref = n]
  <2>1. e \in Record /\ e.topic = "value" /\ e.ref = n /\ Send(e)
    <3>1. n \in Nat
      BY <1>1
    <3> QED
      BY <3>1 DEF Blank, Record, Fields, WellBodied, Topics, ControlTopics, Bodies
  <2> HIDE DEF e
  <2> QED
    BY <2>1, Sent DEF Lands, Landed, Newest, TypeInv, TypeOK
<1> HIDE DEF s, g
<1> QED
  BY <1>1, <1>2, <1>3, <1>4, <1>5 DEF ValuesMove, Open, Unladen, Held, ClaimPcs

LEMMA FailsValues ==
  ASSUME TypeInv, NEW w \in Workers, NodeFails(w) \/ ExitPrepared(w)
  PROVE  Stays(wk[w], wk'[w])
<1> DEFINE v == wk[w]
           t == wk'[w]
<1>1. v \in WorkerState /\ v.pc \in {"sample", "send"}
  BY StateOf DEF NodeFails, ExitPrepared, At
<1>2. CASE Become(w, Tear(v))
  <2>1. t = Tear(v)
    BY <1>2, Becomes
  <2> QED
    BY <1>1, <2>1, TearRests, NoNodeValues DEF Stays, Open, Unladen, Held, ClaimPcs
<1>3. ASSUME NEW under, under = v.under \/ under = TornNode("errored"),
             Become(w, ToExitCas(v, under))
      PROVE  Stays(v, t)
  <2>1. t = Drains(v, "exitCas", v.mode, under)
    BY <1>3, Becomes DEF ToExitCas
  <2>2. /\ t.pending = v.pending /\ t.reg = v.reg /\ t.node = v.node /\ t.under = under
        /\ t.pc = "drain" /\ t.phase = v.phase
    BY <1>1, <2>1, DrainsRests DEF Rests
  <2>3. under.values \subseteq v.under.values
    BY <1>3, NoNodeValues
  <2> QED
    BY <1>1, <2>2, <2>3 DEF Stays, Open, Unladen, Held, ClaimPcs
<1>4. \/ Become(w, Tear(v)) \/ Become(w, ToExitCas(v, TornNode("errored")))
      \/ Become(w, ToExitCas(v, v.under))
  BY DEF NodeFails, ExitPrepared
<1> QED
  BY <1>2, <1>3, <1>4

LEMMA SendValues ==
  ASSUME TypeInv, NEW w \in Workers,
         CommitSend(w) \/ CommitUnacknowledged(w) \/ HeartbeatSend(w)
  PROVE  ValuesMove(wk[w], wk'[w])
<1> DEFINE v == wk[w]
           t == wk'[w]
           n == Len(log) + 1
           commit == CommitRecord(v)
<1>1. v \in WorkerState /\ v.pc \in {"send", "beat"} /\ Len(log) \in Nat
      /\ v.claim \in Nat /\ v.mark \in Nat
  BY StateOf, SMTT(60) DEF CommitSend, CommitUnacknowledged, HeartbeatSend, At, WorkerState
<1>2. CASE CommitSend(w)
  <2>1. Send(commit) /\ t = NodeLanded(v, n)
    BY <1>2, Becomes DEF CommitSend
  <2>2. commit \in Record /\ commit.ref = v.node
    BY <1>1, NodeRecordType, NodeRecordFields
  <2>3. /\ t.pending = {} /\ t.reg = v.reg /\ t.node = n /\ t.under = NoNode
        /\ t.phase = v.phase /\ t.pc = "idle"
    <3> HIDE DEF v, n
    <3> QED
      BY <1>1, <2>1, NodeLandedRests
  <2> HIDE DEF commit
  <2>4. Landed /\ Newest.ref = v.node /\ n = Len(log')
    BY <2>1, <2>2, Sent DEF Landed, Newest, TypeInv, TypeOK
  <2> QED
    BY <1>1, <2>3, <2>4, NoNodeValues DEF ValuesMove, Open, Unladen, Held, ClaimPcs
<1>3. CASE CommitUnacknowledged(w)
  <2>1. t = Tear(v)
    BY <1>3, Becomes DEF CommitUnacknowledged
  <2>2. Stays(v, t)
    BY <1>1, <2>1, TearRests, NoNodeValues DEF Stays, Open, Unladen, Held, ClaimPcs
  <2> QED
    BY <2>2, StaysMoves
<1>4. CASE HeartbeatSend(w)
  <2>1. t = Idle(v)
    BY <1>4, Becomes DEF HeartbeatSend
  <2>2. Stays(v, t)
    BY <1>1, <2>1, IdleRests, NoNodeValues DEF Rests, Stays, Open, Unladen, Held, ClaimPcs
  <2> QED
    BY <2>2, StaysMoves
<1> QED
  BY <1>2, <1>3, <1>4

LEMMA ExitValues ==
  ASSUME TypeInv, NEW w \in Workers, ExitNode(w) \/ ExitCas(w)
  PROVE  Stays(wk[w], wk'[w])
<1> DEFINE v == wk[w]
           t == wk'[w]
           d == DrainedTo(v)
           i == Idle(d)
           b == v.under.body
           k == v.exits + 1
           ended == [i EXCEPT !.phase = "stopped"]
           again == [d EXCEPT !.pc = "drain", !.tries = 0, !.exits = k]
           starved == Starve(d)
           torn == ToExitCas(d, TornNode(b))
<1>1. v \in WorkerState /\ v.pc = "take"
  BY StateOf DEF ExitNode, ExitCas, Drained, At
<1>2. /\ d \in WorkerState /\ Rests(v, d) /\ d.under = v.under /\ d.phase = v.phase
      /\ d.mode = v.mode
  BY <1>1, DrainedToType, DrainedToRests
<1>3. \/ Become(w, i) \/ Become(w, torn) \/ Become(w, ended) \/ Become(w, again)
      \/ Become(w, starved)
      \/ \E fired \in MayFire(v), expired \in SUBSET Live(v) :
           Become(w, [d EXCEPT !.under = Evaluated(v, b, fired, expired),
                               !.pc = IF fired = {} THEN "send" ELSE "sample"])
  <2>1. CASE ExitNode(w)
    BY <2>1 DEF ExitNode
  <2>2. CASE ExitCas(w)
    BY <2>2 DEF ExitCas
  <2> QED
    BY <2>1, <2>2
<1> HIDE DEF d
<1>4. /\ i \in WorkerState /\ Rests(d, i) /\ i.under = NoNode /\ i.pc = "idle"
      /\ i.phase = d.phase
  BY <1>2, IdleType, IdleRests
<1>5. /\ ended.pending = i.pending /\ ended.reg = i.reg /\ ended.node = i.node
      /\ ended.under = i.under /\ ended.pc = "idle" /\ ended.phase = "stopped"
  <2> HIDE DEF i
  <2> QED
    BY <1>4 DEF WorkerState
<1>6. /\ again.pending = d.pending /\ again.reg = d.reg /\ again.node = d.node
      /\ again.under = d.under /\ again.pc = "drain" /\ again.phase = d.phase
  <2> HIDE DEF k
  <2> QED
    BY <1>2 DEF WorkerState
<1>7. Rests(d, starved) /\ starved.under = d.under /\ starved.phase = "starved"
      /\ starved.pc = "idle"
  BY <1>2, StarveRests
<1>8. Rests(d, torn) /\ torn.under = TornNode(b) /\ torn.pc = "drain"
      /\ torn.phase = d.phase
  BY <1>2, DrainsRests DEF ToExitCas
<1>9. CASE \E fired \in MayFire(v), expired \in SUBSET Live(v) :
             Become(w, [d EXCEPT !.under = Evaluated(v, b, fired, expired),
                                 !.pc = IF fired = {} THEN "send" ELSE "sample"])
  BY <1>1, <1>2, <1>9, EvaluatedValues
<1> HIDE DEF i, ended, again, starved, torn, b
<1>10. CASE t \in {i, torn, ended, again, starved}
  <2>1. CASE t \in {i, torn}
    BY <1>1, <1>2, <1>4, <1>8, <2>1, NoNodeValues
    DEF Rests, Stays, Open, Unladen, Held, ClaimPcs
  <2>2. CASE t = ended
    BY <1>1, <1>2, <1>4, <1>5, <2>2, NoNodeValues
    DEF Rests, Stays, Open, Unladen, Held, ClaimPcs
  <2>3. CASE t \in {again, starved}
    BY <1>1, <1>2, <1>6, <1>7, <2>3
    DEF Rests, Stays, Open, Unladen, Held, ClaimPcs
  <2> QED
    BY <1>10, <2>1, <2>2, <2>3
<1> QED
  BY <1>3, <1>9, <1>10, Becomes

LEMMA GoneValues ==
  ASSUME TypeInv, NEW w \in Workers, ProcessEnds(w)
  PROVE  ValuesMove(wk[w], wk'[w])
<1> DEFINE v == wk[w]
           t == wk'[w]
           c == v.claim
           f == v.folded
           s == [NewWorker EXCEPT !.up = FALSE, !.claim = c, !.folded = f]
<1>1. t = s /\ v \in WorkerState
  BY Becomes, StateOf DEF ProcessEnds
<1>2. /\ s.pending = {} /\ s.reg = {} /\ s.under = NoNode /\ s.phase = "new"
      /\ s.pc = "idle"
  <2> HIDE DEF c, f
  <2> QED
    BY DEF NewWorker
<1> HIDE DEF s
<1> QED
  BY <1>1, <1>2, NoNodeValues DEF ValuesMove, Open, Unladen, Held

(* A worker's step is its own. *)
LEMMA OwnStep ==
  ASSUME TypeInv, NEW w \in Workers,
         \/ Construct(w) \/ ClaimStep(w) \/ CallStep(w) \/ BeginStopped(w)
         \/ RetryStarved(w) \/ DrainStep(w) \/ NodeStep(w) \/ CallRaises(w)
         \/ ProcessEnds(w)
  PROVE  wk' = [wk EXCEPT ![w] = wk'[w]]
<1> DEFINE Own == wk' = [wk EXCEPT ![w] = wk'[w]]
<1>1. WorkerStep(w) => Own
  BY DEF WorkerStep
<1> SUFFICES Own
  OBVIOUS
<1> HIDE DEF Own
<1>2. CASE Construct(w)
  BY <1>1, <1>2, ConstructStep
<1>3. CASE ClaimStep(w)
  <2>1. CASE ResumePoint(w)
    BY <1>1, <2>1, ResumePointStep
  <2>2. CASE ReadLatest(w) \/ ProbeLatest(w) \/ (ClaimCas(w) /\ UNCHANGED log)
    BY <1>1, <2>2, ClaimingStep
  <2>3. CASE ClaimCas(w) /\ ~UNCHANGED log
    BY <2>3, ClaimWonStep DEF ClaimWon, Own
  <2>4. CASE ClaimStarved(w)
    BY <1>1, <2>4, RaiseStep DEF ClaimStarved
  <2>5. CASE FoldAnswers(w) \/ FoldRaises(w)
    BY <1>1, <2>5, FoldStep
  <2>6. CASE ProbeHeld(w)
    BY <1>1, <2>6, ProbeHeldStep
  <2> QED
    BY <1>3, <2>1, <2>2, <2>3, <2>4, <2>5, <2>6, SMTT(60) DEF ClaimStep
<1>4. CASE CallStep(w) \/ BeginStopped(w) \/ RetryStarved(w)
  BY <1>1, <1>4, CallStepStep, BeginStep DEF CallStep
<1>5. CASE DrainStep(w)
  BY <1>1, <1>5, DrainReadStep, RaisingStep, TakeStep, WriteAnswerStep, SMTT(60)
  DEF DrainStep, Raising
<1>6. CASE NodeStep(w)
  BY <1>1, <1>6, DecideStep, SampleStep, NodeFailsStep, NodeSendStep, ExitNodeStep,
     ExitCasStep, SMTT(60) DEF NodeStep
<1>7. CASE ProcessEnds(w)
  BY <1>7, GoneStep DEF Gone, Own
<1>8. CASE CallRaises(w)
  BY <1>1, <1>8, RaisingStep DEF Raising
<1> QED
  BY <1>2, <1>3, <1>4, <1>5, <1>6, <1>7, <1>8

(* Every step, for every worker: it stays, or its values move so. *)
LEMMA StepValues ==
  ASSUME TypeInv, WriterInv, ReportsInv, \A w \in Workers : Unladen(wk[w]),
         [Next]_vars, NEW w \in Workers
  PROVE  wk'[w] = wk[w] \/ ValuesMove(wk[w], wk'[w])
<1>1. SUFFICES ASSUME Next, wk'[w] # wk[w] PROVE ValuesMove(wk[w], wk'[w])
  BY DEF vars
<1>2. CASE \E x \in Actors : ReportStep(x)
  BY <1>1, <1>2, ReportValues, ClaimingMoves
<1>3. CASE (\E p \in Reporters : StartReport(p)) \/ (\E e \in Asks : Ask(e))
  BY <1>1, <1>3 DEF StartReport, Ask
<1>4. ASSUME NEW x \in Workers,
             \/ Construct(x) \/ ClaimStep(x) \/ CallStep(x) \/ BeginStopped(x)
             \/ RetryStarved(x) \/ DrainStep(x) \/ NodeStep(x) \/ CallRaises(x)
             \/ ProcessEnds(x)
      PROVE  ValuesMove(wk[w], wk'[w])
  <2>1. x = w
    <3>1. wk' = [wk EXCEPT ![x] = wk'[x]]
      BY <1>4, OwnStep
    <3> QED
      BY <1>1, <3>1 DEF TypeInv, TypeOK
  <2>2. CASE Construct(w) \/ ClaimStep(w)
    BY <2>2, ClaimantValues, ClaimingMoves, BeginValues, StaysMoves DEF ClaimStep
  <2>3. CASE CallStep(w) \/ BeginStopped(w) \/ RetryStarved(w)
    BY <2>3, CallValues, BeginValues, StaysMoves DEF CallStep
  <2>4. CASE DrainStep(w)
    BY <2>4, DrainValues, StaysMoves
  <2>5. CASE NodeStep(w)
    <3>1. SampleSend(w) => Held(wk[w])
      BY StateOf DEF SampleSend, At, WriterInv, Held, ClaimPcs, WorkPcs
    <3> QED
      BY <2>5, <3>1, DecideValues, SampleValues, FailsValues, SendValues, ExitValues,
         StaysMoves DEF NodeStep
  <2>6. CASE ProcessEnds(w)
    BY <2>6, GoneValues
  <2>7. CASE CallRaises(w)
    BY <2>7, RaisingValues, StaysMoves DEF Raising
  <2> QED
    BY <1>4, <2>1, <2>2, <2>3, <2>4, <2>5, <2>6, <2>7
<1> QED
  BY <1>1, <1>2, <1>3, <1>4 DEF Next

-----------------------------------------------------------------------------
(* What a worker may yet commit is a value, uncommitted so far on the      *)
(* lineage of its position, and a sample was set at a node of that lineage *)
(* or at the root.                                                         *)

OpenValue(lg, x, n) ==
  /\ x \in 1..Len(lg) /\ lg[x].topic = "value" /\ x \notin CommittedOn(lg, n)
  /\ lg[x].body = "sample" /\ lg[x].ref # 0 => lg[x].ref \in Lineage(lg, n)

WorkerLine(lg, s) ==
  /\ \A x \in Open(s) : OpenValue(lg, x, s.node)
  /\ s.reg \subseteq {0} \cup Lineage(lg, s.node)
  /\ Unladen(s)
  /\ ~Held(s) => Open(s) = {} /\ s.reg = {}

(* A node committed what its writer might at its parent. *)
NodeLine(lg, n) ==
  /\ Readable(lg[n]) /\ lg[n].ref \in {0} \cup Extendable(lg, n - 1)
  /\ \A x \in lg[n].values : x < n /\ OpenValue(lg, x, lg[n].ref)

LinesInv ==
  /\ \A w \in Workers : WorkerLine(log, wk[w])
  /\ \A n \in Nodes : NodeLine(log, n)

LEMMA LogReffed == TypeInv => Reffed(log)
BY DEF TypeInv, TypeOK, Reffed, Record, Fields

LEMMA LogsReffed ==
  ASSUME TypeInv, LogStep
  PROVE  Reffed(log) /\ Reffed(log') /\ Len(log) <= Len(log')
<1>1. log' \in Seq(Record) /\ Len(log) <= Len(log')
  BY LogKept DEF Landed
<1> QED
  BY <1>1, LogReffed DEF Reffed, Record, Fields

LEMMA LineagesStay ==
  ASSUME TypeInv, LogStep, NEW n \in 0..Len(log)
  PROVE  Lineage(log', n) = Lineage(log, n) /\ CommittedOn(log', n) = CommittedOn(log, n)
<1>1. Reffed(log) /\ Reffed(log') /\ Len(log) <= Len(log')
  BY LogsReffed
<1>2. \A i \in 1..Len(log) : log'[i] = log[i]
  BY LogKept
<1> QED
  BY <1>1, <1>2, LineageKept, CommittedKept

LEMMA OpenStays ==
  ASSUME TypeInv, LogStep, NEW n \in 0..Len(log), NEW x, OpenValue(log, x, n)
  PROVE  OpenValue(log', x, n)
<1>1. Lineage(log', n) = Lineage(log, n) /\ CommittedOn(log', n) = CommittedOn(log, n)
  BY LineagesStay
<1>2. x \in 1..Len(log) /\ log'[x] = log[x] /\ x \in 1..Len(log')
  BY LogKept DEF OpenValue, Landed
<1> QED
  BY <1>1, <1>2 DEF OpenValue

(* The nodes of a lineage are nodes of the log. *)
LEMMA LineageOfNodes ==
  ASSUME TypeInv, LinesInv, NEW n \in {0} \cup Nodes
  PROVE  n \in 0..Len(log) /\ Lineage(log, n) \subseteq Nodes
<1>1. Reffed(log) /\ Len(log) \in Nat
  BY LogReffed DEF Reffed
<1>2. ASSUME NEW i \in Nodes PROVE log[i].ref \in {0} \cup Nodes
  <2>1. log[i].ref \in {0} \cup Extendable(log, i - 1)
    BY DEF LinesInv, NodeLine
  <2> QED
    BY <1>1, <2>1 DEF Extendable, Nodes
<1>3. n \in 0..Len(log)
  BY <1>1 DEF Nodes
<1> QED
  BY <1>1, <1>2, <1>3, LineageWithin

LEMMA ResumableNodes == Resumable \subseteq {0} \cup Nodes
BY DEF Resumable, Extendable, Nodes

(* A value that lands is committed nowhere yet. *)
LEMMA NewUncommitted ==
  ASSUME TypeInv, LogStep, LinesInv, Landed, NEW n \in Resumable
  PROVE  Len(log') \notin CommittedOn(log', n)
<1>1. n \in 0..Len(log) /\ Lineage(log, n) \subseteq Nodes
  BY LineageOfNodes, ResumableNodes
<1>2. CommittedOn(log', n) = CommittedOn(log, n)
  BY <1>1, LineagesStay
<1>3. ASSUME NEW i \in Lineage(log, n) PROVE Len(log') \notin log[i].values
  <2>1. i \in Nodes /\ \A x \in log[i].values : x < i /\ x \in 1..Len(log)
    BY <1>1 DEF LinesInv, NodeLine, OpenValue
  <2> QED
    BY <2>1, LogKept DEF Landed
<1> QED
  BY <1>2, <1>3 DEF CommittedOn

LEMMA LineMoves ==
  ASSUME TypeInv, LogStep, LinesInv, NodesInv, NEW w \in Workers,
         ValuesMove(wk[w], wk'[w])
  PROVE  WorkerLine(log', wk'[w])
<1> DEFINE v == wk[w]
           t == wk'[w]
<1>1. WorkerLine(log, v) /\ v.node \in Resumable /\ v.node \in 0..Len(log)
  BY NodesGrow DEF LinesInv, NodesInv
<1>2. /\ Lineage(log', v.node) = Lineage(log, v.node)
      /\ CommittedOn(log', v.node) = CommittedOn(log, v.node)
  BY <1>1, LineagesStay
<1>3. Reffed(log) /\ Reffed(log') /\ Len(log) \in Nat /\ v.claim \in Nat
  BY LogsReffed, StateOf DEF Reffed
<1>4. v.node \in {0} \cup Lineage(log, v.node)
  <2>1. CASE v.node # 0
    <3>1. v.node \in 1..Len(log)
      BY <1>1, <1>3, <2>1
    <3> QED
      BY <1>3, <3>1, LineageIs
  <2> QED
    BY <2>1
<1>5. ~Held(t) => Open(t) = {} /\ t.reg = {}
  BY <1>1 DEF ValuesMove, WorkerLine
<1>6. ~Held(v) => Open(t) = {} /\ t.reg = {}
  BY <1>1 DEF ValuesMove, WorkerLine
<1>7. Unladen(t)
  BY DEF ValuesMove
<1>8. CASE Open(t) = {} /\ t.reg = {}
  BY <1>7, <1>8 DEF WorkerLine
<1>9. CASE t.node = v.node /\ Held(v)
  <2>1. ASSUME NEW x \in Open(t) PROVE OpenValue(log', x, v.node)
    <3>1. CASE x \in Open(v)
      BY <1>1, <3>1, OpenStays DEF WorkerLine
    <3>2. CASE x \in Includable(v)
      <4>1. OpenValue(log, x, v.node)
        BY <1>3, <3>2 DEF Includable, OpenValue
      <4> QED
        BY <1>1, <4>1, OpenStays
    <3>3. CASE Lands(v, x)
      <4>1. /\ x = Len(log') /\ Landed /\ log'[x].topic = "value"
            /\ log'[x].body = "sample" => log'[x].ref \in v.reg
        BY <3>3 DEF Lands, Newest
      <4>2. x \notin CommittedOn(log', v.node)
        BY <1>1, <4>1, NewUncommitted
      <4>3. x \in 1..Len(log')
        BY <1>3, <4>1 DEF Landed
      <4>4. v.reg \subseteq {0} \cup Lineage(log', v.node)
        BY <1>1, <1>2 DEF WorkerLine
      <4> QED
        BY <4>1, <4>2, <4>3, <4>4 DEF OpenValue
    <3> QED
      BY <2>1, <3>1, <3>2, <3>3 DEF ValuesMove
  <2>2. t.reg \subseteq {0} \cup Lineage(log', t.node)
    BY <1>1, <1>2, <1>4, <1>9 DEF ValuesMove, WorkerLine
  <2> QED
    BY <1>5, <1>7, <1>9, <2>1, <2>2 DEF WorkerLine
<1>10. CASE Open(t) = {} /\ t.reg = v.reg /\ Landed /\ t.node = Len(log') /\ Newest.ref = v.node
  <2>1. t.node \in 1..Len(log') /\ log'[t.node].ref = v.node /\ v.node < t.node
    BY <1>1, <1>3, <1>10 DEF Landed, Newest
  <2>2. Lineage(log', t.node) = {t.node} \cup Lineage(log', v.node)
    BY <1>3, <2>1, LineageOf
  <2>3. t.reg \subseteq {0} \cup Lineage(log', t.node)
    BY <1>1, <1>2, <1>10, <2>2 DEF WorkerLine
  <2> QED
    BY <1>5, <1>7, <1>10, <2>3 DEF WorkerLine
<1> QED
  BY <1>6, <1>8, <1>9, <1>10 DEF ValuesMove

LEMMA LineStays ==
  ASSUME TypeInv, LogStep, LinesInv, NodesInv, NEW w \in Workers, wk'[w] = wk[w]
  PROVE  WorkerLine(log', wk'[w])
<1>1. WorkerLine(log, wk[w]) /\ wk[w].node \in 0..Len(log)
  BY NodesGrow DEF LinesInv, NodesInv
<1>2. Lineage(log', wk[w].node) = Lineage(log, wk[w].node)
  BY <1>1, LineagesStay
<1>3. \A x \in Open(wk[w]) : OpenValue(log', x, wk[w].node)
  BY <1>1, OpenStays DEF WorkerLine
<1> QED
  BY <1>1, <1>2, <1>3 DEF WorkerLine

LEMMA NodeLineStays ==
  ASSUME TypeInv, LogStep, LinesInv, NEW n \in Nodes
  PROVE  NodeLine(log', n)
<1>1. /\ NodeLine(log, n) /\ n \in 1..Len(log) /\ log'[n] = log[n] /\ Len(log) \in Nat
      /\ \A i \in 1..(n - 1) : log'[i] = log[i]
  BY LogKept DEF LinesInv, Nodes
<1>2. log[n].ref \in 0..Len(log)
  BY <1>1 DEF NodeLine, Extendable
<1>3. Extendable(log', n - 1) = Extendable(log, n - 1)
  BY <1>1 DEF Extendable
<1>4. \A x \in log[n].values : x < n /\ OpenValue(log', x, log[n].ref)
  BY <1>1, <1>2, OpenStays DEF NodeLine
<1> QED
  BY <1>1, <1>3, <1>4 DEF NodeLine

LEMMA NewNodeLine ==
  ASSUME TypeInv, LogStep, Step, LinesInv, NodesInv, Landed, IsNode(Newest)
  PROVE  NodeLine(log', Len(log'))
<1> DEFINE n == Len(log')
<1>1. PICK w \in Workers :
        /\ Newest.ref = wk[w].node /\ Readable(Newest)
        /\ Newest.values = wk[w].under.values
  BY NewNode
<1>2. WorkerLine(log, wk[w]) /\ wk[w].node \in Resumable /\ wk[w].node \in 0..Len(log)
  BY NodesGrow DEF LinesInv, NodesInv
<1>3. Len(log) \in Nat /\ n - 1 = Len(log) /\ \A i \in 1..Len(log) : log'[i] = log[i]
  BY LogKept DEF Landed
<1>4. Extendable(log', n - 1) = Extendable(log, Len(log))
  BY <1>3 DEF Extendable
<1>5. ASSUME NEW x \in wk[w].under.values
      PROVE  x < n /\ OpenValue(log', x, wk[w].node)
  <2>1. OpenValue(log, x, wk[w].node)
    BY <1>2 DEF WorkerLine, Open
  <2>2. x \in 1..Len(log)
    BY <2>1 DEF OpenValue
  <2> QED
    BY <1>2, <1>3, <2>1, <2>2, OpenStays
<1> QED
  BY <1>1, <1>2, <1>4, <1>5 DEF NodeLine, Newest, Resumable

LEMMA NextLines == RunInv /\ LinesInv /\ [Next]_vars => LinesInv'
<1> SUFFICES ASSUME RunInv, LinesInv, [Next]_vars PROVE LinesInv'
  OBVIOUS
<1>1. TypeInv /\ WriterInv /\ ReportsInv /\ NodesInv
  BY DEF RunInv, ClaimInv
<1>2. Step /\ LogStep
  BY <1>1, NextStep, StepGrows
<1>3. ASSUME NEW w \in Workers PROVE WorkerLine(log', wk'[w])
  <2>1. \A u \in Workers : Unladen(wk[u])
    BY DEF LinesInv, WorkerLine
  <2>2. wk'[w] = wk[w] \/ ValuesMove(wk[w], wk'[w])
    BY <1>1, <2>1, StepValues
  <2> QED
    BY <1>1, <1>2, <2>2, LineStays, LineMoves
<1>4. ASSUME NEW n \in Nodes' PROVE NodeLine(log', n)
  <2>1. CASE n \in Nodes
    BY <1>1, <1>2, <2>1, NodeLineStays
  <2>2. CASE n \notin Nodes
    <3>1. n \in 1..Len(log') /\ IsNode(log'[n])
      BY DEF Nodes
    <3>2. Landed /\ n = Len(log') /\ IsNode(Newest)
      BY <1>1, <1>2, <2>2, <3>1, LogKept DEF Nodes, Landed, Newest
    <3> QED
      BY <1>1, <1>2, <3>2, NewNodeLine
  <2> QED
    BY <2>1, <2>2
<1> QED
  BY <1>3, <1>4 DEF LinesInv

LEMMA InitLines == Init => LinesInv
<1> SUFFICES ASSUME Init PROVE LinesInv
  OBVIOUS
<1>1. Nodes = {}
  BY DEF Init, Nodes
<1>2. ASSUME NEW w \in Workers PROVE WorkerLine(log, wk[w])
  <2>1. wk[w] = NewWorker
    BY DEF Init
  <2>2. /\ NewWorker.pending = {} /\ NewWorker.reg = {} /\ NewWorker.under = NoNode
    BY DEF NewWorker
  <2> QED
    BY <2>1, <2>2, NoNodeValues DEF WorkerLine, Open, Unladen
<1> QED
  BY <1>1, <1>2 DEF LinesInv

LEMMA LinesHold == Spec => [](RunInv /\ LinesInv)
<1>1. Init => RunInv /\ LinesInv
  BY InitRunInv, InitLines
<1>2. RunInv /\ LinesInv /\ [Next]_vars => RunInv' /\ LinesInv'
  BY NextRunInv, NextLines
<1> QED
  BY <1>1, <1>2, PTL DEF Spec

(* The walk never raises on what this code wrote: along a lineage every    *)
(* node reads, extends a node that can be extended, and commits values     *)
(* below it that no node below it on the lineage commits, whatever workers *)
(* write between a claimant's read of the head and its claim, and however  *)
(* a driver rewinds.                                                       *)
THEOREM LineagesAlwaysWalk == Spec => []LineagesWalk
<1>1. RunInv /\ LinesInv => LineagesWalk
  <2> SUFFICES ASSUME RunInv, LinesInv, NEW n \in Nodes PROVE ~WalkRaises(log, n)
    BY DEF LineagesWalk
  <2>1. TypeInv /\ Reffed(log)
    BY LogReffed DEF RunInv, ClaimInv
  <2>2. n \in 0..Len(log) /\ Lineage(log, n) \subseteq Nodes
    BY <2>1, LineageOfNodes
  <2>3. ASSUME NEW i \in Lineage(log, n)
        PROVE  /\ NodeLine(log, i) /\ i \in 1..Len(log) /\ ~BadNode(log, i)
               /\ Readable(log[i])
               /\ \A x \in log[i].values : log[x].topic = "value"
    <3>1. NodeLine(log, i) /\ i \in 1..Len(log)
      BY <2>2 DEF LinesInv, Nodes
    <3>2. \A x \in log[i].values : x < i /\ x \in 1..Len(log) /\ log[x].topic = "value"
      BY <3>1 DEF NodeLine, OpenValue
    <3>3. ~BadNode(log, i)
      BY <3>1, <3>2 DEF BadNode, BadReference, NodeLine
    <3> QED
      BY <3>1, <3>2, <3>3 DEF NodeLine
  <2>4. ASSUME NEW i \in Lineage(log, n), NEW j \in Lineage(log, n), i < j
        PROVE  log[i].values \cap log[j].values = {}
    <3>1. i \in Lineage(log, log[j].ref)
      BY <2>1, <2>2, <2>4, LineageDescends
    <3>2. log[i].values \subseteq CommittedOn(log, log[j].ref)
      BY <3>1 DEF CommittedOn
    <3>3. \A x \in log[j].values : x \notin CommittedOn(log, log[j].ref)
      BY <2>3 DEF NodeLine, OpenValue
    <3> QED
      BY <3>2, <3>3
  <2>5. \A i, j \in Lineage(log, n) : i # j => i < j \/ j < i
    BY <2>3
  <2> QED
    BY <2>3, <2>4, <2>5 DEF WalkRaises, ChainRaises
<1> QED
  BY <1>1, LinesHold, PTL

(* A register's sample is committed only on a lineage that holds the node  *)
(* the register was set at: none outlives a rewind to another branch.      *)
THEOREM SamplesStayOnLineage == Spec => []SamplesOnLineage
<1>1. RunInv /\ LinesInv => SamplesOnLineage
  <2> SUFFICES ASSUME RunInv, LinesInv, NEW n \in Nodes, NEW x \in log[n].values,
                      log[x].body = "sample", log[x].ref # 0
               PROVE  log[x].ref \in Lineage(log, n)
    BY DEF SamplesOnLineage
  <2>1. TypeInv /\ Reffed(log) /\ n \in 1..Len(log)
    BY LogReffed DEF RunInv, ClaimInv, Nodes
  <2>2. NodeLine(log, n)
    BY DEF LinesInv
  <2>3. log[x].ref \in Lineage(log, log[n].ref) /\ log[n].ref < n
    BY <2>1, <2>2 DEF NodeLine, OpenValue, Extendable
  <2> QED
    BY <2>1, <2>3, LineageOf
<1> QED
  BY <1>1, LinesHold, PTL

-----------------------------------------------------------------------------
(* A claimant that follows the head.  Continues says what its claim, made  *)
(* at the tail W, resumes from: the root of a run without claims, or the   *)
(* head of the newest claim as it was at W, a torn head's parent.          *)

Continues(lg, W, p) ==
  Claims(lg, W) # {} =>
    \E c \in Claims(lg, W), n \in 0..W :
      /\ IsNewestClaim(lg, c, W) /\ HeadReadable(lg, c, W) /\ IsHead(lg, c, W, n)
      /\ p = ResumeNode(lg, n)

FollowsHead(s) ==
  s.up /\ s.pc \in ClaimPcs =>
    /\ s.follow
    /\ s.pc # "claim" => s.w \in 0..Len(log) /\ Continues(log, s.w, s.node)

FollowInv == \A w \in Workers : FollowsHead(wk[w])

(* What a bounded read of the head says, it says of every longer log. *)
LEMMA HeadSame ==
  ASSUME TypeInv, LogStep, NEW W \in 0..Len(log), NEW c \in Claims(log, W)
  PROVE  /\ HeadReadable(log, c, W) => HeadReadable(log', c, W)
         /\ \A n : IsHead(log, c, W, n) => IsHead(log', c, W, n)
<1> DEFINE own(lg) == {i \in (c + 1)..W : OwnedBy(lg[i], c)}
<1>1. /\ c \in 1..Len(log) /\ W \in Nat /\ Len(log) \in Nat /\ c <= W
      /\ \A i \in 1..W : log'[i] = log[i] /\ i \in 1..Len(log)
      /\ \A i \in (c + 1)..W : i \in 1..W
  BY LogKept DEF Claims
<1>2. own(log') = own(log)
  BY <1>1
<1>3. \A i \in 0..(W + 1) : \A p : IsPosition(log, c, i, p) => IsPosition(log', c, i, p)
  BY <1>1, PositionSame
<1>4. Endings(log', c, W) = Endings(log, c, W)
  BY <1>1, EndingsGrow
<1>5. \A i \in Endings(log, c, W) : log'[i] = log[i]
  BY <1>1 DEF Endings
<1>6. HasExit(log', c, W) = HasExit(log, c, W)
  BY <1>4, <1>5 DEF HasExit
<1>7. ASSUME NEW n, IsHead(log, c, W, n) PROVE IsHead(log', c, W, n)
  <2>1. W + 1 \in 0..(W + 1)
    BY <1>1
  <2> QED
    BY <1>3, <1>4, <1>5, <1>6, <1>7, <2>1 DEF IsHead
<1>8. ASSUME HeadReadable(log, c, W) PROVE HeadReadable(log', c, W)
  <2>1. \A i \in {c} \cup own(log) : i \in 1..W /\ log'[i] = log[i] /\ i \in 0..(W + 1)
    BY <1>1
  <2>2. ASSUME NEW i \in 1..W, ~BadReference(log, i) PROVE ~BadReference(log', i)
    <3>1. Extendable(log, i - 1) = Extendable(log', i - 1)
      BY <1>1 DEF Extendable
    <3> QED
      BY <1>1, <2>2, <3>1 DEF BadReference
  <2>3. \A i \in {c} \cup own(log') : Readable(log'[i])
    BY <1>2, <1>8, <2>1 DEF HeadReadable
  <2>4. \A i \in {c} \cup {j \in own(log') : log'[j].topic = "rewind"} : ~BadReference(log', i)
    BY <1>2, <1>8, <2>1, <2>2 DEF HeadReadable
  <2>5. \A i \in own(log') : log'[i].topic # "rewind" => IsPosition(log', c, i, log'[i].ref)
    BY <1>2, <1>3, <1>8, <2>1 DEF HeadReadable
  <2>6. \A i, j \in own(log') : i < j => log'[i].topic # "stopped"
    BY <1>2, <1>8, <2>1 DEF HeadReadable
  <2> QED
    BY <2>3, <2>4, <2>5, <2>6 DEF HeadReadable
<1> QED
  BY <1>7, <1>8

LEMMA ContinuesStays ==
  ASSUME TypeInv, LogStep, NEW W \in 0..Len(log), NEW p, Continues(log, W, p)
  PROVE  Continues(log', W, p)
<1>1. /\ W \in Nat /\ Len(log) \in Nat
      /\ \A i \in 1..W : log'[i] = log[i]
  BY LogKept
<1>2. Claims(log', W) = Claims(log, W)
  BY <1>1 DEF Claims
<1> SUFFICES ASSUME Claims(log, W) # {} PROVE Continues(log', W, p)
  BY <1>2 DEF Continues
<1> PICK c \in Claims(log, W), n \in 0..W :
      /\ IsNewestClaim(log, c, W) /\ HeadReadable(log, c, W) /\ IsHead(log, c, W, n)
      /\ p = ResumeNode(log, n)
  BY DEF Continues
<1>3. IsNewestClaim(log', c, W) /\ HeadReadable(log', c, W) /\ IsHead(log', c, W, n)
  BY <1>2, HeadSame DEF IsNewestClaim
<1>4. ResumeNode(log', n) = ResumeNode(log, n)
  BY <1>1 DEF ResumeNode
<1> QED
  BY <1>2, <1>3, <1>4 DEF Continues

-----------------------------------------------------------------------------
(* A claimant reads the head again, or keeps what it read. *)

FollowsOn(v, t) ==
  t.up /\ t.pc \in ClaimPcs =>
    /\ t.follow
    /\ \/ t.pc = "claim"
       \/ t.w = Len(log) /\ Continues(log, t.w, t.node)
       \/ v.up /\ v.pc \in ClaimPcs \ {"claim"} /\ t.w = v.w /\ t.node = v.node

LEMMA FollowsMove ==
  ASSUME TypeInv, LogStep, NEW w \in Workers, FollowsHead(wk[w]), FollowsOn(wk[w], wk'[w])
  PROVE  FollowsHead(wk[w])'
<1> DEFINE v == wk[w]
           t == wk'[w]
<1>1. Len(log) \in Nat /\ Len(log') \in Nat /\ Len(log) <= Len(log')
  BY LogKept DEF Landed
<1> SUFFICES ASSUME t.up, t.pc \in ClaimPcs, t.pc # "claim"
             PROVE  t.w \in 0..Len(log') /\ Continues(log', t.w, t.node)
  BY DEF FollowsHead, FollowsOn
<1>2. t.w \in 0..Len(log) /\ Continues(log, t.w, t.node)
  BY <1>1 DEF FollowsHead, FollowsOn
<1>3. Continues(log', t.w, t.node)
  BY <1>2, ContinuesStays
<1> HIDE DEF t
<1> QED
  BY <1>1, <1>2, <1>3

LEMMA ClaimantFollows ==
  ASSUME TypeInv, Starts \subseteq {"head"}, NEW w \in Workers, FollowsHead(wk[w]),
         \/ Construct(w) \/ ResumePoint(w) \/ ReadLatest(w) \/ ClaimCas(w)
         \/ ClaimStarved(w) \/ ProbeLatest(w) \/ ProbeHeld(w)
  PROVE  FollowsOn(wk[w], wk'[w])
<1> DEFINE v == wk[w]
           t == wk'[w]
           i == Idle(v)
           AtHead == [v EXCEPT !.pc = "claim", !.phase = "lost", !.follow = TRUE]
           At0(W, n, k) == [v EXCEPT !.pc = "latest", !.w = W, !.node = n, !.tries = k]
           Goes(p) == [v EXCEPT !.pc = p]
           Sees(c) == [v EXCEPT !.pc = "held", !.seen = c]
           Won(c, d) == [v EXCEPT !.pc = "answers", !.phase = "live", !.claim = c,
                                  !.drained = d, !.tries = 0]
           raised == [i EXCEPT !.phase = "raised"]
           Reads(n) == \E k : Become(w, At0(Len(log), n, k))
<1>1. v \in WorkerState
  BY StateOf
<1>2. /\ AtHead.pc = "claim" /\ AtHead.follow
      /\ \A W, n, k : /\ At0(W, n, k).follow = v.follow
                      /\ At0(W, n, k).w = W /\ At0(W, n, k).node = n
      /\ \A p : /\ Goes(p).follow = v.follow
                /\ Goes(p).w = v.w /\ Goes(p).node = v.node
      /\ \A c : /\ Sees(c).follow = v.follow
                /\ Sees(c).w = v.w /\ Sees(c).node = v.node
      /\ \A c, d : Won(c, d).pc = "answers"
  <2> HIDE DEF v
  <2> QED
    BY <1>1 DEF WorkerState
<1>3. i.pc = "idle" /\ raised.pc = "idle"
  <2>1. i \in WorkerState /\ i.pc = "idle"
    BY <1>1, IdleType, IdleFrame
  <2> HIDE DEF i
  <2> QED
    BY <2>1 DEF WorkerState
<1>4. \A s : Become(w, s) => t = s
  BY Becomes
<1>5. CASE Construct(w)
  <2>1. "root" \notin Starts /\ "node" \notin Starts
    BY Zenon
  <2>2. Become(w, AtHead)
    BY <1>5, <2>1 DEF Construct
  <2> HIDE DEF AtHead, t, v
  <2>3. t.follow /\ t.pc = "claim"
    BY <1>2, <1>4, <2>2
  <2> QED
    BY <2>3 DEF FollowsOn, t, v
<1>6. ASSUME v.up, v.pc \in ClaimPcs \ {"claim"}, t.follow = v.follow,
             t.w = v.w, t.node = v.node
      PROVE  FollowsOn(v, t)
  <2>1. v.follow
    BY <1>6 DEF FollowsHead
  <2> HIDE DEF v, t
  <2> QED
    BY <1>6, <2>1 DEF FollowsOn
<1>7. ASSUME NEW p, v.up, v.pc \in ClaimPcs \ {"claim"}, Become(w, Goes(p))
      PROVE  FollowsOn(v, t)
  <2> HIDE DEF Goes, v, t
  <2> QED
    BY <1>2, <1>4, <1>6, <1>7
<1>8. ASSUME Become(w, raised) \/ Become(w, i) PROVE FollowsOn(v, t)
  <2> HIDE DEF raised, i, v, t
  <2>1. t.pc = "idle"
    BY <1>3, <1>4, <1>8
  <2> QED
    BY <2>1 DEF FollowsOn, ClaimPcs
<1>9. CASE ResumePoint(w)
  <2>1. v.up /\ v.pc = "claim"
    BY <1>9 DEF ResumePoint, At
  <2>2. v.follow
    BY <2>1 DEF FollowsHead, ClaimPcs
  <2>3. \/ Raise(w)
        \/ Claims(log, Len(log)) = {} /\ Reads(0)
        \/ \E c \in Claims(log, Len(log)) :
             /\ IsNewestClaim(log, c, Len(log)) /\ HeadReadable(log, c, Len(log))
             /\ \E n \in 0..Len(log) : IsHead(log, c, Len(log), n) /\ Reads(ResumeNode(log, n))
    BY <1>9, <2>2 DEF ResumePoint
  <2>5. CASE Raise(w)
    BY <1>8, <2>5 DEF Raise
  <2> HIDE DEF AtHead, At0, Goes, Sees, Won, t, v
  <2>4. ASSUME NEW p, Reads(p), Continues(log, Len(log), p) PROVE FollowsOn(v, t)
    <3> PICK k : Become(w, At0(Len(log), p, k))
      BY <2>4
    <3>1. t = At0(Len(log), p, k)
      BY <1>4
    <3>2. /\ At0(Len(log), p, k).follow = v.follow
          /\ At0(Len(log), p, k).w = Len(log) /\ At0(Len(log), p, k).node = p
      BY <1>2
    <3>3. t.follow /\ t.w = Len(log) /\ t.node = p
      BY <2>2, <3>1, <3>2
    <3> QED
      BY <2>4, <3>3 DEF FollowsOn
  <2> HIDE DEF Reads
  <2>6. CASE Claims(log, Len(log)) = {} /\ Reads(0)
    <3>1. Continues(log, Len(log), 0)
      BY <2>6 DEF Continues
    <3> QED
      BY <2>4, <2>6, <3>1 DEF t, v
  <2>7. ASSUME NEW c \in Claims(log, Len(log)), IsNewestClaim(log, c, Len(log)),
               HeadReadable(log, c, Len(log)), NEW n \in 0..Len(log),
               IsHead(log, c, Len(log), n), Reads(ResumeNode(log, n))
        PROVE  FollowsOn(v, t)
    <3>1. Continues(log, Len(log), ResumeNode(log, n))
      BY <2>7, Zenon DEF Continues
    <3> QED
      BY <2>4, <2>7, <3>1
  <2> QED
    BY <2>3, <2>5, <2>6, <2>7 DEF v, t
<1>10. CASE ReadLatest(w)
  <2>1. v.up /\ v.pc \in ClaimPcs \ {"claim"}
    BY <1>10 DEF ReadLatest, At, ClaimPcs
  <2>2. \E p : Become(w, Goes(p))
    BY <1>10 DEF ReadLatest
  <2> QED
    BY <1>7, <2>1, <2>2, Zenon
<1>11. CASE ProbeLatest(w)
  <2>1. v.up /\ v.pc \in ClaimPcs \ {"claim"}
    BY <1>11 DEF ProbeLatest, At, ClaimPcs
  <2>2. PICK c : Become(w, Sees(c))
    BY <1>11 DEF ProbeLatest
  <2>3. t = Sees(c)
    BY <1>4, <2>2
  <2> HIDE DEF Sees, t, v
  <2>4. t.follow = v.follow /\ t.w = v.w /\ t.node = v.node
    BY <1>2, <2>3
  <2> QED
    BY <1>6, <2>1, <2>4 DEF t, v
<1>12. CASE ClaimCas(w)
  <2>1. v.up /\ v.pc \in ClaimPcs \ {"claim"}
    BY <1>12 DEF ClaimCas, At, ClaimPcs
  <2>2. Become(w, Goes("claim")) \/ \E c, d : Become(w, Won(c, d))
    BY <1>12 DEF ClaimCas
  <2>3. ASSUME NEW c, NEW d, Become(w, Won(c, d)) PROVE FollowsOn(v, t)
    <3> HIDE DEF Won, v, t
    <3>1. t.pc = "answers"
      BY <1>2, <1>4, <2>3
    <3> QED
      BY <3>1 DEF FollowsOn, ClaimPcs
  <2> QED
    BY <1>7, <2>1, <2>2, <2>3, Zenon
<1>13. CASE ClaimStarved(w)
  BY <1>8, <1>13 DEF ClaimStarved, Raise
<1>14. CASE ProbeHeld(w)
  <2>1. v.up /\ v.pc \in ClaimPcs \ {"claim"}
    BY <1>14 DEF ProbeHeld, At, ClaimPcs
  <2>2. Become(w, Goes("report")) \/ Become(w, i)
    BY <1>14 DEF ProbeHeld
  <2> QED
    BY <1>7, <1>8, <2>1, <2>2, Zenon
<1> QED
  BY <1>5, <1>9, <1>10, <1>11, <1>12, <1>13, <1>14

(* Whoever holds a claim, or has lost it, claims no more. *)
LEMMA OthersFollow ==
  ASSUME TypeInv, WriterInv, NEW w \in Workers,
         \/ FoldAnswers(w) \/ FoldRaises(w) \/ CallStep(w) \/ BeginStopped(w)
         \/ RetryStarved(w) \/ DrainStep(w) \/ NodeStep(w) \/ CallRaises(w)
         \/ ProcessEnds(w)
  PROVE  FollowsOn(wk[w], wk'[w])
<1> DEFINE v == wk[w]
           t == wk'[w]
           Working == WorkerStep(w) /\ (v.pc \in WorkPcs \/ (v.pc = "idle" /\ v.phase # "new"))
<1>1. ASSUME Working PROVE FollowsOn(v, t)
  <2>1. v.phase # "new" /\ v.pc \notin ClaimPcs
    BY <1>1 DEF WorkerStep, ControlMoves, WriterInv, WorkPcs, ClaimPcs
  <2>2. t.pc \notin ClaimPcs
    BY <1>1, <2>1 DEF WorkerStep, ControlMoves
  <2> QED
    BY <2>2 DEF FollowsOn
<1>2. CASE FoldAnswers(w) \/ FoldRaises(w)
  <2>1. v.pc \in WorkPcs
    BY <1>2 DEF FoldAnswers, FoldRaises, At, WorkPcs
  <2> QED
    BY <1>1, <1>2, <2>1, FoldStep
<1>3. CASE CallStep(w) \/ BeginStopped(w) \/ RetryStarved(w)
  <2>1. WorkerStep(w)
    BY <1>3, CallStepStep, BeginStep DEF CallStep
  <2>2. \E phases : Callable(w, phases) /\ "new" \notin phases
    <3>1. Callable(w, {"live"}) \/ Callable(w, {"live", "discarded"}) \/ Callable(w, {"starved"})
      BY <1>3 DEF CallStep, Emit, SetRegister, Include, Rewind, Discard, BeginCommit,
                  BeginHeartbeat, BeginRetire, BeginStopped, RetryStarved, Call
    <3> QED
      BY <3>1
  <2>3. v.pc = "idle" /\ v.phase # "new"
    BY <2>2 DEF Callable, At
  <2> QED
    BY <1>1, <2>1, <2>3
<1>4. CASE DrainStep(w)
  <2>1. WorkerStep(w)
    BY <1>4, DrainReadStep, RaisingStep, TakeStep, WriteAnswerStep, SMTT(60)
    DEF DrainStep, Raising
  <2>2. v.pc \in {"drain", "take"}
    BY <1>4 DEF DrainStep, DrainRead, DrainStarved, TakeRecord, WriteAnswer, At
  <2> QED
    BY <1>1, <2>1, <2>2 DEF WorkPcs
<1>5. CASE NodeStep(w)
  <2>1. WorkerStep(w)
    BY <1>5, DecideStep, SampleStep, NodeFailsStep, NodeSendStep, ExitNodeStep,
       ExitCasStep, SMTT(60) DEF NodeStep
  <2>2. v.pc \in {"take", "sample", "send", "beat"}
    BY <1>5 DEF NodeStep, CommitDecide, SampleSend, NodeFails, CommitSend,
                CommitUnacknowledged, HeartbeatDecide, HeartbeatSend, ExitNode,
                ExitPrepared, ExitCas, Drained, At
  <2> QED
    BY <1>1, <2>1, <2>2 DEF WorkPcs
<1>6. CASE ProcessEnds(w)
  BY <1>6, GoneStep DEF Gone, FollowsOn
<1>7. CASE CallRaises(w)
  BY <1>1, <1>7, RaisingIs, RaisingStep DEF Raising, WorkPcs
<1> QED
  BY <1>2, <1>3, <1>4, <1>5, <1>6, <1>7

(* A claimant whose report ends claims from the start, or not at all. *)
LEMMA ReportFollows ==
  ASSUME TypeInv, ReportsInv, NEW x \in Actors, ReportStep(x), NEW w \in Workers,
         FollowsHead(wk[w])
  PROVE  wk'[w] = wk[w] \/ FollowsOn(wk[w], wk'[w])
<1> DEFINE v == wk[w]
           i == Idle(v)
           back == [v EXCEPT !.pc = "claim", !.seen = 0]
           raised == [i EXCEPT !.phase = "raised"]
<1>1. SUFFICES ASSUME wk'[w] # v PROVE FollowsOn(v, wk'[w])
  OBVIOUS
<1>2. x = w /\ rep[w].pc # "idle"
  <2>1. ReportMoves(x)
    BY ReportStepStep
  <2>2. x # w => wk'[w] = v
    BY <2>1 DEF ReportMoves, ReportGoesOn, ReportIsOver, TypeInv, TypeOK
  <2> QED
    BY <1>1, <2>1, <2>2 DEF ReportMoves
<1>3. v \in WorkerState /\ v.up /\ v.pc = "report"
  BY <1>2, StateOf DEF ReportsInv
<1>4. Become(w, i) \/ Become(w, back) \/ Become(w, raised)
  BY <1>1, <1>2 DEF ReportStep, ReportRead, ReportCas, ReportStarved, ReportEnds
<1>5. i.pc = "idle" /\ raised.pc = "idle"
  <2>1. i \in WorkerState /\ i.pc = "idle"
    BY <1>3, IdleType, IdleFrame
  <2> HIDE DEF i
  <2> QED
    BY <2>1 DEF WorkerState
<1>6. back.pc = "claim" /\ back.follow = v.follow
  <2> HIDE DEF v
  <2> QED
    BY <1>3 DEF WorkerState
<1>7. v.follow
  BY <1>3 DEF FollowsHead, ClaimPcs
<1>8. \A s : Become(w, s) => wk'[w] = s
  BY Becomes
<1> HIDE DEF i, back, raised, v
<1>9. wk'[w].pc = "idle" \/ (wk'[w].pc = "claim" /\ wk'[w].follow)
  BY <1>4, <1>5, <1>6, <1>7, <1>8
<1> QED
  BY <1>9 DEF FollowsOn, ClaimPcs

LEMMA StepFollows ==
  ASSUME TypeInv, WriterInv, ReportsInv, Starts \subseteq {"head"}, FollowInv, [Next]_vars
  PROVE  FollowInv'
<1>1. LogStep
  BY NextStep, StepGrows
<1> SUFFICES ASSUME NEW w \in Workers PROVE FollowsHead(wk[w])'
  BY DEF FollowInv
<1>2. FollowsHead(wk[w])
  BY DEF FollowInv
<1>3. ASSUME FollowsOn(wk[w], wk'[w]) PROVE FollowsHead(wk[w])'
  BY <1>1, <1>2, <1>3, FollowsMove
<1>4. ASSUME wk'[w] = wk[w] PROVE FollowsHead(wk[w])'
  <2> DEFINE s == wk[w]
  <2> SUFFICES ASSUME s.up, s.pc \in ClaimPcs
               PROVE  s.follow /\ (s.pc # "claim" => s.w \in 0..Len(log')
                                                     /\ Continues(log', s.w, s.node))
    BY <1>4 DEF FollowsHead
  <2>1. s.follow /\ (s.pc # "claim" => s.w \in 0..Len(log) /\ Continues(log, s.w, s.node))
    BY <1>2 DEF FollowsHead
  <2>2. Len(log) \in Nat /\ Len(log') \in Nat /\ Len(log) <= Len(log')
    BY <1>1, LogKept DEF Landed
  <2> HIDE DEF s
  <2> QED
    BY <1>1, <2>1, <2>2, ContinuesStays
<1>5. CASE \E x \in Actors : ReportStep(x)
  BY <1>2, <1>3, <1>4, <1>5, ReportFollows
<1>6. CASE (\E p \in Reporters : StartReport(p)) \/ (\E e \in Asks : Ask(e)) \/ UNCHANGED vars
  BY <1>4, <1>6 DEF StartReport, Ask, vars
<1>7. ASSUME NEW x \in Workers,
             \/ Construct(x) \/ ClaimStep(x) \/ CallStep(x) \/ BeginStopped(x)
             \/ RetryStarved(x) \/ DrainStep(x) \/ NodeStep(x) \/ CallRaises(x)
             \/ ProcessEnds(x)
      PROVE  FollowsHead(wk[w])'
  <2>1. x = w \/ wk'[w] = wk[w]
    <3>1. wk' = [wk EXCEPT ![x] = wk'[x]]
      BY <1>7, OwnStep
    <3> QED
      BY <3>1 DEF TypeInv, TypeOK
  <2>2. CASE x = w
    BY <1>2, <1>3, <1>7, <2>2, ClaimantFollows, OthersFollow DEF ClaimStep
  <2> QED
    BY <1>4, <2>1, <2>2
<1> QED
  BY <1>5, <1>6, <1>7 DEF Next

-----------------------------------------------------------------------------
(* The head of a claim that reads. *)

HeadOf(lg, c, n) ==
  /\ c \in Claims(lg, Len(lg)) /\ IsNewestClaim(lg, c, Len(lg))
  /\ n \in 0..Len(lg) /\ IsHead(lg, c, Len(lg), n)

LEMMA HeadNodesAre ==
  ASSUME NEW lg, NEW x
  PROVE  x \in HeadNodes(lg) <=>
           /\ x \in Extendable(lg, Len(lg))
           /\ \E c, n : HeadOf(lg, c, n) /\ x \in Lineage(lg, n)
<1> DEFINE heads == {m \in 0..Len(lg) : \E c \in Claims(lg, Len(lg)) :
                        IsNewestClaim(lg, c, Len(lg)) /\ IsHead(lg, c, Len(lg), m)}
<1>1. \A n : n \in heads <=> \E c : HeadOf(lg, c, n)
  BY Zenon DEF HeadOf
<1>2. HeadNodes(lg) = UNION {Lineage(lg, n) \cap Extendable(lg, Len(lg)) : n \in heads}
  BY DEF HeadNodes
<1> HIDE DEF heads
<1> QED
  BY <1>1, <1>2

(* A claim won continues the head: what could be built upon there stays.   *)
LEMMA WonKeepsHead ==
  ASSUME RunInv, HeadAlwaysReads, FollowInv, NEW w \in Workers, ClaimWon(w),
         NEW c, NEW m, HeadOf(log, c, m),
         NEW x \in Extendable(log, Len(log)), x \in Lineage(log, m)
  PROVE  \E d, n : HeadOf(log', d, n) /\ x \in Lineage(log', n)
<1> DEFINE v == wk[w]
           W == Len(log)
           N == Len(log')
<1>1. TypeInv /\ Step /\ LogStep
  BY StepGrows DEF RunInv, ClaimInv, Step
<1>2. PICK e \in Record : e.topic = "started" /\ e.ref = v.node /\ Send(e)
  BY DEF ClaimWon
<1>3. /\ W \in Nat /\ N = W + 1 /\ log'[N] = e
      /\ log' \in Seq(Record)
  BY <1>1, <1>2, Sent DEF TypeInv, TypeOK
<1>4. v.w = W /\ Continues(log, W, v.node)
  BY DEF ClaimWon, FollowInv, FollowsHead, ClaimPcs
<1>5. /\ c \in Claims(log, W) /\ IsNewestClaim(log, c, W) /\ m \in 0..W
      /\ IsHead(log, c, W, m)
  BY DEF HeadOf
<1>6. PICK d \in Claims(log, W), n \in 0..W :
        /\ IsNewestClaim(log, d, W) /\ HeadReadable(log, d, W) /\ IsHead(log, d, W, n)
        /\ v.node = ResumeNode(log, n)
  BY <1>4, <1>5 DEF Continues
<1>7. d = c
  BY <1>3, <1>5, <1>6 DEF IsNewestClaim, Claims
<1>8. v.node = ResumeNode(log, m)
  BY <1>3, <1>5, <1>6, <1>7, OneHead
<1>9. v.node \in 0..W /\ v.node \in 0..N
  BY <1>1, <1>3, NodesGrow DEF RunInv, NodesInv
<1>10. x \in Lineage(log, v.node)
  <2>1. CASE m # 0 /\ Torn(log[m])
    <3>1. x # m
      BY <2>1 DEF Extendable
    <3>2. Reffed(log) /\ m \in 1..W
      BY <1>1, <1>5, <2>1, LogReffed
    <3> QED
      BY <1>8, <2>1, <3>1, <3>2, LineageOf DEF ResumeNode
  <2>2. CASE ~(m # 0 /\ Torn(log[m]))
    BY <1>8, <2>2 DEF ResumeNode
  <2> QED
    BY <2>1, <2>2
<1>11. x \in Lineage(log', v.node)
  BY <1>1, <1>9, <1>10, LineagesStay
<1>12. HeadOf(log', N, v.node)
  <2>1. N \in Claims(log', N) /\ IsNewestClaim(log', N, N)
    BY <1>2, <1>3 DEF Claims, IsNewestClaim
  <2>2. ~HasExit(log', N, N)
    BY <1>3 DEF HasExit, Endings
  <2>3. Positions(log', N, N + 1) = {N}
    BY <1>3 DEF Positions
  <2>4. IsPosition(log', N, N + 1, v.node)
    BY <1>2, <1>3, <2>3 DEF IsPosition
  <2> HIDE DEF N
  <2>5. IsHead(log', N, N, v.node)
    BY <2>2, <2>4 DEF IsHead
  <2> QED
    BY <1>9, <2>1, <2>5 DEF HeadOf, N
<1> QED
  BY <1>11, <1>12

(* A record of the newest claim extends its head. *)
LEMMA OwnKeepsHead ==
  ASSUME TypeInv, LogStep, Landed, HeadAlwaysReads', NEW c, NEW m, HeadOf(log, c, m),
         Newest.topic \notin {"started", "rewind"},
         NEW x, x \in Lineage(log, m)
  PROVE  \E n : HeadOf(log', c, n) /\ x \in Lineage(log', n)
<1> DEFINE W == Len(log)
           N == Len(log')
           own == {i \in (c + 1)..N : OwnedBy(log'[i], c)}
<1>1. /\ W \in Nat /\ N = W + 1 /\ N \in Nat /\ Newest = log'[N]
      /\ \A i \in 1..W : log'[i] = log[i]
  BY LogKept DEF Landed, Newest
<1>2. /\ c \in 1..W /\ c \in Claims(log, W) /\ IsNewestClaim(log, c, W) /\ m \in 0..W
      /\ IsHead(log, c, W, m)
  BY DEF HeadOf, Claims
<1>3. c \in Claims(log', N) /\ IsNewestClaim(log', c, N)
  <2>1. Claims(log', N) = Claims(log, W)
    <3>1. \A i \in Claims(log', N) : i \in 1..W /\ i \in Claims(log, W)
      BY <1>1 DEF Claims
    <3>2. \A i \in Claims(log, W) : i \in Claims(log', N)
      BY <1>1 DEF Claims
    <3> QED
      BY <3>1, <3>2
  <2> QED
    BY <1>2, <2>1 DEF IsNewestClaim
<1>4. Lineage(log', m) = Lineage(log, m)
  BY <1>2, LineagesStay
<1>5. /\ Endings(log, c, W) \subseteq Endings(log', c, N)
      /\ \A i \in Endings(log, c, W) : i \in (c + 1)..W /\ log'[i] = log[i]
      /\ \A i \in Endings(log', c, N) : i \in (c + 1)..N
      /\ \A i \in Endings(log', c, N) : i \in Endings(log, c, W) \/ i = N
  BY <1>1, <1>2 DEF Endings
<1>6. HasExit(log, c, W) => HasExit(log', c, N)
  BY <1>5 DEF HasExit
<1>7. CASE OwnedBy(Newest, c)
  <2>1. HeadReadable(log', c, N)
    BY <1>3 DEF HeadAlwaysReads, AllClaims
  <2>2. N \in own
    BY <1>1, <1>2, <1>7
  <2>3. ~HasExit(log, c, W)
    <3> SUFFICES ASSUME NEW i \in Endings(log, c, W), log[i].topic = "stopped",
                        Readable(log[i])
                 PROVE  FALSE
      BY DEF HasExit
    <3>1. i \in own /\ i < N
      BY <1>1, <1>2, <1>5 DEF OwnedBy, Endings
    <3> QED
      BY <1>5, <2>1, <2>2, <3>1 DEF HeadReadable
  <2>4. IsPosition(log', c, N, m)
    <3>1. IsPosition(log, c, N, m)
      BY <1>1, <1>2, <2>3 DEF IsHead
    <3> QED
      BY <1>1, <1>2, <3>1, PositionSame
  <2>5. IsPosition(log', c, N, Newest.ref)
    BY <1>1, <2>1, <2>2 DEF HeadReadable
  <2>6. Newest.ref = m
    BY <1>1, <1>2, <2>4, <2>5, OnePosition
  <2>7. x \in Lineage(log', N)
    <3>1. Reffed(log') /\ N \in 1..Len(log')
      BY <1>1, LogsReffed
    <3>2. log'[N].ref < N
      BY <1>1, <1>2, <2>6
    <3>3. Lineage(log', N) = {N} \cup Lineage(log', m)
      BY <1>1, <2>6, <3>1, <3>2, LineageOf
    <3> QED
      BY <1>4, <3>3
  <2>8. CASE Newest.topic = "stopped"
    <3>1. N \in Endings(log', c, N) /\ Readable(log'[N])
      BY <1>1, <1>2, <1>7, <2>8 DEF Endings, OwnedBy
    <3>2. IsHead(log', c, N, N)
      BY <1>1, <2>8, <3>1 DEF IsHead, HasExit
    <3> QED
      BY <1>1, <1>3, <2>7, <3>2 DEF HeadOf
  <2>9. CASE Newest.topic = "commit"
    <3>1. ~HasExit(log', c, N)
      BY <1>1, <1>5, <2>3, <2>9 DEF HasExit
    <3>2. IsPosition(log', c, N + 1, N)
      <4>1. Moving(Newest, c)
        BY <1>7, <2>9 DEF Moving, OwnedBy
      <4> QED
        BY <1>2, <2>9, <4>1, PositionMoves
    <3>3. IsHead(log', c, N, N)
      BY <3>1, <3>2 DEF IsHead
    <3> QED
      BY <1>1, <1>3, <2>7, <3>3 DEF HeadOf
  <2> QED
    BY <1>7, <2>8, <2>9 DEF OwnedBy
<1>8. CASE ~OwnedBy(Newest, c)
  <2>1. IsHead(log', c, N, m)
    <3>1. CASE HasExit(log, c, W)
      BY <1>2, <1>5, <1>6, <3>1 DEF IsHead
    <3>2. CASE ~HasExit(log, c, W)
      <4>1. ~HasExit(log', c, N)
        <5> SUFFICES ASSUME NEW i \in Endings(log', c, N), log'[i].topic = "stopped",
                            Readable(log'[i])
                     PROVE  FALSE
          BY DEF HasExit
        <5>1. i = N => OwnedBy(Newest, c)
          BY <1>1 DEF Endings, OwnedBy
        <5> QED
          BY <1>5, <1>8, <3>2, <5>1 DEF HasExit
      <4>2. IsPosition(log', c, N + 1, m)
        <5>1. ~Moving(Newest, c)
          BY <1>8 DEF Moving, OwnedBy
        <5>2. IsPosition(log, c, W + 1, m)
          BY <1>2, <3>2 DEF IsHead
        <5> QED
          BY <1>2, <5>1, <5>2, PositionStays
      <4> QED
        BY <4>1, <4>2 DEF IsHead
    <3> QED
      BY <3>1, <3>2
  <2>2. m \in 0..N
    BY <1>1, <1>2
  <2> QED
    BY <1>3, <1>4, <2>1, <2>2 DEF HeadOf
<1> QED
  BY <1>7, <1>8

LEMMA StepKeepsHeadNodes ==
  ASSUME RunInv, HeadAlwaysReads, HeadAlwaysReads', FollowInv, Step,
         ~(Len(log') > Len(log) /\ Newest.topic = "rewind")
  PROVE  HeadNodes(log) \subseteq HeadNodes(log')
<1>1. TypeInv /\ LogStep /\ (UNCHANGED log \/ Landed) /\ Len(log) \in Nat
  <2>1. TypeInv /\ LogStep
    BY StepGrows DEF RunInv, ClaimInv
  <2> QED
    BY <2>1, LogKept
<1>2. CASE UNCHANGED log
  BY <1>2
<1>3. CASE Landed
  <2> SUFFICES ASSUME NEW x \in HeadNodes(log) PROVE x \in HeadNodes(log')
    OBVIOUS
  <2>1. Newest.topic # "rewind"
    BY <1>1, <1>3 DEF Landed
  <2>2. x \in Extendable(log, Len(log))
    BY HeadNodesAre
  <2>3. PICK c, m : HeadOf(log, c, m) /\ x \in Lineage(log, m)
    BY HeadNodesAre
  <2>4. x \in Extendable(log', Len(log'))
    BY <1>1, <2>2, NodesGrow DEF Resumable, Extendable
  <2>5. \E d, n : HeadOf(log', d, n) /\ x \in Lineage(log', n)
    <3>1. CASE Newest.topic = "started"
      <4> PICK w \in Workers : ClaimWon(w)
        BY <1>1, <1>3, <3>1, NewClaim
      <4> QED
        BY <2>2, <2>3, WonKeepsHead
    <3>2. CASE Newest.topic # "started"
      BY <1>1, <1>3, <2>1, <2>3, <3>2, OwnKeepsHead
    <3> QED
      BY <3>1, <3>2
  <2> QED
    BY <2>4, <2>5, HeadNodesAre
<1> QED
  BY <1>1, <1>2, <1>3

(* Every claim continues the latest head: only a rewind takes a node off   *)
(* what a stateless successor would build on, so a commit that races a     *)
(* claim is either built upon, or makes the claim's compare-and-append     *)
(* lose.                                                                   *)
THEOREM HeadKept ==
  ASSUME "ack" \notin Faults, Starts \subseteq {"head"}
  PROVE  Spec => HeadKeepsCommits
<1>1. Init => FollowInv
  BY DEF Init, NewWorker, FollowInv, FollowsHead, ClaimPcs
<1>2. RunInv /\ FollowInv /\ [Next]_vars => FollowInv'
  BY StepFollows DEF RunInv, ClaimInv
<1>3. RunInv /\ FollowInv /\ HeadAlwaysReads /\ HeadAlwaysReads' /\ [Next]_vars
        => [\/ Len(log') > Len(log) /\ log'[Len(log')].topic = "rewind"
            \/ HeadNodes(log) \subseteq HeadNodes(log')]_vars
  <2> SUFFICES ASSUME RunInv, FollowInv, HeadAlwaysReads, HeadAlwaysReads', [Next]_vars
               PROVE  \/ Len(log') > Len(log) /\ log'[Len(log')].topic = "rewind"
                      \/ HeadNodes(log) \subseteq HeadNodes(log')
    OBVIOUS
  <2>1. Step
    BY NextStep DEF RunInv, ClaimInv
  <2> QED
    BY <2>1, StepKeepsHeadNodes DEF Newest
<1>4. Spec => []HeadAlwaysReads
  BY HeadsRead
<1> QED
  BY <1>1, <1>2, <1>3, <1>4, RunInvHolds, PTL DEF Spec, HeadKeepsCommits
=============================================================================
