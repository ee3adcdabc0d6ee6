------------------------------- MODULE Worker -------------------------------
(***************************************************************************)
(* The workers of one run (worker.py) and the reporters of their deaths    *)
(* (launcher.py), over the run's shared log.                               *)
(*                                                                         *)
(* A worker object claims the run once, iterates, and writes its exit.     *)
(* Every step here makes at most one channel call that depends on the      *)
(* log's tail: a worker reads W, and compare-and-appends at it later, when *)
(* anything may have landed in between.  A read bounded by a W already     *)
(* taken is merged with the step that uses it, since the log only grows.   *)
(* The askers' control records (stops, withdrawals, subscriptions) land at *)
(* any time, a process may die at any step, and a death may be reported    *)
(* of a worker that is alive (a mistaken release).                         *)
(***************************************************************************)
EXTENDS RunLog

CONSTANTS
  Workers,      \* the worker objects, each a process of its own
  Reporters,    \* other parties that hold evidence of deaths
  Unprobed,     \* the workers whose liveness no probe can tell (another host)
  Asks,         \* the control records askers may send
  Evidence,     \* what reporters hold: an outcome, and whether it outranks the probe
  MaxAsks,      \* bound: how many control records are sent
  MaxReports,   \* bound: how many reports each reporter makes
  MaxCalls,     \* bound: the calls of the workers, besides their exits, and
                \* once more each call, an exit too, that raises
  CasAttempts,  \* claims.CAS_ATTEMPTS
  Calls,        \* the calls the drivers make
  Starts,       \* how workers are constructed: "head", "root", "node"
  Faults        \* the failures that happen

ASSUME BoundsAssumption ==
  /\ MaxAsks \in Nat /\ MaxReports \in Nat /\ MaxCalls \in Nat
  /\ CasAttempts \in Nat \ {0}

ASSUME EvidenceAssumption == Evidence \subseteq {"lost", "cause"} \X BOOLEAN

ASSUME ActorsAssumption == Workers \cap Reporters = {}

ASSUME AsksAssumption == Asks \subseteq {e \in Record : IsControl(e)}

VARIABLES
  log,    \* the run's log
  wk,     \* each worker's own state
  rep,    \* each actor's death report under way
  asked,  \* control records sent so far
  called  \* calls made so far

vars == <<log, wk, rep, asked, called>>

Actors == Workers \cup Reporters

Phases == {"new", "live", "discarded", "stopped", "lost", "released",
           "starved", "raised"}

Pcs == {"idle", "claim", "latest", "probe", "held", "report", "cas",
        "answers", "drain", "take", "sample", "send", "beat"}

(* What an exit or a commit under way will write (_Evaluation, _ExitNode). *)
NodeUnderWay ==
  [body    : {"", "completed", "preempted", "errored"},
   torn    : BOOLEAN,
   values  : SUBSET Nat,
   fired   : SUBSET RequestIds,
   expired : SUBSET RequestIds]

NoNode ==
  [body |-> "", torn |-> FALSE, values |-> {}, fired |-> {}, expired |-> {}]

WorkerState ==
  [up       : BOOLEAN,                   \* its process can still write
   pc       : Pcs,
   phase    : Phases,                    \* _Phase, and _Starved
   follow   : BOOLEAN,                   \* resume_from is LatestClaimHead()
   claim    : Nat,                       \* _Claim.seq, 0 until won
   seen     : Nat,                       \* the claim report_if_dead looks at
   folded   : BOOLEAN,                   \* _won read the log below the claim
   node     : Nat,                       \* the position (_Lineage.node)
   reg      : SUBSET Nat,                \* the source's register: the position it was set at
   pending  : SUBSET Nat,                \* _Iteration.pending
   dropped  : SUBSET Nat,                \* _Iteration.discarded
   spent    : SUBSET RequestIds,         \* _Requests._spent
   stops    : [RequestIds -> {"none", "now", "later", "held"}],
   subs     : [RequestIds -> {"none", "durable", "lease"}],
   bound    : SUBSET RequestIds,         \* leases bound to this claim
   w        : Nat,                       \* the tail last read, its own writes included
   drained  : Nat,                       \* _Drain.drained_to
   mark     : Nat,                       \* _Drain.watermark
   op       : {"none", "commit", "heartbeat", "exitNode", "exitCas"},
   mode     : {"ITERATION", "EXIT"},
   under    : NodeUnderWay,
   tries    : Nat,                       \* of the claim's or the drain's loop
   exits    : Nat,                       \* of the exit's loop
   failed   : BOOLEAN]                   \* history: an exit raised, and left it live

NewWorker ==
  [up |-> TRUE, pc |-> "idle", phase |-> "new", follow |-> FALSE, claim |-> 0,
   seen |-> 0, folded |-> FALSE, node |-> 0, reg |-> {}, pending |-> {},
   dropped |-> {}, spent |-> {}, stops |-> [r \in RequestIds |-> "none"],
   subs |-> [r \in RequestIds |-> "none"], bound |-> {}, w |-> 0,
   drained |-> 0, mark |-> 0, op |-> "none", mode |-> "ITERATION",
   under |-> NoNode, tries |-> 0, exits |-> 0, failed |-> FALSE]

Report ==
  [pc : {"idle", "read", "cas"}, claim : Nat, outcome : {"lost", "cause"},
   force : BOOLEAN, w : Nat, tries : Nat, made : Nat]

NoReport ==
  [pc |-> "idle", claim |-> 0, outcome |-> "lost", force |-> FALSE, w |-> 0,
   tries |-> 0, made |-> 0]

Init ==
  /\ log = <<>>
  /\ wk = [w \in Workers |-> NewWorker]
  /\ rep = [x \in Actors |-> NoReport]
  /\ asked = 0
  /\ called = 0

-----------------------------------------------------------------------------
(* Steps of worker w: its process is up and it is at pc.  Become(w, s)     *)
(* replaces its state; Send appends whatever landed in between, and Cas    *)
(* only at the tail it last read.                                          *)

At(w, pc) == wk[w].up /\ wk[w].pc = pc

Become(w, s) == wk' = [wk EXCEPT ![w] = s]

Send(e) == log' = Append(log, e)

Unconditional(w) == TRUE      \* mutant: an append with no expected_seq

AtTail(w) == Len(log) = wk[w].w

Quiet == UNCHANGED <<log, rep, asked, called>>

(* A call returns: what it held in its own frame is gone. *)
Idle(s) == [s EXCEPT !.pc = "idle", !.op = "none", !.mode = "ITERATION",
                     !.under = NoNode, !.seen = 0, !.w = 0, !.tries = 0, !.exits = 0]

(* A call that drains first: op says what follows its drain. *)
Drains(s, op, mode, under) ==
  [s EXCEPT !.pc = "drain", !.op = op, !.mode = mode, !.under = under, !.tries = 0]

Raise(w) == Become(w, [Idle(wk[w]) EXCEPT !.phase = "raised"])

-----------------------------------------------------------------------------
(* The claim (Worker.__init__, _claim_run). *)

Construct(w) ==
  /\ At(w, "idle") /\ wk[w].phase = "new"
  /\ \/ /\ "head" \in Starts
        /\ Become(w, [wk[w] EXCEPT !.pc = "claim", !.phase = "lost", !.follow = TRUE])
     \/ \E n \in (IF "root" \in Starts THEN {0} ELSE {}) \cup
                 (IF "node" \in Starts THEN Extendable(log, Len(log)) ELSE {}) :
          Become(w, [wk[w] EXCEPT !.pc = "claim", !.phase = "lost", !.node = n])
  /\ Quiet

(* The node the claim resumes from, at the W the claim takes. A closed head *)
(* and a head that does not read raise, with nothing written.               *)
ResumePoint(w) ==
  LET W == Len(log)
      s == wk[w]
      Takes(n) == Become(w, [s EXCEPT !.pc = "latest", !.w = W, !.node = n,
                                      !.tries = s.tries + 1])
  IN  /\ At(w, "claim") /\ s.tries < CasAttempts
      /\ \/ ~s.follow /\ Takes(s.node)
         \/ s.follow /\ Claims(log, W) = {} /\ Takes(0)
         \/ /\ s.follow
            /\ \E c \in Claims(log, W) :
                 /\ IsNewestClaim(log, c, W)
                 /\ \/ ~HeadReadable(log, c, W) /\ Raise(w)
                    \/ /\ HeadReadable(log, c, W)
                       /\ \E n \in 0..W :
                            /\ IsHead(log, c, W, n)
                            /\ IF n # 0 /\ Closed(log[n]) THEN Raise(w)
                               ELSE Takes(ResumeNode(log, n))
      /\ Quiet

(* A claim that landed since W starts again; a claim held at W is probed;  *)
(* otherwise the claim is free.                                            *)
ReadLatest(w) ==
  LET s == wk[w]
      Goes(pc) == Become(w, [s EXCEPT !.pc = pc])
  IN  /\ At(w, "latest")
      /\ \/ Claims(log, Len(log)) = {} /\ Goes("cas")
         \/ \E c \in Claims(log, Len(log)) :
              /\ IsNewestClaim(log, c, Len(log))
              /\ \/ c > s.w /\ Goes("claim")
                 \/ c <= s.w /\ Endings(log, c, s.w) = {} /\ Goes("probe")
                 \/ c <= s.w /\ Endings(log, c, s.w) # {} /\ Goes("cas")
      /\ Quiet

ClaimCas(w) ==
  LET s == wk[w]
  IN  /\ At(w, "cas")
      /\ \/ /\ AtTail(w)
            /\ Send([Blank EXCEPT !.topic = "started", !.ref = s.node])
            /\ Become(w, [s EXCEPT !.pc = "answers", !.phase = "live",
                                   !.claim = Len(log) + 1, !.drained = s.w,
                                   !.tries = 0])
         \/ /\ ~AtTail(w)
            /\ UNCHANGED log
            /\ Become(w, [s EXCEPT !.pc = "claim"])
      /\ UNCHANGED <<rep, asked, called>>

ClaimStarved(w) ==
  /\ At(w, "claim") /\ wk[w].tries = CasAttempts
  /\ Raise(w)
  /\ Quiet

(* _won: the ids spent below the claim, and every control record from the  *)
(* log's start for the first drain to read.                                *)
FoldAnswers(w) ==
  /\ At(w, "answers")
  /\ Become(w, [Idle(wk[w]) EXCEPT !.folded = TRUE, !.drained = 0,
                                   !.spent = Spent(log, wk[w].claim - 1)])
  /\ Quiet

(* A read of the fold raises: the claim's exit is written, errored, knowing *)
(* nothing of what lies below the claim.                                    *)
FoldRaises(w) ==
  /\ "fold" \in Faults
  /\ At(w, "answers")
  /\ Become(w, Drains(wk[w], "exitNode", "EXIT", [NoNode EXCEPT !.body = "errored"]))
  /\ Quiet

-----------------------------------------------------------------------------
(* Death reports (report_if_dead, report_death).  A probe tells whether    *)
(* the process that wrote a claim is up, unless no probe can.              *)

ProbesNothing(c, alive) ==    \* mutant: a dead process still probes alive
  alive /\ \E v \in Workers \ Unprobed : wk[v].claim = c

Probes(c, alive) ==
  \E v \in Workers \ Unprobed : wk[v].claim = c /\ wk[v].up = alive

ProbeLatest(w) ==
  /\ At(w, "probe")
  /\ \E c \in Claims(log, Len(log)) :
       /\ IsNewestClaim(log, c, Len(log))
       /\ Become(w, [wk[w] EXCEPT !.pc = "held", !.seen = c])
  /\ Quiet

(* The claim has ended since, or its process does not probe dead: the race *)
(* is lost.  Otherwise the claimant reports it.                            *)
ProbeHeld(w) ==
  LET c    == wk[w].seen
      dead == Endings(log, c, Len(log)) = {} /\ Probes(c, FALSE)
  IN  /\ At(w, "held")
      /\ Become(w, IF dead THEN [wk[w] EXCEPT !.pc = "report"] ELSE Idle(wk[w]))
      /\ rep' = IF dead
                THEN [rep EXCEPT ![w] = [NoReport EXCEPT !.pc = "read", !.claim = c]]
                ELSE rep
      /\ UNCHANGED <<log, asked, called>>

(* A reporter with evidence about some claim: it knows the cause or not,   *)
(* and its evidence may outrank the probe.                                 *)
StartReport(p) ==
  /\ rep[p].pc = "idle" /\ rep[p].made < MaxReports
  /\ \E c \in Claims(log, Len(log)), v \in Evidence :
       rep' = [rep EXCEPT ![p] = [NoReport EXCEPT
                 !.pc = "read", !.claim = c, !.outcome = v[1], !.force = v[2],
                 !.made = rep[p].made + 1]]
  /\ UNCHANGED <<log, wk, asked, called>>

(* A report ends; a claimant's constructor goes on: it claims again if its *)
(* report landed, loses the race if there was nothing to report, and       *)
(* raises if the report starved.                                           *)
ReportEnds(x, s) ==
  /\ rep' = [rep EXCEPT ![x] = [NoReport EXCEPT !.made = rep[x].made]]
  /\ IF x \in Workers THEN Become(x, s) ELSE UNCHANGED wk

Reporting(x, pc) == rep[x].pc = pc

(* Nothing to report: the claim has an exit; or it has ended and the       *)
(* report carries no cause.                                                *)
NothingToReport(r, W) ==
  \/ HasExit(log, r.claim, W)
  \/ Endings(log, r.claim, W) # {} /\ r.outcome = "lost"

ReportRead(x) ==
  LET r == rep[x]
      W == Len(log)
  IN  /\ Reporting(x, "read") /\ r.tries < CasAttempts
      /\ \/ /\ NothingToReport(r, W) \/ (~r.force /\ Probes(r.claim, TRUE))
            /\ ReportEnds(x, Idle(wk[x]))
         \/ /\ ~NothingToReport(r, W)
            /\ r.force \/ ~Probes(r.claim, TRUE)
            /\ rep' = [rep EXCEPT ![x] = [r EXCEPT !.pc = "cas", !.w = W,
                                                   !.tries = r.tries + 1]]
            /\ UNCHANGED wk
      /\ UNCHANGED <<log, asked, called>>

ReportCas(x) ==
  LET r == rep[x]
  IN  /\ Reporting(x, "cas")
      /\ \/ /\ Len(log) = r.w
            /\ Send([Blank EXCEPT !.topic = "died", !.claim = r.claim,
                                  !.body = r.outcome])
            /\ ReportEnds(x, [wk[x] EXCEPT !.pc = "claim", !.seen = 0])
         \/ /\ Len(log) # r.w
            /\ rep' = [rep EXCEPT ![x].pc = "read"]
            /\ UNCHANGED <<log, wk>>
      /\ UNCHANGED <<asked, called>>

ReportStarved(x) ==
  /\ Reporting(x, "read") /\ rep[x].tries = CasAttempts
  /\ ReportEnds(x, [Idle(wk[x]) EXCEPT !.phase = "raised"])
  /\ UNCHANGED <<log, asked, called>>

-----------------------------------------------------------------------------
(* The driver's calls.  A call starts where the previous one returned, and *)
(* only a live worker's calls write; each costs one of the MaxCalls.  A    *)
(* worker whose constructor raised (its fold did) is nobody's to call.     *)

Callable(w, phases) ==
  At(w, "idle") /\ wk[w].folded /\ wk[w].phase \in phases

Counted == called < MaxCalls /\ called' = called + 1

Call(w, name) == name \in Calls /\ Callable(w, {"live"}) /\ Counted

Silent == UNCHANGED <<log, rep, asked>>

Emit(w) ==
  /\ Call(w, "emit")
  /\ Send([Blank EXCEPT !.body = "eager"])
  /\ Become(w, [wk[w] EXCEPT !.pending = @ \cup {Len(log) + 1}])
  /\ UNCHANGED <<rep, asked>>

SetRegister(w) ==
  /\ Call(w, "set")
  /\ Become(w, [wk[w] EXCEPT !.reg = {wk[w].node}])
  /\ Silent

(* Add a value another handle sent: above the claim, an eager stream's,    *)
(* neither pending, nor committed on the lineage, nor discarded.           *)
IncludableTwice(s) ==         \* mutant: what the lineage committed is not looked at
  {v \in (s.claim + 1)..Len(log) : log[v].topic = "value" /\ log[v].body = "eager"}
    \ (s.pending \cup s.dropped)

Includable(s) ==
  {v \in (s.claim + 1)..Len(log) : log[v].topic = "value" /\ log[v].body = "eager"}
    \ (s.pending \cup CommittedOn(log, s.node) \cup s.dropped)

Include(w) ==
  /\ Call(w, "include")
  /\ \E v \in Includable(wk[w]) :
       Become(w, [wk[w] EXCEPT !.pending = @ \cup {v}])
  /\ Silent

(* The position moves to n: no register is set there, and the pending      *)
(* values are dropped.                                                     *)
RewoundRegister(s, n) ==      \* mutant: the register outlives the position
  [s EXCEPT !.node = n, !.pending = {}, !.dropped = @ \cup s.pending]

Rewound(s, n) ==
  [s EXCEPT !.node = n, !.reg = {}, !.pending = {}, !.dropped = @ \cup s.pending]

(* A node's kind never changes, so the target's check and the send are one *)
(* step.                                                                   *)
Rewind(w) ==
  LET s == wk[w]
  IN  /\ Call(w, "rewind")
      /\ \E n \in {0} \cup Extendable(log, Len(log)) :
           /\ Send([Blank EXCEPT !.topic = "rewind", !.claim = s.claim, !.ref = n])
           /\ Become(w, Rewound(s, n))
      /\ UNCHANGED <<rep, asked>>

(* _tear: the open iteration is torn. *)
Tear(s) == [Idle(s) EXCEPT !.phase = "discarded", !.pending = {},
                           !.dropped = @ \cup s.pending]

Discard(w) ==
  /\ Call(w, "discard")
  /\ Become(w, Tear(wk[w]))
  /\ Silent

BeginCommit(w) ==
  /\ Call(w, "commit")
  /\ Become(w, Drains(wk[w], "commit", "ITERATION", NoNode))
  /\ Silent

BeginHeartbeat(w) ==
  /\ Call(w, "heartbeat")
  /\ Become(w, Drains(wk[w], "heartbeat", "ITERATION", NoNode))
  /\ Silent

(* stopped(completed, error), from the driver or from __exit__; after       *)
(* discard(), retire() is stopped() too.                                   *)
BeginStopped(w) ==
  /\ Callable(w, {"live", "discarded"})
  /\ \E body \in {"completed", "preempted", "errored"} \cap Calls :
       Become(w, Drains(wk[w], "exitNode", "EXIT", [NoNode EXCEPT !.body = body]))
  /\ Quiet

BeginRetire(w) ==
  /\ Call(w, "retire")
  /\ Become(w, Drains(wk[w], "exitNode", "ITERATION",
                      [NoNode EXCEPT !.body = "preempted"]))
  /\ Silent

(* A starved exit is retried, by stopped() alone: the node it decided, again. *)
RetryStarved(w) ==
  /\ Callable(w, {"starved"}) /\ Counted
  /\ Become(w, Drains(wk[w], "exitCas", "EXIT", wk[w].under))
  /\ Silent

-----------------------------------------------------------------------------
(* A drain (_drain, _drain_control, _Requests.take).  It reads W, and the  *)
(* death reports up to it first; then handles the control records above    *)
(* the last drain's, one a step.                                           *)

DrainRead(w) ==
  LET s == wk[w]
  IN  /\ At(w, "drain") /\ s.tries < CasAttempts
      /\ IF Reported(log, s.claim, Len(log))
         THEN Become(w, [Idle(s) EXCEPT !.phase = "released"])
         ELSE Become(w, [s EXCEPT !.pc = "take", !.w = Len(log), !.tries = s.tries + 1])
      /\ Quiet

(* A call raises with nothing of its own landed, and fences nothing: the   *)
(* phase is what it was, a starved exit is still to be retried, and what   *)
(* an exit passed over stays passed over.                                  *)
Fails(s) ==
  [Idle(s) EXCEPT !.under = IF s.phase = "starved" THEN s.under ELSE NoNode,
                  !.failed = @ \/ (s.mode = "EXIT" /\ s.phase = "live")]

DrainStarved(w) ==
  /\ At(w, "drain") /\ wk[w].tries = CasAttempts
  /\ Become(w, Fails(wk[w]))
  /\ Quiet

Undrained(s) == {k \in (s.drained + 1)..s.w : IsControl(log[k])}

IsNext(s, k) == k \in Undrained(s) /\ \A j \in Undrained(s) : k <= j

Drained(w, op) == At(w, "take") /\ wk[w].op = op /\ Undrained(wk[w]) = {}

Handled(s, k) == [s EXCEPT !.drained = k, !.mark = k]

(* The bound above which a nameless record is refused. *)
NamelessAbove(s) ==
  IF s.folded THEN PreviousWatermark(log, s.claim - 1) ELSE s.claim - 1

Answerable(s, e) == e.rid \in RequestIds \ s.spent

NeverVoid(s, r) == FALSE      \* mutant: the log's bindings are not folded

IsVoid(s, r) == s.folded /\ Void(log, r, s.claim - 1)

(* The cases of take. *)
Skipped(s, e, k) ==
  \/ e.rid = NoId /\ k <= NamelessAbove(s)
  \/ e.rid \in s.spent
  \/ /\ Answerable(s, e)
     /\ \/ e.topic = "stop" /\ s.stops[e.rid] = "held"
        \/ e.topic = "subscribe" /\ s.mode = "EXIT"

TakesStop(s, e) ==
  /\ Answerable(s, e) /\ e.topic = "stop"
  /\ e.body # "bad" /\ s.stops[e.rid] # "held"

TakesWithdraw(s, e) == Answerable(s, e) /\ e.topic = "withdraw"

Subscribes(s, e) ==
  /\ Answerable(s, e) /\ e.topic = "subscribe" /\ s.mode = "ITERATION"

VoidLease(s, e) ==
  /\ Subscribes(s, e) /\ e.body = "lease"
  /\ s.subs[e.rid] = "none" /\ IsVoid(s, e.rid)

Accepted(s, e) ==
  /\ Subscribes(s, e) /\ e.body # "bad" /\ ~VoidLease(s, e)
  /\ s.subs[e.rid] \in {"none", e.body}

Binds(s, e) == Accepted(s, e) /\ e.body = "lease" /\ e.rid \notin s.bound

Refused(s, e, k) ==
  \/ e.rid = NoId /\ k > NamelessAbove(s)
  \/ /\ Answerable(s, e)
     /\ \/ e.topic = "stop" /\ e.body = "bad" /\ s.stops[e.rid] # "held"
        \/ Subscribes(s, e) /\ ~VoidLease(s, e) /\ ~Accepted(s, e)
        \/ e.topic = "unknown"

(* A request is spent: its id is dead, and a stop that has not held and a  *)
(* subscription registered under it are dropped.                           *)
SpendId(s, r) ==
  [s EXCEPT !.spent = @ \cup {r},
            !.stops[r] = IF @ = "held" THEN "held" ELSE "none",
            !.subs[r] = "none"]

(* What handling a record does when it writes nothing. *)
TakeRecord(w) ==
  LET s == wk[w]
  IN  /\ At(w, "take")
      /\ \E k \in Undrained(s) :
           LET e == log[k]
           IN  /\ IsNext(s, k)
               /\ \/ Skipped(s, e, k) /\ Become(w, Handled(s, k))
                  \/ /\ TakesStop(s, e)
                     /\ Become(w, [Handled(s, k) EXCEPT !.stops[e.rid] = e.body])
                  \/ TakesWithdraw(s, e) /\ Become(w, SpendId(Handled(s, k), e.rid))
                  \/ /\ VoidLease(s, e)
                     /\ Become(w, [Handled(s, k) EXCEPT !.spent = @ \cup {e.rid}])
                  \/ /\ Accepted(s, e) /\ ~Binds(s, e)
                     /\ Become(w, [Handled(s, k) EXCEPT !.subs[e.rid] = e.body])
      /\ Quiet

(* A refusal or a binding is compare-and-appended at the tail, and takes   *)
(* effect once it lands; a lost CAS runs the drain again, from this record. *)
WriteAnswer(w) ==
  LET s == wk[w]
      Lands(e, t) == Send(e) /\ Become(w, [t EXCEPT !.w = Len(log) + 1])
  IN  /\ At(w, "take")
      /\ \E k \in Undrained(s) :
           LET e == log[k]
           IN  /\ IsNext(s, k)
               /\ Refused(s, e, k) \/ Binds(s, e)
               /\ \/ /\ AtTail(w) /\ Refused(s, e, k)
                     /\ Lands([Blank EXCEPT !.topic = "nak", !.rid = e.rid],
                              IF e.rid = NoId THEN Handled(s, k)
                              ELSE SpendId(Handled(s, k), e.rid))
                  \/ /\ AtTail(w) /\ Binds(s, e)
                     /\ Lands([Blank EXCEPT !.topic = "bound", !.rid = e.rid,
                                            !.claim = s.claim],
                              [Handled(s, k) EXCEPT !.subs[e.rid] = "lease",
                                                    !.bound = @ \cup {e.rid}])
                  \/ /\ ~AtTail(w)
                     /\ UNCHANGED log
                     /\ Become(w, [s EXCEPT !.pc = "drain"])
      /\ UNCHANGED <<rep, asked, called>>

-----------------------------------------------------------------------------
(* Decisions and evaluations.  A stop's from and a subscription's schedule *)
(* are abstract: a stop with no from holds once decided, one with a from   *)
(* when its condition comes true, and any live subscription may fire (once *)
(* the register holds a value) and expire at a node.                       *)

Decide(s, held) ==
  [s EXCEPT !.stops = [r \in RequestIds |->
     IF s.stops[r] = "now" \/ r \in held THEN "held" ELSE s.stops[r]]]

Due(s) == SUBSET {r \in RequestIds : s.stops[r] = "later"}

Live(s) ==
  {r \in RequestIds : \/ s.subs[r] = "lease"
                      \/ s.subs[r] = "durable" /\ r \notin ExpiredOn(log, s.node)}

MayFire(s) == IF s.reg = {} THEN {{}} ELSE SUBSET Live(s)

(* The node under way commits the pending values, then its samples. *)
Evaluated(s, body, fired, expired) ==
  [body |-> body, torn |-> FALSE, values |-> s.pending,
   fired |-> fired, expired |-> expired]

DrainedTo(s) == [s EXCEPT !.drained = s.w, !.w = 0, !.tries = 0]

(* commit(), once drained: decide the stops, evaluate the subscriptions. *)
CommitDecide(w) ==
  LET s == wk[w]
  IN  /\ Drained(w, "commit")
      /\ \E held \in Due(s), fired \in MayFire(s), expired \in SUBSET Live(s) :
           Become(w, [Decide(DrainedTo(s), held) EXCEPT
             !.under = Evaluated(s, "", fired, expired),
             !.pc = IF fired = {} THEN "send" ELSE "sample"])
      /\ Quiet

(* One sample of the one source, for a commit or an exit; its ref, which    *)
(* the code's value records do not carry, remembers the position at which  *)
(* the register was set.                                                   *)
SampleSend(w) ==
  LET s == wk[w]
      sampled == [s EXCEPT !.under.values = @ \cup {Len(log) + 1}]
  IN  /\ At(w, "sample")
      /\ \E n \in s.reg : Send([Blank EXCEPT !.body = "sample", !.ref = n])
      /\ Become(w, [sampled EXCEPT !.pc = "send"])
      /\ UNCHANGED <<rep, asked, called>>

(* The exit that writes values: null, evaluating nothing. *)
TornNode(body) == [NoNode EXCEPT !.body = body, !.torn = TRUE]

ToExitCas(s, under) == Drains(s, "exitCas", s.mode, under)

(* A sample or the save's prepare raises, or the node's send does, nothing *)
(* having landed: a commit tears its iteration; an exit is errored, torn.  *)
NodeFails(w) ==
  LET s == wk[w]
  IN  /\ "raise" \in Faults
      /\ At(w, "sample") \/ At(w, "send")
      /\ s.under.body # "completed" \/ s.pc = "sample"
      /\ Become(w, IF s.op = "commit" THEN Tear(s)
                   ELSE ToExitCas(s, TornNode("errored")))
      /\ Quiet

CommitRecordNewest(s) ==      \* mutant: the parent is the log's newest commit
  LET commits == {i \in 1..Len(log) : log[i].topic = "commit"}
  IN  [Blank EXCEPT !.topic = "commit", !.claim = s.claim, !.consumed = s.mark,
                    !.ref = IF commits = {} THEN s.node
                            ELSE CHOOSE i \in commits : \A j \in commits : j <= i,
                    !.values = s.under.values,
                    !.fired = s.under.fired, !.expired = s.under.expired]

CommitRecord(s) ==
  [Blank EXCEPT !.topic = "commit", !.claim = s.claim, !.consumed = s.mark,
                !.ref = s.node, !.values = s.under.values,
                !.fired = s.under.fired, !.expired = s.under.expired]

NodeStays(s, n) ==            \* mutant: the position does not move to the commit
  [Idle(s) EXCEPT !.pending = {}]

(* The leases a node expires are spent; a durable expiry is the lineage's. *)
NodeLanded(s, n) ==
  LET leases == {r \in s.under.expired : s.subs[r] = "lease"}
  IN  [Idle(s) EXCEPT !.node = n, !.pending = {},
                !.spent = @ \cup leases,
                !.subs = [r \in RequestIds |-> IF r \in leases THEN "none" ELSE s.subs[r]]]

CommitSend(w) ==
  /\ At(w, "send") /\ wk[w].op = "commit"
  /\ Send(CommitRecord(wk[w]))
  /\ Become(w, NodeLanded(wk[w], Len(log) + 1))
  /\ UNCHANGED <<rep, asked, called>>

(* The commit lands and its send raises all the same (its acknowledgement  *)
(* lost, or an interrupt between the append and the return): torn.         *)
CommitUnacknowledged(w) ==
  /\ "ack" \in Faults
  /\ At(w, "send") /\ wk[w].op = "commit"
  /\ Send(CommitRecord(wk[w]))
  /\ Become(w, Tear(wk[w]))
  /\ UNCHANGED <<rep, asked, called>>

HeartbeatDecide(w) ==
  /\ Drained(w, "heartbeat")
  /\ \E held \in Due(wk[w]) :
       Become(w, [Decide(DrainedTo(wk[w]), held) EXCEPT !.pc = "beat"])
  /\ Quiet

HeartbeatSend(w) ==
  /\ At(w, "beat")
  /\ Send([Blank EXCEPT !.topic = "heartbeat", !.claim = wk[w].claim,
                        !.consumed = wk[w].mark])
  /\ Become(w, Idle(wk[w]))
  /\ UNCHANGED <<rep, asked, called>>

-----------------------------------------------------------------------------
(* The exit (_exit, _exit_node, _exit_cas). *)

(* A retiring worker with a live subscription serves it instead. *)
ServesLeases(s) ==            \* mutant: a durable subscription does not keep it
  s.mode = "ITERATION" /\ \E r \in RequestIds : s.subs[r] = "lease"

Serves(s) == s.mode = "ITERATION" /\ Live(s) # {}

(* The exit discards its iteration: an error, or after discard(). *)
Discards(s) == s.under.body = "errored" \/ s.phase = "discarded"

ExitNode(w) ==
  LET s == wk[w]
      d == DrainedTo(s)
  IN  /\ Drained(w, "exitNode")
      /\ \/ Serves(s) /\ Become(w, Idle(d))
         \/ ~Serves(s) /\ Discards(s) /\ Become(w, ToExitCas(d, TornNode(s.under.body)))
         \/ /\ ~Serves(s) /\ ~Discards(s)
            /\ \E fired \in MayFire(s), expired \in SUBSET Live(s) :
                 Become(w, [d EXCEPT
                   !.under = Evaluated(s, s.under.body, fired, expired),
                   !.pc = IF fired = {} THEN "send" ELSE "sample"])
      /\ Quiet

(* The samples are written and the checkpoint prepared: on to the CAS. *)
ExitPrepared(w) ==
  /\ At(w, "send") /\ wk[w].op = "exitNode"
  /\ Become(w, ToExitCas(wk[w], wk[w].under))
  /\ Quiet

HonoredHeld(s) ==             \* mutant: a stop only pending is not honored
  {r \in RequestIds : s.stops[r] = "held"}

Honored(s) == {r \in RequestIds : s.stops[r] # "none"}

ExitRecord(s) ==
  [Blank EXCEPT !.topic = "stopped", !.claim = s.claim, !.ref = s.node,
                !.body = s.under.body, !.torn = s.under.torn,
                !.values = s.under.values, !.fired = s.under.fired,
                !.expired = s.under.expired, !.honored = Honored(s)]

(* The node is held for stopped() to retry, and every other call fenced. *)
StarveLive(s) == Idle(s)      \* mutant: the worker is not fenced

Starve(s) == [Idle(s) EXCEPT !.phase = "starved", !.under = s.under]

(* Compare-and-append at the drain's tail; a lost CAS drains again and     *)
(* writes the same node, until the attempts run out and the exit starves.  *)
ExitCas(w) ==
  LET s == wk[w]
      d == DrainedTo(s)
  IN  /\ Drained(w, "exitCas")
      /\ \/ Serves(s) /\ Become(w, Idle(d)) /\ UNCHANGED log
         \/ /\ ~Serves(s) /\ AtTail(w)
            /\ Send(ExitRecord(s))
            /\ Become(w, [Idle(d) EXCEPT !.phase = "stopped"])
         \/ /\ ~Serves(s) /\ ~AtTail(w)
            /\ UNCHANGED log
            /\ Become(w, IF s.exits + 1 < CasAttempts
                         THEN [d EXCEPT !.pc = "drain", !.tries = 0,
                                        !.exits = s.exits + 1]
                         ELSE Starve(d))
      /\ UNCHANGED <<rep, asked, called>>

(* A drain's read or compare-and-append raises, or an exit's, or a         *)
(* heartbeat's send; or an interrupt between them, which no handler of an  *)
(* exit catches.  Each costs one of the MaxCalls.                          *)
CallRaises(w) ==
  LET s == wk[w]
  IN  /\ "raise" \in Faults
      /\ \/ At(w, "drain") \/ At(w, "take") \/ At(w, "beat")
         \/ (At(w, "sample") \/ At(w, "send")) /\ s.op = "exitNode"
      /\ Counted
      /\ Become(w, Fails(s))
      /\ Silent

-----------------------------------------------------------------------------
(* The environment. *)

(* The process is gone, and its memory with it: killed at any step, or     *)
(* ended with its claim not exited.  (The end of a stopped or a lost       *)
(* worker's process, which nobody can tell, is not a step.)  Which claim   *)
(* was its, and whether its fold succeeded, stay as history.               *)
ProcessEnds(w) ==
  /\ wk[w].up
  /\ \/ "crash" \in Faults
     \/ wk[w].pc = "idle" /\ wk[w].phase \in {"released", "starved", "raised"}
     \/ wk[w].pc = "idle" /\ wk[w].phase = "live" /\ ~wk[w].folded
  /\ Become(w, [NewWorker EXCEPT !.up = FALSE, !.claim = wk[w].claim,
                                 !.folded = wk[w].folded])
  /\ rep' = [rep EXCEPT ![w] = NoReport]
  /\ UNCHANGED <<log, asked, called>>

Ask(e) ==
  /\ asked < MaxAsks
  /\ Send(e)
  /\ asked' = asked + 1
  /\ UNCHANGED <<wk, rep, called>>

-----------------------------------------------------------------------------

ClaimStep(w) ==
  \/ ResumePoint(w) \/ ReadLatest(w) \/ ClaimCas(w) \/ ClaimStarved(w)
  \/ FoldAnswers(w) \/ FoldRaises(w) \/ ProbeLatest(w) \/ ProbeHeld(w)

CallStep(w) ==
  \/ Emit(w) \/ SetRegister(w) \/ Include(w) \/ Rewind(w) \/ Discard(w)
  \/ BeginCommit(w) \/ BeginHeartbeat(w) \/ BeginRetire(w)

DrainStep(w) ==
  \/ DrainRead(w) \/ DrainStarved(w) \/ TakeRecord(w) \/ WriteAnswer(w)

NodeStep(w) ==
  \/ CommitDecide(w) \/ SampleSend(w) \/ NodeFails(w) \/ CommitSend(w)
  \/ CommitUnacknowledged(w) \/ HeartbeatDecide(w) \/ HeartbeatSend(w)
  \/ ExitNode(w) \/ ExitPrepared(w) \/ ExitCas(w)

ReportStep(x) == ReportRead(x) \/ ReportCas(x) \/ ReportStarved(x)

Next ==
  \/ \E w \in Workers :
       \/ Construct(w) \/ ClaimStep(w) \/ CallStep(w) \/ BeginStopped(w)
       \/ RetryStarved(w) \/ DrainStep(w) \/ NodeStep(w) \/ CallRaises(w)
       \/ ProcessEnds(w)
  \/ \E x \in Actors : ReportStep(x)
  \/ \E p \in Reporters : StartReport(p)
  \/ \E e \in Asks : Ask(e)

Spec == Init /\ [][Next]_vars

(* A driver's loop: steps(until) commits until the target, the MaxCalls    *)
(* here, or until a stop is pending; then the with block ends, and         *)
(* __exit__ writes the exit.                                               *)
StopPending(s) == s.phase # "live" \/ \E r \in RequestIds : s.stops[r] = "held"

Driver(w) ==
  \/ BeginCommit(w)
  \/ (StopPending(wk[w]) \/ called = MaxCalls) /\ BeginStopped(w)

(* Every process that is up runs on, and its driver's loop with it.  Nothing *)
(* is assumed of the askers, the reporters, the crashes or the constructions. *)
Fairness ==
  /\ \A w \in Workers :
       /\ WF_vars(ClaimStep(w)) /\ WF_vars(DrainStep(w)) /\ WF_vars(NodeStep(w))
       /\ WF_vars(Driver(w))
  /\ \A x \in Actors : WF_vars(ReportStep(x))

FairSpec == Spec /\ Fairness

(* The variables' types, and the shape of every record on the log. *)
TypeOK ==
  /\ log \in Seq(Record)
  /\ wk \in [Workers -> WorkerState]
  /\ rep \in [Actors -> Report]
  /\ asked \in Nat
  /\ called \in Nat
=============================================================================
