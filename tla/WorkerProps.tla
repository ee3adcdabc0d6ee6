---------------------------- MODULE WorkerProps ----------------------------
(***************************************************************************)
(* What the claim protocol promises of the log, of every worker and of     *)
(* every death report, stated over the log of module Worker.               *)
(***************************************************************************)
EXTENDS Worker

AllClaims == Claims(log, Len(log))

Nodes == {i \in 1..Len(log) : IsNode(log[i])}

(* A run has one claimant at a time (_claim_run): below every claim, each  *)
(* earlier claim has ended, by its exit or by a death report.              *)
ClaimsExclusive ==
  \A c, d \in AllClaims : c < d => Endings(log, c, d - 1) # {}

(* The claims of the log, each held, or ended: by one exit, or by death    *)
(* reports, the second of which may add a cause.  An exit beside a report, *)
(* or two exits, is a conflict, which no claim of ClaimRegister comes to.  *)
EndOf(c) ==
  LET ends    == Endings(log, c, Len(log))
      reports == {i \in ends : log[i].topic = "died"}
  IN  CASE ends = {}                               -> "held"
        [] ends # {} /\ reports = ends              -> "report"
        [] reports = {} /\ Cardinality(ends) = 1   -> "exit"
        [] OTHER                                   -> "conflict"

Register == INSTANCE ClaimRegister WITH end <- [c \in AllClaims |-> EndOf(c)]

(* Workers, claimants and reporters, none of which locks anything, keep    *)
(* between them that register: a claim lands only when none is held, a     *)
(* claim ends in one way whichever of its worker and its reporters read    *)
(* the log first, and no ended claim is held again (_claim_run, _exit_cas, *)
(* _report).                                                               *)
ImplementsRegister == Register!Spec

(* Whatever the interleaving, every claim's records read back: the head    *)
(* fold (_ClaimHead) finds each node extending the claim's position, each  *)
(* resume_from an extendable node, and nothing after the exit.             *)
HeadAlwaysReads == \A c \in AllClaims : HeadReadable(log, c, Len(log))

(* Every node's lineage passes the walk (walk.py): a value is committed at *)
(* most once along it, though rewinds, includes and displaced workers      *)
(* share the values.                                                       *)
LineagesWalk == \A n \in Nodes : ~WalkRaises(log, n)

(* A worker wrote the exit at seq i having read the log below its claim. *)
FoldedExit(i) ==
  /\ log[i].topic = "stopped"
  /\ \E w \in Workers : wk[w].claim = log[i].claim /\ wk[w].folded

Nameless(topics, i) ==
  {k \in 1..i : log[k].topic \in topics /\ log[k].rid = NoId}

(* No request falls between the last drain and the exit, nor is shielded   *)
(* by a watermark (take): every named stop, and every request refused      *)
(* whatever its body, below an exit is answered at or below it (honored,   *)
(* withdrawn or refused), and each nameless control record below it has    *)
(* been refused, by this claim or by an earlier one: at least once, for a  *)
(* claim that crashed between a refusal and its watermark leaves the       *)
(* record to be refused again.  A stop is honored by one exit of the log,  *)
(* sent again or resumed from as it may be.                                *)
StopsAnswered ==
  \A i \in 1..Len(log) : FoldedExit(i) =>
    /\ \A k \in 1..(i - 1) :
         /\ log[k].topic \in {"stop", "unknown"} /\ log[k].rid # NoId
              => log[k].rid \in Spent(log, i)
         /\ log[k].topic = "stopped" => log[k].honored \cap log[i].honored = {}
    /\ Cardinality(Nameless({"nak"}, i)) >= Cardinality(Nameless(ControlTopics, i))

(* A mistaken release costs at most the iteration in flight: of the writes *)
(* that follow a drain, at most one commit or heartbeat of a claim lands   *)
(* above a death report naming it.                                         *)
OneIterationInFlight ==
  \A c \in AllClaims : \A d \in Endings(log, c, Len(log)) :
    log[d].topic = "died" =>
      Cardinality({i \in (d + 1)..Len(log) :
                     log[i].topic \in {"commit", "heartbeat"} /\ log[i].claim = c}) <= 1

(* Once a report naming its claim is on the log, a worker answers nothing: *)
(* it writes no exit, no refusal and no binding, though it may not have    *)
(* read the report yet.                                                    *)
ReleasedAnswersNothing ==
  [][\A w \in Workers :
       /\ wk'[w] # wk[w]
       /\ Len(log') > Len(log)
       /\ log'[Len(log')].topic \in {"stopped", "nak", "bound"}
       => ~Reported(log, wk[w].claim, Len(log))]_vars

(* A lease is one claim's: the log binds a request id at most once, across *)
(* claims, re-sends and crashes, and what a node says fired or expired is  *)
(* a durable subscription, or a lease bound to the node's own claim before *)
(* it.                                                                     *)
LeasesBound ==
  /\ \A i, j \in 1..Len(log) :
       /\ log[i].topic = "bound" /\ log[j].topic = "bound"
       /\ log[i].rid = log[j].rid
       => i = j
  /\ \A n \in Nodes : \A r \in log[n].fired \cup log[n].expired :
       \E k \in 1..(n - 1) :
         \/ log[k].topic = "subscribe" /\ log[k].rid = r /\ log[k].body = "durable"
         \/ log[k].topic = "bound" /\ log[k].rid = r /\ log[k].claim = log[n].claim

(* A worker retires only when nothing is asked of it (retire): above the   *)
(* last subscription it never saw, its exit cannot land, so at a retiring  *)
(* exit each subscription on the log is spent for the claim or expired on  *)
(* its lineage; unless an earlier exit of it raised (_exit_cas, _drain)    *)
(* and left it live, having passed over subscriptions it never reads again. *)
RetiresIdle ==
  [][\A w \in Workers :
       LET s == wk[w]
       IN  /\ s.op = "exitCas" /\ s.mode = "ITERATION" /\ wk'[w].phase = "stopped"
           /\ ~s.failed
           => \A k \in 1..Len(log) :
                log[k].topic = "subscribe" /\ log[k].rid # NoId =>
                  \/ log[k].rid \in s.spent
                  \/ /\ s.subs[log[k].rid] = "durable"
                     /\ log[k].rid \in ExpiredOn(log, s.node)]_vars

(* A sample never carries a value computed on an abandoned branch: the     *)
(* position at which the register was set is on the lineage of the node    *)
(* that commits the sample.                                                *)
SamplesOnLineage ==
  \A n \in Nodes : \A v \in log[n].values :
    log[v].body = "sample" /\ log[v].ref # 0 => log[v].ref \in Lineage(log, n)

(* No watermark claims a request that was only passed over (_Starved): a   *)
(* subscription at or below a claim's consumed_seq is registered with that *)
(* claim, or spent, although an exit passes over subscriptions and may     *)
(* starve.  Of a worker that an exit left live by raising (a drain that    *)
(* starves, a read or a compare-and-append that raises, an interrupt) this *)
(* is false: nothing fences it.                                            *)
WatermarksHonest ==
  \A i \in 1..Len(log) : \A w \in Workers :
    /\ log[i].topic \in {"commit", "heartbeat"}
    /\ wk[w].up /\ wk[w].claim = log[i].claim /\ ~wk[w].failed
    =>
      \A k \in 1..log[i].consumed :
        log[k].topic = "subscribe" /\ log[k].rid # NoId =>
          \/ log[k].rid \in wk[w].spent
          \/ wk[w].subs[log[k].rid] # "none"

(* The extendable nodes of the newest claim's head, what a stateless       *)
(* successor would build on.                                               *)
HeadNodes(lg) ==
  UNION {Lineage(lg, n) \cap Extendable(lg, Len(lg)) :
           n \in {m \in 0..Len(lg) : \E c \in Claims(lg, Len(lg)) :
                    IsNewestClaim(lg, c, Len(lg)) /\ IsHead(lg, c, Len(lg), m)}}

(* No commit is lost from under a successor: when every claim continues    *)
(* the latest head, only a rewind takes a node off the head's lineage, so  *)
(* a commit that races a claim is either built upon or makes the claim's   *)
(* CAS lose.                                                               *)
HeadKeepsCommits ==
  [][\/ Len(log') > Len(log) /\ log'[Len(log')].topic = "rewind"
     \/ HeadNodes(log) \subseteq HeadNodes(log')]_vars

(* The late commit of a displaced worker stays off its successor's         *)
(* lineage: when nothing rewinds, a node never extends one that landed     *)
(* after its own claim but was written by another.                         *)
NoForeignParent ==
  \A n \in Nodes :
    log[n].ref # 0 /\ log[n].ref > log[n].claim
      => log[log[n].ref].claim = log[n].claim

(* A stop sent to a live worker is answered: its id is spent, unless the   *)
(* worker's process dies or a report releases it first.                    *)
StopsEventuallyAnswered ==
  \A r \in RequestIds, w \in Workers :
    /\ \E k \in 1..Len(log) : log[k].topic = "stop" /\ log[k].rid = r
    /\ wk[w].up /\ wk[w].folded /\ wk[w].phase = "live"
    ~> r \in Spent(log, Len(log)) \/ ~wk[w].up \/ wk[w].phase = "released"

(* A dead claimant does not keep the run: once its process probes dead, a  *)
(* worker that starts to claim ends the dead claim, unless it dies too.    *)
DeadClaimReported ==
  \A v \in Workers \ Unprobed, w \in Workers :
    /\ ~wk[v].up /\ wk[v].claim # 0
    /\ IsNewestClaim(log, wk[v].claim, Len(log)) /\ At(w, "claim")
    ~> Endings(log, wk[v].claim, Len(log)) # {} \/ ~wk[w].up
=============================================================================
