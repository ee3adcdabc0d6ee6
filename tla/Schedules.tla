----------------------------- MODULE Schedules -----------------------------
(***************************************************************************)
(* The schedule of a subscription: what it parses to, when a worker        *)
(* refuses it, where it fires and expires as workers claim the run, commit,*)
(* rewind and exit (vocabulary/schedule.py, worker._Subscriptions), and    *)
(* how a reader replays it over a lineage (memoizer.history).              *)
(*                                                                         *)
(* One subscription, sent once or more (the behaviour's plan), one eager   *)
(* stream and one source.  Two workers never hold the run at once: Worker  *)
(* says why, so this module has the claim that holds it, or none.          *)
(***************************************************************************)
EXTENDS Integers, Sequences, FiniteSets, FiniteSetsExt, SequencesExt

CONSTANTS
  Plans,      \* the sequences of sends of the subscription to consider
  Stream,     \* the eager stream
  Source,     \* the declared source
  Nil,        \* no term, no target, no schedule, no time
  MaxNodes, MaxClaims, MaxTime

ASSUME BoundsAssumption ==
  MaxNodes \in Nat /\ MaxClaims \in Nat /\ MaxTime \in Nat /\ Stream # Source

----------------------------------------------------------------------------
(* Terms, and the schedules they make *)

Commits == "commits"

Atom(op, x, n)    == [op |-> op, x |-> x, n |-> n, of |-> {}]
Target(x, n)      == Atom("target", x, n)
Elapsed(s)        == Atom("elapsed", Nil, s)
Fired(n)          == Atom("fired", Nil, n)
AnyOf(terms)      == [op |-> "any", x |-> Nil, n |-> 0, of |-> terms]
AllOf(terms)      == [op |-> "all", x |-> Nil, n |-> 0, of |-> terms]

Schedule(from, every, until) == [from |-> from, every |-> every, until |-> until]

(* What a control.subscribe carries: a target (Nil for a pure demand) and   *)
(* a schedule.                                                              *)
Sub(target, schedule) == [target |-> target, schedule |-> schedule]

RECURSIVE Atoms(_), Holds(_, _), HasAny(_)

Atoms(term) ==
  CASE term = Nil               -> {}
    [] term.op \in {"any", "all"} -> UNION {Atoms(t) : t \in term.of}
    [] OTHER                    -> {term}

AtomsOf(s) == Atoms(s.from) \union Atoms(s.every) \union Atoms(s.until)

(* term, where exactly the atoms in true hold. *)
Holds(term, true) ==
  CASE term.op = "any" -> \E t \in term.of : Holds(t, true)
    [] term.op = "all" -> \A t \in term.of : Holds(t, true)
    [] OTHER           -> term \in true

HasAny(term) == term.op = "any" \/ \E t \in term.of : HasAny(t)

Satisfied(term, at, seconds, count) ==
  Holds(term, {a \in Atoms(term) :
                 \/ a.op = "target"  /\ at[a.x] >= a.n
                 \/ a.op = "elapsed" /\ seconds >= a.n
                 \/ a.op = "fired"   /\ count >= a.n})

IsLease(s) == \E a \in AtomsOf(s) : a.op \in {"elapsed", "fired"}

NeedsEpoch(s) == \E a \in Atoms(s.from) \union Atoms(s.until) : a.op = "elapsed"

----------------------------------------------------------------------------
(* The refusals *)

CountIn(term) == \E a \in Atoms(term) : a.op = "fired"

Malformed(sub) ==
  \/ CountIn(sub.schedule.from) \/ CountIn(sub.schedule.every)
  \/ /\ sub.target = Nil
     /\ \/ sub.schedule.from # Nil \/ sub.schedule.every # Nil
        \/ CountIn(sub.schedule.until)

Counted == {Commits, Stream}
Root    == [at |-> [x \in Counted \union {Source} |-> 0], seconds |-> 0]

(* The most any of the atoms asks of one coordinate. *)
Most(atoms) == Max({0} \union {a.n : a \in atoms})

Least(atoms) ==
  [at      |-> [x \in DOMAIN Root.at |-> Most({a \in atoms : a.op = "target" /\ a.x = x})],
   seconds |-> Most({a \in atoms : a.op = "elapsed"})]

CornerOfAny(term) == Least(Atoms(term))      \* mutant: an any has one corner too

(* The least coordinates at which a term with no any holds. *)
Corner(term) == IF HasAny(term) THEN Nil ELSE Least(Atoms(term))

NamesSource(s) == \E a \in AtomsOf(s) : a.op = "target" /\ a.x = Source

EmptyWindow(s) ==
  /\ s.until # Nil
  /\ LET corner == IF s.from = Nil THEN Root ELSE Corner(s.from)
     IN  corner # Nil /\ Satisfied(s.until, corner.at, corner.seconds, 0)

Unsatisfiable(s) == NamesSource(s) \/ EmptyWindow(s)

----------------------------------------------------------------------------
(* The evaluation at one node.  reg is a registered subscription: what was  *)
(* sent, when this claim registered it, its firings in this claim and the   *)
(* time of the last.                                                        *)

Registered(sub, t) == [sub |-> sub, at |-> t, fires |-> 0, firedAt |-> Nil]

Due(every, at, baseline, now, firedAt) ==
  Holds(every, {a \in Atoms(every) :
                  \/ a.op = "target"  /\ (baseline = Nil \/ at[a.x] - baseline[a.x] >= a.n)
                  \/ a.op = "elapsed" /\ (firedAt = Nil \/ now - firedAt >= a.n)})

Fires(reg, at, baseline, now, valued) ==
  LET s == reg.sub.schedule
      Ended(count) == s.until # Nil /\ Satisfied(s.until, at, now - reg.at, count)
  IN  /\ ~Ended(reg.fires)
      /\ reg.sub.target # Nil /\ valued
      /\ s.from = Nil \/ Satisfied(s.from, at, now - reg.at, reg.fires)
      /\ s.every = Nil \/ Due(s.every, at, baseline, now, reg.firedAt)

Evaluate(reg, at, baseline, now, valued) ==
  LET s     == reg.sub.schedule
      fire  == Fires(reg, at, baseline, now, valued)
      count == IF fire THEN reg.fires + 1 ELSE reg.fires
  IN  [fire    |-> fire,
       expired |-> \/ s.until # Nil /\ Satisfied(s.until, at, now - reg.at, count)
                   \/ fire /\ s.every = Nil,
       reg     |-> IF fire THEN [reg EXCEPT !.fires = count, !.firedAt = now] ELSE reg]

Nothing(reg) == [fire |-> FALSE, expired |-> FALSE, reg |-> reg]

----------------------------------------------------------------------------
(* The run.  A node adds elements of the stream and, a commit, an iteration.*)
(* served and valued record what it was evaluated with (the subscription    *)
(* registered there, and whether the source's register held a value), and   *)
(* calm that its claim is the first, registered the subscription once, at   *)
(* the run's epoch, and never rewound: history variables, read by the       *)
(* properties alone.                                                        *)

VARIABLES
  plan,       \* the sends this behaviour makes
  sent,       \* how many it has made
  nodes,      \* the extendable nodes on the log, in order
  claim,      \* the newest claim, while it may write, or NoClaim
  claims,     \* how many there were
  nakked,     \* a nak on the log names the subscription
  bound,      \* the claims a lifecycle.bound binds the subscription to
  epoch,      \* the first claim's started.t
  now

vars == <<plan, sent, nodes, claim, claims, nakked, bound, epoch, now>>

NoClaim == [n |-> 0]

Holding == claim # NoClaim

RECURSIVE Path(_, _)

(* The lineage that ends at n, root first. *)
Path(ns, n) == IF n = 0 THEN <<>> ELSE Append(Path(ns, ns[n].parent), n)

Lineage(ns, n) == ToSet(Path(ns, n))

Coordinates(ns, n) ==
  LET on == Lineage(ns, n)
  IN  [x \in Counted \union {Source} |->
         CASE x = Commits -> MapThenSumSet(LAMBDA i : ns[i].iterations, on)
           [] x = Stream  -> MapThenSumSet(LAMBDA i : ns[i].adds, on)
           [] OTHER       -> 0]

NewestFiring(ns, n) ==      \* mutant: the last firing, on whatever lineage
  LET fired == {i \in DOMAIN ns : ns[i].fired}
  IN  IF fired = {} THEN Nil ELSE Coordinates(ns, Max(fired))

(* every's baseline: the coordinates at the newest node of the lineage that *)
(* fired.                                                                   *)
Baseline(ns, n) ==
  LET fired == {i \in Lineage(ns, n) : ns[i].fired}
  IN  IF fired = {} THEN Nil ELSE Coordinates(ns, Max(fired))

Expires(ns, n) == \E i \in Lineage(ns, n) : ns[i].expired

(* The live subscriptions are held for the lineage last asked about. *)
LiveHere(c, ns) ==
  c.reg # Nil /\ (IsLease(c.reg.sub.schedule) \/ ~Expires(ns, c.at))

ReadLive(c, ns) ==
  LET depth == Len(Path(ns, c.at))
      grown == {i \in Lineage(ns, c.at) : Len(Path(ns, i)) > c.depth}
  IN  IF ~c.held
      THEN [c EXCEPT !.held = TRUE, !.depth = depth, !.live = LiveHere(c, ns)]
      ELSE [c EXCEPT !.depth = depth,
                     !.live  = @ /\ (LiveHere(c, ns) \/ ~\E i \in grown : ns[i].expired)]

(* A position change: another lineage, empty registers. *)
Restated(c, n) ==
  [c EXCEPT !.at = n, !.held = FALSE, !.depth = 0, !.live = FALSE,
            !.valued = FALSE, !.calm = FALSE]

----------------------------------------------------------------------------
(* A drain takes each send it has not read, in order *)

Spend(d) == [d EXCEPT !.claim.spent = TRUE, !.claim.reg = Nil, !.claim.live = FALSE]
Refuse(d) == [Spend(d) EXCEPT !.nakked = TRUE]

Void(d, sub) == IsLease(sub.schedule) /\ d.bound \ {d.claim.n} # {}

FixedBy(first, sub) ==
  first.target = sub.target /\ IsLease(first.schedule) = IsLease(sub.schedule)

Register(d, sub) ==
  LET c   == ReadLive(d.claim, nodes)
      reg == Registered(sub, now)
      new == [c EXCEPT !.reg = reg]
  IN  [d EXCEPT !.bound = IF IsLease(sub.schedule) THEN @ \union {c.n} ELSE @,
                !.claim = [new EXCEPT
                  !.live = @ \/ (c.reg = Nil /\ LiveHere(new, nodes)),
                  !.calm = /\ claims = 1 /\ c.reg = Nil /\ c.calm /\ now = epoch]]

Subscribe(d, sub) ==
  LET c == d.claim
  IN  CASE c.spent                                       -> d
        [] Malformed(sub)                                -> Refuse(d)
        [] c.reg = Nil /\ Void(d, sub)                   -> Spend(d)
        [] c.reg # Nil /\ ~FixedBy(c.reg.sub, sub)       -> Refuse(d)
        [] sub.target \notin {Nil, Source}               -> Refuse(d)
        [] Unsatisfiable(sub.schedule)                   -> Refuse(d)
        [] OTHER                                         -> Register(d, sub)

Drained ==
  FoldLeft(Subscribe,
           [claim |-> [claim EXCEPT !.read = sent], nakked |-> nakked, bound |-> bound],
           SubSeq(plan, claim.read + 1, sent))

----------------------------------------------------------------------------
(* The actions *)

Init ==
  /\ plan \in Plans
  /\ sent = 0 /\ nodes = <<>> /\ claim = NoClaim /\ claims = 0
  /\ nakked = FALSE /\ bound = {} /\ epoch = Nil /\ now = 0

Send ==
  /\ sent < Len(plan)
  /\ sent' = sent + 1
  /\ UNCHANGED <<plan, nodes, claim, claims, nakked, bound, epoch, now>>

(* The clock moves only where some schedule reads it: a bound. *)
Tick ==
  /\ now < MaxTime
  /\ \E k \in DOMAIN plan : \E a \in AtomsOf(plan[k].schedule) : a.op = "elapsed"
  /\ now' = now + 1
  /\ UNCHANGED <<plan, sent, nodes, claim, claims, nakked, bound, epoch>>

(* A claim is won, at any extendable node or at the root (0).  The one      *)
(* before it has ended, by its exit or, with no node of a lineage, torn or  *)
(* dead.                                                                    *)
Claim(n) ==
  /\ claims < MaxClaims
  /\ claims' = claims + 1
  /\ claim' = [n |-> claims', at |-> n, read |-> 0, spent |-> nakked,
               reg |-> Nil, held |-> FALSE, depth |-> 0, live |-> FALSE,
               valued |-> FALSE, calm |-> claims' = 1]
  /\ epoch' = IF epoch = Nil THEN now ELSE epoch
  /\ UNCHANGED <<plan, sent, nodes, nakked, bound, now>>

(* What the user's code does in an iteration before it ends it: emits some  *)
(* elements (bound: at most one), and may set the source.                   *)
Iterated(c, set) == [c EXCEPT !.valued = @ \/ set]

(* The coordinates at the node being written, its pending values counted. *)
Written(c, iterations, adds) ==
  [Coordinates(nodes, c.at) EXCEPT ![Commits] = @ + iterations, ![Stream] = @ + adds]

(* The subscription, evaluated once if it is live. *)
Decide(c, iterations, adds) ==
  IF c.live
  THEN Evaluate(c.reg, Written(c, iterations, adds), Baseline(nodes, c.at), now, c.valued)
  ELSE Nothing(c.reg)

Node(c, iterations, adds, d) ==
  [parent |-> c.at, t |-> now, adds |-> adds, iterations |-> iterations,
   fired |-> d.fire, expired |-> d.expired,
   served |-> IF c.reg = Nil THEN Nil ELSE c.reg.sub, valued |-> c.valued /\ c.reg # Nil,
   calm |-> c.calm /\ iterations = 1]

(* The claim, once the node it wrote has landed: an expired lease is spent. *)
NodeLanded(c, d, ns) ==
  LET moved == [c EXCEPT !.at = Len(ns), !.reg = d.reg]
      lease == d.expired /\ IsLease(c.reg.sub.schedule)
  IN  ReadLive(IF lease THEN Spend([claim |-> moved]).claim ELSE moved, ns)

Commit(adds, set) ==
  /\ Holding /\ Len(nodes) < MaxNodes
  /\ LET dr == Drained
         c  == ReadLive(Iterated(dr.claim, set), nodes)
         d  == Decide(c, 1, adds)
         ns == Append(nodes, Node(c, 1, adds, d))
     IN  /\ nodes' = ns
         /\ claim' = NodeLanded(c, d, ns)
         /\ nakked' = dr.nakked /\ bound' = dr.bound
  /\ UNCHANGED <<plan, sent, claims, epoch, now>>

Heartbeat ==
  /\ Holding /\ claim.read < sent
  /\ claim' = Drained.claim /\ nakked' = Drained.nakked /\ bound' = Drained.bound
  /\ UNCHANGED <<plan, sent, nodes, claims, epoch, now>>

Rewind(n) ==
  /\ Holding
  /\ claim' = Restated(claim, n)
  /\ UNCHANGED <<plan, sent, nodes, claims, nakked, bound, epoch, now>>

(* The exit registers nothing, evaluates once and adds no iteration; the     *)
(* next claim may extend it.  One that closes its lineage evaluates alike.   *)
Exit(adds, set) ==
  /\ Holding /\ Len(nodes) < MaxNodes
  /\ LET c == ReadLive(Iterated(claim, set), nodes)
     IN  nodes' = Append(nodes, Node(c, 0, adds, Decide(c, 0, adds)))
  /\ claim' = NoClaim
  /\ UNCHANGED <<plan, sent, claims, nakked, bound, epoch, now>>

Next ==
  \/ Send \/ Tick \/ Heartbeat
  \/ \E n \in 0..Len(nodes) : Claim(n) \/ Rewind(n)
  \/ \E adds \in 0..1, set \in BOOLEAN : Commit(adds, set) \/ Exit(adds, set)

Spec == Init /\ [][Next]_vars

----------------------------------------------------------------------------
(* A reader's replay over a lineage *)

(* One node: seen says which subscription is evaluated there, and whether   *)
(* its target has a value.                                                  *)
Replayed(h, n, seen) ==
  IF h.ended # 0 \/ seen.sub = Nil THEN h
  ELSE LET d == Evaluate([h.reg EXCEPT !.sub = seen.sub], Coordinates(nodes, n),
                         h.baseline, nodes[n].t, seen.valued)
       IN  [reg      |-> d.reg,
            baseline |-> IF d.fire THEN Coordinates(nodes, n) ELSE h.baseline,
            fired    |-> IF d.fire THEN h.fired \union {n} ELSE h.fired,
            ended    |-> IF d.expired THEN n ELSE 0]

Replay(start, n, Seen(_)) ==
  FoldLeft(LAMBDA h, i : Replayed(h, i, Seen(i)),
           [reg |-> Registered(Nil, start), baseline |-> Nil, fired |-> {}, ended |-> 0],
           Path(nodes, n))

(* history: the schedule of an eager stream, which always has a value, from *)
(* the epoch if the schedule reads it.                                      *)
History(schedule, n) ==
  Replay(IF NeedsEpoch(schedule) THEN epoch ELSE 0, n,
         LAMBDA i : [sub |-> Sub(Stream, schedule), valued |-> TRUE])

(* The replay of what the claims evaluated, node by node. *)
Rerun(n) ==
  Replay(epoch, n, LAMBDA i : [sub |-> nodes[i].served, valued |-> nodes[i].valued])

(* What a live evaluation wrote is what the lineage alone determines: on    *)
(* every lineage a durable subscription fired and expired exactly where a   *)
(* replay of the schedules registered at its nodes does, whatever claims,   *)
(* re-sends, rewinds and abandoned branches came between (the baselines and *)
(* the live set the worker holds are never another lineage's).  So does a   *)
(* lease, in the first claim, while it never rewinds: the reader counts its *)
(* firings and its seconds as the claim does.                               *)
ReplayAgrees ==
  \A n \in DOMAIN nodes :
    LET on    == Lineage(nodes, n)
        rerun == Rerun(n)
    IN  (\A i \in on : \/ nodes[i].calm
                       \/ nodes[i].served = Nil
                       \/ ~IsLease(nodes[i].served.schedule))
          => \A i \in on :
               /\ nodes[i].fired <=> (i \in rerun.fired)
               /\ nodes[i].expired <=> (rerun.ended = i)

(* The empty-window refusal is exact where it decides: a schedule a worker  *)
(* refuses as unsatisfiable for its window fires at no node of any lineage  *)
(* in a reader's replay, and one it accepts whose window opens at a single  *)
(* corner fires at or before a node at that corner.                         *)
WindowRefusals ==
  \A n \in DOMAIN nodes, k \in DOMAIN plan :
    LET s      == plan[k].schedule
        corner == IF s.from = Nil THEN Root ELSE Corner(s.from)
        Clock  == IF NeedsEpoch(s) THEN nodes[n].t - epoch ELSE 0
    IN  ~Malformed(Sub(Stream, s)) =>
          /\ EmptyWindow(s) => History(s, n).fired = {}
          /\ (~EmptyWindow(s) /\ corner # Nil /\ Coordinates(nodes, n) = corner.at
                /\ Clock = corner.seconds)
               => History(s, n).fired # {}
=============================================================================
