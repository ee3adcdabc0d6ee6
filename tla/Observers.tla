----------------------------- MODULE Observers -----------------------------
(***************************************************************************)
(* The reads of a run's log (observables.py): the incremental folds, each  *)
(* held by an observer that polls it whenever it likes, against the pure   *)
(* reads they stand for, and the verdict of a claim.                       *)
(*                                                                         *)
(* The folds share no state, so a behaviour has one observer, and watching *)
(* says which fold it holds.  The log is anybody's: workers, displaced     *)
(* workers, other writers, and bodies that do not parse.  Only the records *)
(* that the fold reads are written, since it asks the channel for no other *)
(* topic.  A poll takes W and applies the records above its cursor; a read *)
(* inside it may raise, which cuts the poll short.                         *)
(***************************************************************************)
EXTENDS RunLog, Integers, SequencesExt

CONSTANTS
  Watch,    \* what is observed: a fold of this module or a client of Watchers
  StopIds,  \* the ids of the stops, where the stops are observed
  MaxLog    \* bound: the log's length, for each of them

ASSUME WatchAssumption == MaxLog \in [Watch -> Nat] /\ NoId \notin StopIds

VARIABLES
  log,
  watching,
  head,     \* a HeadFold: its cursor and its _ClaimHead
  demand,   \* a LiveDemand
  ans,      \* an Answers: the head its list is along, and the list
  stops     \* a PendingStops

vars == <<log, watching, head, demand, ans, stops>>

(* op applied to s with each seq above lo and up to hi, in order. *)
Applied(op(_, _), s, lo, hi) ==
  LET after[i \in lo..hi] == IF i = lo THEN s ELSE op(after[i - 1], i)
  IN  IF lo >= hi THEN s ELSE after[hi]

NewestIn(S) == CHOOSE i \in S : \A j \in S : j <= i

(* A set of seqs in ascending order: at k, the member of rank k. *)
Ranked(S, k) == {i \in S : Cardinality({j \in S : j <= i}) = k}

Ascending(S) == [k \in 1..Cardinality(S) |-> CHOOSE i \in Ranked(S, k) : TRUE]

(* The newest seq of S above lo and at or below hi, 0 when there is none:  *)
(* searched back from hi in windows (backward).  Each window is four times *)
(* the last, so the ones before that at h, which reached back from hi to   *)
(* h, have together a third of what the window at h is wider by.           *)
FirstWindow == 1

Width(h, hi) == FirstWindow + 3 * (hi - h)

Window(S, lo, h, width) == {i \in S : lo < i /\ h - width < i /\ i <= h}

Backward(S, lo, hi) ==
  LET search[h \in 0..hi] ==
        LET here == Window(S, lo, h, Width(h, hi))
        IN  IF h <= lo THEN 0
            ELSE IF here # {} THEN NewestIn(here)
            ELSE IF h - Width(h, hi) <= lo THEN 0 ELSE search[h - Width(h, hi)]
  IN  IF hi <= lo THEN 0 ELSE search[hi]

-----------------------------------------------------------------------------
(* The head fold (_ClaimHead, HeadFold). *)

NoHead == [claim |-> 0, position |-> 0, exit |-> 0, error |-> FALSE]

HeadTopics == {"started", "commit", "rewind", "stopped"}

HeadRaises(c) == [NoHead EXCEPT !.claim = c, !.error = TRUE]

ClaimHead(lg, i) ==
  IF ~Readable(lg[i]) \/ BadReference(lg, i) THEN HeadRaises(i)
  ELSE [NoHead EXCEPT !.claim = i, !.position = lg[i].ref]

RefusesAnyParent(lg, h, i) == \* mutant: a node's parent is not held to the position
  \/ h.exit # 0 \/ ~Readable(lg[i])
  \/ lg[i].topic = "rewind" /\ BadReference(lg, i)

Refuses(lg, h, i) ==
  \/ h.exit # 0 \/ ~Readable(lg[i])
  \/ lg[i].topic = "rewind" /\ BadReference(lg, i)
  \/ lg[i].topic # "rewind" /\ lg[i].ref # h.position

ApplyHead(lg, h, i) ==
  LET e     == lg[i]
      Moved == CASE e.topic = "rewind"  -> [h EXCEPT !.position = e.ref]
                 [] e.topic = "commit"  -> [h EXCEPT !.position = i]
                 [] e.topic = "stopped" -> [h EXCEPT !.exit = i]
  IN  CASE e.topic = "started"                     -> ClaimHead(lg, i)
        [] h.claim # 0 /\ ~h.error /\ OwnedBy(e, h.claim) ->
             IF Refuses(lg, h, i) THEN HeadRaises(h.claim) ELSE Moved
        [] OTHER                                   -> h

(* What _ClaimHead.head returns or raises. *)
Resolved(lg, h) ==
  [raises  |-> h.error,
   node    |-> IF h.exit # 0 THEN h.exit ELSE h.position,
   settled |-> h.exit # 0 /\ Closed(lg[h.exit])]

(* The record at i needs a point read of the node its resume_from names. *)
ReadsNode(lg, h, i) ==
  LET e == lg[i]
  IN  /\ Readable(e) /\ e.ref # 0 /\ e.ref < i
      /\ \/ e.topic = "started"
         \/ e.topic = "rewind" /\ h.claim # 0 /\ ~h.error /\ h.exit = 0 /\ OwnedBy(e, h.claim)

NewHeadFold == [cursor |-> 0, at |-> NoHead]

(* The records a poll of the held head applies: from the newest claim the  *)
(* first time, from the cursor after that.                                 *)
FirstToApply(lg, hf, w) ==
  LET claims == Claims(lg, w)
  IN  IF hf.at.claim # 0 THEN hf.cursor + 1
      ELSE IF claims = {} THEN w + 1 ELSE NewestIn(claims)

HeadFrom(lg, hf, from, hi) ==
  [cursor |-> hi,
   at |-> Applied(LAMBDA h, i : ApplyHead(lg, h, i), hf.at, from - 1, hi)]

HeadPolled(lg, hf, w) == HeadFrom(lg, hf, FirstToApply(lg, hf, w), w)

(* The fold as a poll that is cut at the record j leaves it. *)
HeadCuts(lg, hf, w) ==
  LET from == FirstToApply(lg, hf, w)
      Before(j) == IF j = from THEN hf ELSE HeadFrom(lg, hf, from, j - 1)
  IN  {Before(j) : j \in {i \in from..w : ReadsNode(lg, Before(i).at, i)}}

-----------------------------------------------------------------------------
(* The answer fold (claims.Bindings, _Demand). *)

NoDemand ==
  [live     |-> [r \in RequestIds |-> 0],   \* each live id's newest send
   shown    |-> [r \in RequestIds |-> 0],   \* those live on the placed lineage
   leases   |-> {}, durables |-> {}, dead |-> {},
   expired  |-> {}, expiring |-> {},
   here     |-> {},                         \* the ids the placed lineage expires
   bound    |-> [r \in RequestIds |-> {}],
   boundTo  |-> {},                         \* the held claims' <<claim, id>>
   claims   |-> {}, ended |-> {}]

(* The claim the record e newly ends, as a set. *)
NewlyEnded(d, e) ==
  IF e.topic \in {"stopped", "died"} THEN ({e.claim} \cap d.claims) \ d.ended ELSE {}

Binding(e) == e.topic = "bound" /\ Readable(e) /\ e.rid \in RequestIds

(* Bindings.apply: the ids it newly finds bound to an ended claim. *)
NewlyVoid(d, e) ==
  {r \in RequestIds : \/ \E c \in NewlyEnded(d, e) : <<c, r>> \in d.boundTo
                      \/ Binding(e) /\ e.rid = r /\ e.claim \in d.ended}

Bind(d, e, i) ==
  LET ended == NewlyEnded(d, e)
      bound == IF Binding(e) THEN [d EXCEPT !.bound[e.rid] = @ \cup {e.claim}] ELSE d
  IN  [bound EXCEPT
        !.claims  = IF e.topic = "started" THEN @ \cup {i} ELSE @,
        !.ended   = @ \cup ended,
        !.boundTo = {p \in @ : p[1] \notin ended} \cup
                    (IF Binding(e) /\ e.claim \notin d.ended
                     THEN {<<e.claim, e.rid>>} ELSE {})]

Drop(f, R) == [r \in RequestIds |-> IF r \in R THEN 0 ELSE f[r]]

Kill(d, R) ==
  [d EXCEPT !.dead = @ \cup R, !.live = Drop(@, R), !.shown = Drop(@, R),
            !.leases = @ \ R, !.durables = @ \ R,
            !.expired = @ \ R, !.expiring = @ \ R,
            !.bound = [r \in RequestIds |-> IF r \in R THEN {} ELSE @[r]]]

Expire(d, R) ==
  LET k == Kill(d, (R \cap d.leases) \ d.dead)
      x == R \ k.dead
  IN  [k EXCEPT !.expired = @ \cup x,
                !.expiring = @ \cup {r \in x : k.live[r] # 0}]

(* A send of the live id r; its class is its first send's. *)
Sends(d, r, i, e) ==
  LET first == r \notin d.leases \cup d.durables
      lease == first /\ e.body = "lease"
      dies  == lease /\ (d.bound[r] \cap d.ended # {} \/ r \in d.expired)
  IN  IF dies THEN Kill(d, {r})
      ELSE [d EXCEPT !.live[r] = i,
                     !.leases   = IF lease THEN @ \cup {r} ELSE @,
                     !.durables = IF first /\ ~lease THEN @ \cup {r} ELSE @,
                     !.expiring = IF r \in d.expired THEN @ \cup {r} ELSE @,
                     !.shown[r] = IF r \in d.here THEN 0 ELSE i]

ApplyDemand(lg, d, i) ==
  LET e     == lg[i]
      bound == Bind(d, e, i)
      void  == Kill(bound, NewlyVoid(d, e) \cap d.leases)
      aged  == IF IsNode(e) /\ Readable(e) THEN Expire(void, e.expired) ELSE void
      spent == Kill(aged, SpentBy(e))
  IN  IF e.topic = "bound" /\ e.rid \in d.dead THEN d
      ELSE IF e.topic = "subscribe" /\ e.rid \in RequestIds \ spent.dead
      THEN Sends(spent, e.rid, i, e)
      ELSE spent

-----------------------------------------------------------------------------
(* The held demand (LiveDemand, _HeldLineage). *)

NewLiveDemand ==
  [cursor |-> 0, head |-> NoHead, subs |-> NoDemand, tip |-> 0]

(* Of a poll's records, the head takes those from the newest claim on. *)
HeadTakes(lg, ld, w, i) ==
  LET claims == {c \in Claims(lg, w) : c > ld.cursor}
  IN  claims = {} \/ i >= NewestIn(claims)

DemandTo(lg, ld, w, hi) ==
  [ld EXCEPT
    !.cursor = hi,
    !.head = Applied(LAMBDA h, i : IF HeadTakes(lg, ld, w, i) THEN ApplyHead(lg, h, i)
                                   ELSE h, @, ld.cursor, hi),
    !.subs = Applied(LAMBDA d, i : ApplyDemand(lg, d, i), @, ld.cursor, hi)]

(* The head node n descends from the held tip through the nodes that this  *)
(* poll applied, each of them checked (_descent).                          *)
DescendsUnchecked(lg, ld, n, seen) == \* mutant: any newer node is an extension
  n \in seen

Descends(lg, ld, n, seen) ==
  LET new == {i \in Lineage(lg, n) : i > ld.tip}
  IN  /\ n \in seen /\ new \subseteq seen
      /\ \A i \in new : Readable(lg[i]) /\ ~BadNode(lg, i)
      /\ \E i \in new : lg[i].ref = ld.tip

(* The lineage of a node as the answer fold reads it, when it extends none *)
(* that is held: walked, which may raise, and the ids that it expires.     *)
HeadLineage(lg, n) ==
  [tip |-> n, raises |-> ChainRaises(lg, n), expired |-> ExpiredOn(lg, n)]

(* A poll places the live list on the head's lineage only while some live  *)
(* id has an expiry: by the new nodes when it extends the held lineage,    *)
(* else by a walk, which may raise.                                        *)
Place(lg, ld, n, seen) ==
  LET subs == ld.subs
      new  == UNION {lg[i].expired : i \in {j \in Lineage(lg, n) : j > ld.tip}}
      all  == HeadLineage(lg, n)
  IN  CASE n = ld.tip -> ld
        [] n # ld.tip /\ Descends(lg, ld, n, seen) ->
             [ld EXCEPT !.tip = n, !.subs.here = @ \cup new,
                        !.subs.shown = Drop(@, new)]
        [] n # ld.tip /\ ~Descends(lg, ld, n, seen) ->
             IF all.raises THEN ld
             ELSE [ld EXCEPT !.tip = n, !.subs.here = all.expired,
                             !.subs.shown = Drop(subs.live, all.expired)]

Places(lg, ld) ==
  LET h == Resolved(lg, ld.head)
  IN  ~h.raises /\ ~h.settled /\ ld.subs.expiring # {}

DemandPolled(lg, ld, w) ==
  LET to   == DemandTo(lg, ld, w, w)
      seen == {i \in (ld.cursor + 1)..w : IsNode(lg[i])}
  IN  IF Places(lg, to) THEN Place(lg, to, Resolved(lg, to.head).node, seen) ELSE to

(* The held demand as a cut poll leaves it: before a record whose node     *)
(* could not be read, or with every record applied and the walk not made.  *)
DemandCuts(lg, ld, w) ==
  LET Before(j) == DemandTo(lg, ld, w, j - 1)
      to        == DemandTo(lg, ld, w, w)
  IN  {Before(j) : j \in {i \in (ld.cursor + 1)..w :
         HeadTakes(lg, ld, w, i) /\ ReadsNode(lg, Before(i).head, i)}}
      \cup (IF Places(lg, to) /\ Resolved(lg, to.head).node # 0 THEN {to} ELSE {})

(* What a poll that has left the fold at ld returns or raises. *)
DemandAnswer(lg, ld) ==
  LET h == Resolved(lg, ld.head)
      raises == h.raises \/ (Places(lg, ld) /\ ld.tip # h.node)
  IN  [raises |-> raises,
       live |-> IF raises \/ h.settled THEN {}
                ELSE {ld.subs.shown[r] : r \in RequestIds} \ {0}]

-----------------------------------------------------------------------------
(* The held stops (_Stops, PendingStops). *)

NewPendingStops == [cursor |-> 0, pending |-> <<>>, spent |-> {}]

ApplyStop(lg, s, i) ==
  LET e     == lg[i]
      spent == s.spent \cup SpentBy(e)
      Others(R) == SelectSeq(s.pending, LAMBDA j : lg[j].rid \notin R)
  IN  IF e.topic = "stop" /\ e.rid \in StopIds \ spent
      THEN [s EXCEPT !.pending = Append(Others({e.rid}), i)]   \* the newest send, last
      ELSE [s EXCEPT !.spent = spent, !.pending = Others(SpentBy(e))]

StopsPolled(lg, s, w) ==
  [Applied(LAMBDA x, i : ApplyStop(lg, x, i), s, s.cursor, w) EXCEPT !.cursor = w]

-----------------------------------------------------------------------------
(* The held answers of one subscription (Answers). *)

Asked == CHOOSE r \in RequestIds : TRUE   \* the subscription it follows

(* Its firing at the node i is one sample of the target it was first sent  *)
(* with; anything else raises.                                             *)
SamplesAt(lg, i) == {v \in lg[i].values : lg[v].topic = "value" /\ lg[v].body = "sample"}

Subscribed(lg, w) == \E k \in 1..w : lg[k].topic = "subscribe" /\ lg[k].rid = Asked

FiringRaises(lg, i, w) ==
  \/ \E v \in lg[i].values : lg[v].topic # "value"
  \/ ~Subscribed(lg, w)
  \/ Cardinality(SamplesAt(lg, i)) # 1

Fires(lg, S) == {i \in S : Asked \in lg[i].fired}

AnswersAlong(lg, S) ==
  LET nodes == Ascending(Fires(lg, S))
  IN  [k \in 1..Len(nodes) |-> <<nodes[k], CHOOSE v \in SamplesAt(lg, nodes[k]) : TRUE>>]

NoAnswers == [along |-> 0, list |-> <<>>, raises |-> FALSE]

(* The nodes back from the head n to the held head when n descends from    *)
(* it, to the root when it does not.                                       *)
ExtendsByAge(lg, a, n) ==     \* mutant: a newer head is taken for a descendant
  a.along <= n

Extends(lg, a, n) == a.along \in Lineage(lg, n) \cup {0}

AnswersPolled(lg, a, n, w) ==
  LET path == {i \in Lineage(lg, n) : Extends(lg, a, n) => i > a.along}
      kept == IF Extends(lg, a, n) THEN a.list ELSE <<>>
  IN  IF n = a.along THEN [a EXCEPT !.raises = FALSE]
      ELSE IF ChainRaises(lg, n) \/ \E i \in Fires(lg, path) : FiringRaises(lg, i, w)
      THEN [a EXCEPT !.raises = TRUE]
      ELSE [along |-> n, list |-> kept \o AnswersAlong(lg, path), raises |-> FALSE]
-----------------------------------------------------------------------------
(* Counts along a lineage (_NodeFold, PrefixLen, LastElement), of the      *)
(* commits and of one eager stream, and the walked reads they stand for.   *)
(* Two names are used, each the body of its values; a node's values are in *)
(* their own order, here by seq.                                           *)

Stream == "eager"

Names == {"eager", "sample"}

Malformed == -1   \* the state of a node whose every read raises

NotAValue(lg, i) == {v \in lg[i].values : lg[v].topic # "value"}

(* Nothing below the node at i is its claim's declaration, or it does not  *)
(* parse.                                                                  *)
NoClaim(lg, i) == lg[i].claim \notin Claims(lg, i - 1) \/ ~Readable(lg[lg[i].claim])

(* The names that the claim of the node at i declared sources. *)
Declared(lg, i) == IF lg[lg[i].claim].body = "declares" THEN {Stream} ELSE {}

Named(lg, i, name) == {v \in lg[i].values : lg[v].body = name}

MembersRaise(lg, i) ==
  NotAValue(lg, i) # {} \/ (Named(lg, i, Stream) # {} /\ NoClaim(lg, i))

MembersUndeclared(lg, i) == Named(lg, i, Stream)  \* mutant: the declaration is not read

(* The values of the stream that the node at i commits: none when its      *)
(* claim declares the name a source.                                       *)
MembersAt(lg, i) ==
  IF Named(lg, i, Stream) # {} /\ Stream \in Declared(lg, i) THEN {} ELSE Named(lg, i, Stream)

(* What a fold holds no state of: no node, or one that does not read. *)
NoState(lg, i) == ~IsNode(lg[i]) \/ ~Readable(lg[i]) \/ BadNode(lg, i)

(* state[n] from its parent's, for every node, as the fold holds it: what  *)
(* the node adds, or the error that every read through it raises.          *)
NodeStates(lg, Raises(_), Extend(_, _), root) ==
  LET state[i \in 0..Len(lg)] ==
        CASE i = 0 -> root
          [] i # 0 /\ NoState(lg, i) -> Malformed
          [] OTHER -> IF state[lg[i].ref] = Malformed \/ Raises(i) THEN Malformed
                      ELSE Extend(state[lg[i].ref], i)
  IN  state

CommitCounts(lg) ==
  NodeStates(lg, LAMBDA i : FALSE,
             LAMBDA n, i : IF lg[i].topic = "commit" THEN n + 1 ELSE n, 0)

StreamCounts(lg) ==
  NodeStates(lg, LAMBDA i : MembersRaise(lg, i),
             LAMBDA n, i : n + Cardinality(MembersAt(lg, i)), 0)

LastElements(lg) ==
  NodeStates(lg, LAMBDA i : MembersRaise(lg, i),
             LAMBDA v, i : IF MembersAt(lg, i) = {} THEN v ELSE NewestIn(MembersAt(lg, i)), 0)

(* What the walk back from a head reads: each committed value, root first, *)
(* classified by the declaration of the claim that committed it.           *)
Walked(lg, n) == Ascending(Lineage(lg, n))

Classified(lg, n) ==
  LET nodes == Walked(lg, n)
      At(i)  == LET vs == Ascending(lg[i].values)
                IN  [k \in DOMAIN vs |->
                       [node |-> i, seq |-> vs[k], name |-> lg[vs[k]].body,
                        is_source |-> lg[vs[k]].body \in Declared(lg, i)]]
  IN  FlattenSeq([k \in DOMAIN nodes |-> At(nodes[k])])

Members(lg, n) ==
  SelectSeq(Classified(lg, n), LAMBDA c : c.name = Stream /\ ~c.is_source)

Element(c) == <<c.node, c.seq>>

Series(lg, n) ==
  LET found == Members(lg, n) IN [k \in DOMAIN found |-> Element(found[k])]

(* prefix: its first k elements at the head h, or those there are. *)
Found(n, k, settled) ==
  CASE n >= k              -> "Complete"
    [] n < k /\ settled   -> "SettledShort"
    [] n < k /\ ~settled  -> "Pending"

Prefix(lg, h, k) ==
  LET found == Series(lg, h.node)
  IN  [is |-> Found(Len(found), k, h.settled),
       elements |-> SubSeq(found, 1, IF Len(found) < k THEN Len(found) ELSE k)]

LastOf(lg, n) ==
  LET found == Members(lg, n) IN IF found = <<>> THEN 0 ELSE Last(found).seq

(* streams: the names committed as elements, and as sources' samples. *)
StreamsOf(lg, n) ==
  LET all == ToSet(Classified(lg, n))
  IN  [eager   |-> {c.name : c \in {d \in all : ~d.is_source}},
       sources |-> {c.name : c \in {d \in all : d.is_source}}]

Count(lg, n, commits) ==
  IF commits THEN Cardinality({i \in Lineage(lg, n) : lg[i].topic = "commit"})
  ELSE Len(Members(lg, n))

(* count(axis, i) at each node i of the lineage, of the commits or of the  *)
(* stream, and the rows of aligned: the nodes that commit a wanted name.   *)
Axis(lg, n, commits) ==
  [i \in Lineage(lg, n) |->
     IF commits THEN Cardinality({j \in Lineage(lg, i) : lg[j].topic = "commit"})
     ELSE Len(SelectSeq(Members(lg, n), LAMBDA c : c.node <= i))]

Aligned(lg, n, names, commits) ==
  {[x |-> Axis(lg, n, commits)[i], node |-> i,
    cells |-> [name \in names |-> Named(lg, i, name)]] :
     i \in {j \in Lineage(lg, n) : \E name \in names : Named(lg, j, name) # {}}}

-----------------------------------------------------------------------------
(* The verdict of a claim (claim_verdict). *)

(* The records of the claim's window that it reads: another claim's are    *)
(* passed over, and one that names no claim may have been its own.         *)
VerdictWindow(lg, c, w) ==
  {i \in (c + 1)..w : lg[i].topic \in {"stopped", "died"} /\ lg[i].claim \in {0, c}}

Unread(lg, c, w) == {i \in VerdictWindow(lg, c, w) : ~Readable(lg[i])}

ReadableExits(lg, c, w) ==
  {i \in VerdictWindow(lg, c, w) : lg[i].topic = "stopped" /\ Readable(lg[i])}

(* The outcomes of the death reports, less lost beside another. *)
ReportOutcomesLast(lg, c, w) == \* mutant: the newest report alone is kept
  LET reports == {i \in VerdictWindow(lg, c, w) : lg[i].topic = "died" /\ Readable(lg[i])}
  IN  IF reports = {} THEN {} ELSE {lg[NewestIn(reports)].body}

ReportOutcomes(lg, c, w) ==
  LET reports == {i \in VerdictWindow(lg, c, w) : lg[i].topic = "died" /\ Readable(lg[i])}
      all == {lg[i].body : i \in reports} \cup
             (IF \E i \in Unread(lg, c, w) : lg[i].claim = c THEN {"lost"} ELSE {})
  IN  IF Cardinality(all) > 1 THEN all \ {"lost"} ELSE all

ClaimVerdict(lg, c, w) ==
  LET exits == ReadableExits(lg, c, w)
      Is(tier, outcomes) == [tier |-> tier, outcomes |-> outcomes,
                             malformed |-> IF tier = "held" THEN {} ELSE Unread(lg, c, w)]
  IN  CASE Cardinality(exits) > 1 -> Is("raises", {})
        [] Cardinality(exits) = 1 -> Is("EXIT", {lg[i].body : i \in exits})
        [] exits = {} /\ ReportOutcomes(lg, c, w) # {} -> Is("DIED", ReportOutcomes(lg, c, w))
        [] exits = {} /\ ReportOutcomes(lg, c, w) = {} -> Is("held", {})

(* The claim's newest commit or heartbeat: the newest of the log's, when   *)
(* that names the claim, else searched back from there to the claim.       *)
CurrentHeartbeat(lg, c, w) ==
  LET marks == {i \in (c + 1)..w : lg[i].topic \in {"commit", "heartbeat"}}
      mine  == {i \in marks : lg[i].claim = c}
      top   == NewestIn(marks)
  IN  IF marks = {} THEN 0 ELSE IF top \in mine THEN top ELSE Backward(mine, c, top)

(* How the run ended: the newest claim's verdict, or the end of the newest *)
(* launch when nothing ever claimed.                                       *)
LatestEpisode(lg, w) == IF Claims(lg, w) = {} THEN 0 ELSE NewestIn(Claims(lg, w))

LaunchEnd(lg, w) ==
  IF \E i \in 1..w : lg[i].topic = "terminated" THEN "TERMINATED" ELSE "held"

PeekTerminal(lg, w) ==
  IF LatestEpisode(lg, w) # 0 THEN ClaimVerdict(lg, LatestEpisode(lg, w), w)
  ELSE [tier |-> LaunchEnd(lg, w), outcomes |-> {}, malformed |-> {}]

WorkerCompleted(verdict) == verdict.tier = "EXIT" /\ verdict.outcomes = {"completed"}

-----------------------------------------------------------------------------
(* What anybody may write, of the topics that the observed fold reads. *)

Nodes(lg) == {i \in 1..Len(lg) : IsNode(lg[i])}

(* A record of claim c, at node n; a record about request r.               *)
OfClaim(c, topic, body, n) ==
  [Blank EXCEPT !.topic = topic, !.body = body, !.claim = c, !.ref = n]

OfRequest(c, topic, r) ==
  [Blank EXCEPT !.topic = topic, !.claim = c, !.rid = r]

Starting(lg) ==
  {OfClaim(0, "started", "", n) : n \in {0} \cup Nodes(lg)}

Writing(lg, topic, body) ==
  {OfClaim(c, topic, body, n) : c \in Claims(lg, Len(lg)), n \in {0} \cup Nodes(lg)}

(* A record of a claim whose body does not parse. *)
Junk(lg, topics) ==
  {OfClaim(c, t, "junk", 0) : t \in topics, c \in Claims(lg, Len(lg))}

HeadWrites(lg) ==
  Starting(lg) \cup {[Blank EXCEPT !.topic = "started", !.body = "junk"]}
  \cup Writing(lg, "commit", "") \cup Writing(lg, "rewind", "")
  \cup Writing(lg, "stopped", "completed") \cup Writing(lg, "stopped", "preempted")
  \cup Junk(lg, {"commit", "rewind", "stopped"})

DemandWrites(lg) ==
  Starting(lg) \cup Writing(lg, "rewind", "")
  \cup {[e EXCEPT !.expired = x] : e \in Writing(lg, "commit", ""), x \in SUBSET RequestIds}
  \cup {[e EXCEPT !.honored = RequestIds] : e \in Writing(lg, "stopped", "preempted")}
  \cup Writing(lg, "stopped", "completed") \cup Junk(lg, {"stopped"})
  \cup {Control(t, r, b) : t \in {"subscribe"}, r \in RequestIds, b \in {"durable", "lease"}}
  \cup {Control("withdraw", r, "") : r \in RequestIds}
  \cup {OfRequest(c, t, r) : t \in {"bound", "died"}, c \in Claims(lg, Len(lg)), r \in RequestIds}

StopWrites(lg) ==
  {Control(t, r, "now") : t \in {"stop"}, r \in StopIds \cup {NoId}}
  \cup {Control("withdraw", r, "") : r \in StopIds \cup {NoId}}
  \cup {[Blank EXCEPT !.topic = "nak", !.rid = r] : r \in StopIds}
  \cup {[Blank EXCEPT !.topic = "stopped", !.honored = x, !.body = b] :
           x \in SUBSET StopIds, b \in {"preempted", "junk"}}

ValuesOf(lg) == {i \in 1..Len(lg) : lg[i].topic = "value"}

(* A commit of values that fires subscriptions. *)
Firing(n, vs, x) == [OfClaim(0, "commit", "", n) EXCEPT !.values = vs, !.fired = x]

AnswerWrites(lg) ==
  {Control("subscribe", r, "durable") : r \in RequestIds}
  \cup {[Blank EXCEPT !.body = b] : b \in {"sample", "eager"}}
  \cup {Firing(n, vs, x) :
           n \in {0} \cup Nodes(lg), vs \in SUBSET ValuesOf(lg), x \in SUBSET RequestIds}

CountWrites(lg) ==
  {[Blank EXCEPT !.topic = "started", !.body = b] : b \in {"", "declares", "junk"}}
  \cup {[Blank EXCEPT !.body = b] : b \in {"sample", "eager"}}
  \cup {[e EXCEPT !.values = vs] : e \in Writing(lg, "commit", "") \cup
            Writing(lg, "stopped", "preempted") \cup Writing(lg, "stopped", "completed"),
           vs \in SUBSET ValuesOf(lg)}
  \cup {[e EXCEPT !.values = {e.claim}] : e \in Writing(lg, "commit", "")}  \* no value
  \cup Junk(lg, {"commit"})

VerdictWrites(lg) ==
  {[Blank EXCEPT !.topic = "started"]}
  \cup {[Blank EXCEPT !.topic = "stopped", !.claim = c, !.body = b] :
           c \in Claims(lg, Len(lg)), b \in {"completed", "preempted", "errored"}}
  \cup {[Blank EXCEPT !.topic = "died", !.claim = c, !.body = b] :
           c \in Claims(lg, Len(lg)), b \in {"lost", "cause", "errored"}}
  \cup Junk(lg, {"stopped", "died"})
  \cup {[Blank EXCEPT !.topic = "died", !.body = "junk"]}

Writable ==
  CASE watching = "head"    -> HeadWrites(log)
    [] watching = "demand"  -> DemandWrites(log)
    [] watching = "stops"   -> StopWrites(log)
    [] watching = "answers" -> AnswerWrites(log)
    [] watching = "counts"  -> CountWrites(log)
    [] watching = "verdict" -> VerdictWrites(log)
    [] OTHER                -> {}

-----------------------------------------------------------------------------

Init ==
  /\ watching \in Watch
  /\ log = <<>>
  /\ head = NewHeadFold
  /\ demand = NewLiveDemand
  /\ ans = NoAnswers
  /\ stops = NewPendingStops

Write ==
  /\ Len(log) < MaxLog[watching]
  /\ \E e \in Writable : log' = Append(log, e)
  /\ UNCHANGED <<watching, head, demand, ans, stops>>

PollHead ==
  /\ watching = "head"
  /\ \/ head' = HeadPolled(log, head, Len(log))
     \/ head' \in HeadCuts(log, head, Len(log))
  /\ UNCHANGED <<log, watching, demand, ans, stops>>

PollDemand ==
  /\ watching = "demand"
  /\ \/ demand' = DemandPolled(log, demand, Len(log))
     \/ demand' \in DemandCuts(log, demand, Len(log))
  /\ UNCHANGED <<log, watching, head, ans, stops>>

(* The head that names its node. *)
AtNode(n) == [node |-> n, settled |-> TRUE]

(* Polled at any head its caller resolved: the root, or any node. *)
Heads(lg) == {0} \cup {n \in Nodes(lg) : Readable(lg[n])}

PollAnswers ==
  /\ watching = "answers"
  /\ \E n \in Heads(log) : ans' = AnswersPolled(log, ans, n, Len(log))
  /\ UNCHANGED <<log, watching, head, demand, stops>>

PollStops ==
  /\ watching = "stops"
  /\ stops' = StopsPolled(log, stops, Len(log))
  /\ UNCHANGED <<log, watching, head, demand, ans>>

Next == Write \/ PollHead \/ PollDemand \/ PollAnswers \/ PollStops

Spec == Init /\ [][Next]_vars

-----------------------------------------------------------------------------
(* The properties: what a poll would now answer is what the pure read      *)
(* says of the log, whatever was polled, or cut, before.                   *)

(* The newest claim's head, read from the definition of a head. *)
LatestClaimHead(lg, w) ==
  LET c == NewestIn(Claims(lg, w))
      n == CHOOSE n \in 0..w : IsHead(lg, c, w, n)
  IN  IF Claims(lg, w) = {} THEN [raises |-> FALSE, node |-> 0, settled |-> FALSE]
      ELSE IF ~HeadReadable(lg, c, w) THEN [raises |-> TRUE, node |-> 0, settled |-> FALSE]
      ELSE [raises |-> FALSE, node |-> n, settled |-> n # 0 /\ Closed(lg[n])]

(* HeadFold: a held head equals LatestClaimHead at every W, and raises      *)
(* where it raises, although it reads only what landed since its last poll  *)
(* and a poll may have been cut by a read that raised; and worker_completed *)
(* says of the verdict what the head says, that it is closed.               *)
HeadFoldAgrees ==
  watching = "head" =>
    LET h == Resolved(log, HeadPolled(log, head, Len(log)).at)
    IN  /\ h = LatestClaimHead(log, Len(log))
        /\ ~h.raises => (h.settled <=> WorkerCompleted(PeekTerminal(log, Len(log))))

(* The subscriptions live at w, from the definition in live_demand. *)
SendsOf(lg, r, w) == {i \in 1..w : lg[i].topic = "subscribe" /\ lg[i].rid = r}

IsLease(lg, r, w) ==
  \E i \in SendsOf(lg, r, w) : lg[i].body = "lease" /\ \A j \in SendsOf(lg, r, w) : i <= j

ExpiredAnywhere(lg, r, w) ==
  \E i \in 1..w : IsNode(lg[i]) /\ Readable(lg[i]) /\ r \in lg[i].expired

Standing(lg, r, w) ==
  /\ SendsOf(lg, r, w) # {} /\ r \notin Spent(lg, w)
  /\ IsLease(lg, r, w) => ~Void(lg, r, w) /\ ~ExpiredAnywhere(lg, r, w)

LiveDemandAt(lg, w) ==
  LET h == LatestClaimHead(lg, w)
      standing == {r \in RequestIds : Standing(lg, r, w)}
      placing  == \E r \in standing : ExpiredAnywhere(lg, r, w)
      raises   == h.raises \/ (~h.settled /\ placing /\ ChainRaises(lg, h.node))
      live     == {r \in standing : r \notin ExpiredOn(lg, h.node)}
  IN  [raises |-> raises,
       live |-> IF raises \/ h.settled THEN {} ELSE {NewestIn(SendsOf(lg, r, w)) : r \in live}]

(* The stops pending at w, from the definition in undischarged_stops: the  *)
(* newest send of each id that nothing has spent, anywhere.                *)
UndischargedStops(lg, w) ==
  Ascending({i \in 1..w : /\ lg[i].topic = "stop" /\ lg[i].rid \in StopIds \ Spent(lg, w)
                          /\ \A j \in (i + 1)..w : lg[j].topic = "stop" => lg[j].rid # lg[i].rid})

(* LiveDemand: the held answer fold equals live_demand's definition: a      *)
(* lease dies with its claim or at any expiry, a durable subscription lives *)
(* again when the head leaves the lineage that expired it, and nothing is   *)
(* demanded of a closed head; and PendingStops equals undischarged_stops,   *)
(* whose stops are spent by name, whatever was sent or spent first.         *)
DemandAgrees ==
  /\ watching = "demand" =>
       LET polled == DemandPolled(log, demand, Len(log))
       IN  DemandAnswer(log, polled) = LiveDemandAt(log, Len(log))
  /\ watching = "stops" =>
       StopsPolled(log, stops, Len(log)).pending = UndischargedStops(log, Len(log))

(* Answers: the held list, extended along a head that descends from the    *)
(* last one and derived anew elsewhere, is the list along the head asked.   *)
AnswersAgree ==
  watching = "answers" =>
    \A n \in Heads(log) :
      LET polled == AnswersPolled(log, ans, n, Len(log))
          nodes  == Lineage(log, n)
          raises == \/ ChainRaises(log, n)
                    \/ \E i \in Fires(log, nodes) : FiringRaises(log, i, Len(log))
      IN  /\ polled.raises = raises
          /\ ~raises => polled.list = AnswersAlong(log, nodes)

(* PrefixLen and LastElement, and the walked reads: the count and the last *)
(* element that the fold holds at a node are those of the walk back from   *)
(* it, and it raises where the walk does, but for a value committed twice, *)
(* which only the walk looks for; an aligned row stands at the count its   *)
(* node had when it was itself the head, the name is a stream of the       *)
(* lineage when some element is counted, and a complete prefix stays the   *)
(* prefix at every head that extends it.                                   *)
CountsAgree ==
  watching = "counts" =>
    \A n \in Heads(log) :
      LET nodes   == Lineage(log, n)
          raises  == ChainRaises(log, n) \/ \E i \in nodes : MembersRaise(log, i)
      IN  IF raises THEN StreamCounts(log)[n] = Malformed
          ELSE \/ WalkRaises(log, n)
               \/ /\ StreamCounts(log)[n] = Count(log, n, FALSE)
                  /\ CommitCounts(log)[n] = Count(log, n, TRUE)
                  /\ LastElements(log)[n] = LastOf(log, n)
                  /\ \A row \in Aligned(log, n, Names, FALSE) : row.x = StreamCounts(log)[row.node]
                  /\ \A row \in Aligned(log, n, Names, TRUE) : row.x = CommitCounts(log)[row.node]
                  /\ \/ \E i \in nodes : log[i].values # {} /\ NoClaim(log, i)
                     \/ Stream \in StreamsOf(log, n).eager <=> StreamCounts(log)[n] > 0
                  /\ \A m \in nodes, k \in 1..Count(log, n, FALSE) :
                       StreamCounts(log)[m] >= k =>
                         Prefix(log, AtNode(m), k) = Prefix(log, AtNode(n), k)

(* claim_verdict: a claim that has ended stays ended, its causes of death   *)
(* only grow as reports arrive in any order, and an exit, once it is the    *)
(* verdict, is replaced by nothing but the refusal of a second one.         *)
VerdictOnlyGrows ==
  [][\A c \in Claims(log, Len(log)) :
       LET old == ClaimVerdict(log, c, Len(log))
           new == ClaimVerdict(log', c, Len(log'))
       IN  CASE old.tier = "raises" -> new.tier = "raises"
             [] old.tier = "EXIT"   -> \/ new.tier = "raises"
                                       \/ new = [old EXCEPT !.malformed = new.malformed]
             [] old.tier = "DIED"   -> \/ new.tier = "EXIT"
                                       \/ /\ new.tier = "DIED"
                                          /\ old.outcomes \ {"lost"} \subseteq new.outcomes
             [] old.tier = "held"   -> Endings(log, c, Len(log)) = {}
    ]_vars
=============================================================================
