------------------------------- MODULE RunLog -------------------------------
(***************************************************************************)
(* The records of a run's log and the reads every party shares: which      *)
(* claim a record names and ends (claims.py), what kind of node a record   *)
(* is and the lineage that ends at it (walk.py), and the newest claim's    *)
(* head (observables.py, _ClaimHead).                                      *)
(*                                                                         *)
(* A log is a sequence, a record's seq its index.  Every operator takes    *)
(* the log, and the bound W the code reads up to, as parameters: the log   *)
(* only grows, so a read bounded by W means the same whenever it is made.  *)
(* A missing node reference (None in the code) is 0, which no record has   *)
(* for its seq.                                                            *)
(***************************************************************************)
EXTENDS Naturals, Sequences, FiniteSets

CONSTANTS
  RequestIds,   \* the non-empty request ids askers use
  NoId          \* a missing or empty request_id: a nameless record

ASSUME IdAssumption == NoId \notin RequestIds

ControlTopics == {"stop", "withdraw", "subscribe", "unknown"}

Topics == ControlTopics \cup
  {"started", "commit", "heartbeat", "rewind", "stopped", "value", "nak",
   "bound", "died"}

(* What the properties tell apart of a body: a stop holds at once, later,  *)
(* or is refused; a subscription is durable, a lease, or refused; an exit  *)
(* says how it ended; a death report has a cause or not (lost); a value is *)
(* an eager element or a source's sample; a claim declares the element's   *)
(* name a source or not.  A junk body does not parse: nothing of it is     *)
(* read but the claim it names.                                            *)
Bodies == {"", "now", "later", "bad", "durable", "lease",
           "completed", "preempted", "errored", "lost", "cause",
           "eager", "sample", "declares", "junk"}

Readable(e) == e.body # "junk"

(* The bodies a control record of each topic carries. *)
WellBodied(e) ==
  /\ e.topic = "stop" => e.body \in {"now", "later", "bad"}
  /\ e.topic = "subscribe" => e.body \in {"durable", "lease", "bad"}

Fields ==
  [topic    : Topics,
   rid      : RequestIds \cup {NoId},  \* request_id
   claim    : Nat,                     \* claim_seq, 0 when it names none
   ref      : Nat,                     \* parent or resume_from, 0 for None
   consumed : Nat,                     \* consumed_seq
   values   : SUBSET Nat,              \* a node's committed value seqs
   torn     : BOOLEAN,                 \* an exit whose values are null
   honored  : SUBSET RequestIds,
   fired    : SUBSET RequestIds,
   expired  : SUBSET RequestIds,
   body     : Bodies]

Record == {e \in Fields : WellBodied(e)}

Blank ==
  [topic |-> "value", rid |-> NoId, claim |-> 0, ref |-> 0, consumed |-> 0,
   values |-> {}, torn |-> FALSE, honored |-> {}, fired |-> {},
   expired |-> {}, body |-> ""]

(* A control record as an asker sends it. *)
Control(topic, r, body) ==
  [Blank EXCEPT !.topic = topic, !.rid = r, !.body = body]

IsControl(e) == e.topic \in ControlTopics

(***************************************************************************)
(* Claims (claims.py).                                                     *)
(***************************************************************************)

Claims(lg, w) == {i \in 1..w : lg[i].topic = "started"}

IsNewestClaim(lg, c, w) ==
  /\ c \in Claims(lg, w)
  /\ \A d \in Claims(lg, w) : d <= c

(* The records at or below w that end claim c, by presence alone. *)
Endings(lg, c, w) ==
  {i \in (c + 1)..w : lg[i].topic \in {"stopped", "died"} /\ lg[i].claim = c}

HasExit(lg, c, w) ==
  \E i \in Endings(lg, c, w) : lg[i].topic = "stopped" /\ Readable(lg[i])

ReportedCause(lg, c, w) ==    \* mutant: a report that knows no cause is passed over
  \E i \in Endings(lg, c, w) : lg[i].topic = "died" /\ lg[i].body = "cause"

Reported(lg, c, w) == \E i \in Endings(lg, c, w) : lg[i].topic = "died"

(* The ids a record spends by name, for the whole log; a nameless record   *)
(* spends nothing.                                                         *)
SpentByAnyId(e) ==            \* mutant: the empty id is spent like a name
  CASE e.topic = "stopped"             -> e.honored
    [] e.topic \in {"withdraw", "nak"} -> {e.rid}
    [] OTHER                           -> {}

SpentBy(e) ==
  CASE e.topic = "stopped"             -> IF Readable(e) THEN e.honored ELSE {}
    [] e.topic \in {"withdraw", "nak"} -> {e.rid} \ {NoId}
    [] OTHER                           -> {}

Spent(lg, w) == UNION {SpentBy(lg[i]) : i \in 1..w}

(* A lease bound to a claim that has ended is void (Bindings.void). *)
Void(lg, r, w) ==
  \E i \in 1..w : /\ lg[i].topic = "bound" /\ Readable(lg[i])
                  /\ lg[i].rid = r
                  /\ lg[i].claim \in Claims(lg, w)
                  /\ Endings(lg, lg[i].claim, w) # {}

(* The records of claim c that carry a watermark, and the watermark of the *)
(* newest claim at or below w that wrote one, 0 when none did.             *)
Marks(lg, c, w) ==
  {i \in (c + 1)..w : /\ lg[i].topic \in {"commit", "heartbeat", "stopped"}
                      /\ lg[i].topic = "stopped" \/ Readable(lg[i])
                      /\ lg[i].claim = c}

MarkOf(lg, i) == IF lg[i].topic = "stopped" THEN i ELSE lg[i].consumed

PreviousWatermark(lg, w) ==
  LET marked == {c \in Claims(lg, w) : Marks(lg, c, w) # {}}
      newest == CHOOSE c \in marked : \A d \in marked : d <= c
      marks  == Marks(lg, newest, w)
  IN  IF marked = {} THEN 0
      ELSE MarkOf(lg, CHOOSE i \in marks : \A j \in marks : j <= i)

(***************************************************************************)
(* Nodes and lineages (walk.py).                                           *)
(***************************************************************************)

IsNode(e) == e.topic \in {"commit", "stopped"}

Closed(e) == e.topic = "stopped" /\ e.body = "completed"
Torn(e)   == e.topic = "stopped" /\ e.body # "completed" /\ e.torn

Extendable(lg, w) ==
  {i \in 1..w : /\ IsNode(lg[i]) /\ Readable(lg[i])
                /\ ~Closed(lg[i]) /\ ~Torn(lg[i])}

(* The nodes of the lineage that ends at n, n included; empty at the root. *)
Lineage(lg, n) ==
  LET chain[i \in 0..Len(lg)] ==
        IF i = 0 THEN {}
        ELSE {i} \cup (IF lg[i].ref < i THEN chain[lg[i].ref] ELSE {})
  IN  chain[n]

CommittedOn(lg, n) == UNION {lg[i].values : i \in Lineage(lg, n)}

ExpiredOn(lg, n) == UNION {lg[i].expired : i \in Lineage(lg, n)}

(* check_node fails of the node at i: it names a value at or above itself, *)
(* or a parent that is no extendable node below it.                        *)
BadReference(lg, i) == lg[i].ref # 0 /\ lg[i].ref \notin Extendable(lg, i - 1)

BadNode(lg, i) == (\E v \in lg[i].values : v >= i) \/ BadReference(lg, i)

(* What chain raises of the lineage that ends at n, and what the walk      *)
(* raises: some node's check fails, some node commits what is no value, or *)
(* a value is committed twice along the lineage.                           *)
ChainRaises(lg, n) ==
  \E i \in Lineage(lg, n) : ~Readable(lg[i]) \/ BadNode(lg, i)

WalkRaises(lg, n) ==
  LET nodes == Lineage(lg, n)
  IN  \/ ChainRaises(lg, n)
      \/ \E i \in nodes, v \in 1..Len(lg) :
           v \in lg[i].values /\ lg[v].topic # "value"
      \/ \E i, j \in nodes : i # j /\ lg[i].values \cap lg[j].values # {}

(***************************************************************************)
(* The head fold (observables.py, _ClaimHead).                             *)
(***************************************************************************)

(* The records of claim c below seq i that leave a position. *)
Positions(lg, c, i) ==
  {c} \cup {j \in (c + 1)..(i - 1) :
              lg[j].topic \in {"commit", "rewind"} /\ lg[j].claim = c}

(* p is claim c's position just below seq i. *)
IsPosition(lg, c, i, p) ==
  \E j \in Positions(lg, c, i) :
    /\ \A k \in Positions(lg, c, i) : k <= j
    /\ p = (IF lg[j].topic = "commit" THEN j ELSE lg[j].ref)

(* The records the head fold attributes to claim c (_claims): an exit that *)
(* does not parse is absent for the head.                                  *)
OwnedBy(e, c) ==
  /\ e.topic \in {"commit", "rewind", "stopped"} /\ e.claim = c
  /\ e.topic = "stopped" => Readable(e)

(* The fold over claim c's records at or below w meets nothing it refuses: *)
(* each body parses, each resume_from names an extendable node below it,   *)
(* each node's parent is the position before it, and nothing follows the   *)
(* exit.                                                                   *)
HeadReadable(lg, c, w) ==
  LET own == {i \in (c + 1)..w : OwnedBy(lg[i], c)}
  IN  /\ \A i \in {c} \cup own : Readable(lg[i])
      /\ \A i \in {c} \cup {j \in own : lg[j].topic = "rewind"} : ~BadReference(lg, i)
      /\ \A i \in own : lg[i].topic # "rewind" => IsPosition(lg, c, i, lg[i].ref)
      /\ \A i, j \in own : i < j => lg[i].topic # "stopped"

(* n is claim c's head at w: its exit, or its position. *)
IsHead(lg, c, w, n) ==
  IF HasExit(lg, c, w)
  THEN n \in Endings(lg, c, w) /\ lg[n].topic = "stopped" /\ Readable(lg[n])
  ELSE IsPosition(lg, c, w + 1, n)

(* What a stateless worker resumes from: the head, or a torn head's parent. *)
ResumeNodeRoot(lg, n) ==      \* mutant: a torn head resumes from the root
  IF n # 0 /\ Torn(lg[n]) THEN 0 ELSE n

ResumeNode(lg, n) == IF n # 0 /\ Torn(lg[n]) THEN lg[n].ref ELSE n
=============================================================================
