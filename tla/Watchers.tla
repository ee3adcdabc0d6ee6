------------------------------ MODULE Watchers ------------------------------
(***************************************************************************)
(* The clients that wait on a run (watcher.py): the Watcher's witness of   *)
(* one run, by its newest claim or by the claim of a launch whose handle   *)
(* it holds, and await_consumed, which waits for the answer to one control *)
(* request.  As in Observers, the log is anybody's, a behaviour has one    *)
(* client, and a poll takes W first and reads nothing above it, so a poll  *)
(* is one step, but for the reap that a Watcher's poll may make.           *)
(***************************************************************************)
EXTENDS Observers

VARIABLES
  wt,     \* a Watcher's _Witness, and what its poll returned
  ev,     \* what became of the records that its event cursor passed
  ask     \* a call of await_consumed

clientVars == <<log, watching, head, demand, ans, stops, wt, ev, ask>>

-----------------------------------------------------------------------------
(* The Watcher.  Its subject is every claim (observe) or one launch's (add). *)

Owns(subject, e) == subject = NoId \/ e.rid = subject

OwnedIn(lg, subject, topic, S) ==
  {i \in S : lg[i].topic = topic /\ Owns(subject, lg[i])}

LatestOf(S) == IF S = {} THEN 0 ELSE NewestIn(S)

Beacons == {"commit", "heartbeat", "rewind"}

(* The readable records of a claim: its own, its commits, heartbeats and   *)
(* rewinds; and the newest at registration, searched back to the claim.    *)
BeaconsOf(lg, c, w) ==
  {i \in c..w : /\ i = c \/ (lg[i].topic \in Beacons /\ lg[i].claim = c)
                /\ Readable(lg[i])}

Seed(lg, c, w) ==
  LET found == Backward(BeaconsOf(lg, c, w), c, w)
  IN  IF found # 0 THEN found ELSE IF Readable(lg[c]) THEN c ELSE 0

NoWitness == [subject |-> NoId, w |-> 0, claim |-> 0, seen |-> 0,
              end |-> 0, endRead |-> 0, status |-> "none",
              reaped |-> FALSE,        \* its handle's end is recorded
              drained |-> 0,           \* its event cursor
              call |-> "none"]         \* where a wait on it stands

Registered(lg, subject, w) ==
  LET c == LatestOf(OwnedIn(lg, subject, "started", 1..w))
  IN  [NoWitness EXCEPT !.subject = subject, !.w = w, !.claim = c, !.status = "polls",
                        !.seen = IF c = 0 THEN 0 ELSE Seed(lg, c, w)]

WitnessAny(lg, wt0, i) ==     \* mutant: another launch's claim is witnessed
  LET e == lg[i]
  IN  CASE e.topic = "started" ->
             [wt0 EXCEPT !.claim = i, !.seen = IF Readable(e) THEN i ELSE @]
        [] e.topic \in Beacons /\ wt0.claim # 0 /\ e.claim = wt0.claim ->
             [wt0 EXCEPT !.seen = IF Readable(e) THEN i ELSE @]
        [] OTHER -> wt0

Witness(lg, wt0, i) ==
  LET e == lg[i]
  IN  CASE e.topic = "started" /\ Owns(wt0.subject, e) ->
             [wt0 EXCEPT !.claim = i, !.seen = IF Readable(e) THEN i ELSE @]
        [] e.topic \in Beacons /\ wt0.claim # 0 /\ e.claim = wt0.claim ->
             [wt0 EXCEPT !.seen = IF Readable(e) THEN i ELSE @]
        [] OTHER -> wt0

(* A poll of the witness to w, and the newest end of an unclaimed launch,  *)
(* read only above the last one read.                                      *)
Witnessed(lg, wt0, w) ==
  LET to == Applied(LAMBDA x, i : Witness(lg, x, i), wt0, wt0.w, w)
      ends == OwnedIn(lg, wt0.subject, "terminated", (wt0.endRead + 1)..w)
  IN  IF to.claim # 0 THEN [to EXCEPT !.w = w]
      ELSE [to EXCEPT !.w = w, !.endRead = w, !.end = LatestOf({@} \cup ends)]

(* The tier of the verdict of a claim, or of a launch that nothing claimed. *)
WitnessVerdict(lg, wt0) ==
  IF wt0.claim # 0 THEN ClaimVerdict(lg, wt0.claim, wt0.w).tier
  ELSE IF wt0.end # 0 THEN "TERMINATED" ELSE "held"

Ended(tier) == tier # "held"

-----------------------------------------------------------------------------
(* await_consumed. *)

AnswerTopics == {"nak", "commit", "heartbeat", "stopped"}

(* The record e takes the request r sent at seq. *)
Takes(e, r, seq) ==
  /\ Readable(e)
  /\ \/ e.topic \in {"heartbeat", "commit"} /\ e.consumed >= seq
     \/ e.topic \in {"commit", "stopped"} /\ r \in e.fired \cup e.expired
     \/ e.topic = "stopped" /\ r \in e.honored

(* refuse_void: a lease bound to another claim than the taker's, which has *)
(* ended.  That the taker's has ended refuses nothing.                     *)
VoidBeside(lg, seq, taker, w) ==
  /\ lg[seq].topic = "subscribe"
  /\ \E i \in 1..w : /\ lg[i].topic = "bound" /\ Readable(lg[i])
                     /\ lg[i].rid = lg[seq].rid /\ lg[i].claim # taker
                     /\ Endings(lg, lg[i].claim, w) # {}

NoAsk == [seq |-> 0, cursor |-> 0, exits |-> {}, result |-> "none"]

Asking(seq) == [NoAsk EXCEPT !.seq = seq, !.cursor = seq, !.result = "waits"]

RefusedAsk(lg, seq) ==
  \/ lg[seq].rid \in Spent(lg, seq - 1)
  \/ VoidBeside(lg, seq, 0, Len(lg))

(* What a poll reads above its cursor, up to the first refusal. *)
AskRead(lg, a, w) ==
  LET r    == lg[a.seq].rid
      naks == {i \in (a.cursor + 1)..w : lg[i].topic = "nak" /\ lg[i].rid = r}
      hi   == IF naks = {} THEN w ELSE CHOOSE i \in naks : \A j \in naks : i <= j
      read == {i \in (a.cursor + 1)..hi : lg[i].topic \in AnswerTopics}
  IN  [nak |-> naks # {}, takes |-> {i \in read : Takes(lg[i], r, a.seq)},
       exits |-> a.exits \cup
         {lg[i].claim : i \in {j \in read : lg[j].topic = "stopped" /\ Readable(lg[j])}}]

AskResultExitFirst(lg, a, w) == \* mutant: the exit is looked at before the takers
  LET got  == AskRead(lg, a, w)
      took == CHOOSE i \in got.takes : \A j \in got.takes : i <= j
      h    == LatestClaimHead(lg, w)
      c    == LatestOf(Claims(lg, w))
  IN  CASE got.nak -> "nak"
        [] ~got.nak /\ ~h.raises /\ c # 0 /\ (h.settled \/ c \in got.exits) -> "verdict"
        [] OTHER -> IF h.raises THEN "raises"
                    ELSE IF got.takes = {} THEN "waits"
                    ELSE IF VoidBeside(lg, a.seq, lg[took].claim, w) THEN "raises" ELSE "taken"

AskResult(lg, a, w) ==
  LET got  == AskRead(lg, a, w)
      took == CHOOSE i \in got.takes : \A j \in got.takes : i <= j
      h    == LatestClaimHead(lg, w)
      c    == LatestOf(Claims(lg, w))
  IN  CASE got.nak -> "nak"
        [] ~got.nak /\ got.takes # {} ->
             IF VoidBeside(lg, a.seq, lg[took].claim, w) THEN "raises" ELSE "taken"
        [] ~got.nak /\ got.takes = {} ->
             IF h.raises THEN "raises"
             ELSE IF c # 0 /\ (h.settled \/ c \in got.exits) THEN "verdict" ELSE "waits"

AskPolled(lg, a, w) ==
  [a EXCEPT !.cursor = w, !.exits = AskRead(lg, a, w).exits, !.result = AskResult(lg, a, w)]

-----------------------------------------------------------------------------
(* What anybody may write of what each client reads. *)

WatchWrites(lg) ==
  {[Blank EXCEPT !.topic = "started", !.rid = r, !.body = b] :
     r \in RequestIds \cup {NoId}, b \in {"", "junk"}}
  \cup {[Blank EXCEPT !.topic = t, !.claim = c, !.body = b] :
          t \in {"heartbeat", "stopped", "died"}, c \in Claims(lg, Len(lg)), b \in {"lost", "junk"}}
  \cup {[Blank EXCEPT !.topic = "terminated", !.rid = r] : r \in RequestIds}

(* A record of progress, with the watermark it carries; an exit, with the  *)
(* stops it honors; and what else is written of a request.                 *)
Marked(e, k) == [e EXCEPT !.consumed = k]

Honoring(e, x) == [e EXCEPT !.honored = x]

Heartbeats(lg) == {OfClaim(c, "heartbeat", "", 0) : c \in Claims(lg, Len(lg))}

Progress(lg) == Writing(lg, "commit", "") \cup Heartbeats(lg)

Marking(lg) == {Marked(e, k) : k \in {0, Len(lg)}, e \in Progress(lg)}

Exits(lg) ==
  Writing(lg, "stopped", "completed") \cup
  {Honoring(e, x) : x \in SUBSET RequestIds, e \in Writing(lg, "stopped", "preempted")}

Answers(lg) ==
  {OfRequest(c, t, r) :
     t \in {"nak", "bound", "died"}, c \in Claims(lg, Len(lg)), r \in RequestIds}

AwaitWrites(lg) ==
  {Control("stop", r, "later") : r \in RequestIds}
  \cup {Control("subscribe", r, "lease") : r \in RequestIds}
  \cup Starting(lg) \cup Marking(lg) \cup Exits(lg) \cup Answers(lg)

ClientWrite ==
  /\ watching \in Watch /\ Len(log) < MaxLog[watching]
  /\ \E e \in CASE watching \in {"watch", "wait"} -> WatchWrites(log)
                [] watching = "await" -> AwaitWrites(log)
                [] OTHER -> {} : log' = Append(log, e)
  /\ UNCHANGED <<watching, head, demand, ans, stops, wt, ev, ask>>

(* add and observe. *)
Track ==
  /\ watching \in {"watch", "wait"} /\ wt = NoWitness
  /\ \E r \in RequestIds \cup {NoId} : wt' = Registered(log, r, Len(log))
  /\ UNCHANGED <<log, watching, head, demand, ans, stops, ev, ask>>

(* What the poll returned: the log's verdict, one that it infers from the  *)
(* session or from the age of what it witnessed, or that the run goes on.  *)
Returned(polled) ==
  CASE Ended(WitnessVerdict(log', polled))                  -> {"ended"}
    [] ~Ended(WitnessVerdict(log', polled)) /\ wt.reaped    -> {"probed_dead"}
    [] ~Ended(WitnessVerdict(log', polled)) /\ ~wt.reaped   -> {"polls", "presumed"}

(* A wait, or a wait_all of one run, polls between its drains, until a      *)
(* verdict or its deadline.                                                *)
MayPoll == watching = "watch" \/ (watching = "wait" /\ wt.call = "polls")

AfterPoll(status) ==
  CASE watching = "watch"                       -> {"none"}
    [] watching # "watch" /\ status = "polls"   -> {"drains", "timeout"}
    [] watching # "watch" /\ status # "polls"   -> {"drains_last"}

PollWatch ==
  /\ MayPoll /\ wt.status # "none"
  /\ UNCHANGED log
  /\ LET polled == Witnessed(log, wt, Len(log))
     IN  \E status \in Returned(polled) : \E call \in AfterPoll(status) :
           wt' = [polled EXCEPT !.status = status, !.call = call]
  /\ UNCHANGED <<watching, head, demand, ans, stops, ev, ask>>

(* The poll of a held launch found no verdict, and finds its process dead: *)
(* it reaps, above whatever landed since its W, and polls once more.  The  *)
(* reap writes the launch's end, and the death of the claim that names it, *)
(* when the claimant was the child and its claim has no exit.              *)
Reaped(lg, r, child) ==
  LET c    == LatestOf(OwnedIn(lg, r, "started", 1..Len(lg)))
      ends == Append(lg, [Blank EXCEPT !.topic = "terminated", !.rid = r])
  IN  IF child /\ c # 0 /\ Readable(lg[c]) /\ ~HasExit(lg, c, Len(lg))
      THEN Append(ends, [Blank EXCEPT !.topic = "died", !.claim = c, !.body = "cause"])
      ELSE ends

ReapAndPoll ==
  /\ MayPoll /\ wt.subject \in RequestIds /\ ~wt.reaped
  /\ \E w \in wt.w..Len(log) : ~Ended(WitnessVerdict(log, Witnessed(log, wt, w)))
  /\ \E child \in BOOLEAN : log' = Reaped(log, wt.subject, child)
  /\ LET polled == Witnessed(log', wt, Len(log'))
         status == IF Ended(WitnessVerdict(log', polled)) THEN "ended" ELSE "probed_dead"
     IN  \E call \in AfterPoll(status) :
           wt' = [polled EXCEPT !.status = status, !.call = call,
                                  !.reaped = TRUE]
  /\ UNCHANGED <<watching, head, demand, ans, stops, ev, ask>>

(* wait, with a callback for the events: drain and poll in turn, and once  *)
(* more drain when a poll has returned a verdict.                          *)
CallWait ==
  /\ watching = "wait" /\ wt.status # "none" /\ wt.call = "none"
  /\ wt' = [wt EXCEPT !.call = "drains"]
  /\ UNCHANGED <<log, watching, head, demand, ans, stops, ev, ask>>

(* A drain (_drain) moves the event cursor past every record it reads, and *)
(* then they are handed on, one after the other: by a wait to its callback, *)
(* by iter_events to whoever iterates.  A callback may raise and a consumer *)
(* may break off: what is left of the batch is dropped, and the cursor is  *)
(* past it.                                                                *)
NoEvents == [handed |-> {},         \* what a callback or a consumer was given
             batch |-> {},          \* what the drain of a wait has read
             iter |-> {},           \* what a suspended generator holds
             dropped |-> FALSE]     \* history: part of a batch was dropped

Undelivered == (wt.drained + 1)..Len(log)

IdleClient == UNCHANGED <<log, watching, head, demand, ans, stops, ask>>

HandsOn == [drains |-> "hands", drains_last |-> "hands_last"]

NextCall == [hands |-> "polls", hands_last |-> "returned"]

Drain ==
  /\ wt.call \in DOMAIN HandsOn
  /\ wt' = [wt EXCEPT !.drained = Len(log), !.call = HandsOn[@]]
  /\ ev' = [ev EXCEPT !.batch = Undelivered]
  /\ IdleClient

HandOn ==
  /\ wt.call \in DOMAIN NextCall
  /\ wt' = [wt EXCEPT !.call = NextCall[@]]
  /\ ev' = [ev EXCEPT !.handed = @ \cup ev.batch, !.batch = {}]
  /\ IdleClient

(* The callback is given the records up to i, and raises out of the wait.  *)
HandOnRaises ==
  /\ wt.call \in DOMAIN NextCall
  /\ \E i \in ev.batch :
       ev' = [ev EXCEPT !.handed = @ \cup {j \in ev.batch : j <= i}, !.batch = {},
                        !.dropped = @ \/ i < wt.drained]
  /\ wt' = [wt EXCEPT !.call = "none"]
  /\ IdleClient

(* iter_events: the same cursor, between the waits.                        *)
Iterating == watching = "wait" /\ wt.status # "none" /\ wt.call = "none"

IterEvents ==
  /\ Iterating /\ ev.iter = {}
  /\ wt' = [wt EXCEPT !.drained = Len(log)]
  /\ ev' = [ev EXCEPT !.iter = Undelivered]
  /\ IdleClient

IterNext ==
  /\ Iterating
  /\ \E i \in ev.iter : /\ \A j \in ev.iter : i <= j
                        /\ ev' = [ev EXCEPT !.handed = @ \cup {i}, !.iter = @ \ {i}]
  /\ IdleClient /\ UNCHANGED wt

IterBreaks ==
  /\ Iterating /\ ev.iter # {}
  /\ ev' = [ev EXCEPT !.iter = {}, !.dropped = TRUE]
  /\ IdleClient /\ UNCHANGED wt

EventStep == Drain \/ HandOn \/ HandOnRaises \/ IterEvents \/ IterNext \/ IterBreaks

CallAwait ==
  /\ watching = "await" /\ ask = NoAsk
  /\ \E seq \in {i \in 1..Len(log) : log[i].topic \in {"stop", "subscribe"}} :
       ask' = IF RefusedAsk(log, seq) THEN [NoAsk EXCEPT !.result = "refused"] ELSE Asking(seq)
  /\ UNCHANGED <<log, watching, head, demand, ans, stops, wt, ev>>

PollAwait ==
  /\ watching = "await" /\ ask.result = "waits"
  /\ ask' = AskPolled(log, ask, Len(log))
  /\ UNCHANGED <<log, watching, head, demand, ans, stops, wt, ev>>

ClientInit == Init /\ wt = NoWitness /\ ev = NoEvents /\ ask = NoAsk

ClientNext ==
  \/ Next /\ UNCHANGED <<wt, ev, ask>>
  \/ ClientWrite \/ Track \/ PollWatch \/ ReapAndPoll \/ CallWait \/ EventStep
  \/ CallAwait \/ PollAwait

ClientSpec == ClientInit /\ [][ClientNext]_clientVars

-----------------------------------------------------------------------------
(* The properties. *)

(* Watcher.poll: the witness, which reads only what landed since its last  *)
(* poll, has the claim that its subject has, dates it by the newest        *)
(* readable record of that claim (as a search back from the log's end      *)
(* finds its newest heartbeat), and gives the verdict that the whole log   *)
(* gives, of an observed run the one peek_terminal reads; a handle found   *)
(* dead leaves no verdict only while a claim that the child did not make   *)
(* is held; and a wait that returns has drained every record under W, and  *)
(* has handed it on or left it to a suspended generator, unless a callback *)
(* raised or a consumer broke off: what is then left of a batch is lost to *)
(* every later wait, the cursor past it (_drain).                          *)
WatchAgrees ==
  watching \in {"watch", "wait"} /\ wt.status # "none" =>
    LET polled == Witnessed(log, wt, Len(log))
        claim  == LatestOf(OwnedIn(log, wt.subject, "started", 1..Len(log)))
        tier   == IF wt.subject = NoId THEN PeekTerminal(log, Len(log)).tier
                  ELSE IF claim # 0 THEN ClaimVerdict(log, claim, Len(log)).tier
                  ELSE IF OwnedIn(log, wt.subject, "terminated", 1..Len(log)) # {}
                  THEN "TERMINATED" ELSE "held"
    IN  /\ polled.claim = claim
        /\ claim # 0 /\ BeaconsOf(log, claim, Len(log)) # {} =>
             polled.seen = LatestOf(BeaconsOf(log, claim, Len(log)))
        /\ claim # 0 => CurrentHeartbeat(log, claim, Len(log)) =
             LatestOf({i \in (claim + 1)..Len(log) :
                         log[i].topic \in {"commit", "heartbeat"} /\ log[i].claim = claim})
        /\ WitnessVerdict(log, polled) = tier
        /\ wt.status = "probed_dead" => wt.claim # 0 /\ ~Ended(ClaimVerdict(log, wt.claim, wt.w).tier)
        /\ wt.call = "returned" =>
             /\ wt.w <= wt.drained
             /\ ~ev.dropped => 1..wt.w \subseteq ev.handed \cup ev.iter

(* await_consumed: the verdict of an ended claim is its answer only when   *)
(* no record at or below W took or refused the request; it goes on waiting *)
(* only while none did and the newest claim has not exited since; and what *)
(* it calls taken some record at or below the cursor took, and, of a lease, *)
(* one whose claim has no ended claim's binding of the lease beside it.    *)
(* The taker's own claim may have ended: a dead claim's late commit takes. *)
AwaitTells ==
  watching = "await" /\ ask.seq # 0 =>
    LET r     == log[ask.seq].rid
        above == (ask.seq + 1)..ask.cursor
        took  == {i \in above : Takes(log[i], r, ask.seq)}
        naked == \E i \in above : log[i].topic = "nak" /\ log[i].rid = r
        exited(lo) == \E i \in lo..ask.cursor :
                        /\ log[i].topic = "stopped" /\ Readable(log[i])
                        /\ IsNewestClaim(log, log[i].claim, ask.cursor)
    IN  /\ ask.result = "verdict" => took = {} /\ ~naked /\ exited(1)
        /\ ask.result = "waits" => took = {} /\ ~naked /\ ~exited(ask.seq + 1)
        /\ ask.result = "taken" =>
             \E i \in took : ~VoidBeside(log, ask.seq, log[i].claim, ask.cursor)
=============================================================================
